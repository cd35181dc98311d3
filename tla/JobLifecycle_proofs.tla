------------------------ MODULE JobLifecycle_proofs ------------------------
(***************************************************************************)
(* Theorems about JobLifecycle, for every set of connections and requests  *)
(* and every bound.                                                        *)
(***************************************************************************)
EXTENDS JobLifecycle, SequenceTheorems, TLAPS

-----------------------------------------------------------------------------
(* Frames and sequences                                                    *)

\* A job frame for any status is a frame.
LEMMA JobFrameType == \A s \in JobStatuses : JobFrame(s) \in Frame
  BY DEF JobFrame, Frame

\* The stages of the hello handler keep the frame's argument.
LEMMA HelloFrameType ==
  ASSUME NEW f \in Frame, NEW stage \in HelloStages, f.kind \in HelloStages
  PROVE  [kind |-> stage, arg |-> f.arg] \in Frame
  BY DEF Frame, HelloStages

\* A job frame and a resume frame carry a status.
LEMMA StatusArg ==
  ASSUME NEW f \in Frame, f.kind \in {"job", "resume"}
  PROVE  f.arg \in JobStatuses
  BY DEF Frame, HelloStages

\* The head and the rest of a non-empty sequence.
LEMMA HeadTail ==
  ASSUME NEW S, NEW q \in Seq(S), q # <<>>
  PROVE  Head(q) \in S /\ Tail(q) \in Seq(S)
  OBVIOUS

\* One element in front of a sequence.
LEMMA Prefixed ==
  ASSUME NEW S, NEW e \in S, NEW q \in Seq(S)
  PROVE  <<e>> \o q \in Seq(S)
  OBVIOUS

\* A single frame.
LEMMA OneFrame == \A f \in Frame : <<f>> \in Seq(Frame)
  OBVIOUS

\* What the hello handler owes is made of frames.
LEMMA ResumeType ==
  ASSUME NEW status \in JobStatuses
  PROVE  ResumeFrames(status) \in Seq(Frame)
  <1>1. [kind |-> "resume", arg |-> "dispatched"] \in Frame
    BY DEF Frame, JobStatuses
  <1>2. [kind |-> "resume",
         arg |-> IF status = "waiting_for_input" THEN "waiting_for_input" ELSE "running"]
          \in Frame
    BY DEF Frame, JobStatuses
  <1> QED
    BY <1>1, <1>2 DEF ResumeFrames

\* Reconciliation sends frames.
LEMMA ReconcileType ==
  ASSUME sStatus \in JobStatuses \cup {"none"}
  PROVE  ReconcileFrames \in Seq(Frame)
  <1>1. JobFrame("running") \in Frame
    BY JobFrameType DEF JobStatuses
  <1>2. sStatus # "none" => JobFrame(sStatus) \in Frame
    BY JobFrameType
  <1>3. CASE sStatus = "none"
    <2>1. ReconcileFrames = <<>>
      BY <1>3 DEF ReconcileFrames, SessionDone, TerminalStatuses
    <2> QED
      BY <2>1
  <1>4. CASE sStatus # "none" /\ SessionDone
    <2>1. ReconcileFrames = <<JobFrame(sStatus)>>
      BY <1>4 DEF ReconcileFrames, SessionDone
    <2> QED
      BY <2>1, <1>2, <1>4
  <1>5. CASE sStatus # "none" /\ ~SessionDone
    <2>1. ReconcileFrames = <<JobFrame("running"), JobFrame(sStatus)>>
      BY <1>5 DEF ReconcileFrames, SessionDone
    <2> QED
      BY <2>1, <1>1, <1>2, <1>5
  <1> QED
    BY <1>3, <1>4, <1>5 DEF SessionDone

\* What a throw leaves of a chain.
LEMMA AfterThrowType ==
  ASSUME NEW q \in Seq(Frame), q # <<>>
  PROVE  AfterThrow(q) \in Seq(Frame)
  <1>1. Tail(q) \in Seq(Frame) /\ Len(Tail(q)) = Len(q) - 1
    OBVIOUS
  <1>2. Len(q) > 1 => Tail(Tail(q)) \in Seq(Frame)
    <2> HAVE Len(q) > 1
    <2>1. Tail(q) # <<>>
      <3>1. Len(q) \in Nat /\ Len(Tail(q)) # 0
        BY <1>1
      <3> QED
        BY <1>1, <3>1, EmptySeq
    <2> QED
      BY <1>1, <2>1, HeadTail
  <1> QED
    BY <1>1, <1>2 DEF AfterThrow
-----------------------------------------------------------------------------
(* Type correctness                                                        *)

\* The initial state is well typed.
LEMMA TypeInit == Init => TypeOK
  <1> SUFFICES ASSUME Init PROVE TypeOK
    OBVIOUS
  <1> USE LifecycleAssumption DEF Init
  <1>1. RowType
    <2>1. written \in [Conn -> BOOLEAN] /\ late \in BOOLEAN /\ revoked \in BOOLEAN
      OBVIOUS
    <2> QED
      BY <2>1 DEF RowType
  <1>2. SocketType
    BY DEF SocketType, LinkState, Pending
  <1>3. HttpType
    BY DEF HttpType
  <1>4. ClientType
    BY DEF ClientType
  <1>5. SessionType
    <2>1. sCancelled \in BOOLEAN /\ sawCancel \in BOOLEAN
      OBVIOUS
    <2> QED
      BY <2>1 DEF SessionType
  <1>6. BoundType
    BY DEF BoundType
  <1> QED
    BY <1>1, <1>2, <1>3, <1>4, <1>5, <1>6 DEF TypeOK

\* A step that leaves a component's variables alone keeps their types.
LEMMA TypeKept ==
  /\ RowType /\ UNCHANGED rowVars => RowType'
  /\ SocketType /\ UNCHANGED socketVars => SocketType'
  /\ HttpType /\ UNCHANGED httpVars => HttpType'
  /\ ClientType /\ UNCHANGED clientVars => ClientType'
  /\ SessionType /\ UNCHANGED sessionVars => SessionType'
  /\ BoundType /\ UNCHANGED boundVars => BoundType'
  BY DEF RowType, SocketType, HttpType, ClientType, SessionType, BoundType,
         rowVars, socketVars, httpVars, clientVars, sessionVars, boundVars

\* A write of the row leaves it well typed.
LEMMA RowWrittenType ==
  ASSUME NEW status \in JobStatuses \cup {"none"}, RowWritten(status),
         revoked' \in BOOLEAN, alerts' \in 0..2
  PROVE  RowType'
  <1>1. late' \in BOOLEAN
    BY Zenon DEF RowWritten
  <1> QED
    BY <1>1 DEF RowType, RowWritten

\* Every step keeps the state well typed.
LEMMA TypeStep == TypeOK /\ [Next]_vars => TypeOK'
  <1> SUFFICES ASSUME TypeOK, [Next]_vars PROVE TypeOK'
    OBVIOUS
  <1> USE LifecycleAssumption
  <1>t. RowType /\ SocketType /\ HttpType /\ ClientType /\ SessionType /\ BoundType
    BY DEF TypeOK
  <1>a. ASSUME CanSendToAgent, NEW order \in Order PROVE SentToAgent(order) \in [Conn -> Seq(Order)]
    BY <1>t, <1>a DEF CanSendToAgent, IsOpen, SentToAgent, SocketType, ClientType
  <1>b. ASSUME NEW c \in Conn PROVE CloseSocket(c) \in [Conn -> LinkState]
    BY <1>t DEF CloseSocket, SocketType, LinkState
  <1>c. ASSUME NEW c \in Conn, NEW stage \in HelloStages, chain[c] # <<>>,
               Head(chain[c]).kind \in HelloStages, HelloNext(c, stage)
        PROVE  chain' \in [Conn -> Seq(Frame)]
    <2>1. chain \in [Conn -> Seq(Frame)]
      BY <1>t DEF SocketType
    <2>2. Head(chain[c]) \in Frame /\ Tail(chain[c]) \in Seq(Frame)
      BY <1>c, <2>1, HeadTail
    <2>3. [kind |-> stage, arg |-> Head(chain[c]).arg] \in Frame
      BY <1>c, <2>2, HelloFrameType
    <2>4. <<[kind |-> stage, arg |-> Head(chain[c]).arg]>> \o Tail(chain[c]) \in Seq(Frame)
      BY <2>2, <2>3, Prefixed
    <2> QED
      BY <1>c, <2>1, <2>4 DEF HelloNext
  <1>d. ASSUME NEW c \in Conn, chain[c] # <<>>, HelloThrows(c)
        PROVE  chain' \in [Conn -> Seq(Frame)] /\ link' \in [Conn -> LinkState]
    BY <1>t, <1>b, <1>d DEF HelloThrows, SocketType
  <1>e. ASSUME NEW frame \in Frame PROVE Sent(frame) \in [Conn -> Seq(Frame)]
    BY <1>t DEF Sent, SocketType, ClientType
  <1>1. CASE CreateJob
    <2>1. RowType'
      BY <1>t, <1>1, RowWrittenType DEF RowType, CreateJob, JobStatuses
    <2>2. HttpType'
      BY <1>t, <1>1 DEF HttpType, CreateJob, httpVars
    <2> QED
      BY <1>t, <1>1, <2>1, <2>2, TypeKept DEF CreateJob, TypeOK
  <1>2. CASE DispatchJob
    <2>1. HttpType'
      BY <1>t, <1>2 DEF HttpType, DispatchJob, httpVars
    <2>2. ClientType'
      BY <1>t, <1>2, <1>a DEF ClientType, DispatchJob, clientVars, Order
    <2> QED
      BY <1>t, <1>2, <2>1, <2>2, TypeKept DEF DispatchJob, TypeOK
  <1>3. CASE DispatchFailed
    <2>1. RowType'
      BY <1>t, <1>3, RowWrittenType DEF RowType, DispatchFailed, JobStatuses
    <2>2. HttpType'
      BY <1>t, <1>3 DEF HttpType, DispatchFailed, httpVars
    <2> QED
      BY <1>t, <1>3, <2>1, <2>2, TypeKept DEF DispatchFailed, TypeOK
  <1>4. ASSUME NEW r \in Request, CancelRead(r) PROVE TypeOK'
    <2>1. HttpType'
      BY <1>t, <1>4 DEF HttpType, CancelRead, httpVars
    <2> QED
      BY <1>t, <1>4, <2>1, TypeKept DEF CancelRead, TypeOK
  <1>5. ASSUME NEW r \in Request, CancelWrite(r) PROVE TypeOK'
    <2>1. RowType'
      BY <1>t, <1>5, RowWrittenType DEF RowType, CancelWrite, JobStatuses
    <2>2. HttpType'
      BY <1>t, <1>5 DEF HttpType, CancelWrite, httpVars
    <2> QED
      BY <1>t, <1>5, <2>1, <2>2, TypeKept DEF CancelWrite, TypeOK
  <1>6. ASSUME NEW r \in Request, CancelSend(r) PROVE TypeOK'
    <2>1. HttpType'
      BY <1>t, <1>6 DEF HttpType, CancelSend, httpVars
    <2>2. ClientType'
      BY <1>t, <1>6, <1>a DEF ClientType, CancelSend, clientVars, Order
    <2> QED
      BY <1>t, <1>6, <2>1, <2>2, TypeKept DEF CancelSend, TypeOK
  <1>7. ASSUME NEW r \in Request, CancelDetail(r) PROVE TypeOK'
    <2>1. RowType'
      BY <1>t, <1>7, RowWrittenType DEF RowType, CancelDetail
    <2>2. HttpType'
      BY <1>t, <1>7 DEF HttpType, CancelDetail, httpVars
    <2> QED
      BY <1>t, <1>7, <2>1, <2>2, TypeKept DEF CancelDetail, TypeOK
  <1>8. CASE RevokeCancelJobs
    <2>1. HttpType'
      BY <1>t, <1>8 DEF HttpType, RevokeCancelJobs, httpVars
    <2>2. ClientType'
      BY <1>t, <1>8, <1>a DEF ClientType, RevokeCancelJobs, clientVars, Order
    <2> QED
      BY <1>t, <1>8, <2>1, <2>2, TypeKept DEF RevokeCancelJobs, TypeOK
  <1>9. CASE RevokeCommit
    <2>1. RowType'
      BY <1>t, <1>9, RowWrittenType DEF RowType, RevokeCommit, JobStatuses
    <2>2. HttpType'
      BY <1>t, <1>9 DEF HttpType, RevokeCommit, httpVars
    <2> QED
      BY <1>t, <1>9, <2>1, <2>2, TypeKept DEF RevokeCommit, TypeOK
  <1>10. CASE RevokeCloseDevice
    <2>1. SocketType'
      BY <1>t, <1>10, <1>b DEF SocketType, RevokeCloseDevice, socketVars
    <2>2. HttpType'
      BY <1>t, <1>10 DEF HttpType, RevokeCloseDevice, httpVars
    <2> QED
      BY <1>t, <1>10, <2>1, <2>2, TypeKept DEF RevokeCloseDevice, TypeOK
  <1>11. ASSUME NEW c \in Conn, HelloAttach(c) PROVE TypeOK'
    <2>1. SocketType'
      BY <1>t, <1>11, <1>b, <1>c DEF SocketType, HelloAttach, socketVars, HeadIs, HelloStages
    <2>2. RowType'
      BY <1>t, <1>11 DEF RowType, HelloAttach
    <2> QED
      BY <1>t, <1>11, <2>1, <2>2, TypeKept DEF HelloAttach, TypeOK
  <1>12. ASSUME NEW c \in Conn, HelloUpdate(c) PROVE TypeOK'
    <2>1. SocketType'
      BY <1>t, <1>12, <1>b, <1>c, <1>d DEF SocketType, HelloUpdate, socketVars, HeadIs, HelloStages
    <2> QED
      BY <1>t, <1>12, <2>1, TypeKept DEF HelloUpdate, TypeOK
  <1>13. ASSUME NEW c \in Conn, HelloWelcome(c) PROVE TypeOK'
    <2>1. SocketType'
      BY <1>t, <1>13, <1>b, <1>c, <1>d DEF SocketType, HelloWelcome, socketVars, HeadIs, HelloStages
    <2>2. ClientType'
      BY <1>t, <1>13, <1>a DEF ClientType, HelloWelcome, clientVars, Order
    <2> QED
      BY <1>t, <1>13, <2>1, <2>2, TypeKept DEF HelloWelcome, TypeOK
  <1>14. ASSUME NEW c \in Conn, HelloReconcile(c) PROVE TypeOK'
    <2>1. SocketType'
      <3>1. chain[c] # <<>> /\ Tail(chain[c]) \in Seq(Frame)
        BY <1>t, <1>14 DEF HelloReconcile, HeadIs, SocketType
      <3>2. rowStatus \in JobStatuses => ResumeFrames(rowStatus) \o Tail(chain[c]) \in Seq(Frame)
        BY <3>1, ResumeType
      <3>3. chain' \in [Conn -> Seq(Frame)]
        BY <1>t, <1>14, <3>1, <3>2 DEF HelloReconcile, SocketType, RowType
      <3> QED
        BY <1>t, <1>14, <3>3 DEF HelloReconcile, SocketType
    <2> QED
      BY <1>t, <1>14, <2>1, TypeKept DEF HelloReconcile, TypeOK
  <1>15. ASSUME NEW c \in Conn, TransitionRead(c) PROVE TypeOK'
    <2>1. SocketType'
      <3>1. /\ chain \in [Conn -> Seq(Frame)] /\ chain[c] # <<>>
            /\ Head(chain[c]) \in Frame /\ Tail(chain[c]) \in Seq(Frame)
            /\ Head(chain[c]).kind \in {"job", "resume"}
        BY <1>t, <1>15 DEF TransitionRead, HeadIs, SocketType
      <3>2. AfterThrow(chain[c]) \in Seq(Frame)
        BY <3>1, AfterThrowType
      <3>3. [from |-> rowStatus, to |-> Head(chain[c]).arg] \in Pending
        BY <1>t, <1>15, <3>1, StatusArg DEF TransitionRead, RowType, Pending
      <3>4. chain' \in [Conn -> Seq(Frame)]
        BY <1>15, <3>1, <3>2 DEF TransitionRead
      <3>5. link' \in [Conn -> LinkState] /\ pending' \in [Conn -> Pending]
        BY <1>t, <1>15, <1>b, <3>3 DEF TransitionRead, SocketType
      <3> QED
        BY <1>t, <1>15, <3>4, <3>5 DEF TransitionRead, SocketType
    <2> QED
      BY <1>t, <1>15, <2>1, TypeKept DEF TransitionRead, TypeOK
  <1>16. ASSUME NEW c \in Conn, TransitionWrite(c) PROVE TypeOK'
    <2>1. RowType'
      <3>1. pending[c] \in [from : JobStatuses, to : JobStatuses]
        BY <1>t, <1>16 DEF SocketType, Pending, TransitionWrite
      <3>2. alerts' \in 0..2
        BY <1>t, <1>16 DEF RowType, TransitionWrite
      <3> QED
        BY <1>t, <1>16, <3>1, <3>2, RowWrittenType DEF RowType, TransitionWrite
    <2>2. SocketType'
      BY <1>t, <1>16 DEF SocketType, TransitionWrite, socketVars, Pending
    <2> QED
      BY <1>t, <1>16, <2>1, <2>2, TypeKept DEF TransitionWrite, TypeOK
  <1>17. CASE FlushOutput
    <2>1. RowType'
      BY <1>t, <1>17, RowWrittenType DEF RowType, FlushOutput
    <2> QED
      BY <1>t, <1>17, <2>1, TypeKept DEF FlushOutput, TypeOK
  <1>18. ASSUME NEW c \in Conn, SocketClosed(c) PROVE TypeOK'
    <2>1. RowType'
      BY <1>t, <1>18 DEF RowType, SocketClosed, rowVars
    <2>2. SocketType'
      BY <1>t, <1>18 DEF SocketType, SocketClosed, socketVars, LinkState
    <2> QED
      BY <1>t, <1>18, <2>1, <2>2, TypeKept DEF SocketClosed, TypeOK
  <1>19. ASSUME NEW c \in Conn, DisconnectJobs(c) PROVE TypeOK'
    <2>1. RowType'
      BY <1>t, <1>19, RowWrittenType DEF RowType, DisconnectJobs, JobStatuses
    <2>2. SocketType'
      BY <1>t, <1>19 DEF SocketType, DisconnectJobs, socketVars
    <2> QED
      BY <1>t, <1>19, <2>1, <2>2, TypeKept DEF DisconnectJobs, TypeOK
  <1>20. ASSUME NEW c \in Conn, Dial(c) PROVE TypeOK'
    <2>1. SocketType'
      BY <1>t, <1>20 DEF SocketType, Dial, socketVars, LinkState, Frame, HelloStages
    <2>2. ClientType'
      BY <1>t, <1>20 DEF ClientType, Dial, clientVars
    <2>3. BoundType'
      BY <1>t, <1>20 DEF BoundType, Dial, boundVars
    <2> QED
      BY <1>t, <1>20, <2>1, <2>2, <2>3, TypeKept DEF Dial, TypeOK
  <1>21. ASSUME NEW c \in Conn, Welcomed(c) PROVE TypeOK'
    <2>1. ClientType'
      BY <1>t, <1>21 DEF ClientType, Welcomed, clientVars, Take, NextOrder
    <2> QED
      BY <1>t, <1>21, <2>1, TypeKept DEF Welcomed, TypeOK
  <1>22. CASE ReconcileAll
    <2>1. ClientType'
      BY <1>t, <1>22, ReconcileType DEF ClientType, ReconcileAll, clientVars, SessionType
    <2> QED
      BY <1>t, <1>22, <2>1, TypeKept DEF ReconcileAll, TypeOK
  <1>23. ASSUME NEW c \in Conn, ProtocolError(c) PROVE TypeOK'
    <2>1. SocketType'
      BY <1>t, <1>23 DEF SocketType, ProtocolError, socketVars, LinkState
    <2>2. ClientType'
      BY <1>t, <1>23 DEF ClientType, ProtocolError, clientVars
    <2> QED
      BY <1>t, <1>23, <2>1, <2>2, TypeKept DEF ProtocolError, TypeOK
  <1>24. ASSUME NEW c \in Conn, StartJob(c) PROVE TypeOK'
    <2>1. ClientType'
      <3>1. loopOut' \in Seq(Frame)
        <4>1. JobFrame("failed") \in Frame /\ JobFrame("dispatched") \in Frame
          BY JobFrameType DEF JobStatuses
        <4>2. loopOut' = <<JobFrame("failed")>> \/ loopOut' = <<JobFrame("dispatched")>>
          BY <1>24 DEF StartJob
        <4> QED
          BY <4>1, <4>2, OneFrame
      <3> QED
        BY <1>t, <1>24, <3>1 DEF ClientType, StartJob, NextOrder, Take
    <2>2. SessionType'
      BY <1>t, <1>24 DEF SessionType, StartJob, sessionVars, JobStatuses
    <2> QED
      BY <1>t, <1>24, <2>1, <2>2, TypeKept DEF StartJob, TypeOK
  <1>25. ASSUME NEW c \in Conn, CancelJob(c) PROVE TypeOK'
    <2>1. ClientType'
      BY <1>t, <1>25 DEF ClientType, CancelJob, clientVars, Take, NextOrder
    <2>2. SessionType'
      BY <1>t, <1>25 DEF SessionType, CancelJob, sessionVars, Kill
    <2> QED
      BY <1>t, <1>25, <2>1, <2>2, TypeKept DEF CancelJob, TypeOK
  <1>26. CASE LoopSend
    <2>1. SocketType'
      BY <1>t, <1>26, <1>e DEF SocketType, LoopSend, socketVars, ClientType
    <2>2. ClientType'
      BY <1>t, <1>26 DEF ClientType, LoopSend, clientVars
    <2>3. SessionType'
      BY <1>t, <1>26 DEF SessionType, LoopSend, sessionVars
    <2> QED
      BY <1>t, <1>26, <2>1, <2>2, <2>3, TypeKept DEF LoopSend, TypeOK
  <1>27. CASE RunSend
    <2>1. SocketType'
      BY <1>t, <1>27, <1>e DEF SocketType, RunSend, socketVars, SessionType
    <2>2. SessionType'
      BY <1>t, <1>27 DEF SessionType, RunSend, sessionVars
    <2> QED
      BY <1>t, <1>27, <2>1, <2>2, TypeKept DEF RunSend, TypeOK
  <1>28. CASE ConnectionLost
    <2>1. ClientType'
      BY <1>t, <1>28 DEF ClientType, ConnectionLost, clientVars
    <2> QED
      BY <1>t, <1>28, <2>1, TypeKept DEF ConnectionLost, TypeOK
  <1>29. CASE SpawnFailed
    <2>1. SessionType'
      BY <1>t, <1>29, JobFrameType DEF SessionType, SpawnFailed, sessionVars, JobStatuses
    <2> QED
      BY <1>t, <1>29, <2>1, TypeKept DEF SpawnFailed, TypeOK
  <1>30. CASE Spawn
    <2>1. SessionType'
      BY <1>t, <1>30 DEF SessionType, Spawn, sessionVars
    <2> QED
      BY <1>t, <1>30, <2>1, TypeKept DEF Spawn, TypeOK
  <1>31. CASE Started
    <2>1. SessionType'
      BY <1>t, <1>31, JobFrameType DEF SessionType, Started, sessionVars, JobStatuses
    <2> QED
      BY <1>t, <1>31, <2>1, TypeKept DEF Started, TypeOK
  <1>32. CASE Announced
    <2>1. SessionType'
      BY <1>t, <1>32 DEF SessionType, Announced, sessionVars, Kill
    <2> QED
      BY <1>t, <1>32, <2>1, TypeKept DEF Announced, TypeOK
  <1>33. CASE ProcessExit
    <2>1. SessionType'
      BY <1>t, <1>33 DEF SessionType, ProcessExit, sessionVars
    <2> QED
      BY <1>t, <1>33, <2>1, TypeKept DEF ProcessExit, TypeOK
  <1>34. CASE Finish
    <2>1. SessionType'
      BY <1>t, <1>34, JobFrameType DEF SessionType, Finish, sessionVars, JobStatuses
    <2> QED
      BY <1>t, <1>34, <2>1, TypeKept DEF Finish, TypeOK
  <1>35. ASSUME NEW c \in Conn, NetworkDrop(c) PROVE TypeOK'
    <2>1. SocketType'
      BY <1>t, <1>35 DEF SocketType, NetworkDrop, socketVars, LinkState
    <2>2. ClientType'
      BY <1>t, <1>35 DEF ClientType, NetworkDrop, clientVars
    <2>3. BoundType'
      BY <1>t, <1>35 DEF BoundType, NetworkDrop, boundVars
    <2> QED
      BY <1>t, <1>35, <2>1, <2>2, <2>3, TypeKept DEF NetworkDrop, TypeOK
  <1>36. CASE AgentCrash
    <2>1. SocketType'
      BY <1>t, <1>36 DEF SocketType, AgentCrash, socketVars, LinkState
    <2>2. ClientType'
      BY <1>t, <1>36 DEF ClientType, AgentCrash, clientVars
    <2>3. SessionType'
      <3>1. sCancelled' \in BOOLEAN /\ sawCancel' \in BOOLEAN
        BY <1>36 DEF AgentCrash
      <3> QED
        BY <1>36, <3>1 DEF SessionType, AgentCrash
    <2>4. BoundType'
      BY <1>t, <1>36 DEF BoundType, AgentCrash, boundVars
    <2> QED
      BY <1>t, <1>36, <2>1, <2>2, <2>3, <2>4, TypeKept DEF AgentCrash, TypeOK
  <1>37. CASE CheckDevice
    <2>1. HttpType'
      BY <1>t, <1>37 DEF HttpType, CheckDevice, httpVars
    <2> QED
      BY <1>t, <1>37, <2>1, TypeKept DEF CheckDevice, TypeOK
  <1>38. CASE CheckOnline
    <2>1. HttpType'
      BY <1>t, <1>38 DEF HttpType, CheckOnline, httpVars
    <2> QED
      BY <1>t, <1>38, <2>1, TypeKept DEF CheckOnline, TypeOK
  <1>39. CASE UNCHANGED vars
    BY <1>t, <1>39, TypeKept DEF TypeOK, vars
  <1> QED
    BY <1>1, <1>2, <1>3, <1>4, <1>5, <1>6, <1>7, <1>8, <1>9, <1>10,
       <1>11, <1>12, <1>13, <1>14, <1>15, <1>16, <1>17, <1>18, <1>19, <1>20,
       <1>21, <1>22, <1>23, <1>24, <1>25, <1>26, <1>27, <1>28, <1>29, <1>30,
       <1>31, <1>32, <1>33, <1>34, <1>35, <1>36, <1>37, <1>38, <1>39
    DEF Next, Server, ServerFrame, AgentLoop, AgentRun, Failure

\* Every reachable state is well typed: the rows, handlers, connections and
\* session hold the values the code can give them.
THEOREM TypeCorrect == Spec => []TypeOK
  <1>1. Init => TypeOK
    BY TypeInit
  <1>2. TypeOK /\ [Next]_vars => TypeOK'
    BY TypeStep
  <1> QED
    BY <1>1, <1>2, PTL DEF Spec

-----------------------------------------------------------------------------
(* Cancellation                                                            *)

\* CancelReachesProcess is not inductive: a cancellation that arrives while
\* started() sends its two messages is either seen by started() already or
\* has found the process handle set.
CancelInv ==
  /\ runPc = "announce" /\ sCancelled => sawCancel \/ process # "alive"
  /\ CancelReachesProcess

\* Every step keeps CancelInv.
LEMMA CancelStep == TypeOK /\ CancelInv /\ [Next]_vars => CancelInv'
  <1> SUFFICES ASSUME TypeOK, CancelInv, [Next]_vars PROVE CancelInv'
    OBVIOUS
  <1> USE DEF CancelInv, CancelReachesProcess, sessionVars
  <1>1. ASSUME NEW c \in Conn, StartJob(c) PROVE CancelInv'
    BY <1>1 DEF StartJob
  <1>2. ASSUME NEW c \in Conn, CancelJob(c) PROVE CancelInv'
    BY <1>2 DEF CancelJob, HandleSet, Kill
  <1>3. CASE LoopSend
    BY <1>3 DEF LoopSend
  <1>4. CASE RunSend
    BY <1>4 DEF RunSend
  <1>5. CASE SpawnFailed
    BY <1>5 DEF SpawnFailed
  <1>6. CASE Spawn
    BY <1>6 DEF Spawn
  <1>7. CASE Started
    BY <1>7 DEF Started
  <1>8. CASE Announced
    BY <1>8 DEF Announced, Kill
  <1>9. CASE ProcessExit
    BY <1>9 DEF ProcessExit
  <1>10. CASE Finish
    BY <1>10 DEF Finish
  <1>11. CASE AgentCrash
    BY <1>11 DEF AgentCrash
  <1>12. CASE UNCHANGED sessionVars
    BY <1>12
  <1> QED
    BY <1>1, <1>2, <1>3, <1>4, <1>5, <1>6, <1>7, <1>8, <1>9, <1>10, <1>11, <1>12
    DEF Next, Server, ServerFrame, AgentLoop, AgentRun, Failure, vars,
        CheckDevice, CheckOnline, CreateJob, DispatchJob, DispatchFailed,
        CancelRead, CancelWrite, CancelSend, CancelDetail, RevokeCancelJobs, RevokeCommit,
        RevokeCloseDevice, HelloAttach, HelloUpdate, HelloWelcome,
        HelloReconcile, TransitionRead, TransitionWrite, FlushOutput,
        SocketClosed, DisconnectJobs, Dial, Welcomed, ReconcileAll,
        ProtocolError, ConnectionLost, NetworkDrop

\* A job.cancel the session took note of has killed its process by the time
\* Session.run waits for it, for any number of connections, cancellations and
\* failures.
THEOREM CancelCorrect == Spec => []CancelReachesProcess
  <1>1. Init => CancelInv
    BY DEF Init, CancelInv, CancelReachesProcess
  <1>2. TypeOK /\ CancelInv /\ [Next]_vars => CancelInv'
    BY CancelStep
  <1>3. CancelInv => CancelReachesProcess
    BY DEF CancelInv
  <1> QED
    BY <1>1, <1>2, <1>3, TypeCorrect, PTL DEF Spec

-----------------------------------------------------------------------------
(* Revocation                                                              *)

\* RevokedNeverServed rests on the order of the handler: closeDevice runs after
\* the transaction that revokes the device, so a hello handler that checks
\* later finds it revoked.
RevokeInv ==
  /\ revokePc \in {"close", "done"} => revoked
  /\ RevokedNeverServed

\* A socket attached to the device, open, and past its check.
Served(c) == attached = c /\ IsOpen(c) /\ ~HeadIs(c, "update")

\* Appending a frame leaves a non-empty chain's head alone.
LEMMA SentHead ==
  ASSUME TypeOK, NEW frame \in Frame, NEW c \in Conn, HeadIs(c, "update")
  PROVE  Sent(frame)[c] # <<>> /\ Head(Sent(frame)[c]).kind = "update"
  <1>1. /\ chain \in [Conn -> Seq(Frame)] /\ chain[c] # <<>>
        /\ Head(chain[c]).kind = "update"
    BY DEF TypeOK, SocketType, HeadIs
  <1>2. Sent(frame)[c] \in {chain[c], Append(chain[c], frame)}
    BY <1>1 DEF Sent
  <1>3. Append(chain[c], frame) # <<>> /\ Head(Append(chain[c], frame)) = Head(chain[c])
    BY <1>1
  <1> QED
    BY <1>1, <1>2, <1>3

\* A step that serves no further socket and revokes nothing keeps RevokeInv.
LEMMA ServedKept ==
  ASSUME RevokeInv, UNCHANGED <<revoked, revokePc>>,
         \A c \in Conn : revokePc = "done" /\ Served(c)' => Served(c)
  PROVE  RevokeInv'
  BY DEF RevokeInv, RevokedNeverServed, Served, IsOpen, HeadIs

\* Every step keeps RevokeInv.
LEMMA RevokeStep == TypeOK /\ RevokeInv /\ [Next]_vars => RevokeInv'
  <1> SUFFICES ASSUME TypeOK, RevokeInv, [Next]_vars PROVE RevokeInv'
    OBVIOUS
  <1> USE LifecycleAssumption
  <1>t. /\ attached \in Conn \cup {NoConn} /\ link \in [Conn -> LinkState]
        /\ chain \in [Conn -> Seq(Frame)]
        /\ \A d \in Conn : chain[d] \in Seq(Frame)
    BY DEF TypeOK, SocketType
  <1>1. CASE RevokeCancelJobs
    BY <1>1 DEF RevokeCancelJobs, RevokeInv, RevokedNeverServed
  <1>2. CASE RevokeCommit
    BY <1>2 DEF RevokeCommit, RevokeInv, RevokedNeverServed
  <1>3. CASE RevokeCloseDevice
    BY <1>t, <1>3
    DEF RevokeCloseDevice, RevokeInv, RevokedNeverServed, CloseSocket, IsOpen, rowVars
  <1>4. ASSUME NEW c \in Conn, HelloAttach(c) PROVE RevokeInv'
    <2>1. HeadIs(c, "update")'
      BY <1>t, <1>4 DEF HelloAttach, HelloNext, HeadIs
    <2>2. attached' = c /\ UNCHANGED <<revoked, revokePc>>
      BY <1>4 DEF HelloAttach, rowVars, httpVars
    <2> QED
      BY <2>1, <2>2 DEF RevokeInv, RevokedNeverServed
  <1>5. ASSUME NEW c \in Conn, HelloUpdate(c) PROVE RevokeInv'
    <2>1. revokePc = "done" => ~IsOpen(c)'
      BY <1>t, <1>5
      DEF RevokeInv, HelloUpdate, DeviceUpdatable, HelloThrows, CloseSocket, IsOpen
    <2>2. \A d \in Conn \ {c} : chain'[d] = chain[d] /\ (IsOpen(d)' => IsOpen(d))
      BY <1>t, <1>5 DEF HelloUpdate, HelloNext, HelloThrows, CloseSocket, IsOpen
    <2> QED
      BY <1>5, <2>1, <2>2, ServedKept DEF HelloUpdate, Served, HeadIs, rowVars, httpVars
  <1>6. ASSUME NEW c \in Conn, HelloWelcome(c) PROVE RevokeInv'
    <2>1. ~HeadIs(c, "update") /\ (IsOpen(c)' => IsOpen(c))
      BY <1>t, <1>6 DEF HelloWelcome, HeadIs, HelloThrows, CloseSocket, IsOpen
    <2>2. \A d \in Conn \ {c} : chain'[d] = chain[d] /\ (IsOpen(d)' => IsOpen(d))
      BY <1>t, <1>6 DEF HelloWelcome, HelloNext, HelloThrows, CloseSocket, IsOpen
    <2> QED
      BY <1>6, <2>1, <2>2, ServedKept DEF HelloWelcome, Served, HeadIs, rowVars, httpVars
  <1>7. ASSUME NEW c \in Conn, HelloReconcile(c) PROVE RevokeInv'
    <2>1. ~HeadIs(c, "update") /\ UNCHANGED link
      BY <1>7 DEF HelloReconcile, HeadIs
    <2>2. \A d \in Conn \ {c} : chain'[d] = chain[d]
      BY <1>t, <1>7 DEF HelloReconcile
    <2> QED
      BY <1>7, <2>1, <2>2, ServedKept
      DEF HelloReconcile, Served, HeadIs, IsOpen, rowVars, httpVars
  <1>8. ASSUME NEW c \in Conn, TransitionRead(c) PROVE RevokeInv'
    <2>1. ~HeadIs(c, "update")
      BY <1>8 DEF TransitionRead, HeadIs
    <2>2. \A d \in Conn : IsOpen(d)' => IsOpen(d)
      BY <1>t, <1>8 DEF TransitionRead, CloseSocket, IsOpen
    <2>3. \A d \in Conn \ {c} : chain'[d] = chain[d]
      BY <1>t, <1>8 DEF TransitionRead
    <2> QED
      BY <1>8, <2>1, <2>2, <2>3, ServedKept DEF TransitionRead, Served, HeadIs, rowVars, httpVars
  <1>9. ASSUME NEW c \in Conn, SocketClosed(c) PROVE RevokeInv'
    <2>1. \A d \in Conn : (IsOpen(d)' => IsOpen(d)) /\ (attached' = d => attached = d)
      BY <1>t, <1>9 DEF SocketClosed, IsOpen
    <2> QED
      BY <1>9, <2>1, ServedKept DEF SocketClosed, Served, HeadIs, rowVars, httpVars
  <1>10. ASSUME NEW c \in Conn, Dial(c) PROVE RevokeInv'
    <2>1. revokePc # "done"
      BY <1>10 DEF Dial, RevokeInv
    <2> QED
      BY <1>10, <2>1, ServedKept DEF Dial, rowVars, httpVars
  <1>11. ASSUME NEW c \in Conn, ProtocolError(c) PROVE RevokeInv'
    <2>1. \A d \in Conn : IsOpen(d)' => IsOpen(d)
      BY <1>t, <1>11 DEF ProtocolError, IsOpen
    <2> QED
      BY <1>11, <2>1, ServedKept DEF ProtocolError, Served, HeadIs, rowVars, httpVars
  <1>12. CASE LoopSend
    <2>1. Head(loopOut) \in Frame
      BY <1>12, HeadTail DEF LoopSend, TypeOK, ClientType
    <2>2. \A d \in Conn : HeadIs(d, "update") => HeadIs(d, "update")'
      BY <1>12, <2>1, SentHead DEF LoopSend, HeadIs
    <2> QED
      BY <1>12, <2>2, ServedKept DEF LoopSend, Served, IsOpen, rowVars, httpVars
  <1>13. CASE RunSend
    <2>1. Head(runOut) \in Frame
      BY <1>13, HeadTail DEF RunSend, TypeOK, SessionType
    <2>2. \A d \in Conn : HeadIs(d, "update") => HeadIs(d, "update")'
      BY <1>13, <2>1, SentHead DEF RunSend, HeadIs
    <2> QED
      BY <1>13, <2>2, ServedKept DEF RunSend, Served, IsOpen, rowVars, httpVars
  <1>14. ASSUME NEW c \in Conn, NetworkDrop(c) PROVE RevokeInv'
    <2>1. PICK n \in 0..Len(chain[c]) :
            /\ \A i \in n+1..Len(chain[c]) : chain[c][i].kind \in {"hello", "job"}
            /\ chain' = [chain EXCEPT ![c] = SubSeq(@, 1, n)]
      BY <1>14 DEF NetworkDrop
    <2>2. HeadIs(c, "update") => HeadIs(c, "update")'
      <3> HAVE HeadIs(c, "update")
      <3>1. chain[c] # <<>> /\ chain[c][1].kind = "update" /\ Len(chain[c]) >= 1
        BY <1>t, EmptySeq DEF HeadIs
      <3>2. n >= 1
        BY <1>t, <2>1, <3>1
      <3>3. Len(SubSeq(chain[c], 1, n)) = n /\ SubSeq(chain[c], 1, n)[1] = chain[c][1]
        BY <1>t, <3>2
      <3>4. SubSeq(chain[c], 1, n) # <<>>
        BY <3>2, <3>3, EmptySeq
      <3>5. chain'[c] = SubSeq(chain[c], 1, n)
        BY <1>t, <2>1
      <3>6. Head(chain'[c]) = chain[c][1]
        BY <1>t, <3>1, <3>2, <3>5, HeadTailOfSubSeq
      <3> QED
        BY <3>1, <3>4, <3>5, <3>6 DEF HeadIs
    <2>3. \A d \in Conn : d # c => chain'[d] = chain[d]
      BY <1>t, <2>1
    <2>4. \A d \in Conn : IsOpen(d)' => IsOpen(d)
      BY <1>t, <1>14 DEF NetworkDrop, IsOpen
    <2> QED
      BY <1>14, <2>2, <2>3, <2>4, ServedKept DEF NetworkDrop, Served, HeadIs, rowVars, httpVars
  <1>15. CASE AgentCrash
    <2>1. \A d \in Conn : IsOpen(d)' => IsOpen(d)
      BY <1>t, <1>15 DEF AgentCrash, IsOpen
    <2> QED
      BY <1>15, <2>1, ServedKept DEF AgentCrash, Served, HeadIs, rowVars, httpVars
  <1>16. CASE UNCHANGED <<attached, link, chain, revoked, revokePc>>
    BY <1>16, ServedKept DEF Served, IsOpen, HeadIs
  <1> QED
    BY <1>1, <1>2, <1>3, <1>4, <1>5, <1>6, <1>7, <1>8, <1>9, <1>10, <1>11, <1>12,
       <1>13, <1>14, <1>15, <1>16
    DEF Next, Server, ServerFrame, AgentLoop, AgentRun, Failure, vars, rowVars,
        socketVars, httpVars,
        CheckDevice, CheckOnline, CreateJob, DispatchJob, DispatchFailed,
        CancelRead, CancelWrite, CancelSend, CancelDetail, TransitionWrite, FlushOutput,
        DisconnectJobs, Welcomed, ReconcileAll, StartJob, CancelJob,
        ConnectionLost, SpawnFailed, Spawn, Started, Announced,
        ProcessExit, Finish

\* After a revocation has closed the device's socket no socket is served: the
\* only one that can be attached and open is about to fail its check, whatever
\* hellos, reconnections and closes interleave with it.
THEOREM RevokeCorrect == Spec => []RevokedNeverServed
  <1>1. Init => RevokeInv
    BY DEF Init, RevokeInv, RevokedNeverServed
  <1>2. TypeOK /\ RevokeInv /\ [Next]_vars => RevokeInv'
    BY RevokeStep
  <1>3. RevokeInv => RevokedNeverServed
    BY DEF RevokeInv
  <1> QED
    BY <1>1, <1>2, <1>3, TypeCorrect, PTL DEF Spec

=============================================================================
