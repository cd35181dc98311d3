------------------------- MODULE JobOutcome_proofs -------------------------
(***************************************************************************)
(* What the row says of its agent's session (JobLifecycle), for every set  *)
(* of connections and requests and every bound.                            *)
(*                                                                         *)
(* HonestOutcome: an outcome is said anywhere (in the row, in a write a    *)
(* handler owes, in a frame) only after job.start has reached its end, the *)
(* agent or the dispatcher's failure; and the session that said it keeps   *)
(* it, for job.start is delivered at most once and makes the only session. *)
(*                                                                         *)
(* OfflineVouched: an active row no handler has written since its agent    *)
(* went is one a close handler has yet to find unwritten.                  *)
(*                                                                         *)
(* The others hold where the server does not lag: then it works for one    *)
(* socket at a time (SocketInv).                                           *)
(*                                                                         *)
(* QuiescentAgreement: from ReconcileAll on, the last frame of a session   *)
(* in every queue between the agent and the row carries its status, or is  *)
(* a dispatched that started() overtook, which the row refuses; and        *)
(* nothing else writes the row for good.                                   *)
(*                                                                         *)
(* OutcomeStands: with one socket at work a handler that reads an outcome  *)
(* leaves it, and none owes a write from before it.                        *)
(***************************************************************************)
EXTENDS JobLifecycle_proofs

Outcomes == {"completed", "failed"}

\* A frame of the queue carries this status.
Mentions(queue, status) == \E i \in 1..Len(queue) : queue[i].arg = status

\* The status has been said: it is in the row, owed to it, or on its way.
Said(status) ==
  \/ rowStatus = status
  \/ \E c \in Conn : pending[c].to = status
  \/ \E c \in Conn : Mentions(chain[c], status)
  \/ Mentions(loopOut, status)
  \/ Mentions(runOut, status)

StartAt(c, i) == i \in 1..Len(down[c]) /\ down[c][i] = "start"

\* job.start is still to be sent, or on its way.
Untold ==
  \/ createPc \in {"idle", "checked", "ready", "created"}
  \/ \E c \in Conn : \E i \in 1..Len(down[c]) : StartAt(c, i)

\* job.start is sent once, and the session comes from it.
StartInv ==
  /\ \A c, d \in Conn : \A i, j \in Nat : StartAt(c, i) /\ StartAt(d, j) => c = d /\ i = j
  /\ createPc # "done" => \A c \in Conn : \A i \in Nat : ~StartAt(c, i)
  /\ createPc # "done" => sStatus = "none"
  /\ Untold => sStatus = "none"
  /\ runPc \in {"accept", "spawn", "register", "announce", "wait"} =>
       sStatus \in {"dispatched", "running", "waiting_for_input"}

SaidInv == \A s \in Outcomes : Said(s) => ~Untold /\ sStatus \in {"none", s}

-----------------------------------------------------------------------------
(* What a queue mentions                                                   *)

\* Taking the head of a queue adds nothing to it.
LEMMA MentionsTail ==
  ASSUME NEW q \in Seq(Frame), q # <<>>, NEW s, Mentions(Tail(q), s)
  PROVE  Mentions(q, s)
  <1>1. PICK i \in 1..Len(Tail(q)) : Tail(q)[i].arg = s
    BY DEF Mentions
  <1>2. i + 1 \in 1..Len(q) /\ q[i + 1] = Tail(q)[i]
    BY <1>1
  <1> QED
    BY <1>1, <1>2 DEF Mentions

\* The head of a queue is mentioned.
LEMMA MentionsHead ==
  ASSUME NEW q \in Seq(Frame), q # <<>>
  PROVE  Mentions(q, Head(q).arg)
  <1>1. 1 \in 1..Len(q) /\ q[1] = Head(q)
    BY EmptySeq
  <1> QED
    BY <1>1 DEF Mentions

\* Appending a frame adds what it carries.
LEMMA MentionsAppend ==
  ASSUME NEW q \in Seq(Frame), NEW f \in Frame, NEW s, Mentions(Append(q, f), s)
  PROVE  Mentions(q, s) \/ f.arg = s
  <1>1. PICK i \in 1..Len(Append(q, f)) : Append(q, f)[i].arg = s
    BY DEF Mentions
  <1>2. CASE i = Len(q) + 1
    BY <1>1, <1>2
  <1>3. CASE i # Len(q) + 1
    <2>1. i \in 1..Len(q) /\ Append(q, f)[i] = q[i]
      BY <1>1, <1>3
    <2> QED
      BY <1>1, <2>1 DEF Mentions
  <1> QED
    BY <1>2, <1>3

\* Joining two queues adds nothing.
LEMMA MentionsConcat ==
  ASSUME NEW p \in Seq(Frame), NEW q \in Seq(Frame), NEW s, Mentions(p \o q, s)
  PROVE  Mentions(p, s) \/ Mentions(q, s)
  <1>1. PICK i \in 1..Len(p \o q) : (p \o q)[i].arg = s
    BY DEF Mentions
  <1>2. CASE i \in 1..Len(p)
    BY <1>1, <1>2 DEF Mentions
  <1>3. CASE i \notin 1..Len(p)
    <2>1. i - Len(p) \in 1..Len(q) /\ (p \o q)[i] = q[i - Len(p)]
      BY <1>1, <1>3
    <2> QED
      BY <1>1, <2>1 DEF Mentions
  <1> QED
    BY <1>2, <1>3

\* Losing the end of a queue adds nothing.
LEMMA MentionsPrefix ==
  ASSUME NEW q \in Seq(Frame), NEW n \in 0..Len(q), NEW s, Mentions(SubSeq(q, 1, n), s)
  PROVE  Mentions(q, s)
  <1>1. PICK i \in 1..Len(SubSeq(q, 1, n)) : SubSeq(q, 1, n)[i].arg = s
    BY DEF Mentions
  <1>2. i \in 1..n /\ SubSeq(q, 1, n)[i] = q[i]
    BY <1>1
  <1> QED
    BY <1>1, <1>2 DEF Mentions

\* The queues the actions build.
LEMMA MentionsOne ==
  ASSUME NEW f, NEW s, Mentions(<<f>>, s)
  PROVE  f.arg = s
  BY DEF Mentions

LEMMA MentionsTwo ==
  ASSUME NEW f, NEW g, NEW s, Mentions(<<f, g>>, s)
  PROVE  f.arg = s \/ g.arg = s
  BY DEF Mentions

LEMMA MentionsNone == \A s : ~Mentions(<<>>, s)
  BY DEF Mentions

\* The hello handler never resumes an outcome.
LEMMA ResumeMentions ==
  ASSUME NEW status \in JobStatuses, NEW s \in Outcomes
  PROVE  ~Mentions(ResumeFrames(status), s)
  <1> SUFFICES ASSUME Mentions(ResumeFrames(status), s) PROVE FALSE
    OBVIOUS
  <1> DEFINE f == [kind |-> "resume", arg |-> "dispatched"]
             g == [kind |-> "resume",
                   arg |-> IF status = "waiting_for_input"
                           THEN "waiting_for_input" ELSE "running"]
  <1>1. f.arg # s /\ g.arg # s
    BY DEF Outcomes
  <1>2. CASE status = "queued"
    <2>1. ResumeFrames(status) = <<f>> \o <<g>>
      BY <1>2 DEF ResumeFrames
    <2>2. f \in Frame /\ g \in Frame
      BY DEF Frame, JobStatuses
    <2>3. <<f>> \in Seq(Frame) /\ <<g>> \in Seq(Frame)
      BY <2>2, OneFrame
    <2>4. Mentions(<<f>>, s) \/ Mentions(<<g>>, s)
      BY <2>1, <2>3, MentionsConcat
    <2> QED
      BY <1>1, <2>4, MentionsOne
  <1>3. CASE status # "queued"
    <2>1. ResumeFrames(status) = <<>> \o <<g>>
      BY <1>3 DEF ResumeFrames
    <2>2. ResumeFrames(status) = <<g>>
      BY <2>1
    <2> QED
      BY <1>1, <2>2, MentionsOne
  <1> QED
    BY <1>2, <1>3

\* Reconciliation says the session's own status, or none that is an outcome.
LEMMA ReconcileMentions ==
  ASSUME NEW s \in Outcomes, sStatus \in JobStatuses \cup {"none"},
         Mentions(ReconcileFrames, s)
  PROVE  sStatus = s
  <1>1. CASE sStatus = "none"
    <2>1. ReconcileFrames = <<>>
      BY <1>1 DEF ReconcileFrames, SessionDone, TerminalStatuses
    <2> QED
      BY <2>1, MentionsNone
  <1>2. CASE sStatus # "none" /\ SessionDone
    <2>1. ReconcileFrames = <<JobFrame(sStatus)>>
      BY <1>2 DEF ReconcileFrames, SessionDone
    <2> QED
      BY <2>1, MentionsOne DEF JobFrame
  <1>3. CASE sStatus # "none" /\ ~SessionDone
    <2>1. ReconcileFrames = <<JobFrame("running"), JobFrame(sStatus)>>
      BY <1>3 DEF ReconcileFrames, SessionDone
    <2> QED
      BY <2>1, MentionsTwo DEF JobFrame, Outcomes
  <1> QED
    BY <1>1, <1>2, <1>3 DEF SessionDone

\* A throw drops frames and adds none.
LEMMA AfterThrowMentions ==
  ASSUME NEW q \in Seq(Frame), q # <<>>, NEW s, Mentions(AfterThrow(q), s)
  PROVE  Mentions(q, s)
  <1>1. Tail(q) \in Seq(Frame) /\ Len(Tail(q)) = Len(q) - 1
    OBVIOUS
  <1>2. CASE AfterThrow(q) = Tail(q)
    BY <1>2, MentionsTail
  <1>3. CASE AfterThrow(q) # Tail(q)
    <2>1. AfterThrow(q) = Tail(Tail(q))
      BY <1>3 DEF AfterThrow
    <2>2. Tail(q) # <<>>
      <3>0. Len(q) > 1
        BY <1>3 DEF AfterThrow
      <3>1. Len(q) \in Nat
        OBVIOUS
      <3>2. Len(Tail(q)) # 0
        BY <1>1, <3>0, <3>1
      <3> QED
        BY <1>1, <3>2, EmptySeq
    <2>3. Mentions(Tail(q), s)
      BY <1>1, <2>1, <2>2, MentionsTail
    <2> QED
      BY <2>3, MentionsTail
  <1> QED
    BY <1>2, <1>3

\* Client.Send says what the frame carries.
LEMMA SentMentions ==
  ASSUME TypeOK, NEW f \in Frame, NEW c \in Conn, NEW s, Mentions(Sent(f)[c], s)
  PROVE  Mentions(chain[c], s) \/ f.arg = s
  <1>1. chain \in [Conn -> Seq(Frame)] /\ chain[c] \in Seq(Frame)
    BY DEF TypeOK, SocketType
  <1>2. Sent(f)[c] \in {chain[c], Append(chain[c], f)}
    BY <1>1 DEF Sent
  <1> QED
    BY <1>1, <1>2, MentionsAppend
-----------------------------------------------------------------------------
(* job.start is delivered at most once                                     *)

\* A step that only takes messages, or adds others than job.start.
StartsKept ==
  \E shift \in [Conn -> Nat] :
    \A c \in Conn : \A i \in Nat : StartAt(c, i)' => StartAt(c, i + shift[c])

\* Such a step tells the agent nothing new.
LEMMA UntoldKept ==
  ASSUME StartsKept, createPc' = createPc \/ createPc' \notin {"idle", "checked", "ready", "created"}
  PROVE  Untold' => Untold
  <1>1. PICK shift \in [Conn -> Nat] :
          \A c \in Conn : \A i \in Nat : StartAt(c, i)' => StartAt(c, i + shift[c])
    BY DEF StartsKept
  <1>2. ASSUME NEW c \in Conn, NEW i \in Nat, StartAt(c, i)'
        PROVE  \E j \in 1..Len(down[c]) : StartAt(c, j)
    BY <1>1, <1>2 DEF StartAt
  <1>3. ASSUME NEW c \in Conn, NEW i \in 1..Len(down'[c]), StartAt(c, i)'
        PROVE  Untold
    <2>1. i \in Nat
      BY <1>3 DEF StartAt
    <2> QED
      BY <1>2, <1>3, <2>1 DEF Untold
  <1> QED
    BY <1>3 DEF Untold

\* ... and keeps StartInv when it leaves the session's status none or not none.
LEMMA StartKept ==
  ASSUME StartInv, StartsKept, UNCHANGED <<createPc, sStatus, runPc>>
  PROVE  StartInv'
  <1>1. PICK shift \in [Conn -> Nat] :
          \A c \in Conn : \A i \in Nat : StartAt(c, i)' => StartAt(c, i + shift[c])
    BY DEF StartsKept
  <1>2. ASSUME NEW c \in Conn, NEW d \in Conn, NEW i \in Nat, NEW j \in Nat,
               StartAt(c, i)', StartAt(d, j)'
        PROVE  c = d /\ i = j
    <2>1. StartAt(c, i + shift[c]) /\ StartAt(d, j + shift[d])
      BY <1>1, <1>2
    <2>2. i + shift[c] \in Nat /\ j + shift[d] \in Nat
      BY <1>1
    <2>3. c = d /\ i + shift[c] = j + shift[d]
      BY <2>1, <2>2 DEF StartInv
    <2> QED
      BY <1>1, <2>3
  <1>3. createPc' # "done" => \A c \in Conn : \A i \in Nat : ~StartAt(c, i)'
    BY <1>1 DEF StartInv
  <1>4. Untold' => Untold
    BY UntoldKept
  <1> QED
    BY <1>2, <1>3, <1>4 DEF StartInv

\* A message other than job.start, sent or not.
LEMMA SentStarts ==
  ASSUME TypeOK, NEW order \in Order \ {"start"}, CanSendToAgent,
         down' = SentToAgent(order)
  PROVE  StartsKept
  <1>1. down \in [Conn -> Seq(Order)] /\ attached \in Conn
    BY DEF TypeOK, SocketType, ClientType, CanSendToAgent, IsOpen
  <1>2. ASSUME NEW c \in Conn, NEW i \in Nat, StartAt(c, i)' PROVE StartAt(c, i)
    <2>1. CASE down'[c] = down[c]
      BY <1>2, <2>1 DEF StartAt
    <2>2. CASE down'[c] = Append(down[c], order)
      BY <1>1, <1>2, <2>2 DEF StartAt
    <2> QED
      BY <1>1, <2>1, <2>2 DEF SentToAgent
  <1>3. [c \in Conn |-> 0] \in [Conn -> Nat]
    OBVIOUS
  <1>4. \A c \in Conn : \A i \in Nat : StartAt(c, i)' => StartAt(c, i + [d \in Conn |-> 0][c])
    BY <1>2
  <1> QED
    BY <1>3, <1>4 DEF StartsKept

\* No message sent or taken.
LEMMA SameStarts ==
  ASSUME UNCHANGED down
  PROVE  StartsKept
  <1>1. [c \in Conn |-> 0] \in [Conn -> Nat]
    OBVIOUS
  <1>2. \A c \in Conn : \A i \in Nat : StartAt(c, i)' => StartAt(c, i + [d \in Conn |-> 0][c])
    BY DEF StartAt
  <1> QED
    BY <1>1, <1>2 DEF StartsKept

\* The messages of a connection are dropped.
LEMMA LostStarts ==
  ASSUME TypeOK, NEW c \in Conn, down' = [down EXCEPT ![c] = <<>>]
  PROVE  StartsKept
  <1>1. down \in [Conn -> Seq(Order)]
    BY DEF TypeOK, ClientType
  <1>2. [d \in Conn |-> 0] \in [Conn -> Nat]
    OBVIOUS
  <1>3. ASSUME NEW d \in Conn, NEW i \in Nat, StartAt(d, i)' PROVE StartAt(d, i)
    BY <1>1, <1>3 DEF StartAt
  <1>4. \A d \in Conn : \A i \in Nat : StartAt(d, i)' => StartAt(d, i + [e \in Conn |-> 0][d])
    BY <1>3
  <1> QED
    BY <1>2, <1>4 DEF StartsKept

\* The read loop takes a message.
LEMMA TakenStarts ==
  ASSUME TypeOK, NEW c \in Conn, down[c] # <<>>, Take(c)
  PROVE  /\ StartsKept
         /\ \A i \in Nat : StartAt(c, i)' => i > 0 /\ StartAt(c, i + 1)
         /\ \A d \in Conn \ {c} : \A i \in Nat : StartAt(d, i)' => StartAt(d, i)
  <1>1. down \in [Conn -> Seq(Order)] /\ down[c] \in Seq(Order)
    BY DEF TypeOK, ClientType
  <1>2. down'[c] = Tail(down[c]) /\ \A d \in Conn \ {c} : down'[d] = down[d]
    BY <1>1 DEF Take
  <1>3. ASSUME NEW i \in Nat, StartAt(c, i)' PROVE i > 0 /\ StartAt(c, i + 1)
    BY <1>1, <1>2, <1>3 DEF StartAt
  <1>4. ASSUME NEW d \in Conn \ {c}, NEW i \in Nat, StartAt(d, i)' PROVE StartAt(d, i)
    BY <1>2, <1>4 DEF StartAt
  <1> DEFINE shift == [d \in Conn |-> IF d = c THEN 1 ELSE 0]
  <1>5. shift \in [Conn -> Nat]
    OBVIOUS
  <1>6. \A d \in Conn : \A i \in Nat : StartAt(d, i)' => StartAt(d, i + shift[d])
    <2> TAKE d \in Conn
    <2> TAKE i \in Nat
    <2> HAVE StartAt(d, i)'
    <2>1. CASE d = c
      BY <1>3, <2>1
    <2>2. CASE d # c
      BY <1>4, <2>2
    <2> QED
      BY <2>1, <2>2
  <1>7. StartsKept
    BY <1>5, <1>6 DEF StartsKept
  <1> QED
    BY <1>3, <1>4, <1>7

\* Every step keeps StartInv.
LEMMA StartStep == TypeOK /\ StartInv /\ [Next]_vars => StartInv'
  <1> SUFFICES ASSUME TypeOK, StartInv, [Next]_vars PROVE StartInv'
    OBVIOUS
  <1> USE LifecycleAssumption
  <1>t. down \in [Conn -> Seq(Order)]
    BY DEF TypeOK, ClientType
  <1>1. CASE CreateJob
    BY <1>1 DEF CreateJob, StartInv, StartAt, Untold, clientVars, sessionVars
  <1>2. CASE DispatchJob
    <2>1. createPc = "created" /\ UNCHANGED <<sStatus, runPc>> /\ sStatus = "none"
      BY <1>2 DEF DispatchJob, StartInv, sessionVars
    <2>2. \A c \in Conn : \A i \in Nat : ~StartAt(c, i)
      BY <2>1 DEF StartInv
    <2>3. CASE CanSendToAgent
      <3>1. createPc' = "done" /\ down' = SentToAgent("start") /\ attached \in Conn
        BY <1>2, <2>3 DEF DispatchJob, CanSendToAgent, IsOpen, TypeOK, SocketType
      <3>2. ASSUME NEW c \in Conn, NEW i \in Nat, StartAt(c, i)'
            PROVE  c = attached /\ i = Len(down[attached]) + 1
        <4>1. CASE down'[c] = down[c]
          BY <2>2, <3>2, <4>1 DEF StartAt
        <4>2. CASE c = attached /\ down'[c] = Append(down[c], "start")
          BY <1>t, <2>2, <3>2, <4>2 DEF StartAt
        <4> QED
          BY <1>t, <3>1, <4>1, <4>2 DEF SentToAgent
      <3> QED
        BY <2>1, <3>1, <3>2 DEF StartInv
    <2>4. CASE ~CanSendToAgent
      <3>1. createPc' = "unsent" /\ UNCHANGED down
        BY <1>2, <2>4 DEF DispatchJob
      <3> QED
        BY <2>1, <2>2, <3>1 DEF StartInv, StartAt, Untold
    <2> QED
      BY <2>3, <2>4
  <1>3. CASE DispatchFailed
    BY <1>3 DEF DispatchFailed, StartInv, StartAt, Untold, clientVars, sessionVars
  <1>4. ASSUME NEW r \in Request, CancelSend(r) PROVE StartInv'
    <2>1. UNCHANGED <<createPc, sStatus, runPc>>
      BY <1>4 DEF CancelSend, sessionVars
    <2>2. StartsKept
      BY <1>4, SentStarts, SameStarts DEF CancelSend, Order
    <2> QED
      BY <2>1, <2>2, StartKept
  <1>5. CASE RevokeCancelJobs
    <2>1. UNCHANGED <<createPc, sStatus, runPc>>
      BY <1>5 DEF RevokeCancelJobs, sessionVars
    <2>2. StartsKept
      BY <1>5, SentStarts, SameStarts DEF RevokeCancelJobs, Order
    <2> QED
      BY <2>1, <2>2, StartKept
  <1>6. ASSUME NEW c \in Conn, HelloWelcome(c) PROVE StartInv'
    <2>1. UNCHANGED <<createPc, sStatus, runPc>>
      BY <1>6 DEF HelloWelcome, httpVars, sessionVars
    <2>2. StartsKept
      BY <1>6, SentStarts, SameStarts DEF HelloWelcome, Order
    <2> QED
      BY <2>1, <2>2, StartKept
  <1>7. ASSUME NEW c \in Conn, Dial(c) PROVE StartInv'
    BY <1>7, LostStarts, StartKept DEF Dial, httpVars, sessionVars
  <1>8. ASSUME NEW c \in Conn, Welcomed(c) PROVE StartInv'
    BY <1>8, TakenStarts, StartKept DEF Welcomed, NextOrder, httpVars, sessionVars
  <1>9. ASSUME NEW c \in Conn, ProtocolError(c) PROVE StartInv'
    BY <1>9, LostStarts, StartKept DEF ProtocolError, httpVars, sessionVars
  <1>10. ASSUME NEW c \in Conn, StartJob(c) PROVE StartInv'
    <2>1. StartAt(c, 1)
      BY <1>t, <1>10, EmptySeq DEF StartJob, NextOrder, StartAt
    <2>2. createPc' = "done" /\ createPc = "done"
      BY <1>10, <2>1 DEF StartJob, StartInv, httpVars
    <2>3. \A d \in Conn : \A i \in Nat : ~StartAt(d, i)'
      <3> SUFFICES ASSUME NEW d \in Conn, NEW i \in Nat, StartAt(d, i)' PROVE FALSE
        OBVIOUS
      <3>1. /\ \A k \in Nat : StartAt(c, k)' => k > 0 /\ StartAt(c, k + 1)
            /\ \A e \in Conn \ {c} : \A k \in Nat : StartAt(e, k)' => StartAt(e, k)
        BY <1>10, TakenStarts DEF StartJob, NextOrder
      <3>2. CASE d = c
        BY <2>1, <3>1, <3>2 DEF StartInv
      <3>3. CASE d # c
        BY <2>1, <3>1, <3>3 DEF StartInv
      <3> QED
        BY <3>2, <3>3
    <2>4. ~Untold'
      BY <2>2, <2>3 DEF Untold, StartAt
    <2>5. (runPc' = runPc /\ sStatus' = sStatus) \/ sStatus' = "dispatched"
      BY <1>10 DEF StartJob
    <2> QED
      BY <2>2, <2>3, <2>4, <2>5 DEF StartInv
  <1>11. ASSUME NEW c \in Conn, CancelJob(c) PROVE StartInv'
    BY <1>11, TakenStarts, StartKept DEF CancelJob, NextOrder, httpVars
  <1>12. CASE LoopSend
    BY <1>12 DEF LoopSend, StartInv, StartAt, Untold, httpVars
  <1>13. CASE ConnectionLost
    BY <1>13, LostStarts, StartKept DEF ConnectionLost, TypeOK, ClientType, httpVars, sessionVars
  <1>14. CASE SpawnFailed
    BY <1>14 DEF SpawnFailed, StartInv, StartAt, Untold, httpVars, clientVars
  <1>15. CASE Spawn
    BY <1>15 DEF Spawn, StartInv, StartAt, Untold, httpVars, clientVars
  <1>16. CASE Started
    BY <1>16 DEF Started, StartInv, StartAt, Untold, httpVars, clientVars
  <1>17. CASE Announced
    BY <1>17 DEF Announced, StartInv, StartAt, Untold, httpVars, clientVars
  <1>18. CASE Finish
    BY <1>18 DEF Finish, StartInv, StartAt, Untold, httpVars, clientVars
  <1>19. ASSUME NEW c \in Conn, NetworkDrop(c) PROVE StartInv'
    BY <1>19, LostStarts, StartKept DEF NetworkDrop, httpVars, sessionVars
  <1>20. CASE AgentCrash
    <2>1. \A c \in Conn : \A i \in Nat : ~StartAt(c, i)'
      BY <1>20 DEF AgentCrash, StartAt
    <2>2. sStatus' = "none" /\ runPc' = "none"
      BY <1>20 DEF AgentCrash
    <2> QED
      BY <2>1, <2>2 DEF StartInv
  <1>21. CASE UNCHANGED <<createPc, down, sStatus, runPc>>
    BY <1>21, SameStarts, StartKept
  <1>22. CASE CheckDevice
    BY <1>22 DEF CheckDevice, StartInv, StartAt, Untold, clientVars, sessionVars
  <1>23. CASE CheckOnline
    BY <1>23 DEF CheckOnline, StartInv, StartAt, Untold, clientVars, sessionVars
  <1> QED
    BY <1>1, <1>2, <1>3, <1>4, <1>5, <1>6, <1>7, <1>8, <1>9, <1>10, <1>11, <1>12,
       <1>13, <1>14, <1>15, <1>16, <1>17, <1>18, <1>19, <1>20, <1>21, <1>22, <1>23
    DEF Next, Server, ServerFrame, AgentLoop, AgentRun, Failure, vars, httpVars,
        clientVars, sessionVars,
        CancelRead, CancelWrite, CancelDetail, RevokeCommit,
        RevokeCloseDevice, HelloAttach, HelloUpdate, HelloReconcile,
        TransitionRead, TransitionWrite, FlushOutput, SocketClosed,
        DisconnectJobs, ReconcileAll, RunSend, ProcessExit

-----------------------------------------------------------------------------
(* What is said stays true                                                 *)

\* A step that says nothing new and leaves the session's status alone.
LEMMA SaidKept ==
  ASSUME SaidInv, UNCHANGED sStatus, Untold' => Untold,
         \A s \in Outcomes : Said(s)' => Said(s)
  PROVE  SaidInv'
  BY DEF SaidInv

\* Whoever has a session that has not ended has heard no outcome.
LEMMA NothingSaid ==
  ASSUME SaidInv, sStatus \in {"dispatched", "running", "waiting_for_input"}
  PROVE  \A s \in Outcomes : ~Said(s)
  BY DEF SaidInv, Outcomes

\* Every step keeps SaidInv.
LEMMA SaidStep == TypeOK /\ StartInv /\ SaidInv /\ [Next]_vars => SaidInv'
  <1> SUFFICES ASSUME TypeOK, StartInv, SaidInv, [Next]_vars PROVE SaidInv'
    OBVIOUS
  <1> USE LifecycleAssumption
  <1>t. /\ chain \in [Conn -> Seq(Frame)] /\ pending \in [Conn -> Pending]
        /\ \A c \in Conn : chain[c] \in Seq(Frame)
        /\ loopOut \in Seq(Frame) /\ runOut \in Seq(Frame)
        /\ rowStatus \in JobStatuses \cup {"none"} /\ sStatus \in JobStatuses \cup {"none"}
    BY DEF TypeOK, RowType, SocketType, ClientType, SessionType
  <1>n. NoWrite.to \notin Outcomes
    BY DEF NoWrite, Outcomes
  <1>1. CASE CreateJob
    <2>1. Untold
      BY <1>1 DEF CreateJob, Untold
    <2>2. \A s \in Outcomes : ~Said(s)'
      BY <1>1, <2>1 DEF SaidInv, CreateJob, RowWritten, Said, Outcomes, socketVars, clientVars, sessionVars
    <2> QED
      BY <2>2 DEF SaidInv
  <1>2. CASE DispatchJob
    <2>1. Untold
      BY <1>2 DEF DispatchJob, Untold
    <2>2. \A s \in Outcomes : ~Said(s)'
      BY <1>2, <2>1 DEF SaidInv, DispatchJob, Said, rowVars, socketVars, sessionVars
    <2> QED
      BY <2>2 DEF SaidInv
  <1>3. CASE DispatchFailed
    <2>1. sStatus = "none" /\ UNCHANGED sStatus /\ \A c \in Conn : \A i \in Nat : ~StartAt(c, i)
      BY <1>3 DEF DispatchFailed, StartInv, sessionVars
    <2>2. ~Untold'
      BY <1>3, <2>1 DEF DispatchFailed, Untold, StartAt, clientVars
    <2> QED
      BY <2>1, <2>2 DEF SaidInv
  <1>4. ASSUME NEW r \in Request, CancelWrite(r) PROVE SaidInv'
    <2>1. UNCHANGED sStatus /\ (Untold' => Untold)
      BY <1>4 DEF CancelWrite, Untold, StartAt, clientVars, sessionVars
    <2>2. \A s \in Outcomes : Said(s)' => Said(s)
      BY <1>4 DEF CancelWrite, RowWritten, Said, Outcomes, socketVars, clientVars, sessionVars
    <2> QED
      BY <2>1, <2>2, SaidKept
  <1>5. ASSUME NEW r \in Request, CancelSend(r) PROVE SaidInv'
    <2>1. StartsKept
      BY <1>5, SentStarts, SameStarts DEF CancelSend, Order
    <2>2. UNCHANGED sStatus /\ (Untold' => Untold)
      BY <1>5, <2>1, UntoldKept DEF CancelSend, sessionVars
    <2>3. \A s \in Outcomes : Said(s)' => Said(s)
      BY <1>5 DEF CancelSend, Said, rowVars, socketVars, sessionVars
    <2> QED
      BY <2>2, <2>3, SaidKept
  <1>6. CASE RevokeCancelJobs
    <2>1. StartsKept
      BY <1>6, SentStarts, SameStarts DEF RevokeCancelJobs, Order
    <2>2. UNCHANGED sStatus /\ (Untold' => Untold)
      BY <1>6, <2>1, UntoldKept DEF RevokeCancelJobs, sessionVars
    <2>3. \A s \in Outcomes : Said(s)' => Said(s)
      BY <1>6 DEF RevokeCancelJobs, Said, rowVars, socketVars, sessionVars
    <2> QED
      BY <2>2, <2>3, SaidKept
  <1>7. CASE RevokeCommit
    <2>1. UNCHANGED sStatus /\ (Untold' => Untold)
      BY <1>7 DEF RevokeCommit, Untold, StartAt, clientVars, sessionVars
    <2>2. \A s \in Outcomes : Said(s)' => Said(s)
      BY <1>7 DEF RevokeCommit, RowWritten, Said, Outcomes, socketVars, clientVars, sessionVars
    <2> QED
      BY <2>1, <2>2, SaidKept
  <1>h. ASSUME NEW c \in Conn, NEW stage, NEW s \in Outcomes, chain[c] # <<>>,
               Head(chain[c]).kind \in HelloStages, HelloNext(c, stage), stage \in HelloStages,
               NEW d \in Conn, Mentions(chain'[d], s)
        PROVE  Mentions(chain[d], s)
    <2>1. CASE d = c
      <3> DEFINE f == [kind |-> stage, arg |-> Head(chain[c]).arg]
      <3>1. Head(chain[c]) \in Frame /\ Tail(chain[c]) \in Seq(Frame)
        BY <1>t, <1>h, HeadTail
      <3>2. f \in Frame /\ <<f>> \in Seq(Frame)
        BY <1>h, <3>1, HelloFrameType, OneFrame
      <3>3. chain'[d] = <<f>> \o Tail(chain[c])
        BY <1>t, <1>h, <2>1 DEF HelloNext
      <3>4. Mentions(<<f>>, s) \/ Mentions(Tail(chain[c]), s)
        BY <1>h, <3>1, <3>2, <3>3, MentionsConcat
      <3>5. CASE Mentions(<<f>>, s)
        BY <1>t, <1>h, <2>1, <3>5, MentionsOne, MentionsHead
      <3>6. CASE Mentions(Tail(chain[c]), s)
        BY <1>t, <1>h, <2>1, <3>6, MentionsTail
      <3> QED
        BY <3>4, <3>5, <3>6
    <2>2. CASE d # c
      BY <1>t, <1>h, <2>2 DEF HelloNext
    <2> QED
      BY <2>1, <2>2
  <1>d. ASSUME NEW c \in Conn, NEW s \in Outcomes, chain[c] # <<>>,
               chain' = [chain EXCEPT ![c] = Tail(@)], NEW d \in Conn, Mentions(chain'[d], s)
        PROVE  Mentions(chain[d], s)
    BY <1>t, <1>d, MentionsTail
  <1>8. ASSUME NEW c \in Conn, HelloAttach(c) PROVE SaidInv'
    <2>1. UNCHANGED sStatus /\ (Untold' => Untold)
      BY <1>8 DEF HelloAttach, Untold, StartAt, httpVars, clientVars, sessionVars
    <2>2. \A s \in Outcomes : \A d \in Conn : Mentions(chain'[d], s) => Mentions(chain[d], s)
      BY <1>8, <1>h DEF HelloAttach, HeadIs, HelloStages
    <2>3. \A s \in Outcomes : Said(s)' => Said(s)
      BY <1>8, <2>2 DEF HelloAttach, Said, rowVars, clientVars, sessionVars
    <2> QED
      BY <2>1, <2>3, SaidKept
  <1>9. ASSUME NEW c \in Conn, HelloUpdate(c) PROVE SaidInv'
    <2>1. UNCHANGED sStatus /\ (Untold' => Untold)
      BY <1>9 DEF HelloUpdate, Untold, StartAt, httpVars, clientVars, sessionVars
    <2>2. \A s \in Outcomes : \A d \in Conn : Mentions(chain'[d], s) => Mentions(chain[d], s)
      BY <1>9, <1>h, <1>d DEF HelloUpdate, HelloThrows, HeadIs, HelloStages
    <2>3. \A s \in Outcomes : Said(s)' => Said(s)
      BY <1>9, <2>2 DEF HelloUpdate, Said, rowVars, clientVars, sessionVars
    <2> QED
      BY <2>1, <2>3, SaidKept
  <1>10. ASSUME NEW c \in Conn, HelloWelcome(c) PROVE SaidInv'
    <2>1. StartsKept
      BY <1>10, SentStarts, SameStarts DEF HelloWelcome, Order
    <2>2. UNCHANGED sStatus /\ (Untold' => Untold)
      BY <1>10, <2>1, UntoldKept DEF HelloWelcome, httpVars, sessionVars
    <2>3. \A s \in Outcomes : \A d \in Conn : Mentions(chain'[d], s) => Mentions(chain[d], s)
      BY <1>10, <1>h, <1>d DEF HelloWelcome, HelloThrows, HeadIs, HelloStages
    <2>4. \A s \in Outcomes : Said(s)' => Said(s)
      BY <1>10, <2>3 DEF HelloWelcome, Said, rowVars, sessionVars
    <2> QED
      BY <2>2, <2>4, SaidKept
  <1>11. ASSUME NEW c \in Conn, HelloReconcile(c) PROVE SaidInv'
    <2>1. UNCHANGED sStatus /\ (Untold' => Untold)
      BY <1>11 DEF HelloReconcile, Untold, StartAt, httpVars, clientVars, sessionVars
    <2>2. ASSUME NEW s \in Outcomes, NEW d \in Conn, Mentions(chain'[d], s)
          PROVE  Mentions(chain[d], s)
      <3>1. chain[c] # <<>> /\ Tail(chain[c]) \in Seq(Frame)
        BY <1>t, <1>11 DEF HelloReconcile, HeadIs
      <3>2. CASE d # c
        BY <1>t, <1>11, <2>2, <3>2 DEF HelloReconcile
      <3>3. CASE d = c /\ chain'[c] = Tail(chain[c])
        BY <1>t, <2>2, <3>1, <3>3, MentionsTail
      <3>4. CASE /\ d = c /\ chain'[c] = ResumeFrames(rowStatus) \o Tail(chain[c])
                 /\ rowStatus \in JobStatuses
        <4>1. ResumeFrames(rowStatus) \in Seq(Frame) /\ ~Mentions(ResumeFrames(rowStatus), s)
          BY <3>4, ResumeType, ResumeMentions
        <4>2. Mentions(Tail(chain[c]), s)
          BY <2>2, <3>1, <3>4, <4>1, MentionsConcat
        <4> QED
          BY <1>t, <3>1, <3>4, <4>2, MentionsTail
      <3> QED
        BY <1>t, <1>11, <3>2, <3>3, <3>4 DEF HelloReconcile
    <2>3. \A s \in Outcomes : Said(s)' => Said(s)
      BY <1>11, <2>2 DEF HelloReconcile, Said, rowVars, clientVars, sessionVars
    <2> QED
      BY <2>1, <2>3, SaidKept
  <1>12. ASSUME NEW c \in Conn, TransitionRead(c) PROVE SaidInv'
    <2>1. UNCHANGED sStatus /\ (Untold' => Untold)
      BY <1>12 DEF TransitionRead, Untold, StartAt, httpVars, clientVars, sessionVars
    <2>2. chain[c] # <<>>
      BY <1>12 DEF TransitionRead, HeadIs
    <2>3. chain' = [chain EXCEPT ![c] = Tail(@)] \/ chain' = [chain EXCEPT ![c] = AfterThrow(@)]
      BY <1>12 DEF TransitionRead
    <2>4. \A s \in Outcomes : \A d \in Conn : Mentions(chain'[d], s) => Mentions(chain[d], s)
      <3>1. CASE chain' = [chain EXCEPT ![c] = Tail(@)]
        BY <1>d, <2>2, <3>1
      <3>2. CASE chain' = [chain EXCEPT ![c] = AfterThrow(@)]
        <4> TAKE s \in Outcomes
        <4> TAKE d \in Conn
        <4> HAVE Mentions(chain'[d], s)
        <4>1. CASE d = c
          <5>1. chain'[d] = AfterThrow(chain[c])
            BY <1>t, <3>2, <4>1
          <5> QED
            BY <1>t, <2>2, <4>1, <5>1, AfterThrowMentions
        <4>2. CASE d # c
          BY <1>t, <3>2, <4>2
        <4> QED
          BY <4>1, <4>2
      <3> QED
        BY <2>3, <3>1, <3>2
    <2>5. pending' = pending \/ pending' = [pending EXCEPT ![c] = [from |-> rowStatus, to |-> Head(chain[c]).arg]]
      BY <1>12 DEF TransitionRead
    <2>6. \A s \in Outcomes : \A d \in Conn :
            pending'[d].to = s => pending[d].to = s \/ Mentions(chain[c], s)
      <3>1. Mentions(chain[c], Head(chain[c]).arg)
        BY <1>t, <2>2, MentionsHead
      <3>2. \A d \in Conn : pending'[d] = pending[d] \/ pending'[d].to = Head(chain[c]).arg
        BY <1>t, <2>5
      <3> QED
        BY <3>1, <3>2
    <2>7. \A s \in Outcomes : Said(s)' => Said(s)
      BY <1>12, <2>4, <2>6 DEF TransitionRead, Said, rowVars, clientVars, sessionVars
    <2> QED
      BY <2>1, <2>7, SaidKept
  <1>13. ASSUME NEW c \in Conn, TransitionWrite(c) PROVE SaidInv'
    <2>1. UNCHANGED sStatus /\ (Untold' => Untold)
      BY <1>13 DEF TransitionWrite, Untold, StartAt, httpVars, clientVars, sessionVars
    <2>2. \A s \in Outcomes : \A d \in Conn : pending'[d].to = s => pending[d].to = s
      BY <1>t, <1>n, <1>13 DEF TransitionWrite
    <2>3. \A s \in Outcomes : Said(s)' => Said(s)
      BY <1>13, <2>2 DEF TransitionWrite, RowWritten, Said, clientVars, sessionVars
    <2> QED
      BY <2>1, <2>3, SaidKept
  <1>14. ASSUME NEW c \in Conn, DisconnectJobs(c) PROVE SaidInv'
    <2>1. UNCHANGED sStatus /\ (Untold' => Untold)
      BY <1>14 DEF DisconnectJobs, Untold, StartAt, httpVars, clientVars, sessionVars
    <2>2. \A s \in Outcomes : Said(s)' => Said(s)
      BY <1>14 DEF DisconnectJobs, RowWritten, Said, Outcomes, clientVars, sessionVars
    <2> QED
      BY <2>1, <2>2, SaidKept
  <1>15. ASSUME NEW c \in Conn, Dial(c) PROVE SaidInv'
    <2>1. UNCHANGED sStatus /\ (Untold' => Untold)
      BY <1>15, LostStarts, UntoldKept DEF Dial, httpVars, sessionVars
    <2>2. \A s \in Outcomes : \A d \in Conn : Mentions(chain'[d], s) => Mentions(chain[d], s)
      <3>1. PICK f \in {"listed", "unlisted"} :
              chain' = [chain EXCEPT ![c] = <<[kind |-> "hello", arg |-> f]>>]
        BY <1>15 DEF Dial
      <3>2. \A s \in Outcomes : ~Mentions(<<[kind |-> "hello", arg |-> f]>>, s)
        BY <3>1, MentionsOne DEF Outcomes
      <3> QED
        BY <1>t, <3>1, <3>2
    <2>3. \A s \in Outcomes : Said(s)' => Said(s)
      BY <1>15, <2>2 DEF Dial, Said, rowVars, sessionVars
    <2> QED
      BY <2>1, <2>3, SaidKept
  <1>16. ASSUME NEW c \in Conn, Welcomed(c) PROVE SaidInv'
    <2>1. UNCHANGED sStatus /\ (Untold' => Untold)
      BY <1>16, TakenStarts, UntoldKept DEF Welcomed, NextOrder, httpVars, sessionVars
    <2>2. \A s \in Outcomes : Said(s)' => Said(s)
      BY <1>16 DEF Welcomed, Said, rowVars, socketVars, sessionVars
    <2> QED
      BY <2>1, <2>2, SaidKept
  <1>17. CASE ReconcileAll
    <2>1. UNCHANGED sStatus /\ (Untold' => Untold)
      BY <1>17 DEF ReconcileAll, Untold, StartAt, httpVars, sessionVars
    <2>2. \A s \in Outcomes : Said(s)' => Said(s) \/ Mentions(ReconcileFrames, s)
      BY <1>17 DEF ReconcileAll, Said, rowVars, socketVars, sessionVars
    <2>3. \A s \in Outcomes : Mentions(ReconcileFrames, s) => sStatus = s
      BY <1>t, ReconcileMentions
    <2>4. Untold => sStatus = "none"
      BY DEF StartInv
    <2> QED
      BY <2>1, <2>2, <2>3, <2>4 DEF SaidInv, Outcomes
  <1>18. ASSUME NEW c \in Conn, ProtocolError(c) PROVE SaidInv'
    <2>1. UNCHANGED sStatus /\ (Untold' => Untold)
      BY <1>18, LostStarts, UntoldKept DEF ProtocolError, httpVars, sessionVars
    <2>2. \A s \in Outcomes : Said(s)' => Said(s)
      BY <1>18 DEF ProtocolError, Said, rowVars, sessionVars
    <2> QED
      BY <2>1, <2>2, SaidKept
  <1>19. ASSUME NEW c \in Conn, StartJob(c) PROVE SaidInv'
    <2>1. StartAt(c, 1)
      BY <1>19, EmptySeq DEF StartJob, NextOrder, StartAt, TypeOK, ClientType
    <2>2. \A s \in Outcomes : ~Said(s)
      BY <2>1 DEF SaidInv, Untold, StartAt
    <2>3. ~Untold'
      <3>1. createPc' = "done"
        BY <1>19, <2>1 DEF StartJob, StartInv, httpVars
      <3>2. ASSUME NEW d \in Conn, NEW i \in Nat, StartAt(d, i)' PROVE FALSE
        <4>1. /\ \A k \in Nat : StartAt(c, k)' => k > 0 /\ StartAt(c, k + 1)
              /\ \A e \in Conn \ {c} : \A k \in Nat : StartAt(e, k)' => StartAt(e, k)
          BY <1>19, TakenStarts DEF StartJob, NextOrder
        <4>2. CASE d = c
          BY <2>1, <3>2, <4>1, <4>2 DEF StartInv
        <4>3. CASE d # c
          BY <2>1, <3>2, <4>1, <4>3 DEF StartInv
        <4> QED
          BY <4>2, <4>3
      <3> QED
        BY <3>1, <3>2 DEF Untold, StartAt
    <2>4. CASE sStatus' = "dispatched" /\ loopOut' = <<JobFrame("dispatched")>>
      <3>1. \A s \in Outcomes : ~Mentions(loopOut', s)
        BY <2>4, MentionsOne DEF JobFrame, Outcomes
      <3>2. \A s \in Outcomes : ~Said(s)'
        BY <1>19, <2>2, <3>1 DEF StartJob, Said, rowVars, socketVars
      <3> QED
        BY <3>2 DEF SaidInv
    <2>5. CASE sStatus' = "none"
      BY <2>3, <2>5 DEF SaidInv
    <2> QED
      BY <1>19, <2>4, <2>5 DEF StartJob
  <1>20. ASSUME NEW c \in Conn, CancelJob(c) PROVE SaidInv'
    <2>1. UNCHANGED sStatus /\ (Untold' => Untold)
      BY <1>20, TakenStarts, UntoldKept DEF CancelJob, NextOrder, httpVars
    <2>2. \A s \in Outcomes : Said(s)' => Said(s)
      BY <1>20 DEF CancelJob, Said, rowVars, socketVars
    <2> QED
      BY <2>1, <2>2, SaidKept
  <1>21. CASE LoopSend
    <2>1. UNCHANGED sStatus /\ (Untold' => Untold)
      BY <1>21 DEF LoopSend, Untold, StartAt, httpVars
    <2>2. loopOut # <<>> /\ Head(loopOut) \in Frame
      BY <1>t, <1>21, HeadTail DEF LoopSend
    <2>3. \A s \in Outcomes : \A d \in Conn :
            Mentions(chain'[d], s) => Mentions(chain[d], s) \/ Mentions(loopOut, s)
      BY <1>t, <1>21, <2>2, SentMentions, MentionsHead DEF LoopSend
    <2>4. \A s \in Outcomes : Mentions(loopOut', s) => Mentions(loopOut, s)
      BY <1>t, <1>21, <2>2, MentionsTail DEF LoopSend
    <2>5. \A s \in Outcomes : Said(s)' => Said(s)
      BY <1>21, <2>3, <2>4 DEF LoopSend, Said, rowVars
    <2> QED
      BY <2>1, <2>5, SaidKept
  <1>22. CASE RunSend
    <2>1. UNCHANGED sStatus /\ (Untold' => Untold)
      BY <1>22 DEF RunSend, Untold, StartAt, httpVars, clientVars
    <2>2. runOut # <<>> /\ Head(runOut) \in Frame
      BY <1>t, <1>22, HeadTail DEF RunSend
    <2>3. \A s \in Outcomes : \A d \in Conn :
            Mentions(chain'[d], s) => Mentions(chain[d], s) \/ Mentions(runOut, s)
      BY <1>t, <1>22, <2>2, SentMentions, MentionsHead DEF RunSend
    <2>4. \A s \in Outcomes : Mentions(runOut', s) => Mentions(runOut, s)
      BY <1>t, <1>22, <2>2, MentionsTail DEF RunSend
    <2>5. \A s \in Outcomes : Said(s)' => Said(s)
      BY <1>22, <2>3, <2>4 DEF RunSend, Said, rowVars, clientVars
    <2> QED
      BY <2>1, <2>5, SaidKept
  <1>23. CASE ConnectionLost
    <2>1. UNCHANGED sStatus /\ (Untold' => Untold)
      BY <1>23, LostStarts, UntoldKept DEF ConnectionLost, TypeOK, ClientType, httpVars, sessionVars
    <2>2. \A s \in Outcomes : Said(s)' => Said(s)
      BY <1>23 DEF ConnectionLost, Said, rowVars, socketVars, sessionVars
    <2> QED
      BY <2>1, <2>2, SaidKept
  <1>s. ASSUME sStatus \in {"dispatched", "running", "waiting_for_input"},
               UNCHANGED <<rowVars, socketVars, httpVars, clientVars>>,
               \A s \in Outcomes : Mentions(runOut', s) => sStatus' = s
        PROVE  SaidInv'
    <2>1. \A s \in Outcomes : ~Said(s)
      BY <1>s, NothingSaid
    <2>2. ~Untold'
      BY <1>s DEF StartInv, Untold, StartAt, httpVars, clientVars
    <2>3. \A s \in Outcomes : Said(s)' => sStatus' = s
      BY <1>s, <2>1 DEF Said, rowVars, socketVars, clientVars
    <2> QED
      BY <2>2, <2>3 DEF SaidInv
  <1>24. CASE SpawnFailed
    <2>1. \A s \in Outcomes : Mentions(runOut', s) => sStatus' = s
      BY <1>24, MentionsOne DEF SpawnFailed, JobFrame
    <2> QED
      BY <1>24, <1>s, <2>1 DEF SpawnFailed, StartInv
  <1>25. CASE Started
    <2>1. \A s \in Outcomes : Mentions(runOut', s) => sStatus' = s
      BY <1>25, MentionsTwo DEF Started, JobFrame, Outcomes
    <2> QED
      BY <1>25, <1>s, <2>1 DEF Started, StartInv
  <1>26. CASE Finish
    <2>1. \A s \in Outcomes : Mentions(runOut', s) => sStatus' = s
      BY <1>26, MentionsOne DEF Finish, JobFrame
    <2> QED
      BY <1>26, <1>s, <2>1 DEF Finish, StartInv
  <1>27. ASSUME NEW c \in Conn, NetworkDrop(c) PROVE SaidInv'
    <2>1. UNCHANGED sStatus /\ (Untold' => Untold)
      BY <1>27, LostStarts, UntoldKept DEF NetworkDrop, httpVars, sessionVars
    <2>2. PICK n \in 0..Len(chain[c]) : chain' = [chain EXCEPT ![c] = SubSeq(@, 1, n)]
      BY <1>27 DEF NetworkDrop
    <2>3. \A s \in Outcomes : \A d \in Conn : Mentions(chain'[d], s) => Mentions(chain[d], s)
      BY <1>t, <2>2, MentionsPrefix
    <2>4. \A s \in Outcomes : Said(s)' => Said(s)
      BY <1>27, <2>3 DEF NetworkDrop, Said, rowVars, sessionVars
    <2> QED
      BY <2>1, <2>4, SaidKept
  <1>28. CASE AgentCrash
    <2>1. sStatus' = "none"
      BY <1>28 DEF AgentCrash
    <2>2. Untold' => Untold
      BY <1>28 DEF AgentCrash, Untold, StartAt, httpVars
    <2>3. \A s \in Outcomes : Said(s)' => Said(s)
      BY <1>28, MentionsNone DEF AgentCrash, Said, rowVars
    <2> QED
      BY <2>1, <2>2, <2>3 DEF SaidInv
  <1>30. CASE CheckDevice \/ CheckOnline
    <2>1. Untold /\ UNCHANGED <<rowStatus, pending, chain, loopOut, runOut>>
      BY <1>30 DEF CheckDevice, CheckOnline, Untold, rowVars, socketVars, clientVars, sessionVars
    <2>2. \A s \in Outcomes : ~Said(s)'
      BY <2>1 DEF SaidInv, Said
    <2> QED
      BY <2>2 DEF SaidInv
  <1>29. CASE UNCHANGED <<rowStatus, pending, chain, loopOut, runOut, sStatus, createPc, down>>
    <2>1. \A s \in Outcomes : Said(s)' => Said(s)
      BY <1>29 DEF Said
    <2>2. Untold' => Untold
      BY <1>29 DEF Untold, StartAt
    <2> QED
      BY <1>29, <2>1, <2>2, SaidKept
  <1> QED
    BY <1>1, <1>2, <1>3, <1>4, <1>5, <1>6, <1>7, <1>8, <1>9, <1>10, <1>11, <1>12,
       <1>13, <1>14, <1>15, <1>16, <1>17, <1>18, <1>19, <1>20, <1>21, <1>22, <1>23,
       <1>24, <1>25, <1>26, <1>27, <1>28, <1>29, <1>30
    DEF Next, Server, ServerFrame, AgentLoop, AgentRun, Failure, vars, rowVars,
        socketVars, httpVars, clientVars, sessionVars,
        CancelRead, CancelDetail, RowWritten, RevokeCloseDevice, FlushOutput,
        SocketClosed, Spawn, Announced, ProcessExit

\* The row never says completed or failed of a job that its agent remembers
\* otherwise, for any number of connections, cancellations, network failures
\* and restarts, and however far the server lags behind.
THEOREM OutcomeCorrect == Spec => []HonestOutcome
  <1>1. Init => StartInv /\ SaidInv
    <2> SUFFICES ASSUME Init PROVE StartInv /\ SaidInv
      OBVIOUS
    <2>1. \A s \in Outcomes : ~Said(s)
      BY MentionsNone DEF Init, Said, Outcomes, NoWrite
    <2>2. StartInv
      BY DEF Init, StartInv, StartAt
    <2> QED
      BY <2>1, <2>2 DEF SaidInv
  <1>2. TypeOK /\ StartInv /\ [Next]_vars => StartInv'
    BY StartStep
  <1>3. TypeOK /\ StartInv /\ SaidInv /\ [Next]_vars => SaidInv'
    BY SaidStep
  <1>4. SaidInv => HonestOutcome
    BY DEF SaidInv, HonestOutcome, Said, Outcomes
  <1> QED
    BY <1>1, <1>2, <1>3, <1>4, TypeCorrect, PTL DEF Spec

-----------------------------------------------------------------------------
(* One socket at a time                                                    *)

\* Work is left to the server on this socket.
Busy(c) == chain[c] # <<>> \/ pending[c] # NoWrite

\* ... and all of it is behind a hello that is yet to be handled.
Fresh(c) == Idle(c) /\ HeadIs(c, "hello")

\* The server still reads what the agent sends on this socket.
Heard(c) == link[c] \in {"live", "closing"}

\* Where the server does not lag, the agent has one connection, and the server
\* works for one: the agent's own, or one the agent has just left.
OneSocket ==
  /\ agentPhase = "offline" => agentConn = NoConn
  /\ \A c \in Conn : link[c] = "live" => agentConn = c
  /\ \A c \in Conn : link[c] = "cut" => down[c] = <<>>
  /\ \A c \in Conn : down[c] # <<>> => agentConn = c
  /\ \A c, d \in Conn : Busy(c) /\ Busy(d) => c = d
  /\ \A c \in Conn : Busy(c) => agentConn \in {c, NoConn}

\* ... and that one is attached once its hello is handled, until its close event.
ServedSocket ==
  /\ \A c \in Conn : attached = c => helloReceived[c]
  /\ \A c \in Conn : Busy(c) => attached = c \/ Fresh(c) \/ link[c] = "closed"
  /\ \A c \in Conn : down[c] # <<>> /\ Heard(c) => attached = c
  /\ \A c \in Conn : agentConn = c /\ agentPhase \in {"welcomed", "online"} /\ Heard(c)
                       => attached = c

SocketInv == OneSocket /\ ServedSocket

\* A step that works on the attached socket only, or sends the agent a message
\* on it.
LEMMA SocketKept ==
  ASSUME SocketInv, UNCHANGED <<agentConn, attached, helloReceived>>,
         agentPhase' = agentPhase \/ (agentPhase = "welcomed" /\ agentPhase' = "online"),
         \A c \in Conn : Busy(c)' => Busy(c),
         \A c \in Conn : Busy(c)' /\ Fresh(c) => Fresh(c)' \/ attached = c,
         \A c \in Conn : \/ link'[c] = link[c]
                         \/ link[c] # "closed" /\ link'[c] = "cut" /\ down'[c] = <<>>
                         \/ link'[c] = "closing" /\ attached = c,
         \A c \in Conn : down'[c] # <<>> =>
            down[c] # <<>> \/ (attached = c /\ link[c] = "live")
  PROVE  SocketInv'
  <1> USE DEF SocketInv
  <1>1. OneSocket'
    BY DEF OneSocket, ServedSocket
  <1>2. ServedSocket'
    BY DEF OneSocket, ServedSocket, Heard
  <1> QED
    BY <1>1, <1>2

\* The server sends the agent a message.
LEMMA SentDown ==
  ASSUME TypeOK, NEW order \in Order, CanSendToAgent, down' = SentToAgent(order)
  PROVE  \A c \in Conn : down'[c] # <<>> =>
            down[c] # <<>> \/ (attached = c /\ link[c] = "live")
  BY DEF SentToAgent, CanSendToAgent, IsOpen, TypeOK, SocketType, ClientType

\* Every step keeps SocketInv.
LEMMA SocketStep ==
  ASSUME ~Lagging
  PROVE  TypeOK /\ SocketInv /\ [Next]_vars => SocketInv'
  <1> SUFFICES ASSUME TypeOK, SocketInv, [Next]_vars PROVE SocketInv'
    OBVIOUS
  <1> USE LifecycleAssumption
  <1>t. /\ attached \in Conn \cup {NoConn} /\ link \in [Conn -> LinkState]
        /\ chain \in [Conn -> Seq(Frame)] /\ pending \in [Conn -> Pending]
        /\ helloReceived \in [Conn -> BOOLEAN]
        /\ \A d \in Conn : chain[d] \in Seq(Frame)
        /\ agentConn \in Conn \cup {NoConn} /\ down \in [Conn -> Seq(Order)]
        /\ agentPhase # "offline" => agentConn \in Conn
    BY DEF TypeOK, SocketType, ClientType
  <1>1. CASE UNCHANGED <<attached, link, helloReceived, chain, pending, agentConn,
                         agentPhase, down>>
    BY <1>1, SocketKept DEF Busy, Fresh, Idle, HeadIs
  <1>2. CASE UNCHANGED <<socketVars, agentConn, agentPhase>> /\
             (\A c \in Conn : down'[c] # <<>> =>
                 down[c] # <<>> \/ (attached = c /\ link[c] = "live"))
    BY <1>2, SocketKept DEF socketVars, Busy, Fresh, Idle, HeadIs
  <1>3. CASE DispatchJob
    BY <1>2, <1>3, SentDown DEF DispatchJob, Order
  <1>4. ASSUME NEW r \in Request, CancelSend(r) PROVE SocketInv'
    BY <1>2, <1>4, SentDown DEF CancelSend, Order
  <1>5. CASE RevokeCancelJobs
    BY <1>2, <1>5, SentDown DEF RevokeCancelJobs, Order
  <1>6. CASE RevokeCloseDevice
    <2>1. \A c \in Conn : link'[c] = link[c] \/ (link'[c] = "closing" /\ attached = c)
      BY <1>t, <1>6 DEF RevokeCloseDevice, CloseSocket
    <2> QED
      BY <1>6, <2>1, SocketKept DEF RevokeCloseDevice, clientVars, Busy, Fresh, Idle, HeadIs
  <1>7. ASSUME NEW c \in Conn, HelloAttach(c) PROVE SocketInv'
    <2>1. Busy(c) /\ agentConn \in {c, NoConn}
      BY <1>7 DEF SocketInv, OneSocket, HelloAttach, HeadIs, Busy
    <2>2. \A d \in Conn : Busy(d)' => d = c
      BY <1>t, <1>7, <2>1 DEF SocketInv, OneSocket, HelloAttach, HelloNext, Busy
    <2>3. /\ attached' = c /\ helloReceived'[c] /\ link'[c] = link[c]
          /\ UNCHANGED <<agentConn, agentPhase, down>>
      BY <1>t, <1>7 DEF HelloAttach, CloseSocket, clientVars
    <2>4. \A d \in Conn : link'[d] = link[d] \/ (link'[d] = "closing" /\ d # c)
      BY <1>t, <1>7 DEF HelloAttach, CloseSocket
    <2>5. OneSocket'
      BY <2>1, <2>2, <2>3, <2>4 DEF SocketInv, OneSocket
    <2>6. ServedSocket'
      BY <2>1, <2>2, <2>3, <2>4 DEF SocketInv, OneSocket, ServedSocket, Heard
    <2> QED
      BY <2>5, <2>6 DEF SocketInv
  <1>a. ASSUME NEW c \in Conn, Busy(c), ~Fresh(c), UNCHANGED <<attached, helloReceived, agentConn, agentPhase>>,
               \A d \in Conn \ {c} : chain'[d] = chain[d] /\ pending'[d] = pending[d],
               link' \in {link, CloseSocket(c)},
               \A d \in Conn : down'[d] # <<>> => down[d] # <<>> \/ (attached = d /\ link[d] = "live")
        PROVE  SocketInv'
    <2>1. attached = c \/ link[c] = "closed"
      BY <1>a DEF SocketInv, ServedSocket
    <2>2. \A d \in Conn : Busy(d)' => Busy(d)
      BY <1>a DEF Busy
    <2>3. \A d \in Conn : Busy(d)' /\ Fresh(d) => Fresh(d)' \/ attached = d
      BY <1>a DEF Fresh, Idle, HeadIs
    <2>4. \A d \in Conn : link'[d] = link[d] \/ (link'[d] = "closing" /\ attached = d)
      BY <1>t, <1>a, <2>1 DEF CloseSocket
    <2> QED
      BY <1>a, <2>2, <2>3, <2>4, SocketKept
  <1>8. ASSUME NEW c \in Conn, HelloUpdate(c) PROVE SocketInv'
    <2>1. Busy(c) /\ ~Fresh(c)
      BY <1>8 DEF HelloUpdate, HeadIs, Busy, Fresh
    <2>2. \A d \in Conn \ {c} : chain'[d] = chain[d]
      BY <1>t, <1>8 DEF HelloUpdate, HelloNext, HelloThrows
    <2> QED
      BY <1>8, <1>a, <2>1, <2>2 DEF HelloUpdate, HelloThrows, clientVars
  <1>9. ASSUME NEW c \in Conn, HelloWelcome(c) PROVE SocketInv'
    <2>1. Busy(c) /\ ~Fresh(c)
      BY <1>9 DEF HelloWelcome, HeadIs, Busy, Fresh
    <2>2. \A d \in Conn \ {c} : chain'[d] = chain[d]
      BY <1>t, <1>9 DEF HelloWelcome, HelloNext, HelloThrows
    <2>3. \A d \in Conn : down'[d] # <<>> => down[d] # <<>> \/ (attached = d /\ link[d] = "live")
      BY <1>9, SentDown DEF HelloWelcome, Order
    <2> QED
      BY <1>9, <1>a, <2>1, <2>2, <2>3 DEF HelloWelcome, HelloThrows
  <1>10. ASSUME NEW c \in Conn, HelloReconcile(c) PROVE SocketInv'
    <2>1. Busy(c) /\ ~Fresh(c)
      BY <1>10 DEF HelloReconcile, HeadIs, Busy, Fresh
    <2> QED
      BY <1>t, <1>10, <1>a, <2>1 DEF HelloReconcile, clientVars
  <1>11. ASSUME NEW c \in Conn, TransitionRead(c) PROVE SocketInv'
    <2>1. Busy(c) /\ ~Fresh(c)
      BY <1>11 DEF TransitionRead, HeadIs, Busy, Fresh
    <2>2. link' \in {link, CloseSocket(c)}
      BY <1>11 DEF TransitionRead
    <2>3. \A d \in Conn \ {c} : chain'[d] = chain[d] /\ pending'[d] = pending[d]
      BY <1>t, <1>11 DEF TransitionRead
    <2> QED
      BY <1>11, <1>a, <2>1, <2>2, <2>3 DEF TransitionRead, clientVars
  <1>12. ASSUME NEW c \in Conn, TransitionWrite(c) PROVE SocketInv'
    <2>1. Busy(c) /\ ~Fresh(c)
      BY <1>12 DEF TransitionWrite, Idle, Busy, Fresh
    <2> QED
      BY <1>t, <1>12, <1>a, <2>1 DEF TransitionWrite, clientVars
  <1>13. ASSUME NEW c \in Conn, SocketClosed(c) PROVE SocketInv'
    <2>1. link' = [link EXCEPT ![c] = "closed"]
      BY <1>13 DEF SocketClosed
    <2>2. UNCHANGED <<helloReceived, chain, pending, agentConn, agentPhase, down>>
      BY <1>13 DEF SocketClosed, clientVars
    <2>3. attached' = IF attached = c THEN NoConn ELSE attached
      BY <1>t, <1>13 DEF SocketClosed, SocketInv, ServedSocket
    <2>4. OneSocket'
      BY <1>t, <2>1, <2>2 DEF SocketInv, OneSocket, Busy
    <2>5. ServedSocket'
      BY <1>t, <2>1, <2>2, <2>3 DEF SocketInv, ServedSocket, Busy, Fresh, Idle, HeadIs, Heard
    <2> QED
      BY <2>4, <2>5 DEF SocketInv
  <1>14. ASSUME NEW c \in Conn, Dial(c) PROVE SocketInv'
    <2>1. \A d \in Conn : ~Busy(d) /\ link[d] # "live" /\ down[d] = <<>>
      BY <1>14 DEF Dial, Drained, Busy, SocketInv, OneSocket, Idle
    <2>2. /\ attached # c /\ UNCHANGED <<attached, pending>>
          /\ agentConn' = c /\ agentPhase' = "dialing"
          /\ \A d \in Conn \ {c} : /\ link'[d] = link[d] /\ chain'[d] = chain[d]
                                   /\ helloReceived'[d] = helloReceived[d]
          /\ link'[c] = "live" /\ \A d \in Conn : down'[d] = <<>>
      BY <1>t, <1>14, <2>1 DEF Dial, Reusable
    <2>3. chain'[c] # <<>> /\ Head(chain'[c]).kind = "hello" /\ pending'[c] = NoWrite
      BY <1>t, <1>14 DEF Dial, Reusable, Idle
    <2>4. \A d \in Conn : Busy(d)' => d = c
      BY <2>1, <2>2 DEF Busy
    <2>5. Fresh(c)'
      BY <2>3 DEF Fresh, Idle, HeadIs
    <2>6. OneSocket'
      BY <2>1, <2>2, <2>4 DEF SocketInv, OneSocket
    <2>7. ServedSocket'
      BY <1>t, <2>1, <2>2, <2>4, <2>5 DEF SocketInv, ServedSocket, Heard
    <2> QED
      BY <2>6, <2>7 DEF SocketInv
  <1>15. ASSUME NEW c \in Conn, Welcomed(c) PROVE SocketInv'
    <2>1. /\ UNCHANGED <<attached, link, helloReceived, chain, pending, agentConn>>
          /\ agentPhase' = "welcomed" /\ agentConn = c /\ down[c] # <<>>
          /\ \A d \in Conn : down'[d] # <<>> => down[d] # <<>>
      BY <1>t, <1>15 DEF Welcomed, NextOrder, Take, socketVars
    <2>2. OneSocket'
      BY <2>1 DEF SocketInv, OneSocket, Busy
    <2>3. ServedSocket'
      BY <2>1 DEF SocketInv, ServedSocket, Busy, Fresh, Idle, HeadIs, Heard
    <2> QED
      BY <2>2, <2>3 DEF SocketInv
  <1>16. CASE ReconcileAll
    BY <1>16, SocketKept DEF ReconcileAll, socketVars, Busy, Fresh, Idle, HeadIs
  <1>b. ASSUME UNCHANGED <<attached, helloReceived, chain, pending>>,
               agentConn' = NoConn, agentPhase' = "offline",
               \A d \in Conn : link'[d] # "live" /\ down'[d] = <<>>,
               \A d \in Conn : link'[d] = link[d] \/ (link[d] # "closed" /\ link'[d] = "cut")
        PROVE  SocketInv'
    <2>1. OneSocket'
      BY <1>b DEF SocketInv, OneSocket, Busy
    <2>2. ServedSocket'
      BY <1>b DEF SocketInv, ServedSocket, Busy, Fresh, Idle, HeadIs
    <2> QED
      BY <2>1, <2>2 DEF SocketInv
  <1>17. ASSUME NEW c \in Conn, ProtocolError(c) PROVE SocketInv'
    <2>1. /\ agentConn = c /\ down' = [down EXCEPT ![c] = <<>>]
          /\ link' = [link EXCEPT ![c] = IF @ = "live" THEN "cut" ELSE @]
      BY <1>17 DEF ProtocolError, NextOrder
    <2>2. \A d \in Conn : link'[d] # "live" /\ down'[d] = <<>>
      BY <1>t, <2>1 DEF SocketInv, OneSocket
    <2>3. \A d \in Conn : link'[d] = link[d] \/ (link[d] # "closed" /\ link'[d] = "cut")
      BY <1>t, <2>1
    <2> QED
      BY <1>17, <1>b, <2>2, <2>3 DEF ProtocolError
  <1>18. ASSUME NEW c \in Conn, StartJob(c) PROVE SocketInv'
    <2>1. \A d \in Conn : down'[d] # <<>> => down[d] # <<>>
      BY <1>t, <1>18 DEF StartJob, NextOrder, Take
    <2> QED
      BY <1>2, <1>18, <2>1 DEF StartJob
  <1>19. ASSUME NEW c \in Conn, CancelJob(c) PROVE SocketInv'
    <2>1. \A d \in Conn : down'[d] # <<>> => down[d] # <<>>
      BY <1>t, <1>19 DEF CancelJob, NextOrder, Take
    <2> QED
      BY <1>2, <1>19, <2>1 DEF CancelJob
  <1>c. ASSUME NEW f \in Frame, chain' = Sent(f),
               UNCHANGED <<attached, link, helloReceived, pending, agentConn, agentPhase, down>>
        PROVE  SocketInv'
    <2>1. CASE chain' = chain
      BY <1>c, <1>1, <2>1
    <2>2. CASE chain' # chain
      <3>1. /\ agentPhase \in {"welcomed", "online"} /\ Heard(agentConn) /\ agentConn \in Conn
            /\ \A d \in Conn \ {agentConn} : chain'[d] = chain[d]
        BY <1>t, <1>c, <2>2 DEF Sent, Heard
      <3>2. attached = agentConn
        BY <3>1 DEF SocketInv, ServedSocket
      <3>3. \A d \in Conn : Busy(d)' => d = agentConn
        BY <1>c, <3>1 DEF SocketInv, OneSocket, Busy
      <3>4. OneSocket'
        BY <1>c, <3>1, <3>3 DEF SocketInv, OneSocket, Heard
      <3>5. ServedSocket'
        BY <1>c, <3>2, <3>3 DEF SocketInv, ServedSocket, Heard
      <3> QED
        BY <3>4, <3>5 DEF SocketInv
    <2> QED
      BY <2>1, <2>2
  <1>20. CASE LoopSend
    <2>1. Head(loopOut) \in Frame
      BY <1>20, HeadTail DEF LoopSend, TypeOK, ClientType
    <2> QED
      BY <1>20, <1>c, <2>1 DEF LoopSend
  <1>21. CASE RunSend
    <2>1. Head(runOut) \in Frame
      BY <1>21, HeadTail DEF RunSend, TypeOK, SessionType
    <2> QED
      BY <1>21, <1>c, <2>1 DEF RunSend, clientVars
  <1>22. CASE ConnectionLost
    <2>1. \A d \in Conn : link[d] # "live" /\ down'[d] = <<>>
      BY <1>t, <1>22 DEF ConnectionLost, SocketInv, OneSocket
    <2> QED
      BY <1>22, <1>b, <2>1 DEF ConnectionLost, socketVars
  <1>23. ASSUME NEW c \in Conn, NetworkDrop(c) PROVE SocketInv'
    <2>1. PICK n \in 0..Len(chain[c]) : chain' = [chain EXCEPT ![c] = SubSeq(@, 1, n)]
      BY <1>23 DEF NetworkDrop
    <2>2. chain'[c] # <<>> => chain[c] # <<>> /\ Head(chain'[c]) = Head(chain[c])
      <3>1. chain'[c] = SubSeq(chain[c], 1, n)
        BY <1>t, <2>1
      <3>2. chain'[c] # <<>> => n \in 1..Len(chain[c])
        BY <1>t, <3>1
      <3>3. n \in 1..Len(chain[c]) => chain[c] # <<>> /\ Head(SubSeq(chain[c], 1, n)) = Head(chain[c])
        BY <1>t
      <3> QED
        BY <3>1, <3>2, <3>3
    <2>3. \A d \in Conn \ {c} : chain'[d] = chain[d]
      BY <1>t, <2>1
    <2>4. \A d \in Conn : Busy(d)' => Busy(d)
      BY <1>23, <2>2, <2>3 DEF NetworkDrop, Busy
    <2>5. \A d \in Conn : Busy(d)' /\ Fresh(d) => Fresh(d)'
      BY <1>23, <2>2, <2>3 DEF NetworkDrop, Busy, Fresh, Idle, HeadIs
    <2>6. /\ link' = [link EXCEPT ![c] = "cut"] /\ down' = [down EXCEPT ![c] = <<>>]
          /\ link[c] = "live" /\ UNCHANGED <<agentConn, agentPhase, attached, helloReceived>>
      BY <1>23 DEF NetworkDrop
    <2> QED
      BY <1>t, <2>4, <2>5, <2>6, SocketKept
  <1>24. CASE AgentCrash
    <2>1. \A d \in Conn : link'[d] # "live" /\ down'[d] = <<>>
      BY <1>t, <1>24 DEF AgentCrash, SocketInv, OneSocket
    <2>2. \A d \in Conn : link'[d] = link[d] \/ (link[d] # "closed" /\ link'[d] = "cut")
      BY <1>t, <1>24 DEF AgentCrash
    <2> QED
      BY <1>24, <1>b, <2>1, <2>2 DEF AgentCrash
  <1> QED
    BY <1>1, <1>3, <1>4, <1>5, <1>6, <1>7, <1>8, <1>9, <1>10, <1>11, <1>12, <1>13,
       <1>14, <1>15, <1>16, <1>17, <1>18, <1>19, <1>20, <1>21, <1>22, <1>23, <1>24
    DEF Next, Server, ServerFrame, AgentLoop, AgentRun, Failure, vars, socketVars,
        clientVars,
        CheckDevice, CheckOnline, CreateJob, DispatchFailed, CancelRead, CancelWrite,
        CancelDetail, RevokeCommit,
        FlushOutput, DisconnectJobs, SpawnFailed, Spawn, Started, Announced,
        ProcessExit, Finish

\* The initial state has no sockets.
LEMMA SocketInit == Init => SocketInv
  <1> SUFFICES ASSUME Init PROVE SocketInv
    OBVIOUS
  <1> USE LifecycleAssumption
  <1>1. \A c \in Conn : ~Busy(c)
    BY DEF Init, Busy
  <1> QED
    BY <1>1 DEF Init, SocketInv, OneSocket, ServedSocket, Heard

\* Where the server does not lag, the sockets are in order.
LEMMA SocketCorrect ==
  ASSUME ~Lagging
  PROVE  Spec => []SocketInv
  <1>1. TypeOK /\ SocketInv /\ [Next]_vars => SocketInv'
    BY SocketStep
  <1> QED
    BY <1>1, SocketInit, TypeCorrect, PTL DEF Spec

-----------------------------------------------------------------------------
(* An agent that is away                                                   *)

\* OfflineVouched is not inductive: an active row that outlives its agent's
\* attachment, and was not written since, is one that a close handler will
\* still find unwritten.
AwayInv ==
  attached = NoConn /\ rowStatus \in ActiveStatuses /\ ~late =>
    \E c \in Conn : closer[c] /\ ~written[c]

\* A write vouches for the status it leaves, as long as no agent is attached.
LEMMA WriteVouches ==
  ASSUME NEW status, RowWritten(status), UNCHANGED attached
  PROVE  AwayInv'
  BY DEF RowWritten, AwayInv

\* Every step keeps AwayInv.
LEMMA AwayStep == TypeOK /\ AwayInv /\ [Next]_vars => AwayInv'
  <1> SUFFICES ASSUME TypeOK, AwayInv, [Next]_vars PROVE AwayInv'
    OBVIOUS
  <1> USE LifecycleAssumption
  <1>t. /\ attached \in Conn \cup {NoConn}
        /\ written \in [Conn -> BOOLEAN] /\ closer \in [Conn -> BOOLEAN]
    BY DEF TypeOK, SocketType, RowType
  <1>1. CASE UNCHANGED <<rowStatus, written, late, attached, closer>>
    BY <1>1 DEF AwayInv
  <1>2. CASE CreateJob
    BY <1>2, WriteVouches DEF CreateJob, socketVars
  <1>3. CASE DispatchFailed
    BY <1>3, WriteVouches DEF DispatchFailed, socketVars
  <1>4. ASSUME NEW r \in Request, CancelWrite(r) PROVE AwayInv'
    BY <1>4, WriteVouches DEF CancelWrite, socketVars
  <1>5. ASSUME NEW r \in Request, CancelDetail(r) PROVE AwayInv'
    BY <1>5, WriteVouches DEF CancelDetail, socketVars
  <1>6. CASE RevokeCommit
    <2>1. CASE rowStatus \in ActiveStatuses
      BY <1>6, <2>1, WriteVouches DEF RevokeCommit, socketVars
    <2>2. CASE rowStatus \notin ActiveStatuses
      BY <1>6, <2>2 DEF RevokeCommit, AwayInv
    <2> QED
      BY <2>1, <2>2
  <1>7. ASSUME NEW c \in Conn, HelloAttach(c) PROVE AwayInv'
    BY <1>7 DEF HelloAttach, AwayInv
  <1>8. ASSUME NEW c \in Conn, TransitionWrite(c) PROVE AwayInv'
    BY <1>8, WriteVouches DEF TransitionWrite
  <1>9. CASE FlushOutput
    BY <1>9, WriteVouches DEF FlushOutput, socketVars
  <1>10. ASSUME NEW c \in Conn, SocketClosed(c) PROVE AwayInv'
    BY <1>t, <1>10 DEF SocketClosed, AwayInv
  <1>11. ASSUME NEW c \in Conn, DisconnectJobs(c) PROVE AwayInv'
    <2>1. CASE rowStatus \in ActiveStatuses /\ ~written[c]
      BY <1>11, <2>1, WriteVouches DEF DisconnectJobs
    <2>2. CASE rowStatus \notin ActiveStatuses
      BY <1>11, <2>2 DEF DisconnectJobs, AwayInv
    <2>3. CASE rowStatus \in ActiveStatuses /\ written[c]
      BY <1>t, <1>11, <2>3 DEF DisconnectJobs, AwayInv
    <2> QED
      BY <2>1, <2>2, <2>3
  <1> QED
    BY <1>1, <1>2, <1>3, <1>4, <1>5, <1>6, <1>7, <1>8, <1>9, <1>10, <1>11
    DEF Next, Server, ServerFrame, AgentLoop, AgentRun, Failure, vars, rowVars, socketVars,
        CheckDevice, CheckOnline, DispatchJob, CancelRead, CancelSend, RevokeCancelJobs,
        RevokeCloseDevice, HelloUpdate, HelloWelcome, HelloReconcile, TransitionRead, Dial,
        Welcomed, ReconcileAll, ProtocolError, StartJob, CancelJob, LoopSend, RunSend,
        ConnectionLost, SpawnFailed, Spawn, Started, Announced, ProcessExit, Finish,
        NetworkDrop, AgentCrash

\* A job whose agent is away, with nothing under way on the server, has ended,
\* is disconnected, or owes its status to a write that came after its agent was
\* gone: for any number of connections, cancellations, failures, restarts and
\* revocations, and however far the server lags behind.
THEOREM OfflineCorrect == Spec => []OfflineVouched
  <1>1. Init => AwayInv
    BY DEF Init, AwayInv, ActiveStatuses
  <1>2. TypeOK /\ AwayInv /\ [Next]_vars => AwayInv'
    BY AwayStep
  <1>3. TypeOK /\ AwayInv => OfflineVouched
    BY DEF TypeOK, RowType, AwayInv, OfflineVouched, ServerIdle, JobStatuses,
           ActiveStatuses, TerminalStatuses
  <1> QED
    BY <1>1, <1>2, <1>3, TypeCorrect, PTL DEF Spec

-----------------------------------------------------------------------------
(* An agent that is there                                                  *)

\* A session that has not ended.
Unended == {"dispatched", "running", "waiting_for_input"}

\* The agent has reconciled over this connection, and it still holds.
Reporting(c) == agentConn = c /\ agentPhase = "online" /\ link[c] = "live"

\* Where Session.run is bounds what it has yet to send: nothing before
\* started(), and the session's own status last.
RunInv ==
  /\ sStatus \in {"none"} \cup Unended \cup TerminalStatuses
  /\ runPc \in {"accept", "spawn", "register"} => sStatus = "dispatched"
  /\ sStatus \in {"none", "dispatched"} => runOut = <<>>
  /\ sStatus \in Unended =>
       runOut \in {<<>>, <<JobFrame(sStatus)>>, <<JobFrame("running"), JobFrame(sStatus)>>}

\* A device is revoked by the transaction of the handler that closes its socket.
RevokedInv == revoked => revokePc \in {"close", "done"}

\* The outcome of a session that ended is in the row, or another one is, or it
\* is on its way there.
EndedInv ==
  \A c \in Conn : Reporting(c) /\ SessionDone =>
    \/ rowStatus \in TerminalStatuses /\ Idle(c)
    \/ pending[c].to = sStatus
    \/ Mentions(chain[c], sStatus)
    \/ Mentions(loopOut, sStatus)
    \/ Mentions(runOut, sStatus)

\* Statuses from which no frame leads back to dispatched.
Begun == {"running", "waiting_for_input", "disconnected"} \cup TerminalStatuses

\* When the last frame of the chain is handled the row has begun, or the
\* connection is closed.
Stepped(c) ==
  \/ pending[c].to \in Begun
  \/ Idle(c) /\ rowStatus \in Begun
  \/ Mentions(chain[c], "running")

\* What the read loop has yet to send of a session that has not ended.  Its
\* reconciliation may have read dispatched before started(): that frame is
\* refused, for a running frame went before it.
LoopInv ==
  \A c \in Conn : Reporting(c) /\ sStatus \in Unended =>
    \/ loopOut = <<>>
    \/ \E s \in {sStatus, "dispatched"} :
         \/ loopOut = <<JobFrame("running"), JobFrame(s)>>
         \/ /\ loopOut = <<JobFrame(s)>>
            /\ s = "dispatched" /\ runPc # "accept" => Stepped(c)

\* The row holds an outcome, or the session's status and no close handler that
\* would still disconnect it.
Settled(c) ==
  /\ Idle(c)
  /\ \/ rowStatus \in TerminalStatuses
     \/ rowStatus = sStatus /\ \A d \in Conn : closer[d] => written[d]

\* The last frame of the chain is the session's status, or one that will be
\* refused.
LastSettles(c) ==
  IF chain[c] = <<>> THEN pending[c].to = sStatus \/ Settled(c)
  ELSE \/ chain[c][Len(chain[c])] = JobFrame(sStatus)
       \/ chain[c][Len(chain[c])] = JobFrame("dispatched") /\ Stepped(c)

\* So it is once the agent has sent all it has to say of a session that has
\* not ended.
ChainInv ==
  \A c \in Conn :
    Reporting(c) /\ ~revoked /\ sStatus \in Unended /\ loopOut = <<>> /\ runOut = <<>> =>
      LastSettles(c)

\* What is appended is mentioned, and so is what was.
LEMMA AppendMentions ==
  ASSUME NEW q \in Seq(Frame), NEW f \in Frame, NEW s, Mentions(q, s) \/ f.arg = s
  PROVE  Mentions(Append(q, f), s)
  <1>0. /\ Len(Append(q, f)) = Len(q) + 1
        /\ \A i \in 1..Len(q) : Append(q, f)[i] = q[i]
        /\ Append(q, f)[Len(q) + 1] = f
    OBVIOUS
  <1>1. CASE Mentions(q, s)
    <2>1. PICK i \in 1..Len(q) : q[i].arg = s
      BY <1>1 DEF Mentions
    <2>2. i \in 1..Len(Append(q, f)) /\ Append(q, f)[i].arg = s
      BY <1>0, <2>1
    <2> QED
      BY <2>2 DEF Mentions
  <1>2. CASE f.arg = s
    <2>1. Len(q) + 1 \in 1..Len(Append(q, f))
      BY <1>0
    <2> QED
      BY <1>0, <1>2, <2>1 DEF Mentions
  <1> QED
    BY <1>1, <1>2

\* What the head does not say the rest says.
LEMMA TailMentions ==
  ASSUME NEW q \in Seq(Frame), q # <<>>, NEW s, Mentions(q, s), Head(q).arg # s
  PROVE  Mentions(Tail(q), s)
  <1>1. PICK i \in 1..Len(q) : q[i].arg = s
    BY DEF Mentions
  <1>2. i # 1
    BY <1>1
  <1>3. i - 1 \in 1..Len(Tail(q)) /\ Tail(q)[i - 1] = q[i]
    BY <1>1, <1>2
  <1> QED
    BY <1>1, <1>3 DEF Mentions

\* What comes after is still mentioned.
LEMMA JoinedMentions ==
  ASSUME NEW p \in Seq(Frame), NEW q \in Seq(Frame), NEW s, Mentions(q, s)
  PROVE  Mentions(p \o q, s)
  <1>1. PICK i \in 1..Len(q) : q[i].arg = s
    BY DEF Mentions
  <1>2. Len(p) + i \in 1..Len(p \o q) /\ (p \o q)[Len(p) + i] = q[i]
    BY <1>1
  <1> QED
    BY <1>1, <1>2 DEF Mentions

\* The last element of a sequence, past its head.
LEMMA LastTail ==
  ASSUME NEW q \in Seq(Frame), q # <<>>
  PROVE  /\ Len(q) \in Nat \ {0}
         /\ Tail(q) = <<>> => q[Len(q)] = Head(q)
         /\ Tail(q) # <<>> => Tail(q)[Len(Tail(q))] = q[Len(q)]
  <1>1. Len(q) \in Nat \ {0} /\ Len(Tail(q)) = Len(q) - 1 /\ Tail(q) \in Seq(Frame)
    BY EmptySeq
  <1>2. CASE Len(q) = 1
    <2>1. Len(Tail(q)) = 0
      BY <1>1, <1>2
    <2>2. Tail(q) = <<>>
      BY <1>1, <2>1, EmptySeq
    <2>3. q[Len(q)] = Head(q)
      BY <1>2
    <2> QED
      BY <1>1, <2>2, <2>3
  <1>3. CASE Len(q) # 1
    <2>1. Len(Tail(q)) \in Nat \ {0}
      BY <1>1, <1>3
    <2>2. Tail(q) # <<>>
      BY <1>1, <2>1, EmptySeq
    <2>3. Tail(q)[Len(Tail(q))] = q[Len(q)]
      BY <1>1, <2>1
    <2> QED
      BY <1>1, <2>2, <2>3
  <1> QED
    BY <1>2, <1>3

\* ... of two sequences joined.
LEMMA LastJoined ==
  ASSUME NEW p \in Seq(Frame), NEW q \in Seq(Frame), q # <<>>
  PROVE  p \o q # <<>> /\ (p \o q)[Len(p \o q)] = q[Len(q)]
  <1>1. Len(q) \in Nat \ {0} /\ Len(p) \in Nat /\ Len(p \o q) = Len(p) + Len(q)
    BY EmptySeq
  <1>2. Len(p) + Len(q) \in Len(p) + 1 .. Len(p) + Len(q) /\ p \o q # <<>>
    BY <1>1
  <1> QED
    BY <1>1, <1>2

\* Every step keeps what Session.run has to send in bounds.
LEMMA RunStep == TypeOK /\ RunInv /\ [Next]_vars => RunInv'
  <1> SUFFICES ASSUME TypeOK, RunInv, [Next]_vars PROVE RunInv'
    OBVIOUS
  <1> USE DEF RunInv
  <1>1. CASE UNCHANGED <<sStatus, runPc, runOut>>
    BY <1>1
  <1>2. ASSUME NEW c \in Conn, StartJob(c) PROVE RunInv'
    BY <1>2 DEF StartJob, Unended
  <1>3. CASE LoopSend
    BY <1>3 DEF LoopSend
  <1>4. CASE RunSend
    <2>1. /\ UNCHANGED <<sStatus, runPc>> /\ runOut # <<>> /\ runOut' = Tail(runOut)
      BY <1>4 DEF RunSend
    <2>2. \A a, b : Tail(<<a>>) = <<>> /\ Tail(<<b, a>>) = <<a>>
      OBVIOUS
    <2>3. sStatus \in Unended => runOut' \in {<<>>, <<JobFrame(sStatus)>>}
      BY <2>1, <2>2
    <2> QED
      BY <2>1, <2>3
  <1>5. CASE SpawnFailed
    BY <1>5 DEF SpawnFailed, Unended, TerminalStatuses
  <1>6. CASE Spawn
    BY <1>6 DEF Spawn
  <1>7. CASE Started
    BY <1>7 DEF Started, Unended
  <1>8. CASE Announced
    BY <1>8 DEF Announced
  <1>9. CASE Finish
    BY <1>9 DEF Finish, Unended, TerminalStatuses
  <1>10. CASE AgentCrash
    BY <1>10 DEF AgentCrash, Unended
  <1> QED
    BY <1>1, <1>2, <1>3, <1>4, <1>5, <1>6, <1>7, <1>8, <1>9, <1>10
    DEF Next, Server, ServerFrame, AgentLoop, AgentRun, Failure, vars, sessionVars,
        CheckDevice, CheckOnline, CreateJob, DispatchJob, DispatchFailed,
        CancelRead, CancelWrite, CancelSend, CancelDetail, RevokeCancelJobs, RevokeCommit,
        RevokeCloseDevice, HelloAttach, HelloUpdate, HelloWelcome,
        HelloReconcile, TransitionRead, TransitionWrite, FlushOutput,
        SocketClosed, DisconnectJobs, Dial, Welcomed, ReconcileAll, CancelJob,
        ProtocolError, ConnectionLost, NetworkDrop, ProcessExit

\* Every step keeps RevokedInv.
LEMMA RevokedStep == RevokedInv /\ [Next]_vars => RevokedInv'
  <1> SUFFICES ASSUME RevokedInv, [Next]_vars PROVE RevokedInv'
    OBVIOUS
  <1> USE DEF RevokedInv
  <1>1. CASE UNCHANGED <<revoked, revokePc>>
    BY <1>1
  <1>2. CASE RevokeCancelJobs
    BY <1>2 DEF RevokeCancelJobs, rowVars
  <1>3. CASE RevokeCommit
    BY <1>3 DEF RevokeCommit
  <1>4. CASE RevokeCloseDevice
    BY <1>4 DEF RevokeCloseDevice
  <1> QED
    BY <1>1, <1>2, <1>3, <1>4
    DEF Next, Server, ServerFrame, AgentLoop, AgentRun, Failure, vars, rowVars, httpVars,
        CheckDevice, CheckOnline, CreateJob, DispatchJob, DispatchFailed,
        CancelRead, CancelWrite, CancelSend, CancelDetail, HelloAttach, HelloUpdate, HelloWelcome,
        HelloReconcile, TransitionRead, TransitionWrite, FlushOutput,
        SocketClosed, DisconnectJobs, Dial, Welcomed, ReconcileAll, ProtocolError,
        StartJob, CancelJob, LoopSend, RunSend, ConnectionLost, SpawnFailed, Spawn,
        Started, Announced, ProcessExit, Finish, NetworkDrop, AgentCrash

-----------------------------------------------------------------------------
(* What a step does to the report of a session                             *)

\* The report: the frames under way on connection c, and the status they tell.
ReportKept(c) ==
  /\ UNCHANGED <<sStatus, loopOut, runOut>>
  /\ chain'[c] = chain[c]
  /\ pending'[c] = pending[c]

\* Other handlers may end the row, or disconnect it: the one that revokes the
\* device, or the close handler of an earlier connection.
RowAside ==
  /\ \/ rowStatus' = rowStatus
     \/ rowStatus' \in TerminalStatuses
     \/ /\ rowStatus \in ActiveStatuses
        /\ rowStatus' = "disconnected"
        /\ revoked' \/ \E d \in Conn : closer[d] /\ ~written[d]
  /\ \A d \in Conn : closer'[d] /\ ~written'[d] => closer[d] /\ ~written[d]
  /\ revoked => revoked'

Aside(c) ==
  ReportKept(c) /\ RowAside /\ (runPc' = "accept" <=> runPc = "accept")

\* A stage of the hello handler.
Answered(c) ==
  /\ UNCHANGED <<rowStatus, written, revoked, closer, sStatus, runPc, loopOut, runOut>>
  /\ pending'[c] = pending[c]
  /\ chain[c] # <<>>
  /\ Head(chain[c]).kind \in HelloStages
  /\ \E p \in Seq(Frame) : chain'[c] = p \o Tail(chain[c])

\* A frame is dropped, or its write is owed.
ReadOff(c) ==
  /\ UNCHANGED <<rowStatus, written, revoked, closer, sStatus, runPc, loopOut, runOut>>
  /\ Idle(c)
  /\ chain[c] # <<>>
  /\ chain'[c] = Tail(chain[c])
  /\ \/ rowStatus \in TerminalStatuses /\ pending'[c] = NoWrite
     \/ /\ rowStatus \in JobStatuses \ TerminalStatuses
        /\ CanTransitionJob(rowStatus, Head(chain[c]).arg)
        /\ pending'[c].to = Head(chain[c]).arg

\* The write is made.
Wrote(c) ==
  /\ UNCHANGED <<revoked, closer, sStatus, runPc, loopOut, runOut>>
  /\ pending[c] # NoWrite
  /\ pending'[c] = NoWrite
  /\ chain'[c] = chain[c]
  /\ rowStatus' = pending[c].to
  /\ \A d \in Conn : written'[d]

\* A frame is sent by the read loop, or by Session.run.
LoopSent(c) ==
  /\ UNCHANGED <<rowStatus, written, revoked, closer, sStatus, runOut>>
  /\ pending'[c] = pending[c]
  /\ loopOut # <<>>
  /\ chain'[c] = Append(chain[c], Head(loopOut))
  /\ loopOut' = Tail(loopOut)
  /\ runPc' # "accept"
  /\ runPc = "accept" => sStatus = "dispatched"

RunSent(c) ==
  /\ UNCHANGED <<rowStatus, written, revoked, closer, sStatus, runPc, loopOut>>
  /\ pending'[c] = pending[c]
  /\ runOut # <<>>
  /\ chain'[c] = Append(chain[c], Head(runOut))
  /\ runOut' = Tail(runOut)

\* The session takes its next status and has it to report.
Stepping(c) ==
  /\ UNCHANGED <<rowStatus, written, revoked, closer>>
  /\ chain'[c] = chain[c]
  /\ pending'[c] = pending[c]
  /\ \/ /\ sStatus' = "dispatched" /\ runPc' = "accept"
        /\ loopOut' = <<JobFrame("dispatched")>>
     \/ /\ sStatus = "dispatched" /\ runPc = "register" /\ sStatus' \in Unended
        /\ runOut' = <<JobFrame("running"), JobFrame(sStatus')>> /\ UNCHANGED loopOut
     \/ /\ sStatus' \in TerminalStatuses /\ runOut' = <<JobFrame(sStatus')>>
        /\ UNCHANGED loopOut

Event(c) ==
  \/ Reporting(c) /\ (\/ Aside(c) \/ Answered(c) \/ ReadOff(c) \/ Wrote(c)
                      \/ LoopSent(c) \/ RunSent(c) \/ Stepping(c))
  \/ ReconcileAll

\* Every step that leaves the agent reporting over c is one of these.
LEMMA ReportStep ==
  ASSUME ~Lagging, TypeOK, StartInv, SocketInv, RunInv, [Next]_vars,
         NEW c \in Conn, Reporting(c)', sStatus' # "none"
  PROVE  Event(c)
  <1> USE LifecycleAssumption
  <1>t. /\ attached \in Conn \cup {NoConn} /\ link \in [Conn -> LinkState]
        /\ chain \in [Conn -> Seq(Frame)] /\ pending \in [Conn -> Pending]
        /\ \A d \in Conn : chain[d] \in Seq(Frame)
        /\ written \in [Conn -> BOOLEAN] /\ closer \in [Conn -> BOOLEAN]
        /\ rowStatus \in JobStatuses \cup {"none"}
    BY DEF TypeOK, SocketType, RowType
  <1>a. ASSUME Reporting(c) PROVE attached = c /\ \A d \in Conn : Busy(d) => d = c
    BY <1>a DEF Reporting, SocketInv, OneSocket, ServedSocket, Heard
  <1>b. ASSUME Reporting(c), ReportKept(c), UNCHANGED <<rowStatus, written, closer, revoked>>,
               runPc' = "accept" <=> runPc = "accept"
        PROVE  Event(c)
    BY <1>b DEF Event, Aside, RowAside
  <1>c. ASSUME UNCHANGED <<agentConn, agentPhase>>,
               \A d \in Conn : link'[d] = "live" => link[d] = "live"
        PROVE  Reporting(c)
    BY <1>c DEF Reporting
  <1>1. CASE UNCHANGED <<rowStatus, written, closer, revoked, sStatus, runPc, loopOut, runOut, chain,
                         pending, link, agentConn, agentPhase>>
    BY <1>1, <1>b, <1>c DEF ReportKept
  <1>2. CASE CreateJob
    <2>1. sStatus = "none"
      BY <1>2 DEF CreateJob, StartInv
    <2> QED
      BY <1>2, <2>1 DEF CreateJob, sessionVars
  <1>3. CASE DispatchFailed
    <2>1. sStatus = "none"
      BY <1>3 DEF DispatchFailed, StartInv
    <2> QED
      BY <1>3, <2>1 DEF DispatchFailed, sessionVars
  <1>4. ASSUME NEW r \in Request, CancelWrite(r) PROVE Event(c)
    <2>1. Reporting(c) /\ ReportKept(c) /\ UNCHANGED runPc
      BY <1>4, <1>c DEF CancelWrite, ReportKept, socketVars, clientVars, sessionVars
    <2>2. RowAside
      BY <1>4 DEF CancelWrite, RowWritten, RowAside, TerminalStatuses
    <2> QED
      BY <2>1, <2>2 DEF Event, Aside
  <1>5. ASSUME NEW r \in Request, CancelDetail(r) PROVE Event(c)
    <2>1. Reporting(c) /\ ReportKept(c) /\ UNCHANGED runPc
      BY <1>5, <1>c DEF CancelDetail, ReportKept, socketVars, clientVars, sessionVars
    <2>2. RowAside
      BY <1>5 DEF CancelDetail, RowWritten, RowAside
    <2> QED
      BY <2>1, <2>2 DEF Event, Aside
  <1>6. CASE RevokeCommit
    <2>1. Reporting(c) /\ ReportKept(c) /\ UNCHANGED runPc
      BY <1>6, <1>c DEF RevokeCommit, ReportKept, socketVars, clientVars, sessionVars
    <2>2. RowAside
      BY <1>t, <1>6 DEF RevokeCommit, RowWritten, RowAside, socketVars
    <2> QED
      BY <2>1, <2>2 DEF Event, Aside
  <1>7. CASE RevokeCloseDevice
    <2>1. \A d \in Conn : link'[d] = "live" => link[d] = "live"
      BY <1>t, <1>7 DEF RevokeCloseDevice, CloseSocket
    <2> QED
      BY <1>7, <1>b, <1>c, <2>1 DEF RevokeCloseDevice, ReportKept, rowVars, clientVars, sessionVars
  <1>h. ASSUME NEW d \in Conn, Busy(d),
               UNCHANGED <<agentConn, agentPhase, rowStatus, written, revoked, closer, sStatus, runPc, loopOut, runOut>>,
               pending' = pending, HeadIs(d, "hello") \/ HeadIs(d, "update") \/
                                   HeadIs(d, "welcome") \/ HeadIs(d, "reconcile"),
               \A e \in Conn : link'[e] = "live" => link[e] = "live",
               link'[d] = "live" => \E p \in Seq(Frame) : chain'[d] = p \o Tail(chain[d])
        PROVE  Event(c)
    <2>1. Reporting(c)
      BY <1>c, <1>h
    <2>2. d = c
      BY <1>a, <1>h, <2>1
    <2>3. Answered(c)
      BY <1>h, <2>2 DEF Answered, HeadIs, HelloStages, Reporting
    <2> QED
      BY <2>1, <2>3 DEF Event
  <1>n. ASSUME NEW d \in Conn, NEW stage \in HelloStages, Busy(d), HelloNext(d, stage),
               HeadIs(d, "hello") \/ HeadIs(d, "update") \/ HeadIs(d, "welcome")
        PROVE  \E p \in Seq(Frame) : chain'[d] = p \o Tail(chain[d])
    <2> DEFINE f == [kind |-> stage, arg |-> Head(chain[d]).arg]
    <2>1. chain[d] # <<>> /\ Head(chain[d]) \in Frame /\ Head(chain[d]).kind \in HelloStages
      BY <1>t, <1>n, HeadTail DEF HeadIs, HelloStages
    <2>2. f \in Frame
      BY <2>1, HelloFrameType
    <2>3. <<f>> \in Seq(Frame)
      BY <2>2, OneFrame
    <2>4. chain'[d] = <<f>> \o Tail(chain[d])
      BY <1>t, <1>n DEF HelloNext
    <2> QED
      BY <2>3, <2>4
  <1>8. ASSUME NEW d \in Conn, HelloAttach(d) PROVE Event(c)
    <2>1. Busy(d) /\ HeadIs(d, "hello")
      BY <1>8 DEF HelloAttach, HeadIs, Busy
    <2>2. \A e \in Conn : link'[e] = "live" => link[e] = "live"
      BY <1>t, <1>8 DEF HelloAttach, CloseSocket
    <2>3. \E p \in Seq(Frame) : chain'[d] = p \o Tail(chain[d])
      BY <1>8, <1>n, <2>1 DEF HelloAttach, HelloStages
    <2> QED
      BY <1>8, <1>h, <2>1, <2>2, <2>3 DEF HelloAttach, clientVars, sessionVars
  <1>9. ASSUME NEW d \in Conn, HelloUpdate(d) PROVE Event(c)
    <2>1. Busy(d) /\ HeadIs(d, "update")
      BY <1>9 DEF HelloUpdate, HeadIs, Busy
    <2>2. \A e \in Conn : link'[e] = "live" => link[e] = "live"
      BY <1>t, <1>9 DEF HelloUpdate, HelloThrows, CloseSocket
    <2>3. link'[d] = "live" => \E p \in Seq(Frame) : chain'[d] = p \o Tail(chain[d])
      BY <1>t, <1>9, <1>n, <2>1 DEF HelloUpdate, HelloThrows, CloseSocket, HelloStages
    <2> QED
      BY <1>9, <1>h, <2>1, <2>2, <2>3 DEF HelloUpdate, rowVars, clientVars, sessionVars
  <1>10. ASSUME NEW d \in Conn, HelloWelcome(d) PROVE Event(c)
    <2>1. Busy(d) /\ HeadIs(d, "welcome")
      BY <1>10 DEF HelloWelcome, HeadIs, Busy
    <2>2. \A e \in Conn : link'[e] = "live" => link[e] = "live"
      BY <1>t, <1>10 DEF HelloWelcome, HelloThrows, CloseSocket
    <2>3. link'[d] = "live" => \E p \in Seq(Frame) : chain'[d] = p \o Tail(chain[d])
      BY <1>t, <1>10, <1>n, <2>1 DEF HelloWelcome, HelloThrows, CloseSocket, HelloStages
    <2> QED
      BY <1>10, <1>h, <2>1, <2>2, <2>3 DEF HelloWelcome, rowVars, sessionVars
  <1>11. ASSUME NEW d \in Conn, HelloReconcile(d) PROVE Event(c)
    <2>1. Busy(d) /\ HeadIs(d, "reconcile")
      BY <1>11 DEF HelloReconcile, HeadIs, Busy
    <2>2. \E p \in Seq(Frame) : chain'[d] = p \o Tail(chain[d])
      <3>1. Tail(chain[d]) \in Seq(Frame)
        BY <1>t, <2>1, HeadTail DEF HeadIs
      <3>2. CASE rowStatus \in JobStatuses /\ chain'[d] = ResumeFrames(rowStatus) \o Tail(chain[d])
        BY <3>2, ResumeType
      <3>3. CASE chain'[d] = Tail(chain[d])
        <4>1. chain'[d] = <<>> \o Tail(chain[d]) /\ <<>> \in Seq(Frame)
          BY <3>1, <3>3
        <4> QED
          BY <4>1
      <3> QED
        BY <1>t, <1>11, <3>2, <3>3 DEF HelloReconcile
    <2> QED
      BY <1>11, <1>h, <2>1, <2>2 DEF HelloReconcile, rowVars, clientVars, sessionVars
  <1>12. ASSUME NEW d \in Conn, TransitionRead(d) PROVE Event(c)
    <2>1. Busy(d) /\ chain[d] # <<>> /\ Idle(d) /\ rowStatus \in JobStatuses
      BY <1>t, <1>12 DEF TransitionRead, HeadIs, Busy
    <2>2. \A e \in Conn : link'[e] = "live" => link[e] = "live"
      BY <1>t, <1>12 DEF TransitionRead, CloseSocket
    <2>3. Reporting(c)
      BY <1>12, <1>c, <2>2 DEF TransitionRead, clientVars
    <2>4. d = c
      BY <1>a, <2>1, <2>3
    <2>5. link' = link
      BY <1>t, <1>12, <2>4 DEF TransitionRead, CloseSocket, Reporting
    <2>6. UNCHANGED <<rowStatus, written, revoked, closer, sStatus, runPc, loopOut, runOut>>
      BY <1>12 DEF TransitionRead, rowVars, clientVars, sessionVars
    <2>7. CASE rowStatus \in TerminalStatuses
      <3>1. chain'[c] = Tail(chain[c]) /\ pending'[c] = NoWrite
        BY <1>t, <1>12, <2>1, <2>4, <2>7 DEF TransitionRead, Idle
      <3> QED
        BY <2>1, <2>3, <2>4, <2>6, <2>7, <3>1 DEF Event, ReadOff
    <2>8. CASE rowStatus \notin TerminalStatuses
      <3>1. CASE CanTransitionJob(rowStatus, Head(chain[c]).arg)
        <4>1. chain'[c] = Tail(chain[c]) /\ pending'[c].to = Head(chain[c]).arg
          BY <1>t, <1>12, <2>4, <2>8, <3>1 DEF TransitionRead
        <4> QED
          BY <2>1, <2>3, <2>4, <2>6, <2>8, <3>1, <4>1 DEF Event, ReadOff
      <3>2. CASE ~CanTransitionJob(rowStatus, Head(chain[c]).arg)
        <4>1. link' = CloseSocket(c)
          BY <1>12, <2>4, <2>8, <3>2 DEF TransitionRead
        <4> QED
          BY <1>t, <4>1 DEF CloseSocket, Reporting
      <3> QED
        BY <3>1, <3>2
    <2> QED
      BY <2>7, <2>8
  <1>13. ASSUME NEW d \in Conn, TransitionWrite(d) PROVE Event(c)
    <2>1. Busy(d)
      BY <1>13 DEF TransitionWrite, Busy
    <2>2. Reporting(c)
      BY <1>13, <1>c DEF TransitionWrite, clientVars
    <2>3. d = c
      BY <1>a, <2>1, <2>2
    <2>4. Wrote(c)
      BY <1>t, <1>13, <2>3 DEF TransitionWrite, Wrote, RowWritten, clientVars, sessionVars
    <2> QED
      BY <2>2, <2>4 DEF Event
  <1>14. ASSUME NEW d \in Conn, SocketClosed(d) PROVE Event(c)
    <2>1. link' = [link EXCEPT ![d] = "closed"] /\ UNCHANGED clientVars
      BY <1>14 DEF SocketClosed
    <2>2. Reporting(c)
      BY <1>t, <1>c, <2>1 DEF clientVars
    <2>3. d # c /\ attached = c
      BY <1>t, <1>a, <2>1, <2>2 DEF Reporting
    <2>4. UNCHANGED <<closer, written>>
      BY <1>14, <2>3 DEF SocketClosed
    <2> QED
      BY <1>14, <1>b, <2>2, <2>4 DEF SocketClosed, ReportKept, clientVars, sessionVars
  <1>15. ASSUME NEW d \in Conn, DisconnectJobs(d) PROVE Event(c)
    <2>1. Reporting(c) /\ ReportKept(c) /\ UNCHANGED runPc
      BY <1>15, <1>c DEF DisconnectJobs, ReportKept, clientVars, sessionVars
    <2>2. RowAside
      BY <1>t, <1>15 DEF DisconnectJobs, RowWritten, RowAside
    <2> QED
      BY <2>1, <2>2 DEF Event, Aside
  <1>16. ASSUME NEW d \in Conn, Dial(d) PROVE Event(c)
    BY <1>16 DEF Dial, Reporting
  <1>17. ASSUME NEW d \in Conn, Welcomed(d) PROVE Event(c)
    BY <1>17 DEF Welcomed, Reporting
  <1>18. CASE ReconcileAll
    BY <1>18 DEF Event
  <1>19. ASSUME NEW d \in Conn, ProtocolError(d) PROVE Event(c)
    BY <1>19 DEF ProtocolError, Reporting
  <1>20. ASSUME NEW d \in Conn, StartJob(d) PROVE Event(c)
    <2>1. Reporting(c)
      BY <1>20, <1>c DEF StartJob, socketVars
    <2>2. sStatus' = "dispatched" /\ runPc' = "accept" /\ loopOut' = <<JobFrame("dispatched")>>
      BY <1>20 DEF StartJob
    <2>3. Stepping(c)
      BY <1>20, <2>2 DEF StartJob, Stepping, rowVars, socketVars
    <2> QED
      BY <2>1, <2>3 DEF Event
  <1>21. ASSUME NEW d \in Conn, CancelJob(d) PROVE Event(c)
    BY <1>21, <1>b, <1>c DEF CancelJob, ReportKept, rowVars, socketVars
  <1>s. ASSUME Reporting(c), NEW f \in Frame PROVE Sent(f)[c] = Append(chain[c], f)
    BY <1>t, <1>s DEF Sent, Reporting
  <1>22. CASE LoopSend
    <2>1. Reporting(c) /\ loopOut # <<>> /\ Head(loopOut) \in Frame
      BY <1>22, <1>c, HeadTail DEF LoopSend, TypeOK, ClientType
    <2>2. chain'[c] = Append(chain[c], Head(loopOut)) /\ loopOut' = Tail(loopOut)
      BY <1>22, <1>s, <2>1 DEF LoopSend
    <2>3. LoopSent(c)
      BY <1>22, <2>1, <2>2 DEF LoopSend, LoopSent, RunInv, rowVars
    <2> QED
      BY <2>1, <2>3 DEF Event
  <1>23. CASE RunSend
    <2>1. Reporting(c) /\ runOut # <<>> /\ Head(runOut) \in Frame
      BY <1>23, <1>c, HeadTail DEF RunSend, TypeOK, SessionType, clientVars
    <2>2. chain'[c] = Append(chain[c], Head(runOut)) /\ runOut' = Tail(runOut)
      BY <1>23, <1>s, <2>1 DEF RunSend
    <2>3. RunSent(c)
      BY <1>23, <2>1, <2>2 DEF RunSend, RunSent, rowVars, clientVars
    <2> QED
      BY <2>1, <2>3 DEF Event
  <1>24. CASE ConnectionLost
    BY <1>24 DEF ConnectionLost, Reporting
  <1>25. CASE SpawnFailed
    <2>1. Reporting(c)
      BY <1>25, <1>c DEF SpawnFailed, socketVars, clientVars
    <2>2. Stepping(c)
      BY <1>25 DEF SpawnFailed, Stepping, rowVars, socketVars, clientVars, TerminalStatuses
    <2> QED
      BY <2>1, <2>2 DEF Event
  <1>26. CASE Spawn
    BY <1>26, <1>b, <1>c DEF Spawn, ReportKept, rowVars, socketVars, clientVars
  <1>27. CASE Started
    <2>1. Reporting(c)
      BY <1>27, <1>c DEF Started, socketVars, clientVars
    <2>2. Stepping(c)
      BY <1>27 DEF Started, Stepping, RunInv, rowVars, socketVars, clientVars, Unended
    <2> QED
      BY <2>1, <2>2 DEF Event
  <1>28. CASE Announced
    BY <1>28, <1>b, <1>c DEF Announced, ReportKept, rowVars, socketVars, clientVars
  <1>29. CASE Finish
    <2>1. Reporting(c)
      BY <1>29, <1>c DEF Finish, socketVars, clientVars
    <2>2. Stepping(c)
      BY <1>29 DEF Finish, Stepping, rowVars, socketVars, clientVars, TerminalStatuses
    <2> QED
      BY <2>1, <2>2 DEF Event
  <1>30. ASSUME NEW d \in Conn, NetworkDrop(d) PROVE Event(c)
    <2>1. link[d] = "live" /\ link' = [link EXCEPT ![d] = "cut"]
      BY <1>30 DEF NetworkDrop
    <2>2. agentConn = d /\ UNCHANGED <<agentConn, agentPhase>>
      BY <1>30, <2>1 DEF NetworkDrop, SocketInv, OneSocket
    <2> QED
      BY <1>t, <2>1, <2>2 DEF Reporting
  <1>31. CASE AgentCrash
    BY <1>31 DEF AgentCrash
  <1>32. CASE FlushOutput
    <2>1. Reporting(c) /\ ReportKept(c) /\ UNCHANGED runPc
      BY <1>32, <1>c DEF FlushOutput, ReportKept, socketVars, clientVars, sessionVars
    <2>2. RowAside
      BY <1>32 DEF FlushOutput, RowWritten, RowAside, socketVars
    <2> QED
      BY <2>1, <2>2 DEF Event, Aside
  <1> QED
    BY <1>1, <1>2, <1>3, <1>4, <1>5, <1>6, <1>7, <1>8, <1>9, <1>10, <1>11, <1>12, <1>13,
       <1>14, <1>15, <1>16, <1>17, <1>18, <1>19, <1>20, <1>21, <1>22, <1>23, <1>24, <1>25,
       <1>26, <1>27, <1>28, <1>29, <1>30, <1>31, <1>32
    DEF Next, Server, ServerFrame, AgentLoop, AgentRun, Failure, vars, rowVars,
        socketVars, clientVars, sessionVars,
        CheckDevice, CheckOnline, DispatchJob, CancelRead, CancelSend, RevokeCancelJobs,
        ProcessExit

\* What the lemmas below know of a well-typed report.
LEMMA ReportType ==
  ASSUME TypeOK, NEW c \in Conn
  PROVE  /\ chain[c] \in Seq(Frame) /\ loopOut \in Seq(Frame) /\ runOut \in Seq(Frame)
         /\ chain[c] # <<>> => Head(chain[c]) \in Frame /\ Tail(chain[c]) \in Seq(Frame)
         /\ loopOut # <<>> => Head(loopOut) \in Frame
         /\ runOut # <<>> => Head(runOut) \in Frame
         /\ rowStatus \in JobStatuses \cup {"none"}
  <1>1. chain[c] \in Seq(Frame) /\ loopOut \in Seq(Frame) /\ runOut \in Seq(Frame)
    BY DEF TypeOK, SocketType, ClientType, SessionType
  <1> QED
    BY <1>1, HeadTail DEF TypeOK, RowType

\* A stage of the hello handler carries no status.
LEMMA HelloArg ==
  ASSUME NEW f \in Frame, f.kind \in HelloStages, NEW s \in JobStatuses
  PROVE  f.arg # s
  <1>1. f.arg \in {"listed", "unlisted"}
    BY DEF Frame, HelloStages
  <1> QED
    BY <1>1 DEF JobStatuses

\* A stage of the hello handler loses no mention of a status.
LEMMA AnsweredMentions ==
  ASSUME TypeOK, NEW c \in Conn, Answered(c), NEW s \in JobStatuses, Mentions(chain[c], s)
  PROVE  Mentions(chain'[c], s)
  <1>1. PICK p \in Seq(Frame) : chain'[c] = p \o Tail(chain[c])
    BY DEF Answered
  <1>2. /\ chain[c] \in Seq(Frame) /\ chain[c] # <<>> /\ Tail(chain[c]) \in Seq(Frame)
        /\ Head(chain[c]).arg # s
    BY ReportType, HelloArg DEF Answered
  <1> QED
    BY <1>1, <1>2, TailMentions, JoinedMentions

\* Every step keeps EndedInv.
LEMMA EndedStep ==
  ASSUME ~Lagging
  PROVE  TypeOK /\ StartInv /\ SocketInv /\ RunInv /\ EndedInv /\ [Next]_vars => EndedInv'
  <1> SUFFICES ASSUME TypeOK, StartInv, SocketInv, RunInv, EndedInv, [Next]_vars,
                      NEW c \in Conn, Reporting(c)', SessionDone'
               PROVE  \/ rowStatus' \in TerminalStatuses /\ Idle(c)'
                      \/ pending'[c].to = sStatus'
                      \/ Mentions(chain'[c], sStatus')
                      \/ Mentions(loopOut', sStatus')
                      \/ Mentions(runOut', sStatus')
    BY DEF EndedInv
  <1>t. /\ chain[c] \in Seq(Frame) /\ loopOut \in Seq(Frame) /\ runOut \in Seq(Frame)
        /\ chain[c] # <<>> => Head(chain[c]) \in Frame /\ Tail(chain[c]) \in Seq(Frame)
        /\ loopOut # <<>> => Head(loopOut) \in Frame
        /\ runOut # <<>> => Head(runOut) \in Frame
    BY ReportType
  <1>d. sStatus' \in TerminalStatuses /\ sStatus' \in JobStatuses /\ sStatus' # "none"
        /\ NoWrite.to # sStatus'
    BY DEF SessionDone, TerminalStatuses, JobStatuses, NoWrite
  <1>e. Event(c)
    BY <1>d, ReportStep
  <1>i. ASSUME Reporting(c), sStatus' = sStatus
        PROVE  \/ rowStatus \in TerminalStatuses /\ Idle(c)
               \/ pending[c].to = sStatus
               \/ Mentions(chain[c], sStatus)
               \/ Mentions(loopOut, sStatus)
               \/ Mentions(runOut, sStatus)
    BY <1>i DEF EndedInv, SessionDone
  <1>j. \A s \in JobStatuses : JobFrame(s).arg = s
    BY DEF JobFrame
  <1>1. CASE Reporting(c) /\ Aside(c)
    BY <1>1, <1>i DEF Aside, ReportKept, RowAside, Idle, ActiveStatuses, TerminalStatuses
  <1>2. CASE Reporting(c) /\ Answered(c)
    <2>1. Mentions(chain[c], sStatus) => Mentions(chain'[c], sStatus')
      BY <1>2, <1>d, AnsweredMentions DEF Answered
    <2> QED
      BY <1>2, <1>i, <2>1 DEF Answered, Idle
  <1>3. CASE Reporting(c) /\ ReadOff(c)
    <2>1. pending[c].to # sStatus
      BY <1>3, <1>d DEF ReadOff, Idle
    <2>2. Mentions(chain[c], sStatus) =>
            Head(chain[c]).arg = sStatus \/ Mentions(chain'[c], sStatus')
      BY <1>t, <1>3, TailMentions DEF ReadOff
    <2>3. sStatus' = sStatus /\ rowStatus' = rowStatus /\ loopOut' = loopOut /\ runOut' = runOut
      BY <1>3 DEF ReadOff
    <2>4. CASE rowStatus \in TerminalStatuses /\ pending'[c] = NoWrite
      BY <2>3, <2>4 DEF Idle
    <2>5. CASE rowStatus \notin TerminalStatuses /\ pending'[c].to = Head(chain[c]).arg
      BY <1>3, <1>i, <2>1, <2>2, <2>3, <2>5
    <2> QED
      BY <1>3, <2>4, <2>5 DEF ReadOff
  <1>4. CASE Reporting(c) /\ Wrote(c)
    BY <1>4, <1>i, <1>d DEF Wrote, Idle
  <1>5. CASE Reporting(c) /\ LoopSent(c)
    <2>1. Mentions(loopOut, sStatus) =>
            Head(loopOut).arg = sStatus \/ Mentions(loopOut', sStatus')
      BY <1>t, <1>5, TailMentions DEF LoopSent
    <2>2. Mentions(chain[c], sStatus) \/ Head(loopOut).arg = sStatus =>
            Mentions(chain'[c], sStatus')
      BY <1>t, <1>5, AppendMentions DEF LoopSent
    <2> QED
      BY <1>5, <1>i, <2>1, <2>2 DEF LoopSent, Idle
  <1>6. CASE Reporting(c) /\ RunSent(c)
    <2>1. Mentions(runOut, sStatus) =>
            Head(runOut).arg = sStatus \/ Mentions(runOut', sStatus')
      BY <1>t, <1>6, TailMentions DEF RunSent
    <2>2. Mentions(chain[c], sStatus) \/ Head(runOut).arg = sStatus =>
            Mentions(chain'[c], sStatus')
      BY <1>t, <1>6, AppendMentions DEF RunSent
    <2> QED
      BY <1>6, <1>i, <2>1, <2>2 DEF RunSent, Idle
  <1>k. Mentions(<<JobFrame(sStatus')>>, sStatus')
    BY <1>d, <1>j DEF Mentions
  <1>7. CASE Reporting(c) /\ Stepping(c)
    <2>1. runOut' = <<JobFrame(sStatus')>>
      BY <1>7, <1>d DEF Stepping, TerminalStatuses, Unended
    <2> QED
      BY <1>k, <2>1
  <1>8. CASE ReconcileAll
    <2>1. sStatus' = sStatus /\ loopOut' = ReconcileFrames
      BY <1>8 DEF ReconcileAll, sessionVars
    <2>2. loopOut' = <<JobFrame(sStatus')>>
      BY <1>d, <2>1 DEF ReconcileFrames, SessionDone
    <2> QED
      BY <1>k, <2>2
  <1> QED
    BY <1>e, <1>1, <1>2, <1>3, <1>4, <1>5, <1>6, <1>7, <1>8 DEF Event

\* What has begun does not go back to dispatched.
LEMMA NoWayBack ==
  ASSUME NEW from \in Begun \ TerminalStatuses, NEW to, CanTransitionJob(from, to)
  PROVE  to \in Begun
  BY DEF CanTransitionJob, NextStatuses, NextStatusesDeadEnd, Begun, TerminalStatuses

\* While the session has a status to report, Stepped lasts.
LEMMA SteppedKept ==
  ASSUME TypeOK, NEW c \in Conn, Event(c), Reporting(c), Stepped(c)
  PROVE  Stepped(c)'
  <1>t. /\ chain[c] \in Seq(Frame) /\ loopOut \in Seq(Frame) /\ runOut \in Seq(Frame)
        /\ chain[c] # <<>> => Head(chain[c]) \in Frame /\ Tail(chain[c]) \in Seq(Frame)
        /\ loopOut # <<>> => Head(loopOut) \in Frame
        /\ runOut # <<>> => Head(runOut) \in Frame
    BY ReportType
  <1>n. NoWrite.to \notin Begun
    BY DEF NoWrite, Begun, TerminalStatuses
  <1>r. "running" \in JobStatuses /\ "running" \in Begun
    BY DEF JobStatuses, Begun
  <1>1. CASE Aside(c)
    BY <1>1 DEF Aside, ReportKept, RowAside, Stepped, Idle, Begun
  <1>2. CASE Answered(c)
    <2>1. Mentions(chain[c], "running") => Mentions(chain'[c], "running")
      BY <1>2, <1>r, AnsweredMentions
    <2> QED
      BY <1>2, <2>1 DEF Answered, Stepped, Idle
  <1>3. CASE ReadOff(c)
    <2>1. Mentions(chain[c], "running") =>
            Head(chain[c]).arg = "running" \/ Mentions(chain'[c], "running")
      BY <1>t, <1>3, TailMentions DEF ReadOff
    <2>2. CASE rowStatus \in TerminalStatuses /\ pending'[c] = NoWrite
      BY <1>3, <2>2 DEF ReadOff, Stepped, Idle, Begun
    <2>3. CASE /\ rowStatus \in JobStatuses \ TerminalStatuses
               /\ CanTransitionJob(rowStatus, Head(chain[c]).arg)
               /\ pending'[c].to = Head(chain[c]).arg
      <3>1. pending[c].to \notin Begun
        BY <1>3, <1>n DEF ReadOff, Idle
      <3>2. CASE rowStatus \in Begun
        BY <2>3, <3>2, NoWayBack DEF Stepped
      <3>3. CASE Mentions(chain[c], "running")
        BY <1>r, <2>1, <2>3, <3>3 DEF Stepped
      <3> QED
        BY <3>1, <3>2, <3>3 DEF Stepped
    <2> QED
      BY <1>3, <2>2, <2>3 DEF ReadOff
  <1>4. CASE Wrote(c)
    BY <1>4 DEF Wrote, Stepped, Idle
  <1>5. CASE LoopSent(c)
    <2>1. Mentions(chain[c], "running") => Mentions(chain'[c], "running")
      BY <1>t, <1>5, AppendMentions DEF LoopSent
    <2> QED
      BY <1>5, <2>1 DEF LoopSent, Stepped, Idle
  <1>6. CASE RunSent(c)
    <2>1. Mentions(chain[c], "running") => Mentions(chain'[c], "running")
      BY <1>t, <1>6, AppendMentions DEF RunSent
    <2> QED
      BY <1>6, <2>1 DEF RunSent, Stepped, Idle
  <1>7. CASE Stepping(c)
    BY <1>7 DEF Stepping, Stepped, Idle
  <1>8. CASE ReconcileAll
    BY <1>8 DEF ReconcileAll, rowVars, socketVars, Stepped, Idle
  <1> QED
    BY <1>1, <1>2, <1>3, <1>4, <1>5, <1>6, <1>7, <1>8 DEF Event

\* The heads and tails of the queues the agent sends from.
LEMMA OneTwo ==
  \A a, b : /\ <<a>> # <<>> /\ Head(<<a>>) = a /\ Tail(<<a>>) = <<>>
            /\ <<b, a>> # <<>> /\ Head(<<b, a>>) = b /\ Tail(<<b, a>>) = <<a>>
            /\ <<a>>[1] = a /\ Len(<<a>>) = 1
  OBVIOUS

\* Every step keeps LoopInv.
LEMMA LoopStep ==
  ASSUME ~Lagging
  PROVE  TypeOK /\ StartInv /\ SocketInv /\ RunInv /\ LoopInv /\ [Next]_vars => LoopInv'
  <1> DEFINE Sending(s, q, pc, stepped) ==
               \/ q = <<JobFrame("running"), JobFrame(s)>>
               \/ q = <<JobFrame(s)>> /\ (s = "dispatched" /\ pc # "accept" => stepped)
  <1> SUFFICES ASSUME TypeOK, StartInv, SocketInv, RunInv, LoopInv, [Next]_vars,
                      NEW c \in Conn, Reporting(c)', sStatus' \in Unended, loopOut' # <<>>
               PROVE  \E s \in {sStatus', "dispatched"} : Sending(s, loopOut', runPc', Stepped(c)')
    BY DEF LoopInv
  <1>e. Event(c)
    BY ReportStep DEF Unended
  <1>i. ASSUME Reporting(c), sStatus \in Unended, loopOut # <<>>
        PROVE  \E s \in {sStatus, "dispatched"} : Sending(s, loopOut, runPc, Stepped(c))
    BY <1>i DEF LoopInv
  <1>k. Reporting(c) /\ Stepped(c) => Stepped(c)'
    BY <1>e, SteppedKept
  <1>1. CASE /\ Reporting(c) /\ UNCHANGED <<sStatus, loopOut>>
             /\ runPc' = "accept" <=> runPc = "accept"
    <2>1. PICK s \in {sStatus, "dispatched"} : Sending(s, loopOut, runPc, Stepped(c))
      BY <1>1, <1>i
    <2>2. Sending(s, loopOut', runPc', Stepped(c)')
      BY <1>1, <1>k, <2>1
    <2> QED
      BY <1>1, <2>1, <2>2
  <1>2. CASE Reporting(c) /\ LoopSent(c)
    <2>1. PICK s \in {sStatus, "dispatched"} : Sending(s, loopOut, runPc, Stepped(c))
      BY <1>2, <1>i DEF LoopSent
    <2>2. loopOut = <<JobFrame("running"), JobFrame(s)>>
      BY <1>2, <2>1, OneTwo DEF LoopSent
    <2>3. loopOut' = <<JobFrame(s)>> /\ Head(loopOut) = JobFrame("running")
      BY <1>2, <2>2, OneTwo DEF LoopSent
    <2>4. Mentions(chain'[c], "running")
      <3>1. chain'[c] = Append(chain[c], JobFrame("running"))
        BY <1>2, <2>3 DEF LoopSent
      <3>2. JobFrame("running") \in Frame /\ JobFrame("running").arg = "running"
        BY JobFrameType DEF JobFrame, JobStatuses
      <3> QED
        BY <3>1, <3>2, ReportType, AppendMentions
    <2>5. Stepped(c)'
      BY <2>4 DEF Stepped
    <2> QED
      BY <1>2, <2>3, <2>5 DEF LoopSent
  <1>3. CASE Reporting(c) /\ Stepping(c)
    <2>1. CASE sStatus' = "dispatched" /\ runPc' = "accept" /\ loopOut' = <<JobFrame("dispatched")>>
      BY <2>1
    <2>2. CASE sStatus = "dispatched" /\ runPc = "register" /\ UNCHANGED loopOut
      <3>1. Sending("dispatched", loopOut, runPc, Stepped(c))
        BY <1>3, <1>i, <2>2 DEF Unended
      <3>2. Sending("dispatched", loopOut', runPc', Stepped(c)')
        BY <1>3, <1>k, <2>2, <3>1
      <3> QED
        BY <3>2
    <2> QED
      BY <1>3, <2>1, <2>2 DEF Stepping, Unended, TerminalStatuses
  <1>4. CASE ReconcileAll
    <2>1. sStatus' = sStatus /\ loopOut' = ReconcileFrames
      BY <1>4 DEF ReconcileAll, sessionVars
    <2>2. loopOut' = <<JobFrame("running"), JobFrame(sStatus')>>
      BY <2>1 DEF ReconcileFrames, SessionDone, Unended, TerminalStatuses
    <2> QED
      BY <2>2
  <1> QED
    BY <1>e, <1>1, <1>2, <1>3, <1>4
    DEF Event, Aside, ReportKept, Answered, ReadOff, Wrote, RunSent

\* The last frame of a chain that grows.
LEMMA LastAppended ==
  ASSUME NEW q \in Seq(Frame), NEW f \in Frame
  PROVE  Append(q, f) # <<>> /\ Append(q, f)[Len(Append(q, f))] = f
  OBVIOUS

\* Every step keeps ChainInv.
LEMMA ChainStep ==
  ASSUME ~Lagging
  PROVE  TypeOK /\ StartInv /\ SocketInv /\ RunInv /\ LoopInv /\ ChainInv /\ [Next]_vars
           => ChainInv'
  <1> SUFFICES ASSUME TypeOK, StartInv, SocketInv, RunInv, LoopInv, ChainInv, [Next]_vars,
                      NEW c \in Conn, Reporting(c)', ~revoked', sStatus' \in Unended,
                      loopOut' = <<>>, runOut' = <<>>
               PROVE  LastSettles(c)'
    BY DEF ChainInv, LastSettles
  <1>t. /\ chain[c] \in Seq(Frame) /\ loopOut \in Seq(Frame) /\ runOut \in Seq(Frame)
        /\ chain[c] # <<>> => Head(chain[c]) \in Frame /\ Tail(chain[c]) \in Seq(Frame)
        /\ loopOut # <<>> => Head(loopOut) \in Frame
        /\ runOut # <<>> => Head(runOut) \in Frame
        /\ rowStatus \in JobStatuses \cup {"none"}
    BY ReportType
  <1>e. Event(c)
    BY ReportStep DEF Unended
  <1>i. ASSUME Reporting(c), ~revoked, sStatus' = sStatus, loopOut = <<>>, runOut = <<>>
        PROVE  LastSettles(c)
    BY <1>i DEF ChainInv, LastSettles
  <1>k. Reporting(c) /\ Stepped(c) => Stepped(c)'
    BY <1>e, SteppedKept
  <1>n. NoWrite.to # sStatus' /\ NoWrite.to \notin Begun
    BY DEF NoWrite, Unended, Begun, TerminalStatuses
  <1>j. \A s \in JobStatuses : JobFrame(s).arg = s /\ JobFrame(s).kind = "job"
    BY DEF JobFrame
  <1>s. sStatus' \in JobStatuses /\ "dispatched" \in JobStatuses
    BY DEF Unended, JobStatuses
  <1>1. CASE Reporting(c) /\ Aside(c)
    <2>1. LastSettles(c) /\ sStatus' = sStatus /\ chain'[c] = chain[c] /\ pending'[c] = pending[c]
      BY <1>1, <1>i DEF Aside, ReportKept, RowAside
    <2>2. Settled(c) => Settled(c)'
      <3> SUFFICES ASSUME Settled(c) PROVE Settled(c)'
        OBVIOUS
      <3>1. CASE rowStatus \in TerminalStatuses
        BY <1>1, <2>1, <3>1
        DEF Settled, Aside, RowAside, Idle, ActiveStatuses, TerminalStatuses
      <3>2. CASE rowStatus = sStatus /\ \A d \in Conn : closer[d] => written[d]
        BY <1>1, <2>1, <3>2 DEF Settled, Aside, RowAside, Idle
      <3> QED
        BY <3>1, <3>2 DEF Settled
    <2> QED
      BY <1>1, <1>k, <2>1, <2>2 DEF LastSettles
  <1>2. CASE Reporting(c) /\ Answered(c)
    <2>1. LastSettles(c) /\ sStatus' = sStatus /\ chain[c] # <<>>
      BY <1>2, <1>i DEF Answered
    <2>2. Head(chain[c]) # JobFrame(sStatus) /\ Head(chain[c]) # JobFrame("dispatched")
      BY <1>2, <1>j, <1>s, <2>1 DEF Answered, HelloStages
    <2>3. Tail(chain[c]) # <<>>
      BY <1>t, <2>1, <2>2, LastTail DEF LastSettles
    <2>4. PICK p \in Seq(Frame) : chain'[c] = p \o Tail(chain[c])
      BY <1>2 DEF Answered
    <2>5. chain'[c] # <<>> /\ chain'[c][Len(chain'[c])] = chain[c][Len(chain[c])]
      <3>1. Tail(chain[c])[Len(Tail(chain[c]))] = chain[c][Len(chain[c])]
        BY <1>t, <2>1, <2>3, LastTail
      <3>2. /\ p \o Tail(chain[c]) # <<>>
            /\ (p \o Tail(chain[c]))[Len(p \o Tail(chain[c]))]
                 = Tail(chain[c])[Len(Tail(chain[c]))]
        BY <1>t, <2>1, <2>3, LastJoined
      <3> QED
        BY <2>4, <3>1, <3>2
    <2> QED
      BY <1>2, <1>k, <2>1, <2>5 DEF LastSettles
  <1>3. CASE Reporting(c) /\ ReadOff(c)
    <2>1. /\ LastSettles(c) /\ sStatus' = sStatus /\ chain[c] # <<>> /\ chain'[c] = Tail(chain[c])
          /\ UNCHANGED <<rowStatus, written, closer>> /\ Idle(c)
      BY <1>3, <1>i DEF ReadOff
    <2>2. CASE chain'[c] # <<>>
      BY <1>3, <1>t, <1>k, <2>1, <2>2, LastTail DEF LastSettles
    <2>3. CASE chain'[c] = <<>>
      <3>1. \/ Head(chain[c]) = JobFrame(sStatus)
            \/ Head(chain[c]) = JobFrame("dispatched") /\ Stepped(c)
        BY <1>t, <2>1, <2>3, LastTail DEF LastSettles
      <3>2. CASE rowStatus \in TerminalStatuses /\ pending'[c] = NoWrite
        BY <2>1, <2>3, <3>2 DEF LastSettles, Settled, Idle
      <3>3. CASE /\ rowStatus \in JobStatuses \ TerminalStatuses
                 /\ CanTransitionJob(rowStatus, Head(chain[c]).arg)
                 /\ pending'[c].to = Head(chain[c]).arg
        <4>1. CASE Head(chain[c]) = JobFrame(sStatus)
          BY <1>j, <1>s, <2>1, <2>3, <3>3, <4>1 DEF LastSettles
        <4>2. CASE Head(chain[c]) = JobFrame("dispatched") /\ Stepped(c)
          <5>1. ~Mentions(chain[c], "running")
            <6> SUFFICES ASSUME Mentions(chain[c], "running") PROVE FALSE
              OBVIOUS
            <6>1. Head(chain[c]).arg # "running"
              BY <4>2 DEF JobFrame
            <6>2. Mentions(Tail(chain[c]), "running")
              BY <1>t, <2>1, <6>1, TailMentions
            <6> QED
              BY <2>1, <2>3, <6>2, MentionsNone
          <5>2. rowStatus \in Begun
            BY <1>n, <2>1, <4>2, <5>1 DEF Stepped, Idle
          <5>3. "dispatched" \in Begun
            BY <1>j, <1>s, <3>3, <4>2, <5>2, NoWayBack
          <5> QED
            BY <5>3 DEF Begun, TerminalStatuses
        <4> QED
          BY <3>1, <4>1, <4>2
      <3> QED
        BY <1>3, <3>2, <3>3 DEF ReadOff
    <2> QED
      BY <2>2, <2>3
  <1>4. CASE Reporting(c) /\ Wrote(c)
    <2>1. LastSettles(c) /\ sStatus' = sStatus /\ chain'[c] = chain[c] /\ ~Idle(c)
      BY <1>4, <1>i DEF Wrote, Idle
    <2>2. CASE chain[c] = <<>>
      BY <1>4, <2>1, <2>2 DEF LastSettles, Settled, Wrote, Idle
    <2>3. CASE chain[c] # <<>>
      BY <1>4, <1>k, <2>1, <2>3 DEF LastSettles
    <2> QED
      BY <2>2, <2>3
  <1>5. CASE Reporting(c) /\ LoopSent(c)
    <2>1. /\ sStatus' = sStatus /\ loopOut # <<>> /\ loopOut' = Tail(loopOut)
          /\ chain'[c] = Append(chain[c], Head(loopOut)) /\ Head(loopOut) \in Frame
          /\ runPc = "accept" => sStatus = "dispatched"
      BY <1>5, <1>t DEF LoopSent
    <2>2. PICK s \in {sStatus, "dispatched"} :
             \/ loopOut = <<JobFrame("running"), JobFrame(s)>>
             \/ /\ loopOut = <<JobFrame(s)>>
                /\ s = "dispatched" /\ runPc # "accept" => Stepped(c)
      BY <1>5, <2>1 DEF LoopInv
    <2>3. loopOut = <<JobFrame(s)>> /\ (s = "dispatched" /\ runPc # "accept" => Stepped(c))
      BY <2>1, <2>2, OneTwo
    <2>4. Head(loopOut) = JobFrame(s)
      BY <2>3, OneTwo
    <2>5. chain'[c] # <<>> /\ chain'[c][Len(chain'[c])] = JobFrame(s)
      <3>1. /\ Append(chain[c], Head(loopOut)) # <<>>
            /\ Append(chain[c], Head(loopOut))[Len(Append(chain[c], Head(loopOut)))] = Head(loopOut)
        BY <1>t, <2>1, LastAppended
      <3> QED
        BY <2>1, <2>4, <3>1
    <2> QED
      BY <1>5, <1>k, <2>1, <2>2, <2>3, <2>5 DEF LastSettles
  <1>6. CASE Reporting(c) /\ RunSent(c)
    <2>1. /\ sStatus' = sStatus /\ runOut # <<>> /\ Tail(runOut) = <<>>
          /\ chain'[c] = Append(chain[c], Head(runOut)) /\ Head(runOut) \in Frame
      BY <1>6, <1>t DEF RunSent
    <2>2. runOut \in {<<JobFrame(sStatus)>>, <<JobFrame("running"), JobFrame(sStatus)>>}
      BY <2>1 DEF RunInv
    <2>3. Head(runOut) = JobFrame(sStatus)
      <3>1. runOut # <<JobFrame("running"), JobFrame(sStatus)>>
        BY <2>1, OneTwo
      <3> QED
        BY <2>2, <3>1, OneTwo
    <2>4. chain'[c] # <<>> /\ chain'[c][Len(chain'[c])] = JobFrame(sStatus)
      <3>1. /\ Append(chain[c], Head(runOut)) # <<>>
            /\ Append(chain[c], Head(runOut))[Len(Append(chain[c], Head(runOut)))] = Head(runOut)
        BY <1>t, <2>1, LastAppended
      <3> QED
        BY <2>1, <2>3, <3>1
    <2> QED
      BY <2>1, <2>4 DEF LastSettles
  <1>7. CASE Reporting(c) /\ Stepping(c)
    BY <1>7, OneTwo DEF Stepping
  <1>8. CASE ReconcileAll
    <2>1. sStatus' = sStatus /\ loopOut' = ReconcileFrames
      BY <1>8 DEF ReconcileAll, sessionVars
    <2>2. loopOut' = <<JobFrame("running"), JobFrame(sStatus')>>
      BY <2>1 DEF ReconcileFrames, SessionDone, Unended, TerminalStatuses
    <2> QED
      BY <2>2, OneTwo
  <1> QED
    BY <1>e, <1>1, <1>2, <1>3, <1>4, <1>5, <1>6, <1>7, <1>8 DEF Event

\* QuiescentAgreement is not inductive: what makes the row agree is under way
\* before it is there.
AgreeInv ==
  RunInv /\ RevokedInv /\ EndedInv /\ LoopInv /\ ChainInv

\* With the agent there and nothing under way, the row and the session agree.
LEMMA Agreement ==
  ASSUME TypeOK, SocketInv, AgreeInv, RevokedNeverServed, HonestOutcome
  PROVE  QuiescentAgreement
  <1> SUFFICES ASSUME ServerIdle, AgentIdle, sStatus # "none"
               PROVE  rowStatus \in {sStatus, "cancelled"}
    BY DEF QuiescentAgreement
  <1> DEFINE c == agentConn
  <1> USE LifecycleAssumption
  <1>1. c \in Conn /\ Reporting(c) /\ attached = c /\ loopOut = <<>> /\ runOut = <<>>
    BY DEF AgentIdle, Reporting, TypeOK, ClientType
  <1>2. chain[c] = <<>> /\ Idle(c) /\ pending[c].to = "none"
    BY <1>1 DEF ServerIdle, Drained, Idle, NoWrite
  <1>3. ~revoked
    <2> SUFFICES ASSUME revoked PROVE FALSE
      OBVIOUS
    <2>1. revokePc = "done"
      BY DEF AgreeInv, RevokedInv, ServerIdle
    <2>2. IsOpen(c)
      BY <1>1 DEF IsOpen, Reporting
    <2>3. HeadIs(c, "update")
      BY <1>1, <2>1, <2>2 DEF RevokedNeverServed
    <2> QED
      BY <1>2, <2>3 DEF HeadIs
  <1>4. rowStatus \in TerminalStatuses => rowStatus \in {sStatus, "cancelled"}
    BY DEF HonestOutcome, TerminalStatuses
  <1>5. CASE sStatus \in TerminalStatuses
    <2>1. rowStatus \in TerminalStatuses
      BY <1>1, <1>2, <1>5, MentionsNone DEF AgreeInv, EndedInv, SessionDone
    <2> QED
      BY <1>4, <2>1
  <1>6. CASE sStatus \in Unended
    <2>1. pending[c].to = sStatus \/ Settled(c)
      BY <1>1, <1>2, <1>3, <1>6 DEF AgreeInv, ChainInv, LastSettles
    <2>2. Settled(c)
      BY <1>2, <2>1
    <2> QED
      BY <1>4, <2>2 DEF Settled
  <1> QED
    BY <1>5, <1>6 DEF AgreeInv, RunInv

\* The initial state has nothing to report.
LEMMA AgreeInit == Init => AgreeInv
  BY DEF Init, AgreeInv, RunInv, RevokedInv, EndedInv, LoopInv, ChainInv, Reporting, Unended

\* Once the agent is connected and everything sent has been handled, the row
\* holds the session's status, or the user cancelled the job while it was
\* queued: whatever was lost before, for any number of connections,
\* cancellations, failures, restarts and revocations, where the server does
\* not lag.
THEOREM AgreementCorrect ==
  ASSUME ~Lagging
  PROVE  Spec => []QuiescentAgreement
  <1>1. Init => StartInv
    BY DEF Init, StartInv, StartAt
  <1>2. TypeOK /\ StartInv /\ [Next]_vars => StartInv'
    BY StartStep
  <1>3. TypeOK /\ StartInv /\ SocketInv /\ AgreeInv /\ [Next]_vars => AgreeInv'
    BY RunStep, RevokedStep, EndedStep, LoopStep, ChainStep DEF AgreeInv
  <1>4. TypeOK /\ SocketInv /\ AgreeInv /\ RevokedNeverServed /\ HonestOutcome
           => QuiescentAgreement
    BY Agreement
  <1>5. Spec => []SocketInv
    BY SocketCorrect
  <1> QED
    BY <1>1, <1>2, <1>3, <1>4, <1>5, AgreeInit, TypeCorrect, RevokeCorrect, OutcomeCorrect,
       PTL DEF Spec

-----------------------------------------------------------------------------
(* An outcome stands                                                       *)

\* Until job.start is dispatched nobody speaks of the job: a hello does not
\* list it, and no frame or write is about it.
SilentInv ==
  createPc # "done" =>
    /\ rowStatus \notin Outcomes
    /\ loopOut = <<>>
    /\ \A c \in Conn : Idle(c)
    /\ \A c \in Conn : \A i \in 1..Len(chain[c]) :
         chain[c][i].kind \in HelloStages /\ chain[c][i].arg = "unlisted"

\* OutcomeStands is not inductive: no handler owes a write to a row that holds
\* an outcome.
StandInv == rowStatus \in Outcomes => \A c \in Conn : Idle(c)

\* Frames of a hello that does not list the job.
Unlisted(q) == \A i \in 1..Len(q) : q[i].kind \in HelloStages /\ q[i].arg = "unlisted"

\* So are its head and its rest.
LEMMA UnlistedTail ==
  ASSUME NEW q \in Seq(Frame), q # <<>>, Unlisted(q)
  PROVE  /\ Head(q).kind \in HelloStages /\ Head(q).arg = "unlisted"
         /\ Unlisted(Tail(q))
  <1>1. Len(q) \in Nat \ {0} /\ Len(Tail(q)) = Len(q) - 1
    BY EmptySeq
  <1>2. \A i \in 1..Len(Tail(q)) : i + 1 \in 1..Len(q) /\ Tail(q)[i] = q[i + 1]
    BY <1>1
  <1>3. 1 \in 1..Len(q) /\ Head(q) = q[1]
    BY <1>1
  <1> QED
    BY <1>2, <1>3 DEF Unlisted

\* The hello handler goes on with such a frame.
LEMMA UnlistedNext ==
  ASSUME NEW q \in Seq(Frame), q # <<>>, Unlisted(q), NEW stage \in HelloStages
  PROVE  Unlisted(<<[kind |-> stage, arg |-> Head(q).arg]>> \o Tail(q))
  <1> DEFINE f == [kind |-> stage, arg |-> Head(q).arg]
             r == <<f>> \o Tail(q)
  <1>1. Unlisted(Tail(q)) /\ f.kind \in HelloStages /\ f.arg = "unlisted"
    BY UnlistedTail
  <1>2. Head(q) \in Frame /\ Head(q).kind \in HelloStages /\ Tail(q) \in Seq(Frame)
    BY UnlistedTail, HeadTail
  <1>3. f \in Frame
    BY <1>2, HelloFrameType
  <1>4. Len(r) = Len(Tail(q)) + 1 /\ Len(Tail(q)) \in Nat
    BY <1>2, <1>3
  <1>5. ASSUME NEW i \in 1..Len(r) PROVE r[i].kind \in HelloStages /\ r[i].arg = "unlisted"
    <2>1. CASE i = 1
      <3>1. r[i] = f
        BY <1>2, <1>3, <2>1
      <3> QED
        BY <1>1, <3>1
    <2>2. CASE i # 1
      <3>1. i - 1 \in 1..Len(Tail(q)) /\ r[i] = Tail(q)[i - 1]
        BY <1>2, <1>3, <1>4, <2>2
      <3> QED
        BY <1>1, <3>1 DEF Unlisted
    <2> QED
      BY <2>1, <2>2
  <1> QED
    BY <1>5 DEF Unlisted

\* Every step keeps SilentInv.
LEMMA SilentStep ==
  TypeOK /\ StartInv /\ RunInv /\ SilentInv /\ [Next]_vars => SilentInv'
  <1> SUFFICES ASSUME TypeOK, StartInv, RunInv, SilentInv, [Next]_vars, createPc' # "done"
               PROVE  /\ rowStatus' \notin Outcomes
                      /\ loopOut' = <<>>
                      /\ \A c \in Conn : Idle(c)'
                      /\ \A c \in Conn : Unlisted(chain'[c])
    BY DEF SilentInv, Unlisted
  <1> USE LifecycleAssumption
  <1>t. /\ chain \in [Conn -> Seq(Frame)] /\ \A d \in Conn : chain[d] \in Seq(Frame)
    BY DEF TypeOK, SocketType
  <1>c. createPc # "done"
    BY DEF Next, Server, ServerFrame, AgentLoop, AgentRun, Failure, vars, httpVars,
        CheckDevice, CheckOnline, CreateJob, DispatchJob, DispatchFailed,
        CancelRead, CancelWrite, CancelSend, CancelDetail, RevokeCancelJobs, RevokeCommit,
        RevokeCloseDevice, HelloAttach, HelloUpdate, HelloWelcome,
        HelloReconcile, TransitionRead, TransitionWrite, FlushOutput,
        SocketClosed, DisconnectJobs, Dial, Welcomed, ReconcileAll, ProtocolError,
        StartJob, CancelJob, LoopSend, RunSend, ConnectionLost, SpawnFailed, Spawn,
        Started, Announced, ProcessExit, Finish, NetworkDrop, AgentCrash
  <1>i. /\ rowStatus \notin Outcomes /\ loopOut = <<>> /\ runOut = <<>> /\ sStatus = "none"
        /\ \A c \in Conn : Idle(c) /\ Unlisted(chain[c])
        /\ \A c \in Conn : \A i \in Nat : ~StartAt(c, i)
    BY <1>c DEF SilentInv, StartInv, RunInv, Unlisted
  <1>1. CASE UNCHANGED <<rowStatus, loopOut, pending, chain>>
    BY <1>1, <1>i DEF Idle
  <1>2. CASE CreateJob
    BY <1>2, <1>i DEF CreateJob, RowWritten, Outcomes, Idle, socketVars, clientVars
  <1>3. CASE DispatchFailed
    BY <1>3 DEF DispatchFailed
  <1>4. ASSUME NEW r \in Request, CancelWrite(r)
        PROVE  rowStatus' \notin Outcomes /\ UNCHANGED <<loopOut, pending, chain>>
    BY <1>4 DEF CancelWrite, RowWritten, Outcomes, socketVars, clientVars
  <1>5. CASE RevokeCommit
    BY <1>5, <1>i DEF RevokeCommit, RowWritten, Outcomes, Idle, socketVars, clientVars
  <1>h. ASSUME NEW c \in Conn, chain[c] # <<>>, UNCHANGED <<rowStatus, loopOut, pending>>,
               \/ \E stage \in HelloStages : HelloNext(c, stage)
               \/ chain' = [chain EXCEPT ![c] = Tail(@)]
               \/ \E n \in 0..Len(chain[c]) : chain' = [chain EXCEPT ![c] = SubSeq(@, 1, n)]
        PROVE  /\ rowStatus' \notin Outcomes /\ loopOut' = <<>>
               /\ \A d \in Conn : Idle(d)' /\ Unlisted(chain'[d])
    <2>1. Unlisted(chain'[c])
      <3>1. ASSUME NEW stage \in HelloStages, HelloNext(c, stage) PROVE Unlisted(chain'[c])
        <4>1. chain'[c] = <<[kind |-> stage, arg |-> Head(chain[c]).arg]>> \o Tail(chain[c])
          BY <1>t, <3>1 DEF HelloNext
        <4> QED
          BY <1>t, <1>i, <1>h, <4>1, UnlistedNext
      <3>2. CASE chain' = [chain EXCEPT ![c] = Tail(@)]
        BY <1>t, <1>i, <1>h, <3>2, UnlistedTail
      <3>3. ASSUME NEW n \in 0..Len(chain[c]), chain' = [chain EXCEPT ![c] = SubSeq(@, 1, n)]
            PROVE  Unlisted(chain'[c])
        <4>1. chain'[c] = SubSeq(chain[c], 1, n)
          BY <1>t, <3>3
        <4>2. \A i \in 1..Len(chain'[c]) : i \in 1..Len(chain[c]) /\ chain'[c][i] = chain[c][i]
          BY <1>t, <4>1
        <4> QED
          BY <1>i, <4>2 DEF Unlisted
      <3> QED
        BY <1>h, <3>1, <3>2, <3>3
    <2>2. \A d \in Conn \ {c} : chain'[d] = chain[d]
      BY <1>t, <1>h DEF HelloNext
    <2> QED
      BY <1>h, <1>i, <2>1, <2>2 DEF Idle
  <1>6. ASSUME NEW c \in Conn, HelloAttach(c) \/ HelloUpdate(c) \/ HelloWelcome(c)
        PROVE  /\ rowStatus' \notin Outcomes /\ loopOut' = <<>>
               /\ \A d \in Conn : Idle(d)' /\ Unlisted(chain'[d])
    <2>1. chain[c] # <<>> /\ UNCHANGED <<rowStatus, loopOut, pending>>
      BY <1>6 DEF HelloAttach, HelloUpdate, HelloWelcome, HeadIs, rowVars, clientVars
    <2>2. \/ \E stage \in HelloStages : HelloNext(c, stage)
          \/ chain' = [chain EXCEPT ![c] = Tail(@)]
      BY <1>6 DEF HelloAttach, HelloUpdate, HelloWelcome, HelloThrows, HelloStages
    <2> QED
      BY <1>h, <2>1, <2>2
  <1>7. ASSUME NEW c \in Conn, HelloReconcile(c)
        PROVE  /\ rowStatus' \notin Outcomes /\ loopOut' = <<>>
               /\ \A d \in Conn : Idle(d)' /\ Unlisted(chain'[d])
    <2>1. chain[c] # <<>> /\ UNCHANGED <<rowStatus, loopOut, pending>>
      BY <1>7 DEF HelloReconcile, HeadIs, rowVars, clientVars
    <2>2. Head(chain[c]).arg = "unlisted"
      BY <1>t, <1>i, <2>1, UnlistedTail
    <2>3. chain' = [chain EXCEPT ![c] = Tail(@)]
      BY <1>7, <2>2 DEF HelloReconcile
    <2> QED
      BY <1>h, <2>1, <2>3
  <1>8. ASSUME NEW c \in Conn, TransitionRead(c) PROVE FALSE
    <2>1. chain[c] # <<>> /\ Head(chain[c]).kind \notin HelloStages
      BY <1>8 DEF TransitionRead, HeadIs, HelloStages
    <2> QED
      BY <1>t, <1>i, <2>1, UnlistedTail
  <1>9. ASSUME NEW c \in Conn, TransitionWrite(c) PROVE FALSE
    BY <1>9, <1>i DEF TransitionWrite, Idle
  <1>10. ASSUME NEW c \in Conn, DisconnectJobs(c)
         PROVE  rowStatus' \notin Outcomes /\ UNCHANGED <<loopOut, pending, chain>>
    BY <1>10, <1>i DEF DisconnectJobs, RowWritten, Outcomes, clientVars
  <1>11. ASSUME NEW c \in Conn, Dial(c)
         PROVE  /\ rowStatus' \notin Outcomes /\ loopOut' = <<>>
                /\ \A d \in Conn : Idle(d)' /\ Unlisted(chain'[d])
    <2>1. /\ chain' = [chain EXCEPT ![c] = <<[kind |-> "hello", arg |-> "unlisted"]>>]
          /\ UNCHANGED <<rowStatus, loopOut, pending>>
      BY <1>11, <1>i DEF Dial, rowVars
    <2>2. Unlisted(<<[kind |-> "hello", arg |-> "unlisted"]>>)
      BY DEF Unlisted, HelloStages
    <2> QED
      BY <1>t, <1>i, <2>1, <2>2 DEF Idle
  <1>12. CASE ReconcileAll
    BY <1>12, <1>i DEF ReconcileAll, ReconcileFrames, SessionDone, TerminalStatuses, Idle,
                       rowVars, socketVars
  <1>13. ASSUME NEW c \in Conn, StartJob(c) PROVE FALSE
    <2>1. StartAt(c, 1)
      BY <1>13, EmptySeq DEF StartJob, NextOrder, StartAt, TypeOK, ClientType
    <2> QED
      BY <1>i, <2>1
  <1>14. CASE LoopSend
    BY <1>14, <1>i DEF LoopSend
  <1>15. CASE RunSend
    BY <1>15, <1>i DEF RunSend
  <1>16. ASSUME NEW c \in Conn, NetworkDrop(c)
         PROVE  /\ rowStatus' \notin Outcomes /\ loopOut' = <<>>
                /\ \A d \in Conn : Idle(d)' /\ Unlisted(chain'[d])
    <2>1. PICK n \in 0..Len(chain[c]) : chain' = [chain EXCEPT ![c] = SubSeq(@, 1, n)]
      BY <1>16 DEF NetworkDrop
    <2>2. UNCHANGED <<rowStatus, loopOut, pending>>
      BY <1>16 DEF NetworkDrop, rowVars
    <2>3. CASE chain[c] = <<>>
      <3>1. chain' = chain
        BY <1>t, <2>1, <2>3
      <3> QED
        BY <1>i, <2>2, <3>1 DEF Idle
    <2> QED
      BY <1>h, <2>1, <2>2, <2>3
  <1>17. CASE AgentCrash
    BY <1>17, <1>i DEF AgentCrash, Idle, rowVars
  <1> QED
    BY <1>1, <1>2, <1>3, <1>4, <1>5, <1>6, <1>7, <1>8, <1>9, <1>10, <1>11, <1>12, <1>13,
       <1>14, <1>15, <1>16, <1>17, <1>i
    DEF Next, Server, ServerFrame, AgentLoop, AgentRun, Failure, vars, rowVars,
        socketVars, clientVars, Idle,
        CheckDevice, CheckOnline, DispatchJob, CancelRead, CancelSend, CancelDetail,
        RowWritten, RevokeCancelJobs,
        RevokeCloseDevice, FlushOutput, SocketClosed, Welcomed, ProtocolError, CancelJob,
        ConnectionLost, SpawnFailed, Spawn, Started, Announced, ProcessExit, Finish

\* Every step keeps StandInv, and an outcome in the row unless it is cancelled.
LEMMA StandStep ==
  TypeOK /\ SocketInv /\ SilentInv /\ StandInv /\ [Next]_vars =>
    /\ StandInv'
    /\ rowStatus \in Outcomes => rowStatus' \in {rowStatus, "cancelled"}
  <1> DEFINE Goal == /\ rowStatus' \in Outcomes => \A c \in Conn : Idle(c)'
                     /\ rowStatus \in Outcomes => rowStatus' \in {rowStatus, "cancelled"}
  <1> SUFFICES ASSUME TypeOK, SocketInv, SilentInv, StandInv, [Next]_vars PROVE Goal
    BY DEF StandInv
  <1>t. pending \in [Conn -> Pending]
    BY DEF TypeOK, SocketType
  <1>i. rowStatus \in Outcomes => \A c \in Conn : Idle(c)
    BY DEF StandInv
  <1>1. CASE UNCHANGED <<rowStatus, pending>>
    BY <1>1, <1>i DEF Idle
  <1>2. CASE CreateJob
    BY <1>2 DEF CreateJob, RowWritten, SilentInv, Outcomes
  <1>3. CASE DispatchFailed
    BY <1>3 DEF DispatchFailed, SilentInv, Outcomes, Idle, socketVars
  <1>4. ASSUME NEW r \in Request, CancelWrite(r) PROVE Goal
    BY <1>4 DEF CancelWrite, RowWritten, Outcomes
  <1>5. CASE RevokeCommit
    BY <1>5, <1>i DEF RevokeCommit, RowWritten, Outcomes, ActiveStatuses, Idle, socketVars
  <1>6. ASSUME NEW c \in Conn, TransitionRead(c) PROVE Goal
    BY <1>6, <1>i DEF TransitionRead, Outcomes, TerminalStatuses, Idle, rowVars
  <1>7. ASSUME NEW c \in Conn, TransitionWrite(c) PROVE Goal
    <2>1. rowStatus \notin Outcomes
      BY <1>7, <1>i DEF TransitionWrite, Idle
    <2>2. \A d \in Conn \ {c} : pending[d] = NoWrite
      BY <1>7 DEF TransitionWrite, SocketInv, OneSocket, Busy
    <2>3. pending' = [pending EXCEPT ![c] = NoWrite]
      BY <1>7 DEF TransitionWrite
    <2> QED
      BY <1>t, <2>1, <2>2, <2>3 DEF Idle
  <1>8. ASSUME NEW c \in Conn, DisconnectJobs(c) PROVE Goal
    BY <1>8, <1>i DEF DisconnectJobs, RowWritten, Outcomes, ActiveStatuses, Idle
  <1> QED
    BY <1>1, <1>2, <1>3, <1>4, <1>5, <1>6, <1>7, <1>8
    DEF Next, Server, ServerFrame, AgentLoop, AgentRun, Failure, vars, rowVars, socketVars,
        CheckDevice, CheckOnline, DispatchJob, CancelRead, CancelSend, CancelDetail,
        RowWritten, RevokeCancelJobs,
        RevokeCloseDevice, HelloAttach, HelloUpdate, HelloWelcome, HelloReconcile,
        FlushOutput, SocketClosed, Dial, Welcomed, ReconcileAll, ProtocolError,
        StartJob, CancelJob, LoopSend, RunSend, ConnectionLost, SpawnFailed, Spawn,
        Started, Announced, ProcessExit, Finish, NetworkDrop, AgentCrash

\* An outcome the agent reported stands: no handler that was under way takes it
\* back, but for a cancellation that read the row while it was queued.  Any
\* number of connections, cancellations, failures, restarts and revocations,
\* where the server does not lag.
THEOREM OutcomeStandsCorrect ==
  ASSUME ~Lagging
  PROVE  Spec => OutcomeStands
  <1>1. Init => StartInv /\ RunInv /\ SilentInv /\ StandInv
    BY MentionsNone DEF Init, StartInv, StartAt, RunInv, Unended, SilentInv, StandInv,
                        Outcomes, Idle
  <1>2. TypeOK /\ StartInv /\ [Next]_vars => StartInv'
    BY StartStep
  <1>3. TypeOK /\ RunInv /\ [Next]_vars => RunInv'
    BY RunStep
  <1>4. TypeOK /\ StartInv /\ RunInv /\ SilentInv /\ [Next]_vars => SilentInv'
    BY SilentStep
  <1>5. TypeOK /\ SocketInv /\ SilentInv /\ StandInv /\ [Next]_vars => StandInv'
    BY StandStep
  <1>6. TypeOK /\ SocketInv /\ SilentInv /\ StandInv /\ [Next]_vars
          => [(rowStatus \in {"completed", "failed"}) =>
                (rowStatus' \in {rowStatus, "cancelled"})]_rowStatus
    BY StandStep DEF Outcomes
  <1>7. Spec => []SocketInv
    BY SocketCorrect
  <1> QED
    BY <1>1, <1>2, <1>3, <1>4, <1>5, <1>6, <1>7, TypeCorrect, PTL DEF Spec, OutcomeStands

=============================================================================
