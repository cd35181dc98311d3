---------------------------- MODULE JobLifecycle ----------------------------
(***************************************************************************)
(* One job, from the HTTP request that creates it to its terminal status:  *)
(* the row in PostgreSQL, the handlers of one server instance that read    *)
(* and write it, the agent's WebSocket connections, and the agent's        *)
(* session with the process it runs.                                       *)
(*                                                                         *)
(* A step ends where the program awaits: each handler of the server reads  *)
(* the row in one step and writes it in a later one, and handlers of       *)
(* different requests and sockets interleave between the two.  On the      *)
(* agent, the connection's read loop and the goroutine that runs the       *)
(* command interleave at every lock section and at every Send.             *)
(*                                                                         *)
(* Left out here: output (module OutputPipeline), several server instances *)
(* (ConnectionHub), terminal input and resizing, which do not change a     *)
(* job's status.                                                           *)
(***************************************************************************)
EXTENDS JobStatus, Naturals, Sequences

CONSTANTS
  Conn,         \* identities for agent WebSocket connections, reused when idle
  NoConn,       \* no connection
  Request,      \* cancellation requests the user may issue
  Interactive,  \* the job has a PTY: it waits for input once started
  Lagging,      \* the server may fall behind: it still works on a socket's
                \* frames when the agent, after its back-off, connects again,
                \* or has yet to attach a socket when that socket closes
  MayRevoke,    \* the user may revoke the device
  MaxDials,     \* bound: connections the agent opens, where Lagging holds
  MaxDrops,     \* bound: network failures
  MaxCrashes    \* bound: restarts of the agent program

ASSUME LifecycleAssumption ==
  /\ NoConn \notin Conn
  /\ Interactive \in BOOLEAN
  /\ Lagging \in BOOLEAN
  /\ MayRevoke \in BOOLEAN
  /\ MaxDials \in Nat
  /\ MaxDrops \in Nat
  /\ MaxCrashes \in Nat

VARIABLES
  \* PostgreSQL
  rowStatus,      \* Job.status, or "none" before the row exists
  written,        \* [Conn -> BOOLEAN]: Job.updatedAt > the disconnectedAt that
                  \* this connection's close handler captured
  late,           \* history: the row is active by a write made while no agent
                  \* was attached
  revoked,        \* Device.status = "revoked"
  alerts,         \* waiting_for_input notifications pushed so far, up to 2
  \* the server's sockets and handlers
  attached,       \* ConnectionHub.agents: the device's connection, or NoConn
  link,           \* [Conn -> LinkState]
  helloReceived,  \* [Conn -> BOOLEAN]
  chain,          \* [Conn -> Seq(Frame)]: frames under way or queued in the
                  \* socket's promise chain
  pending,        \* [Conn -> Pending]: the write a frame's handler owes
  closer,         \* [Conn -> BOOLEAN]: the close handler has yet to run its
                  \* transaction
  createPc, cancelPc, revokePc,  \* the HTTP handlers
  \* the agent
  agentConn,      \* Client.connection, or the one being dialled
  agentPhase,     \* "offline", "dialing", "welcomed" (the connection is
                  \* installed, ReconcileAll is to run) or "online"
  down,           \* [Conn -> Seq(Order)]: server messages not yet read
  loopOut,        \* frames the read loop has yet to send
  sStatus,        \* Session.status, or "none" without a session
  sCancelled,     \* Session.cancelled
  process,        \* the operating system process
  runPc,          \* where Session.run is
  runOut,         \* frames Session.run has yet to send
  sawCancel,      \* started() read cancelled and has yet to act on it
  \* bounds
  dials, drops, crashes

rowVars     == <<rowStatus, written, late, revoked, alerts>>
socketVars  == <<attached, link, helloReceived, chain, pending, closer>>
httpVars    == <<createPc, cancelPc, revokePc>>
clientVars  == <<agentConn, agentPhase, down, loopOut>>
sessionVars == <<sStatus, sCancelled, process, runPc, runOut, sawCancel>>
boundVars   == <<dials, drops, crashes>>
vars == <<rowVars, socketVars, httpVars, clientVars, sessionVars, boundVars>>

-----------------------------------------------------------------------------
(* Frames from the agent.  A job frame is the status it asks for; the      *)
(* hello frame says whether the job is listed in runningJobIds, and its    *)
(* handler goes on, from await to await, as "update", "welcome",           *)
(* "reconcile" and the transitions it applies ("resume").                  *)

HelloStages == {"hello", "update", "welcome", "reconcile"}

Frame ==
  [kind : HelloStages, arg : {"listed", "unlisted"}]
    \cup [kind : {"job", "resume"}, arg : JobStatuses]

JobFrame(status) == [kind |-> "job", arg |-> status]

NoWrite == [from |-> "none", to |-> "none"]

Pending == {NoWrite} \cup [from : JobStatuses, to : JobStatuses]

Order == {"welcome", "start", "cancel"}

\* live:    both ends up
\* cut:     the network or the agent gave up; the server's socket is still OPEN
\* closing: the server called close()
\* closed:  the server's close event has fired, or there was no connection yet
LinkState == {"live", "cut", "closing", "closed"}

\* readyState === OPEN on the server
IsOpen(c) == c # NoConn /\ link[c] \in {"live", "cut"}

\* socket.close(...) on connection c
CloseSocket(c) == [link EXCEPT ![c] = IF @ \in {"live", "cut"} THEN "closing" ELSE @]

\* sendToAgent in a single instance: it fails unless the attached socket is
\* OPEN, and on a dead link it succeeds and the message is lost.
CanSendToAgent == IsOpen(attached)

SentToAgent(order) ==
  IF link[attached] = "live" THEN [down EXCEPT ![attached] = Append(@, order)]
                             ELSE down

\* A write of the job row, to status, sets updatedAt.
RowWritten(status) ==
  /\ rowStatus' = status
  /\ written' = [c \in Conn |-> TRUE]
  /\ late' = (attached = NoConn /\ status \in ActiveStatuses)

SessionDone == sStatus \in TerminalStatuses

-----------------------------------------------------------------------------
Init ==
  /\ rowStatus = "none"
  /\ written = [c \in Conn |-> TRUE]
  /\ late = FALSE
  /\ revoked = FALSE
  /\ alerts = 0
  /\ attached = NoConn
  /\ link = [c \in Conn |-> "closed"]
  /\ helloReceived = [c \in Conn |-> FALSE]
  /\ chain = [c \in Conn |-> <<>>]
  /\ pending = [c \in Conn |-> NoWrite]
  /\ closer = [c \in Conn |-> FALSE]
  /\ createPc = "idle"
  /\ cancelPc = [r \in Request |-> "idle"]
  /\ revokePc = "idle"
  /\ agentConn = NoConn
  /\ agentPhase = "offline"
  /\ down = [c \in Conn |-> <<>>]
  /\ loopOut = <<>>
  /\ sStatus = "none"
  /\ sCancelled = FALSE
  /\ process = "none"
  /\ runPc = "none"
  /\ runOut = <<>>
  /\ sawCancel = FALSE
  /\ dials = 0
  /\ drops = 0
  /\ crashes = 0

-----------------------------------------------------------------------------
(* HTTP: POST /api/repositories/:id/jobs                                   *)

\* The repository and its device are read: the device is not revoked.
CheckDevice ==
  /\ createPc = "idle"
  /\ ~revoked
  /\ createPc' = "checked"
  /\ UNCHANGED <<rowVars, socketVars, cancelPc, revokePc, clientVars, sessionVars,
                 boundVars>>

\* isAgentOnline; a refused request may be made again.
CheckOnline ==
  /\ createPc = "checked"
  /\ createPc' = IF CanSendToAgent THEN "ready" ELSE "idle"
  /\ UNCHANGED <<rowVars, socketVars, cancelPc, revokePc, clientVars, sessionVars,
                 boundVars>>

\* The action is read and the row inserted, as queued, whatever has become of
\* the device since the checks.
CreateJob ==
  /\ createPc = "ready"
  /\ RowWritten("queued")
  /\ createPc' = "created"
  /\ UNCHANGED <<revoked, alerts, socketVars, cancelPc, revokePc, clientVars,
                 sessionVars, boundVars>>

\* sendToAgent(job.start)
DispatchJob ==
  /\ createPc = "created"
  /\ IF CanSendToAgent
     THEN createPc' = "done" /\ down' = SentToAgent("start")
     ELSE createPc' = "unsent" /\ UNCHANGED down
  /\ UNCHANGED <<rowVars, socketVars, cancelPc, revokePc, agentConn, agentPhase,
                 loopOut, sessionVars, boundVars>>

\* job.start could not be sent: the row is failed, whatever it holds by now.
DispatchFailed ==
  /\ createPc = "unsent"
  /\ RowWritten("failed")
  /\ createPc' = "done"
  /\ UNCHANGED <<revoked, alerts, socketVars, cancelPc, revokePc, clientVars,
                 sessionVars, boundVars>>

-----------------------------------------------------------------------------
(* JobService.requestCancellation                                          *)

CancelRead(r) ==
  /\ cancelPc[r] = "idle"
  /\ rowStatus # "none"
  /\ cancelPc' = [cancelPc EXCEPT ![r] =
       CASE rowStatus \in TerminalStatuses -> "done"
         [] rowStatus = "queued"           -> "write"
         [] OTHER                          -> "send"]
  /\ UNCHANGED <<rowVars, socketVars, createPc, revokePc, clientVars,
                 sessionVars, boundVars>>

\* The row was queued when it was read: it becomes cancelled, and the agent
\* is not told.
CancelWrite(r) ==
  /\ cancelPc[r] = "write"
  /\ RowWritten("cancelled")
  /\ cancelPc' = [cancelPc EXCEPT ![r] = "done"]
  /\ UNCHANGED <<revoked, alerts, socketVars, createPc, revokePc, clientVars,
                 sessionVars, boundVars>>

CancelSend(r) ==
  /\ cancelPc[r] = "send"
  /\ IF CanSendToAgent
     THEN cancelPc' = [cancelPc EXCEPT ![r] = "detail"] /\ down' = SentToAgent("cancel")
     ELSE cancelPc' = [cancelPc EXCEPT ![r] = "done"] /\ UNCHANGED down
  /\ UNCHANGED <<rowVars, socketVars, createPc, revokePc, agentConn, agentPhase,
                 loopOut, sessionVars, boundVars>>

\* statusDetail only; it still sets updatedAt.
CancelDetail(r) ==
  /\ cancelPc[r] = "detail"
  /\ RowWritten(rowStatus)
  /\ cancelPc' = [cancelPc EXCEPT ![r] = "done"]
  /\ UNCHANGED <<revoked, alerts, socketVars, createPc, revokePc, clientVars,
                 sessionVars, boundVars>>

-----------------------------------------------------------------------------
(* HTTP: DELETE /api/devices/:id                                           *)

RevokeCancelJobs ==
  /\ MayRevoke
  /\ revokePc = "idle"
  /\ down' = IF rowStatus \in ActiveStatuses /\ CanSendToAgent
             THEN SentToAgent("cancel") ELSE down
  /\ revokePc' = "commit"
  /\ UNCHANGED <<rowVars, socketVars, createPc, cancelPc, agentConn, agentPhase,
                 loopOut, sessionVars, boundVars>>

RevokeCommit ==
  /\ revokePc = "commit"
  /\ revoked' = TRUE
  /\ IF rowStatus \in ActiveStatuses
     THEN RowWritten("disconnected")
     ELSE UNCHANGED <<rowStatus, written, late>>
  /\ revokePc' = "close"
  /\ UNCHANGED <<alerts, socketVars, createPc, cancelPc, clientVars, sessionVars,
                 boundVars>>

RevokeCloseDevice ==
  /\ revokePc = "close"
  /\ link' = IF attached = NoConn THEN link ELSE CloseSocket(attached)
  /\ revokePc' = "done"
  /\ UNCHANGED <<rowVars, attached, helloReceived, chain, pending, closer,
                 createPc, cancelPc, clientVars, sessionVars, boundVars>>

-----------------------------------------------------------------------------
(* The agent socket's promise chain: one frame at a time                   *)

Idle(c) == pending[c] = NoWrite

HeadIs(c, kind) == chain[c] # <<>> /\ Head(chain[c]).kind = kind

\* The hello handler goes on to its next stage, or ends.
HelloNext(c, stage) ==
  chain' = [chain EXCEPT ![c] = <<[kind |-> stage, arg |-> Head(@).arg]>> \o Tail(@)]

HelloThrows(c) ==
  /\ link' = CloseSocket(c)
  /\ chain' = [chain EXCEPT ![c] = Tail(@)]

\* agent.hello: attachAgent replaces, and closes, the device's connection.
HelloAttach(c) ==
  /\ Idle(c)
  /\ HeadIs(c, "hello")
  /\ attached' = c
  /\ link' = IF attached \in Conn \ {c} THEN CloseSocket(attached) ELSE link
  /\ helloReceived' = [helloReceived EXCEPT ![c] = TRUE]
  /\ HelloNext(c, "update")
  /\ late' = FALSE
  /\ UNCHANGED <<rowStatus, written, revoked, alerts, pending, closer, httpVars,
                 clientVars, sessionVars, boundVars>>

\* Mutant: the update forgets status: { not: 'revoked' }.
DeviceUpdatableAlways == TRUE

\* updateConnectedDevice finds a device that is not revoked.
DeviceUpdatable == ~revoked

HelloUpdate(c) ==
  /\ Idle(c)
  /\ HeadIs(c, "update")
  /\ IF DeviceUpdatable THEN HelloNext(c, "welcome") /\ UNCHANGED link
                        ELSE HelloThrows(c)
  /\ UNCHANGED <<rowVars, attached, helloReceived, pending, closer, httpVars,
                 clientVars, sessionVars, boundVars>>

\* agent.welcome goes to whichever connection is attached.
HelloWelcome(c) ==
  /\ Idle(c)
  /\ HeadIs(c, "welcome")
  /\ IF CanSendToAgent
     THEN down' = SentToAgent("welcome") /\ HelloNext(c, "reconcile") /\ UNCHANGED link
     ELSE HelloThrows(c) /\ UNCHANGED down
  /\ UNCHANGED <<rowVars, attached, helloReceived, pending, closer, httpVars,
                 agentConn, agentPhase, loopOut, sessionVars, boundVars>>

\* The transitions the hello handler applies to a listed job, from the
\* status it read.
ResumeFrames(status) ==
  (IF status = "queued" THEN <<[kind |-> "resume", arg |-> "dispatched"]>> ELSE <<>>)
    \o <<[kind |-> "resume",
          arg |-> IF status = "waiting_for_input" THEN "waiting_for_input" ELSE "running"]>>

HelloReconcile(c) ==
  /\ Idle(c)
  /\ HeadIs(c, "reconcile")
  /\ chain' = [chain EXCEPT ![c] =
       IF Head(@).arg = "listed" /\ rowStatus \notin TerminalStatuses \cup {"none"}
       THEN ResumeFrames(rowStatus) \o Tail(@)
       ELSE Tail(@)]
  /\ UNCHANGED <<rowVars, attached, link, helloReceived, pending, closer, httpVars,
                 clientVars, sessionVars, boundVars>>

\* What is left of a chain when the handler of its head throws: a throw in
\* the hello handler skips the rest of that handler.
AfterThrow(frames) ==
  IF Head(frames).kind = "resume" /\ Len(frames) > 1 /\ frames[2].kind = "resume"
  THEN Tail(Tail(frames)) ELSE Tail(frames)

\* transitionFromAgent up to its first await: a terminal row is left alone,
\* an illegal transition closes the socket, a legal one is owed a write.
TransitionRead(c) ==
  /\ Idle(c)
  /\ HeadIs(c, "job") \/ HeadIs(c, "resume")
  /\ rowStatus # "none"
  /\ LET target == Head(chain[c]).arg IN
       CASE rowStatus \in TerminalStatuses ->
              /\ chain' = [chain EXCEPT ![c] = Tail(@)]
              /\ UNCHANGED <<link, pending>>
         [] rowStatus \notin TerminalStatuses /\ ~CanTransitionJob(rowStatus, target) ->
              /\ link' = CloseSocket(c)
              /\ chain' = [chain EXCEPT ![c] = AfterThrow(@)]
              /\ UNCHANGED pending
         [] OTHER ->
              /\ pending' = [pending EXCEPT ![c] = [from |-> rowStatus, to |-> target]]
              /\ chain' = [chain EXCEPT ![c] = Tail(@)]
              /\ UNCHANGED link
  /\ UNCHANGED <<rowVars, attached, helloReceived, closer, httpVars, clientVars,
                 sessionVars, boundVars>>

\* ... and its update of the row, by id alone, with the push notification it
\* sends when the target differs from the status it read.
TransitionWrite(c) ==
  /\ pending[c] # NoWrite
  /\ RowWritten(pending[c].to)
  /\ alerts' = IF pending[c].to = "waiting_for_input" /\ pending[c].from # pending[c].to
                  /\ alerts < 2
               THEN alerts + 1 ELSE alerts
  /\ pending' = [pending EXCEPT ![c] = NoWrite]
  /\ UNCHANGED <<revoked, attached, link, helloReceived, chain, closer, httpVars,
                 clientVars, sessionVars, boundVars>>

\* The background flush of output, 100 ms after the chunks arrived, updates the
\* job row's byte count.  Only between a close event and its transaction does
\* it matter that updatedAt moves.
FlushOutput ==
  /\ rowStatus \in {"running", "waiting_for_input"}
  /\ \E c \in Conn : closer[c] /\ ~written[c]
  /\ RowWritten(rowStatus)
  /\ UNCHANGED <<revoked, alerts, socketVars, httpVars, clientVars, sessionVars,
                 boundVars>>

-----------------------------------------------------------------------------
(* The socket's close event                                                *)

\* disconnectedAt is taken and detachAgent runs, whatever handlers of this
\* socket are under way; cleanup follows only if this socket was still the
\* attached one and had said hello.  A hello received is attached in the same
\* turn, unless Redis, asked for the presence first, keeps it waiting.
SocketClosed(c) ==
  /\ link[c] \in {"cut", "closing"}
  /\ Lagging \/ ~HeadIs(c, "hello")
  /\ link' = [link EXCEPT ![c] = "closed"]
  /\ IF helloReceived[c] /\ attached = c
     THEN /\ attached' = NoConn
          /\ closer' = [closer EXCEPT ![c] = TRUE]
          /\ written' = [written EXCEPT ![c] = FALSE]
     ELSE UNCHANGED <<attached, closer, written>>
  /\ UNCHANGED <<rowStatus, late, revoked, alerts, helloReceived, chain, pending,
                 httpVars, clientVars, sessionVars, boundVars>>

\* Mutant: the transaction does not look at the status.
DisconnectJobsAny(c) ==
  /\ closer[c]
  /\ closer' = [closer EXCEPT ![c] = FALSE]
  /\ IF rowStatus # "none" /\ ~written[c]
     THEN RowWritten("disconnected")
     ELSE written' = [written EXCEPT ![c] = TRUE] /\ UNCHANGED <<rowStatus, late>>
  /\ UNCHANGED <<revoked, alerts, attached, link, helloReceived, chain, pending,
                 httpVars, clientVars, sessionVars, boundVars>>

\* The close handler's transaction: an active job not written since the
\* disconnect becomes disconnected.
DisconnectJobs(c) ==
  /\ closer[c]
  /\ closer' = [closer EXCEPT ![c] = FALSE]
  /\ IF rowStatus \in ActiveStatuses /\ ~written[c]
     THEN RowWritten("disconnected")
     ELSE written' = [written EXCEPT ![c] = TRUE] /\ UNCHANGED <<rowStatus, late>>
  /\ UNCHANGED <<revoked, alerts, attached, link, helloReceived, chain, pending,
                 httpVars, clientVars, sessionVars, boundVars>>

-----------------------------------------------------------------------------
(* The agent: Client.runConnection                                         *)

Reusable(c) ==
  /\ link[c] = "closed"
  /\ chain[c] = <<>>
  /\ Idle(c)
  /\ ~closer[c]
  /\ attached # c

\* The server has worked off every frame it received and is not in the middle
\* of closing a socket.
Drained == \A c \in Conn : chain[c] = <<>> /\ Idle(c) /\ link[c] # "closing"

\* A WebSocket is opened (the credential is accepted) and agent.hello sent.
Dial(c) ==
  /\ agentPhase = "offline"
  /\ ~revoked
  /\ Reusable(c)
  /\ IF Lagging THEN dials < MaxDials /\ dials' = dials + 1
                ELSE Drained /\ UNCHANGED dials
  /\ link' = [link EXCEPT ![c] = "live"]
  /\ helloReceived' = [helloReceived EXCEPT ![c] = FALSE]
  /\ chain' = [chain EXCEPT ![c] =
       <<[kind |-> "hello",
          arg |-> IF sStatus # "none" /\ ~SessionDone THEN "listed" ELSE "unlisted"]>>]
  /\ down' = [down EXCEPT ![c] = <<>>]
  /\ agentConn' = c
  /\ agentPhase' = "dialing"
  /\ UNCHANGED <<rowVars, attached, pending, closer, httpVars, loopOut, sessionVars,
                 drops, crashes>>

\* Mutants: reconcile of a session that does not exist; a switch that falls
\* through to job.completed; a finished session that is not reported again.
ReconcileFramesUnguarded ==
  IF SessionDone THEN <<JobFrame(sStatus)>> ELSE <<JobFrame("running"), JobFrame(sStatus)>>

ReconcileFramesFallThrough ==
  CASE sStatus = "none" -> <<>>
    [] SessionDone      -> <<JobFrame("completed")>>
    [] OTHER            -> <<JobFrame("running"), JobFrame(sStatus)>>

ReconcileFramesForgetful ==
  IF sStatus = "none" \/ SessionDone THEN <<>>
  ELSE <<JobFrame("running"), JobFrame(sStatus)>>

\* Session.reconcile
ReconcileFrames ==
  CASE sStatus = "none" -> <<>>
    [] SessionDone      -> <<JobFrame(sStatus)>>
    [] OTHER            -> <<JobFrame("running"), JobFrame(sStatus)>>

\* The next server message the read loop takes.
NextOrder(c, order) ==
  /\ agentConn = c
  /\ agentPhase \in {"dialing", "online"}
  /\ loopOut = <<>>
  /\ down[c] # <<>>
  /\ Head(down[c]) = order

Take(c) == down' = [down EXCEPT ![c] = Tail(@)]

\* agent.welcome: the connection is installed.
Welcomed(c) ==
  /\ agentPhase = "dialing"
  /\ NextOrder(c, "welcome")
  /\ Take(c)
  /\ agentPhase' = "welcomed"
  /\ UNCHANGED <<rowVars, socketVars, httpVars, agentConn, loopOut, sessionVars, boundVars>>

ReconcileAll ==
  /\ agentPhase = "welcomed"
  /\ agentPhase' = "online"
  /\ loopOut' = ReconcileFrames
  /\ UNCHANGED <<rowVars, socketVars, httpVars, agentConn, down, sessionVars, boundVars>>

\* Any other first message, or a second welcome, ends the connection.
ProtocolError(c) ==
  /\ \E order \in Order :
       /\ (agentPhase = "dialing") = (order # "welcome")
       /\ NextOrder(c, order)
       /\ down' = [down EXCEPT ![c] = <<>>]
  /\ agentConn' = NoConn
  /\ agentPhase' = "offline"
  /\ link' = [link EXCEPT ![c] = IF @ = "live" THEN "cut" ELSE @]
  /\ UNCHANGED <<rowVars, attached, helloReceived, chain, pending, closer, httpVars,
                 loopOut, sessionVars, boundVars>>

\* job.start: Manager.Start rejects it, or registers a session.
StartJob(c) ==
  /\ agentPhase = "online"
  /\ NextOrder(c, "start")
  /\ Take(c)
  /\ \/ /\ sStatus = "none"
        /\ loopOut' = <<JobFrame("failed")>>
        /\ UNCHANGED <<sStatus, runPc>>
     \/ /\ sStatus = "none"
        /\ sStatus' = "dispatched"
        /\ runPc' = "accept"
        /\ loopOut' = <<JobFrame("dispatched")>>
  /\ UNCHANGED <<rowVars, socketVars, httpVars, agentConn, agentPhase, sCancelled,
                 process, runOut, sawCancel, boundVars>>

\* Mutant: started() publishes the process after its Sends.
HandleSetLate == runPc = "wait"

\* Session.process is set from started() until finish().
HandleSet == runPc \in {"announce", "wait"}

\* terminateProcess
Kill == process' = IF process = "alive" THEN "killed" ELSE process

\* job.cancel: Session.cancel
CancelJob(c) ==
  /\ agentPhase = "online"
  /\ NextOrder(c, "cancel")
  /\ Take(c)
  /\ IF sStatus # "none" /\ ~SessionDone /\ ~sCancelled
     THEN /\ sCancelled' = TRUE
          /\ IF HandleSet THEN Kill ELSE UNCHANGED process
     ELSE UNCHANGED <<sCancelled, process>>
  /\ UNCHANGED <<rowVars, socketVars, httpVars, agentConn, agentPhase, loopOut,
                 sStatus, runPc, runOut, sawCancel, boundVars>>

\* Client.Send: without a connection, or on a dead one, the frame is dropped.
Sent(frame) ==
  IF agentPhase \in {"welcomed", "online"} /\ link[agentConn] \in {"live", "closing"}
  THEN [chain EXCEPT ![agentConn] = Append(@, frame)]
  ELSE chain

\* The read loop sends; Start spawns Session.run after it sent job.accepted.
LoopSend ==
  /\ loopOut # <<>>
  /\ chain' = Sent(Head(loopOut))
  /\ loopOut' = Tail(loopOut)
  /\ runPc' = IF runPc = "accept" THEN "spawn" ELSE runPc
  /\ UNCHANGED <<rowVars, attached, link, helloReceived, pending, closer, httpVars,
                 agentConn, agentPhase, down, sStatus, sCancelled, process, runOut,
                 sawCancel, boundVars>>

RunSend ==
  /\ runOut # <<>>
  /\ chain' = Sent(Head(runOut))
  /\ runOut' = Tail(runOut)
  /\ UNCHANGED <<rowVars, attached, link, helloReceived, pending, closer, httpVars,
                 clientVars, sStatus, sCancelled, process, runPc, sawCancel, boundVars>>

\* The read loop sees the connection fail.
ConnectionLost ==
  /\ agentConn # NoConn
  /\ link[agentConn] # "live"
  /\ agentPhase \in {"dialing", "online"}
  /\ loopOut = <<>>
  /\ down' = [down EXCEPT ![agentConn] = <<>>]
  /\ agentConn' = NoConn
  /\ agentPhase' = "offline"
  /\ UNCHANGED <<rowVars, socketVars, httpVars, loopOut, sessionVars, boundVars>>

-----------------------------------------------------------------------------
(* The agent: Session.run                                                  *)

\* command.Start fails: finishStartFailure
SpawnFailed ==
  /\ runPc = "spawn"
  /\ sStatus' = "failed"
  /\ runOut' = <<JobFrame("failed")>>
  /\ runPc' = "end"
  /\ UNCHANGED <<rowVars, socketVars, httpVars, clientVars, sCancelled, process,
                 sawCancel, boundVars>>

Spawn ==
  /\ runPc = "spawn"
  /\ process' = "alive"
  /\ runPc' = "register"
  /\ UNCHANGED <<rowVars, socketVars, httpVars, clientVars, sStatus, sCancelled,
                 runOut, sawCancel, boundVars>>

\* started(): its lock section, then two Sends, then the kill it owes.
Started ==
  /\ runPc = "register"
  /\ sStatus' = IF Interactive THEN "waiting_for_input" ELSE "running"
  /\ sawCancel' = sCancelled
  /\ runOut' = <<JobFrame("running"), JobFrame(sStatus')>>
  /\ runPc' = "announce"
  /\ UNCHANGED <<rowVars, socketVars, httpVars, clientVars, sCancelled, process,
                 boundVars>>

Announced ==
  /\ runPc = "announce"
  /\ runOut = <<>>
  /\ IF sawCancel THEN Kill ELSE UNCHANGED process
  /\ sawCancel' = FALSE
  /\ runPc' = "wait"
  /\ UNCHANGED <<rowVars, socketVars, httpVars, clientVars, sStatus, sCancelled,
                 runOut, boundVars>>

\* The command exits, by itself or killed.
ProcessExit ==
  /\ \/ process = "alive" /\ process' \in {"exit0", "exit1"}
     \/ process = "killed" /\ process' = "exit1"
  /\ UNCHANGED <<rowVars, socketVars, httpVars, clientVars, sStatus, sCancelled,
                 runPc, runOut, sawCancel, boundVars>>

\* finish()
Finish ==
  /\ runPc = "wait"
  /\ process \in {"exit0", "exit1"}
  /\ sStatus' = IF sCancelled THEN "cancelled"
                ELSE IF process = "exit0" THEN "completed" ELSE "failed"
  /\ process' = "none"
  /\ runOut' = <<JobFrame(sStatus')>>
  /\ runPc' = "end"
  /\ UNCHANGED <<rowVars, socketVars, httpVars, clientVars, sCancelled, sawCancel,
                 boundVars>>

-----------------------------------------------------------------------------
(* Failures                                                                *)

\* The network drops the connection: frames the server has not received are
\* lost.
NetworkDrop(c) ==
  /\ drops < MaxDrops
  /\ link[c] = "live"
  /\ link' = [link EXCEPT ![c] = "cut"]
  /\ \E n \in 0..Len(chain[c]) :
       /\ \A i \in n+1..Len(chain[c]) : chain[c][i].kind \in {"hello", "job"}
       /\ chain' = [chain EXCEPT ![c] = SubSeq(@, 1, n)]
  /\ down' = [down EXCEPT ![c] = <<>>]
  /\ drops' = drops + 1
  /\ UNCHANGED <<rowVars, attached, helloReceived, pending, closer, httpVars,
                 agentConn, agentPhase, loopOut, sessionVars, dials, crashes>>

\* The agent program dies.  Sessions live in memory only: the next one knows
\* nothing of the job or of its process.
AgentCrash ==
  /\ crashes < MaxCrashes
  /\ crashes' = crashes + 1
  /\ agentConn' = NoConn
  /\ agentPhase' = "offline"
  /\ link' = IF agentConn = NoConn THEN link
             ELSE [link EXCEPT ![agentConn] = IF @ = "live" THEN "cut" ELSE @]
  /\ down' = [c \in Conn |-> <<>>]
  /\ loopOut' = <<>>
  /\ sStatus' = "none"
  /\ sCancelled' = FALSE
  /\ process' = "none"
  /\ runPc' = "none"
  /\ runOut' = <<>>
  /\ sawCancel' = FALSE
  /\ UNCHANGED <<rowVars, attached, helloReceived, chain, pending, closer, httpVars,
                 dials, drops>>

-----------------------------------------------------------------------------
ServerFrame(c) ==
  \/ HelloAttach(c)
  \/ HelloUpdate(c)
  \/ HelloWelcome(c)
  \/ HelloReconcile(c)
  \/ TransitionRead(c)
  \/ TransitionWrite(c)

Server ==
  \/ CheckDevice
  \/ CheckOnline
  \/ CreateJob
  \/ DispatchJob
  \/ DispatchFailed
  \/ \E r \in Request : CancelRead(r)
  \/ \E r \in Request : CancelWrite(r)
  \/ \E r \in Request : CancelSend(r)
  \/ \E r \in Request : CancelDetail(r)
  \/ RevokeCancelJobs
  \/ RevokeCommit
  \/ RevokeCloseDevice
  \/ \E c \in Conn : ServerFrame(c)
  \/ FlushOutput
  \/ \E c \in Conn : SocketClosed(c)
  \/ \E c \in Conn : DisconnectJobs(c)

\* The goroutine of Client.Run.
AgentLoop ==
  \/ \E c \in Conn : Dial(c)
  \/ \E c \in Conn : Welcomed(c)
  \/ ReconcileAll
  \/ \E c \in Conn : ProtocolError(c)
  \/ \E c \in Conn : StartJob(c)
  \/ \E c \in Conn : CancelJob(c)
  \/ LoopSend
  \/ ConnectionLost

\* The goroutine of Session.run.
AgentRun ==
  \/ RunSend
  \/ SpawnFailed
  \/ Spawn
  \/ Started
  \/ Announced
  \/ Finish

Failure ==
  \/ \E c \in Conn : NetworkDrop(c)
  \/ AgentCrash

Next == Server \/ AgentLoop \/ AgentRun \/ ProcessExit \/ Failure

Spec == Init /\ [][Next]_vars

\* Every handler the server has begun goes on, the agent's two goroutines are
\* scheduled, a killed process dies.  Nothing is assumed of the user, of the
\* network or of a command left to itself.
Fairness ==
  /\ WF_vars(CheckOnline \/ CreateJob \/ DispatchJob \/ DispatchFailed)
  /\ \A r \in Request : WF_vars(CancelWrite(r) \/ CancelSend(r) \/ CancelDetail(r))
  /\ WF_vars(RevokeCommit \/ RevokeCloseDevice)
  /\ \A c \in Conn : WF_vars(ServerFrame(c))
  /\ \A c \in Conn : WF_vars(SocketClosed(c) \/ DisconnectJobs(c))
  /\ WF_vars(AgentLoop)
  /\ WF_vars(AgentRun)
  /\ WF_vars(process = "killed" /\ ProcessExit)

FairSpec == Spec /\ Fairness

-----------------------------------------------------------------------------
(* Properties                                                              *)

RowType ==
  /\ rowStatus \in JobStatuses \cup {"none"}
  /\ written \in [Conn -> BOOLEAN]
  /\ late \in BOOLEAN
  /\ revoked \in BOOLEAN
  /\ alerts \in 0..2

SocketType ==
  /\ attached \in Conn \cup {NoConn}
  /\ link \in [Conn -> LinkState]
  /\ helloReceived \in [Conn -> BOOLEAN]
  /\ chain \in [Conn -> Seq(Frame)]
  /\ pending \in [Conn -> Pending]
  /\ closer \in [Conn -> BOOLEAN]

HttpType ==
  /\ createPc \in {"idle", "checked", "ready", "created", "unsent", "done"}
  /\ cancelPc \in [Request -> {"idle", "write", "send", "detail", "done"}]
  /\ revokePc \in {"idle", "commit", "close", "done"}

ClientType ==
  /\ agentConn \in Conn \cup {NoConn}
  /\ agentPhase \in {"offline", "dialing", "welcomed", "online"}
  /\ agentPhase # "offline" => agentConn \in Conn
  /\ down \in [Conn -> Seq(Order)]
  /\ loopOut \in Seq(Frame)

SessionType ==
  /\ sStatus \in JobStatuses \cup {"none"}
  /\ sCancelled \in BOOLEAN
  /\ process \in {"none", "alive", "killed", "exit0", "exit1"}
  /\ runPc \in {"none", "accept", "spawn", "register", "announce", "wait", "end"}
  /\ runOut \in Seq(Frame)
  /\ sawCancel \in BOOLEAN

BoundType ==
  /\ dials \in 0..MaxDials
  /\ drops \in 0..MaxDrops
  /\ crashes \in 0..MaxCrashes

\* The values the server's row, sockets and handlers and the agent's connection
\* and session may hold; Client.Send has a connection whenever it needs one.
TypeOK ==
  RowType /\ SocketType /\ HttpType /\ ClientType /\ SessionType /\ BoundType

\* Whatever is lost, repeated or overtaken between them, the row never says
\* completed or failed of a job that its agent remembers otherwise: the
\* terminal messages of finish, finishStartFailure and reconcile agree.
HonestOutcome ==
  rowStatus \in {"completed", "failed"} => sStatus \in {"none", rowStatus}

\* A job.cancel the session took note of has killed the process by the time
\* Session.run waits for it, wherever between Spawn and the end of started()
\* it arrived (Session.cancel against started).
CancelReachesProcess ==
  runPc = "wait" /\ sCancelled => process # "alive"

\* Once a revocation has closed the device's socket (closeDevice), the only
\* open socket that can be attached is one whose hello handler has yet to find
\* out that the device is revoked (updateConnectedDevice).
RevokedNeverServed ==
  revokePc = "done" =>
    \A c \in Conn : attached = c /\ IsOpen(c) => HeadIs(c, "update")

\* No handler of the server is under way.
ServerIdle ==
  /\ createPc \in {"idle", "done"}
  /\ \A r \in Request : cancelPc[r] \in {"idle", "done"}
  /\ revokePc \in {"idle", "done"}
  /\ Drained
  /\ \A c \in Conn : ~closer[c]

AgentIdle ==
  /\ agentPhase = "online"
  /\ attached = agentConn
  /\ link[agentConn] = "live"
  /\ down[agentConn] = <<>>
  /\ loopOut = <<>>
  /\ runOut = <<>>

\* The agent is connected and everything sent has been handled: the row holds
\* the status of the session, unless the user cancelled it while queued.  This
\* is what hello reconciliation (runningJobIds, ReconcileAll) is for.
QuiescentAgreement ==
  ServerIdle /\ AgentIdle /\ sStatus # "none" => rowStatus \in {sStatus, "cancelled"}

\* docs/architecture.md: "Agent disconnect during execution: active jobs become
\* disconnected".  With no agent attached and no handler under way, a job that
\* has not ended is disconnected.  The code breaks this: the close handler's
\* transaction skips a row written since the close event.
OfflineMeansDisconnected ==
  ServerIdle /\ attached = NoConn =>
    rowStatus \in {"none", "disconnected"} \cup TerminalStatuses

\* What is left of that promise in every interleaving: a job can be active
\* with no agent attached and no handler under way only by a write of its row
\* that came after its agent was gone - a flush of output, a status frame
\* still in the chain, the detail of a cancellation.  Otherwise the close
\* handlers forget no job, however sockets replace one another before they
\* close.
OfflineVouched ==
  ServerIdle /\ attached = NoConn =>
    rowStatus \in {"none", "disconnected"} \cup TerminalStatuses \/ late

\* docs/architecture.md: "terminal states are final and state transitions are
\* checked before mutation".
TerminalIsFinal ==
  [][(rowStatus \in TerminalStatuses) => (rowStatus' = rowStatus)]_rowStatus

\* What is left of that promise where the server does not lag: an outcome the
\* agent reported is not taken back by any handler that was under way, of this
\* socket or of the ones it replaced, unless a cancellation that read the row
\* while it was queued overtakes it (requestCancellation).
OutcomeStands ==
  [][(rowStatus \in {"completed", "failed"}) =>
       (rowStatus' \in {rowStatus, "cancelled"})]_rowStatus

\* A session that ended is reported: the row becomes terminal, however often
\* the connection fails in between, unless the agent program restarts or the
\* device is revoked.
FinishedIsReported ==
  SessionDone ~> (rowStatus \in TerminalStatuses \/ crashes > 0 \/ revoked)

\* A cancellation the server could forward for a job its agent knows ends that
\* job: the row becomes terminal, unless a failure of the network or the agent
\* intervenes.
CancellationHonoured ==
  \A r \in Request :
    (cancelPc[r] = "detail" /\ sStatus # "none")
       ~> (rowStatus \in TerminalStatuses \/ drops > 0 \/ crashes > 0)

\* A cancellation the session took note of ends it, whatever happens to the
\* connection.
CancelledEnds ==
  sCancelled ~> (SessionDone \/ crashes > 0)
=============================================================================
