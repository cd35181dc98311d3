--------------------------- MODULE OutputPipeline ---------------------------
(***************************************************************************)
(* The output of one job, from the agent's readers to the database and to  *)
(* one browser: the replay buffer, the agent's connection, the server's    *)
(* live relay with its background persistence, retention, and the viewer's *)
(* subscription, replay and high-water mark.                               *)
(*                                                                         *)
(* A chunk is its sequence number.  The server reads a chunk's data only   *)
(* for its length, so the data is Bytes, the total length of a set of      *)
(* chunks.  A step of the server ends where a handler awaits.              *)
(*                                                                         *)
(* The agent connects again only when the server has worked off the        *)
(* frames of the old socket (the back-off is a second and more).  What the *)
(* server sends to the browser is delivered at once: a message lost with   *)
(* the browser's socket is one sent after ViewerDrop.                      *)
(***************************************************************************)
EXTENDS Integers, Sequences, FiniteSets, FiniteSetsExt

CONSTANTS
  MaxChunks,    \* bound: chunks the command prints
  Bytes,        \* [SUBSET Chunk -> Nat]: total length of a set of chunks
  Stream,       \* {"stdout", "stderr"}, or one stream for a PTY
  RingChunks,   \* Buffer.maxChunks
  RingBytes,    \* Buffer.maxBytes
  BatchLimit,   \* persistFlushChunks
  ReplayLimit,  \* the limit of replay, and of the viewer's batch
  MaximumOutputBytes,  \* the server's retention limit
  MaxFaults,    \* bound: failures of the agent's connection and restarts of the
                \* server, together
  MaxFailures,  \* bound: failures of a database transaction
  MaxViews      \* bound: times the viewer opens its socket

Chunk == 0..MaxChunks-1

ASSUME OutputAssumption ==
  /\ MaxChunks \in Nat \ {0}
  /\ RingChunks \in Nat \ {0}
  /\ RingBytes \in Nat
  /\ BatchLimit \in Nat \ {0}
  /\ ReplayLimit \in Nat \ {0}
  /\ MaximumOutputBytes \in Nat
  /\ MaxFaults \in Nat
  /\ MaxFailures \in Nat
  /\ MaxViews \in Nat

ASSUME BytesAssumption ==
  /\ Bytes \in [SUBSET Chunk -> Nat]
  /\ \A S, T \in SUBSET Chunk : S \cap T = {} => Bytes[S \cup T] = Bytes[S] + Bytes[T]

NoChunk == -1

VARIABLES
  \* the agent
  next,       \* Buffer.next
  ringLow,    \* the oldest sequence in Buffer.chunks, or next when it is empty
  held,       \* [Stream -> Chunk or NoChunk]: added to the buffer, not yet sent
  runPc,      \* Session.run: "read", "send" (done is set) or "end"
  phase,      \* the client: "offline", "dialing", "welcomed" or "online"
  loopOut,    \* frames the read loop has yet to send
  \* the network
  linkUp,     \* the connection works
  orders,     \* server messages not yet read by the agent
  wire,       \* frames sent, under way or queued in the socket's promise chain
  \* the server
  batch,      \* pendingPersist: chunks relayed and not yet handed to a flush
  queue,      \* outputQueues: operations on the job's output, one at a time
  \* PostgreSQL
  stored,     \* rows of JobOutputChunk
  retained,   \* Job.retainedOutputBytes
  truncated,  \* Job.outputTruncated
  reported,   \* the agent's report of the job's end has been handled
  early,      \* the row was ended without that report, and so without a flush
  \* the viewer: the browser and the server's handler of its subscription
  vPc,        \* "away", "again" (another page is asked for), "open", "reopen"
              \* (the row is read), "flush", "flag", "read", "send" (the replay's
              \* stages), "live" or "ended"
  vAfter,     \* afterSequence of the subscription
  vStatus,    \* the status read with the subscription was terminal
  vFlag,      \* outputTruncated as the replay read it
  vSnap,      \* the rows the replay read
  vQueue,     \* queuedMessages: chunks broadcast during the replay
  vDone,      \* ... and whether job.completed is among them
  vLast,      \* lastSequenceRef
  vBatch,     \* replayBatchCountRef, or NoChunk when no replay is awaited
  vSeen,      \* chunks written to the terminal
  vOvertaken, \* history: live output, or the end of the job, reached the viewer
              \* before the last page, or retention removed rows of a full page
              \* while it was replayed
  \* history
  evicted,    \* chunks retention removed
  lost,       \* chunks of failed flushes
  unseen,     \* chunks inside an operation while a replay read the rows
  \* bounds
  drops, failures, restarts, views

agentVars   == <<next, ringLow, held, runPc>>
clientVars  == <<phase, loopOut>>
netVars     == <<linkUp, orders, wire>>
serverVars  == <<batch, queue>>
rowVars     == <<stored, retained, truncated, reported, early>>
viewerVars  == <<vPc, vAfter, vStatus, vFlag, vSnap, vQueue, vDone, vLast, vBatch, vSeen,
                 vOvertaken>>
historyVars == <<evicted, lost, unseen>>
boundVars   == <<drops, failures, restarts, views>>
vars == <<agentVars, clientVars, netVars, serverVars, rowVars, viewerVars,
          historyVars, boundVars>>

-----------------------------------------------------------------------------
(* "resume" is the rest of the handler of a hello that lists the job;      *)
(* "ended" the rest of job.completed once flushOutput has returned;        *)
(* "reconcile" never travels, it marks the end of the agent's sync.        *)

Frame ==
  [kind : {"hello"}, running : BOOLEAN]
    \cup [kind : {"output", "sync"}, seq : Chunk]
    \cup [kind : {"resume", "done", "ended", "reconcile"}]

Order == [kind : {"welcome"}] \cup [kind : {"request"}, after : Chunk \cup {NoChunk}]

\* What awaits an operation: a timer nothing, a frame's handler, the viewer's.
Operation == [waiter : {"none", "frame", "viewer"}, sync : BOOLEAN, chunks : SUBSET Chunk]

Flush(waiter, chunks) == [waiter |-> waiter, sync |-> FALSE, chunks |-> chunks]

Sync(chunks) == [waiter |-> "frame", sync |-> TRUE, chunks |-> chunks]

HeadIs(kind) == wire # <<>> /\ Head(wire).kind = kind

\* The head frame's handler awaits an operation.
FrameWaits == \E i \in DOMAIN queue : queue[i].waiter = "frame"

InFlight == UNION {queue[i].chunks : i \in DOMAIN queue}

\* Client.Send
Sent(frame) ==
  IF phase \in {"welcomed", "online"} /\ linkUp THEN Append(wire, frame) ELSE wire

\* Job.status is terminal.
terminal == reported \/ early

\* sendToAgent
SentToAgent(order) == IF linkUp THEN Append(orders, order) ELSE orders

-----------------------------------------------------------------------------
Init ==
  /\ next = 0 /\ ringLow = 0
  /\ held = [s \in Stream |-> NoChunk]
  /\ runPc = "read"
  /\ phase = "online" /\ loopOut = <<>>
  /\ linkUp = TRUE /\ orders = <<>> /\ wire = <<>>
  /\ batch = {} /\ queue = <<>>
  /\ stored = {} /\ retained = 0 /\ truncated = FALSE /\ reported = FALSE /\ early = FALSE
  /\ vPc = "away" /\ vAfter = NoChunk /\ vStatus = FALSE /\ vFlag = FALSE
  /\ vSnap = {} /\ vQueue = <<>> /\ vDone = FALSE
  /\ vLast = NoChunk /\ vBatch = NoChunk /\ vSeen = {} /\ vOvertaken = FALSE
  /\ evicted = {} /\ lost = {} /\ unseen = {}
  /\ drops = 0 /\ failures = 0 /\ restarts = 0 /\ views = 0

-----------------------------------------------------------------------------
(* The agent: readOutput, emitOutput, finish                               *)

Ring == ringLow..next-1

\* The loop at the end of Buffer.Add stops at the first low for which this
\* holds of what is left.
Fits(low, high) ==
  /\ high - low + 1 <= RingChunks
  /\ Bytes[low..high] <= RingBytes \/ low = high

\* Buffer.Add gives the chunk its sequence ...
Emit(s) ==
  /\ runPc = "read"
  /\ held[s] = NoChunk
  /\ next < MaxChunks
  /\ held' = [held EXCEPT ![s] = next]
  /\ ringLow' = Min({low \in ringLow..next : Fits(low, next)})
  /\ next' = next + 1
  /\ UNCHANGED <<runPc, clientVars, netVars, serverVars, rowVars, viewerVars,
                 historyVars, boundVars>>

\* ... and the chunk is sent outside the buffer's lock.
EmitSend(s) ==
  /\ held[s] # NoChunk
  /\ wire' = Sent([kind |-> "output", seq |-> held[s]])
  /\ held' = [held EXCEPT ![s] = NoChunk]
  /\ UNCHANGED <<next, ringLow, runPc, clientVars, linkUp, orders, serverVars,
                 rowVars, viewerVars, historyVars, boundVars>>

\* All readers have returned.
Finish ==
  /\ runPc = "read"
  /\ \A s \in Stream : held[s] = NoChunk
  /\ runPc' = "send"
  /\ UNCHANGED <<next, ringLow, held, clientVars, netVars, serverVars, rowVars,
                 viewerVars, historyVars, boundVars>>

FinishSend ==
  /\ runPc = "send"
  /\ wire' = Sent([kind |-> "done"])
  /\ runPc' = "end"
  /\ UNCHANGED <<next, ringLow, held, clientVars, linkUp, orders, serverVars,
                 rowVars, viewerVars, historyVars, boundVars>>

-----------------------------------------------------------------------------
(* The agent: Client.runConnection                                         *)

Dial ==
  /\ phase = "offline"
  /\ wire = <<>>
  /\ phase' = "dialing"
  /\ linkUp' = TRUE
  /\ orders' = <<>>
  /\ wire' = <<[kind |-> "hello", running |-> runPc = "read"]>>
  /\ UNCHANGED <<agentVars, loopOut, serverVars, rowVars, viewerVars, historyVars,
                 boundVars>>

\* Mutant: After copies one chunk too many.
SyncFramesPastEnd(after) ==
  LET low == IF after + 1 > ringLow THEN after + 1 ELSE ringLow
  IN  [i \in 1..next - low + 1 |-> [kind |-> "sync", seq |-> low + i - 1]]

\* Buffer.After, as the frames syncBuffer sends: one chunk each, oldest first.
SyncFrames(after) ==
  LET low == IF after + 1 > ringLow THEN after + 1 ELSE ringLow
  IN  [i \in 1..next - low |-> [kind |-> "sync", seq |-> low + i - 1]]

Welcomed ==
  /\ phase = "dialing"
  /\ orders # <<>>
  /\ orders' = Tail(orders)
  /\ phase' = "welcomed"
  /\ UNCHANGED <<agentVars, loopOut, linkUp, wire, serverVars, rowVars, viewerVars,
                 historyVars, boundVars>>

\* Mutant: only the sessions that still run are synchronised.
ReconcileAllRunning ==
  /\ phase = "welcomed"
  /\ phase' = "online"
  /\ loopOut' = (IF runPc = "read" THEN SyncFrames(NoChunk) ELSE <<>>)
                   \o <<[kind |-> "reconcile"]>>
  /\ UNCHANGED <<agentVars, netVars, serverVars, rowVars, viewerVars, historyVars,
                 boundVars>>

\* ReconcileAll: syncBuffer(-1), then reconcile.
ReconcileAll ==
  /\ phase = "welcomed"
  /\ phase' = "online"
  /\ loopOut' = SyncFrames(NoChunk) \o <<[kind |-> "reconcile"]>>
  /\ UNCHANGED <<agentVars, netVars, serverVars, rowVars, viewerVars, historyVars,
                 boundVars>>

\* job.buffer.request
BufferRequest ==
  /\ phase = "online"
  /\ loopOut = <<>>
  /\ orders # <<>>
  /\ Head(orders).kind = "request"
  /\ orders' = Tail(orders)
  /\ loopOut' = SyncFrames(Head(orders).after)
  /\ UNCHANGED <<agentVars, phase, linkUp, wire, serverVars, rowVars, viewerVars,
                 historyVars, boundVars>>

\* reconcile repeats job.completed of a session that is done.
LoopSend ==
  /\ loopOut # <<>>
  /\ wire' = CASE Head(loopOut).kind # "reconcile" -> Sent(Head(loopOut))
               [] Head(loopOut).kind = "reconcile" /\ runPc # "read" -> Sent([kind |-> "done"])
               [] OTHER -> wire
  /\ loopOut' = Tail(loopOut)
  /\ UNCHANGED <<agentVars, phase, linkUp, orders, serverVars, rowVars, viewerVars,
                 historyVars, boundVars>>

ConnectionLost ==
  /\ phase \in {"dialing", "online"}
  /\ ~linkUp
  /\ loopOut = <<>>
  /\ phase' = "offline"
  /\ orders' = <<>>
  /\ UNCHANGED <<agentVars, loopOut, linkUp, wire, serverVars, rowVars, viewerVars,
                 historyVars, boundVars>>

-----------------------------------------------------------------------------
(* The viewer's side of a message: useJobSocket                            *)

\* The viewer drops what is not above its high-water mark: of the messages in
\* sequence m, arriving in that order above mark last, it takes these.
Accepted(m, last) ==
  {m[i] : i \in {j \in DOMAIN m : m[j] > last /\ \A k \in 1..j-1 : m[k] < m[j]}}

\* Mutant: the subscription begins only when flushOutput has returned.
ReplayingLate == vPc \in {"flag", "read", "send"}

\* The server is replaying: what it broadcasts is queued.
Replaying == vPc \in {"flush", "flag", "read", "send"}

Live == vPc \in {"live", "again", "reopen"}

\* broadcastJobLocally of job.output.  The viewer closes its socket when it hears of
\* the end of the job: what follows that in the queue it does not hear.
Broadcast(n) ==
  CASE Replaying /\ ~vDone ->
         /\ vQueue' = Append(vQueue, n)
         /\ UNCHANGED <<vPc, vAfter, vStatus, vFlag, vSnap, vDone, vLast, vBatch, vSeen, vOvertaken>>
    [] Live /\ n > vLast ->
         /\ vSeen' = vSeen \cup {n}
         /\ vLast' = n
         /\ vBatch' = IF vBatch = NoChunk THEN NoChunk ELSE vBatch + 1
         /\ vOvertaken' = (vOvertaken \/ vBatch # NoChunk)
         /\ UNCHANGED <<vPc, vAfter, vStatus, vFlag, vSnap, vQueue, vDone>>
    [] OTHER -> UNCHANGED viewerVars

\* ... and of job.completed, job.failed or a job.status that is terminal
BroadcastDone ==
  CASE Replaying ->
         /\ vDone' = TRUE
         /\ UNCHANGED <<vPc, vAfter, vStatus, vFlag, vSnap, vQueue, vLast, vBatch, vSeen, vOvertaken>>
    [] Live ->
         /\ vPc' = "ended"
         /\ vOvertaken' = (vOvertaken \/ vBatch # NoChunk)
         /\ UNCHANGED <<vAfter, vStatus, vFlag, vSnap, vQueue, vDone, vLast, vBatch, vSeen>>
    [] OTHER -> UNCHANGED viewerVars

-----------------------------------------------------------------------------
(* The server: frames of the agent's socket, one at a time                 *)

Handling(kind) == HeadIs(kind) /\ ~FrameWaits

HandleHello ==
  /\ Handling("hello")
  /\ orders' = SentToAgent([kind |-> "welcome"])
  /\ wire' = (IF Head(wire).running THEN <<[kind |-> "resume"]>> ELSE <<>>) \o Tail(wire)
  /\ UNCHANGED <<agentVars, clientVars, linkUp, serverVars, rowVars, viewerVars,
                 historyVars, boundVars>>

\* latestSequence
LatestSequence == Max(stored \cup {NoChunk})

\* A job that has not ended is asked for what the database lacks.
HandleResume ==
  /\ Handling("resume")
  /\ orders' = IF terminal THEN orders
               ELSE SentToAgent([kind |-> "request", after |-> LatestSequence])
  /\ wire' = Tail(wire)
  /\ UNCHANGED <<agentVars, clientVars, linkUp, serverVars, rowVars, viewerVars,
                 historyVars, boundVars>>

\* relayOutput: broadcast, then enqueuePersist, which flushes a full batch.
HandleOutput ==
  /\ Handling("output")
  /\ LET n == Head(wire).seq
         full == Cardinality(batch \cup {n}) >= BatchLimit
     IN  /\ Broadcast(n)
         /\ batch' = IF full THEN {} ELSE batch \cup {n}
         /\ queue' = IF full THEN Append(queue, Flush("none", batch \cup {n})) ELSE queue
  /\ wire' = Tail(wire)
  /\ UNCHANGED <<agentVars, clientVars, linkUp, orders, rowVars, historyVars, boundVars>>

\* The timer of enqueuePersist.
TimerFlush ==
  /\ batch # {}
  /\ queue' = Append(queue, Flush("none", batch))
  /\ batch' = {}
  /\ UNCHANGED <<agentVars, clientVars, netVars, rowVars, viewerVars, historyVars,
                 boundVars>>

\* job.buffer.sync: persistOutput, which the handler awaits.
HandleSync ==
  /\ Handling("sync")
  /\ queue' = Append(queue, Sync({Head(wire).seq}))
  /\ UNCHANGED <<agentVars, clientVars, netVars, batch, rowVars, viewerVars,
                 historyVars, boundVars>>

\* Mutant: a row that has ended is not flushed any more.
HandleDoneSkipped ==
  /\ Handling("done")
  /\ IF batch = {} \/ terminal
     THEN /\ wire' = <<[kind |-> "ended"]>> \o Tail(wire)
          /\ UNCHANGED serverVars
     ELSE /\ queue' = Append(queue, Flush("frame", batch))
          /\ batch' = {}
          /\ UNCHANGED wire
  /\ UNCHANGED <<agentVars, clientVars, linkUp, orders, rowVars, viewerVars,
                 historyVars, boundVars>>

\* job.completed, job.failed, job.cancelled: flushOutput has something to
\* await only if a batch is pending.
HandleDone ==
  /\ Handling("done")
  /\ IF batch = {}
     THEN /\ wire' = <<[kind |-> "ended"]>> \o Tail(wire)
          /\ UNCHANGED serverVars
     ELSE /\ queue' = Append(queue, Flush("frame", batch))
          /\ batch' = {}
          /\ UNCHANGED wire
  /\ UNCHANGED <<agentVars, clientVars, linkUp, orders, rowVars, viewerVars,
                 historyVars, boundVars>>

\* ... then transitionFromAgent, and job.completed even if the row had ended with
\* that status; nobody is told if it had ended with another one.
HandleEnded ==
  /\ Handling("ended")
  /\ reported' = TRUE
  /\ BroadcastDone \/ (early /\ UNCHANGED viewerVars)
  /\ wire' = Tail(wire)
  /\ UNCHANGED <<agentVars, clientVars, linkUp, orders, serverVars, stored, retained,
                 truncated, early, historyVars, boundVars>>

\* requestCancellation of a row read as queued, though job.start was sent: it is
\* written as cancelled and nothing is flushed.  (Written after the agent's report it
\* changes the kind of the end, which JobLifecycle models.)
CancelQueued ==
  /\ ~terminal
  /\ early' = TRUE
  /\ BroadcastDone
  /\ UNCHANGED <<agentVars, clientVars, netVars, serverVars, stored, retained, truncated,
                 reported, historyVars, boundVars>>

\* The dispatch that sendToAgent answers with false though job.start was written: the
\* row is failed, nothing is flushed and no viewer is told.
DispatchFailed ==
  /\ ~terminal
  /\ early' = TRUE
  /\ UNCHANGED <<agentVars, clientVars, netVars, serverVars, stored, retained, truncated,
                 reported, viewerVars, historyVars, boundVars>>

-----------------------------------------------------------------------------
(* The server: persistChunks, serialized per job                           *)

\* Mutant: the loop stops before the row that would reclaim enough.
OldestTooFew(rows, reclaim) == {n \in rows : Bytes[{k \in rows : k <= n}] < reclaim}

\* The loop over the oldest rows stops once enough is reclaimed: a row goes
\* if the ones older than it are not enough.
Oldest(rows, reclaim) == {n \in rows : Bytes[{k \in rows : k < n}] < reclaim}

Removed(rows, projected) ==
  IF projected > MaximumOutputBytes THEN Oldest(rows, projected - MaximumOutputBytes) ELSE {}

\* The handler that awaited operation op goes on.
Resumed(op) ==
  /\ wire' = CASE op.waiter # "frame" -> wire
               [] op.waiter = "frame" /\ op.sync -> Tail(wire)
               [] OTHER -> <<[kind |-> "ended"]>> \o Tail(wire)
  /\ queue' = Tail(queue)

\* The transaction commits; persistOutput then broadcasts what was new and is
\* retained.
Persist ==
  /\ queue # <<>>
  /\ LET op == Head(queue)
         new == op.chunks \ stored
         projected == retained + Bytes[new]
         removed == IF new = {} THEN {} ELSE Removed(stored \cup new, projected)
     IN  /\ stored' = (stored \cup new) \ removed
         /\ retained' = projected - Bytes[removed]
         /\ truncated' = (truncated \/ removed # {})
         /\ evicted' = evicted \cup removed
         /\ lost' = lost \ op.chunks
         /\ Resumed(op)
         /\ CASE op.waiter = "viewer" ->
                   /\ vPc' = "flag"
                   /\ UNCHANGED <<vAfter, vStatus, vFlag, vSnap, vQueue, vDone, vLast,
                                  vBatch, vSeen, vOvertaken>>
              [] op.waiter = "frame" /\ op.sync /\ new \ removed # {} ->
                   Broadcast(CHOOSE n \in new : TRUE)
              [] OTHER -> UNCHANGED viewerVars
  /\ UNCHANGED <<agentVars, clientVars, linkUp, orders, batch, reported, early, unseen,
                 boundVars>>

\* The transaction fails.  flushPersist logs the error and the chunks are
\* gone; a failed sync closes the agent's socket.
PersistFails ==
  /\ queue # <<>>
  /\ failures < MaxFailures
  /\ failures' = failures + 1
  /\ LET op == Head(queue) IN
       /\ Resumed(op)
       /\ lost' = IF op.sync THEN lost ELSE lost \cup (op.chunks \ stored)
       /\ linkUp' = (linkUp /\ ~op.sync)
       /\ vPc' = IF op.waiter = "viewer" THEN "flag" ELSE vPc
  /\ UNCHANGED <<agentVars, clientVars, orders, batch, rowVars, vAfter, vStatus, vFlag,
                 vSnap, vQueue, vDone, vLast, vBatch, vSeen, vOvertaken, evicted, unseen, drops,
                 restarts, views>>

-----------------------------------------------------------------------------
(* The viewer's subscription                                               *)

\* The viewer opens its socket and subscribes above its high-water mark; the
\* server reads the job.
Subscribe ==
  /\ vPc = "away"
  /\ views < MaxViews
  /\ views' = views + 1
  /\ vPc' = "open"
  /\ vStatus' = terminal
  /\ vAfter' = vLast
  /\ vBatch' = 0
  /\ UNCHANGED <<agentVars, clientVars, netVars, serverVars, rowVars, vFlag, vSnap,
                 vQueue, vDone, vLast, vSeen, vOvertaken, historyVars, drops, failures, restarts>>

\* The viewer subscribes for the next page.
SubscribeAgain ==
  /\ vPc = "again"
  /\ vPc' = "reopen"
  /\ vStatus' = terminal
  /\ UNCHANGED <<agentVars, clientVars, netVars, serverVars, rowVars, vAfter, vFlag,
                 vSnap, vQueue, vDone, vLast, vBatch, vSeen, vOvertaken, historyVars, boundVars>>

\* beginSubscription, and flushOutput: there is something to await only if a
\* batch is pending.
BeginSubscription ==
  /\ vPc \in {"open", "reopen"}
  /\ IF batch = {}
     THEN vPc' = "flag" /\ UNCHANGED serverVars
     ELSE /\ vPc' = "flush"
          /\ queue' = Append(queue, Flush("viewer", batch))
          /\ batch' = {}
  /\ vQueue' = <<>>
  /\ vDone' = FALSE
  /\ UNCHANGED <<agentVars, clientVars, netVars, rowVars, vAfter, vStatus, vFlag, vSnap,
                 vLast, vBatch, vSeen, vOvertaken, historyVars, boundVars>>

\* replay reads outputTruncated,
ReplayFlag ==
  /\ vPc = "flag"
  /\ vFlag' = truncated
  /\ vPc' = "read"
  /\ UNCHANGED <<agentVars, clientVars, netVars, serverVars, rowVars, vAfter, vStatus,
                 vSnap, vQueue, vDone, vLast, vBatch, vSeen, vOvertaken, historyVars, boundVars>>

\* the first ReplayLimit rows above afterSequence,
ReplayRead ==
  /\ vPc = "read"
  /\ LET rows == {n \in stored : n > vAfter}
     IN  vSnap' = {n \in rows : Cardinality({k \in rows : k < n}) < ReplayLimit}
  /\ unseen' = unseen \cup InFlight
  /\ vPc' = "send"
  /\ UNCHANGED <<agentVars, clientVars, netVars, serverVars, rowVars, vAfter, vStatus,
                 vFlag, vQueue, vDone, vLast, vBatch, vSeen, vOvertaken, evicted, lost, boundVars>>

\* and the earliest row, for the sequence of the truncation notice.
Notice ==
  LET earliest == IF stored = {} THEN 1 ELSE Min(stored)
      sequence == IF earliest = 0 THEN 0 ELSE earliest - 1
  IN  IF vFlag /\ vAfter < sequence THEN {sequence} ELSE {}

\* The notice, the rows, the status and the queued messages follow each other
\* to the viewer.  The viewer asks for another page if it took a full batch; but a
\* terminal status disables its hook at the next rendering, before or after the
\* queued messages and whether or not there are more pages.  The notice is of a
\* later read than the rows: it may hide so many of a full page that the viewer
\* does not ask for the next one.
ReplaySend ==
  /\ vPc = "send"
  /\ \E heard \in {TRUE, ~vStatus} :
     LET noticed == {n \in Notice : n > vLast}
         mark == Max(noticed \cup {vLast})
         rows == {n \in vSnap : n > mark}
         took == vBatch + Cardinality(noticed) + Cardinality(rows)
         more == took >= ReplayLimit
         last == Max(rows \cup {mark})
         queued == IF heard THEN Accepted(vQueue, last) ELSE {}
     IN  /\ vSeen' = vSeen \cup rows \cup queued
         /\ vLast' = Max(queued \cup {last})
         /\ vAfter' = IF more THEN last ELSE vAfter
         /\ vBatch' = IF more THEN Cardinality(queued) ELSE NoChunk
         /\ vPc' = CASE vDone \/ vStatus -> "ended"
                     [] ~vDone /\ ~vStatus /\ more -> "again"
                     [] OTHER -> "live"
         /\ vOvertaken' = \/ vOvertaken
                          \/ more /\ (queued # {} \/ vDone \/ vStatus)
                          \/ ~more /\ Cardinality(vSnap) >= ReplayLimit
  /\ vQueue' = <<>>
  /\ vSnap' = {}
  /\ UNCHANGED <<agentVars, clientVars, netVars, serverVars, rowVars, vStatus, vFlag,
                 vDone, historyVars, boundVars>>

\* The viewer's socket fails, or the server closes it (backlog); a handler of
\* its subscription goes on to no effect.
ViewerDrop ==
  /\ vPc \notin {"away", "ended"}
  /\ vPc' = "away"
  /\ vBatch' = NoChunk
  /\ vSnap' = {}
  /\ vQueue' = <<>>
  /\ vDone' = FALSE
  /\ queue' = [i \in DOMAIN queue |->
       IF queue[i].waiter = "viewer" THEN Flush("none", queue[i].chunks) ELSE queue[i]]
  /\ UNCHANGED <<agentVars, clientVars, netVars, batch, rowVars, vAfter, vStatus, vFlag,
                 vLast, vSeen, vOvertaken, historyVars, boundVars>>

-----------------------------------------------------------------------------
(* Failures                                                                *)

\* The agent's connection fails: frames in transit are lost, a suffix that
\* leaves the one whose handler is under way.
NetworkDrop ==
  /\ linkUp
  /\ drops + restarts < MaxFaults
  /\ drops' = drops + 1
  /\ linkUp' = FALSE
  /\ orders' = <<>>
  /\ \E k \in 0..Len(wire) :
       /\ k = 0 => wire = <<>> \/ ~(FrameWaits \/ HeadIs("resume") \/ HeadIs("ended"))
       /\ wire' = SubSeq(wire, 1, k)
  /\ UNCHANGED <<agentVars, clientVars, serverVars, rowVars, viewerVars, historyVars,
                 failures, restarts, views>>

\* The server restarts: what it holds in memory is gone, and so are its sockets.
ServerRestart ==
  /\ drops + restarts < MaxFaults
  /\ restarts' = restarts + 1
  /\ linkUp' = FALSE
  /\ orders' = <<>>
  /\ wire' = <<>>
  /\ batch' = {}
  /\ queue' = <<>>
  /\ vPc' = IF vPc = "ended" THEN vPc ELSE "away"
  /\ vBatch' = NoChunk
  /\ vQueue' = <<>>
  /\ vSnap' = {}
  /\ vDone' = FALSE
  /\ UNCHANGED <<agentVars, clientVars, rowVars, vAfter, vStatus, vFlag, vLast, vSeen, vOvertaken,
                 historyVars, drops, failures, views>>

-----------------------------------------------------------------------------
Agent ==
  \/ \E s \in Stream : Emit(s)
  \/ \E s \in Stream : EmitSend(s)
  \/ Finish
  \/ FinishSend
  \/ Dial
  \/ Welcomed
  \/ ReconcileAll
  \/ BufferRequest
  \/ LoopSend
  \/ ConnectionLost

Server ==
  \/ HandleHello
  \/ HandleResume
  \/ HandleOutput
  \/ TimerFlush
  \/ HandleSync
  \/ HandleDone
  \/ HandleEnded
  \/ CancelQueued
  \/ DispatchFailed
  \/ Persist
  \/ PersistFails

Viewer ==
  \/ Subscribe
  \/ SubscribeAgain
  \/ BeginSubscription
  \/ ReplayFlag
  \/ ReplayRead
  \/ ReplaySend
  \/ ViewerDrop

Next == Agent \/ Server \/ Viewer \/ NetworkDrop \/ ServerRestart

Spec == Init /\ [][Next]_vars

-----------------------------------------------------------------------------
(* Properties                                                              *)

AgentType ==
  /\ next \in 0..MaxChunks
  /\ ringLow \in 0..next
  /\ held \in [Stream -> Chunk \cup {NoChunk}]
  /\ runPc \in {"read", "send", "end"}
  /\ phase \in {"offline", "dialing", "welcomed", "online"}
  /\ loopOut \in Seq(Frame)

NetType ==
  /\ linkUp \in BOOLEAN
  /\ orders \in Seq(Order)
  /\ wire \in Seq(Frame)

ServerType ==
  /\ batch \in SUBSET Chunk
  /\ queue \in Seq(Operation)

RowType ==
  /\ stored \in SUBSET Chunk
  /\ retained \in Nat
  /\ truncated \in BOOLEAN
  /\ reported \in BOOLEAN
  /\ early \in BOOLEAN

ViewerType ==
  /\ vPc \in {"away", "again", "open", "reopen", "flush", "flag", "read", "send",
              "live", "ended"}
  /\ vAfter \in Chunk \cup {NoChunk}
  /\ vStatus \in BOOLEAN
  /\ vFlag \in BOOLEAN
  /\ vSnap \in SUBSET Chunk
  /\ vQueue \in Seq(Chunk)
  /\ vDone \in BOOLEAN
  /\ vLast \in Chunk \cup {NoChunk}
  /\ vBatch \in Nat \cup {NoChunk}
  /\ vSeen \in SUBSET Chunk
  /\ vOvertaken \in BOOLEAN

HistoryType ==
  /\ evicted \in SUBSET Chunk
  /\ lost \in SUBSET Chunk
  /\ unseen \in SUBSET Chunk

\* The values the agent's buffer, the server's maps, the job's rows and the
\* viewer's refs may hold: no frame names a chunk beyond the last one, and the
\* running total of persistChunks never falls below zero.
TypeOK == AgentType /\ NetType /\ ServerType /\ RowType /\ ViewerType /\ HistoryType

\* retainedOutputBytes, kept as a running total by persistChunks, is exactly
\* the length of the rows it stands for, and never above the limit.
RetentionExact ==
  retained = Bytes[stored] /\ retained <= MaximumOutputBytes

\* The agent is connected and everything it sent has been handled.
Quiescent ==
  /\ phase = "online"
  /\ linkUp
  /\ loopOut = <<>> /\ orders = <<>> /\ wire = <<>>
  /\ batch = {} /\ queue = <<>>
  /\ \A s \in Stream : held[s] = NoChunk

\* services/jobs.ts: "the agent's own replay buffer backstops that gap on
\* reconnect".  Whatever connections and server restarts lost, once the agent is
\* connected and all is handled the database has every chunk of its buffer, but
\* for those retention removed and those of a flush the database refused.
BufferBackstops ==
  Quiescent => Ring \subseteq stored \cup evicted \cup lost

\* services/jobs.ts: flushOutput is called "so a viewer that loads after the job
\* finishes still replays the complete output".  On an undisturbed connection, once
\* the agent's report of the end has been handled every chunk is a row, or inside an
\* operation that has yet to end: also when the row had ended before, by the
\* cancellation of a queued job or a failed dispatch, which flush nothing.
ReportedFlushed ==
  reported /\ drops = 0 /\ restarts = 0 =>
    0..next-1 \subseteq stored \cup evicted \cup lost \cup InFlight

\* What a viewer of an undisturbed connection has not been shown below its
\* high-water mark, or at all once it was told of the end the agent reported, was
\* inside an unfinished operation when its replay read the rows, or was removed by
\* retention or refused by the database; unless live output or the end of the job
\* reached it before the last page of a long replay, or retention removed rows of
\* a full page while that page was replayed.  (A row that was ended early may end
\* for the viewer while its agent still prints.)
ViewerMissesOnlyInFlight ==
  drops = 0 /\ restarts = 0 /\ ~vOvertaken =>
    0..(IF vPc = "ended" /\ ~early THEN next - 1 ELSE vLast)
      \subseteq vSeen \cup unseen \cup evicted \cup lost
=============================================================================
