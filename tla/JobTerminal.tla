---------------------------- MODULE JobTerminal ----------------------------
(***************************************************************************)
(* An interactive job in a browser window: the page that shows its status, *)
(* types into its terminal and gives it the window's size (JobPage,        *)
(* useJobSocket, TerminalView), its sockets, the server's handlers of      *)
(* these, and the agent's session at the other end.                        *)
(*                                                                         *)
(* The effect of useJobSocket depends on job.status: a change of the       *)
(* status the page knows, from the stream or from a refetch, disposes the  *)
(* socket and opens another.  The output the sockets carry is in           *)
(* OutputPipeline; the agent stays connected here (see JobLifecycle and    *)
(* ConnectionHub), and takes what the server sends it at once.             *)
(***************************************************************************)
EXTENDS Naturals, Sequences, FiniteSets

CONSTANTS
  Socket,      \* bound: the sockets the window has at a time
  Size,        \* sizes of the window
  Default,     \* the size job.start asks for: 80 x 24
  NoSize,
  NoSocket,
  NoStatus,
  MaxMounts,   \* bound: times the page is loaded
  MaxInputs,   \* bound: keystrokes
  MaxEvents    \* bound: refetches, changes of the window's size, sockets that fail, and
               \* times the browser goes offline or the process waits, taken together

ASSUME TerminalAssumption ==
  /\ Default \notin Size
  /\ NoSize \notin Size \cup {Default}
  /\ NoSocket \notin Socket
  /\ NoStatus \notin {"queued", "running", "waiting_for_input", "ended"}
  /\ {MaxMounts, MaxInputs, MaxEvents} \subseteq Nat

VARIABLES
  \* the agent's session
  pty,        \* "none" before the process starts, "up", "down"
  size,       \* of the pseudo-terminal
  lastInput,
  written,    \* input written to the terminal: <<mount, number>>
  \* the server
  row,        \* Job.status
  told,       \* status the row has and the subscribers have not been sent
  chain,      \* [Socket -> frames of the browser not yet handled]
  read,       \* [Socket -> the status a subscribe handler has read]
  subscribed, \* sockets with a subscription
  \* the browser
  mount,      \* how often the page was loaded; 0 before
  status,     \* job.status as the page knows it
  fetch,      \* the status a refetch is about to deliver
  online,     \* navigator.onLine
  sock,       \* [Socket -> its state, and whether its effect is current]
  ref,        \* socketRef
  timer,      \* a reconnect timer is set
  down,       \* [Socket -> statuses sent to the browser]
  window,     \* latestSizeRef
  typed,      \* keystrokes since the page was loaded
  \* history and bounds
  flapped,    \* the browser was online again before the old socket had closed
  deaf,       \* the agent ignored input of the page last loaded
  outrun,     \* the last size the terminal was given came over a socket that the
              \* page had replaced by then
  inputs, events

agentVars   == <<pty, size, lastInput, written>>
serverVars  == <<row, told, read, subscribed>>
socketVars  == <<sock, ref, timer>>
pageVars    == <<mount, status, fetch, online, window, typed>>
historyVars == <<flapped, deaf, outrun>>
boundVars   == <<inputs, events>>
vars == <<agentVars, serverVars, chain, down, socketVars, pageVars, historyVars, boundVars>>

\* "queued" stands for dispatched too, "ended" for the three terminal statuses.
Running == {"running", "waiting_for_input"}
Active == {"queued"} \cup Running
Statuses == Active \cup {"ended"}
Frames == [kind : {"subscribe"}] \cup [kind : {"resize"}, to : Size]
            \cup [kind : {"input"}, mount : 1..MaxMounts, n : 1..MaxInputs]
Connected == {"connecting", "open"}
Gone == [state |-> "closed", current |-> FALSE]

SocketRecord == [state : Connected \cup {"closing", "closed"}, current : BOOLEAN]

AgentType ==
  /\ pty \in {"none", "up", "down"}
  /\ size \in Size \cup {Default}
  /\ lastInput \in Nat
  /\ written \in Seq((1..MaxMounts) \X (1..MaxInputs))

WireType ==
  /\ row \in Statuses
  /\ told \in Statuses \cup {NoStatus}
  /\ chain \in [Socket -> Seq(Frames)]
  /\ read \in [Socket -> Statuses \cup {NoStatus}]
  /\ subscribed \subseteq Socket
  /\ down \in [Socket -> Seq(Statuses)]

\* A subscribe handler under way is that of the frame at the head.
HandlerType ==
  \A s \in Socket : read[s] # NoStatus => chain[s] # <<>> /\ Head(chain[s]).kind = "subscribe"

\* ref names a socket of the effect that is not closed; there is none before the
\* page is loaded.
SocketType ==
  /\ sock \in [Socket -> SocketRecord]
  /\ \A s \in Socket : sock[s].state # "closed" => mount > 0
  /\ ref \in Socket \cup {NoSocket}
  /\ ref # NoSocket => sock[ref].current /\ sock[ref].state # "closed"

\* Nothing is known of the job, or asked, before the page is loaded.
PageType ==
  /\ mount \in 0..MaxMounts
  /\ status \in Statuses \cup {NoStatus}
  /\ status # NoStatus <=> mount > 0
  /\ fetch \in Statuses \cup {NoStatus}
  /\ fetch # NoStatus => mount > 0
  /\ online \in BOOLEAN
  /\ window \in Size \cup {NoSize}
  /\ typed \in 0..inputs
  /\ inputs \in 0..MaxInputs

TypeOK ==
  /\ AgentType
  /\ WireType
  /\ HandlerType
  /\ SocketType
  /\ PageType
  /\ timer \in BOOLEAN
  /\ timer => status \in Active
  /\ {flapped, deaf, outrun} \subseteq BOOLEAN

Init ==
  /\ pty = "none"
  /\ size = Default
  /\ lastInput = 0
  /\ written = <<>>
  /\ row = "queued"
  /\ told = NoStatus
  /\ chain = [s \in Socket |-> <<>>]
  /\ read = [s \in Socket |-> NoStatus]
  /\ subscribed = {}
  /\ mount = 0
  /\ status = NoStatus
  /\ fetch = NoStatus
  /\ online = TRUE
  /\ sock = [s \in Socket |-> Gone]
  /\ ref = NoSocket
  /\ timer = FALSE
  /\ down = [s \in Socket |-> <<>>]
  /\ window = NoSize
  /\ typed = 0
  /\ flapped = FALSE
  /\ deaf = FALSE
  /\ outrun = FALSE
  /\ inputs = 0 /\ events = 0

Occurs == events < MaxEvents /\ events' = events + 1

-----------------------------------------------------------------------------
(* The agent's session and the row that follows it.                        *)

\* Session.run: the process starts, waits for input or no longer, or ends, and transitionFromAgent
\* updates the row ...
Session(next) ==
  /\ told = NoStatus
  /\ \/ next = "running" /\ pty = "none" /\ pty' = "up" /\ UNCHANGED events
     \/ next = "waiting_for_input" /\ row = "running" /\ Occurs /\ UNCHANGED pty
     \/ next = "running" /\ row = "waiting_for_input" /\ UNCHANGED <<pty, events>>
     \/ next = "ended" /\ pty = "up" /\ pty' = "down" /\ UNCHANGED events
  /\ row' = next
  /\ told' = next
  /\ UNCHANGED <<size, lastInput, written, read, subscribed, chain, down, socketVars,
                 pageVars, historyVars, inputs>>

\* ... and then broadcasts the status to the sockets subscribed by then.  (The
\* job.completed or job.failed that follows the last one repeats it.)
BroadcastJob ==
  /\ told # NoStatus
  /\ down' = [s \in Socket |-> IF s \in subscribed /\ sock[s].state = "open"
                               THEN Append(down[s], told) ELSE down[s]]
  /\ told' = NoStatus
  /\ UNCHANGED <<agentVars, row, read, subscribed, chain, socketVars, pageVars, historyVars,
                 boundVars>>

\* Mutant: input is numbered from the same seed each time.
SeedConstant(m) == 0

\* The seed is of the time at which the page is loaded, in microseconds: above all
\* that the page used before.
createInputSequenceSeed(m) == (MaxInputs + 1) * m

Number(f) == createInputSequenceSeed(f.mount) + f.n

\* Mutant: any input is written.
StaleNever(f) == FALSE

\* sequence <= lastInput
Stale(f) == Number(f) <= lastInput

\* Session.writeInput: stale input is acknowledged and dropped.
writeInput(f) ==
  /\ IF ~Stale(f) /\ pty = "up"
     THEN /\ written' = Append(written, <<f.mount, f.n>>)
          /\ lastInput' = Number(f)
     ELSE UNCHANGED <<written, lastInput>>
  /\ deaf' = (deaf \/ /\ Stale(f)
                      /\ f.mount = mount
                      /\ \A i \in DOMAIN written : written[i][1] = mount => written[i][2] < f.n)

\* Session.resize: without a terminal the size is not kept.
resize(to) == size' = IF pty = "up" THEN to ELSE size

-----------------------------------------------------------------------------
(* The server's handlers of a socket, one frame at a time.                 *)

HeadIs(s, kind) == chain[s] # <<>> /\ Head(chain[s]).kind = kind

\* job.subscribe: the job is read,
SubscribeRead(s) ==
  /\ HeadIs(s, "subscribe")
  /\ read[s] = NoStatus
  /\ read' = [read EXCEPT ![s] = row]
  /\ UNCHANGED <<agentVars, row, told, subscribed, chain, down, socketVars, pageVars,
                 historyVars, boundVars>>

\* the subscription begun, the output replayed, and the status that was read is
\* sent; what is broadcast during the replay follows it.
SubscribeFinish(s) ==
  /\ read[s] # NoStatus
  /\ IF sock[s].state = "open"
     THEN /\ subscribed' = subscribed \cup {s}
          /\ down' = [down EXCEPT ![s] = Append(@, read[s])]
     ELSE UNCHANGED <<subscribed, down>>
  /\ read' = [read EXCEPT ![s] = NoStatus]
  /\ chain' = [chain EXCEPT ![s] = Tail(@)]
  /\ UNCHANGED <<agentVars, row, told, socketVars, pageVars, historyVars, boundVars>>

\* forwardInput: input for a finished job is an error, which closes the socket.
forwardInput(s) ==
  /\ HeadIs(s, "input")
  /\ IF row = "ended"
     THEN /\ sock' = [sock EXCEPT ![s].state = IF @ = "open" THEN "closing" ELSE @]
          /\ UNCHANGED <<written, lastInput, deaf>>
     ELSE writeInput(Head(chain[s])) /\ UNCHANGED sock
  /\ chain' = [chain EXCEPT ![s] = Tail(@)]
  /\ UNCHANGED <<pty, size, serverVars, down, ref, timer, pageVars, flapped,
                 outrun, boundVars>>

\* forwardResize: a size for a finished job is dropped.
forwardResize(s) ==
  /\ HeadIs(s, "resize")
  /\ IF row = "ended" THEN UNCHANGED size ELSE resize(Head(chain[s]).to)
  /\ outrun' = IF pty = "up" THEN ref # s ELSE outrun
  /\ chain' = [chain EXCEPT ![s] = Tail(@)]
  /\ UNCHANGED <<pty, lastInput, written, serverVars, down, socketVars, pageVars, flapped, deaf,
                 boundVars>>

-----------------------------------------------------------------------------
(* The socket of the page: the effect of useJobSocket.                     *)

\* A closed socket whose frames the server has worked off stands for a new one.
Unused == {s \in Socket : sock[s].state = "closed" /\ chain[s] = <<>>}

\* connect: a new socket, in the place of whatever ref names, unless the job has
\* ended or the browser is offline.
Connect(known, sockets) ==
  IF known \in Active /\ online'
  THEN \E s \in Unused :
         /\ sock' = [sockets EXCEPT ![s] = [state |-> "connecting", current |-> TRUE]]
         /\ ref' = s
  ELSE sock' = sockets /\ UNCHANGED ref

\* The cleanup of the effect: its sockets are disposed and the one that ref names
\* is closed.
Disposed ==
  [s \in Socket |->
    [sock[s] EXCEPT !.current = FALSE,
                    !.state = IF s = ref /\ @ \in Connected THEN "closing" ELSE @]]

\* Mutant: the effect does not depend on job.status.
Independent(known) == known \in Active

\* The dependencies of the effect are as they were.
Unaffected(known) == known = status

\* The page learns a status: the effect runs anew if that changed what it knew.
Learn(known) ==
  /\ status' = known
  /\ IF Unaffected(known) THEN UNCHANGED socketVars
     ELSE /\ timer' = FALSE
          /\ IF known \in Active /\ online THEN Connect(known, Disposed)
             ELSE sock' = Disposed /\ ref' = NoSocket

\* The page is loaded, or loaded again: the job is fetched, the effect run.
Mount ==
  /\ mount < MaxMounts
  /\ row # "ended"
  /\ mount' = mount + 1
  /\ typed' = 0
  /\ status' = row
  /\ fetch' = NoStatus
  /\ window' = NoSize
  /\ timer' = FALSE
  /\ online' = TRUE
  /\ Connect(row, Disposed)
  /\ UNCHANGED <<agentVars, serverVars, chain, down, historyVars, boundVars>>

\* socket.onopen: subscribe, and report the size if there is one.
OnOpen(s) ==
  /\ sock[s] = [state |-> "connecting", current |-> TRUE]
  /\ sock' = [sock EXCEPT ![s].state = "open"]
  /\ chain' = [chain EXCEPT ![s] = <<[kind |-> "subscribe"]>> \o
       IF window = NoSize THEN <<>> ELSE <<[kind |-> "resize", to |-> window]>>]
  /\ UNCHANGED <<agentVars, serverVars, down, ref, timer, pageVars, historyVars, boundVars>>

\* socket.onopen of a socket whose effect was disposed meanwhile.
OnOpenDisposed(s) ==
  /\ sock[s] = [state |-> "connecting", current |-> FALSE]
  /\ sock' = [sock EXCEPT ![s].state = "closing"]
  /\ UNCHANGED <<agentVars, serverVars, chain, down, ref, timer, pageVars, historyVars, boundVars>>

\* socket.onmessage with a status.
OnStatus(s) ==
  /\ down[s] # <<>>
  /\ down' = [down EXCEPT ![s] = Tail(@)]
  /\ UNCHANGED online
  /\ IF sock[s].current /\ sock[s].state = "open" THEN Learn(Head(down[s]))
     ELSE UNCHANGED <<status, socketVars>>
  /\ UNCHANGED <<agentVars, serverVars, chain, mount, fetch, window, typed, historyVars, boundVars>>

\* Mutant: the socket is remembered.
RefKept(s) == ref

\* socket.onclose forgets the socket, if it is still the current one.
RefAfterClose(s) == IF ref = s THEN NoSocket ELSE ref

\* The socket fails, and what is on it is lost, or is closed once its frames have
\* reached the server: socket.onclose, scheduleReconnect, and detachClient.
OnClose(s) ==
  /\ \/ sock[s].state = "closing" /\ UNCHANGED <<chain, events>>
     \/ /\ sock[s].state \in Connected
        /\ Occurs
        /\ \E n \in 0..Len(chain[s]) :
             /\ read[s] # NoStatus => n > 0
             /\ chain' = [chain EXCEPT ![s] = SubSeq(@, 1, n)]
  /\ sock' = [sock EXCEPT ![s] = Gone]
  /\ ref' = RefAfterClose(s)
  /\ timer' = (timer \/ (sock[s].current /\ status \in Active /\ online))
  /\ subscribed' = subscribed \ {s}
  /\ down' = [down EXCEPT ![s] = <<>>]
  /\ UNCHANGED <<agentVars, row, told, read, pageVars, historyVars, inputs>>

\* scheduleReconnect's timer
Reconnect ==
  /\ timer
  /\ timer' = FALSE
  /\ UNCHANGED online
  /\ Connect(status, sock)
  /\ UNCHANGED <<agentVars, serverVars, chain, down, mount, status, fetch, window, typed,
                 historyVars, boundVars>>

\* Mutant: the timer goes on.
TimerKept == timer

\* clearReconnectTimer in onOffline
TimerCleared == FALSE

\* The browser's offline event: the socket is closed.
OnOffline ==
  /\ mount > 0
  /\ online
  /\ Occurs
  /\ online' = FALSE
  /\ timer' = TimerCleared
  /\ sock' = IF ref = NoSocket THEN sock ELSE [sock EXCEPT ![ref].state = "closing"]
  /\ UNCHANGED <<agentVars, serverVars, chain, down, ref, mount, status, fetch, window, typed,
                 historyVars, inputs>>

\* The online event: connect, for the socket ref names is not open.
OnOnline ==
  /\ ~online
  /\ online' = TRUE
  /\ Connect(status, sock)
  /\ flapped' = (flapped \/ ref # NoSocket)
  /\ UNCHANGED <<agentVars, serverVars, chain, down, timer, mount, status, fetch, window, typed,
                 deaf, outrun, boundVars>>

-----------------------------------------------------------------------------
(* The page.                                                               *)

\* The job is polled every 30 seconds, and refetched when it is invalidated: the
\* row is read ...
Refetch ==
  /\ mount > 0
  /\ online
  /\ fetch = NoStatus
  /\ Occurs
  /\ fetch' = row
  /\ UNCHANGED <<agentVars, serverVars, chain, down, socketVars, mount, status, online, window,
                 typed, historyVars, inputs>>

\* ... and the answer, by then perhaps an old one, is what the page knows.
Fetched ==
  /\ fetch # NoStatus
  /\ UNCHANGED online
  /\ Learn(fetch)
  /\ fetch' = NoStatus
  /\ UNCHANGED <<agentVars, serverVars, chain, down, mount, window, typed, historyVars, boundVars>>

\* send: nothing is kept for a socket that is not open.
Sent(frame) ==
  IF ref # NoSocket /\ sock[ref].state = "open"
  THEN [chain EXCEPT ![ref] = Append(@, frame)] ELSE chain

\* sendInput: the number is used up whether or not the input is sent.
Type ==
  /\ status \in Running
  /\ inputs < MaxInputs
  /\ inputs' = inputs + 1
  /\ typed' = typed + 1
  /\ chain' = Sent([kind |-> "input", mount |-> mount, n |-> typed + 1])
  /\ UNCHANGED <<agentVars, serverVars, down, socketVars, mount, status, fetch, online, window,
                 historyVars, events>>

\* fitAndReport and sendResize
Resize(to) ==
  /\ mount > 0
  /\ Occurs
  /\ window' = to
  /\ chain' = Sent([kind |-> "resize", to |-> to])
  /\ UNCHANGED <<agentVars, serverVars, down, socketVars, mount, status, fetch, online, typed,
                 historyVars, inputs>>

-----------------------------------------------------------------------------

Next ==
  \/ \E next \in Running \cup {"ended"} : Session(next)
  \/ BroadcastJob
  \/ \E s \in Socket : \/ SubscribeRead(s) \/ SubscribeFinish(s) \/ forwardInput(s) \/ forwardResize(s)
                       \/ OnOpen(s) \/ OnOpenDisposed(s) \/ OnStatus(s) \/ OnClose(s)
  \/ Mount \/ Reconnect \/ OnOffline \/ OnOnline
  \/ Refetch \/ Fetched \/ Type
  \/ \E to \in Size : Resize(to)

Spec == Init /\ [][Next]_vars

-----------------------------------------------------------------------------

\* What the terminal is sent is in the order in which it was typed, and nothing
\* twice, although the page's next socket may overtake the one it replaces.
InputInOrder ==
  \A i, j \in DOMAIN written :
    i < j => \/ written[i][1] < written[j][1]
             \/ written[i][1] = written[j][1] /\ written[i][2] < written[j][2]

\* useJobSocket: the seed "keeps a newly opened browser's input above sequences
\* acknowledged in an earlier browser session": the agent takes no input of the
\* page last loaded for a repetition, unless later input of that page overtook it.
NewestHeard == ~deaf

\* The window has one socket at most, and every other one it opened is being
\* closed, unless the browser was online again before the close event of the old.
OneSocket ==
  ~flapped => \A s \in Socket : sock[s].state \in Connected => ref = s

\* Nothing about the job's status or its size is on its way.
Quiet == told = NoStatus /\ \A s \in Socket : chain[s] = <<>> /\ down[s] = <<>>

\* When the page is connected to a running job and all is quiet the terminal has
\* the window's size, also if that was sent before there was a terminal to give it
\* to: the change of status makes the page connect, and send it, again.  The sizes
\* are not numbered: one sent over a socket that the page has replaced since, and
\* handled after the size sent over the next, is the one that stays.
SizeAgrees ==
  /\ Quiet
  /\ pty = "up" /\ status = row
  /\ window # NoSize
  /\ ref # NoSocket /\ sock[ref].state = "open"
  => size = window \/ outrun
=============================================================================
