# RelayDock: TLA+ verification

RelayDock lets a browser start commands on a user's own machine. A Go **agent**
runs on the machine and keeps one WebSocket to a Node **server**; the server keeps
jobs and their output in PostgreSQL and relays output to **browsers**, each with a
WebSocket of its own. This directory models the parts of the system that run against
each other: the life of a job and the way of its output, the connections of an agent
to one or several servers, the terminal in a browser window, the life of a device and
of a repository, and the push subscription of a shared browser.

## Inventory

| Component | State | Operations | Hard behaviour | What makes it correct |
|---|---|---|---|---|
| Job status machine (`packages/shared`) | the transition table | `canTransitionJob` | – | terminal statuses have no successor |
| Job service, status (`services/jobs.ts`, `routes/jobs.ts`) | the job row | create, dispatch, `transitionFromAgent`, `requestCancellation` | every handler reads the row, awaits, and writes it by id; handlers interleave | the row tells the outcome the session had; cancellations end jobs; terminal is final |
| Job service, output (`services/jobs.ts`) | `pendingPersist`, `outputQueues`, chunk rows, `retainedOutputBytes` | relay, batch, flush, sync, evict, replay | live relay ahead of persistence, flushes in flight, failed transactions, restarts | exact retention, nothing lost that the agent still has, complete replays |
| Agent endpoint (`routes/websockets.ts`) | promise chain per socket, `helloReceived` | hello, job frames, close handler | old and new sockets of one device overlap | no job is forgotten when its agent goes; no revoked device is served |
| Connection hub (`services/connections.ts`) | sockets by device, subscriptions, Redis presence, relayed sends | attach, detach, heartbeat, send, close, broadcast, relay, shutdown | replaced connections; several instances, lost acknowledgements, crashes | a message is delivered as the answer says, never to a replaced connection; a dead owner lapses |
| Validation broker and repositories (`services/connections.ts`, `routes/repositories.ts`, `internal/repository`) | pending requests and timers, the row, the agent's registry | create, patch, delete, request, settle, cancel | timeout against late answer, two requests for one repository, answers that name no request | only validated paths are enabled; row and registry agree; every request ends |
| Devices (`routes/devices.ts`, `services/maintenance.ts`, `DevicesPage.tsx`) | pairing codes, the device row, its repositories and jobs, the page's cached list | pair, rename, revoke, delete, clean up | requests overlap a revocation, handlers outlive connections, cached lists arrive late | a code is claimed once; a deletion is complete and stays; online means attached |
| Agent client (`internal/client`) | the connection | dial, hello, welcome, read loop, `Send` | `Send` from many goroutines against a failing connection | reconciliation after every reconnection |
| Agent sessions (`internal/session`) | session map, process, flags, last input | start, run, cancel, finish, reconcile, input, resize | read loop against `Session.run` | cancellation reaches the process; the report is repeated until heard |
| Replay buffer (`internal/replay`) | bounded ring of chunks | `Add`, `After` | two limits at once | keeps the newest chunks |
| Browser stream (`useJobSocket.ts`, `JobPage.tsx`, `TerminalView.tsx`) | sockets, high-water mark, paging counters, input numbers, window size | subscribe, take output, page, reconnect, type, resize | replay pages against live output; a socket replaced at every change of status | no gap below the mark; input in order; the terminal has the window's size |
| Push and web sessions (`useWebPush.ts`, `routes/push.ts`, `services/push.ts`, `services/sessions.ts`, `routes/auth.ts`) | the browser's subscription, rows, cookie, session | sign in, sign out, expire, init, enable, disable, subscribe, evict, prune | page tasks overlap each other and the end of a session; two users of one browser | nobody gets another's notifications; on means delivered |
| Installer, configuration, other pages | files, queries | sequential I/O | none | see `PROJECT.json` |

The agent talks to the server in frames (`packages/protocol`); the server handles
the frames of one socket one at a time, but handlers of different sockets and HTTP
requests interleave wherever they await. The agent's read loop, its output readers
and the goroutine of each session interleave at every lock and every `Send`.

## Modules

| Module | Models |
|---|---|
| `JobStatus` | the statuses and the transition table |
| `JobLifecycle` | one job in one server instance: the row, HTTP handlers, agent sockets, the agent's client and session, network failures and restarts of the agent |
| `MCJobLifecycle` | instances for TLC |
| `JobLifecycle_proofs` | types, cancellation and revocation, proved |
| `JobOutcome_proofs` | what the row says of its agent's session: every other safety property of `JobLifecycle`, proved |
| `OutputPipeline` | one job's output: readers, replay buffer, reconnection, relay, batches, serialized persistence, retention, one viewer |
| `MCOutputPipeline` | instances for TLC: the lengths of the chunks |
| `OutputPipeline_proofs` | every property of `OutputPipeline`, proved |
| `AgentDelivery` | what `sendToAgent` promises its callers: the abstract specification of the hub |
| `ConnectionHub`, `MCConnectionHub` | one device's connections on several instances that share a Redis |
| `ConnectionHub_proofs` | types, fresh delivery, honest refusals, routing and the refinement of `AgentDelivery`, proved |
| `RepositoryValidation`, `MCRepositoryValidation` | one repository: its requests, the broker, the agent's registry |
| `RepositoryValidation_proofs` | types, enabled paths, the registry, proved |
| `Devices`, `MCDevices` | pairing, the device's row, revocation, deletion, the devices page, maintenance |
| `Devices_proofs` | every safety property of `Devices`, proved |
| `JobTerminal`, `MCJobTerminal` | an interactive job in a browser window: sockets, status, input, size |
| `JobTerminal_proofs` | every property of `JobTerminal`, proved |
| `Notifications`, `MCNotifications` | the push subscription of a browser that two users share, and their sessions |
| `Notifications_proofs` | every property of `Notifications`, proved |

The modules meet in the code they share and not in a common state: `JobLifecycle`,
`OutputPipeline` and `JobTerminal` are the status, the output and the input of one
job; `ConnectionHub` opens up the `attached`, `sendToAgent` and `closeDevice` that
`JobLifecycle` and `Devices` take as one instance has them; `RepositoryValidation`
takes from the hub that an agent is online and that a message is sent or not.

`PROJECT.json` maps every definition to the lines it models.

### JobLifecycle

A step ends where the code awaits. `TransitionRead` and `TransitionWrite` are the
two halves of `transitionFromAgent`: the first reads the row, checks the table and
owes a write (`pending`), the second writes by id, whatever the row holds by then.
Likewise `CancelRead`, `CancelWrite`, `CancelSend`, `CancelDetail` for
`requestCancellation`, `CheckDevice`, `CheckOnline`, `CreateJob`, `DispatchJob`,
`DispatchFailed` for the POST route, and `RevokeCancelJobs`, `RevokeCommit`, `RevokeCloseDevice` for revocation.
`chain[c]` is the promise chain of socket `c`; the hello handler goes through it as
`hello`, `update`, `welcome`, `reconcile` and the transitions it applies.
`written[c]` abstracts the comparison of `updatedAt` with the `disconnectedAt` of
the close handler of `c`, and the history variable `late` records that the row is
active by a write made while no agent was attached: `RowWritten` sets both. The close
event (`SocketClosed`) waits for no handler; `FlushOutput` is the flush timer of the
output, which writes the row too. On the agent, `loopOut` and `runOut` are the frames the
read loop and `Session.run` are about to send, so that a kill, a lost connection or
a cancellation can come between two `Send`s.

`Lagging` separates two regimes. With it, the server may still be working on an old
socket's frames when the agent is already back, and a socket may close before its hello
has been attached; `HonestOutcome`, `CancelReachesProcess`, `RevokedNeverServed` and
`OfflineVouched` are checked with it. Without it the agent's back-off (one second and
more) outlasts the server's work on the old socket, so that `Dial` waits for `Drained`,
and a hello is attached in the turn in which it is received; connections are not
counted. This is all that `~Lagging` takes away: a close event still finds handlers
under way, and they write the row before or after the close handler's transaction. The
agreement and liveness properties need it, because a server that lags behind for ever
agrees with nobody. `OutcomeStands` needs it too: a write that an old socket's handler
owes may land on an outcome that came over the new socket.

### OutputPipeline

A chunk is its sequence number, its data only a length (`Bytes`, any additive
measure). `Emit` and `EmitSend` are the two halves of `emitOutput`. `queue` is the
promise queue of `serializeOutput`, each operation with the handler that awaits it;
`Persist` and `PersistFails` end its head. The row is `terminal` by the agent's report
of the end (`reported`, after the flush of `HandleDone`) or without it (`early`):
`CancelQueued` is the cancellation of a row read as queued although `job.start` was
sent, and `DispatchFailed` a dispatch that was answered false although it was written.
Neither flushes; the agent goes on, and its report is flushed when it comes, though
the row keeps its end. A viewer who was told of an end hears no more. `HandleDone` flushes and awaits only if a
batch is pending, as `flushPersist` does. The viewer goes through the stages of a
subscription: the row is read, the subscription begins and flushes, the truncation
flag is read, then the rows, then everything is sent; broadcasts in between are
queued. Messages to the browser arrive at once, so a lost one is one sent after
`ViewerDrop`. A terminal status ends the viewer at once, with pages still to come or
not, because the page's hook is disabled by it; a change to another status makes the
hook subscribe again, which is a `ViewerDrop`. `evicted`, `lost`, `unseen` and
`vOvertaken` are history variables; the last records that live output or the end of the
job came before a page that was still to come, or that the notice of a truncation, which
is read after the rows, hid so many of a full page that the page asked for no more.

### ConnectionHub

An instance has one Redis connection, so its commands are executed when issued and
their replies handled in order (`replies`); relay envelopes wait in `inbox` and may
be lost. `Presence` is the key's value after a claim, `Touched` the fenced renewal.
`AttachAgent`, `Attached` and `ClosePublished` are the three parts of `attachAgent`;
`asks[m]` follows one call of `sendToAgent` through the owner's lookup, the local
touch or the relay, the acknowledgement, its timeout and the one retry.
`Replies` and `Envelope` are what can wait for an instance; `Addressed`, part of the type
invariant, says that an envelope waits where its connection or its sender is. `claimed`,
`since`, `doubtful` and `struck` are history variables. `Delivery` is the refinement: a call under way is "asked", the sockets written to are
the same variable, and `DeliveryHonest` says that every step is one of
`AgentDelivery` or a stutter.

### RepositoryValidation

`pc[r]` is where an HTTP request awaits: the row's insertion or update, the check that
the agent is online, the broker, the undoing of a failure. `entry` is the broker's one
pending request of the repository, `timers` the time-outs still armed, which may
outlive the entry they were made for. The agent answers in order and its answer does
not name the request. The row is created once, by the first request, as its route does;
the others change or delete it. `trouble` records what can part the row from the
registry, and "off" that a PATCH of the path left the row disabled, which parts nothing.

### Devices

A machine becomes the device of its name. `newer[m]` abstracts the comparison of
`updatedAt` with the `disconnectedAt` of a close handler; `child` has a repository and
a job of each device as rows or as requests that have checked the device and not yet
inserted. `PurgeLock` is the `FOR UPDATE` that such an insertion waits for, and `Doomed`
the rows its transaction has deleted and not yet committed. `shown`
and `fetch` are the cached list and the answer on its way to replace it.
A refused pairing returns the machine to `Unpaired`, from where the installer may be
run again; that `Cleanup` deletes used and expired codes changes no answer, since
every query refuses them already.

### JobTerminal

The effect of `useJobSocket` runs again whenever the status the page knows changes
(`Unaffected` says when it does not): the socket is disposed and another one opened.
Frames to the server wait in `chain`, statuses to the browser in `down`. An input is
the load of the page and its number in it; `createInputSequenceSeed` orders the pages.
A size has no number: `outrun` records that the terminal was given one over a socket that
the page had replaced by then.

### Notifications

A task of the page goes from await to await: `kind` is what began it (the hook's init,
enable, disable, the sign-out, the removal at a 401) and `at` what it waits for. A
request carries the cookie of the moment it was sent. A task outlives the mount of the
component that began it, and then sets no state. `excused` records what the code does
nothing about: tasks that overlap, a browser call that fails, a session that ends with
no page open, an eviction.

## Runs

| Run | Shows |
|---|---|
| `Lifecycle` | `HonestOutcome`, `CancelReachesProcess`, `RevokedNeverServed`, `OfflineVouched` with a lagging server, a cancellation, two connections, and a network failure or a revocation |
| `Reconnection` | `QuiescentAgreement`, `OutcomeStands`, `FinishedIsReported`, `CancelledEnds`, `CancellationHonoured` of an interactive job with a cancellation, or with a network failure and a restart of the agent |
| `Persistence` | `RetentionExact`, `BufferBackstops`, `ReportedFlushed` with two streams, one fault, one failed transaction, and rows that end early |
| `Viewing` | `ViewerMissesOnlyInFlight` with paging, eviction, a reconnecting viewer, and a failed flush or a row that ends early |
| `Hub` | the refinement `DeliveryHonest`, and `NeverToReplaced`, `RefusalHonest`, `RoutableUnlessStruck`, with two instances, two connections and a failing Redis command |
| `HubFaults` | `DeadOwnerLapses` with a command, a crash or a shutdown, and a `closeDevice` |
| `Validation` | `EnabledVouched`, `RegistryAgrees`, `RequestEnds` with two overlapping requests of every kind and one fault |
| `Devices` | `OneDevicePerCode`, `PurgeUnhindered`, `StaleListHarmless`, `OnlineVouched`, `RevocationFinal` with two machines, one code, two connections, one restart |
| `Terminal` | `InputInOrder`, `NewestHeard`, `OneSocket`, `SizeAgrees` with two loads of the page, two sockets, two sizes, two keystrokes and two disturbances |
| `Notifications` | `SettledIsMine`, `SignedOutSilent`, `OnDelivers` with two users, two tasks at a time, two sign-ins, two endpoints and one failure |
| `TerminalRace`, `DisconnectGap` | where the code departs from its documentation; see below |

**Bounds.** Two connections are enough for an old and a new socket to overlap; more
add only sockets that are already replaced. One network failure and one restart of
the agent give every interruption point, and the recovery from each is complete
within the run; a second one starts from a state the first already reached. Three
chunks with a buffer of two and a batch of two give eviction, full and partial
batches; five chunks with pages of two give a third page, and retention the room to
overtake one. The lengths 1, 3, 1, 2
with a limit of 4 make the eviction loop stop early, late, and evict the chunk just
inserted. `Lifecycle` bounds a behaviour to a revocation or a network failure
(`RevokedOrDropped`): the properties of the job and that of the device do not meet in
a behaviour with both. `Reconnection` makes no cancellation once the network or the
agent has failed (`CancelledOrFailed`) and has no session once both have
(`NothingAfterBoth`). Both leave its liveness sound: what they cut off is entered only by
steps of the user, of the network or of a failure, which fairness forces nobody to take,
or by `StartJob` after a restart, which every liveness property excuses; a failure after a cancellation is in
`Lifecycle`. `Viewing` does not combine a row that ends early with a failed transaction
(`EarlyOrFailed`); `Persistence` does. Two instances are enough for a connection to move from one to
the other, and `agent.welcome` is itself a relayed message, so `Hub` needs no further
command. Two requests on a repository overlap in every way the broker can confuse, for
it has one entry. Two machines are needed for one pairing code, two sockets for a
replaced one and its successor; two tasks for every overlap of two. Two sizes
are needed for one on a replaced socket to be handled after a newer one. Users, tasks,
machines, connections, instances, sockets and sizes are interchangeable where the runs say so.
Deadlock is not checked: a job ends, and so does the system around it.

**Fairness.** `FairSpec` of `JobLifecycle` assumes that a handler the server has
begun goes on, that the agent's goroutines are scheduled, that a dead connection is
noticed at both ends (TCP, and the agent's read deadline) and that a killed process
dies. Nothing is assumed of the user, of the network or of a command left to itself.
`FairSpec` of `ConnectionHub` assumes that Redis answers, that event loops run, that
timers fire and that the key's TTL passes; `Fairness` of `RepositoryValidation` that
a request goes on when what it awaits is there and that its timer fires, and nothing
of the agent.

**Departures from the documentation.**

- `TerminalRace`: "terminal states are final and state transitions are checked
  before mutation" (`docs/architecture.md:56`). The check and the mutation are two
  steps: a queued job is cancelled between the agent's read and write of it, and the
  cancelled row becomes dispatched.
- `DisconnectGap`: "active jobs become disconnected" (`docs/architecture.md:54`). The
  close handler's transaction skips rows written since the close event
  (`websockets.ts:403`). The network fails while the handler of a status frame owes its
  write; the write comes between the close event and the transaction, and the job
  stays active without an agent. The flush timer of the output and the `statusDetail`
  of a cancellation do the same. `OfflineVouched` is what holds: such a row owes its
  status to a write that came after the agent was gone, and no close handler forgets
  another.

The other departures appear as the named exceptions of the properties that pass:

- `flushOutput` is "called before a job reaches a terminal state"
  (`services/jobs.ts:146`): not before that of a queued row that is cancelled although
  `job.start` was sent, nor of a failed dispatch. `ReportedFlushed` is about the agent's
  report of the end, which always flushes, and `ViewerMissesOnlyInFlight` about viewers
  who were told of that end and no earlier one (`early`).
- "Terminal states are final" (`docs/architecture.md:56` again): on a server that lags, a
  handler of an old socket that read the row before writes over the outcome the new
  socket brought (`OutcomeStands` is checked and proved without lag).
- Reconnects "must not re-alert" (`services/jobs.ts:91`): a reconnection goes through
  `disconnected` and `running`, which are real changes; `alerts` counts two.
- A subscribing viewer has "no gap" (`routes/websockets.ts:476`): a flush that is under
  way is not waited for. `ViewerMissesOnlyInFlight` says that this, and pages
  overtaken by live output, cut short by the end of the job or hidden by the notice of a
  truncation that came while they were read (`services/jobs.ts:283`, `:290`), are the
  only gaps.
- "Output arrives on a single ordered stream" (`useJobSocket.ts:115`): a process without
  a pseudo-terminal has two readers, which take a number and send it in two steps
  (`manager.go:470`); the later number raises the mark above the earlier one, which is
  then dropped. `ViewerMissesOnlyInFlight` is about jobs of one stream (`OneStream`).
- A replaced connection leaves its successor online (`connections.test.ts`): handlers
  of the old connection delete the map's entry by device after an await, so an open,
  owned connection may get no commands until it reconnects (`struck`).
- "Only a successful response enables the record" (`docs/architecture.md`): a PATCH of
  `enabled` alone enables a record whose validation failed (`"flag" \in trouble`).
- A device's row may say online with no agent (`late`): a handler that outlived its
  connection wrote it last, or a rename moved `updatedAt` past the close handler's
  guard.
- A subscription "can't keep delivering this user's job notifications to the next
  person" (`AppShell.tsx:33`): it can, after a sign-out that an enable overlapped, and
  after a session that expired with no page open, until the next user's `init`
  (`excused`).

## Proofs

TLC checks the instances above; TLAPS proves, for every value of the constants under
the named assumptions, the theorems below. `LifecycleAssumption`, `OutputAssumption`,
`HubAssumption`, and those of the other modules say that bounds are natural numbers and
that the values that stand for "none" are none of the others; `BytesAssumption` says
that the length of a disjoint union is the sum, and `ValidationAssumption` that a
resolved path resolves to itself.

Every proof has the same form: an inductive invariant, one lemma per action (or per kind
of effect) that the step preserves it, and a temporal step that puts them together.

**`JobLifecycle`**

- `TypeCorrect`: by induction on its own. The conjunct `agentPhase # "offline" =>
  agentConn \in Conn` is what makes `Send` defined.
- `CancelCorrect` (`CancelReachesProcess`): the strengthening says where
  `Session.run` is when the flag `cancelled` is set and the process alive: before
  `started`, or inside it with the kill still owed.
- `RevokeCorrect` (`RevokedNeverServed`): the strengthening says that once the
  revocation has closed the device, a hello handler past its update of the device
  row works on a socket that is closing or not attached.
- `OutcomeCorrect` (`HonestOutcome`): no completed or failed frame, and no owed write
  of one, exists anywhere that disagrees with the session, and the frames a session
  has sent come before its end; the invariant follows every place such a frame can
  be in.

- `OfflineCorrect` (`OfflineVouched`): `AwayInv` says that an active row which outlives its
  agent's attachment, and is not `late`, has not been written since, and that a close
  handler which will see so is yet to run. It is needed because the property is silent
  until that handler is through. `WriteVouches` does for every write of the row at once.
  The theorem assumes nothing about lag, cancellations or failures.

The next two assume `~Lagging`. Then the agent has one connection that matters
(`SocketInv`): its own, or the one it has just left, on which handlers may still be under
way after its close event. Requests, revocations, failures and restarts stay unbounded.

- `AgreementCorrect` (`QuiescentAgreement`): the invariant is about the connection the agent
  has reconciled over. If the session has ended (`EndedInv`), its outcome is in the row,
  owed to it, or in one of the queues from `Session.run` to the handler. If it has not
  (`RunInv`, `LoopInv`, `ChainInv`), the last frame of each queue carries the session's
  status, or is a dispatched that the reconciliation read before `started()` spoke; the
  row refuses that one, because a running went before it (`Stepped`). `RevokedInv`,
  `RevokeCorrect` and `OutcomeCorrect` exclude what else could write the row.
- `OutcomeStandsCorrect` (`OutcomeStands`): `StandInv` says that no handler owes a write to a
  row that holds an outcome. `SilentInv` is needed for the failed dispatch: until
  `job.start` is through, nobody speaks of the job.

**`OutputPipeline`**

- `OutputTypeCorrect`, `RetentionCorrect`: types and `RetentionExact` are inductive
  together with `OneAwaited` (a socket's handler awaits at most one operation and
  keeps its frame until it ends). Types need the accounts, since the running total
  is known to be natural only while it is exact. The accounts rest on
  `OldestReclaims`, that the eviction loop reclaims what it set out to, which needs
  a least element of the rows that stay; `LeastElement` gets it from the
  well-foundedness of strict inclusion of finite sets.
- `BackstopCorrect` (`BufferBackstops`), for every number of streams and failures:
  `RingCovered` accounts for every chunk of the buffer while the agent is connected: it is
  with the server (a row, evicted, refused, in the batch or in an operation), in a frame,
  about to be sent by the read loop, or held by a reader. `AwaitedFrame` says that a
  handler awaits an operation on the chunk of the frame it handles.
- `FlushCorrect` (`ReportedFlushed`), for every number of streams: on an undisturbed
  connection `Flushed` says the same of all output and not of the buffer alone, and that
  the report of the end is behind all output (`Ending`). A row that ended early changes
  none of this, because the flush of the report does not look at the row.
- `ViewedCorrect` (`ViewerMissesOnlyInFlight`), for a job of one stream: `Watched` names
  the next chunk `r` to be relayed. The frames on their way are `r` and its successors in
  order (`Sending`), what the server keeps is all that comes before `r` (`Storing`), and
  what each stage of the subscription has read, queued and shown leaves nothing out up to
  the mark but what is excepted (`Following`); a viewer who was told of an early end has
  been sent chunks up to some earlier one, and no more (`Following` and `PageRead` carry it). With two streams the order of `Sending` is
  false, and so is the property.

**`ConnectionHub`**

The module has some thirty actions over queues of replies and envelopes. `StepEffect`
says once what any step does: an *effect* names the sockets, calls and entries a step
changes and what it appends to or takes from the queues, and each invariant is then
shown to survive each effect, without the actions.

- `TypeCorrect` (`TypeOK`): inductive with `ConnInv` (a connection that anything refers
  to has been dialled, and the entry of an instance is one of its own), `AwaitInv` (a reply
  finds its handler as the command left it, and no handler awaits two), `AskInv` (a call is
  made once, and an envelope comes from the instance that called) and `ApartInv` (what the
  relay has of an attempt is in one place at a time).
- `FreshCorrect` (`NeverToReplaced`): `ClaimInv` says that the owner is the
  connection that claimed last; `FreshInv` that every connection a reply or an envelope
  names for a message claimed after the message was sent, or was the last before.
- `DeliveryCorrect` (`DeliveryHonest`): `DeliveryStep` maps every step to a step of
  `AgentDelivery` or a stutter. It needs `TokenInv`: the attempts of a call go to different
  connections, none of them written to yet, and an attempt that was written is over; so a second write to a socket, a third socket and a TRUE without a write are impossible.
- `RefusalCorrect` (`RefusalHonest`): `RefuseInv` says that a message nothing made doubtful is
  not written while it may still be refused: the relay has nothing of it but the attempt
  that is awaited, and whatever says that this attempt did not send is right.
- `RouteCorrect` (`RoutableUnlessStruck`): `EntryInv` says that a connection that was accepted
  is the entry of its instance unless struck; `OwnerInv` that the one that claimed last is
  the owner, even before its claim is answered, unless struck or its instance is
  stopping; `AnsweredInv` that what has been answered has been claimed.

**`RepositoryValidation`**

- `TypeCorrect` (`TypeOK`): the entry and the timers are of requests that still await.
- `EnabledCorrect` (`EnabledVouched`): `VouchInv` says that every result on its way and every
  outcome a request holds (`Answers`) is a path the agent has vouched for, whichever
  request it will settle, and that a request that saw the row enabled saw such a path,
  which the row has had since or has exchanged for another one.
- `RegistryCorrect` (`RegistryAgrees`): as long as nothing has parted them, `CalmInv` says that
  one request is active at most, that its order, its result or its refusal is on its way
  and nothing else, and what it knows of the row and the registry; `KindInv` has the
  stages of each kind of request.

**`Devices`**

- `TypeCorrect` (`TypeOK`), and `PairingCorrect` (`OneDevicePerCode`) with `PairInv`: a
  machine's device exists from its claim on, and the code it claimed is used.
- `DeletionCorrect` (`StaleListHarmless`) and `RevocationCorrect` (`RevocationFinal`) with
  `SeenInv`: what the list, the answer on its way and the purge know of a row is never
  ahead of it.
- `PurgeCorrect` (`PurgeUnhindered`) with `LockInv`: while the lock is held no row comes to
  a kind whose rows were deleted.
- `OnlineCorrect` (`OnlineVouched`) with `OwedInv`: a row that says online without an agent, and is
  not late, has a close handler still to run that will find the row older than its
  disconnection.

**`JobTerminal`**

- `TypeCorrect` (`TypeOK`): `ref` names a socket of the effect, and input is numbered within
  its page.
- `InputCorrect` (`InputInOrder`) and `NewestCorrect` (`NewestHeard`) with `InputInv`: the number
  the agent keeps is that of the input last written, and no input is of a page not loaded
  yet; `SequenceOrder` says that the numbers grow in the order of typing.
- `SocketCorrect` (`OneSocket`) with `OneInv`: the socket `ref` names is the only one of
  the effect, and there is none when the timer is to open one.
- `SizeCorrect` (`SizeAgrees`) with `StatusInv` and `SizeInv`: what the page's open socket carries
  ends with the window's size, if with any; that size has reached the terminal or is on
  its way, unless there was no terminal, and then the page's status is still queued and
  its change will make the page connect, and send the size, again.

**`Notifications`**, all from `ShareInv`

- `TypeCorrect` (`TypeOK`): it carries that an endpoint of this browser has one row at most
  and was made before the row, and what each kind of task may await.
- `ShareInv` reads the page: in an application that is not excused one task at most is
  under way, it is of this mount, and its request carries the cookie of the user on the
  page (`AloneInv`, `MineInv`); what it holds of the subscription is still so (`HeldInv`: its
  endpoint is the browser's, "ok" means a row, "delete" means the subscription is gone).
  Of a closed page only requests remain that the server had begun (`ClosedInv`). At the
  sign-in page nothing is about to subscribe, and a subscription that is left has a task
  that will remove it (`LoginInv`).
- `SettledCorrect` (`SettledIsMine`) and `OnCorrect` (`OnDelivers`) follow from `HeldInv`,
  `SilentCorrect` (`SignedOutSilent`) from `LoginInv`. `MineInv` is needed because the row is
  created for the session of the request, not for the user the page shows.

**Only model-checked.**

- The liveness properties `FinishedIsReported`, `CancelledEnds`, `CancellationHonoured`,
  `DeadOwnerLapses` and `RequestEnds`: liveness under fairness is out of the prover's reach.

Every other property of a passing run is a theorem. `TerminalRace` checks `TerminalIsFinal` and
`DisconnectGap` checks `OfflineMeansDisconnected`; both are false.

## Not modelled

- The fan-out of broadcasts to viewers of other instances: best effort, without state.
- On the agent, the cap on retained sessions, a repeated `job.start`, and `Close`.
- A `job.status` that repeats the known status while another page is awaited, which
  stops the paging; two windows on one job, whose input numbers compete.
- Two tabs of one browser, browsers without push, denied permission, keys and CSRF
  tokens; the count of a user's subscriptions and the eviction are one step.
- Actions of a repository, names, branches, audit records, rate limits: single writes.
- Passwords, the OAuth exchange, envelope validation: computations of one request.
- The agent's configuration, installer and service: sequential I/O.
- Clocks: time-outs appear as steps that may happen. A transaction that commits while
  its client sees an error is taken as committed.

## Plan

What is left is to widen the model:

1. The fan-out of broadcasts between instances, to a viewer of another one.
2. Two windows on one job, whose input numbers compete, and a viewer of two streams.
3. The agent's cap on retained sessions and `Close`.
