------------------------ MODULE RepositoryValidation ------------------------
(***************************************************************************)
(* One repository of a device: its row, the requests that create, change   *)
(* and delete it, the broker that has a path validated by the agent, and   *)
(* the agent's registry of validated roots, which decides whether a job    *)
(* may start.                                                              *)
(*                                                                         *)
(* A request runs to its next await.  Nothing in repository.validate or in *)
(* its result names the request: the broker knows one pending request per  *)
(* repository, and any result for the repository settles it.               *)
(***************************************************************************)
EXTENDS Naturals, Sequences

CONSTANTS
  Path,       \* absolute paths
  Canonical,  \* [Path -> Path]: what EvalSymlinks makes of a path
  Taken,      \* canonical paths of other repositories of the device
  Request,    \* requests to the HTTP API
  Body,       \* what they ask for: a kind, a path and "enabled"
  NoRequest,
  NoPath,
  MaxFaults   \* bound: losses of the agent's connection and crashes of the
              \* server, together

Keep == "keep"  \* a PATCH whose body has no "enabled"

ASSUME ValidationAssumption ==
  /\ Canonical \in [Path -> Path]
  /\ \A p \in Path : Canonical[Canonical[p]] = Canonical[p]
  /\ Taken \subseteq Path
  /\ Body \subseteq [kind : {"create", "patch", "delete"}, path : Path \cup {NoPath},
                     enabled : {Keep, "on", "off"}]
  /\ \A b \in Body : b.kind = "create" => b.path # NoPath
  /\ NoRequest \notin Request
  /\ {NoPath, "open", "invalid", "error"} \cap Path = {}
  /\ MaxFaults \in Nat

VARIABLES
  \* PostgreSQL
  row,       \* [exists, path, enabled]
  \* the server
  pc,        \* where a request awaits
  input,     \* [Request -> its body, once it has begun]
  was,       \* [Request -> BOOLEAN]: wasEnabled
  entry,     \* RepositoryValidationBroker.pending, the repository's entry
  timers,    \* requests whose validation timeout is armed
  unsent,    \* requests whose sendToAgent returned false, not yet handled
  outcome,   \* [Request -> "open", "invalid", "error" or the canonical path]
  \* the connection and the agent
  online,    \* the agent is attached
  orders,    \* repository.validate messages on their way: paths
  results,   \* results on their way: a canonical path, or NoPath when invalid
  registry,  \* Registry.roots, the root of the repository; it is persisted
  \* history
  vouched,   \* every root the agent ever registered for the repository
  trouble,   \* what happened that can part the row from the registry
  \* bound
  faults

serverVars  == <<pc, input, was, entry, timers, unsent, outcome>>
agentVars   == <<online, orders, results, registry, vouched>>
vars == <<row, serverVars, agentVars, trouble, faults>>

Open == "open"

Stages == {"idle", "insert", "update", "remove", "check", "ask", "wait", "undo",
           "final", "done"}

Early == {"idle", "insert", "update", "remove", "check", "ask"}  \* before the broker's promise
Outcomes == Path \cup {Open, "invalid", "error"}

RowType ==
  /\ row \in [exists : BOOLEAN, path : Path \cup {NoPath}, enabled : BOOLEAN]
  /\ row.exists => row.path \in Path

\* A request that has begun has a body, one on its way to the broker a path.
RequestType ==
  /\ pc \in [Request -> Stages]
  /\ input \in [Request -> Body \cup {NoPath}]
  /\ \A r \in Request : pc[r] # "idle" => input[r] \in Body
  /\ \A r \in Request : pc[r] \in {"insert", "update", "check", "ask"} => input[r].path \in Path
  /\ was \in [Request -> BOOLEAN]

\* The entry and the timers are of requests that await their validation.
BrokerType ==
  /\ entry \in Request \cup {NoRequest}
  /\ entry # NoRequest => pc[entry] = "wait" /\ outcome[entry] = Open
  /\ timers \subseteq {r \in Request : pc[r] = "wait" /\ outcome[r] = Open}
  /\ unsent \subseteq Request
  /\ outcome \in [Request -> Outcomes]
  /\ \A r \in Request : pc[r] \in Early => outcome[r] = Open

AgentType ==
  /\ online \in BOOLEAN
  /\ orders \in Seq(Path)
  /\ results \in Seq(Path \cup {NoPath})
  /\ registry \in Path \cup {NoPath}
  /\ vouched \subseteq Path

TypeOK ==
  /\ RowType
  /\ RequestType
  /\ BrokerType
  /\ AgentType
  /\ trouble \subseteq {"overlap", "gave up", "drop", "taken", "flag", "off", "crash"}

\* The row is absent, or registered and validated.
Init ==
  /\ \/ /\ row = [exists |-> FALSE, path |-> NoPath, enabled |-> FALSE]
        /\ registry = NoPath
     \/ \E p \in Path :
          /\ Canonical[p] = p
          /\ p \notin Taken
          /\ row = [exists |-> TRUE, path |-> p, enabled |-> TRUE]
          /\ registry = p
  /\ pc = [r \in Request |-> "idle"]
  /\ input = [r \in Request |-> NoPath]
  /\ was = [r \in Request |-> FALSE]
  /\ entry = NoRequest
  /\ timers = {}
  /\ unsent = {}
  /\ outcome = [r \in Request |-> Open]
  /\ online = TRUE
  /\ orders = <<>>
  /\ results = <<>>
  /\ vouched = {registry} \ {NoPath}
  /\ trouble = {}
  /\ faults = 0

-----------------------------------------------------------------------------
(* The requests.                                                           *)

Goto(r, stage) == pc' = [pc EXCEPT ![r] = stage]

Active == {r \in Request : pc[r] \notin {"idle", "done"}}

\* The handler reads what it needs: POST the device, PATCH and DELETE the row.
\* POST is how the row comes to exist, once: every POST that succeeds makes a
\* repository, so one that comes after it makes another.
Begin(r, b) ==
  /\ pc[r] = "idle"
  /\ input' = [input EXCEPT ![r] = b]
  /\ \/ /\ b.kind = "create"
        /\ row.path = NoPath
        /\ Goto(r, "insert")
     \/ /\ b.kind = "patch"
        /\ Goto(r, IF ~ row.exists THEN "done"
                   ELSE IF b.path \in {NoPath, row.path} THEN "final" ELSE "update")
     \/ /\ b.kind = "delete"
        /\ Goto(r, IF row.exists THEN "remove" ELSE "done")
  /\ was' = [was EXCEPT ![r] = row.enabled]
  /\ trouble' = IF Active # {} THEN trouble \cup {"overlap"} ELSE trouble
  /\ UNCHANGED <<row, entry, timers, unsent, outcome, agentVars, faults>>

\* POST inserts the row, disabled, with the path as it was typed, if the agent is
\* online.
Insert(r) ==
  /\ pc[r] = "insert"
  /\ IF ~ online \/ input[r].path \in Taken \/ row.path # NoPath
       THEN Goto(r, "done") /\ UNCHANGED row
       ELSE /\ row' = [exists |-> TRUE, path |-> input[r].path, enabled |-> FALSE]
            /\ Goto(r, "check")
  /\ UNCHANGED <<input, was, entry, timers, unsent, outcome, agentVars, trouble, faults>>

\* PATCH disables the row while its new path is validated, if the agent is online.
Disable(r) ==
  /\ pc[r] = "update"
  /\ IF online /\ row.exists
       THEN row' = [row EXCEPT !.enabled = FALSE] /\ Goto(r, "check")
       ELSE Goto(r, "done") /\ UNCHANGED row
  /\ UNCHANGED <<input, was, entry, timers, unsent, outcome, agentVars, trouble, faults>>

\* The update of a validated path, which the uniqueness of paths may refuse.
Applied(r) == IF input[r].kind = "create" THEN TRUE
              ELSE IF input[r].enabled = Keep THEN was[r]
              ELSE input[r].enabled = "on"

\* Mutant: the row keeps the path as it was typed.
ApplyTyped(r) ==
  /\ pc[r] = "wait"
  /\ outcome[r] \in Path
  /\ row' = [row EXCEPT !.path = input[r].path, !.enabled = Applied(r)]
  /\ Goto(r, IF input[r].kind = "create" THEN "done" ELSE "final")
  /\ UNCHANGED <<input, was, entry, timers, unsent, outcome, agentVars, trouble, faults>>

Apply(r) ==
  /\ pc[r] = "wait"
  /\ outcome[r] \in Path
  /\ IF row.exists /\ outcome[r] \notin Taken
       THEN /\ row' = [row EXCEPT !.path = outcome[r], !.enabled = Applied(r)]
            /\ Goto(r, IF input[r].kind = "create" THEN "done" ELSE "final")
            /\ trouble' = IF Applied(r) THEN trouble ELSE trouble \cup {"off"}
       ELSE /\ Goto(r, "undo")
            /\ trouble' = trouble \cup {"taken"}
            /\ UNCHANGED row
  /\ UNCHANGED <<input, was, entry, timers, unsent, outcome, agentVars, faults>>

\* request threw, its promise was rejected, or the agent refused the path.
Failed(r) == pc[r] = "undo" \/ (pc[r] = "wait" /\ outcome[r] \in {"invalid", "error"})

\* Mutant: PATCH has no catch block.
UndoCreateOnly(r) ==
  /\ Failed(r)
  /\ row' = IF input[r].kind = "create" /\ ~ row.enabled THEN [row EXCEPT !.exists = FALSE]
            ELSE row
  /\ Goto(r, "done")
  /\ UNCHANGED <<input, was, entry, timers, unsent, outcome, agentVars, trouble, faults>>

\* The catch blocks: POST deletes the row if it is still disabled, PATCH restores
\* the flag it had read.
Undo(r) ==
  /\ Failed(r)
  /\ row' = IF ~ row.exists THEN row
            ELSE IF input[r].kind = "create"
              THEN IF row.enabled THEN row ELSE [row EXCEPT !.exists = FALSE]
              ELSE [row EXCEPT !.enabled = was[r]]
  /\ Goto(r, "done")
  /\ UNCHANGED <<input, was, entry, timers, unsent, outcome, agentVars, trouble, faults>>

\* The last update of PATCH.  "enabled" is part of it only when the path was not
\* changed; then nothing asks whether the row was ever validated.
Final(r) ==
  LET flag == input[r].enabled # Keep /\ outcome[r] = Open IN
  /\ pc[r] = "final"
  /\ row' = IF row.exists /\ flag
              THEN [row EXCEPT !.enabled = input[r].enabled = "on"] ELSE row
  /\ trouble' = IF row.exists /\ flag THEN trouble \cup {"flag"} ELSE trouble
  /\ Goto(r, "done")
  /\ UNCHANGED <<input, was, entry, timers, unsent, outcome, agentVars, faults>>

\* DELETE, of a repository without jobs.
Delete(r) ==
  /\ pc[r] = "remove"
  /\ row' = [row EXCEPT !.exists = FALSE]
  /\ Goto(r, "done")
  /\ UNCHANGED <<input, was, entry, timers, unsent, outcome, agentVars, trouble, faults>>

-----------------------------------------------------------------------------
(* The broker.                                                             *)

\* Mutant: the entry is not deleted.
SettleKeeping(q, value) ==
  /\ outcome' = [outcome EXCEPT ![q] = value]
  /\ timers' = timers \ {q}
  /\ UNCHANGED entry

\* The promise of request q is settled; its timer is cleared with its entry.
Settle(q, value) ==
  /\ outcome' = [outcome EXCEPT ![q] = value]
  /\ entry' = NoRequest
  /\ timers' = timers \ {q}

\* request: 409 when the repository has an entry already ...
Check(r) ==
  /\ pc[r] = "check"
  /\ Goto(r, IF entry = NoRequest THEN "ask" ELSE "undo")
  /\ UNCHANGED <<row, input, was, entry, timers, unsent, outcome, agentVars, trouble, faults>>

\* Mutant: the timer is armed only for an entry that replaces none.
RegisterTimerless(r) ==
  /\ pc[r] = "ask"
  /\ IF online
       THEN /\ Goto(r, "wait")
            /\ entry' = r
            /\ timers' = IF entry = NoRequest THEN timers \cup {r} ELSE timers
            /\ orders' = Append(orders, input[r].path)
       ELSE /\ Goto(r, "undo")
            /\ UNCHANGED <<entry, timers, orders>>
  /\ UNCHANGED <<row, input, was, unsent, outcome, online, results, registry, vouched, trouble,
                 faults>>

\* ... and after the await of isAgentOnline the entry is set, over another's if
\* one was set meanwhile, the timer armed and the message sent.
Register(r) ==
  /\ pc[r] = "ask"
  /\ IF online
       THEN /\ Goto(r, "wait")
            /\ entry' = r
            /\ timers' = timers \cup {r}
            /\ \/ orders' = Append(orders, input[r].path) /\ UNCHANGED unsent
               \/ unsent' = unsent \cup {r} /\ UNCHANGED orders
       ELSE /\ Goto(r, "undo")
            /\ UNCHANGED <<entry, timers, unsent, orders>>
  /\ UNCHANGED <<row, input, was, outcome, online, results, registry, vouched, trouble, faults>>

\* sendToAgent returned false: whichever request has the entry is rejected.
SendRefused(r) ==
  /\ r \in unsent
  /\ unsent' = unsent \ {r}
  /\ IF entry = NoRequest THEN UNCHANGED <<outcome, entry, timers>> ELSE Settle(entry, "error")
  /\ UNCHANGED <<row, pc, input, was, agentVars, trouble, faults>>

\* The timer of request r: it deletes the repository's entry, whoever's it is.
Timeout(r) ==
  /\ r \in timers
  /\ outcome' = [outcome EXCEPT ![r] = "error"]
  /\ timers' = timers \ {r}
  /\ entry' = NoRequest
  /\ trouble' = trouble \cup {"gave up"}
  /\ UNCHANGED <<row, pc, input, was, unsent, agentVars, faults>>

\* repository.validation.result: settleLocal, or an unsolicited result.
SettleLocal ==
  /\ results # <<>>
  /\ results' = Tail(results)
  /\ IF entry = NoRequest
       THEN UNCHANGED <<outcome, entry, timers>>
       ELSE Settle(entry, IF Head(results) = NoPath THEN "invalid" ELSE Head(results))
  /\ UNCHANGED <<row, pc, input, was, unsent, online, orders, registry, vouched, trouble, faults>>

-----------------------------------------------------------------------------
(* The agent, its connection, and crashes of the server.                   *)

\* repository.validate: ValidatePath, the registry and the result, in one go.
\* Whether the directory can be read is the device's business.
Validate ==
  /\ orders # <<>>
  /\ orders' = Tail(orders)
  /\ \E valid \in BOOLEAN :
       LET root == IF valid THEN Canonical[Head(orders)] ELSE NoPath IN
       /\ results' = Append(results, root)
       /\ registry' = IF valid THEN root ELSE registry
       /\ vouched' = vouched \cup ({root} \ {NoPath})
  /\ UNCHANGED <<row, serverVars, online, trouble, faults>>

\* The connection is lost with what it carried: the close handler detaches the
\* agent and cancels the pending request.
Drop ==
  /\ online
  /\ faults < MaxFaults
  /\ faults' = faults + 1
  /\ online' = FALSE
  /\ orders' = <<>>
  /\ results' = <<>>
  /\ IF entry = NoRequest THEN UNCHANGED <<outcome, entry, timers>> ELSE Settle(entry, "error")
  /\ trouble' = trouble \cup {"drop"}
  /\ UNCHANGED <<row, pc, input, was, unsent, registry, vouched>>

Reconnect ==
  /\ ~ online
  /\ online' = TRUE
  /\ UNCHANGED <<row, serverVars, orders, results, registry, vouched, trouble, faults>>

\* The requests of the server are gone with its memory and its sockets.
Crash ==
  /\ faults < MaxFaults
  /\ faults' = faults + 1
  /\ pc' = [r \in Request |-> IF r \in Active THEN "done" ELSE pc[r]]
  /\ outcome' = [r \in Request |-> IF r \in Active /\ outcome[r] = Open THEN "error"
                                   ELSE outcome[r]]
  /\ entry' = NoRequest
  /\ timers' = {}
  /\ unsent' = {}
  /\ online' = FALSE
  /\ orders' = <<>>
  /\ results' = <<>>
  /\ trouble' = trouble \cup {"crash"}
  /\ UNCHANGED <<row, input, was, registry, vouched>>

-----------------------------------------------------------------------------
(* The specification.                                                      *)

Handler(r) ==
  \/ Insert(r)
  \/ Disable(r)
  \/ Check(r)
  \/ Register(r)
  \/ Apply(r)
  \/ Undo(r)
  \/ Final(r)
  \/ Delete(r)

Next ==
  \/ \E r \in Request :
       \/ \E b \in Body : Begin(r, b)
       \/ Handler(r)
       \/ SendRefused(r)
       \/ Timeout(r)
  \/ SettleLocal
  \/ Validate
  \/ Drop
  \/ Reconnect
  \/ Crash

\* The server's handlers run and its timers fire; the agent need not answer.
Fairness == \A r \in Request : WF_vars(Handler(r)) /\ WF_vars(Timeout(r))

Spec == Init /\ [][Next]_vars /\ Fairness

-----------------------------------------------------------------------------
(* Properties.                                                             *)

\* An enabled row has a path the agent has validated and registered for this
\* repository, whatever timeouts, late results, overlapping requests and
\* crashes came before, unless a PATCH set the flag by itself.
EnabledVouched ==
  row.exists /\ row.enabled /\ "flag" \notin trouble => row.path \in vouched

\* When no request is active, the root of the agent's registry is the path of the
\* row, which is enabled unless a PATCH of its path left it disabled, so that the
\* agent accepts its jobs.  What can part them: requests that overlapped, a
\* validation given up while the agent worked on it (by a timeout or a lost
\* connection), a path another repository has, a PATCH of the flag, a crash.  A
\* result that settles the wrong request, or none, takes one.
RegistryAgrees ==
  Active = {} /\ trouble \subseteq {"off"} /\ row.exists =>
    registry = row.path /\ (row.enabled \/ "off" \in trouble)

\* Every request is answered: one whose entry was replaced, or deleted by another
\* request's timer, still has a timer of its own.
RequestEnds == \A r \in Request : pc[r] \notin {"idle", "done"} ~> pc[r] = "done"
=============================================================================
