----------------------------- MODULE JobStatus -----------------------------
(***************************************************************************)
(* The job status vocabulary shared by the server, the agent and the web   *)
(* client (packages/shared, packages/protocol) and the transition table    *)
(* the server consults before it applies an agent's message to a job row.  *)
(***************************************************************************)

JobStatuses ==
  {"queued", "dispatched", "running", "waiting_for_input",
   "completed", "failed", "cancelled", "disconnected"}

\* isTerminalJobStatus
TerminalStatuses == {"completed", "failed", "cancelled"}

\* Mutant: a job the agent has not acknowledged is not considered.
ActiveStatusesAcknowledged == {"dispatched", "running", "waiting_for_input"}

\* The statuses the agent close handler and device revocation turn into
\* "disconnected".
ActiveStatuses == {"queued", "dispatched", "running", "waiting_for_input"}

\* Mutants: a disconnected job can resume but not end; a job the agent has
\* started cannot be cancelled.
NextStatusesDeadEnd ==
  [ queued            |-> {"dispatched", "failed", "cancelled"},
    dispatched        |-> {"running", "failed", "cancelled", "disconnected"},
    running           |-> {"waiting_for_input", "completed", "failed",
                           "cancelled", "disconnected"},
    waiting_for_input |-> {"running", "completed", "failed",
                           "cancelled", "disconnected"},
    disconnected      |-> {"running", "waiting_for_input"},
    completed         |-> {},
    failed            |-> {},
    cancelled         |-> {} ]

NextStatusesUncancellable ==
  [ NextStatusesDeadEnd EXCEPT
      !.running = @ \ {"cancelled"},
      !.waiting_for_input = @ \ {"cancelled"},
      !.disconnected = {"running", "waiting_for_input", "completed", "failed"} ]

\* transitions
NextStatuses ==
  [ queued            |-> {"dispatched", "failed", "cancelled"},
    dispatched        |-> {"running", "failed", "cancelled", "disconnected"},
    running           |-> {"waiting_for_input", "completed", "failed",
                           "cancelled", "disconnected"},
    waiting_for_input |-> {"running", "completed", "failed",
                           "cancelled", "disconnected"},
    disconnected      |-> {"running", "waiting_for_input", "completed",
                           "failed", "cancelled"},
    completed         |-> {},
    failed            |-> {},
    cancelled         |-> {} ]

CanTransitionJob(from, to) == from = to \/ to \in NextStatuses[from]
=============================================================================
