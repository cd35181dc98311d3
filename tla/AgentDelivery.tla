--------------------------- MODULE AgentDelivery ---------------------------
(***************************************************************************)
(* What ConnectionHub.sendToAgent promises its callers, with no Redis, no  *)
(* instances and no presence: a message goes to no connection twice and to *)
(* at most two connections, and the answer TRUE is given only for a        *)
(* message that was written to a connection.  The answer FALSE promises    *)
(* nothing: the acknowledgement may have been lost, and the message may    *)
(* still be written after the answer.                                      *)
(***************************************************************************)
EXTENDS Naturals, Sequences, Functions

CONSTANTS
  Message,    \* messages handed to sendToAgent
  Connection  \* connections of the agent

VARIABLES
  answer,   \* [Message -> {"idle", "asked", "sent", "unsent", "lost"}]
  written   \* [Message -> Seq(Connection)]: the sockets it was written to

vars == <<answer, written>>

Init ==
  /\ answer = [m \in Message |-> "idle"]
  /\ written = [m \in Message |-> <<>>]

Ask(m) ==
  /\ answer[m] = "idle"
  /\ answer' = [answer EXCEPT ![m] = "asked"]
  /\ UNCHANGED written

\* A message written on the asking instance is answered in the same step.
Write(m, c) ==
  /\ answer[m] # "idle"
  /\ c \notin Range(written[m])
  /\ Len(written[m]) < 2
  /\ written' = [written EXCEPT ![m] = Append(@, c)]
  /\ \/ UNCHANGED answer
     \/ answer[m] = "asked" /\ answer' = [answer EXCEPT ![m] = "sent"]

Answer(m, r) ==
  /\ answer[m] = "asked"
  /\ r = "sent" => written[m] # <<>>
  /\ answer' = [answer EXCEPT ![m] = r]
  /\ UNCHANGED written

\* The asking instance stops: none of its callers hears anything.
Abandon(M) ==
  /\ M # {}
  /\ \A m \in M : answer[m] = "asked"
  /\ answer' = [m \in Message |-> IF m \in M THEN "lost" ELSE answer[m]]
  /\ UNCHANGED written

Next ==
  \/ \E m \in Message : Ask(m)
  \/ \E m \in Message, c \in Connection : Write(m, c)
  \/ \E m \in Message, r \in {"sent", "unsent"} : Answer(m, r)
  \/ \E M \in SUBSET Message : Abandon(M)

Spec == Init /\ [][Next]_vars
=============================================================================
