-------------------- MODULE RepositoryValidation_proofs --------------------
(***************************************************************************)
(* Theorems about RepositoryValidation, for any set of paths and requests  *)
(* and any number of faults: types, that an enabled row has a path the     *)
(* agent vouched for, and that the agent's registry agrees with the row    *)
(* when nothing went wrong.                                                *)
(***************************************************************************)
EXTENDS RepositoryValidation, SequenceTheorems, TLAPS

-----------------------------------------------------------------------------
(* Type correctness                                                        *)

\* The troubles that a run may get into.
Troubles == {"overlap", "gave up", "drop", "taken", "flag", "off", "crash"}

\* The initial states are well typed.
LEMMA TypeInit == Init => TypeOK
  <1> SUFFICES ASSUME Init PROVE TypeOK
    OBVIOUS
  <1> USE ValidationAssumption DEF Init
  <1>1. RowType
    <2>1. CASE row = [exists |-> FALSE, path |-> NoPath, enabled |-> FALSE]
      BY <2>1 DEF RowType
    <2>2. ASSUME NEW p \in Path, row = [exists |-> TRUE, path |-> p, enabled |-> TRUE]
          PROVE  RowType
      BY <2>2 DEF RowType
    <2> QED
      BY <2>1, <2>2
  <1>2. RequestType
    BY DEF RequestType, Stages
  <1>3. BrokerType
    BY DEF BrokerType, Outcomes, Early
  <1>4. AgentType
    BY DEF AgentType
  <1> QED
    BY <1>1, <1>2, <1>3, <1>4 DEF TypeOK

\* A part of the state that a step leaves alone stays well typed.
LEMMA TypeKept ==
  /\ RowType /\ UNCHANGED row => RowType'
  /\ RequestType /\ UNCHANGED <<pc, input, was>> => RequestType'
  /\ BrokerType /\ UNCHANGED <<pc, entry, timers, unsent, outcome>> => BrokerType'
  /\ AgentType /\ UNCHANGED agentVars => AgentType'
  BY DEF RowType, RequestType, BrokerType, AgentType, agentVars

\* A request that goes on without the broker is not one that awaits it.
LEMMA BrokerKept ==
  ASSUME RequestType, BrokerType, NEW r \in Request, NEW stage, Goto(r, stage),
         pc[r] # "wait" \/ outcome[r] # Open, stage \in Early => pc[r] \in Early,
         UNCHANGED <<entry, timers, unsent, outcome>>
  PROVE  BrokerType'
  BY DEF RequestType, BrokerType, Goto, Early

\* A request goes on with what it has.
LEMMA RequestKept ==
  ASSUME RequestType, NEW r \in Request, NEW stage \in Stages, Goto(r, stage), pc[r] # "idle",
         stage \in {"check", "ask"} => pc[r] \in {"insert", "update", "check"},
         stage \notin {"insert", "update"},
         UNCHANGED <<input, was>>
  PROVE  RequestType'
  BY DEF RequestType, Goto

\* The promise of the request that has the entry is settled with an outcome, and
\* no other's; without an entry nothing is.
LEMMA SettleType ==
  ASSUME BrokerType, RequestType, NEW value \in Outcomes \ {Open}, pc' = pc,
         unsent' \subseteq unsent,
         IF entry = NoRequest THEN UNCHANGED <<outcome, entry, timers>> ELSE Settle(entry, value)
  PROVE  BrokerType'
  <1>1. CASE entry = NoRequest
    BY <1>1 DEF BrokerType
  <1>2. CASE entry # NoRequest
    BY <1>2 DEF BrokerType, RequestType, Settle, Early
  <1> QED
    BY <1>1, <1>2

\* Every step keeps the types.
LEMMA TypeStep == TypeOK /\ [Next]_vars => TypeOK'
  <1> SUFFICES ASSUME TypeOK, [Next]_vars PROVE TypeOK'
    OBVIOUS
  <1>t. RowType /\ RequestType /\ BrokerType /\ AgentType /\ trouble \subseteq Troubles
    BY DEF TypeOK, Troubles
  <1>q. SUFFICES RowType' /\ RequestType' /\ BrokerType' /\ AgentType' /\ trouble' \subseteq Troubles
    BY DEF TypeOK, Troubles
  <1> DEFINE Q == RowType' /\ RequestType' /\ BrokerType' /\ AgentType' /\ trouble' \subseteq Troubles
  <1>1. ASSUME NEW r \in Request, NEW b \in Body, Begin(r, b) PROVE Q
    <2>1. RequestType'
      BY <1>t, <1>1, ValidationAssumption DEF Begin, Goto, RequestType, RowType, Stages
    <2>2. BrokerType'
      BY <1>t, <1>1 DEF Begin, Goto, RequestType, BrokerType, Early
    <2>3. trouble' \subseteq Troubles
      BY <1>t, <1>1 DEF Begin, Troubles
    <2> QED
      BY <1>t, <1>1, <2>1, <2>2, <2>3, TypeKept DEF Begin
  <1>2. ASSUME NEW r \in Request, Insert(r) PROVE Q
    <2>1. RowType'
      <3>1. input[r].path \in Path
        BY <1>t, <1>2 DEF Insert, RequestType
      <3>2. [exists |-> TRUE, path |-> input[r].path, enabled |-> FALSE] \in
              [exists : BOOLEAN, path : Path \cup {NoPath}, enabled : BOOLEAN]
        BY <3>1
      <3> QED
        BY <1>t, <1>2, <3>1, <3>2 DEF Insert, RowType
    <2>2. RequestType' /\ BrokerType'
      BY <1>t, <1>2, BrokerKept, RequestKept DEF Insert, Stages, Early
    <2> QED
      BY <1>t, <1>2, <2>1, <2>2, TypeKept DEF Insert
  <1>3. ASSUME NEW r \in Request, Disable(r) PROVE Q
    <2>1. RowType'
      BY <1>t, <1>3 DEF Disable, RowType
    <2>2. RequestType' /\ BrokerType'
      BY <1>t, <1>3, BrokerKept, RequestKept DEF Disable, Stages, Early
    <2> QED
      BY <1>t, <1>3, <2>1, <2>2, TypeKept DEF Disable
  <1>4. ASSUME NEW r \in Request, Check(r) PROVE Q
    <2>1. RequestType' /\ BrokerType'
      BY <1>t, <1>4, BrokerKept, RequestKept DEF Check, Stages, Early
    <2> QED
      BY <1>t, <1>4, <2>1, TypeKept DEF Check
  <1>5. ASSUME NEW r \in Request, Register(r) PROVE Q
    <2>1. RequestType'
      BY <1>t, <1>5, RequestKept DEF Register, Stages
    <2>2. BrokerType'
      <3>1. CASE online
        BY <1>t, <1>5, <3>1 DEF Register, Goto, RequestType, BrokerType, Early
      <3>2. CASE ~ online
        BY <1>t, <1>5, <3>2, BrokerKept DEF Register, Early
      <3> QED
        BY <3>1, <3>2
    <2>3. AgentType'
      <3>1. input[r].path \in Path
        BY <1>t, <1>5 DEF Register, RequestType
      <3>2. orders' \in Seq(Path)
        BY <1>t, <1>5, <3>1 DEF Register, AgentType
      <3> QED
        BY <1>t, <1>5, <3>2 DEF Register, AgentType
    <2> QED
      BY <1>t, <1>5, <2>1, <2>2, <2>3, TypeKept DEF Register
  <1>6. ASSUME NEW r \in Request, Apply(r) PROVE Q
    <2>1. RowType'
      BY <1>t, <1>6 DEF Apply, Applied, RowType, RequestType, Keep
    <2>2. RequestType' /\ BrokerType'
      BY <1>t, <1>6, BrokerKept, RequestKept, ValidationAssumption DEF Apply, Stages, Open, Early
    <2>3. trouble' \subseteq Troubles
      BY <1>t, <1>6 DEF Apply, Troubles
    <2> QED
      BY <1>t, <1>6, <2>1, <2>2, <2>3, TypeKept DEF Apply
  <1>7. ASSUME NEW r \in Request, Undo(r) PROVE Q
    <2>1. RowType'
      BY <1>t, <1>7 DEF Undo, RowType, RequestType
    <2>2. RequestType' /\ BrokerType'
      BY <1>t, <1>7, BrokerKept, RequestKept DEF Undo, Failed, Stages, Open, Early
    <2> QED
      BY <1>t, <1>7, <2>1, <2>2, TypeKept DEF Undo
  <1>8. ASSUME NEW r \in Request, Final(r) PROVE Q
    <2>1. RowType'
      BY <1>t, <1>8 DEF Final, RowType
    <2>2. RequestType' /\ BrokerType'
      BY <1>t, <1>8, BrokerKept, RequestKept DEF Final, Stages, Early
    <2>3. trouble' \subseteq Troubles
      BY <1>t, <1>8 DEF Final, Troubles
    <2> QED
      BY <1>t, <1>8, <2>1, <2>2, <2>3, TypeKept DEF Final
  <1>9. ASSUME NEW r \in Request, Delete(r) PROVE Q
    <2>1. RowType'
      BY <1>t, <1>9 DEF Delete, RowType
    <2>2. RequestType' /\ BrokerType'
      BY <1>t, <1>9, BrokerKept, RequestKept DEF Delete, Stages, Early
    <2> QED
      BY <1>t, <1>9, <2>1, <2>2, TypeKept DEF Delete
  <1>10. ASSUME NEW r \in Request, SendRefused(r) PROVE Q
    <2>1. BrokerType'
      BY <1>t, <1>10, SettleType, ValidationAssumption DEF SendRefused, Outcomes, Open
    <2> QED
      BY <1>t, <1>10, <2>1, TypeKept DEF SendRefused
  <1>11. ASSUME NEW r \in Request, Timeout(r) PROVE Q
    <2>1. BrokerType'
      BY <1>t, <1>11 DEF Timeout, RequestType, BrokerType, Outcomes, Early
    <2> QED
      BY <1>t, <1>11, <2>1, TypeKept DEF Timeout, Troubles
  <1>12. CASE SettleLocal
    <2>1. results # <<>> /\ Head(results) \in Path \cup {NoPath} /\ Tail(results) \in Seq(Path \cup {NoPath})
      BY <1>t, <1>12 DEF SettleLocal, AgentType
    <2>2. BrokerType'
      <3> DEFINE value == IF Head(results) = NoPath THEN "invalid" ELSE Head(results)
      <3>1. value \in Outcomes \ {Open}
        BY <2>1, ValidationAssumption DEF Outcomes, Open
      <3>2. IF entry = NoRequest THEN UNCHANGED <<outcome, entry, timers>> ELSE Settle(entry, value)
        BY <1>12 DEF SettleLocal
      <3> HIDE DEF value
      <3> QED
        BY <1>t, <1>12, <3>1, <3>2, SettleType DEF SettleLocal
    <2>3. AgentType'
      BY <1>t, <1>12, <2>1 DEF SettleLocal, AgentType
    <2> QED
      BY <1>t, <1>12, <2>2, <2>3, TypeKept DEF SettleLocal
  <1>13. CASE Validate
    <2>1. Head(orders) \in Path /\ Tail(orders) \in Seq(Path)
      BY <1>t, <1>13 DEF Validate, AgentType
    <2>2. AgentType'
      BY <1>t, <1>13, <2>1, ValidationAssumption DEF Validate, AgentType
    <2> QED
      BY <1>t, <1>13, <2>2, TypeKept DEF Validate, serverVars
  <1>14. CASE Drop
    <2>1. BrokerType'
      BY <1>t, <1>14, SettleType, ValidationAssumption DEF Drop, Outcomes, Open
    <2>2. AgentType'
      <3>1. <<>> \in Seq(Path) /\ <<>> \in Seq(Path \cup {NoPath})
        OBVIOUS
      <3> QED
        BY <1>t, <1>14, <3>1 DEF Drop, AgentType
    <2> QED
      BY <1>t, <1>14, <2>1, <2>2, TypeKept DEF Drop, Troubles
  <1>15. CASE Reconnect
    <2>1. AgentType'
      BY <1>t, <1>15 DEF Reconnect, AgentType
    <2> QED
      BY <1>t, <1>15, <2>1, TypeKept DEF Reconnect, serverVars
  <1>16. CASE Crash
    <2>1. RequestType'
      BY <1>t, <1>16 DEF Crash, Active, RequestType, Stages
    <2>2. BrokerType'
      BY <1>t, <1>16 DEF Crash, Active, BrokerType, RequestType, Outcomes, Early
    <2>3. AgentType'
      <3>1. <<>> \in Seq(Path) /\ <<>> \in Seq(Path \cup {NoPath})
        OBVIOUS
      <3> QED
        BY <1>t, <1>16, <3>1 DEF Crash, AgentType
    <2> QED
      BY <1>t, <1>16, <2>1, <2>2, <2>3, TypeKept DEF Crash, Troubles
  <1>17. CASE UNCHANGED vars
    BY <1>t, <1>17, TypeKept DEF vars, serverVars
  <1> QED
    BY <1>1, <1>2, <1>3, <1>4, <1>5, <1>6, <1>7, <1>8, <1>9, <1>10, <1>11, <1>12, <1>13, <1>14,
       <1>15, <1>16, <1>17 DEF Next, Handler

\* Every reachable state is well typed; in particular the entry and the timers are
\* of requests that still await their validation.
THEOREM TypeCorrect == Spec => []TypeOK
  BY TypeInit, TypeStep, PTL DEF Spec

-----------------------------------------------------------------------------
(* Enabled rows                                                            *)

\* What the agent answered it has registered, on the wire and in the promises.
Answers ==
  /\ \A i \in 1..Len(results) : results[i] \in vouched \cup {NoPath}
  /\ \A r \in Request : outcome[r] \in Path => outcome[r] \in vouched

\* Whoever has seen the row enabled has seen a path that was vouched for, and the
\* row has had no other since: its path changes only to one that was.
VouchInv ==
  /\ Answers
  /\ "flag" \notin trouble /\ (row.enabled \/ \E r \in Request : was[r]) => row.path \in vouched

\* Every step keeps Answers.
LEMMA AnswersStep == TypeOK /\ Answers /\ [Next]_vars => Answers' /\ vouched \subseteq vouched'
  <1> SUFFICES ASSUME TypeOK, Answers, [Next]_vars PROVE Answers' /\ vouched \subseteq vouched'
    OBVIOUS
  <1> USE DEF Answers
  <1>t. /\ RequestType /\ BrokerType
        /\ orders \in Seq(Path) /\ results \in Seq(Path \cup {NoPath})
        /\ vouched \subseteq Path
    BY DEF TypeOK, AgentType
  <1> DEFINE Q == Answers' /\ vouched \subseteq vouched'
  <1>s. ASSUME NEW value, value \in Path => value \in vouched,
               UNCHANGED vouched,
               IF entry = NoRequest THEN UNCHANGED <<outcome, entry, timers>> ELSE Settle(entry, value)
        PROVE  \A r \in Request : outcome'[r] \in Path => outcome'[r] \in vouched'
    BY <1>s, <1>t DEF Settle, BrokerType
  <1>1. ASSUME NEW r \in Request, SendRefused(r) PROVE Q
    BY <1>t, <1>1, <1>s, ValidationAssumption DEF SendRefused, agentVars
  <1>2. ASSUME NEW r \in Request, Timeout(r) PROVE Q
    BY <1>t, <1>2, ValidationAssumption DEF Timeout, agentVars, BrokerType
  <1>3. CASE SettleLocal
    <2> DEFINE value == IF Head(results) = NoPath THEN "invalid" ELSE Head(results)
    <2>1. results # <<>> /\ Len(results) \in Nat /\ Len(results) >= 1 /\ Head(results) = results[1]
      BY <1>t, <1>3 DEF SettleLocal
    <2>2. value \in Path => value \in vouched
      BY <2>1, ValidationAssumption
    <2>3. /\ UNCHANGED vouched
          /\ IF entry = NoRequest THEN UNCHANGED <<outcome, entry, timers>> ELSE Settle(entry, value)
      BY <1>3 DEF SettleLocal
    <2> HIDE DEF value
    <2>4. \A r \in Request : outcome'[r] \in Path => outcome'[r] \in vouched'
      BY <1>s, <2>2, <2>3
    <2>5. results' = Tail(results)
      BY <1>3 DEF SettleLocal
    <2>6. Len(results') = Len(results) - 1 /\ \A i \in 1..Len(results') : results'[i] = results[i + 1]
      BY <1>t, <2>1, <2>5
    <2>7. \A i \in 1..Len(results') : results'[i] \in vouched' \cup {NoPath}
      BY <2>1, <2>3, <2>6
    <2> QED
      BY <2>3, <2>4, <2>7
  <1>4. CASE Validate
    <2>1. PICK valid \in BOOLEAN :
            LET root == IF valid THEN Canonical[Head(orders)] ELSE NoPath IN
            /\ results' = Append(results, root)
            /\ vouched' = vouched \cup ({root} \ {NoPath})
      BY <1>4 DEF Validate
    <2> DEFINE root == IF valid THEN Canonical[Head(orders)] ELSE NoPath
    <2>2. root \in Path \cup {NoPath}
      BY <1>t, <1>4, ValidationAssumption DEF Validate
    <2>3. results' = Append(results, root) /\ vouched' = vouched \cup ({root} \ {NoPath})
      BY <2>1
    <2> HIDE DEF root
    <2>4. \A i \in 1..Len(results') : results'[i] \in vouched' \cup {NoPath}
      BY <1>t, <2>2, <2>3
    <2>5. outcome' = outcome
      BY <1>4 DEF Validate, serverVars
    <2> QED
      BY <2>3, <2>4, <2>5
  <1>5. CASE Drop
    <2>1. \A r \in Request : outcome'[r] \in Path => outcome'[r] \in vouched'
      BY <1>5, <1>s, ValidationAssumption DEF Drop
    <2>2. results' = <<>> /\ vouched' = vouched
      BY <1>5 DEF Drop
    <2> QED
      BY <2>1, <2>2
  <1>6. CASE Crash
    <2>1. \A r \in Request : outcome'[r] \in Path => outcome'[r] \in vouched
      BY <1>6, ValidationAssumption DEF Crash
    <2>2. results' = <<>> /\ vouched' = vouched
      BY <1>6 DEF Crash
    <2> QED
      BY <2>1, <2>2
  <1>7. CASE UNCHANGED <<outcome, results, vouched>>
    BY <1>7
  <1> QED
    BY <1>1, <1>2, <1>3, <1>4, <1>5, <1>6, <1>7
    DEF Next, Handler, vars, serverVars, agentVars, Begin, Insert, Disable, Check, Register, Apply,
        Undo, Final, Delete, Reconnect

\* Every step keeps VouchInv.
LEMMA VouchStep == TypeOK /\ VouchInv /\ [Next]_vars => VouchInv'
  <1> SUFFICES ASSUME TypeOK, VouchInv, [Next]_vars PROVE VouchInv'
    OBVIOUS
  <1>a. Answers' /\ vouched \subseteq vouched'
    BY AnswersStep DEF VouchInv
  <1>t. /\ row \in [exists : BOOLEAN, path : Path \cup {NoPath}, enabled : BOOLEAN]
        /\ was \in [Request -> BOOLEAN]
        /\ vouched \subseteq Path
        /\ row.exists => row.path \in Path
    BY DEF TypeOK, RowType, RequestType, AgentType
  <1> DEFINE Seen == "flag" \notin trouble /\ (row.enabled \/ \E r \in Request : was[r]) =>
                       row.path \in vouched
  <1>b. Seen
    BY DEF VouchInv
  <1>1. ASSUME NEW r \in Request, NEW b \in Body, Begin(r, b) PROVE Seen'
    BY <1>t, <1>b, <1>1 DEF Begin, agentVars
  <1>2. ASSUME NEW r \in Request, Insert(r) PROVE Seen'
    BY <1>t, <1>b, <1>2, ValidationAssumption DEF Insert, agentVars
  <1>3. ASSUME NEW r \in Request, Disable(r) PROVE Seen'
    BY <1>t, <1>b, <1>3 DEF Disable, agentVars
  <1>4. ASSUME NEW r \in Request, Apply(r) PROVE Seen'
    <2>1. outcome[r] \in vouched
      BY <1>4 DEF Apply, VouchInv, Answers
    <2>2. "flag" \notin trouble' => "flag" \notin trouble
      BY <1>4 DEF Apply
    <2> QED
      BY <1>t, <1>b, <1>4, <2>1, <2>2 DEF Apply, agentVars
  <1>5. ASSUME NEW r \in Request, Undo(r) PROVE Seen'
    BY <1>t, <1>b, <1>5 DEF Undo, agentVars
  <1>6. ASSUME NEW r \in Request, Final(r) PROVE Seen'
    BY <1>t, <1>b, <1>6 DEF Final, agentVars
  <1>7. ASSUME NEW r \in Request, Delete(r) PROVE Seen'
    BY <1>t, <1>b, <1>7 DEF Delete, agentVars
  <1>8. ASSUME UNCHANGED <<row, was>>, trouble \subseteq trouble' PROVE Seen'
    BY <1>a, <1>b, <1>8
  <1>9. Seen'
    BY <1>1, <1>2, <1>3, <1>4, <1>5, <1>6, <1>7, <1>8
    DEF Next, Handler, vars, serverVars, Check, Register, SendRefused, Timeout, SettleLocal, Validate,
        Drop, Reconnect, Crash
  <1> QED
    BY <1>a, <1>9 DEF VouchInv

\* An enabled row has a path that the agent validated and registered for this
\* repository, however many requests overlap and whichever of them a late result,
\* a timeout or a refusal settles, unless a PATCH set the flag by itself.
THEOREM EnabledCorrect == Spec => []EnabledVouched
  <1>1. Init => VouchInv
    <2> SUFFICES ASSUME Init PROVE VouchInv
      OBVIOUS
    <2>1. Answers
      BY ValidationAssumption DEF Init, Answers, Open
    <2>2. row.enabled => row.path \in vouched
      BY ValidationAssumption DEF Init
    <2>3. \A r \in Request : ~ was[r]
      BY DEF Init
    <2> QED
      BY <2>1, <2>2, <2>3 DEF VouchInv
  <1>2. TypeOK /\ VouchInv /\ [Next]_vars => VouchInv'
    BY VouchStep
  <1>3. VouchInv => EnabledVouched
    BY DEF VouchInv, EnabledVouched
  <1> QED
    BY <1>1, <1>2, <1>3, TypeCorrect, PTL DEF Spec

-----------------------------------------------------------------------------
(* The agent's registry                                                    *)

\* Nothing has happened that can part the row from the registry.
Calm == trouble \subseteq {"off"}

Waiting(r) == pc[r] = "wait" /\ outcome[r] = Open

\* The stages that a request of each kind goes through.
KindInv ==
  \A r \in Active :
    /\ input[r].kind = "create" => pc[r] \in {"insert", "check", "ask", "wait", "undo"}
    /\ input[r].kind = "patch" => pc[r] \in {"update", "check", "ask", "wait", "undo", "final"}
    /\ input[r].kind = "delete" => pc[r] = "remove"

\* One request is active, and if it awaits its validation then either its order, or
\* the result, or the refusal to send it is on its way; otherwise nothing is.
Pipe ==
  /\ \A r, s \in Active : r = s
  /\ \A r \in Request : Waiting(r) => entry = r
  /\ \/ orders = <<>> /\ results = <<>> /\ unsent = {}
     \/ entry # NoRequest /\ Len(orders) = 1 /\ results = <<>> /\ unsent = {}
     \/ entry # NoRequest /\ orders = <<>> /\ Len(results) = 1 /\ unsent = {}
     \/ entry # NoRequest /\ orders = <<>> /\ results = <<>> /\ unsent = {entry}

Sound == registry = row.path
Flagged == row.enabled \/ "off" \in trouble

\* The agent has registered a path that the row is yet to be given.
Ahead(r) ==
  \/ pc[r] = "wait" /\ outcome[r] \in Path
  \/ Waiting(r) /\ results # <<>> /\ Head(results) # NoPath

\* What an active request knows of the row and the registry.
Agrees(r) ==
  /\ pc[r] = "wait" /\ outcome[r] \in Path => registry = outcome[r]
  /\ Waiting(r) /\ results # <<>> => Head(results) \in {NoPath, registry}
  /\ row.exists /\ input[r].kind = "patch" =>
       /\ was[r] \/ "off" \in trouble
       /\ Ahead(r) \/ Sound
       /\ pc[r] \in {"update", "final"} => Flagged
  /\ row.exists /\ input[r].kind = "create" => pc[r] # "insert" /\ ~ row.enabled

\* Between requests the registry has the row's path.
Agree ==
  /\ Active = {} /\ row.exists => Sound /\ Flagged
  /\ \A r \in Active : Agrees(r)

CalmInv == Calm => Pipe /\ Agree

\* Every step keeps KindInv.
LEMMA KindStep == TypeOK /\ KindInv /\ [Next]_vars => KindInv'
  <1> SUFFICES ASSUME TypeOK, KindInv, [Next]_vars PROVE KindInv'
    OBVIOUS
  <1>t. RequestType
    BY DEF TypeOK
  <1> USE <1>t DEF KindInv, Active, RequestType, Goto
  <1>1. ASSUME NEW r \in Request, NEW b \in Body, Begin(r, b) PROVE KindInv'
    BY <1>1 DEF Begin
  <1>2. ASSUME NEW r \in Request, Handler(r) PROVE KindInv'
    <2>1. CASE Apply(r)
      BY <2>1, ValidationAssumption DEF Apply
    <2>2. CASE Register(r)
      BY <2>2 DEF Register
    <2>3. CASE Insert(r) \/ Disable(r) \/ Check(r)
      BY <2>3 DEF Insert, Disable, Check
    <2>4. CASE Undo(r) \/ Final(r) \/ Delete(r)
      BY <2>4 DEF Undo, Final, Delete
    <2> QED
      BY <1>2, <2>1, <2>2, <2>3, <2>4 DEF Handler
  <1>3. CASE Crash
    BY <1>3 DEF Crash
  <1>4. CASE UNCHANGED <<pc, input>>
    BY <1>4
  <1> QED
    BY <1>1, <1>2, <1>3, <1>4
    DEF Next, vars, serverVars, SendRefused, Timeout, SettleLocal, Validate, Drop, Reconnect

\* The only active request goes on, or ends and leaves none.
LEMMA OnlyActive ==
  ASSUME TypeOK, \A r, s \in Active : r = s, NEW r \in Active, NEW stage \in Stages, Goto(r, stage)
  PROVE  /\ stage \in {"idle", "done"} => Active' = {}
         /\ stage \notin {"idle", "done"} => Active' = {r}
  <1>1. r \in Request /\ pc \in [Request -> Stages] /\ pc' = [pc EXCEPT ![r] = stage]
    BY DEF TypeOK, RequestType, Active, Goto
  <1>2. ASSUME NEW x \in Request, x # r PROVE pc'[x] \in {"idle", "done"}
    BY <1>1, <1>2 DEF Active
  <1>3. pc'[r] = stage
    BY <1>1
  <1> QED
    BY <1>1, <1>2, <1>3 DEF Active

\* What remains of a sequence of one element.
LEMMA TailOfOne ==
  ASSUME NEW S, NEW s \in Seq(S), Len(s) = 1
  PROVE  Tail(s) = <<>>
  <1>1. Tail(s) \in Seq(S) /\ Len(Tail(s)) = 0
    OBVIOUS
  <1> QED
    BY <1>1, EmptySeq

\* The request that has the entry is active, and awaits its validation.
LEMMA EntryWaits ==
  ASSUME TypeOK
  PROVE  entry # NoRequest => entry \in Active /\ Waiting(entry)
  BY DEF TypeOK, BrokerType, Active, Waiting

\* A step of a request that does not involve the broker keeps Pipe.
LEMMA PipeKept ==
  ASSUME TypeOK, Pipe, NEW r \in Active, NEW stage \in Stages \ {"wait"}, Goto(r, stage),
         UNCHANGED <<entry, orders, results, unsent, outcome>>
  PROVE  Pipe'
  <1>1. \A x, y \in Active' : x = y
    BY OnlyActive DEF Pipe
  <1>2. \A x \in Request : Waiting(x)' => Waiting(x)
    BY DEF Waiting, Goto, TypeOK, RequestType
  <1> QED
    BY <1>1, <1>2 DEF Pipe

\* Every step that stays calm keeps Pipe.
LEMMA PipeStep == TypeOK /\ KindInv /\ CalmInv /\ [Next]_vars /\ Calm' => Calm /\ Pipe'
  <1> SUFFICES ASSUME TypeOK, KindInv, CalmInv, [Next]_vars, Calm' PROVE Calm /\ Pipe'
    OBVIOUS
  <1>c. Calm
    BY DEF Calm, Next, Handler, vars, serverVars, Begin, Insert, Disable, Check, Register, Apply,
           Undo, Final, Delete, SendRefused, Timeout, SettleLocal, Validate, Drop, Reconnect, Crash
  <1>p. Pipe
    BY <1>c DEF CalmInv
  <1>t. /\ orders \in Seq(Path) /\ results \in Seq(Path \cup {NoPath})
        /\ pc \in [Request -> Stages] /\ outcome \in [Request -> Outcomes]
        /\ entry \in Request \cup {NoRequest}
    BY DEF TypeOK, AgentType, RequestType, BrokerType
  <1>e. entry # NoRequest => entry \in Active /\ Waiting(entry)
    BY EntryWaits
  <1>1. ASSUME NEW r \in Request, NEW b \in Body, Begin(r, b) PROVE Pipe'
    <2>1. Active = {}
      BY <1>1 DEF Begin, Calm
    <2>2. Active' \subseteq {r}
      BY <1>t, <1>1, <2>1 DEF Begin, Active, Goto
    <2>3. \A x \in Request : ~ Waiting(x)'
      BY <1>t, <1>1, <2>1 DEF Begin, Active, Goto, Waiting
    <2> QED
      BY <1>1, <1>p, <1>e, <2>1, <2>2, <2>3 DEF Begin, Pipe, agentVars
  <1>2. ASSUME NEW r \in Request, Insert(r) \/ Disable(r) \/ Check(r) PROVE Pipe'
    BY <1>2, <1>p, PipeKept DEF Insert, Disable, Check, Active, Stages, agentVars
  <1>3. ASSUME NEW r \in Request, Apply(r) PROVE Pipe'
    BY <1>3, <1>p, PipeKept DEF Apply, Active, Stages, agentVars
  <1>4. ASSUME NEW r \in Request, Undo(r) \/ Final(r) \/ Delete(r) PROVE Pipe'
    BY <1>4, <1>p, PipeKept DEF Undo, Failed, Final, Delete, Active, Stages, agentVars
  <1>5. ASSUME NEW r \in Request, Register(r) PROVE Pipe'
    <2>1. r \in Active /\ entry = NoRequest
      BY <1>5, <1>p, <1>e DEF Register, Active, Pipe, Waiting
    <2>2. orders = <<>> /\ results = <<>> /\ unsent = {}
      BY <1>p, <2>1 DEF Pipe
    <2>3. CASE ~ online
      BY <1>5, <1>p, <2>1, <2>3, PipeKept DEF Register, Stages
    <2>4. CASE online
      <3>1. Goto(r, "wait") /\ entry' = r /\ results' = <<>> /\ outcome' = outcome
        BY <1>5, <2>2, <2>4 DEF Register
      <3>2. Active' = {r}
        BY <1>p, <2>1, <3>1, OnlyActive DEF Stages, Pipe
      <3>3. \A x \in Request : Waiting(x)' => x = r
        BY <3>2 DEF Waiting, Active
      <3>4. \/ Len(orders') = 1 /\ unsent' = {}
            \/ orders' = <<>> /\ unsent' = {r}
        BY <1>5, <2>2, <2>4 DEF Register
      <3>5. r # NoRequest
        BY ValidationAssumption
      <3> QED
        BY <3>1, <3>2, <3>3, <3>4, <3>5 DEF Pipe
    <2> QED
      BY <2>3, <2>4
  <1>s. ASSUME NEW value \in Outcomes \ {Open}, Settle(entry, value), entry # NoRequest,
               pc' = pc, orders' = <<>>, results' = <<>>, unsent' = {}
        PROVE  Pipe'
    <2>1. \A x \in Request : ~ Waiting(x)'
      BY <1>t, <1>s, <1>p DEF Settle, Pipe, Waiting
    <2> QED
      BY <1>s, <1>p, <2>1 DEF Pipe, Active
  <1>6. ASSUME NEW r \in Request, SendRefused(r) PROVE Pipe'
    <2>1. entry # NoRequest /\ orders = <<>> /\ results = <<>> /\ unsent = {entry} /\ r = entry
      BY <1>6, <1>p DEF SendRefused, Pipe
    <2>2. Settle(entry, "error") /\ pc' = pc /\ orders' = <<>> /\ results' = <<>> /\ unsent' = {}
      BY <1>6, <2>1 DEF SendRefused, agentVars
    <2>3. "error" \in Outcomes \ {Open}
      BY DEF Outcomes, Open
    <2> QED
      BY <1>s, <2>1, <2>2, <2>3
  <1>7. CASE SettleLocal
    <2>1. results # <<>> /\ entry # NoRequest /\ orders = <<>> /\ Len(results) = 1 /\ unsent = {}
      BY <1>t, <1>7, <1>p DEF SettleLocal, Pipe
    <2> DEFINE value == IF Head(results) = NoPath THEN "invalid" ELSE Head(results)
    <2>2. value \in Outcomes \ {Open}
      BY <1>t, <2>1, ValidationAssumption DEF Outcomes, Open
    <2>3. Tail(results) = <<>>
      BY <1>t, <2>1, TailOfOne
    <2>4. Settle(entry, value) /\ pc' = pc /\ orders' = <<>> /\ results' = <<>> /\ unsent' = {}
      BY <1>7, <2>1, <2>3 DEF SettleLocal
    <2> HIDE DEF value
    <2> QED
      BY <1>c, <1>s, <2>1, <2>2, <2>4
  <1>8. CASE Validate
    <2>1. orders # <<>> /\ entry # NoRequest /\ Len(orders) = 1 /\ results = <<>> /\ unsent = {}
      BY <1>t, <1>8, <1>p DEF Validate, Pipe
    <2>2. Tail(orders) = <<>>
      BY <1>t, <2>1, TailOfOne
    <2>3. orders' = <<>> /\ Len(results') = 1 /\ UNCHANGED <<pc, outcome, entry, unsent>>
      BY <1>8, <2>1, <2>2 DEF Validate, serverVars
    <2> QED
      BY <1>c, <1>p, <2>1, <2>3 DEF Pipe, Active, Waiting
  <1>9. CASE UNCHANGED <<pc, outcome, entry, unsent, orders, results>>
    BY <1>c, <1>9, <1>p DEF Pipe, Active, Waiting
  <1>10. ~ Drop /\ ~ Crash /\ \A r \in Request : ~ Timeout(r)
    <2>1. "gave up" \notin trouble' /\ "drop" \notin trouble' /\ "crash" \notin trouble'
      BY DEF Calm
    <2> QED
      BY <2>1 DEF Drop, Crash, Timeout
  <1> QED
    BY <1>c, <1>1, <1>2, <1>3, <1>4, <1>5, <1>6, <1>7, <1>8, <1>9, <1>10
    DEF Next, Handler, vars, serverVars, agentVars, Reconnect

\* Every step that stays calm keeps Agree.
LEMMA AgreeStep ==
  TypeOK /\ KindInv /\ CalmInv /\ [Next]_vars /\ Calm' => Agree'
  <1> SUFFICES ASSUME TypeOK, KindInv, CalmInv, [Next]_vars, Calm' PROVE Agree'
    OBVIOUS
  <1>c. Calm /\ Pipe'
    BY PipeStep
  <1>p. Pipe /\ Agree
    BY <1>c DEF CalmInv
  <1>t. /\ row \in [exists : BOOLEAN, path : Path \cup {NoPath}, enabled : BOOLEAN]
        /\ pc \in [Request -> Stages] /\ input \in [Request -> Body \cup {NoPath}]
        /\ was \in [Request -> BOOLEAN]
        /\ outcome \in [Request -> Outcomes]
        /\ orders \in Seq(Path) /\ results \in Seq(Path \cup {NoPath})
    BY DEF TypeOK, AgentType, RequestType, BrokerType, RowType
  <1>e. entry # NoRequest => entry \in Active /\ Waiting(entry)
    BY EntryWaits
  <1>k. \A r \in Active : r \in Request /\ input[r].kind \in {"create", "patch", "delete"}
    BY ValidationAssumption DEF TypeOK, RequestType, Active
  <1>o. ASSUME NEW r \in Active, NEW stage \in Stages, Goto(r, stage)
        PROVE  /\ stage \in {"idle", "done"} => Active' = {}
               /\ stage \notin {"idle", "done"} => Active' = {r}
               /\ pc'[r] = stage
    BY <1>o, <1>t, <1>p, OnlyActive DEF Pipe, Goto, Active
  <1>1. ASSUME NEW r \in Request, NEW b \in Body, Begin(r, b) PROVE Agree'
    <2>1. Active = {} /\ (row.exists => Sound /\ Flagged)
      BY <1>1, <1>p DEF Begin, Calm, Agree
    <2>2. Active' \subseteq {r}
      BY <1>t, <1>1, <2>1 DEF Begin, Active, Goto
    <2>3. (Sound' <=> Sound) /\ (Flagged => Flagged') /\ row' = row
      BY <1>1 DEF Begin, Sound, Flagged, agentVars
    <2>4. pc'[r] # "wait" /\ input'[r] = b /\ was'[r] = row.enabled
      BY <1>t, <1>1 DEF Begin, Goto
    <2>5. row.exists /\ b.kind = "create" => pc'[r] \in {"idle", "done"}
      BY <1>1, ValidationAssumption DEF Begin, TypeOK, RowType
    <2>6. r \in Active' => Agrees(r)'
      BY <2>1, <2>3, <2>4, <2>5 DEF Agrees, Ahead, Waiting, Flagged, Active
    <2> QED
      BY <2>1, <2>2, <2>3, <2>6 DEF Agree
  <1>2. ASSUME NEW r \in Request, Insert(r) PROVE Agree'
    <2>1. r \in Active /\ Agrees(r) /\ input[r].kind = "create"
      BY <1>2, <1>k, <1>p DEF Insert, Active, Agree, KindInv
    <2>2. ~ row.exists
      BY <1>2, <2>1 DEF Insert, Agrees
    <2>3. CASE Goto(r, "done") /\ row' = row
      BY <1>o, <2>1, <2>2, <2>3 DEF Agree, Stages
    <2>4. CASE Goto(r, "check") /\ row' = [exists |-> TRUE, path |-> input[r].path, enabled |-> FALSE]
      <3>1. Active' = {r} /\ pc'[r] = "check"
        BY <1>o, <2>1, <2>4 DEF Stages
      <3>2. input' = input /\ ~ row'.enabled
        BY <1>2, <2>4 DEF Insert
      <3> QED
        BY <2>1, <3>1, <3>2 DEF Agree, Agrees, Waiting
    <2> QED
      BY <1>2, <2>3, <2>4 DEF Insert
  <1>3. ASSUME NEW r \in Request, Disable(r) PROVE Agree'
    <2>1. r \in Active /\ Agrees(r) /\ input[r].kind = "patch"
      BY <1>3, <1>k, <1>p DEF Disable, Active, Agree, KindInv
    <2>2. row.exists => Sound /\ Flagged /\ (was[r] \/ "off" \in trouble)
      BY <1>3, <2>1 DEF Disable, Agrees, Ahead, Waiting
    <2>3. CASE Goto(r, "done") /\ row' = row
      <3>1. (Sound' <=> Sound) /\ (Flagged' <=> Flagged)
        BY <1>3, <2>3 DEF Disable, Sound, Flagged, agentVars
      <3> QED
        BY <1>o, <2>1, <2>2, <2>3, <3>1 DEF Agree, Stages
    <2>4. CASE Goto(r, "check") /\ row' = [row EXCEPT !.enabled = FALSE]
      <3>1. Active' = {r} /\ pc'[r] = "check"
        BY <1>o, <2>1, <2>4 DEF Stages
      <3>2. /\ input' = input /\ was' = was /\ trouble' = trouble
            /\ row'.exists <=> row.exists
            /\ Sound' <=> Sound
        BY <1>t, <1>3, <2>4 DEF Disable, Sound, agentVars
      <3> QED
        BY <2>1, <2>2, <3>1, <3>2 DEF Agree, Agrees, Waiting
    <2> QED
      BY <1>3, <2>3, <2>4 DEF Disable
  <1>4. ASSUME NEW r \in Request, NEW stage \in Stages, Goto(r, stage),
               pc[r] \in {"check", "ask"}, stage \in {"ask", "undo", "wait"}, results' = <<>>,
               UNCHANGED <<row, input, was, outcome, registry, trouble>>
        PROVE  Agree'
    <2>1. r \in Active /\ Agrees(r) /\ input[r].kind \in {"create", "patch"}
      BY <1>4, <1>k, <1>p DEF Active, Agree, KindInv
    <2>2. Active' = {r} /\ pc'[r] = stage
      BY <1>4, <1>o, <2>1
    <2>3. outcome[r] = Open
      BY <1>4 DEF TypeOK, BrokerType, Early
    <2>4. ~ Ahead(r) /\ (Sound' <=> Sound)
      BY <1>4 DEF Ahead, Waiting, Sound
    <2>5. Open \notin Path
      BY ValidationAssumption DEF Open
    <2> QED
      BY <1>4, <2>1, <2>2, <2>3, <2>4, <2>5 DEF Agree, Agrees, Waiting
  <1>5. ASSUME NEW r \in Request, Check(r) PROVE Agree'
    <2>1. r \in Active /\ entry = NoRequest
      BY <1>5, <1>p, <1>e DEF Check, Active, Pipe, Waiting
    <2>2. results = <<>>
      BY <1>p, <2>1 DEF Pipe
    <2> QED
      BY <1>4, <1>5, <2>2 DEF Check, Stages, agentVars
  <1>6. ASSUME NEW r \in Request, Register(r) PROVE Agree'
    <2>1. r \in Active /\ entry = NoRequest
      BY <1>6, <1>p, <1>e DEF Register, Active, Pipe, Waiting
    <2>2. results = <<>>
      BY <1>p, <2>1 DEF Pipe
    <2> QED
      BY <1>4, <1>6, <2>2 DEF Register, Stages
  <1>7. ASSUME NEW r \in Request, Apply(r) PROVE Agree'
    <2>1. r \in Active /\ Agrees(r) /\ input[r].kind \in {"create", "patch"} /\ registry = outcome[r]
      BY <1>7, <1>k, <1>p DEF Apply, Active, Agree, Agrees, KindInv
    <2>2. "taken" \notin trouble'
      BY DEF Calm
    <2>3. /\ row.exists
          /\ row' = [row EXCEPT !.path = outcome[r], !.enabled = Applied(r)]
          /\ Goto(r, IF input[r].kind = "create" THEN "done" ELSE "final")
          /\ trouble' = IF Applied(r) THEN trouble ELSE trouble \cup {"off"}
          /\ UNCHANGED <<input, was, registry, outcome>>
      BY <1>7, <2>2 DEF Apply, agentVars
    <2>4. Sound' /\ Flagged'
      BY <1>t, <2>1, <2>3 DEF Sound, Flagged
    <2>5. CASE input[r].kind = "create"
      BY <1>o, <2>1, <2>3, <2>4, <2>5 DEF Agree, Stages
    <2>6. CASE input[r].kind = "patch"
      <3>1. Active' = {r} /\ pc'[r] = "final"
        BY <1>o, <2>1, <2>3, <2>6 DEF Stages
      <3>2. was'[r] \/ "off" \in trouble'
        BY <2>1, <2>3, <2>6 DEF Agrees
      <3> QED
        BY <2>3, <2>4, <2>6, <3>1, <3>2 DEF Agree, Agrees, Waiting
    <2> QED
      BY <2>1, <2>5, <2>6
  <1>8. ASSUME NEW r \in Request, Undo(r) PROVE Agree'
    <2>1. r \in Active /\ Agrees(r) /\ input[r].kind \in {"create", "patch"}
      BY <1>8, <1>k, <1>p DEF Undo, Failed, Active, Agree, KindInv
    <2>2. Active' = {}
      BY <1>8, <1>o, <2>1 DEF Undo, Stages
    <2>3. UNCHANGED <<registry, trouble>>
      BY <1>8 DEF Undo, agentVars
    <2>4. CASE row.exists /\ input[r].kind = "create"
      <3>1. ~ row'.exists
        BY <1>t, <1>8, <2>1, <2>4 DEF Undo, Agrees
      <3> QED
        BY <2>2, <3>1 DEF Agree
    <2>5. CASE row.exists /\ input[r].kind = "patch"
      <3>1. ~ Ahead(r)
        BY <1>8, ValidationAssumption DEF Undo, Failed, Ahead, Waiting, Open
      <3>2. Sound /\ (was[r] \/ "off" \in trouble)
        BY <2>1, <2>5, <3>1 DEF Agrees
      <3>3. row' = [row EXCEPT !.enabled = was[r]]
        BY <1>8, <2>5 DEF Undo
      <3>4. Sound' /\ Flagged'
        BY <1>t, <2>3, <3>2, <3>3 DEF Sound, Flagged
      <3> QED
        BY <2>2, <3>4 DEF Agree
    <2>6. CASE ~ row.exists
      BY <1>8, <2>2, <2>6 DEF Undo, Agree
    <2> QED
      BY <2>1, <2>4, <2>5, <2>6
  <1>9. ASSUME NEW r \in Request, Final(r) PROVE Agree'
    <2>1. r \in Active /\ Agrees(r) /\ input[r].kind = "patch"
      BY <1>9, <1>k, <1>p DEF Final, Active, Agree, KindInv
    <2>2. Active' = {}
      BY <1>9, <1>o, <2>1 DEF Final, Stages
    <2>3. "flag" \notin trouble'
      BY DEF Calm
    <2>4. UNCHANGED <<row, trouble, registry>>
      BY <1>9, <2>3 DEF Final, agentVars
    <2>5. row.exists => Sound /\ Flagged
      BY <1>9, <2>1 DEF Final, Agrees, Ahead, Waiting
    <2> QED
      BY <2>2, <2>4, <2>5 DEF Agree, Sound, Flagged
  <1>10. ASSUME NEW r \in Request, Delete(r) PROVE Agree'
    <2>1. r \in Active
      BY <1>10 DEF Delete, Active
    <2> QED
      BY <1>t, <1>10, <1>o, <2>1 DEF Delete, Agree, Stages
  <1>s. ASSUME NEW e \in Active, e = entry, NEW value \in Outcomes \ {Open}, Settle(e, value),
               entry # NoRequest, UNCHANGED <<pc, input, was, row, registry, trouble>>,
               value \in Path => registry = value,
               value \notin Path => results = <<>> \/ Head(results) = NoPath
        PROVE  Agree'
    <2>1. Active' = Active /\ \A r \in Active : r = e
      BY <1>s, <1>p DEF Pipe, Active
    <2>2. Agrees(e) /\ Waiting(e)
      BY <1>p, <1>e, <1>s DEF Agree
    <2>3. pc'[e] = "wait" /\ outcome'[e] = value
      BY <1>s, <1>t, <1>k, <2>2 DEF Settle, Waiting
    <2>4. value \notin Path => ~ Ahead(e)
      BY <1>s, <2>2, ValidationAssumption DEF Ahead, Waiting, Open
    <2>5. (Sound' <=> Sound) /\ (Flagged' <=> Flagged)
      BY <1>s DEF Sound, Flagged
    <2>6. ~ Waiting(e)' /\ (value \in Path => Ahead(e)')
      BY <2>3 DEF Waiting, Ahead
    <2>7. Agrees(e)'
      BY <1>s, <2>2, <2>3, <2>4, <2>5, <2>6 DEF Agrees
    <2> QED
      BY <1>s, <2>1, <2>7 DEF Agree
  <1>11. ASSUME NEW r \in Request, SendRefused(r) PROVE Agree'
    <2>1. entry # NoRequest /\ results = <<>>
      BY <1>11, <1>p DEF SendRefused, Pipe
    <2>2. Settle(entry, "error") /\ UNCHANGED <<pc, input, was, row, registry, trouble>>
      BY <1>11, <2>1 DEF SendRefused, agentVars
    <2>3. "error" \in Outcomes \ {Open} /\ "error" \notin Path
      BY ValidationAssumption DEF Outcomes, Open
    <2> QED
      BY <1>s, <1>e, <2>1, <2>2, <2>3
  <1>12. CASE SettleLocal
    <2>1. results # <<>> /\ entry # NoRequest
      BY <1>12, <1>p DEF SettleLocal, Pipe
    <2> DEFINE value == IF Head(results) = NoPath THEN "invalid" ELSE Head(results)
    <2>2. value \in Outcomes \ {Open}
      BY <1>t, <2>1, ValidationAssumption DEF Outcomes, Open
    <2>3. Settle(entry, value) /\ UNCHANGED <<pc, input, was, row, registry, trouble>>
      BY <1>12, <2>1 DEF SettleLocal
    <2>4. Agrees(entry) /\ Waiting(entry) /\ entry \in Active
      BY <1>p, <1>e, <2>1 DEF Agree
    <2>5. value \in Path => registry = value
      BY <2>1, <2>4, ValidationAssumption DEF Agrees
    <2>6. value \notin Path => Head(results) = NoPath
      BY <1>t, <2>1, ValidationAssumption
    <2> HIDE DEF value
    <2> QED
      BY <1>s, <2>1, <2>2, <2>3, <2>4, <2>5, <2>6
  <1>13. CASE Validate
    <2>1. orders # <<>> /\ entry # NoRequest /\ results = <<>>
      BY <1>13, <1>p DEF Validate, Pipe
    <2>2. PICK e \in Active : e = entry
      BY <1>e, <2>1
    <2>3. PICK valid \in BOOLEAN :
            LET root == IF valid THEN Canonical[Head(orders)] ELSE NoPath IN
            results' = Append(results, root) /\ registry' = (IF valid THEN root ELSE registry)
      BY <1>13 DEF Validate
    <2> DEFINE root == IF valid THEN Canonical[Head(orders)] ELSE NoPath
    <2>4. valid <=> root # NoPath
      BY <1>t, <2>1, ValidationAssumption
    <2>5. results' # <<>> /\ Head(results') = root /\ registry' = (IF valid THEN root ELSE registry)
      BY <2>1, <2>3
    <2> HIDE DEF root
    <2>6. UNCHANGED <<pc, input, was, row, outcome, trouble>>
      BY <1>13 DEF Validate, serverVars
    <2>7. Active' = Active /\ \A r \in Active : r = e
      BY <1>p, <2>2, <2>6 DEF Pipe, Active
    <2>8. Agrees(e) /\ Waiting(e) /\ Waiting(e)'
      BY <1>p, <1>e, <2>1, <2>2, <2>6 DEF Agree, Waiting
    <2>9. Open \notin Path
      BY ValidationAssumption DEF Open
    <2>10. ~ Ahead(e)
      BY <2>1, <2>8, <2>9 DEF Ahead, Waiting
    <2>11. Ahead(e)' \/ (registry' = registry /\ (Sound' <=> Sound))
      BY <2>4, <2>5, <2>6, <2>8 DEF Ahead, Sound
    <2>12. Flagged' <=> Flagged
      BY <2>6 DEF Flagged
    <2>13. Agrees(e)'
      BY <2>4, <2>5, <2>6, <2>8, <2>9, <2>10, <2>11, <2>12 DEF Agrees, Waiting
    <2> QED
      BY <2>2, <2>7, <2>13 DEF Agree
  <1>14. CASE UNCHANGED <<pc, input, was, row, outcome, trouble, registry, results>>
    BY <1>14, <1>p DEF Agree, Agrees, Active, Waiting, Ahead, Sound, Flagged
  <1>15. ~ Drop /\ ~ Crash /\ \A r \in Request : ~ Timeout(r)
    <2>1. "gave up" \notin trouble' /\ "drop" \notin trouble' /\ "crash" \notin trouble'
      BY DEF Calm
    <2> QED
      BY <2>1 DEF Drop, Crash, Timeout
  <1> QED
    BY <1>1, <1>2, <1>3, <1>5, <1>6, <1>7, <1>8, <1>9, <1>10, <1>11, <1>12, <1>13, <1>14, <1>15
    DEF Next, Handler, vars, serverVars, agentVars, Reconnect

\* As long as requests come one at a time and are answered, the agent's registry has
\* the path of the row when they are through: each is settled by the result of its
\* own path, and what is undone was never registered.
THEOREM RegistryCorrect == Spec => []RegistryAgrees
  <1>1. Init => KindInv /\ CalmInv
    <2> SUFFICES ASSUME Init PROVE KindInv /\ CalmInv
      OBVIOUS
    <2>1. Active = {}
      BY DEF Init, Active
    <2>2. Pipe
      BY <2>1 DEF Init, Pipe, Waiting
    <2>3. row.exists => Sound /\ Flagged
      BY DEF Init, Sound, Flagged
    <2> QED
      BY <2>1, <2>2, <2>3 DEF KindInv, CalmInv, Agree
  <1>2. TypeOK /\ KindInv /\ CalmInv /\ [Next]_vars => (KindInv /\ CalmInv)'
    BY KindStep, PipeStep, AgreeStep DEF CalmInv
  <1>3. CalmInv => RegistryAgrees
    BY DEF CalmInv, Calm, Agree, Sound, Flagged, RegistryAgrees
  <1> QED
    BY <1>1, <1>2, <1>3, TypeCorrect, PTL DEF Spec
=============================================================================
