------------------------ MODULE Notifications_proofs ------------------------
(***************************************************************************)
(* Proofs about Notifications: the types, and that a shared browser        *)
(* delivers to nobody but the user it shows as subscribed.                 *)
(***************************************************************************)
EXTENDS Notifications, SequenceTheorems, TLAPS

-----------------------------------------------------------------------------
(* The rows.                                                               *)

\* No two rows of q are the same, or have an endpoint of this browser.
Unique(q) ==
  \A i, j \in DOMAIN q : i # j =>
    q[i] # q[j] /\ (q[i].endpoint = q[j].endpoint => q[i].endpoint = Elsewhere)

\* What RemoveAt leaves, place by place.
LEMMA RemoveAtPlaces ==
  ASSUME NEW S, NEW s \in Seq(S), NEW i \in 1..Len(s)
  PROVE  /\ RemoveAt(s, i) \in Seq(S)
         /\ Len(RemoveAt(s, i)) = Len(s) - 1
         /\ \A j \in 1..Len(s) - 1 : RemoveAt(s, i)[j] = IF j < i THEN s[j] ELSE s[j + 1]
  <1>1. /\ SubSeq(s, 1, i - 1) \in Seq(S) /\ Len(SubSeq(s, 1, i - 1)) = i - 1
        /\ \A j \in 1..i - 1 : SubSeq(s, 1, i - 1)[j] = s[j]
    OBVIOUS
  <1>2. /\ SubSeq(s, i + 1, Len(s)) \in Seq(S) /\ Len(SubSeq(s, i + 1, Len(s))) = Len(s) - i
        /\ \A j \in 1..Len(s) - i : SubSeq(s, i + 1, Len(s))[j] = s[i + j]
    OBVIOUS
  <1>3. ASSUME NEW x \in Seq(S), NEW y \in Seq(S), Len(x) = i - 1, Len(y) = Len(s) - i,
               \A j \in 1..i - 1 : x[j] = s[j], \A j \in 1..Len(s) - i : y[j] = s[i + j]
        PROVE  /\ x \o y \in Seq(S)
               /\ Len(x \o y) = Len(s) - 1
               /\ \A j \in 1..Len(s) - 1 : (x \o y)[j] = IF j < i THEN s[j] ELSE s[j + 1]
    <2>1. x \o y \in Seq(S) /\ Len(x \o y) = Len(s) - 1
      BY <1>3
    <2>2. ASSUME NEW j \in 1..Len(s) - 1
          PROVE  (x \o y)[j] = IF j < i THEN s[j] ELSE s[j + 1]
      <3>1. CASE j < i
        BY <1>3, <3>1
      <3>2. CASE ~ (j < i)
        <4>1. (x \o y)[j] = y[j - (i - 1)]
          BY <1>3, <3>2
        <4>2. j - (i - 1) \in 1..Len(s) - i /\ i + (j - (i - 1)) = j + 1
          BY <3>2
        <4> QED
          BY <1>3, <3>2, <4>1, <4>2
      <3> QED
        BY <3>1, <3>2
    <2> QED
      BY <2>1, <2>2
  <1> QED
    BY <1>1, <1>2, <1>3 DEF RemoveAt

\* The rows without the one at place i.
LEMMA RemovedRow ==
  ASSUME RowType, NEW i \in DOMAIN rows, NEW q, q = RemoveAt(rows, i)
  PROVE  q \in Seq(Row) /\ Unique(q) /\ ToSet(q) = ToSet(rows) \ {rows[i]}
  <1>1. rows \in Seq(Row) /\ DOMAIN rows = 1..Len(rows) /\ Unique(rows)
    BY DEF RowType, Unique
  <1>2. /\ q \in Seq(Row) /\ DOMAIN q = 1..Len(rows) - 1
        /\ \A j \in 1..Len(rows) - 1 : q[j] = IF j < i THEN rows[j] ELSE rows[j + 1]
    BY <1>1, RemoveAtPlaces
  <1>3. Unique(q)
    <2> SUFFICES ASSUME NEW a \in DOMAIN q, NEW b \in DOMAIN q, a # b
                 PROVE  q[a] # q[b] /\ (q[a].endpoint = q[b].endpoint => q[a].endpoint = Elsewhere)
      BY DEF Unique
    <2> DEFINE c == IF a < i THEN a ELSE a + 1
               d == IF b < i THEN b ELSE b + 1
    <2>1. c \in DOMAIN rows /\ d \in DOMAIN rows /\ c # d /\ q[a] = rows[c] /\ q[b] = rows[d]
      BY <1>1, <1>2
    <2> HIDE DEF c, d
    <2> QED
      BY <2>1, <1>1 DEF Unique
  <1>4. ToSet(q) \subseteq ToSet(rows) \ {rows[i]}
    <2> SUFFICES ASSUME NEW a \in DOMAIN q PROVE \E c \in DOMAIN rows : c # i /\ q[a] = rows[c]
      BY <1>1 DEF ToSet, Unique
    <2> QED
      BY <1>1, <1>2
  <1>5. ASSUME NEW c \in DOMAIN rows, c # i PROVE rows[c] \in ToSet(q)
    <2>1. \E a \in DOMAIN q : q[a] = rows[c]
      <3>1. CASE c < i
        BY <1>1, <1>2, <3>1
      <3>2. CASE c > i
        <4>1. c - 1 \in DOMAIN q /\ q[c - 1] = rows[c]
          BY <1>1, <1>2, <3>2
        <4> QED
          BY <4>1
      <3> QED
        BY <1>1, <1>5, <3>1, <3>2
    <2> QED
      BY <2>1 DEF ToSet
  <1>6. ToSet(rows) \ {rows[i]} \subseteq ToSet(q)
    BY <1>5 DEF ToSet
  <1> QED
    BY <1>2, <1>3, <1>4, <1>6

LEMMA WithoutRow ==
  ASSUME RowType, NEW r
  PROVE  Without(r) \in Seq(Row) /\ Unique(Without(r)) /\ ToSet(Without(r)) = ToSet(rows) \ {r}
  <1>1. CASE r \in ToSet(rows)
    <2>1. PICK i \in DOMAIN rows : rows[i] = r /\ Without(r) = RemoveAt(rows, i)
      BY <1>1 DEF Without, ToSet
    <2> QED
      BY <2>1, RemovedRow
  <1>2. CASE r \notin ToSet(rows)
    BY <1>2 DEF Without, RowType, Unique
  <1> QED
    BY <1>1, <1>2

LEMMA EvictedRow ==
  ASSUME RowType, NEW u, NEW q \in Evicted(u)
  PROVE  q \in Seq(Row) /\ Unique(q) /\ ToSet(q) \subseteq ToSet(rows)
  <1>1. CASE q = rows
    BY <1>1 DEF RowType, Unique
  <1>2. CASE q # rows
    <2>1. PICK i \in DOMAIN rows : q = RemoveAt(rows, i)
      BY <1>2 DEF Evicted, Owned
    <2> QED
      BY <2>1, RemovedRow
  <1> QED
    BY <1>1, <1>2

LEMMA AppendedRow ==
  ASSUME NEW q \in Seq(Row), Unique(q), NEW r \in Row, r \notin ToSet(q),
         r.endpoint = Elsewhere \/ \A p \in ToSet(q) : p.endpoint # r.endpoint
  PROVE  Append(q, r) \in Seq(Row) /\ Unique(Append(q, r)) /\ ToSet(Append(q, r)) = ToSet(q) \cup {r}
  <1>1. /\ Append(q, r) \in Seq(Row) /\ DOMAIN Append(q, r) = 1..Len(q) + 1
        /\ DOMAIN q = 1..Len(q) /\ Len(q) \in Nat
        /\ \A i \in 1..Len(q) : Append(q, r)[i] = q[i]
        /\ Append(q, r)[Len(q) + 1] = r
    OBVIOUS
  <1> DEFINE A == Append(q, r)
  <1> HIDE DEF A
  <1>2. \A i \in DOMAIN A : (i \in DOMAIN q /\ A[i] = q[i]) \/ (i = Len(q) + 1 /\ A[i] = r)
    <2> SUFFICES ASSUME NEW i \in DOMAIN A
                 PROVE  (i \in DOMAIN q /\ A[i] = q[i]) \/ (i = Len(q) + 1 /\ A[i] = r)
      OBVIOUS
    <2>1. i \in 1..Len(q) \/ i = Len(q) + 1
      BY <1>1 DEF A
    <2> QED
      BY <1>1, <2>1 DEF A
  <1>3. \A i \in DOMAIN q : q[i] # r /\ (q[i].endpoint = r.endpoint => r.endpoint = Elsewhere)
    BY DEF ToSet
  <1>4. Unique(A)
    BY <1>2, <1>3 DEF Unique
  <1>5. ToSet(A) \subseteq ToSet(q) \cup {r}
    BY <1>2 DEF ToSet
  <1>6. \A i \in DOMAIN q : i \in DOMAIN A /\ A[i] = q[i]
    BY <1>1 DEF A
  <1>7. Len(q) + 1 \in DOMAIN A /\ A[Len(q) + 1] = r
    BY <1>1 DEF A
  <1>8. ToSet(q) \cup {r} \subseteq ToSet(A)
    BY <1>6, <1>7 DEF ToSet
  <1> QED
    BY <1>1, <1>4, <1>5, <1>8 DEF A

\* Whose row an endpoint has.
LEMMA TakenRows ==
  ASSUME NEW e
  PROVE  Taken(e) = {u \in User : [endpoint |-> e, user |-> u] \in ToSet(rows)}
  BY DEF Taken, ToSet
-----------------------------------------------------------------------------
(* Types.                                                                  *)

\* A task that n endpoints and the sessions D allow.
TaskOK(x, n, D) ==
  /\ x \in Tasks
  /\ x.at \in Stages(x.kind)
  /\ x.at \in Posting \cup {"unsubscribe", "delete"} => x.endpoint \in 1..n
  /\ x.at \in Serving => x.session \in D

TasksOK(f, n, D) == f = [t \in Task |-> f[t]] /\ \A t \in Task : TaskOK(f[t], n, D)

LEMMA Bounds == MaxEndpoints \in Nat /\ MaxMounts \in Nat /\ MaxFaults \in Nat
  BY NotificationsAssumption

LEMMA TaskTypeOK == TaskType <=> TasksOK(task, minted, DOMAIN owner)
  BY DEF TaskType, TasksOK, TaskOK

\* One task changes, and endpoints and sessions only come.
LEMMA TasksUpdate ==
  ASSUME NEW f, NEW n \in Nat, NEW k \in Nat, NEW D, NEW E, TasksOK(f, n, D), n <= k, D \subseteq E,
         NEW t \in Task, NEW x, TaskOK(x, k, E), NEW g, g = [f EXCEPT ![t] = x]
  PROVE  TasksOK(g, k, E)
  BY DEF TasksOK, TaskOK

LEMMA TasksSet ==
  ASSUME NEW f, NEW n, NEW D, TasksOK(f, n, D),
         NEW t \in Task, NEW x, TaskOK(x, n, D), NEW g, g = [f EXCEPT ![t] = x]
  PROVE  TasksOK(g, n, D)
  BY DEF TasksOK, TaskOK

LEMMA TasksGrow ==
  ASSUME NEW f, NEW n \in Nat, NEW k \in Nat, NEW D, NEW E, TasksOK(f, n, D), n <= k, D \subseteq E
  PROVE  TasksOK(f, k, E)
  BY DEF TasksOK, TaskOK

LEMMA BegunOK ==
  ASSUME NEW kind \in {"init", "enable", "disable", "signout", "local"}, NEW at \in {"config", "read"},
         at = "config" => kind = "init",
         NEW m \in 0..MaxMounts, NEW s \in 0..MaxMounts, NEW n \in Nat, NEW D
  PROVE  TaskOK(Begun(kind, at, m, s), n, D)
  <1>0. Begun(kind, at, m, s) = [kind |-> kind, at |-> at, mount |-> m, endpoint |-> 0,
                                  made |-> FALSE, session |-> s]
    BY DEF Begun, None
  <1>1. /\ Begun(kind, at, m, s) \in Tasks
        /\ Begun(kind, at, m, s).kind = kind /\ Begun(kind, at, m, s).at = at
    BY <1>0, Bounds DEF Tasks
  <1> QED
    BY <1>1 DEF TaskOK, Stages, Posting, Serving

LEMMA IdleOK == ASSUME NEW n, NEW D PROVE TaskOK(Idle, n, D)
  BY Bounds DEF TaskOK, Idle, Tasks, Stages, Posting, Serving, None

\* A 401 leaves tasks that are well typed if the others are.
LEMMA UnauthorizedOK ==
  ASSUME TypeOK, NEW rest, TasksOK(rest, minted, DOMAIN owner), Unauthorized(rest)
  PROVE  /\ TasksOK(task', minted, DOMAIN owner)
         /\ page' \in {"closed", "login"} \cup User
         /\ excused' \in BOOLEAN
  <1>1. TasksOK(task', minted, DOMAIN owner)
    <2>1. CASE page \in User
      <3>1. PICK t \in Task : task' = [rest EXCEPT ![t] = Begun("local", "read", mount, None)]
        BY <2>1 DEF Unauthorized
      <3>2. TaskOK(Begun("local", "read", mount, None), minted, DOMAIN owner)
        BY BegunOK, Bounds DEF TypeOK, PageType, None
      <3> QED
        BY <3>1, <3>2, TasksSet
    <2>2. CASE page \notin User
      BY <2>2 DEF Unauthorized
    <2> QED
      BY <2>1, <2>2
  <1>2. page' \in {"closed", "login"} \cup User
    BY DEF Unauthorized, TypeOK, PageType
  <1>3. excused' \in BOOLEAN
    BY DEF Unauthorized
  <1> QED
    BY <1>1, <1>2, <1>3

\* What holds of a task that awaits something.
LEMMA TaskAt ==
  ASSUME TypeOK, NEW t \in Task
  PROVE  /\ task[t] \in Tasks /\ task[t].at \in Stages(task[t].kind)
         /\ task[t].at \in Posting \cup {"unsubscribe", "delete"} => task[t].endpoint \in 1..minted
         /\ task[t].at \in Serving => task[t].session \in DOMAIN owner
         /\ At(t, "config") => task[t].kind = "init"
         /\ At(t, "read") => task[t].kind \in {"init", "enable", "disable", "signout", "local"}
         /\ At(t, "subscribe") => task[t].kind \in {"enable", "again"}
         /\ task[t].at \in Serving => task[t].kind \in {"init", "enable", "again", "orphan"}
         /\ task[t].at \in Posting \ Serving => task[t].kind \in {"init", "enable", "again"}
         /\ At(t, "unsubscribe") => task[t].kind \in {"disable", "signout", "local"}
         /\ At(t, "delete") => task[t].kind \in {"disable", "signout"}
         /\ At(t, "logout") => task[t].kind = "signout"
         /\ task[t].kind = "idle" <=> At(t, "none")
  <1>1. /\ task[t] \in Tasks /\ task[t].at \in Stages(task[t].kind)
        /\ task[t].at \in Posting \cup {"unsubscribe", "delete"} => task[t].endpoint \in 1..minted
        /\ task[t].at \in Serving => task[t].session \in DOMAIN owner
    BY DEF TypeOK, TaskType
  <1>2. task[t].kind \in {"idle", "init", "enable", "again", "disable", "signout", "local", "orphan"}
    BY <1>1 DEF Tasks
  <1> QED
    BY <1>1, <1>2 DEF At, Stages, Posting, Serving
\* TypeOK in the next state, in parts.
LEMMA TypeParts ==
  ASSUME RowType', SessionType', PageType', TasksOK(task', minted', (DOMAIN owner)'),
         excused' \in BOOLEAN, faults' \in 0..MaxFaults
  PROVE  TypeOK'
  BY DEF TypeOK, TasksOK, TaskOK, TaskType

\* Where endpoints and sessions stay, types are those of the rows, the page and the tasks.
LEMMA TypeKept ==
  ASSUME TypeOK, UNCHANGED <<owner, cookie, minted, mount>>, live' \subseteq live,
         rows' = rows \/ RowType', sub' \in {sub, None},
         page' \in {"closed", "login"} \cup User,
         state' \in {"loading", "off", "on"}, {resolved', known', busy'} \subseteq BOOLEAN,
         TasksOK(task', minted, DOMAIN owner),
         excused' \in BOOLEAN, faults' \in 0..MaxFaults
  PROVE  TypeOK'
  <1>1. RowType'
    BY DEF TypeOK, RowType
  <1>2. SessionType'
    BY DEF TypeOK, SessionType
  <1>3. PageType'
    BY DEF TypeOK, PageType, None
  <1> QED
    BY <1>1, <1>2, <1>3, TypeParts

LEMMA Basics ==
  ASSUME TypeOK
  PROVE  /\ TasksOK(task, minted, DOMAIN owner)
         /\ owner \in Seq(User) /\ DOMAIN owner = 1..Len(owner) /\ Len(owner) \in Nat
         /\ Len(owner) <= mount /\ mount \in 0..MaxMounts /\ cookie \in 0..Len(owner)
         /\ cookie \in 0..MaxMounts
         /\ live \subseteq DOMAIN owner
         /\ minted \in 0..MaxEndpoints /\ minted \in Nat /\ sub \in 0..minted
         /\ page \in {"closed", "login"} \cup User
         /\ state \in {"loading", "off", "on"} /\ {resolved, known, busy} \subseteq BOOLEAN
         /\ excused \in BOOLEAN /\ faults \in 0..MaxFaults
  <1>1. TasksOK(task, minted, DOMAIN owner)
    BY TaskTypeOK DEF TypeOK
  <1>2. /\ owner \in Seq(User) /\ DOMAIN owner = 1..Len(owner) /\ Len(owner) \in Nat
        /\ Len(owner) <= mount /\ mount \in 0..MaxMounts /\ cookie \in 0..Len(owner)
        /\ live \subseteq DOMAIN owner
    BY Bounds DEF TypeOK, SessionType, PageType
  <1>3. cookie \in 0..MaxMounts
    BY <1>2, Bounds
  <1> QED
    BY <1>1, <1>2, <1>3, Bounds DEF TypeOK, PageType

\* Ends, Released and Sets, as far as types go.
LEMMA EndsOK ==
  ASSUME TypeOK, NEW t \in Task
  PROVE  /\ Released(t) => busy' \in BOOLEAN
         /\ Ends(t) => busy' \in BOOLEAN /\ TasksOK(task', minted, DOMAIN owner)
         /\ \A new \in {"loading", "off", "on"} : \A res \in BOOLEAN :
              Sets(t, new, res) => state' \in {"loading", "off", "on"} /\ resolved' \in BOOLEAN
  <1>1. Released(t) => busy' \in BOOLEAN
    BY Basics DEF Released
  <1>2. Ends(t) => TasksOK(task', minted, DOMAIN owner)
    BY Basics, IdleOK, TasksSet DEF Ends
  <1>3. \A new \in {"loading", "off", "on"} : \A res \in BOOLEAN :
          Sets(t, new, res) => state' \in {"loading", "off", "on"} /\ resolved' \in BOOLEAN
    BY Basics DEF Sets
  <1> QED
    BY <1>1, <1>2, <1>3 DEF Ends

\* A task goes on with a request, or with the next await.
LEMMA SendsOK ==
  ASSUME TypeOK, NEW t \in Task, NEW at, at \in Stages(task[t].kind), at \notin Serving,
         at \in Posting \cup {"unsubscribe", "delete"} => task[t].endpoint \in 1..minted
  PROVE  TasksOK(Sends(t, at), minted, DOMAIN owner)
  <1> DEFINE x == [task[t] EXCEPT !.at = at, !.session = cookie]
  <1>0. at \in {"none", "config", "read", "subscribe", "post", "refresh", "evict", "create", "ok",
                "conflict", "error", "unsubscribe", "delete", "logout"}
    BY TaskAt DEF Stages, Posting, Serving, Tasks
  <1>1. x \in Tasks /\ x.at = at /\ x.kind = task[t].kind /\ x.endpoint = task[t].endpoint
    BY <1>0, TaskAt, Basics DEF Tasks
  <1>2. TaskOK(x, minted, DOMAIN owner)
    BY <1>1 DEF TaskOK
  <1>3. Sends(t, at) = [task EXCEPT ![t] = x]
    BY Basics DEF Sends, TasksOK
  <1> QED
    BY <1>2, <1>3, Basics, TasksSet

LEMMA MovesOK ==
  ASSUME TypeOK, NEW t \in Task, NEW at, at \in Stages(task[t].kind),
         at \in Posting \cup {"unsubscribe", "delete"} => task[t].endpoint \in 1..minted,
         at \in Serving => task[t].session \in DOMAIN owner
  PROVE  TasksOK([task EXCEPT ![t].at = at], minted, DOMAIN owner)
  <1> DEFINE x == [task[t] EXCEPT !.at = at]
  <1>0. at \in {"none", "config", "read", "subscribe", "post", "refresh", "evict", "create", "ok",
                "conflict", "error", "unsubscribe", "delete", "logout"}
    BY TaskAt DEF Stages, Posting, Serving, Tasks
  <1>1. /\ x \in Tasks /\ x.at = at /\ x.kind = task[t].kind /\ x.endpoint = task[t].endpoint
        /\ x.session = task[t].session
    BY <1>0, TaskAt DEF Tasks
  <1>2. TaskOK(x, minted, DOMAIN owner)
    BY <1>1 DEF TaskOK
  <1>3. [task EXCEPT ![t].at = at] = [task EXCEPT ![t] = x]
    OBVIOUS
  <1> QED
    BY <1>2, <1>3, Basics, TasksSet
\* AppShell is mounted with a session of u, an old one or a new one.
LEMMA EnterType ==
  ASSUME TypeOK, NEW u \in User, Enter(u), UNCHANGED <<rows, sub, minted, faults>>,
         UNCHANGED sessions \/ CreateSession(u)
  PROVE  TypeOK'
  <1>1. /\ owner' \in Seq(User) /\ DOMAIN owner \subseteq DOMAIN owner' /\ DOMAIN owner' = 1..Len(owner')
        /\ Len(owner') <= mount' /\ cookie' \in 0..Len(owner') /\ live' \subseteq DOMAIN owner'
        /\ mount' \in 0..MaxMounts
    <2>1. mount' = mount + 1 /\ mount' \in 0..MaxMounts
      BY Basics, Bounds DEF Enter
    <2>2. CASE UNCHANGED sessions
      BY <2>1, <2>2, Basics DEF sessions
    <2>3. CASE CreateSession(u)
      <3>1. /\ owner' \in Seq(User) /\ Len(owner') = Len(owner) + 1 /\ DOMAIN owner' = 1..Len(owner')
            /\ cookie' = Len(owner') /\ live' = live \cup {cookie'}
        BY <2>3, Basics DEF CreateSession
      <3>2. DOMAIN owner \subseteq DOMAIN owner' /\ cookie' \in DOMAIN owner'
        BY <3>1, Basics
      <3> QED
        BY <2>1, <3>1, <3>2, Basics
    <2> QED
      BY <2>2, <2>3
  <1>2. cookie' \in 0..MaxMounts
    BY <1>1, Bounds
  <1>3. TasksOK(task', minted', DOMAIN owner')
    <2>1. PICK t \in Task : task' = [task EXCEPT ![t] = Begun("init", "config", mount', cookie')]
      BY DEF Enter
    <2>2. TaskOK(Begun("init", "config", mount', cookie'), minted, DOMAIN owner')
      BY <1>1, <1>2, BegunOK, Basics
    <2>3. TasksOK(task, minted, DOMAIN owner')
      BY <1>1, Basics, TasksGrow, SMTT(30)
    <2> QED
      BY <2>1, <2>2, <2>3, TasksSet
  <1>4. RowType'
    BY DEF TypeOK, RowType
  <1>5. SessionType'
    BY <1>1 DEF SessionType
  <1>6. PageType'
    BY <1>1, Basics DEF PageType, Enter
  <1>7. excused' \in BOOLEAN /\ faults' \in 0..MaxFaults
    BY Basics DEF Enter
  <1> QED
    BY <1>3, <1>4, <1>5, <1>6, <1>7, TypeParts

LEMMA LeaveType ==
  ASSUME TypeOK, Leave
  PROVE  TypeOK'
  <1>1. ASSUME NEW t \in Task PROVE TaskOK(task'[t], minted, DOMAIN owner)
    <2>1. CASE task[t].at \in Serving
      <3>1. task'[t] = [task[t] EXCEPT !.kind = "orphan"]
        BY <2>1 DEF Leave, Serving
      <3>2. /\ task'[t] \in Tasks /\ task'[t].at = task[t].at /\ task'[t].kind = "orphan"
            /\ task'[t].endpoint = task[t].endpoint /\ task'[t].session = task[t].session
        BY <3>1, TaskAt DEF Tasks
      <3> QED
        BY <2>1, <3>2, TaskAt DEF TaskOK, Stages
    <2>2. CASE task[t].at \notin Serving
      BY <2>2, IdleOK DEF Leave, Serving
    <2> QED
      BY <2>1, <2>2
  <1>2. TasksOK(task', minted, DOMAIN owner)
    BY <1>1 DEF TasksOK, Leave
  <1> QED
    BY <1>2, Basics, TypeKept DEF Leave, sessions

LEMMA BeginType ==
  ASSUME TypeOK, Load \/ Poll \/ Retry \/ Toggle \/ Signout
  PROVE  TypeOK'
  <1>1. CASE Load
    <2>1. CASE cookie \in live
      <3>1. owner[cookie] \in User
        BY <2>1, Basics
      <3> QED
        BY <1>1, <2>1, <3>1, EnterType DEF Load
    <2>2. CASE cookie \notin live
      BY <1>1, <2>2, Basics, TypeKept DEF Load, sessions
    <2> QED
      BY <2>1, <2>2
  <1>2. CASE Poll
    BY <1>2, Basics, UnauthorizedOK, TypeKept DEF Poll, sessions
  <1>3. CASE Retry
    <2>1. PICK t \in Task : task' = [task EXCEPT ![t] = Begun("init", "config", mount, cookie)]
      BY <1>3 DEF Retry
    <2>2. TasksOK(task', minted, DOMAIN owner)
      BY <2>1, Basics, BegunOK, TasksSet
    <2> QED
      BY <1>3, <2>2, Basics, TypeKept DEF Retry, sessions, pageVars
  <1>4. CASE Toggle
    <2>1. PICK t \in Task, kind \in {"enable", "disable"} :
            task' = [task EXCEPT ![t] = Begun(kind, "read", mount, None)]
      BY <1>4 DEF Toggle
    <2>2. TaskOK(Begun(kind, "read", mount, None), minted, DOMAIN owner)
      BY Basics, Bounds, BegunOK DEF None
    <2>3. TasksOK(task', minted, DOMAIN owner)
      BY <2>1, <2>2, Basics, TasksSet
    <2> QED
      BY <1>4, <2>3, Basics, TypeKept DEF Toggle, sessions
  <1>5. CASE Signout
    <2>1. PICK t \in Task : task' = [task EXCEPT ![t] = Begun("signout", "read", mount, None)]
      BY <1>5 DEF Signout
    <2>2. TaskOK(Begun("signout", "read", mount, None), minted, DOMAIN owner)
      BY Basics, Bounds, BegunOK DEF None
    <2>3. TasksOK(task', minted, DOMAIN owner)
      BY <2>1, <2>2, Basics, TasksSet
    <2> QED
      BY <1>5, <2>3, Basics, TypeKept DEF Signout, sessions
  <1> QED
    BY <1>1, <1>2, <1>3, <1>4, <1>5

LEMMA ConfigType ==
  ASSUME TypeOK, NEW t \in Task, Config(t)
  PROVE  TypeOK'
  <1> USE DEF Config, sessions
  <1>0. TasksOK([task EXCEPT ![t] = Idle], minted, DOMAIN owner)
    BY Basics, IdleOK, TasksSet
  <1>1. CASE /\ task[t].session \in live /\ task' = [task EXCEPT ![t].at = "read"]
             /\ UNCHANGED <<page, state, resolved, excused, faults>>
    <2>1. TasksOK(task', minted, DOMAIN owner)
      <3>1. "read" \in Stages(task[t].kind)
        BY TaskAt DEF Stages
      <3> QED
        BY <1>1, <3>1, MovesOK DEF Posting, Serving
    <2> QED
      BY <1>1, <2>1, Basics, TypeKept
  <1>2. CASE Unauthorized([task EXCEPT ![t] = Idle]) /\ UNCHANGED <<state, resolved, known, faults>>
    BY <1>0, <1>2, Basics, UnauthorizedOK, TypeKept
  <1>3. CASE /\ Fault /\ task' = [task EXCEPT ![t] = Idle] /\ Sets(t, "loading", FALSE)
             /\ UNCHANGED <<page, known, excused>>
    <2>1. faults' \in 0..MaxFaults
      BY <1>3, Basics, Bounds DEF Fault
    <2>2. state' \in {"loading", "off", "on"} /\ resolved' \in BOOLEAN
      BY <1>3, EndsOK
    <2> QED
      BY <1>0, <1>3, <2>1, <2>2, Basics, TypeKept
  <1> QED
    BY <1>1, <1>2, <1>3
LEMMA FaultType == ASSUME TypeOK, Fault PROVE faults' \in 0..MaxFaults
  BY Basics, Bounds DEF Fault

LEMMA ReadType ==
  ASSUME TypeOK, NEW t \in Task, Read(t)
  PROVE  TypeOK'
  <1> DEFINE Goal == /\ TasksOK(task', minted, DOMAIN owner)
                     /\ state' \in {"loading", "off", "on"}
                     /\ resolved' \in BOOLEAN /\ busy' \in BOOLEAN
                     /\ excused' \in BOOLEAN /\ faults' \in 0..MaxFaults
  <1>k. task[t].kind \in {"init", "enable", "disable", "signout", "local"} /\ task[t] \in Tasks
    BY TaskAt DEF Read
  <1>e. /\ Ends(t) => busy' \in BOOLEAN /\ TasksOK(task', minted, DOMAIN owner)
        /\ Released(t) => busy' \in BOOLEAN
        /\ Sets(t, "off", TRUE) => state' \in {"loading", "off", "on"} /\ resolved' \in BOOLEAN
        /\ Sets(t, "off", resolved) => state' \in {"loading", "off", "on"} /\ resolved' \in BOOLEAN
    BY EndsOK, Basics
  <1>l. task[t].kind = "signout" => TasksOK(Sends(t, "logout"), minted, DOMAIN owner)
    BY SendsOK DEF Stages, Posting, Serving
  <1>1. ASSUME Found(t) PROVE Goal
    <2> DEFINE at == IF task[t].kind \in {"init", "enable"} THEN "post" ELSE "unsubscribe"
               x == [task[t] EXCEPT !.at = at, !.session = cookie, !.endpoint = sub]
    <2>1. sub \in 1..minted /\ sub \in 0..MaxEndpoints
      BY <1>1, Basics, Bounds DEF Found, None
    <2>2. x \in Tasks /\ x.at = at /\ x.kind = task[t].kind /\ x.endpoint = sub
      BY <1>k, <2>1, Basics DEF Tasks
    <2>3. TaskOK(x, minted, DOMAIN owner)
      <3>1. at \in Stages(task[t].kind) /\ at \notin Serving
        BY <1>k DEF Stages, Posting, Serving
      <3> QED
        BY <2>1, <2>2, <3>1 DEF TaskOK
    <2>4. task' = [task EXCEPT ![t] = x]
      BY <1>1, Basics DEF Found, Sends, TasksOK
    <2>5. TasksOK(task', minted, DOMAIN owner)
      BY <2>3, <2>4, Basics, TasksSet
    <2> QED
      BY <1>1, <2>5, Basics DEF Found
  <1>2. ASSUME Missing(t) PROVE Goal
    <2>0. excused' \in BOOLEAN /\ faults' \in 0..MaxFaults
      BY <1>2, Basics DEF Missing
    <2>1. CASE task[t].kind = "init"
      BY <1>2, <1>e, <2>0, <2>1 DEF Missing
    <2>2. CASE task[t].kind = "enable"
      <3>1. TasksOK([task EXCEPT ![t].at = "subscribe"], minted, DOMAIN owner)
        BY <2>2, MovesOK DEF Stages, Posting, Serving
      <3> QED
        BY <1>2, <2>0, <2>2, <3>1, Basics DEF Missing
    <2>3. CASE task[t].kind = "signout"
      BY <1>2, <1>e, <1>l, <2>0, <2>3 DEF Missing
    <2>4. CASE task[t].kind = "disable"
      BY <1>2, <1>e, <2>0, <2>4 DEF Missing
    <2>5. CASE task[t].kind = "local"
      BY <1>2, <1>e, <2>0, <2>5, Basics DEF Missing
    <2> QED
      BY <1>k, <2>1, <2>2, <2>3, <2>4, <2>5
  <1>3. ASSUME Unread(t) PROVE Goal
    <2>1. excused' \in BOOLEAN /\ faults' \in 0..MaxFaults
      BY <1>3, FaultType DEF Unread
    <2>2. TasksOK(task', minted, DOMAIN owner) /\ busy' \in BOOLEAN
      BY <1>3, <1>e, <1>l DEF Unread
    <2>3. state' \in {"loading", "off", "on"} /\ resolved' \in BOOLEAN
      BY <1>3, <1>e, Basics DEF Unread
    <2> QED
      BY <2>1, <2>2, <2>3
  <1>4. Goal
    BY <1>1, <1>2, <1>3 DEF Read
  <1> QED
    BY <1>4, Basics, TypeKept DEF Read, sessions

LEMMA SubscribeType ==
  ASSUME TypeOK, NEW t \in Task, Subscribe(t)
  PROVE  TypeOK'
  <1>k. task[t].kind \in {"enable", "again"} /\ task[t] \in Tasks
    BY TaskAt DEF Subscribe
  <1>1. CASE /\ IF sub = None
                THEN minted < MaxEndpoints /\ minted' = minted + 1 /\ sub' = minted'
                ELSE UNCHANGED <<minted, sub>>
             /\ task' = [Sends(t, "post") EXCEPT ![t].endpoint = sub', ![t].made = TRUE]
             /\ UNCHANGED <<state, resolved, busy, faults>>
    <2> DEFINE x == [task[t] EXCEPT !.at = "post", !.session = cookie, !.endpoint = sub', !.made = TRUE]
    <2>1. /\ minted' \in 0..MaxEndpoints /\ minted <= minted' /\ sub' \in 1..minted'
          /\ sub' \in 0..MaxEndpoints /\ minted' \in Nat
      BY <1>1, Basics, Bounds DEF None
    <2>2. x \in Tasks /\ x.at = "post" /\ x.kind = task[t].kind /\ x.endpoint = sub'
      BY <1>k, <2>1, Basics DEF Tasks
    <2>3. TaskOK(x, minted', DOMAIN owner)
      BY <1>k, <2>1, <2>2 DEF TaskOK, Stages, Posting, Serving
    <2>4. task' = [task EXCEPT ![t] = x]
      BY <1>1, Basics DEF Sends, TasksOK
    <2>5. TasksOK(task, minted', DOMAIN owner)
      BY <2>1, Basics, TasksGrow
    <2>6. TasksOK(task', minted', DOMAIN owner)
      BY <2>3, <2>4, <2>5, TasksSet
    <2>7. RowType'
      <3>1. rows' = rows /\ \A i \in DOMAIN rows : rows[i].endpoint \in (1..minted') \cup {Elsewhere}
        BY <2>1, Basics DEF Subscribe, TypeOK, RowType
      <3> QED
        BY <3>1 DEF TypeOK, RowType
    <2>8. SessionType' /\ owner' = owner
      BY DEF Subscribe, TypeOK, SessionType, sessions
    <2>9. PageType'
      BY <1>1, <2>1, Basics DEF Subscribe, PageType
    <2> QED
      BY <1>1, <2>6, <2>7, <2>8, <2>9, Basics, TypeParts DEF Subscribe
  <1>2. CASE Fault /\ Ends(t) /\ Sets(t, "off", resolved) /\ UNCHANGED <<minted, sub>>
    <2>1. /\ state' \in {"loading", "off", "on"} /\ resolved' \in BOOLEAN /\ busy' \in BOOLEAN
          /\ TasksOK(task', minted, DOMAIN owner)
      BY <1>2, Basics, EndsOK
    <2> QED
      BY <1>2, <2>1, FaultType, Basics, TypeKept DEF Subscribe, sessions
  <1> QED
    BY <1>1, <1>2 DEF Subscribe

LEMMA PostType ==
  ASSUME TypeOK, NEW t \in Task, Post(t) \/ Lost(t)
  PROVE  TypeOK'
  <1>1. /\ task[t].at \in Posting
        /\ Lost(t) => task[t].at \notin Serving
    BY DEF Post, Lost, At, Posting, Serving
  <1>2. "error" \in Stages(task[t].kind)
    BY <1>1, TaskAt DEF Post, Lost, At, Posting, Serving, Stages
  <1>3. TasksOK([task EXCEPT ![t].at = "error"], minted, DOMAIN owner)
    BY <1>1, <1>2, TaskAt, MovesOK DEF Serving
  <1>4. CASE Lost(t)
    BY <1>3, <1>4, FaultType, Basics, TypeKept DEF Lost, sessions, pageVars
  <1>5. CASE Post(t)
    <2>0. UNCHANGED <<mount, state, resolved, known, busy, rows, sessions, sub, minted>>
      BY <1>5 DEF Post
    <2>1. CASE /\ task[t].session \in live /\ task' = [task EXCEPT ![t].at = "refresh"]
               /\ UNCHANGED <<page, excused, faults>>
      <3>1. "refresh" \in Stages(task[t].kind)
        BY <1>5, TaskAt DEF Post, At, Posting, Serving, Stages
      <3>2. TasksOK(task', minted, DOMAIN owner)
        BY <1>1, <2>1, <3>1, TaskAt, Basics, MovesOK
      <3> QED
        BY <2>0, <2>1, <3>2, Basics, TypeKept DEF sessions
    <2>2. CASE Unauthorized([task EXCEPT ![t].at = "error"]) /\ UNCHANGED faults
      BY <1>3, <2>0, <2>2, UnauthorizedOK, Basics, TypeKept DEF sessions
    <2>3. CASE Fault /\ task' = [task EXCEPT ![t].at = "error"] /\ UNCHANGED <<page, excused>>
      BY <1>3, <2>0, <2>3, FaultType, Basics, TypeKept DEF sessions
    <2> QED
      BY <1>5, <2>1, <2>2, <2>3 DEF Post
  <1> QED
    BY <1>4, <1>5
\* A row is written in the place of those that went before.
LEMMA RowTypeAfter ==
  ASSUME TypeOK, minted' = minted, rows' \in Seq(Row), Unique(rows'),
         \A r \in ToSet(rows') : r.endpoint \in (1..minted) \cup {Elsewhere}
  PROVE  RowType'
  BY DEF RowType, Unique, ToSet

LEMMA RowEndpoints ==
  ASSUME TypeOK
  PROVE  /\ RowType
         /\ \A r \in ToSet(rows) : r \in Row /\ r.endpoint \in (1..minted) \cup {Elsewhere}
  BY DEF TypeOK, RowType, ToSet

LEMMA AnswersOK ==
  ASSUME TypeOK, NEW t \in Task, task[t].at \in Serving,
         NEW answer \in {"ok", "conflict"}, Answers(t, answer)
  PROVE  TasksOK(task', minted, DOMAIN owner)
  <1>1. CASE task[t].kind = "orphan"
    <2>1. task' = [task EXCEPT ![t] = Idle]
      BY <1>1 DEF Answers
    <2> QED
      BY <2>1, Basics, IdleOK, TasksSet
  <1>2. CASE task[t].kind # "orphan"
    <2>1. task' = [task EXCEPT ![t].at = answer]
      BY <1>2, Basics DEF Answers, TasksOK
    <2>2. answer \in Stages(task[t].kind) /\ answer \in Posting /\ answer \notin Serving
      BY <1>2, TaskAt DEF Stages, Posting, Serving
    <2> QED
      BY <2>1, <2>2, TaskAt, MovesOK DEF Posting
  <1> QED
    BY <1>1, <1>2

\* create makes the row that the caller asked for.
LEMMA CreatedRow ==
  ASSUME TypeOK, NEW t \in Task, Create(t)
  PROVE  LET r == [endpoint |-> task[t].endpoint, user |-> Caller(t)]
         IN  /\ task[t].endpoint \in 1..minted /\ Caller(t) \in User
             /\ \/ rows' = rows
                \/ /\ Creatable(task[t].endpoint)
                   /\ rows' \in Seq(Row) /\ Unique(rows') /\ ToSet(rows') = ToSet(rows) \cup {r}
  <1> DEFINE r == [endpoint |-> task[t].endpoint, user |-> Caller(t)]
  <1>1. task[t].at \in Serving /\ task[t].at \in Posting
    BY DEF Create, At, Serving, Posting
  <1>2. task[t].endpoint \in 1..minted /\ Caller(t) \in User
    BY <1>1, TaskAt, Basics DEF Caller
  <1>3. r \in Row /\ r.endpoint \in 1..minted
    BY <1>2, Basics, Bounds DEF Row, Elsewhere
  <1>4. CASE Creatable(task[t].endpoint)
    <2>1. \A p \in ToSet(rows) : p.endpoint # r.endpoint
      <3> SUFFICES ASSUME NEW p \in ToSet(rows), p.endpoint = task[t].endpoint PROVE FALSE
        OBVIOUS
      <3>1. p \in Row
        BY RowEndpoints
      <3>2. p = [endpoint |-> task[t].endpoint, user |-> p.user] /\ p.user \in User
        BY <3>1 DEF Row
      <3> QED
        BY <1>4, <3>2, TakenRows DEF Creatable
    <2>2. rows \in Seq(Row) /\ Unique(rows)
      BY RowEndpoints DEF RowType, Unique
    <2>3. r \notin ToSet(rows)
      BY <2>1
    <2>4. rows' = Append(rows, r)
      BY <1>4 DEF Create
    <2>5. rows' \in Seq(Row) /\ Unique(rows') /\ ToSet(rows') = ToSet(rows) \cup {r}
      BY <1>3, <2>1, <2>2, <2>3, <2>4, AppendedRow
    <2> QED
      BY <1>2, <1>4, <2>5
  <1>5. CASE ~ Creatable(task[t].endpoint)
    BY <1>2, <1>5 DEF Create
  <1> QED
    BY <1>4, <1>5

LEMMA RequestType ==
  ASSUME TypeOK, NEW t \in Task, Refresh(t) \/ Evict(t) \/ Create(t)
  PROVE  TypeOK'
  <1>a. task[t].at \in Serving /\ task[t].at \in Posting /\ task[t].session \in DOMAIN owner
    BY TaskAt DEF Refresh, Evict, Create, At, Serving, Posting
  <1>b. task[t].endpoint \in 1..minted /\ Caller(t) \in User
    BY <1>a, TaskAt, Basics DEF Caller
  <1>m. ASSUME NEW at \in Serving PROVE TasksOK([task EXCEPT ![t].at = at], minted, DOMAIN owner)
    <2>1. at \in Stages(task[t].kind)
      BY <1>a, TaskAt DEF Stages, Posting
    <2> QED
      BY <1>a, <2>1, TaskAt, MovesOK
  <1>1. CASE Refresh(t)
    <2>1. TasksOK(task', minted, DOMAIN owner)
      BY <1>1, <1>a, <1>m, AnswersOK DEF Refresh, Serving
    <2> QED
      BY <1>1, <2>1, Basics, TypeKept DEF Refresh, sessions, pageVars
  <1>2. CASE Evict(t)
    <2>1. TasksOK(task', minted, DOMAIN owner)
      BY <1>2, <1>m DEF Evict, Serving
    <2>2. RowType'
      <3>1. rows' \in Seq(Row) /\ Unique(rows') /\ ToSet(rows') \subseteq ToSet(rows)
        BY <1>2, RowEndpoints, EvictedRow DEF Evict
      <3> QED
        BY <1>2, <3>1, RowEndpoints, RowTypeAfter DEF Evict
    <2>3. excused' \in BOOLEAN
      BY <1>2 DEF Evict
    <2> QED
      BY <1>2, <2>1, <2>2, <2>3, Basics, TypeKept DEF Evict, sessions, pageVars
  <1>3. CASE Create(t)
    <2> DEFINE r == [endpoint |-> task[t].endpoint, user |-> Caller(t)]
    <2>1. TasksOK(task', minted, DOMAIN owner)
      BY <1>3, <1>a, AnswersOK DEF Create
    <2>2. CASE rows' = rows
      BY <1>3, <2>1, <2>2, Basics, TypeKept DEF Create, sessions, pageVars
    <2>3. CASE rows' # rows
      <3>1. rows' \in Seq(Row) /\ Unique(rows') /\ ToSet(rows') = ToSet(rows) \cup {r}
        BY <1>3, <2>3, CreatedRow
      <3>2. r.endpoint \in 1..minted
        BY <1>b
      <3>3. RowType'
        BY <1>3, <3>1, <3>2, RowEndpoints, RowTypeAfter DEF Create
      <3> QED
        BY <1>3, <2>1, <3>3, Basics, TypeKept DEF Create, sessions, pageVars
    <2> QED
      BY <2>2, <2>3
  <1> QED
    BY <1>1, <1>2, <1>3

LEMMA AnsweredType ==
  ASSUME TypeOK, NEW t \in Task, Answered(t)
  PROVE  TypeOK'
  <1>a. task[t].at \in Posting \ Serving
    BY DEF Answered, Posting, Serving
  <1>k. task[t].kind \in {"init", "enable", "again"} /\ task[t] \in Tasks
    BY <1>a, TaskAt
  <1>1. TasksOK(task', minted, DOMAIN owner) /\ busy' \in BOOLEAN
    <2>1. CASE Ends(t)
      BY <2>1, EndsOK
    <2>2. CASE UNCHANGED busy /\ task' = [task EXCEPT ![t].kind = "again", ![t].at = "subscribe"]
      <3> DEFINE x == [task[t] EXCEPT !.kind = "again", !.at = "subscribe"]
      <3>1. x \in Tasks /\ x.kind = "again" /\ x.at = "subscribe"
        BY <1>k DEF Tasks
      <3>2. TaskOK(x, minted, DOMAIN owner)
        BY <3>1 DEF TaskOK, Stages, Posting, Serving
      <3>3. task' = [task EXCEPT ![t] = x]
        BY <2>2, Basics DEF TasksOK
      <3> QED
        BY <2>2, <3>2, <3>3, Basics, TasksSet
    <2> QED
      BY <2>1, <2>2 DEF Answered
  <1>2. state' \in {"loading", "off", "on"} /\ resolved' \in BOOLEAN
    <2>1. \A new \in {"loading", "off", "on"} : \A res \in BOOLEAN :
            Sets(t, new, res) => state' \in {"loading", "off", "on"} /\ resolved' \in BOOLEAN
      BY EndsOK
    <2>2. \/ Sets(t, "on", TRUE) \/ Sets(t, "loading", FALSE) \/ Sets(t, "off", TRUE)
          \/ Sets(t, "off", resolved) \/ UNCHANGED <<state, resolved>>
      BY DEF Answered
    <2> QED
      BY <2>1, <2>2, Basics
  <1>3. sub' \in {sub, None} /\ excused' \in BOOLEAN /\ faults' \in 0..MaxFaults
    BY Basics, FaultType DEF Answered, Unsubscribes
  <1>4. UNCHANGED <<rows, sessions, page, mount, known, minted>>
    BY DEF Answered
  <1> QED
    BY <1>1, <1>2, <1>3, <1>4, Basics, TypeKept DEF sessions
LEMMA UnsubscribeType ==
  ASSUME TypeOK, NEW t \in Task, Unsubscribe(t)
  PROVE  TypeOK'
  <1>k. /\ task[t].kind \in {"disable", "signout", "local"}
        /\ task[t].endpoint \in 1..minted
    BY TaskAt DEF Unsubscribe, At
  <1>1. TasksOK(task', minted, DOMAIN owner) /\ busy' \in BOOLEAN
    <2>1. CASE Ends(t)
      BY <2>1, EndsOK
    <2>2. CASE task[t].kind # "local" /\ task' = Sends(t, "delete") /\ UNCHANGED busy
      <3>1. "delete" \in Stages(task[t].kind)
        BY <1>k, <2>2 DEF Stages
      <3>2. TasksOK(Sends(t, "delete"), minted, DOMAIN owner)
        BY <1>k, <3>1, SendsOK DEF Serving
      <3> QED
        BY <2>2, <3>2, Basics
    <2>3. CASE task[t].kind = "signout" /\ task' = Sends(t, "logout") /\ Released(t)
      <3>1. TasksOK(Sends(t, "logout"), minted, DOMAIN owner)
        BY <2>3, SendsOK DEF Stages, Posting, Serving
      <3> QED
        BY <2>3, <3>1, EndsOK
    <2> QED
      BY <2>1, <2>2, <2>3 DEF Unsubscribe
  <1>2. sub' \in {sub, None} /\ excused' \in BOOLEAN /\ faults' \in 0..MaxFaults
    BY Basics, FaultType DEF Unsubscribe, Unsubscribes
  <1>3. UNCHANGED <<rows, sessions, page, mount, state, resolved, known, minted>>
    BY DEF Unsubscribe
  <1> QED
    BY <1>1, <1>2, <1>3, Basics, TypeKept DEF sessions

LEMMA DeleteType ==
  ASSUME TypeOK, NEW t \in Task, Delete(t)
  PROVE  TypeOK'
  <1> DEFINE rest == IF task[t].kind = "signout" THEN Sends(t, "logout") ELSE [task EXCEPT ![t] = Idle]
  <1>1. TasksOK(rest, minted, DOMAIN owner)
    <2>1. CASE task[t].kind = "signout"
      BY <2>1, SendsOK DEF Stages, Posting, Serving
    <2>2. CASE task[t].kind # "signout"
      BY <2>2, Basics, IdleOK, TasksSet
    <2> QED
      BY <2>1, <2>2
  <1>2. /\ state' \in {"loading", "off", "on"} /\ resolved' \in BOOLEAN /\ busy' \in BOOLEAN
        /\ UNCHANGED <<sessions, mount, known, sub, minted>>
    BY Basics, EndsOK DEF Delete
  <1>3. CASE /\ rows' = Without([endpoint |-> task[t].endpoint, user |-> Caller(t)])
             /\ task' = rest
             /\ UNCHANGED <<page, excused, faults>>
    <2>1. RowType'
      <3>1. rows' \in Seq(Row) /\ Unique(rows') /\ ToSet(rows') \subseteq ToSet(rows)
        BY <1>3, RowEndpoints, WithoutRow
      <3> QED
        BY <1>2, <3>1, RowEndpoints, RowTypeAfter
    <2> QED
      BY <1>1, <1>2, <1>3, <2>1, Basics, TypeKept DEF sessions
  <1>4. CASE Unauthorized(rest) /\ UNCHANGED <<rows, faults>>
    BY <1>1, <1>2, <1>4, UnauthorizedOK, Basics, TypeKept DEF sessions
  <1>5. CASE Fault /\ task' = rest /\ UNCHANGED <<rows, page, excused>>
    BY <1>1, <1>2, <1>5, FaultType, Basics, TypeKept DEF sessions
  <1> QED
    BY <1>3, <1>4, <1>5 DEF Delete

LEMMA LogoutType ==
  ASSUME TypeOK, NEW t \in Task, Logout(t)
  PROVE  TypeOK'
  <1> DEFINE rest == [task EXCEPT ![t] = Idle]
  <1>1. TasksOK(rest, minted, DOMAIN owner)
    BY Basics, IdleOK, TasksSet
  <1>2. UNCHANGED <<rows, owner, mount, state, resolved, known, busy, sub, minted>>
    BY DEF Logout
  <1>3. CASE /\ live' = live \ {task[t].session}
             /\ cookie' = None
             /\ page' = IF page \in User THEN "login" ELSE page
             /\ task' = rest
             /\ excused' = (excused \/ Running # {t})
             /\ UNCHANGED faults
    <2>1. RowType' /\ SessionType' /\ PageType'
      BY <1>2, <1>3, Basics DEF TypeOK, RowType, SessionType, PageType, None
    <2> QED
      BY <1>1, <1>2, <1>3, <2>1, Basics, TypeParts
  <1>4. CASE Unauthorized(rest) /\ UNCHANGED <<live, cookie, faults>>
    BY <1>1, <1>2, <1>4, UnauthorizedOK, Basics, TypeKept
  <1>5. CASE /\ Fault
             /\ live' \in {live, live \ {task[t].session}}
             /\ task' = rest
             /\ UNCHANGED <<cookie, page, excused>>
    <2>1. live' \subseteq live
      BY <1>5
    <2> QED
      BY <1>1, <1>2, <1>5, <2>1, FaultType, Basics, TypeKept
  <1> QED
    BY <1>3, <1>4, <1>5 DEF Logout

LEMMA OtherType ==
  ASSUME TypeOK,
         \/ \E u \in User : SubscribeElsewhere(u)
         \/ \E r \in ToSet(rows) : Prune(r)
         \/ \E s \in live : Expire(s)
  PROVE  TypeOK'
  <1>1. ASSUME NEW u \in User, SubscribeElsewhere(u) PROVE TypeOK'
    <2> DEFINE r == [endpoint |-> Elsewhere, user |-> u]
    <2>1. PICK q \in Evicted(u) : rows' = Append(q, r)
      BY <1>1 DEF SubscribeElsewhere
    <2>2. q \in Seq(Row) /\ Unique(q) /\ ToSet(q) \subseteq ToSet(rows)
      BY RowEndpoints, EvictedRow
    <2>3. r \in Row /\ r.endpoint = Elsewhere /\ r \notin ToSet(q)
      BY <1>1, <2>2, Bounds DEF SubscribeElsewhere, Row, Elsewhere
    <2>4. rows' \in Seq(Row) /\ Unique(rows') /\ ToSet(rows') = ToSet(q) \cup {r}
      BY <2>1, <2>2, <2>3, AppendedRow
    <2>5. RowType'
      BY <1>1, <2>2, <2>3, <2>4, RowEndpoints, RowTypeAfter DEF SubscribeElsewhere
    <2>6. excused' \in BOOLEAN
      BY <1>1 DEF SubscribeElsewhere
    <2> QED
      BY <1>1, <2>5, <2>6, Basics, TypeKept DEF SubscribeElsewhere, sessions, pageVars
  <1>2. ASSUME NEW r \in ToSet(rows), Prune(r) PROVE TypeOK'
    <2>1. rows' \in Seq(Row) /\ Unique(rows') /\ ToSet(rows') \subseteq ToSet(rows)
      BY <1>2, RowEndpoints, WithoutRow DEF Prune
    <2>2. RowType'
      BY <1>2, <2>1, RowEndpoints, RowTypeAfter DEF Prune
    <2> QED
      BY <1>2, <2>2, Basics, TypeKept DEF Prune, sessions, pageVars
  <1>3. ASSUME NEW s \in live, Expire(s) PROVE TypeOK'
    BY <1>3, Basics, TypeKept DEF Expire, pageVars
  <1> QED
    BY <1>1, <1>2, <1>3

LEMMA TypeInit == Init => TypeOK
  <1> SUFFICES ASSUME Init PROVE TypeOK
    OBVIOUS
  <1>1. \A t \in Task : TaskOK(task[t], minted, DOMAIN owner)
    BY IdleOK DEF Init
  <1>2. TaskType
    BY <1>1, TaskTypeOK DEF Init, TasksOK
  <1>3. RowType
    BY DEF Init, RowType
  <1>4. SessionType
    BY DEF Init, SessionType, None
  <1>5. PageType
    <2>1. /\ page = "login" /\ mount = 0 /\ state = "loading" /\ sub = 0 /\ minted = 0
          /\ resolved \in BOOLEAN /\ known \in BOOLEAN /\ busy \in BOOLEAN
      BY Zenon DEF Init, None
    <2> QED
      BY <2>1, Bounds DEF PageType
  <1>6. excused \in BOOLEAN /\ faults = 0
    BY Zenon DEF Init
  <1> QED
    BY <1>2, <1>3, <1>4, <1>5, <1>6, Bounds DEF TypeOK

LEMMA TypeStep == TypeOK /\ [Next]_vars => TypeOK'
  <1> SUFFICES ASSUME TypeOK, [Next]_vars PROVE TypeOK'
    OBVIOUS
  <1>1. CASE \E u \in User : Login(u) \/ GoogleCallback(u)
    BY <1>1, EnterType DEF Login, GoogleCallback
  <1>2. CASE (\E u \in User : SubscribeElsewhere(u)) \/ (\E r \in ToSet(rows) : Prune(r))
               \/ (\E s \in live : Expire(s))
    BY <1>2, OtherType
  <1>3. CASE Leave
    BY <1>3, LeaveType
  <1>4. CASE Load \/ Poll \/ Retry \/ Toggle \/ Signout
    BY <1>4, BeginType
  <1>5. ASSUME NEW t \in Task,
               \/ Config(t) \/ Read(t) \/ Subscribe(t) \/ Post(t) \/ Refresh(t) \/ Evict(t) \/ Create(t)
               \/ Lost(t) \/ Answered(t) \/ Unsubscribe(t) \/ Delete(t) \/ Logout(t)
        PROVE  TypeOK'
    BY <1>5, ConfigType, ReadType, SubscribeType, PostType, RequestType, AnsweredType, UnsubscribeType,
       DeleteType, LogoutType
  <1>6. CASE UNCHANGED vars
    <2>1. TasksOK(task', minted, DOMAIN owner)
      BY <1>6, Basics DEF vars
    <2> QED
      BY <1>6, <2>1, Basics, TypeKept DEF vars, sessions, pageVars
  <1> QED
    BY <1>1, <1>2, <1>3, <1>4, <1>5, <1>6 DEF Next

\* Every reachable state is well typed; in particular no endpoint has two rows, a
\* request that the server works on has a session, and a task awaits nothing that
\* its kind does not.
THEOREM TypeCorrect == Spec => []TypeOK
  BY TypeInit, TypeStep, PTL DEF Spec
-----------------------------------------------------------------------------
(* One task at a time, and what it holds                                   *)

\* u has a row for endpoint e in q.
Rowed(e, u, q) == [endpoint |-> e, user |-> u] \in ToSet(q)

\* What the browser is delivered is the user's, and the user's is delivered.
Mine == \A u \in User : Rowed(sub, u, rows) => u = page
Registered == sub # None /\ Rowed(sub, page, rows)

\* The session that the cookie names is the one of the user on the page.
MineInv == page \in User => cookie \in DOMAIN owner /\ owner[cookie] = page

\* A page that was closed has left only what the server had begun.
ClosedInv == page = "closed" => \A t \in Task : task[t].kind \in {"idle", "orphan"}

Application == page \in User /\ ~ excused

\* One task at a time is under way, and it is of this mount.
AloneInv ==
  Application => \A t \in Running : /\ task[t].mount = mount
                                    /\ task[t].kind \notin {"local", "orphan"}
                                    /\ \A s \in Running : s = t

\* What the task that is under way knows of the subscription, of its row and of what
\* the page shows.
Held(t) ==
  /\ task[t].at \in Posting => task[t].session = cookie
  /\ task[t].at \in Posting \cup {"unsubscribe"} => task[t].endpoint = sub
  /\ task[t].at \in {"delete", "logout"} => sub = None
  /\ task[t].at = "ok" => Registered
  /\ task[t].kind = "init" => ~ resolved
  /\ state = "on" => task[t].kind \in {"disable", "signout"}

\* What the page shows is so, but for a subscription that is being given up.
Shown ==
  /\ resolved => Mine
  /\ state = "on" => resolved /\ (Registered \/ \E t \in Task : At(t, "delete"))

HeldInv == Application => Shown /\ \A t \in Running : Held(t)

\* At the sign-in page a subscription that is left is about to be removed.
Removing(t) == task[t].kind = "local" /\ (At(t, "read") \/ task[t].endpoint = sub)

LoginInv ==
  page = "login" /\ ~ excused => Enabling = {} /\ (sub # None => \E t \in Task : Removing(t))

ShareInv == MineInv /\ ClosedInv /\ AloneInv /\ HeldInv /\ LoginInv

LEMMA PageKinds ==
  ASSUME TypeOK
  PROVE  page \in User <=> page \notin {"closed", "login"}
  BY Basics, NotificationsAssumption

\* The task under way in the application.
LEMMA Solo ==
  ASSUME TypeOK, ShareInv, Application, NEW t \in Task, task[t].kind # "idle"
  PROVE  /\ Held(t) /\ Shown /\ task[t].mount = mount /\ Mounted(t)
         /\ task[t].kind \notin {"local", "orphan"}
         /\ \A s \in Task : s # t => task[s].kind = "idle"
  BY DEF ShareInv, AloneInv, HeldInv, Running, Free, Mounted, Application

\* A step of that task that stays in the application.
LEMMA SoloStep ==
  ASSUME TypeOK, ShareInv, Application, NEW t \in Task, task[t].kind # "idle",
         UNCHANGED <<page, mount, cookie, owner>>,
         \A s \in Task : s # t => task'[s] = task[s],
         \/ task'[t].kind = "idle"
         \/ task'[t].mount = mount /\ task'[t].kind \notin {"local", "orphan"} /\ Held(t)',
         Shown'
  PROVE  ShareInv'
  <1>1. MineInv' /\ ClosedInv' /\ LoginInv'
    BY PageKinds DEF ShareInv, MineInv, ClosedInv, LoginInv, Application
  <1>2. \A s \in Running' : s = t /\ task'[t].kind # "idle"
    BY Solo DEF Running, Free
  <1>3. AloneInv'
    BY <1>2 DEF AloneInv
  <1>4. HeldInv'
    BY <1>2 DEF HeldInv
  <1> QED
    BY <1>1, <1>3, <1>4 DEF ShareInv

\* A step of a task at the sign-in page.
LEMMA LoginStep ==
  ASSUME TypeOK, ShareInv, page = "login", page' = "login", ~ excused' => ~ excused,
         NEW t \in Task, \A s \in Task : s # t => task'[s] = task[s],
         task'[t].kind \in {"enable", "again"} => task[t].kind \in {"enable", "again"},
         sub' \in {sub, None},
         Removing(t) => sub' = None \/ (task'[t].kind = "local" /\ task'[t].endpoint = sub)
  PROVE  ShareInv'
  <1>1. MineInv' /\ ClosedInv' /\ AloneInv' /\ HeldInv'
    BY NotificationsAssumption DEF MineInv, ClosedInv, AloneInv, HeldInv, Application
  <1>2. ASSUME ~ excused' PROVE Enabling' = {}
    BY <1>2 DEF ShareInv, LoginInv, Enabling
  <1>3. ASSUME ~ excused', sub' # None PROVE \E s \in Task : Removing(s)'
    <2>1. sub' = sub /\ sub # None
      BY <1>3
    <2>2. PICK s \in Task : Removing(s)
      BY <1>3, <2>1 DEF ShareInv, LoginInv
    <2>3. CASE s = t
      BY <1>3, <2>1, <2>2, <2>3 DEF Removing
    <2>4. CASE s # t
      BY <2>1, <2>2, <2>4 DEF Removing, At
    <2> QED
      BY <2>3, <2>4
  <1>4. LoginInv'
    BY <1>2, <1>3 DEF LoginInv
  <1> QED
    BY <1>1, <1>4 DEF ShareInv

\* A 401: the page goes to the sign-in page and removes the subscription, if it is
\* not there already.
LEMMA UnauthorizedStep ==
  ASSUME TypeOK, ShareInv, page # "closed", NEW rest, Unauthorized(rest), sub' = sub,
         rest = [s \in Task |-> rest[s]],
         \A s \in Task : \/ rest[s] = task[s]
                         \/ rest[s].kind \in {"idle", task[s].kind} /\ task[s].kind # "local"
  PROVE  ShareInv'
  <1>0. page' = "login"
    BY PageKinds DEF Unauthorized
  <1>1. MineInv' /\ ClosedInv' /\ AloneInv' /\ HeldInv'
    BY <1>0, NotificationsAssumption DEF MineInv, ClosedInv, AloneInv, HeldInv, Application
  <1>2. CASE page \in User
    <2>1. PICK t \in Task : /\ rest[t].kind = "idle"
                            /\ task' = [rest EXCEPT ![t] = Begun("local", "read", mount, None)]
      BY <1>2 DEF Unauthorized
    <2>2. /\ task'[t].kind = "local" /\ task'[t].at = "read"
          /\ \A s \in Task : s # t => task'[s] = rest[s]
      BY <2>1 DEF Begun
    <2>3. Removing(t)'
      BY <2>2 DEF Removing, At
    <2>4. ASSUME ~ excused', NEW s \in Enabling' PROVE FALSE
      <3>1. s # t /\ s \in Task /\ rest[s].kind \in {"enable", "again"}
        BY <2>2, <2>4 DEF Enabling
      <3>2. s \in Enabling /\ rest[s].kind # "idle"
        BY <3>1 DEF Enabling
      <3> QED
        BY <2>4, <3>2 DEF Unauthorized
    <2> QED
      BY <1>1, <2>3, <2>4 DEF ShareInv, LoginInv
  <1>3. CASE page \notin User
    <2>1. page = "login" /\ task' = rest /\ (~ excused' => ~ excused)
      BY <1>3, PageKinds DEF Unauthorized
    <2>2. ASSUME ~ excused' PROVE Enabling' = {}
      BY <2>1, <2>2 DEF ShareInv, LoginInv, Enabling
    <2>3. ASSUME ~ excused', sub' # None PROVE \E s \in Task : Removing(s)'
      <3>1. PICK s \in Task : Removing(s)
        BY <2>1, <2>3 DEF ShareInv, LoginInv
      <3>2. task'[s] = task[s]
        BY <2>1, <3>1 DEF Removing
      <3> QED
        BY <3>1, <3>2 DEF Removing, At
    <2> QED
      BY <1>1, <2>2, <2>3 DEF ShareInv, LoginInv
  <1> QED
    BY <1>2, <1>3
\* A step of a task that leaves the page where it is.
LEMMA TaskStep ==
  ASSUME TypeOK, ShareInv, NEW t \in Task, task[t].kind # "idle",
         UNCHANGED <<page, mount, cookie, owner>>, excused => excused',
         NEW x, task' = [task EXCEPT ![t] = x],
         x.kind \in {"idle", task[t].kind} \/ (task[t].kind = "enable" /\ x.kind = "again"),
         page = "login" /\ ~ excused' =>
           /\ sub' \in {sub, None}
           /\ Removing(t) => sub' = None \/ (x.kind = "local" /\ x.endpoint = sub),
         Application /\ ~ excused' => Shown' /\ (x.kind = "idle" \/ (x.mount = mount /\ Held(t)'))
  PROVE  ShareInv'
  <1>1. task'[t] = x /\ \A s \in Task : s # t => task'[s] = task[s]
    BY Basics DEF TasksOK
  <1>2. CASE page = "closed"
    <2>1. ClosedInv'
      BY <1>1, <1>2 DEF ShareInv, ClosedInv
    <2>2. MineInv' /\ AloneInv' /\ HeldInv' /\ LoginInv'
      BY <1>2, NotificationsAssumption DEF MineInv, AloneInv, HeldInv, LoginInv, Application
    <2> QED
      BY <2>1, <2>2 DEF ShareInv
  <1>3. CASE page # "closed" /\ excused'
    BY <1>3, PageKinds DEF ShareInv, MineInv, ClosedInv, AloneInv, HeldInv, LoginInv, Application
  <1>4. CASE page = "login" /\ ~ excused'
    BY <1>1, <1>4, LoginStep
  <1>5. CASE page \in User /\ ~ excused'
    <2>1. Application
      BY <1>5 DEF Application
    <2>2. task[t].kind \notin {"local", "orphan"}
      BY <2>1, Solo
    <2> QED
      BY <1>1, <1>5, <2>1, <2>2, SoloStep
  <1> QED
    BY <1>2, <1>3, <1>4, <1>5, PageKinds

\* Only the server works for a page that is closed.
LEMMA Awake ==
  ASSUME TypeOK, ShareInv, NEW t \in Task, task[t].at \notin Serving \cup {"none"}
  PROVE  page # "closed" /\ task[t].kind # "idle"
  BY TaskAt DEF ShareInv, ClosedInv, Stages, At

\* What is shown to be on is registered, until the subscription is removed.
LEMMA SoloShown ==
  ASSUME TypeOK, ShareInv, Application, NEW t \in Task, task[t].kind # "idle", ~ At(t, "delete"),
         state = "on"
  PROVE  Registered
  <1>1. \A s \in Task : s # t => ~ At(s, "delete")
    BY Solo, TaskAt DEF At
  <1> QED
    BY <1>1, Solo DEF Shown

\* Without a subscription nothing is delivered.
LEMMA NoneRowed ==
  ASSUME NEW q \in Seq(Row), NEW u
  PROVE  ~ Rowed(None, u, q)
  <1>1. ToSet(q) \subseteq Row
    BY DEF ToSet
  <1> QED
    BY <1>1 DEF Rowed, Row, None

\* The row of an endpoint of this browser is its only one.
LEMMA OneRow ==
  ASSUME TypeOK, Registered
  PROVE  Mine
  <1> SUFFICES ASSUME NEW u \in User, Rowed(sub, u, rows) PROVE u = page
    BY DEF Mine
  <1>1. PICK i \in DOMAIN rows : rows[i] = [endpoint |-> sub, user |-> u]
    BY DEF Rowed, ToSet
  <1>2. PICK j \in DOMAIN rows : rows[j] = [endpoint |-> sub, user |-> page]
    BY DEF Registered, Rowed, ToSet
  <1>3. sub # Elsewhere
    BY Basics, Bounds DEF Elsewhere
  <1>4. i = j
    BY <1>1, <1>2, <1>3 DEF TypeOK, RowType
  <1> QED
    BY <1>1, <1>2, <1>4

\* The session of a request of the application is the user's.
LEMMA OwnCaller ==
  ASSUME TypeOK, ShareInv, page \in User, NEW t \in Task, task[t].session = cookie
  PROVE  Caller(t) = page
  BY DEF ShareInv, MineInv, Caller

\* The browser has the endpoint of a task that posts or removes it.
LEMMA OwnEndpoint ==
  ASSUME TypeOK, ShareInv, Application, NEW t \in Task, task[t].at \in Posting \cup {"unsubscribe"}
  PROVE  task[t].endpoint = sub /\ sub # None
  <1>1. task[t].kind # "idle"
    BY TaskAt DEF At, Posting, Serving
  <1> QED
    BY <1>1, Solo, TaskAt, Basics DEF Held, None
\* What is shown after a step that leaves the rows, or removes the subscription.
LEMMA ShownAfter ==
  ASSUME TypeOK, ShareInv, Application, NEW t \in Task, task[t].kind # "idle", page' = page,
         (rows' = rows /\ sub' = sub) \/ (rows' \in Seq(Row) /\ sub' = None),
         \/ /\ UNCHANGED <<state, resolved>> /\ ~ At(t, "delete")
            /\ state = "on" => rows' = rows /\ sub' = sub
         \/ state' = "off" /\ resolved' = resolved
         \/ state' = "off" /\ sub' = None
         \/ state' = "loading" /\ resolved' = FALSE
  PROVE  Shown'
  <1>1. resolved => Mine
    BY Solo DEF Shown
  <1>2. sub' = None => Mine'
    <2>1. RowType
      BY DEF TypeOK
    <2> QED
      BY <2>1, NoneRowed DEF Mine, RowType
  <1>3. resolved' => Mine'
    BY <1>1, <1>2 DEF Mine
  <1>4. state' = "on" => resolved' /\ Registered'
    BY SoloShown, Solo DEF Shown, Registered
  <1> QED
    BY <1>3, <1>4 DEF Shown

LEMMA ConfigShare ==
  ASSUME TypeOK, ShareInv, NEW t \in Task, Config(t)
  PROVE  ShareInv'
  <1>1. /\ page # "closed" /\ task[t].kind = "init" /\ task[t].at = "config" /\ ~ At(t, "delete")
        /\ ~ Removing(t)
    BY Awake, TaskAt DEF Config, At, Serving, Removing
  <1>2. CASE Unauthorized([task EXCEPT ![t] = Idle])
    <2> DEFINE rest == [task EXCEPT ![t] = Idle]
    <2>1. /\ rest = [s \in Task |-> rest[s]] /\ rest[t].kind = "idle"
          /\ \A s \in Task : s # t => rest[s] = task[s]
      BY Basics DEF TasksOK, Idle
    <2>2. \A s \in Task : \/ rest[s] = task[s]
                          \/ rest[s].kind \in {"idle", task[s].kind} /\ task[s].kind # "local"
      BY <1>1, <2>1
    <2>5. sub' = sub
      BY DEF Config
    <2> HIDE DEF rest
    <2> QED
      BY <1>1, <1>2, <2>1, <2>2, <2>5, UnauthorizedStep DEF rest
  <1>3. ASSUME NEW x, task' = [task EXCEPT ![t] = x],
               UNCHANGED <<page, excused>>,
               \/ x = [task[t] EXCEPT !.at = "read"] /\ UNCHANGED <<state, resolved>>
               \/ x = Idle /\ Sets(t, "loading", FALSE)
        PROVE  ShareInv'
    <2>1. task[t] \in Tasks
      BY TaskAt
    <2>2. /\ x.kind \in {"idle", task[t].kind}
          /\ x.kind = "idle" \/ (x.mount = task[t].mount /\ x.at = "read")
      <3>1. CASE x = [task[t] EXCEPT !.at = "read"]
        BY <2>1, <3>1 DEF Tasks
      <3>2. CASE x = Idle
        BY <3>2 DEF Idle
      <3> QED
        BY <1>3, <3>1, <3>2
    <2>3. task'[t] = x
      BY <1>3, Basics DEF TasksOK
    <2>4. UNCHANGED <<rows, sub, cookie, owner, mount>>
      BY DEF Config, sessions
    <2>5. ASSUME Application PROVE Shown' /\ (x.kind = "idle" \/ (x.mount = mount /\ Held(t)'))
      <3>1. Mounted(t) /\ task[t].mount = mount /\ Held(t)
        BY <1>1, <2>5, Solo
      <3>2. Shown'
        BY <1>1, <1>3, <2>4, <2>5, <3>1, ShownAfter DEF Sets
      <3>3. ASSUME x = [task[t] EXCEPT !.at = "read"], UNCHANGED <<state, resolved>> PROVE Held(t)'
        <4>1. task'[t].at = "read" /\ task'[t].kind = "init"
          BY <1>1, <2>1, <2>3, <3>3 DEF Tasks
        <4> QED
          BY <1>1, <3>1, <3>3, <4>1 DEF Held, Posting, Serving
      <3>0. Idle.kind = "idle"
        BY DEF Idle
      <3>4. x.kind # "idle" => x = [task[t] EXCEPT !.at = "read"] /\ UNCHANGED <<state, resolved>>
        BY <1>3, <3>0, Zenon
      <3> QED
        BY <2>2, <3>1, <3>2, <3>3, <3>4
    <2> QED
      BY <1>1, <1>3, <2>2, <2>4, <2>5, TaskStep
  <1>4. CASE ~ Unauthorized([task EXCEPT ![t] = Idle])
    <2>1. PICK x \in {[task[t] EXCEPT !.at = "read"], Idle} :
             /\ task' = [task EXCEPT ![t] = x]
             /\ UNCHANGED <<page, excused>>
             /\ \/ x = [task[t] EXCEPT !.at = "read"] /\ UNCHANGED <<state, resolved>>
                \/ x = Idle /\ Sets(t, "loading", FALSE)
      BY <1>4, Basics DEF Config, TasksOK
    <2> QED
      BY <2>1, <1>3
  <1> QED
    BY <1>2, <1>4

\* A request is answered, or lost, on its way.
LEMMA MoveShare ==
  ASSUME TypeOK, ShareInv, NEW t \in Task, task[t].at \in Posting \ Serving,
         NEW at \in {"refresh", "error"}, task' = [task EXCEPT ![t].at = at],
         UNCHANGED <<page, mount, cookie, owner, excused, rows, sub, state, resolved>>
  PROVE  ShareInv'
  <1> DEFINE x == [task[t] EXCEPT !.at = at]
  <1>1. /\ task[t].kind \in {"init", "enable", "again"} /\ task[t] \in Tasks /\ ~ At(t, "delete")
        /\ ~ Removing(t) /\ task[t].kind # "idle"
    BY TaskAt DEF At, Posting, Serving, Removing
  <1>2. task' = [task EXCEPT ![t] = x] /\ task'[t] = x
    BY Basics DEF TasksOK
  <1>3. /\ x.kind = task[t].kind /\ x.mount = task[t].mount /\ x.at = at /\ x.endpoint = task[t].endpoint
        /\ x.session = task[t].session
    BY <1>1 DEF Tasks
  <1>4. ASSUME Application PROVE Shown' /\ x.mount = mount /\ Held(t)'
    <2>1. Held(t) /\ task[t].mount = mount
      BY <1>1, <1>4, Solo
    <2>2. Shown'
      BY <1>1, <1>4, ShownAfter
    <2>3. Held(t)'
      BY <1>2, <1>3, <2>1 DEF Held, Posting, Serving
    <2> QED
      BY <1>3, <2>1, <2>2, <2>3
  <1> HIDE DEF x
  <1> QED
    BY <1>1, <1>2, <1>3, <1>4, TaskStep

LEMMA PostShare ==
  ASSUME TypeOK, ShareInv, NEW t \in Task, Post(t) \/ Lost(t)
  PROVE  ShareInv'
  <1>1. CASE Lost(t)
    BY <1>1, MoveShare DEF Lost, Posting, Serving, sessions, pageVars
  <1>2. CASE Post(t) /\ ~ Unauthorized([task EXCEPT ![t].at = "error"])
    <2>1. task[t].at \in Posting \ Serving
      BY <1>2 DEF Post, At, Posting, Serving
    <2>2. PICK at \in {"refresh", "error"} : task' = [task EXCEPT ![t].at = at]
      BY <1>2 DEF Post
    <2>3. UNCHANGED <<page, mount, cookie, owner, excused, rows, sub, state, resolved>>
      BY <1>2 DEF Post, sessions
    <2> QED
      BY <2>1, <2>2, <2>3, MoveShare
  <1>3. CASE Post(t) /\ Unauthorized([task EXCEPT ![t].at = "error"])
    <2> DEFINE rest == [task EXCEPT ![t].at = "error"]
    <2>1. page # "closed" /\ task[t].kind \in {"init", "enable", "again"} /\ task[t] \in Tasks
      BY <1>3, Awake, TaskAt DEF Post, At, Posting, Serving
    <2>2. /\ rest = [s \in Task |-> rest[s]] /\ rest[t] = [task[t] EXCEPT !.at = "error"]
          /\ \A s \in Task : s # t => rest[s] = task[s]
      BY Basics DEF TasksOK
    <2>3. rest[t].kind = task[t].kind
      BY <2>1, <2>2 DEF Tasks
    <2>4. \A s \in Task : \/ rest[s] = task[s]
                          \/ rest[s].kind \in {"idle", task[s].kind} /\ task[s].kind # "local"
      BY <2>1, <2>2, <2>3
    <2>5. sub' = sub
      BY <1>3 DEF Post
    <2> HIDE DEF rest
    <2> QED
      BY <1>3, <2>1, <2>2, <2>4, <2>5, UnauthorizedStep DEF rest
  <1> QED
    BY <1>1, <1>2, <1>3
\* A step of a task that ends.
LEMMA EndShare ==
  ASSUME TypeOK, ShareInv, NEW t \in Task, task[t].kind # "idle", task' = [task EXCEPT ![t] = Idle],
         UNCHANGED <<page, mount, cookie, owner>>, excused => excused',
         page = "login" /\ ~ excused' => sub' \in {sub, None} /\ (Removing(t) => sub' = None),
         Application /\ ~ excused' => Shown'
  PROVE  ShareInv'
  <1>1. Idle.kind = "idle"
    BY DEF Idle
  <1> QED
    BY <1>1, TaskStep

LEMMA FoundShare ==
  ASSUME TypeOK, ShareInv, NEW t \in Task, Read(t), Found(t)
  PROVE  ShareInv'
  <1> DEFINE at == IF task[t].kind \in {"init", "enable"} THEN "post" ELSE "unsubscribe"
             x == [task[t] EXCEPT !.at = at, !.session = cookie, !.endpoint = sub]
  <1>1. /\ task[t] \in Tasks /\ task[t].kind \in {"init", "enable", "disable", "signout", "local"}
        /\ ~ At(t, "delete")
    BY TaskAt DEF Read, At
  <1>2. /\ x.at = at /\ x.kind = task[t].kind /\ x.endpoint = sub /\ x.session = cookie
        /\ x.mount = task[t].mount
    BY <1>1 DEF Tasks
  <1>3. task' = [task EXCEPT ![t] = x] /\ task'[t] = x
    BY Basics DEF Found, Sends, TasksOK
  <1>4. UNCHANGED <<page, mount, cookie, owner, rows, sub, state, resolved, excused>>
    BY DEF Read, Found, sessions
  <1>5. ASSUME Application PROVE Shown' /\ x.mount = mount /\ Held(t)'
    <2>1. Held(t) /\ task[t].mount = mount
      BY <1>1, <1>5, Solo
    <2>2. Shown'
      BY <1>1, <1>4, <1>5, ShownAfter
    <2>3. at \in {"post", "unsubscribe"}
      OBVIOUS
    <2>4. Held(t)'
      BY <1>2, <1>3, <1>4, <2>1, <2>3 DEF Held, Posting, Serving
    <2> QED
      BY <1>2, <2>1, <2>2, <2>4
  <1>6. task[t].kind # "idle" /\ (Removing(t) => x.kind = "local" /\ x.endpoint = sub)
    BY <1>1, <1>2 DEF Removing
  <1> HIDE DEF x
  <1> QED
    BY <1>2, <1>3, <1>4, <1>5, <1>6, TaskStep

LEMMA MissingShare ==
  ASSUME TypeOK, ShareInv, NEW t \in Task, Read(t), Missing(t)
  PROVE  ShareInv'
  <1>1. /\ task[t] \in Tasks /\ task[t].kind \in {"init", "enable", "disable", "signout", "local"}
        /\ ~ At(t, "delete") /\ task[t].kind # "idle"
    BY TaskAt DEF Read, At
  <1>2. UNCHANGED <<page, mount, cookie, owner, rows, sub, excused>> /\ sub = None
    BY DEF Read, Missing, sessions
  <1>3. ASSUME Application
        PROVE  /\ task[t].kind \in {"init", "disable", "signout", "enable"}
               /\ Held(t) /\ task[t].mount = mount
               /\ task[t].kind \in {"init", "disable", "signout"} => state' = "off"
               /\ task[t].kind = "enable" => UNCHANGED <<state, resolved>>
               /\ Shown'
    <2>1. Held(t) /\ task[t].mount = mount /\ Mounted(t) /\ task[t].kind # "local"
      BY <1>1, <1>3, Solo
    <2>2. CASE task[t].kind \in {"init", "disable", "signout"}
      <3>1. state' = "off"
        BY <2>1, <2>2 DEF Missing, Sets
      <3>2. Shown'
        BY <1>1, <1>2, <1>3, <3>1, ShownAfter
      <3> QED
        BY <2>1, <2>2, <3>1, <3>2
    <2>3. CASE task[t].kind = "enable"
      <3>1. UNCHANGED <<state, resolved>>
        BY <2>3 DEF Missing
      <3>2. Shown'
        BY <1>1, <1>2, <1>3, <3>1, ShownAfter
      <3> QED
        BY <2>1, <2>3, <3>1, <3>2
    <2> QED
      BY <1>1, <2>1, <2>2, <2>3
  <1>4. CASE task[t].kind \in {"init", "disable", "local"}
    <2>1. task' = [task EXCEPT ![t] = Idle]
      BY <1>4 DEF Missing, Ends
    <2> QED
      BY <1>1, <1>2, <1>3, <2>1, EndShare
  <1>5. CASE task[t].kind = "enable"
    <2> DEFINE x == [task[t] EXCEPT !.at = "subscribe"]
    <2>1. task' = [task EXCEPT ![t] = x] /\ task'[t] = x
      BY <1>5, Basics DEF Missing, TasksOK
    <2>2. x.at = "subscribe" /\ x.kind = task[t].kind /\ x.mount = task[t].mount
      BY <1>1 DEF Tasks
    <2>3. ASSUME Application PROVE Held(t)'
      <3>1. Held(t) /\ state' = state
        BY <1>3, <1>5, <2>3
      <3> QED
        BY <1>5, <2>1, <2>2, <3>1 DEF Held, Posting, Serving
    <2>4. ~ Removing(t)
      BY <1>5 DEF Removing
    <2> HIDE DEF x
    <2> QED
      BY <1>1, <1>2, <1>3, <2>1, <2>2, <2>3, <2>4, TaskStep
  <1>6. CASE task[t].kind = "signout"
    <2> DEFINE x == [task[t] EXCEPT !.at = "logout", !.session = cookie]
    <2>1. task' = [task EXCEPT ![t] = x] /\ task'[t] = x
      BY <1>6, Basics DEF Missing, TasksOK, Sends
    <2>2. x.at = "logout" /\ x.kind = task[t].kind /\ x.mount = task[t].mount
      BY <1>1 DEF Tasks
    <2>3. ASSUME Application PROVE Held(t)'
      BY <1>2, <1>6, <2>1, <2>2 DEF Held, Posting, Serving
    <2>4. ~ Removing(t)
      BY <1>6 DEF Removing
    <2> HIDE DEF x
    <2> QED
      BY <1>1, <1>2, <1>3, <2>1, <2>2, <2>3, <2>4, TaskStep
  <1> QED
    BY <1>1, <1>4, <1>5, <1>6

\* A call of the browser that fails excuses what comes of it.
LEMMA FailShare ==
  ASSUME TypeOK, ShareInv, NEW t \in Task, task[t].kind # "idle", excused',
         UNCHANGED <<page, mount, cookie, owner>>,
         \/ task' = [task EXCEPT ![t] = Idle]
         \/ task' = Sends(t, "logout")
  PROVE  ShareInv'
  <1>1. CASE task' = [task EXCEPT ![t] = Idle]
    BY <1>1, EndShare
  <1>2. CASE task' = Sends(t, "logout")
    <2> DEFINE x == [task[t] EXCEPT !.at = "logout", !.session = cookie]
    <2>1. task' = [task EXCEPT ![t] = x]
      BY <1>2, Basics DEF TasksOK, Sends
    <2>2. x.kind = task[t].kind
      BY TaskAt DEF Tasks
    <2> HIDE DEF x
    <2> QED
      BY <2>1, <2>2, TaskStep
  <1> QED
    BY <1>1, <1>2

LEMMA ReadShare ==
  ASSUME TypeOK, ShareInv, NEW t \in Task, Read(t)
  PROVE  ShareInv'
  <1>1. CASE Found(t)
    BY <1>1, FoundShare
  <1>2. CASE Missing(t)
    BY <1>2, MissingShare
  <1>3. CASE Unread(t)
    <2>1. task[t].kind # "idle"
      BY TaskAt DEF Read
    <2>2. excused' /\ UNCHANGED <<page, mount, cookie, owner>>
      BY <1>3 DEF Unread, Read, sessions
    <2>3. task' = [task EXCEPT ![t] = Idle] \/ task' = Sends(t, "logout")
      BY <1>3 DEF Unread, Ends
    <2> QED
      BY <2>1, <2>2, <2>3, FailShare
  <1> QED
    BY <1>1, <1>2, <1>3 DEF Read
LEMMA SubscribeShare ==
  ASSUME TypeOK, ShareInv, NEW t \in Task, Subscribe(t)
  PROVE  ShareInv'
  <1> DEFINE x == [task[t] EXCEPT !.at = "post", !.session = cookie, !.endpoint = sub', !.made = TRUE]
  <1>1. /\ task[t] \in Tasks /\ task[t].kind \in {"enable", "again"} /\ ~ At(t, "delete")
        /\ ~ Removing(t) /\ task[t].kind # "idle"
    BY TaskAt DEF Subscribe, At, Removing
  <1>2. UNCHANGED <<page, mount, cookie, owner, rows, excused>>
    BY DEF Subscribe, sessions
  <1>3. ~ (page = "login" /\ ~ excused)
    BY <1>1 DEF ShareInv, LoginInv, Enabling
  <1>4. ASSUME Ends(t), Sets(t, "off", resolved), sub' = sub PROVE ShareInv'
    <2>1. ASSUME Application PROVE Shown'
      BY <1>1, <1>2, <1>4, <2>1, Solo, ShownAfter DEF Sets
    <2> QED
      BY <1>1, <1>2, <1>3, <1>4, <2>1, EndShare DEF Ends
  <1>5. ASSUME IF sub = None THEN minted < MaxEndpoints /\ minted' = minted + 1 /\ sub' = minted'
                             ELSE UNCHANGED <<minted, sub>>,
               task' = [Sends(t, "post") EXCEPT ![t].endpoint = sub', ![t].made = TRUE],
               UNCHANGED <<state, resolved>>
        PROVE  ShareInv'
    <2>1. task' = [task EXCEPT ![t] = x] /\ task'[t] = x
      BY <1>5, Basics DEF TasksOK, Sends
    <2>2. /\ x.at = "post" /\ x.kind = task[t].kind /\ x.mount = task[t].mount /\ x.session = cookie
          /\ x.endpoint = sub'
      BY <1>1 DEF Tasks
    <2>3. ASSUME Application PROVE Shown' /\ x.mount = mount /\ Held(t)'
      <3>1. Held(t) /\ task[t].mount = mount /\ state # "on"
        BY <1>1, <2>3, Solo DEF Held
      <3>2. Held(t)'
        BY <1>1, <1>2, <1>5, <2>1, <2>2, <3>1 DEF Held, Posting, Serving
      <3>3. ASSUME sub' = sub PROVE Shown'
        BY <1>1, <1>2, <1>5, <2>3, <3>3, ShownAfter
      <3>4. CASE sub' = minted + 1 /\ minted < MaxEndpoints
        <4>1. \A r \in ToSet(rows) : r.endpoint # sub'
          BY <3>4, RowEndpoints, Basics, Bounds DEF Elsewhere
        <4>2. Mine'
          BY <1>2, <4>1 DEF Mine, Rowed
        <4> QED
          BY <1>5, <3>1, <3>2, <4>2, <2>2 DEF Shown
      <3> QED
        BY <1>5, <2>2, <3>1, <3>2, <3>3, <3>4
    <2> HIDE DEF x
    <2> QED
      BY <1>1, <1>2, <1>3, <2>1, <2>2, <2>3, TaskStep
  <1> QED
    BY <1>4, <1>5 DEF Subscribe

\* A row that comes or goes and is not one of the browser's subscription.
LEMMA RowsKept ==
  ASSUME UNCHANGED <<sub, page>>,
         \A r \in ToSet(rows') \ ToSet(rows) : r.endpoint # sub,
         \A r \in ToSet(rows) \ ToSet(rows') : r.endpoint # sub
  PROVE  (Mine' <=> Mine) /\ (Registered' <=> Registered)
  <1>1. \A u : Rowed(sub, u, rows) <=> Rowed(sub, u, rows')
    <2> SUFFICES ASSUME NEW u PROVE Rowed(sub, u, rows) <=> Rowed(sub, u, rows')
      OBVIOUS
    <2> DEFINE r == [endpoint |-> sub, user |-> u]
    <2>1. r.endpoint = sub
      OBVIOUS
    <2> QED
      BY <2>1 DEF Rowed
  <1> QED
    BY <1>1 DEF Mine, Registered

\* The server goes on with a request, and its task is x from then on.
LEMMA ServeShare ==
  ASSUME TypeOK, ShareInv, NEW t \in Task, task[t].at \in Serving,
         NEW at \in {"evict", "create", "ok", "conflict"}, NEW x,
         \/ x = [task[t] EXCEPT !.at = at]
         \/ task[t].kind = "orphan" /\ x = Idle,
         task' = [task EXCEPT ![t] = x],
         UNCHANGED <<page, mount, cookie, owner, sub, state, resolved>>, excused => excused',
         Application /\ ~ excused' =>
           (Mine => Mine') /\ (at = "ok" => Registered')
  PROVE  ShareInv'
  <1>1. /\ task[t] \in Tasks /\ task[t].kind \in {"init", "enable", "again", "orphan"} /\ ~ At(t, "delete")
        /\ ~ Removing(t) /\ task[t].kind # "idle"
    BY TaskAt DEF Serving, At, Removing
  <1>2. /\ x.kind \in {"idle", task[t].kind}
        /\ task[t].kind # "orphan" =>
             /\ x.at = at /\ x.kind = task[t].kind /\ x.endpoint = task[t].endpoint
             /\ x.session = task[t].session /\ x.mount = task[t].mount
    <2>1. CASE x = [task[t] EXCEPT !.at = at]
      BY <1>1, <2>1 DEF Tasks
    <2>2. CASE task[t].kind = "orphan" /\ x = Idle
      BY <2>2 DEF Idle
    <2> QED
      BY <2>1, <2>2
  <1>3. task'[t] = x
    BY Basics DEF TasksOK
  <1>4. ASSUME Application, ~ excused' PROVE Shown' /\ x.mount = mount /\ Held(t)'
    <2>1. Held(t) /\ Shown /\ task[t].mount = mount /\ task[t].kind # "orphan" /\ state # "on"
      BY <1>1, <1>4, Solo DEF Held
    <2>2. Held(t)'
      BY <1>1, <1>2, <1>3, <1>4, <2>1 DEF Held, Posting, Serving
    <2>3. Shown'
      BY <1>4, <2>1 DEF Shown
    <2> QED
      BY <1>2, <2>1, <2>2, <2>3
  <1> QED
    BY <1>1, <1>2, <1>4, TaskStep

\* The task that an answer leaves.
LEMMA AnswersTo ==
  ASSUME TypeOK, NEW t \in Task, NEW answer, Answers(t, answer)
  PROVE  \E x : /\ task' = [task EXCEPT ![t] = x]
                /\ x = [task[t] EXCEPT !.at = answer] \/ (task[t].kind = "orphan" /\ x = Idle)
  <1> DEFINE x == IF task[t].kind = "orphan" THEN Idle ELSE [task[t] EXCEPT !.at = answer]
  <1>1. task' = [task EXCEPT ![t] = x]
    BY Basics DEF Answers, TasksOK
  <1>2. x = [task[t] EXCEPT !.at = answer] \/ (task[t].kind = "orphan" /\ x = Idle)
    OBVIOUS
  <1> HIDE DEF x
  <1> QED
    BY <1>1, <1>2

LEMMA RefreshShare ==
  ASSUME TypeOK, ShareInv, NEW t \in Task, Refresh(t)
  PROVE  ShareInv'
  <1>1. task[t].at \in Serving
    BY DEF Refresh, At, Serving
  <1>2. /\ UNCHANGED <<page, mount, cookie, owner, sub, state, resolved>>
        /\ UNCHANGED <<rows, excused>>
    BY DEF Refresh, sessions, pageVars
  <1>3. (Mine => Mine') /\ (Registered => Registered')
    BY <1>2 DEF Mine, Registered
  <1>4. CASE Caller(t) \in Taken(task[t].endpoint)
    <2>1. PICK x : /\ task' = [task EXCEPT ![t] = x]
                   /\ x = [task[t] EXCEPT !.at = "ok"] \/ (task[t].kind = "orphan" /\ x = Idle)
      BY <1>4, AnswersTo DEF Refresh
    <2>2. ASSUME Application PROVE Registered
      <3>1. /\ task[t].endpoint = sub /\ sub # None /\ task[t].session = cookie
        BY <1>1, <2>2, TaskAt, Solo, OwnEndpoint DEF Posting, Held, At, Serving
      <3>2. Caller(t) = page
        BY <2>2, <3>1, OwnCaller DEF Application
      <3> QED
        BY <1>4, <3>1, <3>2, TakenRows DEF Registered, Rowed
    <2> QED
      BY <1>1, <1>2, <1>3, <2>1, <2>2, ServeShare
  <1>5. CASE Caller(t) \notin Taken(task[t].endpoint)
    <2> DEFINE x == [task[t] EXCEPT !.at = "evict"]
    <2>1. task' = [task EXCEPT ![t] = x]
      BY <1>5, Basics DEF Refresh, TasksOK
    <2>2. x = [task[t] EXCEPT !.at = "evict"]
      OBVIOUS
    <2> HIDE DEF x
    <2> QED
      BY <1>1, <1>2, <1>3, <2>1, <2>2, ServeShare
  <1> QED
    BY <1>4, <1>5
LEMMA EvictShare ==
  ASSUME TypeOK, ShareInv, NEW t \in Task, Evict(t)
  PROVE  ShareInv'
  <1> DEFINE x == [task[t] EXCEPT !.at = "create"]
  <1>1. task[t].at \in Serving
    BY DEF Evict, At, Serving
  <1>2. /\ UNCHANGED <<page, mount, cookie, owner, sub, state, resolved>>
        /\ excused => excused'
    BY DEF Evict, sessions, pageVars
  <1>3. ASSUME ~ excused' PROVE Mine => Mine'
    <2>1. ToSet(rows') \subseteq ToSet(rows)
      BY EvictedRow, RowEndpoints DEF Evict
    <2>2. \A r \in ToSet(rows) \ ToSet(rows') : r.endpoint # sub
      BY <1>3 DEF Evict
    <2> QED
      BY <1>2, <2>1, <2>2, RowsKept
  <1>4. task' = [task EXCEPT ![t] = x]
    BY Basics DEF Evict, TasksOK
  <1>5. x = [task[t] EXCEPT !.at = "create"]
    OBVIOUS
  <1> HIDE DEF x
  <1> QED
    BY <1>1, <1>2, <1>3, <1>4, <1>5, ServeShare

LEMMA CreateShare ==
  ASSUME TypeOK, ShareInv, NEW t \in Task, Create(t)
  PROVE  ShareInv'
  <1> DEFINE e == task[t].endpoint
             r == [endpoint |-> e, user |-> Caller(t)]
  <1>1. task[t].at \in Serving
    BY DEF Create, At, Serving
  <1>2. /\ UNCHANGED <<page, mount, cookie, owner, sub, state, resolved>>
        /\ excused' = excused
    BY DEF Create, sessions, pageVars
  <1>3. ASSUME Application PROVE e = sub /\ sub # None /\ Caller(t) = page
    <2>1. e = sub /\ sub # None /\ task[t].session = cookie
      BY <1>1, <1>3, TaskAt, Solo, OwnEndpoint DEF Posting, Held, At, Serving
    <2> QED
      BY <1>3, <2>1, OwnCaller DEF Application
  <1>4. CASE Creatable(e)
    <2>1. Answers(t, "ok")
      BY <1>4 DEF Create
    <2>2. PICK x : /\ task' = [task EXCEPT ![t] = x]
                   /\ x = [task[t] EXCEPT !.at = "ok"] \/ (task[t].kind = "orphan" /\ x = Idle)
      BY <2>1, AnswersTo
    <2>3. ToSet(rows') = ToSet(rows) \cup {r}
      <3>1. r \in Row
        BY CreatedRow, Basics, Bounds DEF Row, Elsewhere
      <3>2. rows \in Seq(Row) /\ rows' = Append(rows, r)
        BY <1>4, RowEndpoints DEF Create, RowType
      <3> HIDE DEF r
      <3>3. ToSet(Append(rows, r)) = ToSet(rows) \cup {r}
        BY <3>1, <3>2 DEF ToSet
      <3> QED
        BY <3>2, <3>3
    <2>4. ASSUME Application PROVE Registered' /\ Mine'
      <3>1. r = [endpoint |-> sub, user |-> page]
        BY <1>3, <2>4
      <3>2. Registered'
        BY <1>2, <1>3, <2>3, <2>4, <3>1 DEF Registered, Rowed
      <3>3. ASSUME NEW u \in User, Rowed(sub, u, rows') PROVE u = page
        <4>1. ~ Rowed(sub, u, rows)
          BY <1>3, <1>4, <2>4, <3>3, TakenRows DEF Creatable, Rowed
        <4>2. [endpoint |-> sub, user |-> u] = [endpoint |-> sub, user |-> page]
          BY <2>3, <3>1, <3>3, <4>1 DEF Rowed
        <4> QED
          BY <4>2
      <3> QED
        BY <1>2, <3>2, <3>3 DEF Mine
    <2> HIDE DEF r, e
    <2> QED
      BY <1>1, <1>2, <2>2, <2>4, ServeShare
  <1>5. ASSUME ~ Creatable(e) PROVE ShareInv'
    <2> DEFINE answer == IF Caller(t) \in Taken(e) THEN "ok" ELSE "conflict"
    <2>1. Answers(t, answer) /\ rows' = rows
      BY <1>5 DEF Create
    <2>2. PICK x : /\ task' = [task EXCEPT ![t] = x]
                   /\ x = [task[t] EXCEPT !.at = answer] \/ (task[t].kind = "orphan" /\ x = Idle)
      BY <2>1, AnswersTo
    <2>3. Mine => Mine'
      BY <1>2, <2>1 DEF Mine
    <2>4. ASSUME Application, answer = "ok" PROVE Registered'
      <3>1. Caller(t) \in Taken(e)
        BY <2>4
      <3>2. Rowed(sub, page, rows)
        BY <1>3, <2>4, <3>1, TakenRows DEF Rowed
      <3> QED
        BY <1>2, <1>3, <2>1, <2>4, <3>2 DEF Registered
    <2>5. answer \in {"ok", "conflict"}
      OBVIOUS
    <2> HIDE DEF r, e, answer
    <2> QED
      BY <1>1, <1>2, <2>2, <2>3, <2>4, <2>5, ServeShare
  <1> QED
    BY <1>4, <1>5

LEMMA UnsubscribeShare ==
  ASSUME TypeOK, TypeOK', ShareInv, NEW t \in Task, Unsubscribe(t)
  PROVE  ShareInv'
  <1>1. /\ task[t] \in Tasks /\ task[t].kind \in {"disable", "signout", "local"} /\ task[t].kind # "idle"
        /\ task[t].at = "unsubscribe"
    BY TaskAt DEF Unsubscribe, At
  <1>2. UNCHANGED <<page, mount, cookie, owner, rows, state, resolved>>
    BY DEF Unsubscribe, sessions
  <1>3. ASSUME excused' = TRUE, task' = Sends(t, "logout") \/ Ends(t) PROVE ShareInv'
    BY <1>1, <1>2, <1>3, FailShare DEF Ends
  <1>4. ASSUME Unsubscribes(t), IF task[t].kind = "local" THEN Ends(t) ELSE task' = Sends(t, "delete"),
               excused' = excused
        PROVE  ShareInv'
    <2>1. sub' \in {sub, None} /\ (Removing(t) => sub' = None)
      BY <1>1, <1>4 DEF Unsubscribes, Removing, At
    <2>2. Application => task[t].kind # "local" /\ sub' = None
      BY <1>1, <1>4, Solo, OwnEndpoint DEF Unsubscribes
    <2>3. CASE task[t].kind = "local"
      BY <1>1, <1>2, <1>4, <2>1, <2>2, <2>3, EndShare DEF Ends
    <2>4. CASE task[t].kind # "local"
      <3> DEFINE x == [task[t] EXCEPT !.at = "delete", !.session = cookie]
      <3>1. task' = [task EXCEPT ![t] = x] /\ task'[t] = x
        BY <1>4, <2>4, Basics DEF TasksOK, Sends
      <3>2. x.kind = task[t].kind /\ x.at = "delete" /\ x.mount = task[t].mount
        BY <1>1 DEF Tasks
      <3>3. ASSUME Application PROVE Shown' /\ x.mount = mount /\ Held(t)'
        <4>1. Held(t) /\ task[t].mount = mount /\ Shown /\ sub' = None
          BY <1>1, <2>2, <3>3, Solo
        <4>2. Held(t)'
          BY <1>1, <1>2, <2>4, <3>1, <3>2, <4>1 DEF Held, Posting, Serving
        <4>3. Mine'
          <5>1. rows' \in Seq(Row)
            BY <1>2, RowEndpoints DEF RowType
          <5> QED
            BY <4>1, <5>1, NoneRowed DEF Mine
        <4>4. At(t, "delete")'
          BY <3>1, <3>2 DEF At
        <4>5. Shown'
          BY <1>2, <4>1, <4>3, <4>4 DEF Shown
        <4> QED
          BY <3>2, <4>1, <4>2, <4>5
      <3> HIDE DEF x
      <3> QED
        BY <1>1, <1>2, <1>4, <2>1, <3>1, <3>2, <3>3, TaskStep
    <2> QED
      BY <2>3, <2>4
  <1> QED
    BY <1>3, <1>4 DEF Unsubscribe
LEMMA AnsweredShare ==
  ASSUME TypeOK, ShareInv, NEW t \in Task, Answered(t)
  PROVE  ShareInv'
  <1> DEFINE over == task[t].kind # "enable" \/ ~ At(t, "conflict")
             x == [task[t] EXCEPT !.kind = "again", !.at = "subscribe"]
  <1>1. /\ task[t].at \in Posting /\ task[t].at \in {"ok", "conflict", "error"}
        /\ task[t] \in Tasks /\ task[t].kind \in {"init", "enable", "again"} /\ task[t].kind # "idle"
        /\ ~ Removing(t) /\ ~ At(t, "delete")
    BY TaskAt DEF Answered, At, Posting, Serving, Removing
  <1>2. /\ UNCHANGED <<page, mount, cookie, owner, rows>>
        /\ excused => excused'
    BY DEF Answered, sessions
  <1>3. /\ sub' \in {sub, None}
        /\ sub' # sub => Drops(t)
    BY DEF Answered, Unsubscribes
  <1>4. ASSUME Application, ~ excused'
        PROVE  /\ Held(t) /\ Mounted(t) /\ task[t].mount = mount /\ state # "on"
               /\ IF Drops(t) THEN sub' = None ELSE sub' = sub
    <2>1. Held(t) /\ Mounted(t) /\ task[t].mount = mount /\ state # "on"
      BY <1>1, <1>4, Solo DEF Held
    <2>2. IF Drops(t) THEN sub' = None ELSE sub' = sub
      BY <1>1, <1>4, OwnEndpoint DEF Answered, Unsubscribes
    <2> QED
      BY <2>1, <2>2
  <1>5. ASSUME Application, ~ excused' PROVE Shown'
    <2>0. rows \in Seq(Row)
      BY RowEndpoints DEF RowType
    <2>1. CASE At(t, "ok")
      <3>1. sub' = sub /\ Registered
        BY <1>4, <1>5, <2>1 DEF Drops, Held, At
      <3>2. state' = "on" /\ resolved' = TRUE
        BY <1>4, <1>5, <2>1 DEF Answered, Knows, Sets
      <3>3. Mine
        BY <3>1, OneRow
      <3>4. Mine' /\ Registered'
        BY <1>2, <3>1, <3>3 DEF Mine, Registered
      <3> QED
        BY <3>2, <3>4 DEF Shown
    <2>2. CASE At(t, "error") /\ task[t].kind = "init"
      <3>1. state' = "loading" /\ resolved' = FALSE
        BY <1>4, <1>5, <2>2 DEF Answered, Knows, Sets, At
      <3> QED
        BY <3>1 DEF Shown
    <2>3. CASE At(t, "conflict") /\ task[t].kind = "init"
      <3>1. state' = "off" /\ sub' = None
        BY <1>4, <1>5, <2>3 DEF Answered, Knows, Sets, At, Drops
      <3> QED
        BY <1>1, <1>2, <1>5, <2>0, <3>1, ShownAfter
    <2>4. CASE ~ over
      <3>1. UNCHANGED <<state, resolved>> /\ sub' = None
        BY <1>4, <1>5, <2>4 DEF Answered, Knows, At, Drops
      <3> QED
        BY <1>1, <1>2, <1>4, <1>5, <2>0, <3>1, ShownAfter
    <2>5. CASE over /\ task[t].kind # "init" /\ ~ At(t, "ok")
      <3>1. state' = "off" /\ resolved' = resolved
        BY <1>4, <1>5, <2>5 DEF Answered, Knows, Sets
      <3>2. (rows' = rows /\ sub' = sub) \/ (rows' \in Seq(Row) /\ sub' = None)
        BY <1>2, <1>3, <2>0
      <3> QED
        BY <1>1, <1>2, <1>5, <3>1, <3>2, ShownAfter
    <2> QED
      BY <1>1, <2>1, <2>2, <2>3, <2>4, <2>5 DEF At
  <1>6. CASE over
    <2>1. task' = [task EXCEPT ![t] = Idle]
      BY <1>6 DEF Answered, Ends
    <2> QED
      BY <1>1, <1>2, <1>3, <1>5, <2>1, EndShare
  <1>7. CASE ~ over
    <2>1. task' = [task EXCEPT ![t] = x] /\ task'[t] = x
      BY <1>7, Basics DEF Answered, TasksOK
    <2>2. x.kind = "again" /\ x.at = "subscribe" /\ x.mount = task[t].mount
      BY <1>1 DEF Tasks
    <2>3. ASSUME Application, ~ excused' PROVE Held(t)' /\ x.mount = mount
      <3>1. state' = state
        BY <1>1, <1>7 DEF Answered, Knows, At
      <3> QED
        BY <1>4, <2>1, <2>2, <2>3, <3>1 DEF Held, Posting, Serving
    <2>4. task[t].kind = "enable"
      BY <1>7
    <2> HIDE DEF x
    <2> QED
      BY <1>1, <1>2, <1>3, <1>5, <2>1, <2>2, <2>3, <2>4, TaskStep
  <1> QED
    BY <1>6, <1>7

LEMMA DeleteShare ==
  ASSUME TypeOK, TypeOK', ShareInv, NEW t \in Task, Delete(t)
  PROVE  ShareInv'
  <1> DEFINE x == IF task[t].kind = "signout" THEN [task[t] EXCEPT !.at = "logout", !.session = cookie]
                                              ELSE Idle
             rest == [task EXCEPT ![t] = x]
  <1>1. /\ task[t] \in Tasks /\ task[t].kind \in {"disable", "signout"} /\ task[t].kind # "idle"
        /\ task[t].at = "delete" /\ page # "closed" /\ ~ Removing(t)
    BY TaskAt, Awake DEF Delete, At, Serving, Removing
  <1>2. (IF task[t].kind = "signout" THEN Sends(t, "logout") ELSE [task EXCEPT ![t] = Idle]) = rest
    BY Basics DEF Sends, TasksOK
  <1>3. /\ UNCHANGED <<mount, cookie, owner, sub>>
        /\ Sets(t, "off", resolved)
    BY DEF Delete, sessions
  <1>4. /\ x.kind \in {"idle", task[t].kind}
        /\ x.kind = "idle" \/ (x.kind = "signout" /\ x.at = "logout" /\ x.mount = task[t].mount)
    <2>1. CASE task[t].kind = "signout"
      BY <1>1, <2>1 DEF Tasks
    <2>2. CASE task[t].kind # "signout"
      BY <2>2 DEF Idle
    <2> QED
      BY <2>1, <2>2
  <1>5. rest[t] = x /\ \A s \in Task : s # t => rest[s] = task[s]
    BY Basics DEF TasksOK
  <1>6. rest = [s \in Task |-> rest[s]]
    BY Basics DEF TasksOK
  <1>7. ASSUME Unauthorized(rest) PROVE ShareInv'
    <2>1. \A s \in Task : \/ rest[s] = task[s]
                          \/ rest[s].kind \in {"idle", task[s].kind} /\ task[s].kind # "local"
      BY <1>1, <1>4, <1>5
    <2> HIDE DEF rest
    <2> QED
      BY <1>1, <1>3, <1>6, <1>7, <2>1, UnauthorizedStep
  <1>8. ASSUME task' = rest, UNCHANGED <<page, excused>> PROVE ShareInv'
    <2>1. task' = [task EXCEPT ![t] = x] /\ task'[t] = x
      BY <1>5, <1>8
    <2>2. ASSUME Application PROVE Shown' /\ (x.kind = "idle" \/ (x.mount = mount /\ Held(t)'))
      <3>1. Held(t) /\ task[t].mount = mount /\ Mounted(t)
        BY <1>1, <2>2, Solo
      <3>2. state' = "off" /\ resolved' = resolved /\ sub' = None
        BY <1>1, <1>3, <3>1 DEF Sets, Held
      <3>3. rows' \in Seq(Row)
        BY DEF TypeOK, RowType
      <3>4. Shown'
        BY <1>1, <1>8, <2>2, <3>2, <3>3, ShownAfter
      <3>5. x.kind = "signout" => Held(t)'
        BY <1>4, <2>1, <3>2 DEF Held, Posting, Serving
      <3> QED
        BY <1>4, <3>1, <3>4, <3>5
    <2> HIDE DEF x, rest
    <2> QED
      BY <1>1, <1>3, <1>4, <1>8, <2>1, <2>2, TaskStep
  <1> HIDE DEF x, rest
  <1> QED
    BY <1>2, <1>7, <1>8 DEF Delete

LEMMA LogoutShare ==
  ASSUME TypeOK, ShareInv, NEW t \in Task, Logout(t)
  PROVE  ShareInv'
  <1> DEFINE rest == [task EXCEPT ![t] = Idle]
  <1>1. /\ task[t].kind = "signout" /\ task[t].kind # "idle" /\ task[t].at = "logout" /\ page # "closed"
        /\ ~ Removing(t) /\ ~ At(t, "delete")
    BY TaskAt, Awake DEF Logout, At, Serving, Removing
  <1>2. UNCHANGED <<rows, owner, mount, state, resolved, sub>>
    BY DEF Logout
  <1>3. /\ rest = [s \in Task |-> rest[s]] /\ rest[t].kind = "idle"
        /\ \A s \in Task : s # t => rest[s] = task[s]
    BY Basics DEF TasksOK, Idle
  <1>4. ASSUME Unauthorized(rest) PROVE ShareInv'
    <2>1. \A s \in Task : \/ rest[s] = task[s]
                          \/ rest[s].kind \in {"idle", task[s].kind} /\ task[s].kind # "local"
      BY <1>1, <1>3
    <2> HIDE DEF rest
    <2> QED
      BY <1>1, <1>2, <1>3, <1>4, <2>1, UnauthorizedStep
  <1>5. ASSUME task' = rest, UNCHANGED <<cookie, page, excused>> PROVE ShareInv'
    <2>1. Application => Shown'
      BY <1>1, <1>2, <1>5, ShownAfter
    <2> QED
      BY <1>1, <1>2, <1>5, <2>1, EndShare
  <1>6. ASSUME page' = (IF page \in User THEN "login" ELSE page), task' = rest,
               excused' = (excused \/ Running # {t})
        PROVE  ShareInv'
    <2>1. page' = "login"
      BY <1>1, <1>6, PageKinds
    <2>2. MineInv' /\ ClosedInv' /\ AloneInv' /\ HeldInv'
      BY <2>1, NotificationsAssumption DEF MineInv, ClosedInv, AloneInv, HeldInv, Application
    <2>3. ASSUME ~ excused' PROVE Enabling' = {} /\ sub' = None
      <3>1. ~ excused /\ Running = {t}
        BY <1>6, <2>3
      <3>2. \A s \in Task : s # t => task[s].kind = "idle"
        BY <3>1 DEF Running, Free
      <3>3. Enabling' = {}
        BY <1>3, <1>6, <3>2 DEF Enabling
      <3>4. CASE page \in User
        <4>1. Held(t)
          BY <1>1, <3>1, <3>4, Solo DEF Application
        <4> QED
          BY <1>1, <1>2, <3>3, <4>1 DEF Held
      <3>5. CASE page = "login"
        <4>1. \A s \in Task : ~ Removing(s)
          BY <1>1, <3>2 DEF Removing
        <4> QED
          BY <1>2, <3>1, <3>3, <3>5, <4>1 DEF ShareInv, LoginInv
      <3> QED
        BY <1>1, <3>4, <3>5, PageKinds
    <2> QED
      BY <2>2, <2>3 DEF ShareInv, LoginInv
  <1> HIDE DEF rest
  <1>7. \/ task' = rest /\ UNCHANGED <<cookie, page, excused>>
        \/ Unauthorized(rest)
        \/ /\ page' = (IF page \in User THEN "login" ELSE page) /\ task' = rest
           /\ excused' = (excused \/ Running # {t})
    BY DEF Logout, rest
  <1> QED
    BY <1>4, <1>5, <1>6, <1>7
\* AppShell is mounted: what was under way before excuses what it may do.
LEMMA EnterShare ==
  ASSUME TypeOK, ShareInv, NEW u \in User, Enter(u),
         CreateSession(u) \/ (UNCHANGED sessions /\ cookie \in live /\ owner[cookie] = u)
  PROVE  ShareInv'
  <1>1. page' = u /\ state' = "loading" /\ resolved' = FALSE /\ excused' = (Running # {})
    BY DEF Enter
  <1>2. MineInv'
    <2>1. CASE CreateSession(u)
      <3>1. owner \in Seq(User) /\ Len(owner) \in Nat
        BY Basics
      <3>2. owner' = Append(owner, u) /\ cookie' = Len(owner')
        BY <2>1 DEF CreateSession
      <3>3. cookie' \in DOMAIN owner' /\ owner'[cookie'] = u
        BY <3>1, <3>2
      <3> QED
        BY <1>1, <3>3 DEF MineInv
    <2>2. CASE UNCHANGED sessions /\ cookie \in live /\ owner[cookie] = u
      BY <1>1, <2>2, Basics DEF MineInv, sessions
    <2> QED
      BY <2>1, <2>2
  <1>3. ClosedInv' /\ LoginInv'
    BY <1>1, NotificationsAssumption DEF ClosedInv, LoginInv
  <1>4. ASSUME ~ excused'
        PROVE  /\ \A s \in Running' :
                    task'[s].mount = mount' /\ task'[s].kind = "init" /\ task'[s].at = "config"
               /\ \A r, s \in Running' : s = r
    <2>1. PICK t \in Task : Free(t) /\ task' = [task EXCEPT ![t] = Begun("init", "config", mount', cookie')]
      BY DEF Enter
    <2>2. \A s \in Task : s # t => task'[s] = task[s] /\ task[s].kind = "idle"
      BY <1>1, <1>4, <2>1, Basics DEF TasksOK, Running, Free
    <2>3. task'[t].mount = mount' /\ task'[t].kind = "init" /\ task'[t].at = "config"
      BY <2>1, Basics DEF TasksOK, Begun
    <2> QED
      BY <2>2, <2>3 DEF Running, Free
  <1>5. AloneInv'
    BY <1>4 DEF AloneInv, Application
  <1>6. HeldInv'
    <2>1. Shown'
      BY <1>1 DEF Shown
    <2>2. ASSUME ~ excused', NEW s \in Running' PROVE Held(s)'
      BY <1>1, <1>4, <2>2 DEF Held, Posting, Serving
    <2> QED
      BY <2>1, <2>2 DEF HeldInv, Application
  <1> QED
    BY <1>2, <1>3, <1>5, <1>6 DEF ShareInv

LEMMA LeaveShare ==
  ASSUME TypeOK, ShareInv, Leave
  PROVE  ShareInv'
  <1>1. page' = "closed"
    BY DEF Leave
  <1>2. \A t \in Task : task'[t].kind \in {"idle", "orphan"}
    <2> SUFFICES ASSUME NEW t \in Task PROVE task'[t].kind \in {"idle", "orphan"}
      OBVIOUS
    <2>1. CASE task[t].at \in Serving
      <3>1. task'[t] = [task[t] EXCEPT !.kind = "orphan"] /\ task[t] \in Tasks
        BY <2>1, TaskAt DEF Leave
      <3> QED
        BY <3>1 DEF Tasks
    <2>2. CASE task[t].at \notin Serving
      BY <2>2 DEF Leave, Idle
    <2> QED
      BY <2>1, <2>2
  <1> QED
    BY <1>1, <1>2, NotificationsAssumption
    DEF ShareInv, MineInv, ClosedInv, AloneInv, HeldInv, LoginInv, Application

LEMMA LoadShare ==
  ASSUME TypeOK, ShareInv, Load
  PROVE  ShareInv'
  <1>1. CASE cookie \in live
    <2>1. owner[cookie] \in User
      BY <1>1, Basics
    <2> QED
      BY <1>1, <2>1, EnterShare DEF Load
  <1>2. CASE cookie \notin live
    <2>1. page = "closed" /\ page' = "login" /\ task' = task /\ sub' = sub /\ (sub # None => excused')
      BY <1>2 DEF Load
    <2>2. Enabling' = {}
      BY <2>1 DEF ShareInv, ClosedInv, Enabling
    <2> QED
      BY <2>1, <2>2, NotificationsAssumption
      DEF ShareInv, MineInv, ClosedInv, AloneInv, HeldInv, LoginInv, Application
  <1> QED
    BY <1>1, <1>2

LEMMA PollShare ==
  ASSUME TypeOK, ShareInv, Poll
  PROVE  ShareInv'
  <1>1. task = [s \in Task |-> task[s]]
    BY Basics DEF TasksOK, Tasks
  <1>2. page # "closed" /\ sub' = sub /\ Unauthorized(task)
    BY PageKinds DEF Poll
  <1> QED
    BY <1>1, <1>2, UnauthorizedStep

\* A task begins: it is excused unless it is the only one.
LEMMA BeginShare ==
  ASSUME TypeOK, ShareInv, page \in User, NEW t \in Task, Free(t),
         NEW kind \in {"init", "enable", "disable", "signout"}, NEW at \in {"config", "read"}, NEW session,
         task' = [task EXCEPT ![t] = Begun(kind, at, mount, session)],
         excused' = (excused \/ Running # {}),
         UNCHANGED <<page, mount, cookie, owner, rows, sub, state, resolved>>,
         kind = "init" => ~ resolved,
         kind = "enable" => state = "off",
         kind = "disable" => state = "on"
  PROVE  ShareInv'
  <1>1. CASE excused'
    BY <1>1, NotificationsAssumption
    DEF ShareInv, MineInv, ClosedInv, AloneInv, HeldInv, LoginInv, Application
  <1>2. CASE ~ excused'
    <2>1. Application /\ Running = {}
      BY <1>2 DEF Application
    <2>2. \A s \in Task : task[s].kind = "idle" /\ ~ At(s, "delete")
      BY <2>1, TaskAt DEF Running, Free, At
    <2>3. Shown /\ (state = "on" => resolved /\ Registered)
      BY <2>1, <2>2 DEF ShareInv, HeldInv, Shown
    <2>4. /\ task'[t].kind = kind /\ task'[t].at = at /\ task'[t].mount = mount
          /\ \A s \in Task : s # t => task'[s] = task[s]
      BY Basics DEF TasksOK, Begun
    <2>5. Running' = {t}
      BY <2>2, <2>4 DEF Running, Free
    <2>6. AloneInv'
      BY <2>4, <2>5 DEF AloneInv
    <2>7. Held(t)'
      BY <2>3, <2>4 DEF Held, Posting, Serving
    <2>8. Shown'
      BY <2>3 DEF Shown, Mine, Registered
    <2>9. HeldInv'
      BY <2>5, <2>7, <2>8 DEF HeldInv
    <2> QED
      BY <2>6, <2>9, NotificationsAssumption DEF ShareInv, MineInv, ClosedInv, LoginInv
  <1> QED
    BY <1>1, <1>2

LEMMA StartShare ==
  ASSUME TypeOK, ShareInv, Retry \/ Toggle \/ Signout
  PROVE  ShareInv'
  <1>1. CASE Retry
    <2>1. PICK t \in Task : Free(t) /\ task' = [task EXCEPT ![t] = Begun("init", "config", mount, cookie)]
      BY <1>1 DEF Retry
    <2> QED
      BY <1>1, <2>1, BeginShare DEF Retry, sessions, pageVars
  <1>2. CASE Toggle
    <2> DEFINE kind == IF state = "on" THEN "disable" ELSE "enable"
    <2>1. PICK t \in Task : Free(t) /\ task' = [task EXCEPT ![t] = Begun(kind, "read", mount, None)]
      BY <1>2 DEF Toggle
    <2>2. /\ kind \in {"enable", "disable"} /\ (kind = "enable" => state = "off")
          /\ kind = "disable" => state = "on"
      BY <1>2 DEF Toggle
    <2>3. /\ page \in User /\ excused' = (excused \/ Running # {})
          /\ UNCHANGED <<page, mount, cookie, owner, rows, sub, state, resolved>>
      BY <1>2 DEF Toggle, sessions
    <2> HIDE DEF kind
    <2> QED
      BY <2>1, <2>2, <2>3, BeginShare
  <1>3. CASE Signout
    <2>1. PICK t \in Task : Free(t) /\ task' = [task EXCEPT ![t] = Begun("signout", "read", mount, None)]
      BY <1>3 DEF Signout
    <2>3. /\ page \in User /\ excused' = (excused \/ Running # {})
          /\ UNCHANGED <<page, mount, cookie, owner, rows, sub, state, resolved>>
      BY <1>3 DEF Signout, sessions
    <2> QED
      BY <2>1, <2>3, BeginShare
  <1> QED
    BY <1>1, <1>2, <1>3

\* A step of the server or of another browser, that only changes rows and sessions.
LEMMA ApartShare ==
  ASSUME TypeOK, ShareInv, UNCHANGED <<owner, cookie, pageVars, sub, task>>, excused => excused',
         ~ excused' => (Mine => Mine') /\ (Registered => Registered')
  PROVE  ShareInv'
  <1>1. /\ UNCHANGED <<page, mount, state, resolved>>
        /\ Running' = Running /\ Enabling' = Enabling
    BY DEF pageVars, Running, Free, Enabling
  <1>2. MineInv' /\ ClosedInv' /\ AloneInv'
    BY <1>1 DEF ShareInv, MineInv, ClosedInv, AloneInv, Application
  <1>3. HeldInv'
    <2>1. ASSUME Application' PROVE Shown' /\ \A t \in Running' : Held(t)'
      <3>1. Application /\ (Mine => Mine') /\ (Registered => Registered')
        BY <1>1, <2>1 DEF Application
      <3>2. Shown /\ \A t \in Running : Held(t)
        BY <3>1 DEF ShareInv, HeldInv
      <3>3. Shown'
        BY <1>1, <3>1, <3>2 DEF Shown, At
      <3>4. ASSUME NEW t \in Running PROVE Held(t)'
        BY <1>1, <3>1, <3>2, <3>4 DEF Held
      <3> QED
        BY <1>1, <3>3, <3>4
    <2> QED
      BY <2>1 DEF HeldInv
  <1>4. LoginInv'
    BY <1>1 DEF ShareInv, LoginInv, Removing, At
  <1> QED
    BY <1>2, <1>3, <1>4 DEF ShareInv

LEMMA OtherShare ==
  ASSUME TypeOK, ShareInv,
         \/ \E u \in User : SubscribeElsewhere(u)
         \/ \E r \in ToSet(rows) : Prune(r)
         \/ \E s \in live : Expire(s)
         \/ UNCHANGED vars
  PROVE  ShareInv'
  <1>1. ASSUME NEW u \in User, SubscribeElsewhere(u) PROVE ShareInv'
    <2> DEFINE row == [endpoint |-> Elsewhere, user |-> u]
    <2>1. PICK rest \in Evicted(u) : rows' = Append(rest, row)
      BY <1>1 DEF SubscribeElsewhere
    <2>2. rest \in Seq(Row) /\ ToSet(rest) \subseteq ToSet(rows)
      BY EvictedRow, RowEndpoints
    <2>3. row \in Row
      BY Bounds DEF Row, Elsewhere
    <2>4. ToSet(rows') = ToSet(rest) \cup {row}
      <3> HIDE DEF row
      <3> QED
        BY <2>1, <2>2, <2>3 DEF ToSet
    <2>5. row.endpoint # sub
      BY Basics, Bounds DEF Elsewhere
    <2>6. UNCHANGED <<owner, cookie, pageVars, sub, task>> /\ (excused => excused')
      BY <1>1 DEF SubscribeElsewhere, sessions
    <2>7. ASSUME ~ excused' PROVE (Mine => Mine') /\ (Registered => Registered')
      <3>1. \A r \in ToSet(rows) \ ToSet(rows') : r.endpoint # sub
        BY <1>1, <2>7 DEF SubscribeElsewhere
      <3>2. \A r \in ToSet(rows') \ ToSet(rows) : r.endpoint # sub
        BY <2>2, <2>4, <2>5
      <3> QED
        BY <2>6, <3>1, <3>2, RowsKept DEF pageVars
    <2> QED
      BY <2>6, <2>7, ApartShare
  <1>2. ASSUME NEW r \in ToSet(rows), Prune(r) PROVE ShareInv'
    <2>1. ToSet(rows') = ToSet(rows) \ {r}
      BY <1>2, WithoutRow, RowEndpoints DEF Prune
    <2>2. UNCHANGED <<owner, cookie, pageVars, sub, task, excused>>
      BY <1>2 DEF Prune, sessions
    <2>3. r.endpoint # sub
      BY <1>2 DEF Prune
    <2>4. (Mine => Mine') /\ (Registered => Registered')
      BY <2>1, <2>2, <2>3, RowsKept DEF pageVars
    <2> QED
      BY <2>2, <2>4, ApartShare
  <1>3. ASSUME UNCHANGED <<rows, owner, cookie, pageVars, sub, task, excused>> PROVE ShareInv'
    <2>1. (Mine => Mine') /\ (Registered => Registered')
      BY <1>3 DEF Mine, Registered, pageVars
    <2> QED
      BY <1>3, <2>1, ApartShare
  <1>4. (\E s \in live : Expire(s)) \/ UNCHANGED vars
          => UNCHANGED <<rows, owner, cookie, pageVars, sub, task, excused>>
    BY DEF Expire, vars, sessions
  <1> QED
    BY <1>1, <1>2, <1>3, <1>4

LEMMA ShareInit == Init => ShareInv
  <1> SUFFICES ASSUME Init PROVE ShareInv
    OBVIOUS
  <1>1. page = "login" /\ sub = None /\ \A t \in Task : task[t].kind = "idle"
    BY DEF Init, Idle
  <1> QED
    BY <1>1, NotificationsAssumption
    DEF ShareInv, MineInv, ClosedInv, AloneInv, HeldInv, LoginInv, Application, Enabling

LEMMA ShareStep == TypeOK /\ ShareInv /\ [Next]_vars => ShareInv'
  <1> SUFFICES ASSUME TypeOK, ShareInv, [Next]_vars PROVE ShareInv'
    OBVIOUS
  <1>0. TypeOK'
    BY TypeStep
  <1>1. CASE \E u \in User : Login(u) \/ GoogleCallback(u)
    BY <1>1, EnterShare DEF Login, GoogleCallback
  <1>2. CASE \/ \E u \in User : SubscribeElsewhere(u)
             \/ \E r \in ToSet(rows) : Prune(r)
             \/ \E s \in live : Expire(s)
             \/ UNCHANGED vars
    BY <1>2, OtherShare
  <1>3. CASE Leave \/ Load \/ Poll \/ Retry \/ Toggle \/ Signout
    BY <1>3, LeaveShare, LoadShare, PollShare, StartShare
  <1>4. ASSUME NEW t \in Task,
               \/ Config(t) \/ Read(t) \/ Subscribe(t) \/ Post(t) \/ Refresh(t) \/ Evict(t) \/ Create(t)
               \/ Lost(t) \/ Answered(t) \/ Unsubscribe(t) \/ Delete(t) \/ Logout(t)
        PROVE  ShareInv'
    BY <1>0, <1>4, ConfigShare, ReadShare, SubscribeShare, PostShare, RefreshShare, EvictShare, CreateShare,
       AnsweredShare, UnsubscribeShare, DeleteShare, LogoutShare
  <1> QED
    BY <1>1, <1>2, <1>3, <1>4 DEF Next

LEMMA ShareCorrect == Spec => [](TypeOK /\ ShareInv)
  <1>1. TypeOK /\ ShareInv /\ [Next]_vars => (TypeOK /\ ShareInv)'
    BY TypeStep, ShareStep
  <1> QED
    BY <1>1, TypeInit, ShareInit, PTL DEF Spec

\* Whoever had the browser before, the user whose application is mounted, settled and
\* not excused gets nobody else's notifications: init has bound the endpoint to that
\* user or given the subscription up, and no later step of the task alone, of the
\* server or of another browser gives the endpoint a row of another.
THEOREM SettledCorrect == Spec => []SettledIsMine
  <1>1. TypeOK /\ ShareInv => SettledIsMine
    <2> SUFFICES ASSUME TypeOK, ShareInv, page \in User, resolved, ~ excused PROVE Taken(sub) \subseteq {page}
      BY DEF SettledIsMine
    <2>1. Mine
      BY DEF ShareInv, HeldInv, Shown, Application
    <2> QED
      BY <2>1, TakenRows DEF Mine, Rowed
  <1> QED
    BY <1>1, ShareCorrect, PTL

\* At the sign-in page the browser has no subscription, unless that is excused: a
\* sign-out removes it before the session ends, and the hook that hears a 401 leaves a
\* task behind that removes it.
THEOREM SilentCorrect == Spec => []SignedOutSilent
  <1>1. TypeOK /\ ShareInv => SignedOutSilent
    <2> SUFFICES ASSUME TypeOK, ShareInv, page = "login", Calm, ~ excused PROVE sub = None
      BY DEF SignedOutSilent
    <2>1. \A t \in Task : ~ Removing(t)
      BY DEF Calm, Running, Free, Removing
    <2> QED
      BY <2>1 DEF ShareInv, LoginInv
  <1> QED
    BY <1>1, ShareCorrect, PTL

\* "on" is shown only of a subscription that is registered for the user, and for
\* nobody else.
THEOREM OnCorrect == Spec => []OnDelivers
  <1>1. TypeOK /\ ShareInv => OnDelivers
    <2> SUFFICES ASSUME TypeOK, ShareInv, page \in User, state = "on", Calm, ~ excused
                 PROVE  sub # None /\ Taken(sub) = {page}
      BY DEF OnDelivers
    <2>1. \A t \in Task : ~ At(t, "delete")
      BY TaskAt DEF Calm, Running, Free, At
    <2>2. Registered /\ Mine
      BY <2>1 DEF ShareInv, HeldInv, Shown, Application
    <2> QED
      BY <2>2, TakenRows DEF Mine, Registered, Rowed
  <1> QED
    BY <1>1, ShareCorrect, PTL
=============================================================================
