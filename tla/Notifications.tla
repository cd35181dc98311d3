--------------------------- MODULE Notifications ---------------------------
(***************************************************************************)
(* Push notifications on a browser that several users share: the browser's *)
(* push subscription, the rows that tell the server whose notifications go *)
(* to which endpoint, the session cookie, and the tasks of the page        *)
(* (useWebPush, the sign-out of AppShell) that keep the three in step.     *)
(*                                                                         *)
(* The page is one tab.  Its tasks go from await to await and overlap; one *)
(* that belongs to an earlier sign-in goes on in the next.  A request      *)
(* carries the cookie of the moment it is sent, and the session must still *)
(* be live when it arrives.                                                *)
(***************************************************************************)
EXTENDS Naturals, Sequences, FiniteSets, SequencesExt

CONSTANTS
  User,
  Task,              \* bound: tasks that run at a time
  MaxSubscriptions,  \* MAX_SUBSCRIPTIONS_PER_USER
  MaxEndpoints,      \* bound: subscriptions the browser makes
  MaxMounts,         \* bound: times a user enters the application
  MaxFaults          \* bound: requests and browser calls that fail

ASSUME NotificationsAssumption ==
  /\ {"closed", "login"} \cap User = {}
  /\ MaxSubscriptions \in Nat \ {0}
  /\ {MaxEndpoints, MaxMounts, MaxFaults} \subseteq Nat

VARIABLES
  rows,    \* PushSubscription, oldest first
  owner,   \* Session.userId, in the order of creation
  live,    \* sessions neither revoked nor expired
  cookie,  \* the session the browser's cookie names
  page,    \* "closed", "login", or the user whose application is mounted
  mount,   \* number of mounts of AppShell
  state,   \* WebPushState of the mounted hook
  resolved,
  known,   \* publicKeyRef is set
  busy,
  sub,     \* endpoint of the browser's subscription
  minted,  \* endpoints used so far
  task,    \* [Task -> what it is and where it awaits]
  excused, \* history: since AppShell was mounted, a task began while another was
           \* under way, or outlived the session, a call of the browser failed, the session ended
           \* unnoticed, or the row was evicted
  faults

sessions == <<owner, live, cookie>>
pageVars == <<page, mount, state, resolved, known, busy>>
vars == <<rows, sessions, pageVars, sub, minted, task, excused, faults>>

None == 0                    \* no subscription, no session
Elsewhere == MaxEndpoints + 1  \* stands for the endpoint of another browser
Row == [endpoint : 1..Elsewhere, user : User]

\* A task, what it awaits, the mount it belongs to, its subscription, whether it
\* made that, and the session its request carries.
Tasks ==
  [kind : {"idle", "init", "enable", "again", "disable", "signout", "local", "orphan"},
   at : {"none", "config", "read", "subscribe", "post", "refresh", "evict", "create", "ok", "conflict",
         "error", "unsubscribe", "delete", "logout"},
   mount : 0..MaxMounts, endpoint : 0..MaxEndpoints, made : BOOLEAN, session : 0..MaxMounts]

Idle == [kind |-> "idle", at |-> "none", mount |-> 0, endpoint |-> None, made |-> FALSE,
         session |-> None]
Begun(kind, at, m, session) ==
  [kind |-> kind, at |-> at, mount |-> m, endpoint |-> None, made |-> FALSE, session |-> session]

\* From the request of postSubscription to its answer.
Serving == {"refresh", "evict", "create"}
Posting == Serving \cup {"post", "ok", "conflict", "error"}

\* What a task of each kind may await.
Stages(kind) ==
  CASE kind = "idle"    -> {"none"}
    [] kind = "init"    -> Posting \cup {"config", "read"}
    [] kind = "enable"  -> Posting \cup {"read", "subscribe"}
    [] kind = "again"   -> Posting \cup {"subscribe"}
    [] kind = "disable" -> {"read", "unsubscribe", "delete"}
    [] kind = "signout" -> {"read", "unsubscribe", "delete", "logout"}
    [] kind = "local"   -> {"read", "unsubscribe"}
    [] kind = "orphan"  -> Serving

\* The endpoint of a row is one this browser has made, and in no other row.
RowType ==
  /\ rows \in Seq(Row)
  /\ \A i \in DOMAIN rows : rows[i].endpoint \in (1..minted) \cup {Elsewhere}
  /\ \A i, j \in DOMAIN rows : i # j =>
       rows[i] # rows[j] /\ (rows[i].endpoint = rows[j].endpoint => rows[i].endpoint = Elsewhere)

SessionType ==
  /\ owner \in Seq(User) /\ Len(owner) <= mount
  /\ live \subseteq DOMAIN owner
  /\ cookie \in 0..Len(owner)

PageType ==
  /\ page \in {"closed", "login"} \cup User
  /\ mount \in 0..MaxMounts
  /\ state \in {"loading", "off", "on"}
  /\ {resolved, known, busy} \subseteq BOOLEAN
  /\ sub \in 0..minted
  /\ minted \in 0..MaxEndpoints

\* A task has a subscription to ask about, and one the server is serving a session.
TaskType ==
  /\ task \in [Task -> Tasks]
  /\ \A t \in Task :
       /\ task[t].at \in Stages(task[t].kind)
       /\ task[t].at \in Posting \cup {"unsubscribe", "delete"} => task[t].endpoint \in 1..minted
       /\ task[t].at \in Serving => task[t].session \in DOMAIN owner

TypeOK ==
  /\ RowType
  /\ SessionType
  /\ PageType
  /\ TaskType
  /\ excused \in BOOLEAN
  /\ faults \in 0..MaxFaults

Init ==
  /\ rows = <<>>
  /\ owner = <<>>
  /\ live = {}
  /\ cookie = None
  /\ page = "login"
  /\ mount = 0
  /\ state = "loading"
  /\ resolved = FALSE /\ known = FALSE /\ busy = FALSE
  /\ sub = None
  /\ minted = 0
  /\ task = [t \in Task |-> Idle]
  /\ excused = FALSE
  /\ faults = 0

Fault == faults < MaxFaults /\ faults' = faults + 1
Free(t) == task[t].kind = "idle"
At(t, at) == task[t].at = at
Enabling == {t \in Task : task[t].kind \in {"enable", "again"}}
Running == {t \in Task : ~Free(t)}
SigningOut == {t \in Task : task[t].kind = "signout"}
Caller(t) == owner[task[t].session]

\* The task still has its hook: what it sets is seen.
Mounted(t) == task[t].mount = mount /\ page \in User

\* finally { setBusy(false) }
Released(t) == busy' = IF Mounted(t) /\ task[t].kind # "init" THEN FALSE ELSE busy
Ends(t) == task' = [task EXCEPT ![t] = Idle] /\ Released(t)

\* t goes on, a request with the cookie of now.
Sends(t, at) == [task EXCEPT ![t].at = at, ![t].session = cookie]

\* setState, if there is still a hook
Sets(t, new, res) ==
  IF Mounted(t) THEN state' = new /\ resolved' = res ELSE UNCHANGED <<state, resolved>>

-----------------------------------------------------------------------------
(* Sessions and the page.                                                  *)

\* AppShell is mounted for u, and useWebPush begins to find out where it stands.
Enter(u) ==
  /\ mount < MaxMounts
  /\ mount' = mount + 1
  /\ page' = u
  /\ state' = "loading"
  /\ resolved' = FALSE /\ known' = FALSE /\ busy' = FALSE
  /\ excused' = (Running # {})
  /\ \E t \in Task : Free(t) /\ task' = [task EXCEPT ![t] = Begun("init", "config", mount', cookie')]

\* SessionService.create: the cookie of an earlier session is overwritten.
CreateSession(u) ==
  /\ owner' = Append(owner, u)
  /\ cookie' = Len(owner')
  /\ live' = live \cup {cookie'}

\* POST /api/auth/login or register
Login(u) ==
  /\ page = "login"
  /\ CreateSession(u)
  /\ Enter(u)
  /\ UNCHANGED <<rows, sub, minted, faults>>

\* Google redirects to the callback, and that to the application: a new page.
GoogleCallback(u) ==
  /\ page = "closed"
  /\ CreateSession(u)
  /\ Enter(u)
  /\ UNCHANGED <<rows, sub, minted, faults>>

\* expiresAt passes.
Expire(s) ==
  /\ live' = live \ {s}
  /\ UNCHANGED <<rows, owner, cookie, pageVars, sub, minted, task, excused, faults>>

\* The page is closed.  What the server has begun it finishes.
Leave ==
  /\ page # "closed"
  /\ page' = "closed"
  /\ task' = [t \in Task |->
       IF task[t].at \in Serving THEN [task[t] EXCEPT !.kind = "orphan"] ELSE Idle]
  /\ UNCHANGED <<rows, sessions, mount, state, resolved, known, busy, sub, minted, excused, faults>>

\* The page is opened: GET /api/auth/session.  Without a session AppShell, and its
\* listener for relaydock:unauthorized, is never mounted.
Load ==
  /\ page = "closed"
  /\ UNCHANGED sessions
  /\ IF cookie \in live THEN Enter(owner[cookie])
     ELSE /\ page' = "login"
          /\ excused' = (excused \/ sub # None)
          /\ UNCHANGED <<mount, state, resolved, known, busy, task>>
  /\ UNCHANGED <<rows, sub, minted, faults>>

\* Mutant: the hook does not listen.
UnauthorizedUnheard(rest) ==
  /\ page' = IF page \in User THEN "login" ELSE page
  /\ task' = rest
  /\ excused' = (excused \/ Enabling # {})

\* A request is answered 401, and the tasks are rest otherwise: AppShell is
\* unmounted, and its hook has begun to remove the subscription.
Unauthorized(rest) ==
  /\ IF page \in User
     THEN /\ page' = "login"
          /\ \E t \in Task : /\ rest[t].kind = "idle"
                            /\ task' = [rest EXCEPT ![t] = Begun("local", "read", mount, None)]
     ELSE task' = rest /\ UNCHANGED page
  /\ excused' = (excused \/ \E t \in Enabling : rest[t].kind # "idle")

\* Any other request of the page finds the session ended.
Poll ==
  /\ page \in User
  /\ cookie \notin live
  /\ Unauthorized(task)
  /\ UNCHANGED <<rows, sessions, mount, state, resolved, known, busy, sub, minted, faults>>

-----------------------------------------------------------------------------
(* What a task asks of the browser.                                        *)

\* unsubscribe() of a task's subscription
Unsubscribes(t) == sub' = IF sub = task[t].endpoint THEN None ELSE sub

\* GET /api/push/config
Config(t) ==
  /\ At(t, "config")
  /\ \/ /\ task[t].session \in live
        /\ task' = [task EXCEPT ![t].at = "read"]
        /\ known' = IF Mounted(t) THEN TRUE ELSE known
        /\ UNCHANGED <<page, state, resolved, excused, faults>>
     \/ /\ task[t].session \notin live
        /\ Unauthorized([task EXCEPT ![t] = Idle])
        /\ UNCHANGED <<state, resolved, known, faults>>
     \/ /\ Fault
        /\ task' = [task EXCEPT ![t] = Idle]
        /\ Sets(t, "loading", FALSE)
        /\ UNCHANGED <<page, known, excused>>
  /\ UNCHANGED <<mount, busy, rows, sessions, sub, minted>>

\* getSubscription() finds one: it is registered, or removed.
Found(t) ==
  /\ sub # None
  /\ task' = LET sent == Sends(t, IF task[t].kind \in {"init", "enable"} THEN "post" ELSE "unsubscribe")
             IN  [sent EXCEPT ![t].endpoint = sub]
  /\ UNCHANGED <<state, resolved, busy, excused, faults>>

\* It finds none.
Missing(t) ==
  /\ sub = None
  /\ CASE task[t].kind = "init" -> Ends(t) /\ Sets(t, "off", TRUE)
       [] task[t].kind = "enable" ->
            task' = [task EXCEPT ![t].at = "subscribe"] /\ UNCHANGED <<state, resolved, busy>>
       [] task[t].kind = "signout" -> task' = Sends(t, "logout") /\ Released(t) /\ Sets(t, "off", resolved)
       [] task[t].kind = "disable" -> Ends(t) /\ Sets(t, "off", resolved)
       [] task[t].kind = "local" -> Ends(t) /\ UNCHANGED <<state, resolved>>
  /\ UNCHANGED <<excused, faults>>

\* It fails.
Unread(t) ==
  /\ Fault
  /\ excused' = TRUE
  /\ IF task[t].kind = "signout" THEN task' = Sends(t, "logout") /\ Released(t) ELSE Ends(t)
  /\ CASE task[t].kind = "init" -> Sets(t, "off", TRUE)
       [] task[t].kind = "enable" -> Sets(t, "off", resolved)
       [] OTHER -> UNCHANGED <<state, resolved>>

Read(t) ==
  /\ At(t, "read")
  /\ Found(t) \/ Missing(t) \/ Unread(t)
  /\ UNCHANGED <<rows, sessions, page, mount, known, sub, minted>>

\* pushManager.subscribe() returns the subscription there is, or a new one, or fails.
Subscribe(t) ==
  /\ At(t, "subscribe")
  /\ \/ /\ IF sub = None
           THEN minted < MaxEndpoints /\ minted' = minted + 1 /\ sub' = minted'
           ELSE UNCHANGED <<minted, sub>>
        /\ task' = [Sends(t, "post") EXCEPT ![t].endpoint = sub', ![t].made = TRUE]
        /\ UNCHANGED <<state, resolved, busy, faults>>
     \/ /\ Fault
        /\ Ends(t)
        /\ Sets(t, "off", resolved)
        /\ UNCHANGED <<minted, sub>>
  /\ UNCHANGED <<rows, sessions, page, mount, known, excused>>

\* The request of postSubscription arrives, and is authenticated.
Post(t) ==
  /\ At(t, "post")
  /\ \/ /\ task[t].session \in live
        /\ task' = [task EXCEPT ![t].at = "refresh"]
        /\ UNCHANGED <<page, excused, faults>>
     \/ /\ task[t].session \notin live
        /\ Unauthorized([task EXCEPT ![t].at = "error"])
        /\ UNCHANGED faults
     \/ /\ Fault
        /\ task' = [task EXCEPT ![t].at = "error"]
        /\ UNCHANGED <<page, excused>>
  /\ UNCHANGED <<mount, state, resolved, known, busy, rows, sessions, sub, minted>>

-----------------------------------------------------------------------------
(* POST /api/push/subscribe                                                *)

\* The places of u's rows, and the rows without r.
Owned(u) == {i \in DOMAIN rows : rows[i].user = u}
Without(r) ==
  IF r \in ToSet(rows) THEN RemoveAt(rows, CHOOSE i \in DOMAIN rows : rows[i] = r) ELSE rows

Taken(e) == {u \in User : \E i \in DOMAIN rows : rows[i] = [endpoint |-> e, user |-> u]}

\* The answer to t's request: nobody waits for it once the page is closed.
Answers(t, answer) ==
  task' = [task EXCEPT ![t] = IF @.kind = "orphan" THEN Idle ELSE [@ EXCEPT !.at = answer]]

\* updateMany of the caller's own row for the endpoint
Refresh(t) ==
  /\ At(t, "refresh")
  /\ IF Caller(t) \in Taken(task[t].endpoint) THEN Answers(t, "ok")
     ELSE task' = [task EXCEPT ![t].at = "evict"]
  /\ UNCHANGED <<rows, sessions, pageVars, sub, minted, excused, faults>>

\* The rows without the oldest of u, if u has as many as allowed.
Evicted(u) ==
  IF Cardinality(Owned(u)) >= MaxSubscriptions
  THEN {RemoveAt(rows, i) : i \in {o \in Owned(u) : \A j \in Owned(u) : o <= j}}
  ELSE {rows}

\* The oldest is evicted past the limit.
Evict(t) ==
  /\ At(t, "evict")
  /\ rows' \in Evicted(Caller(t))
  /\ excused' = (excused \/ \E r \in ToSet(rows) \ ToSet(rows') : r.endpoint = sub)
  /\ task' = [task EXCEPT ![t].at = "create"]
  /\ UNCHANGED <<sessions, pageVars, sub, minted, faults>>

\* Mutant: the endpoint is not unique.
CreatableAlways(e) == TRUE

\* endpoint is @unique
Creatable(e) == Taken(e) = {}

\* create, or what P2002 comes to
Create(t) ==
  LET e == task[t].endpoint IN
  /\ At(t, "create")
  /\ IF Creatable(e)
     THEN rows' = Append(rows, [endpoint |-> e, user |-> Caller(t)]) /\ Answers(t, "ok")
     ELSE UNCHANGED rows /\ Answers(t, IF Caller(t) \in Taken(e) THEN "ok" ELSE "conflict")
  /\ UNCHANGED <<sessions, pageVars, sub, minted, excused, faults>>

\* The answer is lost.
Lost(t) ==
  /\ task[t].at \in {"ok", "conflict"}
  /\ Fault
  /\ task' = [task EXCEPT ![t].at = "error"]
  /\ UNCHANGED <<rows, sessions, pageVars, sub, minted, excused>>

-----------------------------------------------------------------------------
(* The hook goes on with the answer.                                       *)

\* Mutant: a failed request counts as registered.
KnowsAny(t) == ~At(t, "conflict")

\* The server has said that the endpoint is the user's.
Knows(t) == At(t, "ok")

\* Mutant: init leaves the subscription to enable().
DropsOwn(t) == task[t].kind # "init" /\ ~At(t, "ok") /\ (At(t, "conflict") \/ task[t].made)

\* The subscription is dropped: it is another account's, or was made in vain.
Drops(t) == ~At(t, "ok") /\ (At(t, "conflict") \/ task[t].made)

\* init and subscribeAndRegister after postSubscription
Answered(t) ==
  LET over == task[t].kind # "enable" \/ ~At(t, "conflict") IN
  /\ task[t].at \in {"ok", "conflict", "error"}
  /\ \/ Drops(t) /\ Unsubscribes(t) /\ UNCHANGED <<excused, faults>>
     \/ Drops(t) /\ Fault /\ excused' = TRUE /\ UNCHANGED sub
     \/ ~Drops(t) /\ UNCHANGED <<sub, excused, faults>>
  /\ IF over THEN Ends(t)
     ELSE UNCHANGED busy /\ task' = [task EXCEPT ![t].kind = "again", ![t].at = "subscribe"]
  /\ CASE Knows(t) -> Sets(t, "on", TRUE)
       [] ~Knows(t) /\ task[t].kind = "init" /\ At(t, "error") -> Sets(t, "loading", FALSE)
       [] ~Knows(t) /\ task[t].kind = "init" /\ ~At(t, "error") -> Sets(t, "off", TRUE)
       [] OTHER -> IF over THEN Sets(t, "off", resolved) ELSE UNCHANGED <<state, resolved>>
  /\ UNCHANGED <<rows, sessions, page, mount, known, minted>>

\* The online and visibilitychange events, while init has not succeeded.
Retry ==
  /\ page \in User
  /\ ~resolved
  /\ \E t \in Task : Free(t) /\ task' = [task EXCEPT ![t] = Begun("init", "config", mount, cookie)]
  /\ excused' = (excused \/ Running # {})
  /\ UNCHANGED <<rows, sessions, pageVars, sub, minted, faults>>

\* The toggle of NotificationToggle; enable() returns when there is no key.
Toggle ==
  /\ page \in User
  /\ state = "on" \/ (state = "off" /\ known)
  /\ ~busy
  /\ busy' = TRUE
  /\ \E t \in Task : Free(t) /\ task' = [task EXCEPT ![t] =
       Begun(IF state = "on" THEN "disable" ELSE "enable", "read", mount, None)]
  /\ excused' = (excused \/ Running # {})
  /\ UNCHANGED <<rows, sessions, page, mount, state, resolved, known, sub, minted, faults>>

\* handleLogout: disable(), whatever is shown, then logout().
Signout ==
  /\ page \in User
  /\ \A t \in SigningOut : ~Mounted(t)
  /\ busy' = TRUE
  /\ excused' = (excused \/ Running # {})
  /\ \E t \in Task : /\ Free(t)
                    /\ task' = [task EXCEPT ![t] = Begun("signout", "read", mount, None)]
  /\ UNCHANGED <<rows, sessions, page, mount, state, resolved, known, sub, minted, faults>>

\* unsubscribe() of disable and of unsubscribeLocal; a failure is only reported.
Unsubscribe(t) ==
  /\ At(t, "unsubscribe")
  /\ \/ /\ Unsubscribes(t)
        /\ IF task[t].kind = "local" THEN Ends(t) ELSE task' = Sends(t, "delete") /\ UNCHANGED busy
        /\ UNCHANGED <<excused, faults>>
     \/ /\ Fault
        /\ excused' = TRUE
        /\ IF task[t].kind = "signout" THEN task' = Sends(t, "logout") /\ Released(t) ELSE Ends(t)
        /\ UNCHANGED sub
  /\ UNCHANGED <<rows, sessions, page, mount, state, resolved, known, minted>>

\* DELETE /api/push/subscribe, best effort
Delete(t) ==
  LET rest == IF task[t].kind = "signout" THEN Sends(t, "logout") ELSE [task EXCEPT ![t] = Idle] IN
  /\ At(t, "delete")
  /\ Sets(t, "off", resolved)
  /\ Released(t)
  /\ \/ /\ task[t].session \in live
        /\ rows' = Without([endpoint |-> task[t].endpoint, user |-> Caller(t)])
        /\ task' = rest
        /\ UNCHANGED <<page, excused, faults>>
     \/ /\ task[t].session \notin live
        /\ Unauthorized(rest)
        /\ UNCHANGED <<rows, faults>>
     \/ Fault /\ task' = rest /\ UNCHANGED <<rows, page, excused>>
  /\ UNCHANGED <<sessions, mount, known, sub, minted>>

\* POST /api/auth/logout: the session is revoked, the cookie is cleared.
Logout(t) ==
  LET rest == [task EXCEPT ![t] = Idle] IN
  /\ At(t, "logout")
  /\ \/ /\ task[t].session \in live
        /\ live' = live \ {task[t].session}
        /\ cookie' = None
        /\ page' = IF page \in User THEN "login" ELSE page
        /\ task' = rest
        /\ excused' = (excused \/ Running # {t})
        /\ UNCHANGED faults
     \/ /\ task[t].session \notin live
        /\ Unauthorized(rest)
        /\ UNCHANGED <<live, cookie, faults>>
     \/ /\ Fault
        /\ live' \in {live, live \ {task[t].session}}
        /\ task' = rest
        /\ UNCHANGED <<cookie, page, excused>>
  /\ UNCHANGED <<rows, owner, mount, state, resolved, known, busy, sub, minted>>

-----------------------------------------------------------------------------
(* Other browsers, and deliveries.                                         *)

\* u subscribes in another browser.
SubscribeElsewhere(u) ==
  LET row == [endpoint |-> Elsewhere, user |-> u] IN
  /\ row \notin ToSet(rows)
  /\ \E rest \in Evicted(u) : rows' = Append(rest, row)
  /\ excused' = (excused \/ \E r \in ToSet(rows) \ ToSet(rows') : r.endpoint = sub)
  /\ UNCHANGED <<sessions, pageVars, sub, minted, task, faults>>

\* A notification is sent to a subscription that the browser has given up: 404 or
\* 410, and the row is pruned.
Prune(r) ==
  /\ r.endpoint \notin {sub, Elsewhere}
  /\ rows' = Without(r)
  /\ UNCHANGED <<sessions, pageVars, sub, minted, task, excused, faults>>

-----------------------------------------------------------------------------

Next ==
  \/ \E u \in User : Login(u) \/ GoogleCallback(u) \/ SubscribeElsewhere(u)
  \/ \E s \in live : Expire(s)
  \/ Leave \/ Load \/ Poll \/ Retry \/ Toggle \/ Signout
  \/ \E t \in Task : \/ Config(t) \/ Read(t) \/ Subscribe(t) \/ Post(t) \/ Refresh(t) \/ Evict(t) \/ Create(t)
                     \/ Lost(t) \/ Answered(t) \/ Unsubscribe(t) \/ Delete(t) \/ Logout(t)
  \/ \E r \in ToSet(rows) : Prune(r)

Spec == Init /\ [][Next]_vars

-----------------------------------------------------------------------------

\* No task of the page is under way.
Calm == Running = {}

\* useWebPush, init: "Bind this endpoint to the current user before showing 'on'".
\* Whoever had the browser before, and however that ended, the one whose
\* application is mounted and settled gets no notification of another user,
\* unless tasks overlapped or a call of the browser failed.
SettledIsMine ==
  page \in User /\ resolved /\ Calm /\ ~excused => Taken(sub) \subseteq {page}

\* AppShell, handleLogout: "so on a shared machine the subscription can't keep
\* delivering this user's job notifications to the next person"; useWebPush says
\* the same of a session that expires.  At the sign-in page the browser has no
\* subscription, unless a task overlapped the end of the session, the browser did
\* not obey, or the session ended while no page was open.
SignedOutSilent ==
  page = "login" /\ Calm /\ ~excused => sub = None

\* WebPushState, on: "subscribed and registered with the server for the current
\* user".  Requests and answers may be lost, and rows pruned; an eviction is
\* excepted with the above.
OnDelivers ==
  page \in User /\ state = "on" /\ Calm /\ ~excused => sub # None /\ Taken(sub) = {page}
=============================================================================
