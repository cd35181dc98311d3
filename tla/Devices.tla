------------------------------ MODULE Devices ------------------------------
(***************************************************************************)
(* The life of a device of one user: a machine is paired with a one-time   *)
(* code, its agent connects and keeps the device's row online, the user    *)
(* revokes the device and then deletes it with everything that refers to   *)
(* it, and the devices page shows a cached list of all that.               *)
(*                                                                         *)
(* The server is one instance.  A handler runs to its next await; a        *)
(* connection's frames are handled one after the other, its close event at *)
(* any time.  A machine runs the installer until it is paired, or the one  *)
(* credential is lost; the device it becomes has the machine's name here.  *)
(***************************************************************************)
EXTENDS Naturals, FiniteSets

CONSTANTS
  Machine,
  Code,       \* pairing codes
  Conn,       \* agent connections
  NoMachine,
  NoCode,
  NoConn,
  NoFetch,
  MaxCrashes  \* bound: restarts of the server

ASSUME DevicesAssumption ==
  /\ NoMachine \notin Machine
  /\ NoCode \notin Code
  /\ NoConn \notin Conn
  /\ MaxCrashes \in Nat

VARIABLES
  \* PostgreSQL
  code,      \* [Code -> state of the PairingCode row]; once used or expired it
             \* may also have been deleted, which no query tells apart
  device,    \* [Machine -> Device.status, "none" before and "gone" after the row]
  newer,     \* [Machine -> closers whose connection closed before the row's last
             \* write was issued]: the order of updatedAt and disconnectedAt
  child,     \* [Machine -> a repository and a job of the device, each a row or
             \* a request to insert one]
  \* the server
  attached,  \* ConnectionHub.agents
  conn,      \* [Conn -> its socket and its handler]
  closers,   \* connections whose close handler awaits the database
  revoke,    \* [Machine -> where DELETE /api/devices/:id awaits]
  purge,     \* [Machine -> where DELETE .../permanent awaits, and the rows its
             \* transaction has deleted]
  \* the machines
  pairing,   \* [Machine -> the pairing request and its code]
  \* the devices page
  shown,     \* [Machine -> its status in the cached list]
  fetch,     \* the list a refetch is about to deliver
  removed,   \* devices whose deletion the page was told of
  \* history and bound
  late,      \* devices whose row was last written by a connection that was no
             \* longer attached, or renamed while none was
  crashes

rowVars  == <<code, device, newer, child>>
connVars == <<attached, conn, closers>>
userVars == <<revoke, purge>>
pageVars == <<shown, fetch, removed>>
vars == <<rowVars, connVars, userVars, pairing, pageVars, late, crashes>>

Live == {"offline", "online"}
Statuses == Live \cup {"none", "revoked", "gone"}
Shown == {"none", "live", "revoked"}  \* what the page's buttons tell apart
Kinds == {"repository", "job"}
Rows == {"new", "disabled", "enabled"}  \* states of a child that is a row

RowType ==
  /\ code \in [Code -> {"none", "fresh", "used", "expired"}]
  /\ device \in [Machine -> Statuses]
  /\ newer \in [Machine -> SUBSET Conn]
  /\ child \in [Machine -> [Kinds -> Rows \cup {"none", "asked"}]]
  /\ late \subseteq Machine

Connection ==
  [machine : Machine \cup {NoMachine}, socket : {"idle", "auth", "open", "closing", "closed"},
   hello : BOOLEAN, write : BOOLEAN, first : BOOLEAN, since : SUBSET Conn, status : BOOLEAN]

\* The hub's entry is an open or closing socket of the device that said hello; the
\* handlers of the close event are of closed ones.
ConnType ==
  /\ attached \in [Machine -> Conn \cup {NoConn}]
  /\ conn \in [Conn -> Connection]
  /\ \A c \in Conn : conn[c].socket # "idle" \/ conn[c].write \/ conn[c].status =>
       conn[c].machine \in Machine
  /\ \A m \in Machine : attached[m] # NoConn =>
       /\ conn[attached[m]].machine = m
       /\ conn[attached[m]].hello
       /\ conn[attached[m]].socket \in {"open", "closing"}
  /\ closers \subseteq {c \in Conn : conn[c].socket = "closed"}

UserType ==
  /\ revoke \in [Machine -> {"idle", "commit", "close"}]
  /\ purge \in [Machine -> [at : {"idle", "asked", "jobs", "repositories", "device", "close"},
                            doomed : SUBSET Kinds]]
  /\ pairing \in [Machine -> [at : {"idle", "claim", "reply", "paired", "lost"},
                              code : Code \cup {NoCode}]]

PageType ==
  /\ shown \in [Machine -> Shown]
  /\ fetch \in [Machine -> Shown] \cup {NoFetch}
  /\ removed \subseteq Machine

TypeOK == RowType /\ ConnType /\ UserType /\ PageType

Unpaired == [at |-> "idle", code |-> NoCode]

Init ==
  /\ code = [k \in Code |-> "none"]
  /\ device = [m \in Machine |-> "none"]
  /\ newer = [m \in Machine |-> {}]
  /\ child = [m \in Machine |-> [k \in Kinds |-> "none"]]
  /\ attached = [m \in Machine |-> NoConn]
  /\ conn = [c \in Conn |-> [machine |-> NoMachine, socket |-> "idle", hello |-> FALSE,
                              write |-> FALSE, first |-> FALSE, since |-> {}, status |-> FALSE]]
  /\ closers = {}
  /\ revoke = [m \in Machine |-> "idle"]
  /\ purge = [m \in Machine |-> [at |-> "idle", doomed |-> {}]]
  /\ pairing = [m \in Machine |-> Unpaired]
  /\ shown = [m \in Machine |-> "none"]
  /\ fetch = NoFetch
  /\ removed = {}
  /\ late = {}
  /\ crashes = 0

-----------------------------------------------------------------------------
(* Pairing.                                                                *)

\* POST /api/devices/pairing-codes
GenerateCode(k) ==
  /\ code[k] = "none"
  /\ code' = [code EXCEPT ![k] = "fresh"]
  /\ UNCHANGED <<device, newer, child, connVars, userVars, pairing, pageVars, late, crashes>>

\* Time passes PAIRING_CODE_TTL_MINUTES.
Expire(k) ==
  /\ code[k] = "fresh"
  /\ code' = [code EXCEPT ![k] = "expired"]
  /\ UNCHANGED <<device, newer, child, connVars, userVars, pairing, pageVars, late, crashes>>

isPairingCodeUsable(k) == code[k] = "fresh"

\* POST /api/devices/pair, up to the transaction; a code that is not usable is
\* refused, and the installer may be run again.
PairRead(m, k) ==
  /\ pairing[m].at = "idle"
  /\ isPairingCodeUsable(k)
  /\ pairing' = [pairing EXCEPT ![m] = [at |-> "claim", code |-> k]]
  /\ UNCHANGED <<rowVars, connVars, userVars, pageVars, late, crashes>>

\* Mutant: the claim does not ask whether the code is used.
ClaimableUnexpired(k) == code[k] \in {"fresh", "used"}

\* The updateMany that claims the code finds it unused and unexpired.
Claimable(k) == code[k] = "fresh"

\* The transaction: the code is claimed, the device and its credential created.
PairClaim(m) ==
  LET k == pairing[m].code IN
  /\ pairing[m].at = "claim"
  /\ IF Claimable(k)
     THEN /\ code' = [code EXCEPT ![k] = "used"]
          /\ device' = [device EXCEPT ![m] = "offline"]
          /\ pairing' = [pairing EXCEPT ![m].at = "reply"]
     ELSE /\ pairing' = [pairing EXCEPT ![m] = Unpaired]
          /\ UNCHANGED <<code, device>>
  /\ UNCHANGED <<newer, child, connVars, userVars, pageVars, late, crashes>>

\* The agent saves the credential, or never gets it: the audit record fails, the
\* response is lost, or the configuration cannot be written.  It is not sent
\* again.
Pair(m) ==
  /\ pairing[m].at = "reply"
  /\ \E end \in {"paired", "lost"} : pairing' = [pairing EXCEPT ![m].at = end]
  /\ UNCHANGED <<rowVars, connVars, userVars, pageVars, late, crashes>>

-----------------------------------------------------------------------------
(* Connections.                                                            *)

\* socket.close() of the connection attached for m.
SocketsAfterClosing(m) ==
  IF attached[m] = NoConn THEN conn
  ELSE [conn EXCEPT ![attached[m]].socket = "closing"]

isAgentOnline(m) == attached[m] # NoConn /\ conn[attached[m]].socket = "open"

\* authenticateAgent reads the credential and the device's status.
Authenticate(c, m) ==
  /\ conn[c].socket = "idle"
  /\ pairing[m].at = "paired"
  /\ device[m] \in Live
  /\ conn' = [conn EXCEPT ![c] = [@ EXCEPT !.socket = "auth", !.machine = m]]
  /\ UNCHANGED <<rowVars, attached, closers, userVars, pairing, pageVars, late, crashes>>

\* It then writes lastUsedAt, which fails only when the credential is gone.
Accept(c) ==
  /\ conn[c].socket = "auth"
  /\ conn' = [conn EXCEPT ![c].socket =
       IF device[conn[c].machine] = "gone" THEN "closed" ELSE "open"]
  /\ UNCHANGED <<rowVars, attached, closers, userVars, pairing, pageVars, late, crashes>>

\* agent.hello: the hub attaches the socket and closes the one it replaces; the
\* update of the device is issued.
Hello(c) ==
  LET m == conn[c].machine IN
  /\ conn[c].socket = "open"
  /\ ~conn[c].hello
  /\ attached' = [attached EXCEPT ![m] = c]
  /\ conn' = [SocketsAfterClosing(m) EXCEPT
       ![c] = [@ EXCEPT !.hello = TRUE, !.write = TRUE, !.first = TRUE, !.since = closers]]
  /\ UNCHANGED <<rowVars, closers, userVars, pairing, pageVars, late, crashes>>

\* agent.heartbeat of the attached connection; any other is ignored.
Heartbeat(c) ==
  /\ conn[c].socket = "open"
  /\ attached[conn[c].machine] = c
  /\ ~conn[c].write
  /\ conn' = [conn EXCEPT ![c] = [@ EXCEPT !.write = TRUE, !.since = closers]]
  /\ UNCHANGED <<rowVars, attached, closers, userVars, pairing, pageVars, late, crashes>>

\* agent.status, which the agent sends once it is welcomed: whether the socket is
\* still attached, or even open, is not asked.
Status(c) ==
  /\ conn[c].status
  /\ ~conn[c].write
  /\ conn' = [conn EXCEPT ![c] = [@ EXCEPT !.status = FALSE, !.write = TRUE, !.since = closers]]
  /\ UNCHANGED <<rowVars, attached, closers, userVars, pairing, pageVars, late, crashes>>

\* where: { status: { not: 'revoked' } }
Writable(m) == device[m] \in Live

\* updateConnectedDevice: online unless revoked, else the socket is closed.  The
\* welcome that follows a hello's update goes to whichever socket is attached; if
\* none takes it, this one is closed.
updateConnectedDevice(c) ==
  LET m == conn[c].machine
      welcomed == Writable(m) /\ isAgentOnline(m)
      shut == ~Writable(m) \/ (conn[c].first /\ ~welcomed)
      status == conn[c].status \/ (conn[c].first /\ welcomed /\ attached[m] = c)
      socket == IF shut /\ conn[c].socket = "open" THEN "closing" ELSE conn[c].socket IN
  /\ conn[c].write
  /\ device' = IF Writable(m) THEN [device EXCEPT ![m] = "online"] ELSE device
  /\ newer' = IF Writable(m) THEN [newer EXCEPT ![m] = conn[c].since] ELSE newer
  /\ late' = IF ~Writable(m) THEN late
             ELSE IF attached[m] # c THEN late \cup {m} ELSE late \ {m}
  /\ conn' = [conn EXCEPT ![c] = [@ EXCEPT !.write = FALSE, !.first = FALSE, !.since = {},
                                            !.status = status, !.socket = socket]]
  /\ UNCHANGED <<code, child, attached, closers, userVars, pairing, pageVars, crashes>>

\* Mutant: the hub keeps the entry of the closed socket.
CloseUndetached(c) ==
  LET m == conn[c].machine IN
  /\ conn[c].socket \in {"open", "closing"}
  /\ conn' = [conn EXCEPT ![c].socket = "closed"]
  /\ closers' = closers \cup {c}
  /\ UNCHANGED <<rowVars, attached, userVars, pairing, pageVars, late, crashes>>

\* The socket's close event: a lost connection, a heartbeat timeout, or the end of
\* a close the server began.  A handler under way goes on; a frame that has
\* arrived is still handled.
Close(c) ==
  LET m == conn[c].machine
      detached == conn[c].hello /\ attached[m] = c IN
  /\ conn[c].socket \in {"open", "closing"}
  /\ \E queued \in {FALSE, conn[c].status} :
       conn' = [conn EXCEPT ![c] = [@ EXCEPT !.socket = "closed", !.hello = FALSE, !.status = queued]]
  /\ attached' = IF detached THEN [attached EXCEPT ![m] = NoConn] ELSE attached
  /\ closers' = IF detached THEN closers \cup {c} ELSE closers
  /\ UNCHANGED <<rowVars, userVars, pairing, pageVars, late, crashes>>

\* The close handler's update: updatedAt <= disconnectedAt and not revoked.
MarkOffline(c) ==
  LET m == conn[c].machine IN
  /\ c \in closers
  /\ closers' = closers \ {c}
  /\ IF Writable(m) /\ c \notin newer[m]
     THEN /\ device' = [device EXCEPT ![m] = "offline"]
          /\ newer' = [newer EXCEPT ![m] = closers \ {c}]
          /\ late' = late \ {m}
     ELSE /\ newer' = [newer EXCEPT ![m] = @ \ {c}]
          /\ UNCHANGED <<device, late>>
  /\ conn' = [d \in Conn |-> [conn[d] EXCEPT !.since = @ \ {c}]]
  /\ UNCHANGED <<code, child, attached, userVars, pairing, pageVars, crashes>>

-----------------------------------------------------------------------------
(* Rows that refer to a device.                                            *)

\* Mutant: the row is locked only by its deletion.
LockedLate(m) == purge[m].at = "device"

\* SELECT ... FOR UPDATE is held from the lock to the end of the transaction; an
\* insert of a referring row waits for it.
Locked(m) == purge[m].at \in {"jobs", "repositories", "device"}

\* POST .../repositories and POST .../jobs check the device (and the job's
\* repository) before the insert they await.
Ask(m, kind) ==
  /\ child[m][kind] = "none"
  /\ device[m] \in Live
  /\ isAgentOnline(m)
  /\ kind = "job" => child[m]["repository"] = "enabled"
  /\ child' = [child EXCEPT ![m][kind] = "asked"]
  /\ UNCHANGED <<code, device, newer, connVars, userVars, pairing, pageVars, late, crashes>>

\* The insert: it fails once the row it refers to is gone.
Insert(m, kind) ==
  LET parent == /\ device[m] # "gone"
                /\ kind = "job" => child[m]["repository"] \in Rows IN
  /\ child[m][kind] = "asked"
  /\ ~Locked(m)
  /\ child' = [child EXCEPT ![m][kind] =
       IF ~parent THEN "none" ELSE IF kind = "job" THEN "enabled" ELSE "new"]
  /\ UNCHANGED <<code, device, newer, connVars, userVars, pairing, pageVars, late, crashes>>

\* The new repository is validated and enabled, or removed again; its row is one
\* that a purge under way may have deleted.
Validated(m) ==
  /\ child[m]["repository"] = "new"
  /\ ~Locked(m)
  /\ \/ isAgentOnline(m) /\ child' = [child EXCEPT ![m]["repository"] = "enabled"]
     \/ child' = [child EXCEPT ![m]["repository"] = "none"]
  /\ UNCHANGED <<code, device, newer, connVars, userVars, pairing, pageVars, late, crashes>>

-----------------------------------------------------------------------------
(* The devices page: a cached list, polled, and refetched after a change.  *)

Listed == [m \in Machine |-> CASE device[m] \in Live -> "live"
                               [] device[m] = "revoked" -> "revoked"
                               [] OTHER -> "none"]

\* refetchInterval: GET /api/devices reads the rows ...
Refetch ==
  /\ fetch = NoFetch
  /\ fetch' = Listed
  /\ UNCHANGED <<rowVars, connVars, userVars, pairing, shown, removed, late, crashes>>

\* ... and the answer replaces the list.
Fetched ==
  /\ fetch # NoFetch
  /\ shown' = fetch
  /\ fetch' = NoFetch
  /\ UNCHANGED <<rowVars, connVars, userVars, pairing, removed, late, crashes>>

\* Mutant: a refetch under way is left to finish.
InvalidatedJoining == IF fetch = NoFetch THEN Listed ELSE fetch

\* invalidateQueries: a refetch under way is cancelled and a new one sent.
Invalidated == Listed

\* PATCH /api/devices/:id changes the name, and with it updatedAt.
Rename(m) ==
  /\ shown[m] # "none"
  /\ device[m] \in Live
  /\ ~Locked(m)
  /\ newer' = [newer EXCEPT ![m] = closers]
  /\ late' = IF attached[m] = NoConn THEN late \cup {m} ELSE late
  /\ UNCHANGED <<code, device, child, connVars, userVars, pairing, pageVars, crashes>>

\* The revoke button of a device that is shown as not revoked; the handler finds
\* the device and asks its agent to cancel the jobs.
Revoke(m) ==
  /\ shown[m] = "live"
  /\ device[m] # "gone"
  /\ revoke[m] = "idle"
  /\ revoke' = [revoke EXCEPT ![m] = "commit"]
  /\ UNCHANGED <<rowVars, connVars, purge, pairing, pageVars, late, crashes>>

\* The transaction: the device and its credential are revoked; the update finds
\* no row if the device was deleted meanwhile.
RevokeCommit(m) ==
  /\ revoke[m] = "commit"
  /\ ~Locked(m)
  /\ IF device[m] = "gone"
     THEN revoke' = [revoke EXCEPT ![m] = "idle"] /\ UNCHANGED <<device, newer, late>>
     ELSE /\ device' = [device EXCEPT ![m] = "revoked"]
          /\ newer' = [newer EXCEPT ![m] = closers]
          /\ late' = late \ {m}
          /\ revoke' = [revoke EXCEPT ![m] = "close"]
  /\ UNCHANGED <<code, child, connVars, purge, pairing, pageVars, crashes>>

\* closeDevice; the page hears of the success, or the answer is lost.
RevokeClose(m) ==
  /\ revoke[m] = "close"
  /\ conn' = SocketsAfterClosing(m)
  /\ revoke' = [revoke EXCEPT ![m] = "idle"]
  /\ fetch' \in {fetch, Invalidated}
  /\ UNCHANGED <<rowVars, attached, closers, purge, pairing, shown, removed, late, crashes>>

\* The delete button, offered for a device that is shown as revoked.
DeleteOffered(m) == shown[m] = "revoked"

Delete(m) ==
  /\ DeleteOffered(m)
  /\ purge[m].at = "idle"
  /\ purge' = [purge EXCEPT ![m].at = "asked"]
  /\ UNCHANGED <<rowVars, connVars, revoke, pairing, pageVars, late, crashes>>

\* The row is locked and read; a device that is gone or not revoked is refused.
PurgeLock(m) ==
  /\ purge[m].at = "asked"
  /\ purge' = [purge EXCEPT ![m].at = IF device[m] = "revoked" THEN "jobs" ELSE "idle"]
  /\ UNCHANGED <<rowVars, connVars, revoke, pairing, pageVars, late, crashes>>

\* The rows the transaction has deleted, with those of a kind.
Doomed(m, kind) == purge[m].doomed \cup {k \in {kind} : child[m][k] \in Rows}

\* deleteMany of the jobs, then of the repositories.
PurgeChildren(m) ==
  /\ \/ /\ purge[m].at = "jobs"
        /\ purge' = [purge EXCEPT ![m] = [at |-> "repositories", doomed |-> Doomed(m, "job")]]
     \/ /\ purge[m].at = "repositories"
        /\ purge' = [purge EXCEPT ![m] = [at |-> "device", doomed |-> Doomed(m, "repository")]]
  /\ UNCHANGED <<rowVars, connVars, revoke, pairing, pageVars, late, crashes>>

\* The device is deleted and the transaction commits.
PurgeDevice(m) ==
  /\ purge[m].at = "device"
  /\ device' = [device EXCEPT ![m] = "gone"]
  /\ child' = [child EXCEPT ![m] = [k \in Kinds |-> IF k \in purge[m].doomed THEN "none" ELSE @[k]]]
  /\ purge' = [purge EXCEPT ![m] = [at |-> "close", doomed |-> {}]]
  /\ UNCHANGED <<code, newer, connVars, revoke, pairing, pageVars, late, crashes>>

\* closeDevice; told of the success, the page drops the device from its list and
\* invalidates it.
PurgeClose(m) ==
  /\ purge[m].at = "close"
  /\ conn' = SocketsAfterClosing(m)
  /\ purge' = [purge EXCEPT ![m].at = "idle"]
  /\ \/ /\ shown' = [shown EXCEPT ![m] = "none"]
        /\ fetch' = Invalidated
        /\ removed' = removed \cup {m}
     \/ UNCHANGED <<shown, fetch, removed>>
  /\ UNCHANGED <<rowVars, attached, closers, revoke, pairing, late, crashes>>

-----------------------------------------------------------------------------
(* Maintenance and restarts.                                               *)

\* Jobs that ended long ago are deleted; so are expired and old used codes, which
\* are refused as before.
Cleanup ==
  \E jobs \in (SUBSET Machine) \ {{}} :
    /\ \A m \in jobs : child[m]["job"] \in Rows /\ ~Locked(m)
    /\ child' = [m \in Machine |-> IF m \in jobs THEN [child[m] EXCEPT !["job"] = "none"] ELSE child[m]]
    /\ UNCHANGED <<code, device, newer, connVars, userVars, pairing, pageVars, late, crashes>>

\* A transaction under way is rolled back, a repository that awaited its
\* validation stays disabled.
ChildAfterCrash(m) ==
  [k \in Kinds |-> CASE child[m][k] = "asked" -> "none"
                     [] child[m][k] = "new" -> "disabled"
                     [] OTHER -> child[m][k]]

\* Mutant: the update of the rows has no condition on their status.
StatusAfterStartReset(m) == IF device[m] \in {"none", "gone"} THEN device[m] ELSE "offline"

\* Mutant: the rows stay as the previous process left them.
StatusAfterStartKept(m) == device[m]

\* MaintenanceService.start, before the server listens.
StatusAfterStart(m) == IF device[m] = "online" THEN "offline" ELSE device[m]

Restart ==
  /\ crashes < MaxCrashes
  /\ crashes' = crashes + 1
  /\ device' = [m \in Machine |-> StatusAfterStart(m)]
  /\ child' = [m \in Machine |-> ChildAfterCrash(m)]
  /\ attached' = [m \in Machine |-> NoConn]
  /\ conn' = [c \in Conn |-> IF conn[c].socket = "idle" THEN conn[c]
       ELSE [conn[c] EXCEPT !.socket = "closed", !.hello = FALSE, !.write = FALSE, !.first = FALSE,
                              !.since = {}, !.status = FALSE]]
  /\ newer' = [m \in Machine |-> {}]
  /\ closers' = {}
  /\ revoke' = [m \in Machine |-> "idle"]
  /\ purge' = [m \in Machine |-> [at |-> "idle", doomed |-> {}]]
  /\ pairing' = [m \in Machine |->
       CASE pairing[m].at = "claim" -> Unpaired
         [] pairing[m].at = "reply" -> [pairing[m] EXCEPT !.at = "lost"]
         [] OTHER -> pairing[m]]
  /\ late' = {}
  /\ UNCHANGED <<code, pageVars>>

-----------------------------------------------------------------------------

Next ==
  \/ \E k \in Code : GenerateCode(k) \/ Expire(k)
  \/ \E m \in Machine : \/ \E k \in Code : PairRead(m, k)
                        \/ PairClaim(m) \/ Pair(m)
  \/ \E c \in Conn : \/ \E m \in Machine : Authenticate(c, m)
                     \/ Accept(c) \/ Hello(c) \/ Heartbeat(c) \/ Status(c)
                     \/ updateConnectedDevice(c) \/ Close(c) \/ MarkOffline(c)
  \/ \E m \in Machine : \/ \E kind \in Kinds : Ask(m, kind) \/ Insert(m, kind)
                        \/ Validated(m)
  \/ Refetch \/ Fetched
  \/ \E m \in Machine : \/ Rename(m) \/ Revoke(m) \/ RevokeCommit(m) \/ RevokeClose(m)
                        \/ Delete(m) \/ PurgeLock(m) \/ PurgeChildren(m) \/ PurgeDevice(m) \/ PurgeClose(m)
  \/ Cleanup
  \/ Restart

Spec == Init /\ [][Next]_vars

-----------------------------------------------------------------------------

\* A pairing code makes at most one device, however the requests that present it
\* overlap: each reads it as usable before either claims it.
OneDevicePerCode ==
  \A m, n \in Machine :
    device[m] # "none" /\ device[n] # "none" /\ pairing[m].code = pairing[n].code => m = n

\* Nothing refers to a device when its row is about to be deleted, though requests
\* that checked the device before its revocation insert repositories and jobs
\* later: the lock taken first makes the purge's deletions complete.
PurgeUnhindered ==
  \A m \in Machine : purge[m].at = "device" =>
    \A k \in Kinds : child[m][k] \in Rows => k \in purge[m].doomed

\* The page offers to delete a device on the word of a cached list; the server
\* never has to answer DEVICE_NOT_REVOKED, since a row that was once revoked is
\* never brought back by an agent's write that was issued before.
DeleteNeverPremature ==
  \A m \in Machine : purge[m].at = "asked" => device[m] \in {"revoked", "gone"}

\* A row once revoked is never live again and one deleted never comes back, although
\* handlers of its agent, a renaming and a restart write rows they read before.
Advances(m) ==
  /\ device[m] = "none" => device'[m] \in {"none", "offline"}
  /\ device[m] \in Live => device'[m] \in Live \cup {"revoked"}
  /\ device[m] = "revoked" => device'[m] \in {"revoked", "gone"}
  /\ device[m] = "gone" => device'[m] = "gone"

RevocationFinal == [][\A m \in Machine : Advances(m)]_vars

\* Once told that a device is deleted the page never lists it again, although a
\* list read before the deletion may arrive after it.
DeletedStaysHidden ==
  \A m \in removed : shown[m] = "none"

\* Whatever the cached list is behind, acting on it is safe and showing it does not
\* take a deletion back.
StaleListHarmless == DeleteNeverPremature /\ DeletedStaysHidden

\* No write to the device's row is due or under way.
Settled(m) ==
  \A c \in Conn : conn[c].machine = m =>
    c \notin closers /\ ~conn[c].write /\ ~conn[c].status

\* A row that says online has an agent attached, unless the last to write it was
\* a handler that outlived its connection's attachment, or the device was renamed
\* between its agent's disconnection and the close handler's update.
OnlineVouched ==
  \A m \in Machine :
    Settled(m) /\ device[m] = "online" /\ attached[m] = NoConn => m \in late
=============================================================================
