--------------------------- MODULE Devices_proofs ---------------------------
(***************************************************************************)
(* Theorems about Devices, for every set of machines, codes and            *)
(* connections and any number of restarts: types, the life of a device's   *)
(* row from pairing to deletion, what its deletion takes along, and what   *)
(* vouches for a row that says online.                                     *)
(***************************************************************************)
EXTENDS Devices, TLAPS

-----------------------------------------------------------------------------
(* Type correctness                                                        *)

\* A part of the state that a step leaves alone stays well typed.
LEMMA TypeKept ==
  /\ RowType /\ UNCHANGED <<rowVars, late>> => RowType'
  /\ ConnType /\ UNCHANGED connVars => ConnType'
  /\ UserType /\ UNCHANGED <<userVars, pairing>> => UserType'
  /\ PageType /\ UNCHANGED pageVars => PageType'
  BY DEF RowType, ConnType, UserType, PageType, rowVars, connVars, userVars, pageVars

\* States of a socket.
Sockets == {"idle", "auth", "open", "closing", "closed"}

\* What authenticateAgent makes of a connection's record.
LEMMA AuthRecord ==
  ASSUME NEW r \in Connection, NEW m \in Machine
  PROVE  [r EXCEPT !.socket = "auth", !.machine = m] \in Connection
  BY DEF Connection

\* What a frame that issues an update of the device makes of it.
LEMMA WriteRecord ==
  ASSUME NEW r \in Connection, NEW S \in SUBSET Conn
  PROVE  /\ [r EXCEPT !.write = TRUE, !.since = S] \in Connection
         /\ [r EXCEPT !.status = FALSE, !.write = TRUE, !.since = S] \in Connection
         /\ [r EXCEPT !.hello = TRUE, !.write = TRUE, !.first = TRUE, !.since = S] \in Connection
  BY DEF Connection

\* What the end of that update makes of it.
LEMMA WrittenRecord ==
  ASSUME NEW r \in Connection, NEW b \in BOOLEAN, NEW s \in Sockets
  PROVE  [r EXCEPT !.write = FALSE, !.first = FALSE, !.since = {}, !.status = b, !.socket = s]
           \in Connection
  BY DEF Connection, Sockets

\* What the close event and a restart make of it.
LEMMA ClosedRecord ==
  ASSUME NEW r \in Connection, NEW b \in BOOLEAN
  PROVE  /\ [r EXCEPT !.socket = "closed", !.hello = FALSE, !.status = b] \in Connection
         /\ [r EXCEPT !.socket = "closed", !.hello = FALSE, !.write = FALSE, !.first = FALSE,
                      !.since = {}, !.status = FALSE] \in Connection
  BY DEF Connection

\* closeDevice leaves records of connections.
LEMMA ClosingType ==
  ASSUME ConnType, NEW m \in Machine
  PROVE  SocketsAfterClosing(m) \in [Conn -> Connection]
  BY DevicesAssumption DEF ConnType, SocketsAfterClosing, Connection

\* closeDevice changes the state of the attached socket and nothing else.
LEMMA ClosingFields ==
  ASSUME ConnType, NEW m \in Machine, NEW c \in Conn
  PROVE  /\ SocketsAfterClosing(m)[c].machine = conn[c].machine
         /\ SocketsAfterClosing(m)[c].hello <=> conn[c].hello
         /\ SocketsAfterClosing(m)[c].write <=> conn[c].write
         /\ SocketsAfterClosing(m)[c].status <=> conn[c].status
         /\ SocketsAfterClosing(m)[c].socket = IF c = attached[m] THEN "closing" ELSE conn[c].socket
  BY DevicesAssumption DEF ConnType, SocketsAfterClosing, Connection

\* The initial state is well typed.
LEMMA TypeInit == Init => TypeOK
  <1> SUFFICES ASSUME Init PROVE TypeOK
    OBVIOUS
  <1> USE DevicesAssumption DEF Init
  <1>1. RowType
    BY DEF RowType, Statuses, Live, Kinds, Rows
  <1>2. ConnType
    BY DEF ConnType, Connection
  <1>3. UserType
    BY DEF UserType, Unpaired
  <1>4. PageType
    BY DEF PageType, Shown
  <1> QED
    BY <1>1, <1>2, <1>3, <1>4 DEF TypeOK

\* Every step keeps the types, one part of the state at a time.
LEMMA TypeStep == TypeOK /\ [Next]_vars => TypeOK'
  <1> SUFFICES ASSUME TypeOK, [Next]_vars PROVE TypeOK'
    OBVIOUS
  <1> USE DevicesAssumption
  <1>t. RowType /\ ConnType /\ UserType /\ PageType
    BY DEF TypeOK
  <1>c. closers \subseteq Conn
    BY <1>t DEF ConnType
  <1>d. conn \in [Conn -> Connection]
    BY <1>t DEF ConnType
  <1>1. ASSUME NEW k \in Code, GenerateCode(k) PROVE TypeOK'
    <2>1. RowType'
      BY <1>t, <1>1
      DEF GenerateCode, RowType, Statuses, Live, Kinds, Rows, rowVars, connVars, userVars,
          pageVars
    <2> QED
      BY <1>t, <1>1, <2>1, TypeKept DEF TypeOK, GenerateCode
  <1>2. ASSUME NEW k \in Code, Expire(k) PROVE TypeOK'
    <2>1. RowType'
      BY <1>t, <1>2
      DEF Expire, RowType, Statuses, Live, Kinds, Rows, rowVars, connVars, userVars, pageVars
    <2> QED
      BY <1>t, <1>2, <2>1, TypeKept DEF TypeOK, Expire
  <1>3. ASSUME NEW m \in Machine, NEW k \in Code, PairRead(m, k) PROVE TypeOK'
    <2>1. UserType'
      BY <1>t, <1>3
      DEF PairRead, UserType, Unpaired, Kinds, rowVars, connVars, userVars, pageVars
    <2> QED
      BY <1>t, <1>3, <2>1, TypeKept DEF TypeOK, PairRead
  <1>4. ASSUME NEW m \in Machine, PairClaim(m) PROVE TypeOK'
    <2>1. RowType'
      BY <1>t, <1>4
      DEF PairClaim, RowType, Statuses, Live, Kinds, Rows, rowVars, connVars, userVars,
          pageVars, Claimable
    <2>2. UserType'
      BY <1>t, <1>4
      DEF PairClaim, UserType, Unpaired, Kinds, rowVars, connVars, userVars, pageVars,
          Claimable
    <2> QED
      BY <1>t, <1>4, <2>1, <2>2, TypeKept DEF TypeOK, PairClaim
  <1>5. ASSUME NEW m \in Machine, Pair(m) PROVE TypeOK'
    <2>1. UserType'
      BY <1>t, <1>5 DEF Pair, UserType, Unpaired, Kinds, rowVars, connVars, userVars, pageVars
    <2> QED
      BY <1>t, <1>5, <2>1, TypeKept DEF TypeOK, Pair
  <1>6. ASSUME NEW c \in Conn, NEW m \in Machine, Authenticate(c, m) PROVE TypeOK'
    <2>1. ConnType'
      <3>1. conn' \in [Conn -> Connection]
        BY <1>d, <1>6, AuthRecord DEF Authenticate
      <3>2. attached' \in [Machine -> Conn \cup {NoConn}]
        BY <1>t, <1>6 DEF Authenticate, ConnType
      <3>3. \A d \in Conn : conn'[d].socket # "idle" \/ conn'[d].write \/ conn'[d].status =>
              conn'[d].machine \in Machine
        BY <1>t, <1>6 DEF Authenticate, ConnType, Connection
      <3>4. ASSUME NEW n \in Machine, attached'[n] # NoConn
            PROVE  /\ conn'[attached'[n]].machine = n
                   /\ conn'[attached'[n]].hello
                   /\ conn'[attached'[n]].socket \in {"open", "closing"}
        BY <1>t, <1>6, <3>4 DEF Authenticate, ConnType, Connection
      <3>5. closers' \subseteq {d \in Conn : conn'[d].socket = "closed"}
        BY <1>t, <1>6 DEF Authenticate, ConnType, Connection
      <3> QED
        BY <3>1, <3>2, <3>3, <3>4, <3>5 DEF ConnType
    <2> QED
      BY <1>t, <1>6, <2>1, TypeKept DEF TypeOK, Authenticate
  <1>7. ASSUME NEW c \in Conn, Accept(c) PROVE TypeOK'
    <2>1. ConnType'
      BY <1>t, <1>7 DEF Accept, ConnType, Connection, rowVars, connVars, userVars, pageVars
    <2> QED
      BY <1>t, <1>7, <2>1, TypeKept DEF TypeOK, Accept
  <1>8. ASSUME NEW c \in Conn, Hello(c) PROVE TypeOK'
    <2> DEFINE m == conn[c].machine
    <2>1. m \in Machine /\ c # attached[m] /\ attached' = [attached EXCEPT ![m] = c]
      BY <1>t, <1>8 DEF Hello, ConnType
    <2>2. conn' = [SocketsAfterClosing(m) EXCEPT
            ![c] = [@ EXCEPT !.hello = TRUE, !.write = TRUE, !.first = TRUE, !.since = closers]]
      BY <1>8 DEF Hello
    <2>3. SocketsAfterClosing(m) \in [Conn -> Connection]
      BY <1>t, <2>1, ClosingType
    <2>4. conn' \in [Conn -> Connection]
      BY <1>c, <2>2, <2>3, WriteRecord
    <2>5. \A d \in Conn :
            /\ conn'[d].machine = SocketsAfterClosing(m)[d].machine
            /\ conn'[d].socket = SocketsAfterClosing(m)[d].socket
            /\ d # c => conn'[d] = SocketsAfterClosing(m)[d]
      BY <2>2, <2>3 DEF Connection
    <2>6. conn'[c].hello
      BY <2>2, <2>3 DEF Connection
    <2>7. \A d \in Conn : conn'[d].socket # "idle" \/ conn'[d].write \/ conn'[d].status =>
              conn'[d].machine \in Machine
      BY <1>t, <2>1, <2>5, DevicesAssumption, ClosingFields DEF ConnType
    <2>8. ASSUME NEW n \in Machine, attached'[n] # NoConn
          PROVE  /\ conn'[attached'[n]].machine = n
                 /\ conn'[attached'[n]].hello
                 /\ conn'[attached'[n]].socket \in {"open", "closing"}
      <3>1. CASE n = m
        BY <1>t, <1>8, <2>1, <2>5, <2>6, <3>1, ClosingFields DEF Hello, ConnType
      <3>2. CASE n # m
        BY <1>t, <1>8, <2>1, <2>5, <2>8, <3>2, ClosingFields DEF Hello, ConnType
      <3> QED
        BY <3>1, <3>2
    <2>9. closers' \subseteq {d \in Conn : conn'[d].socket = "closed"}
      BY <1>t, <1>8, <2>1, <2>5, ClosingFields DEF Hello, ConnType
    <2>10. ConnType'
      BY <1>t, <2>1, <2>4, <2>7, <2>8, <2>9 DEF ConnType
    <2> QED
      BY <1>t, <1>8, <2>10, TypeKept DEF TypeOK, Hello
  <1>9. ASSUME NEW c \in Conn, Heartbeat(c) PROVE TypeOK'
    <2>1. ConnType'
      <3>1. conn' \in [Conn -> Connection]
        BY <1>c, <1>d, <1>9, WriteRecord DEF Heartbeat
      <3>2. attached' \in [Machine -> Conn \cup {NoConn}]
        BY <1>t, <1>9 DEF Heartbeat, ConnType
      <3>3. \A d \in Conn : conn'[d].socket # "idle" \/ conn'[d].write \/ conn'[d].status =>
              conn'[d].machine \in Machine
        BY <1>t, <1>9 DEF Heartbeat, ConnType, Connection
      <3>4. ASSUME NEW n \in Machine, attached'[n] # NoConn
            PROVE  /\ conn'[attached'[n]].machine = n
                   /\ conn'[attached'[n]].hello
                   /\ conn'[attached'[n]].socket \in {"open", "closing"}
        BY <1>t, <1>9, <3>4 DEF Heartbeat, ConnType, Connection
      <3>5. closers' \subseteq {d \in Conn : conn'[d].socket = "closed"}
        BY <1>t, <1>9 DEF Heartbeat, ConnType, Connection
      <3> QED
        BY <3>1, <3>2, <3>3, <3>4, <3>5 DEF ConnType
    <2> QED
      BY <1>t, <1>9, <2>1, TypeKept DEF TypeOK, Heartbeat
  <1>10. ASSUME NEW c \in Conn, Status(c) PROVE TypeOK'
    <2>1. ConnType'
      <3>1. conn' \in [Conn -> Connection]
        BY <1>c, <1>d, <1>10, WriteRecord DEF Status
      <3>2. attached' \in [Machine -> Conn \cup {NoConn}]
        BY <1>t, <1>10 DEF Status, ConnType
      <3>3. \A d \in Conn : conn'[d].socket # "idle" \/ conn'[d].write \/ conn'[d].status =>
              conn'[d].machine \in Machine
        BY <1>t, <1>10 DEF Status, ConnType, Connection
      <3>4. ASSUME NEW n \in Machine, attached'[n] # NoConn
            PROVE  /\ conn'[attached'[n]].machine = n
                   /\ conn'[attached'[n]].hello
                   /\ conn'[attached'[n]].socket \in {"open", "closing"}
        BY <1>t, <1>10, <3>4 DEF Status, ConnType, Connection
      <3>5. closers' \subseteq {d \in Conn : conn'[d].socket = "closed"}
        BY <1>t, <1>10 DEF Status, ConnType, Connection
      <3> QED
        BY <3>1, <3>2, <3>3, <3>4, <3>5 DEF ConnType
    <2> QED
      BY <1>t, <1>10, <2>1, TypeKept DEF TypeOK, Status
  <1>11. ASSUME NEW c \in Conn, updateConnectedDevice(c) PROVE TypeOK'
    <2>1. RowType'
      <3>1. conn[c].since \subseteq Conn 
        BY <1>d DEF Connection
      <3>2. device' \in [Machine -> Statuses]
        BY <1>t, <1>11 DEF updateConnectedDevice, RowType, Statuses, Live
      <3>3. newer' \in [Machine -> SUBSET Conn]
        BY <1>t, <1>11, <3>1 DEF updateConnectedDevice, RowType
      <3>4. late' \subseteq Machine
        BY <1>t, <1>11 DEF updateConnectedDevice, RowType, ConnType
      <3> QED
        BY <1>t, <1>11, <3>1, <3>2, <3>3, <3>4 DEF updateConnectedDevice, RowType
    <2>2. ConnType'
      <3>1. conn' \in [Conn -> Connection]
        <4> DEFINE m == conn[c].machine
                   w == Writable(m) /\ isAgentOnline(m)
                   shut == ~Writable(m) \/ (conn[c].first /\ ~w)
                   b == conn[c].status \/ (conn[c].first /\ w /\ attached[m] = c)
                   s == IF shut /\ conn[c].socket = "open" THEN "closing" ELSE conn[c].socket
        <4>1. conn' = [conn EXCEPT ![c] = [@ EXCEPT
                !.write = FALSE, !.first = FALSE, !.since = {}, !.status = b, !.socket = s]]
          BY <1>11, Zenon DEF updateConnectedDevice
        <4>2. b \in BOOLEAN
          OBVIOUS
        <4>3. s \in Sockets /\ conn[c] \in Connection
          BY <1>d DEF Connection, Sockets
        <4> HIDE DEF b, s
        <4> QED
          BY <1>d, <4>1, <4>2, <4>3, WrittenRecord
      <3>2. attached' \in [Machine -> Conn \cup {NoConn}]
        BY <1>t, <1>11 DEF updateConnectedDevice, ConnType, Writable
      <3>3. \A d \in Conn : conn'[d].socket # "idle" \/ conn'[d].write \/ conn'[d].status =>
              conn'[d].machine \in Machine
        BY <1>t, <1>11 DEF updateConnectedDevice, ConnType, Connection, Writable
      <3>4. ASSUME NEW n \in Machine, attached'[n] # NoConn
            PROVE  /\ conn'[attached'[n]].machine = n
                   /\ conn'[attached'[n]].hello
                   /\ conn'[attached'[n]].socket \in {"open", "closing"}
        BY <1>t, <1>11, <3>4 DEF updateConnectedDevice, ConnType, Connection, Writable
      <3>5. closers' \subseteq {d \in Conn : conn'[d].socket = "closed"}
        BY <1>t, <1>11 DEF updateConnectedDevice, ConnType, Connection, Writable
      <3> QED
        BY <3>1, <3>2, <3>3, <3>4, <3>5 DEF ConnType
    <2> QED
      BY <1>t, <1>11, <2>1, <2>2, TypeKept DEF TypeOK, updateConnectedDevice
  <1>12. ASSUME NEW c \in Conn, Close(c) PROVE TypeOK'
    <2>1. ConnType'
      <3>1. conn' \in [Conn -> Connection]
        <4>1. PICK q \in {FALSE, conn[c].status} : conn' = [conn EXCEPT ![c] =
                [@ EXCEPT !.socket = "closed", !.hello = FALSE, !.status = q]]
          BY <1>12 DEF Close
        <4>2. q \in BOOLEAN /\ conn[c] \in Connection
          BY <1>d DEF Connection
        <4> QED
          BY <1>d, <4>1, <4>2, ClosedRecord
      <3>2. attached' \in [Machine -> Conn \cup {NoConn}]
        BY <1>t, <1>12 DEF Close, ConnType
      <3>3. \A d \in Conn : conn'[d].socket # "idle" \/ conn'[d].write \/ conn'[d].status =>
              conn'[d].machine \in Machine
        BY <1>t, <1>12 DEF Close, ConnType, Connection
      <3>4. ASSUME NEW n \in Machine, attached'[n] # NoConn
            PROVE  /\ conn'[attached'[n]].machine = n
                   /\ conn'[attached'[n]].hello
                   /\ conn'[attached'[n]].socket \in {"open", "closing"}
        BY <1>t, <1>12, <3>4 DEF Close, ConnType, Connection
      <3>5. closers' \subseteq {d \in Conn : conn'[d].socket = "closed"}
        BY <1>t, <1>12 DEF Close, ConnType, Connection
      <3> QED
        BY <3>1, <3>2, <3>3, <3>4, <3>5 DEF ConnType
    <2> QED
      BY <1>t, <1>12, <2>1, TypeKept DEF TypeOK, Close
  <1>13. ASSUME NEW c \in Conn, MarkOffline(c) PROVE TypeOK'
    <2>1. RowType'
      <3>1. device' \in [Machine -> Statuses]
        BY <1>t, <1>13 DEF MarkOffline, RowType, Statuses, Live
      <3>2. newer' \in [Machine -> SUBSET Conn]
        BY <1>t, <1>c, <1>13 DEF MarkOffline, RowType
      <3>3. late' \subseteq Machine
        BY <1>t, <1>13 DEF MarkOffline, RowType
      <3> QED
        BY <1>t, <1>13, <3>1, <3>2, <3>3 DEF MarkOffline, RowType
    <2>2. ConnType'
      <3> DEFINE after(d) == [conn[d] EXCEPT !.since = @ \ {c}]
      <3>1. \A d \in Conn : conn'[d] = after(d)
        BY <1>13 DEF MarkOffline
      <3>2. ASSUME NEW d \in Conn
            PROVE  /\ after(d) \in Connection
                   /\ after(d).machine = conn[d].machine
                   /\ after(d).socket = conn[d].socket
                   /\ after(d).hello <=> conn[d].hello
                   /\ after(d).write <=> conn[d].write
                   /\ after(d).status <=> conn[d].status
        BY <1>d DEF Connection
      <3>3. conn' \in [Conn -> Connection]
        BY <1>13, <3>2 DEF MarkOffline
      <3> HIDE DEF after
      <3>4. attached' \in [Machine -> Conn \cup {NoConn}]
        BY <1>t, <1>13 DEF MarkOffline, ConnType
      <3>5. \A d \in Conn : conn'[d].socket # "idle" \/ conn'[d].write \/ conn'[d].status =>
              conn'[d].machine \in Machine
        BY <1>t, <3>1, <3>2 DEF ConnType
      <3>6. ASSUME NEW n \in Machine, attached'[n] # NoConn
            PROVE  /\ conn'[attached'[n]].machine = n
                   /\ conn'[attached'[n]].hello
                   /\ conn'[attached'[n]].socket \in {"open", "closing"}
        <4>1. attached'[n] = attached[n] /\ attached[n] \in Conn
          BY <1>t, <1>13, <3>6 DEF MarkOffline, ConnType
        <4> QED
          BY <1>t, <3>1, <3>2, <3>6, <4>1 DEF ConnType
      <3>7. closers' \subseteq {d \in Conn : conn'[d].socket = "closed"}
        BY <1>t, <1>13, <3>1, <3>2 DEF MarkOffline, ConnType
      <3> QED
        BY <3>3, <3>4, <3>5, <3>6, <3>7 DEF ConnType
    <2> QED
      BY <1>t, <1>13, <2>1, <2>2, TypeKept DEF TypeOK, MarkOffline
  <1>14. ASSUME NEW m \in Machine, NEW kind \in Kinds, Ask(m, kind) PROVE TypeOK'
    <2>1. RowType'
      BY <1>t, <1>14
      DEF Ask, RowType, Statuses, Live, Kinds, Rows, rowVars, connVars, userVars, pageVars
    <2> QED
      BY <1>t, <1>14, <2>1, TypeKept DEF TypeOK, Ask
  <1>15. ASSUME NEW m \in Machine, NEW kind \in Kinds, Insert(m, kind) PROVE TypeOK'
    <2>1. RowType'
      BY <1>t, <1>15
      DEF Insert, RowType, Statuses, Live, Kinds, Rows, rowVars, connVars, userVars, pageVars
    <2> QED
      BY <1>t, <1>15, <2>1, TypeKept DEF TypeOK, Insert
  <1>16. ASSUME NEW m \in Machine, Validated(m) PROVE TypeOK'
    <2>1. RowType'
      BY <1>t, <1>16
      DEF Validated, RowType, Statuses, Live, Kinds, Rows, rowVars, connVars, userVars,
          pageVars
    <2> QED
      BY <1>t, <1>16, <2>1, TypeKept DEF TypeOK, Validated
  <1>17. CASE Refetch
    <2>1. PageType'
      BY <1>t, <1>17 DEF Refetch, PageType, Shown, rowVars, connVars, userVars, pageVars, Listed
    <2> QED
      BY <1>t, <1>17, <2>1, TypeKept DEF TypeOK, Refetch
  <1>18. CASE Fetched
    <2>1. PageType'
      BY <1>t, <1>18 DEF Fetched, PageType, Shown, rowVars, connVars, userVars, pageVars
    <2> QED
      BY <1>t, <1>18, <2>1, TypeKept DEF TypeOK, Fetched
  <1>19. ASSUME NEW m \in Machine, Rename(m) PROVE TypeOK'
    <2>1. RowType'
      BY <1>t, <1>c, <1>19
      DEF Rename, RowType, Statuses, Live, Kinds, Rows, rowVars, connVars, userVars, pageVars
    <2> QED
      BY <1>t, <1>19, <2>1, TypeKept DEF TypeOK, Rename
  <1>20. ASSUME NEW m \in Machine, Revoke(m) PROVE TypeOK'
    <2>1. UserType'
      BY <1>t, <1>20
      DEF Revoke, UserType, Unpaired, Kinds, rowVars, connVars, userVars, pageVars
    <2> QED
      BY <1>t, <1>20, <2>1, TypeKept DEF TypeOK, Revoke
  <1>21. ASSUME NEW m \in Machine, RevokeCommit(m) PROVE TypeOK'
    <2>1. RowType'
      BY <1>t, <1>c, <1>21, SMTT(30)
      DEF RevokeCommit, RowType, Statuses, Live, Kinds, Rows, rowVars, connVars, userVars,
          pageVars
    <2>2. UserType'
      BY <1>t, <1>21
      DEF RevokeCommit, UserType, Unpaired, Kinds, rowVars, connVars, userVars, pageVars
    <2> QED
      BY <1>t, <1>21, <2>1, <2>2, TypeKept DEF TypeOK, RevokeCommit
  <1>22. ASSUME NEW m \in Machine, RevokeClose(m) PROVE TypeOK'
    <2>1. UserType'
      BY <1>t, <1>22
      DEF RevokeClose, UserType, Unpaired, Kinds, rowVars, connVars, userVars, pageVars,
          Invalidated, Listed, SocketsAfterClosing
    <2>2. ConnType'
      BY <1>t, <1>22
      DEF RevokeClose, ConnType, Connection, rowVars, connVars, userVars, pageVars,
          Invalidated, Listed, SocketsAfterClosing
    <2>3. PageType'
      BY <1>t, <1>22
      DEF RevokeClose, PageType, Shown, rowVars, connVars, userVars, pageVars, Invalidated,
          Listed, SocketsAfterClosing
    <2> QED
      BY <1>t, <1>22, <2>1, <2>2, <2>3, TypeKept DEF TypeOK, RevokeClose
  <1>23. ASSUME NEW m \in Machine, Delete(m) PROVE TypeOK'
    <2>1. UserType'
      BY <1>t, <1>23
      DEF Delete, UserType, Unpaired, Kinds, rowVars, connVars, userVars, pageVars
    <2> QED
      BY <1>t, <1>23, <2>1, TypeKept DEF TypeOK, Delete
  <1>24. ASSUME NEW m \in Machine, PurgeLock(m) PROVE TypeOK'
    <2>1. UserType'
      BY <1>t, <1>24
      DEF PurgeLock, UserType, Unpaired, Kinds, rowVars, connVars, userVars, pageVars
    <2> QED
      BY <1>t, <1>24, <2>1, TypeKept DEF TypeOK, PurgeLock
  <1>25. ASSUME NEW m \in Machine, PurgeChildren(m) PROVE TypeOK'
    <2>1. UserType'
      <3>1. \A k \in Kinds : Doomed(m, k) \subseteq Kinds
        BY <1>t DEF UserType, Doomed
      <3> QED
        BY <1>t, <1>25, <3>1 DEF PurgeChildren, UserType, Kinds
    <2> QED
      BY <1>t, <1>25, <2>1, TypeKept DEF TypeOK, PurgeChildren
  <1>26. ASSUME NEW m \in Machine, PurgeDevice(m) PROVE TypeOK'
    <2>1. RowType'
      BY <1>t, <1>26
      DEF PurgeDevice, RowType, Statuses, Live, Kinds, Rows, rowVars, connVars, userVars,
          pageVars
    <2>2. UserType'
      BY <1>t, <1>26
      DEF PurgeDevice, UserType, Unpaired, Kinds, rowVars, connVars, userVars, pageVars
    <2> QED
      BY <1>t, <1>26, <2>1, <2>2, TypeKept DEF TypeOK, PurgeDevice
  <1>27. ASSUME NEW m \in Machine, PurgeClose(m) PROVE TypeOK'
    <2>1. UserType'
      BY <1>t, <1>27
      DEF PurgeClose, UserType, Unpaired, Kinds, rowVars, connVars, userVars, pageVars,
          Invalidated, Listed, SocketsAfterClosing
    <2>2. ConnType'
      BY <1>t, <1>27
      DEF PurgeClose, ConnType, Connection, rowVars, connVars, userVars, pageVars, Invalidated,
          Listed, SocketsAfterClosing
    <2>3. PageType'
      BY <1>t, <1>27
      DEF PurgeClose, PageType, Shown, rowVars, connVars, userVars, pageVars, Invalidated,
          Listed, SocketsAfterClosing
    <2> QED
      BY <1>t, <1>27, <2>1, <2>2, <2>3, TypeKept DEF TypeOK, PurgeClose
  <1>28. CASE Cleanup
    <2>1. RowType'
      BY <1>t, <1>28
      DEF Cleanup, RowType, Statuses, Live, Kinds, Rows, rowVars, connVars, userVars, pageVars
    <2> QED
      BY <1>t, <1>28, <2>1, TypeKept DEF TypeOK, Cleanup
  <1>29. CASE Restart
    <2>1. RowType'
      BY <1>t, <1>29
      DEF Restart, RowType, Statuses, Live, Kinds, Rows, rowVars, connVars, userVars, pageVars,
          StatusAfterStart, ChildAfterCrash, Unpaired
    <2>2. ConnType'
      <3>1. conn' \in [Conn -> Connection]
        BY <1>d, <1>29, ClosedRecord DEF Restart
      <3>2. attached' \in [Machine -> Conn \cup {NoConn}]
        BY <1>t, <1>29 DEF Restart, ConnType, StatusAfterStart, ChildAfterCrash, Unpaired
      <3>3. \A d \in Conn : conn'[d].socket # "idle" \/ conn'[d].write \/ conn'[d].status =>
              conn'[d].machine \in Machine
        <4> TAKE d \in Conn
        <4>1. conn'[d] = IF conn[d].socket = "idle" THEN conn[d]
                ELSE [conn[d] EXCEPT !.socket = "closed", !.hello = FALSE, !.write = FALSE,
                                     !.first = FALSE, !.since = {}, !.status = FALSE]
          BY <1>29 DEF Restart
        <4>2. CASE conn[d].socket = "idle"
          BY <1>t, <4>1, <4>2 DEF ConnType
        <4>3. CASE conn[d].socket # "idle"
          <5>1. conn[d] \in Connection
            BY <1>d
          <5>2. conn'[d].machine = conn[d].machine
            BY <4>1, <4>3, <5>1 DEF Connection
          <5> QED
            BY <1>t, <4>3, <5>2 DEF ConnType
        <4> QED
          BY <4>2, <4>3
      <3>4. ASSUME NEW n \in Machine, attached'[n] # NoConn
            PROVE  /\ conn'[attached'[n]].machine = n
                   /\ conn'[attached'[n]].hello
                   /\ conn'[attached'[n]].socket \in {"open", "closing"}
        BY <1>t, <1>29, <3>4
        DEF Restart, ConnType, Connection, StatusAfterStart, ChildAfterCrash, Unpaired
      <3>5. closers' \subseteq {d \in Conn : conn'[d].socket = "closed"}
        BY <1>t, <1>29
        DEF Restart, ConnType, Connection, StatusAfterStart, ChildAfterCrash, Unpaired
      <3> QED
        BY <3>1, <3>2, <3>3, <3>4, <3>5 DEF ConnType
    <2>3. UserType'
      BY <1>t, <1>29
      DEF Restart, UserType, Unpaired, Kinds, rowVars, connVars, userVars, pageVars,
          StatusAfterStart, ChildAfterCrash
    <2> QED
      BY <1>t, <1>29, <2>1, <2>2, <2>3, TypeKept DEF TypeOK, Restart
  <1>30. CASE UNCHANGED vars
    BY <1>t, <1>30, TypeKept DEF vars, TypeOK
  <1> QED
    BY <1>1, <1>2, <1>3, <1>4, <1>5, <1>6, <1>7, <1>8, <1>9, <1>10, <1>11, <1>12, <1>13, <1>14,
        <1>15,
       <1>16, <1>17, <1>18, <1>19, <1>20, <1>21, <1>22, <1>23, <1>24, <1>25, <1>26, <1>27, <1>28,
       <1>29, <1>30 DEF Next

-----------------------------------------------------------------------------
(* The life of a device's row                                              *)

\* A machine's device exists from its claim on, and the code it claimed is used.
PairInv ==
  \A m \in Machine :
    /\ device[m] # "none" <=> pairing[m].at \in {"reply", "paired", "lost"}
    /\ pairing[m].at # "idle" => pairing[m].code \in Code
    /\ device[m] # "none" => code[pairing[m].code] = "used"

\* What the list says of the device is not ahead of its row.
Behind(m, listed) ==
  /\ listed # "none" => device[m] # "none"
  /\ listed = "revoked" => device[m] \in {"revoked", "gone"}

\* What the page shows, the requests it makes of that and the transaction that
\* deletes the device agree with the row.
Seen(m) ==
  /\ Behind(m, shown[m])
  /\ fetch # NoFetch => Behind(m, fetch[m])
  /\ revoke[m] # "idle" => device[m] # "none"
  /\ purge[m].at = "asked" => device[m] \in {"revoked", "gone"}
  /\ Locked(m) => device[m] = "revoked"
  /\ purge[m].at = "close" => device[m] = "gone"
  /\ m \in removed => /\ device[m] = "gone"
                      /\ shown[m] = "none"
                      /\ fetch # NoFetch => fetch[m] = "none"

SeenInv == \A m \in Machine : Seen(m)

\* No step takes a device's status back.
LEMMA StatusAdvances ==
  ASSUME TypeOK, PairInv, SeenInv, [Next]_vars, NEW m \in Machine
  PROVE  Advances(m)
  <1> USE DEF Advances, Live
  <1>t. device \in [Machine -> Statuses]
    BY DEF TypeOK, RowType
  <1>1. ASSUME NEW n \in Machine, PairClaim(n) PROVE Advances(m)
    BY <1>t, <1>1 DEF PairClaim, PairInv
  <1>2. ASSUME NEW c \in Conn, updateConnectedDevice(c) PROVE Advances(m)
    BY <1>t, <1>2 DEF updateConnectedDevice, Writable
  <1>3. ASSUME NEW c \in Conn, MarkOffline(c) PROVE Advances(m)
    BY <1>t, <1>3 DEF MarkOffline, Writable
  <1>4. ASSUME NEW n \in Machine, RevokeCommit(n) PROVE Advances(m)
    BY <1>t, <1>4 DEF RevokeCommit, SeenInv, Seen
  <1>5. ASSUME NEW n \in Machine, PurgeDevice(n) PROVE Advances(m)
    BY <1>t, <1>5 DEF PurgeDevice, SeenInv, Seen, Locked
  <1>6. CASE Restart
    BY <1>t, <1>6 DEF Restart, StatusAfterStart
  <1>7. CASE UNCHANGED device
    BY <1>7
  <1> QED
    BY <1>1, <1>2, <1>3, <1>4, <1>5, <1>6, <1>7
    DEF Next, vars, rowVars, GenerateCode, Expire, PairRead, Pair, Authenticate, Accept, Hello,
        Heartbeat, Status, Close, Ask, Insert, Validated, Refetch, Fetched, Rename, Revoke,
        RevokeClose, Delete, PurgeLock, PurgeChildren, PurgeClose, Cleanup

\* Every step keeps PairInv.
LEMMA PairStep == TypeOK /\ PairInv /\ SeenInv /\ [Next]_vars => PairInv'
  <1> SUFFICES ASSUME TypeOK, PairInv, SeenInv, [Next]_vars PROVE PairInv'
    OBVIOUS
  <1> USE DEF PairInv
  <1>t. /\ device \in [Machine -> Statuses]
        /\ pairing \in [Machine -> [at : {"idle", "claim", "reply", "paired", "lost"},
                                    code : Code \cup {NoCode}]]
        /\ code \in [Code -> {"none", "fresh", "used", "expired"}]
    BY DEF TypeOK, RowType, UserType
  <1>1. ASSUME NEW k \in Code, GenerateCode(k) PROVE PairInv'
    BY <1>t, <1>1 DEF GenerateCode
  <1>2. ASSUME NEW k \in Code, Expire(k) PROVE PairInv'
    BY <1>t, <1>2 DEF Expire
  <1>3. ASSUME NEW m \in Machine, NEW k \in Code, PairRead(m, k) PROVE PairInv'
    BY <1>t, <1>3 DEF PairRead, rowVars
  <1>4. ASSUME NEW m \in Machine, PairClaim(m) PROVE PairInv'
    <2>1. CASE Claimable(pairing[m].code)
      BY <1>t, <1>4, <2>1 DEF PairClaim, Claimable
    <2>2. CASE ~Claimable(pairing[m].code)
      BY <1>t, <1>4, <2>2 DEF PairClaim, Unpaired
    <2> QED
      BY <2>1, <2>2
  <1>5. ASSUME NEW m \in Machine, Pair(m) PROVE PairInv'
    BY <1>t, <1>5 DEF Pair, rowVars
  <1>6. ASSUME NEW c \in Conn, updateConnectedDevice(c) PROVE PairInv'
    BY <1>t, <1>6 DEF updateConnectedDevice, Writable, Live
  <1>7. ASSUME NEW c \in Conn, MarkOffline(c) PROVE PairInv'
    BY <1>t, <1>7 DEF MarkOffline, Writable, Live
  <1>8. ASSUME NEW m \in Machine, RevokeCommit(m) PROVE PairInv'
    BY <1>t, <1>8 DEF RevokeCommit, SeenInv, Seen
  <1>9. ASSUME NEW m \in Machine, PurgeDevice(m) PROVE PairInv'
    BY <1>t, <1>9 DEF PurgeDevice, SeenInv, Seen, Locked
  <1>10. CASE Restart
    BY <1>t, <1>10 DEF Restart, StatusAfterStart, Unpaired
  <1>11. CASE UNCHANGED <<device, pairing, code>>
    BY <1>11
  <1> QED
    BY <1>1, <1>2, <1>3, <1>4, <1>5, <1>6, <1>7, <1>8, <1>9, <1>10, <1>11
    DEF Next, vars, rowVars, Authenticate, Accept, Hello,
        Heartbeat, Status, Close, Ask, Insert, Validated, Refetch, Fetched, Rename, Revoke,
        RevokeClose, Delete, PurgeLock, PurgeChildren, PurgeClose, Cleanup

\* The list that a query reads is not ahead of the rows.
LEMMA ListedBehind ==
  ASSUME NEW m \in Machine
  PROVE  Behind(m, Listed[m]) /\ (device[m] = "gone" => Listed[m] = "none")
  BY DEF Behind, Listed, Live

\* Every step keeps SeenInv.
LEMMA SeenStep == TypeOK /\ PairInv /\ SeenInv /\ [Next]_vars => SeenInv'
  <1> SUFFICES ASSUME TypeOK, PairInv, SeenInv, [Next]_vars, NEW m \in Machine PROVE Seen(m)'
    BY DEF SeenInv
  <1>t. /\ device \in [Machine -> Statuses]
        /\ revoke \in [Machine -> {"idle", "commit", "close"}]
        /\ purge \in [Machine -> [at : {"idle", "asked", "jobs", "repositories", "device", "close"},
                                  doomed : SUBSET Kinds]]
        /\ shown \in [Machine -> Shown]
        /\ fetch \in [Machine -> Shown] \cup {NoFetch}
    BY DEF TypeOK, RowType, UserType, PageType
  <1>a. Advances(m) /\ device[m] \in Statuses
    BY <1>t, StatusAdvances
  <1>s. Seen(m)
    BY DEF SeenInv
  <1>l. Behind(m, Listed[m]) /\ (device[m] = "gone" => Listed[m] = "none")
    BY ListedBehind
  <1> USE DEF Seen, Behind, Locked
  <1>1. CASE Refetch
    BY <1>t, <1>l, <1>s, <1>1 DEF Refetch, rowVars, userVars, pageVars
  <1>2. CASE Fetched
    BY <1>t, <1>s, <1>2 DEF Fetched, rowVars, userVars, pageVars
  <1>3. ASSUME NEW n \in Machine, Revoke(n) PROVE Seen(m)'
    BY <1>t, <1>s, <1>3 DEF Revoke, rowVars, userVars, pageVars
  <1>4. ASSUME NEW n \in Machine, RevokeCommit(n) PROVE Seen(m)'
    BY <1>t, <1>s, <1>4 DEF RevokeCommit, Live, rowVars, userVars, pageVars
  <1>5. ASSUME NEW n \in Machine, RevokeClose(n) PROVE Seen(m)'
    BY <1>t, <1>l, <1>s, <1>5 DEF RevokeClose, Invalidated, rowVars, userVars, pageVars
  <1>6. ASSUME NEW n \in Machine, Delete(n) PROVE Seen(m)'
    BY <1>t, <1>s, <1>6 DEF Delete, DeleteOffered, rowVars, userVars, pageVars
  <1>7. ASSUME NEW n \in Machine, PurgeLock(n) PROVE Seen(m)'
    BY <1>t, <1>s, <1>7 DEF PurgeLock, rowVars, userVars, pageVars
  <1>8. ASSUME NEW n \in Machine, PurgeChildren(n) PROVE Seen(m)'
    BY <1>t, <1>s, <1>8 DEF PurgeChildren, rowVars, userVars, pageVars
  <1>9. ASSUME NEW n \in Machine, PurgeDevice(n) PROVE Seen(m)'
    BY <1>t, <1>s, <1>9 DEF PurgeDevice, rowVars, userVars, pageVars
  <1>10. ASSUME NEW n \in Machine, PurgeClose(n) PROVE Seen(m)'
    BY <1>t, <1>l, <1>s, <1>10 DEF PurgeClose, Invalidated, rowVars, userVars, pageVars
  <1>11. CASE Restart
    BY <1>t, <1>s, <1>11 DEF Restart, StatusAfterStart, rowVars, userVars, pageVars
  <1>12. CASE UNCHANGED <<userVars, pageVars>> /\ (Locked(m) => device'[m] = device[m])
    BY <1>a, <1>s, <1>12 DEF userVars, pageVars, Advances, Live, Statuses
  <1>13. ASSUME NEW n \in Machine, PairClaim(n) PROVE Seen(m)'
    <2>1. UNCHANGED <<userVars, pageVars>>
      BY <1>13 DEF PairClaim
    <2>2. device[m] = "revoked" => device'[m] = device[m]
      BY <1>t, <1>13 DEF PairClaim, PairInv, Claimable
    <2> QED
      BY <1>s, <1>12, <2>1, <2>2
  <1>14. ASSUME NEW c \in Conn, updateConnectedDevice(c) PROVE Seen(m)'
    <2>1. UNCHANGED <<userVars, pageVars>>
      BY <1>14 DEF updateConnectedDevice
    <2>2. device[m] = "revoked" => device'[m] = device[m]
      BY <1>t, <1>14 DEF updateConnectedDevice, Writable, Live
    <2> QED
      BY <1>s, <1>12, <2>1, <2>2
  <1>15. ASSUME NEW c \in Conn, MarkOffline(c) PROVE Seen(m)'
    <2>1. UNCHANGED <<userVars, pageVars>>
      BY <1>15 DEF MarkOffline
    <2>2. device[m] = "revoked" => device'[m] = device[m]
      BY <1>t, <1>15 DEF MarkOffline, Writable, Live
    <2> QED
      BY <1>s, <1>12, <2>1, <2>2
  <1> QED
    BY <1>1, <1>2, <1>3, <1>4, <1>5, <1>6, <1>7, <1>8, <1>9, <1>10, <1>11, <1>12, <1>13, <1>14,
        <1>15
    DEF Next, vars, rowVars, GenerateCode, Expire, PairRead, Pair, Authenticate, Accept, Hello,
        Heartbeat, Status, Close, Ask, Insert, Validated, Rename, Cleanup

\* The invariant holds initially.
LEMMA RowInit == Init => PairInv /\ SeenInv
  BY DEF Init, PairInv, SeenInv, Seen, Behind, Locked, Unpaired

\* The row's life, from pairing to deletion, as the handlers and the page know it.
LEMMA RowCorrect == Spec => [](TypeOK /\ PairInv /\ SeenInv)
  <1>1. Init => TypeOK /\ PairInv /\ SeenInv
    BY TypeInit, RowInit
  <1>2. TypeOK /\ PairInv /\ SeenInv /\ [Next]_vars => (TypeOK /\ PairInv /\ SeenInv)'
    BY TypeStep, PairStep, SeenStep
  <1> QED
    BY <1>1, <1>2, PTL DEF Spec

\* Every reachable state is well typed: rows, connections, requests and the list
\* hold the values the handlers give them.
THEOREM TypeCorrect == Spec => []TypeOK
  BY RowCorrect, PTL

\* A pairing code makes at most one device, for any number of machines that present
\* it at the same time: whoever claims it finds it unused, and leaves it used.
THEOREM PairingCorrect == Spec => []OneDevicePerCode
  <1>1. Init => OneDevicePerCode
    BY DEF Init, OneDevicePerCode
  <1>2. TypeOK /\ PairInv /\ SeenInv /\ OneDevicePerCode /\ [Next]_vars => OneDevicePerCode'
    <2> SUFFICES ASSUME TypeOK, PairInv, SeenInv, OneDevicePerCode, [Next]_vars
                 PROVE  OneDevicePerCode'
      OBVIOUS
    <2> USE DEF OneDevicePerCode
    <2>t. /\ device \in [Machine -> Statuses]
          /\ pairing \in [Machine -> [at : {"idle", "claim", "reply", "paired", "lost"},
                                      code : Code \cup {NoCode}]]
      BY DEF TypeOK, RowType, UserType
    <2>1. ASSUME NEW m \in Machine, PairClaim(m) PROVE OneDevicePerCode'
      BY <2>t, <2>1 DEF PairClaim, Claimable, PairInv
    <2>2. ASSUME NEW m \in Machine, NEW k \in Code, PairRead(m, k) PROVE OneDevicePerCode'
      BY <2>t, <2>2 DEF PairRead, PairInv, rowVars
    <2>3. ASSUME NEW m \in Machine, Pair(m) PROVE OneDevicePerCode'
      BY <2>t, <2>3 DEF Pair, rowVars
    <2>4. CASE Restart
      <3>1. ASSUME NEW m \in Machine, device'[m] # "none"
            PROVE  device[m] # "none" /\ pairing'[m].code = pairing[m].code
        BY <2>t, <2>4, <3>1 DEF Restart, StatusAfterStart, PairInv
      <3> QED
        BY <3>1
    <2>5. CASE UNCHANGED pairing /\ \A m \in Machine : device[m] = "none" => device'[m] = "none"
      BY <2>5
    <2>6. ASSUME NEW c \in Conn, updateConnectedDevice(c) PROVE OneDevicePerCode'
      BY <2>t, <2>5, <2>6 DEF updateConnectedDevice, Writable, Live
    <2>7. ASSUME NEW c \in Conn, MarkOffline(c) PROVE OneDevicePerCode'
      BY <2>t, <2>5, <2>7 DEF MarkOffline, Writable, Live
    <2>8. ASSUME NEW m \in Machine, RevokeCommit(m) PROVE OneDevicePerCode'
      BY <2>t, <2>5, <2>8 DEF RevokeCommit, SeenInv, Seen
    <2>9. ASSUME NEW m \in Machine, PurgeDevice(m) PROVE OneDevicePerCode'
      BY <2>t, <2>5, <2>9 DEF PurgeDevice, SeenInv, Seen, Locked
    <2> QED
      BY <2>1, <2>2, <2>3, <2>4, <2>5, <2>6, <2>7, <2>8, <2>9
      DEF Next, vars, rowVars, GenerateCode, Expire, Authenticate, Accept, Hello, Heartbeat,
          Status, Close, Ask, Insert, Validated, Refetch, Fetched, Rename, Revoke, RevokeClose,
          Delete, PurgeLock, PurgeChildren, PurgeClose, Cleanup
  <1> QED
    BY <1>1, <1>2, RowCorrect, PTL DEF Spec

\* However old the list the page offers them from, its delete button never earns
\* DEVICE_NOT_REVOKED, for no late write of an agent makes a revoked row live; and a
\* device it was told is deleted is never listed again, for a list that was read
\* before the deletion is cancelled with the invalidation that follows it.
THEOREM DeletionCorrect == Spec => []StaleListHarmless
  <1>1. SeenInv => DeleteNeverPremature
    BY DEF SeenInv, Seen, DeleteNeverPremature
  <1>2. TypeOK /\ SeenInv => DeletedStaysHidden
    BY DEF TypeOK, PageType, SeenInv, Seen, DeletedStaysHidden
  <1>3. TypeOK /\ SeenInv => StaleListHarmless
    BY <1>1, <1>2 DEF StaleListHarmless
  <1> QED
    BY <1>3, RowCorrect, PTL

\* A row once revoked is never live again, and one deleted never comes back: the
\* conditions of the agents' updates hold whatever they overlap.
THEOREM RevocationCorrect == Spec => RevocationFinal
  <1>1. TypeOK /\ PairInv /\ SeenInv /\ [Next]_vars => [\A m \in Machine : Advances(m)]_vars
    BY StatusAdvances
  <1> QED
    BY <1>1, RowCorrect, PTL DEF Spec, RevocationFinal

-----------------------------------------------------------------------------
(* Deletion of what refers to a device                                     *)

\* While the lock is held no row comes to a kind whose rows were deleted.
LockInv ==
  \A m \in Machine :
    /\ purge[m].at \in {"repositories", "device"} =>
         (child[m]["job"] \in Rows => "job" \in purge[m].doomed)
    /\ purge[m].at = "device" =>
         (child[m]["repository"] \in Rows => "repository" \in purge[m].doomed)

\* Every step keeps LockInv.
LEMMA LockStep == TypeOK /\ LockInv /\ [Next]_vars => LockInv'
  <1> SUFFICES ASSUME TypeOK, LockInv, [Next]_vars PROVE LockInv'
    OBVIOUS
  <1>t. /\ child \in [Machine -> [Kinds -> Rows \cup {"none", "asked"}]]
        /\ purge \in [Machine -> [at : {"idle", "asked", "jobs", "repositories", "device", "close"},
                                  doomed : SUBSET Kinds]]
    BY DEF TypeOK, RowType, UserType
  <1> USE DEF LockInv, Kinds, Rows
  <1>1. ASSUME NEW m \in Machine, NEW kind \in Kinds, Ask(m, kind) PROVE LockInv'
    BY <1>t, <1>1 DEF Ask, userVars
  <1>2. ASSUME NEW m \in Machine, NEW kind \in Kinds, Insert(m, kind) PROVE LockInv'
    BY <1>t, <1>2 DEF Insert, Locked, userVars
  <1>3. ASSUME NEW m \in Machine, Validated(m) PROVE LockInv'
    BY <1>t, <1>3 DEF Validated, Locked, userVars
  <1>4. ASSUME NEW m \in Machine, Delete(m) PROVE LockInv'
    BY <1>t, <1>4 DEF Delete, rowVars
  <1>5. ASSUME NEW m \in Machine, PurgeLock(m) PROVE LockInv'
    BY <1>t, <1>5 DEF PurgeLock, rowVars
  <1>6. ASSUME NEW m \in Machine, PurgeChildren(m) PROVE LockInv'
    BY <1>t, <1>6 DEF PurgeChildren, Doomed, rowVars
  <1>7. ASSUME NEW m \in Machine, PurgeDevice(m) PROVE LockInv'
    BY <1>t, <1>7 DEF PurgeDevice
  <1>8. ASSUME NEW m \in Machine, PurgeClose(m) PROVE LockInv'
    BY <1>t, <1>8 DEF PurgeClose, rowVars
  <1>9. CASE Cleanup
    BY <1>t, <1>9 DEF Cleanup, Locked, userVars
  <1>10. CASE Restart
    BY <1>t, <1>10 DEF Restart
  <1>11. CASE UNCHANGED <<child, purge>>
    BY <1>11
  <1> QED
    BY <1>1, <1>2, <1>3, <1>4, <1>5, <1>6, <1>7, <1>8, <1>9, <1>10, <1>11
    DEF Next, vars, rowVars, userVars, GenerateCode, Expire, PairRead, PairClaim, Pair,
        Authenticate, Accept, Hello, Heartbeat, Status, updateConnectedDevice, Close,
        MarkOffline, Refetch, Fetched, Rename, Revoke, RevokeCommit, RevokeClose

\* When the device's row is deleted nothing refers to it any more, whatever was
\* asked for before the revocation and inserted after it.
THEOREM PurgeCorrect == Spec => []PurgeUnhindered
  <1>1. Init => LockInv
    BY DEF Init, LockInv
  <1>2. TypeOK /\ LockInv /\ [Next]_vars => LockInv'
    BY LockStep
  <1>3. LockInv => PurgeUnhindered
    BY DEF LockInv, PurgeUnhindered, Kinds
  <1> QED
    BY <1>1, <1>2, <1>3, TypeCorrect, PTL DEF Spec

-----------------------------------------------------------------------------
(* Devices that are online                                                 *)

\* Connections that are closed, whether or not their close handler is through.
ClosedConns == {c \in Conn : conn[c].socket = "closed"}

\* The close handler of an agent whose device is online and that nobody vouches
\* for is still to run, and will find the row older than its disconnection.
Owed(m) ==
  device[m] = "online" /\ attached[m] = NoConn /\ m \notin late =>
    \E c \in closers : conn[c].machine = m /\ c \notin newer[m]

\* A write counts only connections that were closed when it was issued.
OwedInv ==
  /\ \A m \in Machine : newer[m] \subseteq ClosedConns
  /\ \A c \in Conn : conn[c].since \subseteq ClosedConns
  /\ \A m \in Machine : Owed(m)

\* A step that leaves the rows' life and the connections' sockets alone.
LEMMA OwedKept ==
  ASSUME OwedInv, UNCHANGED <<newer, attached, late, closers>>,
         \A m \in Machine : device'[m] = "online" => device[m] = "online",
         \A c \in Conn : /\ conn'[c].machine = conn[c].machine
                         /\ conn[c].socket = "closed" => conn'[c].socket = "closed"
                         /\ conn'[c].since \in {conn[c].since, {}, closers},
         closers \subseteq ClosedConns
  PROVE  OwedInv'
  <1>1. ClosedConns \subseteq ClosedConns'
    BY DEF ClosedConns
  <1>2. \A m \in Machine : newer'[m] \subseteq ClosedConns'
    BY <1>1 DEF OwedInv
  <1>3. \A c \in Conn : conn'[c].since \subseteq ClosedConns'
    BY <1>1 DEF OwedInv
  <1>4. \A m \in Machine : Owed(m)'
    BY DEF OwedInv, Owed, ClosedConns
  <1> QED
    BY <1>2, <1>3, <1>4 DEF OwedInv

\* Every step keeps OwedInv.
LEMMA OwedStep == TypeOK /\ TypeOK' /\ PairInv /\ OwedInv /\ [Next]_vars => OwedInv'
  <1> SUFFICES ASSUME TypeOK, TypeOK', PairInv, OwedInv, [Next]_vars PROVE OwedInv'
    OBVIOUS
  <1>t. /\ device \in [Machine -> Statuses]
        /\ newer \in [Machine -> SUBSET Conn]
        /\ conn \in [Conn -> Connection]
        /\ conn' \in [Conn -> Connection]
        /\ attached \in [Machine -> Conn \cup {NoConn}]
        /\ closers \subseteq ClosedConns
    BY DEF TypeOK, RowType, ConnType, ClosedConns
  <1>w. ConnType
    BY DEF TypeOK
  <1>1. ASSUME NEW c \in Conn, NEW m \in Machine, Authenticate(c, m) PROVE OwedInv'
    <2>1. ClosedConns' = ClosedConns /\ \A d \in closers : conn'[d] = conn[d]
      BY <1>t, <1>1 DEF Authenticate, Connection, ClosedConns
    <2>2. \A d \in Conn : conn'[d].since = conn[d].since
      BY <1>t, <1>1 DEF Authenticate, Connection
    <2>3. \A n \in Machine : Owed(n)'
      BY <1>t, <1>1, <2>1 DEF Authenticate, OwedInv, Owed, rowVars
    <2> QED
      BY <1>1, <2>1, <2>2, <2>3 DEF Authenticate, OwedInv, rowVars
  <1>2. ASSUME NEW c \in Conn, Accept(c) PROVE OwedInv'
    <2>1. \A d \in Conn : /\ conn'[d].machine = conn[d].machine
                          /\ conn[d].socket = "closed" => conn'[d].socket = "closed"
                          /\ conn'[d].since \in {conn[d].since, {}, closers}
      BY <1>t, <1>w, <1>2 DEF Accept, Connection
    <2> QED
      BY <1>t, <1>2, <2>1, OwedKept DEF Accept, rowVars
  <1>3. ASSUME NEW c \in Conn, Hello(c) PROVE OwedInv'
    <2> DEFINE m == conn[c].machine
    <2>1. m \in Machine /\ attached' = [attached EXCEPT ![m] = c] /\ c # NoConn
      BY <1>w, <1>3, DevicesAssumption DEF Hello, ConnType
    <2>2. SocketsAfterClosing(m) \in [Conn -> Connection]
      BY <1>w, <2>1, ClosingType
    <2>3. \A d \in Conn : /\ conn'[d].machine = SocketsAfterClosing(m)[d].machine
                          /\ conn'[d].socket = SocketsAfterClosing(m)[d].socket
                          /\ conn'[d].since \in {SocketsAfterClosing(m)[d].since, closers}
      BY <1>3, <2>2 DEF Hello, Connection
    <2>4. \A d \in Conn : SocketsAfterClosing(m)[d].since = conn[d].since
      BY <1>t, <1>w, <2>1 DEF SocketsAfterClosing, Connection, ConnType
    <2>5. ClosedConns \subseteq ClosedConns'
      <3>1. ASSUME NEW d \in Conn, conn[d].socket = "closed"
            PROVE  SocketsAfterClosing(m)[d] = conn[d]
        <4>1. attached[m] = NoConn \/ attached[m] # d
          BY <1>w, <2>1, <3>1 DEF ConnType
        <4> QED
          BY <1>t, <2>1, <4>1 DEF SocketsAfterClosing
      <3> QED
        BY <2>3, <3>1 DEF ClosedConns
    <2>6. \A n \in Machine : Owed(n)'
      BY <1>t, <1>w, <1>3, <2>1, <2>3, ClosingFields
      DEF Hello, OwedInv, Owed, rowVars, ClosedConns
    <2>7. \A d \in Conn : conn'[d].since \subseteq ClosedConns'
      BY <1>t, <2>3, <2>4, <2>5 DEF OwedInv
    <2> QED
      BY <1>3, <2>5, <2>6, <2>7 DEF Hello, OwedInv, rowVars
  <1>4. ASSUME NEW c \in Conn, Heartbeat(c) PROVE OwedInv'
    <2>1. \A d \in Conn : /\ conn'[d].machine = conn[d].machine
                          /\ conn[d].socket = "closed" => conn'[d].socket = "closed"
                          /\ conn'[d].since \in {conn[d].since, {}, closers}
      BY <1>t, <1>w, <1>4 DEF Heartbeat, Connection
    <2> QED
      BY <1>t, <1>4, <2>1, OwedKept DEF Heartbeat, rowVars
  <1>5. ASSUME NEW c \in Conn, Status(c) PROVE OwedInv'
    <2>1. \A d \in Conn : /\ conn'[d].machine = conn[d].machine
                          /\ conn[d].socket = "closed" => conn'[d].socket = "closed"
                          /\ conn'[d].since \in {conn[d].since, {}, closers}
      BY <1>t, <1>w, <1>5 DEF Status, Connection
    <2> QED
      BY <1>t, <1>5, <2>1, OwedKept DEF Status, rowVars
  <1>6. ASSUME NEW c \in Conn, updateConnectedDevice(c) PROVE OwedInv'
    <2> DEFINE m == conn[c].machine
    <2>1. /\ m \in Machine
          /\ UNCHANGED <<attached, closers>>
          /\ device' = IF Writable(m) THEN [device EXCEPT ![m] = "online"] ELSE device
          /\ newer' = IF Writable(m) THEN [newer EXCEPT ![m] = conn[c].since] ELSE newer
          /\ late' = IF ~Writable(m) THEN late
                     ELSE IF attached[m] # c THEN late \cup {m} ELSE late \ {m}
      BY <1>w, <1>6 DEF updateConnectedDevice, ConnType
    <2>2. \A d \in Conn : /\ conn'[d].machine = conn[d].machine
                          /\ conn[d].socket = "closed" => conn'[d].socket = "closed"
                          /\ conn'[d].since \in {conn[d].since, {}}
      BY <1>t, <1>6 DEF updateConnectedDevice, Connection
    <2>3. ClosedConns \subseteq ClosedConns'
      BY <2>2 DEF ClosedConns
    <2>4. \A n \in Machine : newer'[n] \subseteq ClosedConns'
      BY <1>t, <2>1, <2>3 DEF OwedInv
    <2>5. \A d \in Conn : conn'[d].since \subseteq ClosedConns'
      BY <2>2, <2>3 DEF OwedInv
    <2>6. ASSUME NEW n \in Machine PROVE Owed(n)'
      <3>1. CASE n = m /\ Writable(m)
        BY <2>1, <3>1, DevicesAssumption DEF Owed
      <3>2. CASE ~(n = m /\ Writable(m))
        <4>1. device'[n] = device[n] /\ newer'[n] = newer[n] /\ (n \in late' <=> n \in late)
          BY <1>t, <2>1, <3>2
        <4>2. Owed(n)
          BY DEF OwedInv
        <4>3. /\ attached'[n] = attached[n] /\ closers' = closers
              /\ \A d \in closers : conn'[d].machine = conn[d].machine
          BY <1>t, <2>1, <2>2 DEF ClosedConns
        <4> QED
          BY <4>1, <4>2, <4>3 DEF Owed
      <3> QED
        BY <3>1, <3>2
    <2> QED
      BY <2>4, <2>5, <2>6 DEF OwedInv
  <1>7. ASSUME NEW c \in Conn, Close(c) PROVE OwedInv'
    <2> DEFINE m == conn[c].machine
    <2>1. \A d \in Conn : /\ conn'[d].machine = conn[d].machine
                          /\ conn'[d].socket = IF d = c THEN "closed" ELSE conn[d].socket
                          /\ conn'[d].since = conn[d].since
      BY <1>t, <1>7 DEF Close, Connection
    <2>2. ClosedConns' = ClosedConns \cup {c} /\ c \notin ClosedConns
      BY <1>7, <2>1 DEF Close, ClosedConns
    <2>3. ASSUME NEW n \in Machine PROVE Owed(n)'
      <3>1. CASE attached[n] = c
        <4>1. conn[c].hello /\ m = n
          BY <1>w, <1>7, <3>1, DevicesAssumption DEF ConnType
        <4>2. c \in closers' /\ c \notin newer'[n]
          BY <1>7, <2>2, <3>1, <4>1 DEF Close, OwedInv, rowVars
        <4> QED
          BY <2>1, <4>1, <4>2 DEF Owed
      <3>2. CASE attached[n] # c
        <4>1. attached'[n] = attached[n] /\ closers \subseteq closers'
          BY <1>t, <1>7, <3>2 DEF Close
        <4> QED
          BY <1>t, <1>7, <2>1, <4>1 DEF Close, OwedInv, Owed, rowVars, ClosedConns
      <3> QED
        BY <3>1, <3>2
    <2> QED
      BY <1>7, <2>1, <2>2, <2>3 DEF Close, OwedInv, rowVars
  <1>8. ASSUME NEW c \in Conn, MarkOffline(c) PROVE OwedInv'
    <2> DEFINE m == conn[c].machine
    <2>1. \A d \in Conn : /\ conn'[d].machine = conn[d].machine
                          /\ conn'[d].socket = conn[d].socket
                          /\ conn'[d].since = conn[d].since \ {c}
      BY <1>t, <1>8 DEF MarkOffline, Connection
    <2>2. ClosedConns' = ClosedConns
      BY <2>1 DEF ClosedConns
    <2>3. m \in Machine /\ closers' = closers \ {c} /\ attached' = attached
      BY <1>t, <1>w, <1>8 DEF MarkOffline, ConnType, ClosedConns
    <2>4. \A n \in Machine : newer'[n] \subseteq ClosedConns
      BY <1>t, <1>8, <2>3 DEF MarkOffline, OwedInv
    <2>5. ASSUME NEW n \in Machine PROVE Owed(n)'
      <3>1. CASE Writable(m) /\ c \notin newer[m]
        <4>1. /\ device' = [device EXCEPT ![m] = "offline"]
              /\ newer' = [newer EXCEPT ![m] = closers \ {c}]
              /\ late' = late \ {m}
          BY <1>8, <3>1 DEF MarkOffline
        <4>2. CASE n = m
          BY <1>t, <2>3, <4>1, <4>2 DEF Owed
        <4>3. CASE n # m
          <5>1. device'[n] = device[n] /\ newer'[n] = newer[n] /\ (n \in late' <=> n \in late)
            BY <1>t, <2>3, <4>1, <4>3
          <5>2. Owed(n)
            BY DEF OwedInv
          <5>3. \A d \in closers : conn[d].machine = n => d \in closers' /\ conn'[d].machine = n
            BY <1>t, <2>1, <2>3, <4>3 DEF ClosedConns
          <5> QED
            BY <2>3, <5>1, <5>2, <5>3 DEF Owed
        <4> QED
          BY <4>2, <4>3
      <3>2. CASE ~(Writable(m) /\ c \notin newer[m])
        <4>1. device' = device /\ late' = late /\ newer' = [newer EXCEPT ![m] = @ \ {c}]
          BY <1>8, <3>2 DEF MarkOffline
        <4> QED
          BY <1>t, <2>1, <2>3, <3>2, <4>1 DEF OwedInv, Owed, ClosedConns, Writable, Live
      <3> QED
        BY <3>1, <3>2
    <2> QED
      BY <2>1, <2>2, <2>4, <2>5 DEF OwedInv
  <1>9. ASSUME NEW m \in Machine, Rename(m) PROVE OwedInv'
    <2>1. ClosedConns' = ClosedConns /\ newer' = [newer EXCEPT ![m] = closers]
      BY <1>9 DEF Rename, connVars, ClosedConns
    <2>2. \A n \in Machine : Owed(n)'
      BY <1>t, <1>9, <2>1 DEF Rename, connVars, OwedInv, Owed
    <2> QED
      BY <1>t, <1>9, <2>1, <2>2 DEF Rename, connVars, OwedInv
  <1>10. ASSUME NEW m \in Machine, RevokeCommit(m) PROVE OwedInv'
    <2>1. ClosedConns' = ClosedConns
      BY <1>10 DEF RevokeCommit, connVars, ClosedConns
    <2>2. \A n \in Machine : Owed(n)'
      BY <1>t, <1>10 DEF RevokeCommit, connVars, OwedInv, Owed
    <2> QED
      BY <1>t, <1>10, <2>1, <2>2 DEF RevokeCommit, connVars, OwedInv
  <1>11. ASSUME NEW m \in Machine, RevokeClose(m) \/ PurgeClose(m) PROVE OwedInv'
    <2>1. conn' = SocketsAfterClosing(m) /\ UNCHANGED <<device, newer, attached, late, closers>>
      BY <1>11 DEF RevokeClose, PurgeClose, rowVars
    <2>2. \A d \in Conn : /\ conn'[d].machine = conn[d].machine
                          /\ conn[d].socket = "closed" => conn'[d].socket = "closed"
                          /\ conn'[d].since = conn[d].since
      BY <1>t, <1>w, <2>1 DEF SocketsAfterClosing, Connection, ConnType
    <2> QED
      BY <1>t, <2>1, <2>2, OwedKept
  <1>12. CASE Restart
    <2>1. \A m \in Machine : newer'[m] = {} /\ device'[m] # "online"
      BY <1>t, <1>12 DEF Restart, StatusAfterStart, Statuses, Live
    <2>2. ASSUME NEW d \in Conn PROVE conn'[d].since \subseteq ClosedConns'
      <3>1. CASE conn[d].socket = "idle"
        <4>1. conn'[d] = conn[d]
          BY <1>12, <3>1 DEF Restart
        <4>2. ASSUME NEW x \in Conn, conn[x].socket = "closed" PROVE conn'[x].socket = "closed"
          <5>1. conn[x] \in Connection
            BY <1>t
          <5> QED
            BY <1>12, <4>2, <5>1 DEF Restart, Connection
        <4> QED
          BY <4>1, <4>2 DEF OwedInv, ClosedConns
      <3>2. CASE conn[d].socket # "idle"
        <4>1. conn[d] \in Connection
          BY <1>t
        <4>2. conn'[d].since = {}
          BY <1>12, <3>2, <4>1 DEF Restart, Connection
        <4> QED
          BY <4>2
      <3> QED
        BY <3>1, <3>2
    <2> QED
      BY <2>1, <2>2 DEF OwedInv, Owed
  <1>13. ASSUME NEW m \in Machine, PairClaim(m) \/ PurgeDevice(m) PROVE OwedInv'
    <2>1. UNCHANGED <<newer, attached, late, closers, conn>>
      BY <1>13 DEF PairClaim, PurgeDevice, connVars
    <2>2. \A n \in Machine : device'[n] = "online" => device[n] = "online"
      BY <1>t, <1>13 DEF PairClaim, PurgeDevice
    <2> QED
      BY <1>t, <2>1, <2>2, OwedKept
  <1>14. CASE UNCHANGED <<device, newer, attached, late, closers, conn>>
    BY <1>t, <1>14, OwedKept
  <1> QED
    BY <1>1, <1>2, <1>3, <1>4, <1>5, <1>6, <1>7, <1>8, <1>9, <1>10, <1>11, <1>12, <1>13, <1>14
    DEF Next, vars, rowVars, connVars, GenerateCode, Expire, PairRead, Pair, Ask, Insert,
        Validated, Refetch,
        Fetched, Revoke, Delete, PurgeLock, PurgeChildren, Cleanup

\* A row that says online has an agent attached once its writes are through, unless
\* a handler that outlived its connection or a renaming wrote it last: no race of
\* hello, heartbeat and close handlers leaves another trace.
THEOREM OnlineCorrect == Spec => []OnlineVouched
  <1>1. Init => OwedInv
    BY DEF Init, OwedInv, Owed, ClosedConns
  <1>2. TypeOK /\ TypeOK' /\ PairInv /\ OwedInv /\ [Next]_vars => OwedInv'
    BY OwedStep
  <1>3. TypeOK /\ OwedInv => OnlineVouched
    BY DEF TypeOK, ConnType, OwedInv, Owed, OnlineVouched, Settled
  <1> QED
    BY <1>1, <1>2, <1>3, RowCorrect, PTL DEF Spec
=============================================================================
