-------------------------- MODULE JobTerminal_proofs --------------------------
(***************************************************************************)
(* Theorems about JobTerminal, for any number of sockets, page loads,      *)
(* keystrokes and events: types, the order of the input, the window's one  *)
(* socket, and the size the terminal ends up with.                         *)
(***************************************************************************)
EXTENDS JobTerminal, SequenceTheorems, TLAPS

-----------------------------------------------------------------------------
(* Type correctness                                                        *)

\* The initial state is well typed.
LEMMA TypeInit == Init => TypeOK
  <1> SUFFICES ASSUME Init PROVE TypeOK
    OBVIOUS
  <1> USE TerminalAssumption DEF Init
  <1>1. AgentType
    BY DEF AgentType
  <1>2. WireType
    BY DEF WireType, Statuses, Active, Running
  <1>3. HandlerType /\ SocketType
    BY DEF HandlerType, SocketType, SocketRecord, Gone, Connected
  <1>4. PageType
    BY DEF PageType
  <1> QED
    BY <1>1, <1>2, <1>3, <1>4 DEF TypeOK

\* A part of the state that a step leaves alone stays well typed.
LEMMA TypeKept ==
  /\ AgentType /\ UNCHANGED agentVars => AgentType'
  /\ WireType /\ UNCHANGED <<serverVars, chain, down>> => WireType'
  /\ SocketType /\ UNCHANGED <<sock, ref, mount>> => SocketType'
  /\ PageType /\ UNCHANGED <<pageVars, inputs>> => PageType'
  BY DEF AgentType, WireType, SocketType, PageType, agentVars, serverVars, pageVars

\* A socket goes from one state to another.
LEMMA StateType ==
  ASSUME sock \in [Socket -> SocketRecord], NEW s \in Socket,
         NEW state \in Connected \cup {"closing", "closed"},
         sock' = [sock EXCEPT ![s].state = state]
  PROVE  /\ sock' \in [Socket -> SocketRecord]
         /\ \A x \in Socket : /\ sock'[x].current <=> sock[x].current
                              /\ sock'[x].state = IF x = s THEN state ELSE sock[x].state
  BY DEF SocketRecord

\* A frame at the end of what a socket carries, and one less at its head.
LEMMA QueueType ==
  ASSUME NEW S, NEW f \in [Socket -> Seq(S)], NEW s \in Socket
  PROVE  /\ \A x \in S : [f EXCEPT ![s] = Append(@, x)] \in [Socket -> Seq(S)]
         /\ f[s] # <<>> => [f EXCEPT ![s] = Tail(@)] \in [Socket -> Seq(S)]
         /\ \A q \in Seq(S) : [f EXCEPT ![s] = q] \in [Socket -> Seq(S)]
  OBVIOUS

\* What the page sends is a frame at the end of the chain of the open socket.
LEMMA SentType ==
  ASSUME WireType, SocketType, NEW frame \in Frames
  PROVE  Sent(frame) \in [Socket -> Seq(Frames)]
  BY QueueType DEF Sent, WireType, SocketType

\* The sockets that an effect leaves behind are closed or being closed.
LEMMA DisposedType ==
  ASSUME SocketType
  PROVE  /\ Disposed \in [Socket -> SocketRecord]
         /\ \A s \in Socket : /\ ~ Disposed[s].current
                              /\ Disposed[s].state # "closed" => sock[s].state # "closed"
                              /\ Disposed[s].state \in Connected => sock[s].state \in Connected /\ s # ref
                              /\ Disposed[s].state = "open" => sock[s].state = "open" /\ s # ref
  BY DEF SocketType, Disposed, SocketRecord, Connected

\* connect() leaves ref with a socket of the effect: the new one, or the one it had.
LEMMA ConnectType ==
  ASSUME NEW known, NEW sockets \in [Socket -> SocketRecord], Connect(known, sockets), mount' > 0,
         ref \in Socket \cup {NoSocket},
         (known \in Active /\ online') \/
           (ref # NoSocket => sockets[ref].current /\ sockets[ref].state # "closed")
  PROVE  SocketType'
  <1>1. CASE known \in Active /\ online'
    <2> DEFINE new == [state |-> "connecting", current |-> TRUE]
    <2>1. new \in SocketRecord
      BY DEF SocketRecord, Connected
    <2>2. PICK s \in Socket : sock' = [sockets EXCEPT ![s] = new] /\ ref' = s
      BY <1>1 DEF Connect, Unused
    <2>3. sock'[s].current /\ sock'[s].state # "closed"
      BY <2>2
    <2> HIDE DEF new
    <2> QED
      BY <2>1, <2>2, <2>3 DEF SocketType
  <1>2. CASE ~ (known \in Active /\ online')
    BY <1>2 DEF Connect, SocketType
  <1> QED
    BY <1>1, <1>2

\* What the page learns leaves its sockets well typed.
LEMMA LearnType ==
  ASSUME SocketType, NEW known, Learn(known), online' = online, mount' = mount, mount > 0
  PROVE  SocketType'
  <1>1. CASE Unaffected(known)
    BY <1>1 DEF Learn, SocketType, socketVars
  <1>2. CASE ~ Unaffected(known) /\ known \in Active /\ online
    BY <1>2, DisposedType, ConnectType DEF Learn, SocketType
  <1>3. CASE ~ Unaffected(known) /\ ~ (known \in Active /\ online)
    BY <1>3, DisposedType DEF Learn, SocketType
  <1> QED
    BY <1>1, <1>2, <1>3

\* It leaves the page well typed too, and no timer for a job that has ended.
LEMMA LearnPage ==
  ASSUME PageType, timer \in BOOLEAN, timer => status \in Active, NEW known \in Statuses,
         Learn(known), mount > 0, UNCHANGED <<mount, fetch, online, window, typed, inputs>>
  PROVE  PageType' /\ timer' \in BOOLEAN /\ (timer' => status' \in Active)
  <1>1. known # NoStatus
    BY TerminalAssumption DEF Statuses, Active, Running
  <1>2. PageType'
    BY <1>1 DEF PageType, Learn
  <1>3. timer' \in BOOLEAN /\ (timer' => status' \in Active)
    BY DEF Learn, Unaffected, socketVars
  <1> QED
    BY <1>2, <1>3

\* Every step keeps HandlerType: only the handler takes its frame from the chain.
LEMMA HandlerStep == TypeOK /\ [Next]_vars => HandlerType'
  <1> SUFFICES ASSUME TypeOK, [Next]_vars, NEW x \in Socket, read'[x] # NoStatus
               PROVE  chain'[x] # <<>> /\ Head(chain'[x]).kind = "subscribe"
    BY DEF HandlerType
  <1>t. /\ chain \in [Socket -> Seq(Frames)]
        /\ read \in [Socket -> Statuses \cup {NoStatus}]
        /\ read[x] # NoStatus => chain[x] # <<>> /\ Head(chain[x]).kind = "subscribe"
    BY DEF TypeOK, WireType, HandlerType
  <1>1. ASSUME NEW s \in Socket, SubscribeRead(s) PROVE chain'[x] # <<>> /\ Head(chain'[x]).kind = "subscribe"
    BY <1>t, <1>1 DEF SubscribeRead, HeadIs
  <1>2. ASSUME NEW s \in Socket, SubscribeFinish(s) PROVE chain'[x] # <<>> /\ Head(chain'[x]).kind = "subscribe"
    BY <1>t, <1>2 DEF SubscribeFinish
  <1>3. ASSUME NEW s \in Socket, forwardInput(s) \/ forwardResize(s)
        PROVE  chain'[x] # <<>> /\ Head(chain'[x]).kind = "subscribe"
    BY <1>t, <1>3 DEF forwardInput, forwardResize, HeadIs, serverVars
  <1>4. ASSUME NEW s \in Socket, OnOpen(s) PROVE chain'[x] # <<>> /\ Head(chain'[x]).kind = "subscribe"
    <2>1. CASE x = s
      <3> DEFINE rest == IF window = NoSize THEN <<>> ELSE <<[kind |-> "resize", to |-> window]>>
      <3>1. chain'[x] = <<[kind |-> "subscribe"]>> \o rest
        BY <1>t, <1>4, <2>1 DEF OnOpen
      <3>2. rest \in Seq(Frames)
        <4>1. CASE window = NoSize
          BY <4>1
        <4>2. CASE window # NoSize
          <5>1. [kind |-> "resize", to |-> window] \in Frames
            BY <4>2 DEF Frames, TypeOK, PageType
          <5> QED
            BY <4>2, <5>1
        <4> QED
          BY <4>1, <4>2
      <3> HIDE DEF rest
      <3> QED
        BY <3>1, <3>2
    <2>2. CASE x # s
      BY <1>t, <1>4, <2>2 DEF OnOpen, serverVars
    <2> QED
      BY <2>1, <2>2
  <1>5. ASSUME NEW s \in Socket, OnClose(s) PROVE chain'[x] # <<>> /\ Head(chain'[x]).kind = "subscribe"
    <2>1. read' = read
      BY <1>5 DEF OnClose
    <2>2. CASE chain' = chain
      BY <1>t, <2>1, <2>2
    <2>3. ASSUME NEW n \in 0..Len(chain[s]), read[s] # NoStatus => n > 0,
                 chain' = [chain EXCEPT ![s] = SubSeq(@, 1, n)]
          PROVE  chain'[x] # <<>> /\ Head(chain'[x]).kind = "subscribe"
      <3>1. CASE x = s
        <4>1. chain[s] \in Seq(Frames) /\ n \in 1..Len(chain[s]) /\ Head(chain[s]).kind = "subscribe"
          BY <1>t, <2>1, <2>3, <3>1
        <4>2. /\ SubSeq(chain[s], 1, n) # <<>>
              /\ Head(SubSeq(chain[s], 1, n)) = Head(chain[s])
          BY <4>1
        <4> QED
          BY <1>t, <2>3, <3>1, <4>1, <4>2
      <3>2. CASE x # s
        BY <1>t, <2>1, <2>3, <3>2
      <3> QED
        BY <3>1, <3>2
    <2> QED
      BY <1>5, <2>2, <2>3 DEF OnClose
  <1>6. ASSUME NEW frame, chain' = Sent(frame), frame \in Frames, read' = read
        PROVE  chain'[x] # <<>> /\ Head(chain'[x]).kind = "subscribe"
    BY <1>t, <1>6 DEF Sent
  <1>7. CASE Type
    <2>1. [kind |-> "input", mount |-> mount, n |-> typed + 1] \in Frames
      BY <1>7, TerminalAssumption DEF Type, TypeOK, PageType, Running, Frames
    <2> QED
      BY <1>6, <1>7, <2>1 DEF Type, serverVars
  <1>8. ASSUME NEW to \in Size, Resize(to) PROVE chain'[x] # <<>> /\ Head(chain'[x]).kind = "subscribe"
    <2>1. [kind |-> "resize", to |-> to] \in Frames
      BY DEF Frames
    <2> QED
      BY <1>6, <1>8, <2>1 DEF Resize, serverVars
  <1>9. CASE UNCHANGED <<chain, read>>
    BY <1>t, <1>9
  <1> QED
    BY <1>1, <1>2, <1>3, <1>4, <1>5, <1>7, <1>8, <1>9
    DEF Next, vars, serverVars, Session, BroadcastJob, OnOpenDisposed, OnStatus, Mount, Reconnect,
        OnOffline, OnOnline, Refetch, Fetched

\* Every step keeps the types.
LEMMA TypeStep == TypeOK /\ [Next]_vars => TypeOK'
  <1> SUFFICES ASSUME TypeOK, [Next]_vars PROVE TypeOK'
    OBVIOUS
  <1> DEFINE H == {flapped, deaf, outrun} \subseteq BOOLEAN
             T == timer \in BOOLEAN /\ (timer => status \in Active)
             Q == AgentType' /\ WireType' /\ SocketType' /\ PageType' /\ T' /\ H'
  <1>t. AgentType /\ WireType /\ SocketType /\ PageType /\ T /\ H
    BY DEF TypeOK
  <1>q. SUFFICES Q
    BY HandlerStep DEF TypeOK
  <1>1. ASSUME NEW next \in Running \cup {"ended"}, Session(next) PROVE Q
    <2>1. AgentType'
      BY <1>t, <1>1 DEF Session, AgentType
    <2>2. WireType'
      BY <1>t, <1>1 DEF Session, WireType, Statuses, Active
    <2> QED
      BY <1>t, <1>1, <2>1, <2>2, TypeKept DEF Session, socketVars, pageVars, historyVars
  <1>2. CASE BroadcastJob
    <2>1. WireType'
      BY <1>t, <1>2 DEF BroadcastJob, WireType
    <2> QED
      BY <1>t, <1>2, <2>1, TypeKept DEF BroadcastJob, socketVars, pageVars, historyVars, boundVars
  <1>3. ASSUME NEW s \in Socket, SubscribeRead(s) PROVE Q
    <2>1. WireType'
      BY <1>t, <1>3 DEF SubscribeRead, WireType
    <2> QED
      BY <1>t, <1>3, <2>1, TypeKept DEF SubscribeRead, socketVars, pageVars, historyVars, boundVars
  <1>4. ASSUME NEW s \in Socket, SubscribeFinish(s) PROVE Q
    <2>1. WireType'
      <3>1. read[s] \in Statuses
        BY <1>t, <1>4 DEF SubscribeFinish, WireType
      <3>2. down' \in [Socket -> Seq(Statuses)]
        <4>1. [down EXCEPT ![s] = Append(@, read[s])] \in [Socket -> Seq(Statuses)]
          BY <1>t, <3>1, QueueType DEF WireType
        <4> QED
          BY <1>t, <1>4, <4>1 DEF SubscribeFinish, WireType
      <3>3. chain[s] # <<>>
        BY <1>4 DEF SubscribeFinish, TypeOK, HandlerType
      <3>4. chain' \in [Socket -> Seq(Frames)]
        BY <1>t, <1>4, <3>3, QueueType DEF SubscribeFinish, WireType
      <3> QED
        BY <1>t, <1>4, <3>2, <3>4 DEF SubscribeFinish, WireType
    <2> QED
      BY <1>t, <1>4, <2>1, TypeKept DEF SubscribeFinish, socketVars, pageVars, historyVars, boundVars
  <1>5. ASSUME NEW s \in Socket, forwardInput(s) PROVE Q
    <2>0. chain[s] \in Seq(Frames) /\ chain[s] # <<>> /\ Head(chain[s]) \in Frames /\ Head(chain[s]).kind = "input"
      BY <1>t, <1>5 DEF forwardInput, HeadIs, WireType
    <2>1. AgentType'
      <3> DEFINE f == Head(chain[s])
      <3>1. f.mount \in 1..MaxMounts /\ f.n \in 1..MaxInputs
        BY <2>0 DEF Frames
      <3>2. Number(f) \in Nat
        BY <3>1, TerminalAssumption DEF Number, createInputSequenceSeed
      <3>3. \/ written' = Append(written, <<f.mount, f.n>>) /\ lastInput' = Number(f)
            \/ UNCHANGED <<written, lastInput>>
        BY <1>5, Zenon DEF forwardInput, writeInput
      <3>4. UNCHANGED <<pty, size>>
        BY <1>5 DEF forwardInput
      <3>5. <<f.mount, f.n>> \in (1..MaxMounts) \X (1..MaxInputs)
        BY <3>1
      <3>6. written' \in Seq((1..MaxMounts) \X (1..MaxInputs))
        <4> DEFINE P == (1..MaxMounts) \X (1..MaxInputs)
                   p == <<f.mount, f.n>>
        <4>1. written \in Seq(P) /\ p \in P /\ (written' = Append(written, p) \/ written' = written)
          BY <1>t, <3>3, <3>5 DEF AgentType
        <4> HIDE DEF P, p
        <4>2. written' \in Seq(P)
          BY <4>1
        <4> QED
          BY <4>2 DEF P
      <3> HIDE DEF f
      <3> QED
        BY <1>t, <3>2, <3>3, <3>4, <3>6 DEF AgentType
    <2>2. WireType'
      BY <1>t, <1>5, <2>0 DEF forwardInput, WireType, serverVars
    <2>3. SocketType'
      BY <1>t, <1>5 DEF forwardInput, SocketType, SocketRecord, Connected, pageVars
    <2> QED
      BY <1>t, <1>5, <2>1, <2>2, <2>3, TypeKept
      DEF forwardInput, writeInput, pageVars, boundVars
  <1>6. ASSUME NEW s \in Socket, forwardResize(s) PROVE Q
    <2>0. chain[s] \in Seq(Frames) /\ chain[s] # <<>> /\ Head(chain[s]) \in Frames /\ Head(chain[s]).kind = "resize"
      BY <1>t, <1>6 DEF forwardResize, HeadIs, WireType
    <2>1. AgentType'
      BY <1>t, <1>6, <2>0 DEF forwardResize, resize, AgentType, Frames
    <2>2. WireType'
      BY <1>t, <1>6, <2>0 DEF forwardResize, WireType, serverVars
    <2> QED
      BY <1>t, <1>6, <2>1, <2>2, TypeKept DEF forwardResize, socketVars, pageVars, boundVars
  <1>7. ASSUME NEW s \in Socket, OnOpen(s) PROVE Q
    <2>1. SocketType'
      <3>1. sock' = [sock EXCEPT ![s].state = "open"] /\ ref' = ref /\ mount' = mount /\ sock[s].state # "closed"
        BY <1>7 DEF OnOpen, pageVars
      <3>2. "open" \in Connected \cup {"closing", "closed"} /\ sock \in [Socket -> SocketRecord]
        BY <1>t DEF Connected, SocketType
      <3>3. /\ sock' \in [Socket -> SocketRecord]
            /\ \A x \in Socket : /\ sock'[x].current <=> sock[x].current
                                 /\ sock'[x].state = IF x = s THEN "open" ELSE sock[x].state
        BY <3>1, <3>2, StateType
      <3> QED
        BY <1>t, <3>1, <3>3 DEF SocketType
    <2>2. WireType'
      <3>1. [kind |-> "subscribe"] \in Frames /\ (window # NoSize => [kind |-> "resize", to |-> window] \in Frames)
        BY <1>t DEF Frames, PageType
      <3> DEFINE first == <<[kind |-> "subscribe"]>> \o
                   IF window = NoSize THEN <<>> ELSE <<[kind |-> "resize", to |-> window]>>
      <3>2. first \in Seq(Frames)
        BY <3>1
      <3>3. chain' = [chain EXCEPT ![s] = first]
        BY <1>7 DEF OnOpen
      <3> HIDE DEF first
      <3> QED
        BY <1>t, <1>7, <3>2, <3>3, QueueType DEF OnOpen, WireType, serverVars
    <2> QED
      BY <1>t, <1>7, <2>1, <2>2, TypeKept DEF OnOpen, pageVars, historyVars, boundVars
  <1>8. ASSUME NEW s \in Socket, OnOpenDisposed(s) PROVE Q
    <2>1. SocketType'
      <3>1. sock' = [sock EXCEPT ![s].state = "closing"] /\ ref' = ref /\ mount' = mount /\ sock[s].state # "closed"
        BY <1>8 DEF OnOpenDisposed, pageVars
      <3>2. sock \in [Socket -> SocketRecord]
        BY <1>t DEF SocketType
      <3>3. /\ sock' \in [Socket -> SocketRecord]
            /\ \A x \in Socket : /\ sock'[x].current <=> sock[x].current
                                 /\ sock'[x].state = IF x = s THEN "closing" ELSE sock[x].state
        BY <3>1, <3>2, StateType
      <3> QED
        BY <1>t, <3>1, <3>3 DEF SocketType
    <2> QED
      BY <1>t, <1>8, <2>1, TypeKept DEF OnOpenDisposed, pageVars, historyVars, boundVars
  <1>9. ASSUME NEW s \in Socket, OnStatus(s) PROVE Q
    <2>0. down[s] \in Seq(Statuses) /\ down[s] # <<>> /\ Head(down[s]) \in Statuses
      BY <1>t, <1>9 DEF OnStatus, WireType
    <2>1. WireType'
      BY <1>t, <1>9, <2>0 DEF OnStatus, WireType, serverVars
    <2>2. CASE sock[s].current /\ sock[s].state = "open"
      <3> DEFINE known == Head(down[s])
      <3>1. Learn(known) /\ online' = online /\ mount' = mount /\ known \in Statuses /\ mount > 0
        BY <1>t, <1>9, <2>0, <2>2 DEF OnStatus, SocketType
      <3>2. UNCHANGED <<fetch, window, typed, inputs, agentVars, historyVars>>
        BY <1>9 DEF OnStatus, boundVars
      <3> HIDE DEF known
      <3>3. SocketType'
        BY <1>t, <3>1, LearnType
      <3>4. PageType' /\ T'
        BY <1>t, <3>1, <3>2, LearnPage
      <3> QED
        BY <1>t, <2>1, <3>2, <3>3, <3>4, TypeKept DEF historyVars
    <2>3. CASE ~ (sock[s].current /\ sock[s].state = "open")
      BY <1>t, <1>9, <2>1, <2>3, TypeKept DEF OnStatus, socketVars, pageVars, historyVars, boundVars
    <2> QED
      BY <2>2, <2>3
  <1>10. ASSUME NEW s \in Socket, OnClose(s) PROVE Q
    <2>1. WireType'
      <3>1. ASSUME NEW n \in 0..Len(chain[s]) PROVE SubSeq(chain[s], 1, n) \in Seq(Frames)
        BY <1>t, <3>1 DEF WireType
      <3>2. chain' \in [Socket -> Seq(Frames)]
        <4>1. CASE chain' = chain
          BY <1>t, <4>1 DEF WireType
        <4>2. ASSUME NEW n \in 0..Len(chain[s]), chain' = [chain EXCEPT ![s] = SubSeq(@, 1, n)]
              PROVE  chain' \in [Socket -> Seq(Frames)]
          BY <1>t, <3>1, <4>2 DEF WireType
        <4> QED
          BY <1>10, <4>1, <4>2 DEF OnClose
      <3>3. down' \in [Socket -> Seq(Statuses)]
        BY <1>t, <1>10 DEF OnClose, WireType
      <3> QED
        BY <1>t, <1>10, <3>2, <3>3 DEF OnClose, WireType
    <2>2. SocketType'
      BY <1>t, <1>10 DEF OnClose, RefAfterClose, SocketType, SocketRecord, Gone, Connected, pageVars
    <2> QED
      BY <1>t, <1>10, <2>1, <2>2, TypeKept DEF OnClose, pageVars, historyVars
  <1>11. CASE Mount
    <2>1. PageType'
      BY <1>t, <1>11, TerminalAssumption DEF Mount, PageType, WireType, boundVars, Statuses, Active, Running
    <2>2. SocketType'
      BY <1>t, <1>11, DisposedType, ConnectType DEF Mount, SocketType, PageType, WireType, Statuses
    <2> QED
      BY <1>t, <1>11, <2>1, <2>2, TypeKept DEF Mount, historyVars
  <1>12. CASE Reconnect
    <2>1. SocketType'
      BY <1>t, <1>12, ConnectType, TerminalAssumption
      DEF Reconnect, SocketType, PageType, Active, Running
    <2> QED
      BY <1>t, <1>12, <2>1, TypeKept DEF Reconnect, pageVars, historyVars, boundVars
  <1>13. CASE OnOffline
    <2>1. SocketType'
      BY <1>t, <1>13 DEF OnOffline, SocketType, SocketRecord, Connected
    <2>2. PageType'
      BY <1>t, <1>13 DEF OnOffline, PageType
    <2> QED
      BY <1>t, <1>13, <2>1, <2>2, TypeKept DEF OnOffline, TimerCleared, historyVars
  <1>14. CASE OnOnline
    <2>1. SocketType'
      <3>1. CASE status \in Active
        <4>1. mount' = mount /\ mount > 0
          BY <1>t, <1>14, <3>1, TerminalAssumption DEF OnOnline, PageType, Active, Running
        <4> QED
          BY <1>t, <1>14, <4>1, ConnectType DEF OnOnline, SocketType
      <3>2. CASE status \notin Active
        BY <1>t, <1>14, <3>2 DEF OnOnline, Connect, SocketType
      <3> QED
        BY <3>1, <3>2
    <2>2. PageType'
      BY <1>t, <1>14 DEF OnOnline, PageType, boundVars
    <2> QED
      BY <1>t, <1>14, <2>1, <2>2, TypeKept DEF OnOnline
  <1>15. CASE Refetch
    <2>1. PageType'
      BY <1>t, <1>15 DEF Refetch, PageType, WireType
    <2> QED
      BY <1>t, <1>15, <2>1, TypeKept DEF Refetch, socketVars, historyVars
  <1>16. CASE Fetched
    <2>1. Learn(fetch) /\ online' = online /\ mount' = mount /\ fetch \in Statuses /\ mount > 0
      BY <1>t, <1>16 DEF Fetched, PageType
    <2>2. SocketType'
      BY <1>t, <2>1, LearnType
    <2>3. PageType' /\ T'
      <3>1. fetch # NoStatus
        BY <1>16 DEF Fetched
      <3>2. PageType'
        BY <1>t, <1>16, <2>1, <3>1 DEF Fetched, Learn, PageType, boundVars
      <3>3. T'
        BY <1>t, <2>1 DEF Learn, Unaffected, socketVars
      <3> QED
        BY <3>2, <3>3
    <2> QED
      BY <1>t, <1>16, <2>2, <2>3, TypeKept DEF Fetched, historyVars
  <1>17. CASE Type
    <2>1. PageType'
      BY <1>t, <1>17, TerminalAssumption DEF Type, PageType
    <2>2. WireType'
      <3>1. mount \in 1..MaxMounts /\ typed + 1 \in 1..MaxInputs
        BY <1>t, <1>17, TerminalAssumption DEF Type, PageType, Running
      <3>2. [kind |-> "input", mount |-> mount, n |-> typed + 1] \in Frames
        BY <3>1 DEF Frames
      <3> QED
        BY <1>t, <1>17, <3>2, SentType DEF Type, WireType, serverVars
    <2> QED
      BY <1>t, <1>17, <2>1, <2>2, TypeKept DEF Type, socketVars, historyVars
  <1>18. ASSUME NEW to \in Size, Resize(to) PROVE Q
    <2>1. PageType'
      BY <1>t, <1>18 DEF Resize, PageType
    <2>2. WireType'
      <3>1. [kind |-> "resize", to |-> to] \in Frames
        BY DEF Frames
      <3> QED
        BY <1>t, <1>18, <3>1, SentType DEF Resize, WireType, serverVars
    <2> QED
      BY <1>t, <1>18, <2>1, <2>2, TypeKept DEF Resize, socketVars, historyVars
  <1>19. CASE UNCHANGED vars
    BY <1>t, <1>19, TypeKept DEF vars, socketVars, pageVars, historyVars, boundVars
  <1> QED
    BY <1>1, <1>2, <1>3, <1>4, <1>5, <1>6, <1>7, <1>8, <1>9, <1>10, <1>11, <1>12, <1>13, <1>14,
       <1>15, <1>16, <1>17, <1>18, <1>19 DEF Next

\* Every reachable state is well typed: ref names a socket of the effect, input is
\* numbered within its page, and a timer is set only for a job that has not ended.
THEOREM TypeCorrect == Spec => []TypeOK
  BY TypeInit, TypeStep, PTL DEF Spec

-----------------------------------------------------------------------------
(* The order of the input                                                  *)

\* p was typed before q: on an earlier page, or earlier on the same.
Before(p, q) == p[1] < q[1] \/ (p[1] = q[1] /\ p[2] < q[2])

\* The number that input <<mount, n>> was sent with.
Sequence(p) == createInputSequenceSeed(p[1]) + p[2]

Inputs == (1..MaxMounts) \X (1..MaxInputs)

\* The input among the frames q is of pages loaded up to the m-th.
UpTo(q, m) == \A i \in 1..Len(q) : q[i].kind = "input" => q[i].mount <= m

\* lastInput is the number of the input last written, and no input is of a page
\* that has not been loaded yet.
InputInv ==
  /\ \A i \in 1..Len(written) : written[i][1] <= mount
  /\ \A s \in Socket : UpTo(chain[s], mount)
  /\ lastInput = IF written = <<>> THEN 0 ELSE Sequence(written[Len(written)])
  /\ \A i, j \in 1..Len(written) : i < j => Before(written[i], written[j])
  /\ ~ deaf

\* The numbers grow in the order of typing: a page has no room for more input than
\* there is between its seed and the next.
LEMMA SequenceOrder ==
  ASSUME NEW p \in Inputs, NEW q \in Inputs
  PROVE  /\ Sequence(p) \in Nat /\ Sequence(p) > 0
         /\ Sequence(p) < Sequence(q) => Before(p, q)
         /\ Sequence(q) <= Sequence(p) => ~ Before(p, q)
  <1> DEFINE K == MaxInputs + 1
             a == p[1]
             b == q[1]
  <1>1. K \in Nat /\ a \in Nat /\ b \in Nat /\ p[2] \in 1..K - 1 /\ q[2] \in 1..K - 1
    BY TerminalAssumption DEF Inputs
  <1>2. Sequence(p) = K * a + p[2] /\ Sequence(q) = K * b + q[2]
    BY DEF Sequence, createInputSequenceSeed
  <1>3. K * a \in Nat /\ K * b \in Nat
    BY <1>1
  <1>4. ASSUME NEW x \in Nat, NEW y \in Nat, x < y PROVE K * x + K <= K * y
    <2>1. y - x - 1 \in Nat /\ y = x + 1 + (y - x - 1)
      BY <1>4
    <2>2. K * (y - x - 1) \in Nat
      BY <1>1, <2>1
    <2>3. K * y = K * x + K + K * (y - x - 1)
      BY <1>1, <2>1
    <2>4. K * x \in Nat /\ K * y \in Nat
      BY <1>1
    <2> QED
      BY <1>1, <2>2, <2>3, <2>4
  <1>5. (a < b => K * a + K <= K * b) /\ (b < a => K * b + K <= K * a)
    BY <1>1, <1>4
  <1>6. a = b => K * a = K * b
    OBVIOUS
  <1> HIDE DEF a, b
  <1>7. Before(p, q) <=> (a < b \/ (a = b /\ p[2] < q[2]))
    BY DEF Before, a, b
  <1> QED
    BY <1>1, <1>2, <1>3, <1>5, <1>6, <1>7

\* Typing order is transitive.
LEMMA BeforeTransitive ==
  ASSUME NEW p \in Inputs, NEW q \in Inputs, NEW r \in Inputs, Before(p, q), Before(q, r)
  PROVE  Before(p, r)
  <1>1. {p[1], p[2], q[1], q[2], r[1], r[2]} \subseteq Nat
    BY DEF Inputs
  <1> QED
    BY <1>1 DEF Before

\* What is left, or taken, of a sequence of frames.
LEMMA UpToKept ==
  ASSUME NEW q \in Seq(Frames), NEW m \in Nat, UpTo(q, m)
  PROVE  /\ q # <<>> => UpTo(Tail(q), m)
         /\ \A n \in 0..Len(q) : UpTo(SubSeq(q, 1, n), m)
         /\ \A f \in Frames : (f.kind = "input" => f.mount <= m) => UpTo(Append(q, f), m)
         /\ q # <<>> /\ Head(q).kind = "input" => Head(q).mount <= m
  <1>1. q # <<>> => UpTo(Tail(q), m)
    BY DEF UpTo
  <1>2. ASSUME NEW n \in 0..Len(q) PROVE UpTo(SubSeq(q, 1, n), m)
    <2>1. Len(SubSeq(q, 1, n)) = n /\ \A i \in 1..n : SubSeq(q, 1, n)[i] = q[i]
      BY <1>2
    <2> QED
      BY <2>1 DEF UpTo
  <1>3. ASSUME NEW f \in Frames, f.kind = "input" => f.mount <= m PROVE UpTo(Append(q, f), m)
    <2>1. /\ Len(Append(q, f)) = Len(q) + 1
          /\ \A i \in 1..Len(q) : Append(q, f)[i] = q[i]
          /\ Append(q, f)[Len(q) + 1] = f
      OBVIOUS
    <2> QED
      BY <1>3, <2>1 DEF UpTo
  <1>4. q # <<>> /\ Head(q).kind = "input" => Head(q).mount <= m
    BY DEF UpTo
  <1> QED
    BY <1>1, <1>2, <1>3, <1>4

\* Session.writeInput keeps the order of what it writes, and takes nothing of the
\* page last loaded for a repetition.
LEMMA WriteKeeps ==
  ASSUME TypeOK, InputInv, NEW f \in Frames, f.kind = "input", f.mount <= mount, writeInput(f),
         mount' = mount
  PROVE  /\ \A i \in 1..Len(written') : written'[i][1] <= mount
         /\ lastInput' = IF written' = <<>> THEN 0 ELSE Sequence(written'[Len(written')])
         /\ \A i, j \in 1..Len(written') : i < j => Before(written'[i], written'[j])
         /\ ~ deaf'
  <1> DEFINE p == <<f.mount, f.n>>
  <1>1. p \in Inputs /\ Number(f) = Sequence(p) /\ p[1] = f.mount /\ p[2] = f.n
    BY DEF Frames, Inputs, Number, Sequence
  <1>2. /\ written \in Seq(Inputs) /\ Len(written) \in Nat /\ mount \in Nat
        /\ \A i \in 1..Len(written) : written[i] \in Inputs
    BY TerminalAssumption DEF TypeOK, AgentType, PageType, Inputs
  <1>3. /\ \/ /\ ~ (Sequence(p) <= lastInput)
              /\ written' = Append(written, p) /\ lastInput' = Sequence(p)
           \/ UNCHANGED <<written, lastInput>>
        /\ deaf' = (deaf \/ /\ Sequence(p) <= lastInput
                            /\ p[1] = mount
                            /\ \A i \in DOMAIN written : written[i][1] = mount => written[i][2] < p[2])
    BY <1>1 DEF writeInput, Stale
  <1> HIDE DEF p
  <1>4. \A i \in 1..Len(written) : Sequence(p) > lastInput => Before(written[i], p)
    <2> SUFFICES ASSUME NEW i \in 1..Len(written), Sequence(p) > lastInput PROVE Before(written[i], p)
      OBVIOUS
    <2> DEFINE last == written[Len(written)]
    <2>1. last \in Inputs /\ lastInput = Sequence(last) /\ Len(written) \in 1..Len(written)
      BY <1>2 DEF InputInv
    <2>2. Sequence(last) \in Nat /\ Sequence(p) \in Nat /\ Before(last, p)
      BY <1>1, <2>1, SequenceOrder
    <2>3. i = Len(written) \/ Before(written[i], last)
      BY <1>2, <2>1 DEF InputInv
    <2> HIDE DEF last
    <2>4. CASE i = Len(written)
      BY <2>2, <2>4 DEF last
    <2>5. CASE Before(written[i], last)
      BY <1>1, <1>2, <2>1, <2>2, <2>5, BeforeTransitive
    <2> QED
      BY <2>3, <2>4, <2>5
  <1>5. ~ deaf'
    <2> SUFFICES ASSUME Sequence(p) <= lastInput, p[1] = mount,
                        \A i \in DOMAIN written : written[i][1] = mount => written[i][2] < p[2]
                 PROVE  FALSE
      BY <1>3 DEF InputInv
    <2>1. Sequence(p) > 0 /\ Sequence(p) \in Nat
      BY <1>1, SequenceOrder
    <2>2. written # <<>>
      BY <2>1 DEF InputInv
    <2> DEFINE last == written[Len(written)]
    <2>3. Len(written) \in 1..Len(written) /\ last \in Inputs /\ lastInput = Sequence(last)
      BY <1>2, <2>2 DEF InputInv
    <2>4. last[1] <= mount /\ (last[1] = mount => last[2] < p[2])
      BY <1>2, <2>3 DEF InputInv
    <2>5. last[1] \in Nat /\ p[1] \in Nat
      BY <1>1, <2>3 DEF Inputs
    <2> HIDE DEF last
    <2>6. Before(last, p)
      BY <1>2, <2>4, <2>5 DEF Before
    <2>7. Sequence(p) <= Sequence(last)
      BY <2>3
    <2> QED
      BY <1>1, <2>3, <2>6, <2>7, SequenceOrder
  <1>6. CASE UNCHANGED <<written, lastInput>>
    BY <1>5, <1>6 DEF InputInv
  <1>7. CASE /\ ~ (Sequence(p) <= lastInput)
             /\ written' = Append(written, p) /\ lastInput' = Sequence(p)
    <2>1. Sequence(p) > lastInput
      BY <1>1, <1>7, SequenceOrder DEF TypeOK, AgentType
    <2>2. /\ Len(written') = Len(written) + 1 /\ written' # <<>>
          /\ \A i \in 1..Len(written) : written'[i] = written[i]
          /\ written'[Len(written) + 1] = p
      BY <1>1, <1>2, <1>7
    <2>3. \A i \in 1..Len(written') : written'[i][1] <= mount
      BY <1>1, <1>2, <2>2 DEF InputInv
    <2>4. \A i, j \in 1..Len(written') : i < j => Before(written'[i], written'[j])
      BY <1>2, <1>4, <2>1, <2>2 DEF InputInv
    <2> QED
      BY <1>5, <1>7, <2>2, <2>3, <2>4
  <1> QED
    BY <1>3, <1>6, <1>7

\* Every step keeps InputInv.
LEMMA InputStep == TypeOK /\ InputInv /\ [Next]_vars => InputInv'
  <1> SUFFICES ASSUME TypeOK, InputInv, [Next]_vars PROVE InputInv'
    OBVIOUS
  <1>t. /\ chain \in [Socket -> Seq(Frames)] /\ mount \in Nat
        /\ \A s \in Socket : UpTo(chain[s], mount)
    BY TerminalAssumption DEF TypeOK, WireType, PageType, InputInv
  <1>a. ASSUME UNCHANGED <<written, lastInput, mount, deaf>>,
               \A s \in Socket : UpTo(chain'[s], mount)
        PROVE  InputInv'
    BY <1>a DEF InputInv
  <1>1. ASSUME NEW s \in Socket, forwardInput(s) PROVE InputInv'
    <2>1. chain[s] # <<>> /\ Head(chain[s]).kind = "input" /\ chain' = [chain EXCEPT ![s] = Tail(@)] /\ mount' = mount
      BY <1>1 DEF forwardInput, HeadIs, pageVars
    <2>2. Head(chain[s]) \in Frames /\ Head(chain[s]).mount <= mount
      BY <1>t, <2>1, UpToKept
    <2>3. \A x \in Socket : UpTo(chain'[x], mount)
      BY <1>t, <2>1, UpToKept
    <2>4. CASE row = "ended"
      BY <1>1, <1>a, <2>1, <2>3, <2>4 DEF forwardInput
    <2>5. CASE row # "ended"
      <3>1. writeInput(Head(chain[s]))
        BY <1>1, <2>5 DEF forwardInput
      <3> QED
        BY <2>1, <2>2, <2>3, <3>1, WriteKeeps DEF InputInv
    <2> QED
      BY <2>4, <2>5
  <1>2. ASSUME NEW s \in Socket, forwardResize(s) \/ SubscribeFinish(s) PROVE InputInv'
    <2>1. /\ chain[s] # <<>> /\ chain' = [chain EXCEPT ![s] = Tail(@)]
          /\ UNCHANGED <<written, lastInput, mount, deaf>>
      BY <1>2 DEF forwardResize, SubscribeFinish, HeadIs, agentVars, pageVars, historyVars, TypeOK, HandlerType
    <2> QED
      BY <1>t, <1>a, <2>1, UpToKept
  <1>3. ASSUME NEW s \in Socket, OnOpen(s) PROVE InputInv'
    <2> DEFINE first == <<[kind |-> "subscribe"]>> \o
                 IF window = NoSize THEN <<>> ELSE <<[kind |-> "resize", to |-> window]>>
    <2>1. chain' = [chain EXCEPT ![s] = first] /\ UNCHANGED <<written, lastInput, mount, deaf>>
      BY <1>3 DEF OnOpen, agentVars, pageVars, historyVars
    <2>2. \A i \in 1..Len(first) : first[i].kind # "input"
      OBVIOUS
    <2> HIDE DEF first
    <2> QED
      BY <1>t, <1>a, <2>1, <2>2 DEF UpTo
  <1>4. ASSUME NEW s \in Socket, OnClose(s) PROVE InputInv'
    <2>1. UNCHANGED <<written, lastInput, mount, deaf>>
      BY <1>4 DEF OnClose, agentVars, pageVars, historyVars
    <2>2. CASE chain' = chain
      BY <1>t, <1>a, <2>1, <2>2
    <2>3. ASSUME NEW n \in 0..Len(chain[s]), chain' = [chain EXCEPT ![s] = SubSeq(@, 1, n)] PROVE InputInv'
      BY <1>t, <1>a, <2>1, <2>3, UpToKept
    <2> QED
      BY <1>4, <2>2, <2>3 DEF OnClose
  <1>5. CASE Mount
    <2>1. mount' = mount + 1 /\ UNCHANGED <<written, lastInput, deaf, chain>>
      BY <1>5 DEF Mount, agentVars, historyVars
    <2>2. \A s \in Socket : UpTo(chain'[s], mount')
      <3> SUFFICES ASSUME NEW s \in Socket, NEW i \in 1..Len(chain[s]), chain[s][i].kind = "input"
                   PROVE  chain[s][i].mount <= mount + 1
        BY <2>1 DEF UpTo
      <3>1. chain[s][i] \in Frames
        BY <1>t
      <3>2. chain[s][i].mount \in Nat
        BY <3>1 DEF Frames
      <3> QED
        BY <1>t, <3>2 DEF UpTo
    <2>3. \A i \in 1..Len(written) : written[i][1] <= mount + 1
      <3>1. \A i \in 1..Len(written) : written[i][1] \in Nat
        BY DEF TypeOK, AgentType
      <3> QED
        BY <1>t, <3>1 DEF InputInv
    <2> QED
      BY <2>1, <2>2, <2>3 DEF InputInv
  <1>6. ASSUME NEW frame \in Frames, chain' = Sent(frame), UNCHANGED <<written, lastInput, mount, deaf>>,
               frame.kind = "input" => frame.mount <= mount
        PROVE  InputInv'
    <2>1. ref \in Socket \cup {NoSocket}
      BY DEF TypeOK, SocketType
    <2> QED
      BY <1>t, <1>a, <1>6, <2>1, UpToKept DEF Sent
  <1>7. CASE Type
    <2>1. [kind |-> "input", mount |-> mount, n |-> typed + 1] \in Frames
      BY <1>7, TerminalAssumption DEF Type, TypeOK, PageType, Running, Frames
    <2> QED
      BY <1>t, <1>6, <1>7, <2>1 DEF Type, agentVars, historyVars
  <1>8. ASSUME NEW to \in Size, Resize(to) PROVE InputInv'
    <2>1. [kind |-> "resize", to |-> to] \in Frames
      BY DEF Frames
    <2> QED
      BY <1>6, <1>8, <2>1 DEF Resize, agentVars, historyVars
  <1>9. CASE UNCHANGED <<written, lastInput, mount, deaf, chain>>
    BY <1>t, <1>a, <1>9
  <1> QED
    BY <1>1, <1>2, <1>3, <1>4, <1>5, <1>7, <1>8, <1>9
    DEF Next, vars, agentVars, pageVars, historyVars, Session, BroadcastJob, SubscribeRead,
        OnOpenDisposed, OnStatus, Reconnect, OnOffline, OnOnline, Refetch, Fetched

\* The invariant holds in every reachable state.
LEMMA InputAlways == Spec => []InputInv
  <1>1. Init => InputInv
    BY DEF Init, InputInv, UpTo
  <1> QED
    BY <1>1, InputStep, TypeCorrect, PTL DEF Spec

\* The terminal gets input in the order of typing and none of it twice, however many
\* sockets carry it and whichever of them the server works off first.
THEOREM InputCorrect == Spec => []InputInOrder
  <1>1. TypeOK /\ InputInv => InputInOrder
    <2> SUFFICES ASSUME TypeOK, InputInv PROVE InputInOrder
      OBVIOUS
    <2>1. DOMAIN written = 1..Len(written)
      BY DEF TypeOK, AgentType
    <2> QED
      BY <2>1 DEF InputInv, InputInOrder, Before
  <1> QED
    BY <1>1, InputAlways, TypeCorrect, PTL

\* The agent never takes input of the page last loaded for a repetition of what an
\* earlier page sent: its seed is above all their numbers.
THEOREM NewestCorrect == Spec => []NewestHeard
  <1>1. InputInv => NewestHeard
    BY DEF InputInv, NewestHeard
  <1> QED
    BY <1>1, InputAlways, PTL

-----------------------------------------------------------------------------
(* The window's socket                                                     *)

\* The socket that ref names is the only one of the effect, and there is none when
\* the timer is to open one.
OneInv ==
  /\ ~ online => ~ timer
  /\ ~ flapped => /\ \A s \in Socket : sock[s].current \/ sock[s].state \in Connected => ref = s
                  /\ timer => ref = NoSocket

\* connect() in the place of sockets that are all on their way out.
LEMMA ConnectOne ==
  ASSUME NEW known, NEW sockets \in [Socket -> SocketRecord], Connect(known, sockets),
         \A s \in Socket : ~ sockets[s].current /\ sockets[s].state \notin Connected
  PROVE  \A s \in Socket : sock'[s].current \/ sock'[s].state \in Connected => ref' = s
  <1>1. CASE known \in Active /\ online'
    <2>1. PICK s \in Socket : /\ sock' = [sockets EXCEPT ![s] = [state |-> "connecting", current |-> TRUE]]
                              /\ ref' = s
      BY <1>1 DEF Connect, Unused
    <2>2. \A x \in Socket : x # s => sock'[x] = sockets[x]
      BY <2>1
    <2> QED
      BY <2>1, <2>2
  <1>2. CASE ~ (known \in Active /\ online')
    BY <1>2 DEF Connect
  <1> QED
    BY <1>1, <1>2

\* Disposing the effect takes the window's one socket along.
LEMMA DisposedOne ==
  ASSUME SocketType, OneInv, ~ flapped
  PROVE  \A s \in Socket : ~ Disposed[s].current /\ Disposed[s].state \notin Connected
  BY DisposedType DEF OneInv

\* What the page learns keeps OneInv.
LEMMA LearnOne ==
  ASSUME SocketType, OneInv, NEW known, Learn(known), UNCHANGED <<online, flapped>>
  PROVE  OneInv'
  <1>1. CASE Unaffected(known)
    BY <1>1 DEF Learn, OneInv, socketVars
  <1>2. CASE ~ Unaffected(known) /\ known \in Active /\ online
    <2>1. timer' = FALSE /\ Connect(known, Disposed)
      BY <1>2 DEF Learn
    <2>2. ~ flapped => \A s \in Socket : sock'[s].current \/ sock'[s].state \in Connected => ref' = s
      BY <2>1, ConnectOne, DisposedOne, DisposedType
    <2> QED
      BY <2>1, <2>2 DEF OneInv
  <1>3. CASE ~ Unaffected(known) /\ ~ (known \in Active /\ online)
    <2>1. timer' = FALSE /\ sock' = Disposed
      BY <1>3 DEF Learn
    <2> QED
      BY <2>1, DisposedOne DEF OneInv
  <1> QED
    BY <1>1, <1>2, <1>3

\* Every step keeps OneInv.
LEMMA OneStep == TypeOK /\ OneInv /\ [Next]_vars => OneInv'
  <1> SUFFICES ASSUME TypeOK, OneInv, [Next]_vars PROVE OneInv'
    OBVIOUS
  <1>t. /\ SocketType /\ sock \in [Socket -> SocketRecord] /\ ref \in Socket \cup {NoSocket}
        /\ ref # NoSocket => sock[ref].current /\ sock[ref].state # "closed"
        /\ timer \in BOOLEAN /\ online \in BOOLEAN
    BY DEF TypeOK, SocketType, PageType
  <1>1. ASSUME NEW s \in Socket, forwardInput(s) PROVE OneInv'
    <2>1. \A x \in Socket : /\ sock'[x].current <=> sock[x].current
                            /\ sock'[x].state \in Connected => sock[x].state \in Connected
      BY <1>t, <1>1 DEF forwardInput, SocketRecord, Connected
    <2> QED
      BY <1>1, <2>1 DEF forwardInput, OneInv, pageVars
  <1>2. ASSUME NEW s \in Socket, OnOpen(s) PROVE OneInv'
    <2>1. \A x \in Socket : /\ sock'[x].current <=> sock[x].current
                            /\ sock'[x].state \in Connected => sock[x].state \in Connected
      BY <1>t, <1>2 DEF OnOpen, SocketRecord, Connected
    <2> QED
      BY <1>2, <2>1 DEF OnOpen, OneInv, pageVars, historyVars
  <1>3. ASSUME NEW s \in Socket, OnOpenDisposed(s) PROVE OneInv'
    <2>1. \A x \in Socket : /\ sock'[x].current <=> sock[x].current
                            /\ sock'[x].state \in Connected => sock[x].state \in Connected
      BY <1>t, <1>3 DEF OnOpenDisposed, SocketRecord, Connected
    <2> QED
      BY <1>3, <2>1 DEF OnOpenDisposed, OneInv, pageVars, historyVars
  <1>4. ASSUME NEW s \in Socket, OnStatus(s) PROVE OneInv'
    <2>1. UNCHANGED <<online, flapped>>
      BY <1>4 DEF OnStatus, historyVars
    <2> QED
      BY <1>t, <1>4, <2>1, LearnOne DEF OnStatus, OneInv, socketVars
  <1>5. ASSUME NEW s \in Socket, OnClose(s) PROVE OneInv'
    <2>1. \A x \in Socket : x # s => sock'[x] = sock[x]
      BY <1>t, <1>5 DEF OnClose
    <2>2. ~ sock'[s].current /\ sock'[s].state \notin Connected
      BY <1>t, <1>5 DEF OnClose, Gone, Connected
    <2>3. /\ ref' = IF ref = s THEN NoSocket ELSE ref
          /\ timer' = (timer \/ (sock[s].current /\ status \in Active /\ online))
          /\ UNCHANGED <<online, flapped>>
      BY <1>5 DEF OnClose, RefAfterClose, pageVars, historyVars
    <2> QED
      BY <1>t, <2>1, <2>2, <2>3 DEF OneInv
  <1>6. CASE Mount
    <2>1. timer' = FALSE /\ Connect(row, Disposed) /\ flapped' = flapped
      BY <1>6 DEF Mount, historyVars
    <2>2. ~ flapped => \A s \in Socket : sock'[s].current \/ sock'[s].state \in Connected => ref' = s
      BY <1>t, <2>1, ConnectOne, DisposedOne, DisposedType
    <2> QED
      BY <2>1, <2>2 DEF OneInv
  <1>7. CASE Reconnect
    <2>1. timer /\ timer' = FALSE /\ Connect(status, sock) /\ UNCHANGED <<online, flapped>>
      BY <1>7 DEF Reconnect, historyVars
    <2>2. ~ flapped => \A s \in Socket : ~ sock[s].current /\ sock[s].state \notin Connected
      BY <2>1, TerminalAssumption DEF OneInv
    <2>3. ~ flapped => \A s \in Socket : sock'[s].current \/ sock'[s].state \in Connected => ref' = s
      BY <1>t, <2>1, <2>2, ConnectOne
    <2> QED
      BY <2>1, <2>3 DEF OneInv
  <1>8. CASE OnOffline
    <2>1. \A x \in Socket : /\ sock'[x].current <=> sock[x].current
                            /\ sock'[x].state \in Connected => sock[x].state \in Connected
      BY <1>t, <1>8 DEF OnOffline, SocketRecord, Connected
    <2> QED
      BY <1>8, <2>1 DEF OnOffline, OneInv, TimerCleared, historyVars
  <1>9. CASE OnOnline
    <2>1. /\ ~ timer /\ timer' = timer /\ online' /\ Connect(status, sock)
          /\ flapped' = (flapped \/ ref # NoSocket)
      BY <1>9 DEF OnOnline, OneInv
    <2>2. ~ flapped' => \A s \in Socket : ~ sock[s].current /\ sock[s].state \notin Connected
      BY <2>1, TerminalAssumption DEF OneInv
    <2>3. ~ flapped' => \A s \in Socket : sock'[s].current \/ sock'[s].state \in Connected => ref' = s
      BY <1>t, <2>1, <2>2, ConnectOne
    <2> QED
      BY <2>1, <2>3 DEF OneInv
  <1>10. CASE Fetched
    BY <1>t, <1>10, LearnOne DEF Fetched, historyVars
  <1>11. CASE UNCHANGED <<sock, ref, timer, online, flapped>>
    BY <1>11 DEF OneInv
  <1> QED
    BY <1>1, <1>2, <1>3, <1>4, <1>5, <1>6, <1>7, <1>8, <1>9, <1>10, <1>11
    DEF Next, vars, socketVars, pageVars, historyVars, Session, BroadcastJob, SubscribeRead,
        SubscribeFinish, forwardResize, Refetch, Type, Resize

\* The window has one socket at most that is not being closed, whatever statuses,
\* failures and reloads came before, unless the browser was online again before the
\* close event of the old one.
THEOREM SocketCorrect == Spec => []OneSocket
  <1>1. Init => OneInv
    BY DEF Init, OneInv, Gone, Connected
  <1>2. OneInv => OneSocket
    BY DEF OneInv, OneSocket
  <1> QED
    BY <1>1, <1>2, OneStep, TypeCorrect, PTL DEF Spec

-----------------------------------------------------------------------------
(* The terminal's size                                                     *)

\* Before the process starts the job is queued, and nobody has heard otherwise.
StatusInv ==
  /\ pty = "none" =>
       /\ row = "queued"
       /\ told = NoStatus
       /\ status \in {"queued", NoStatus}
       /\ fetch \in {"queued", NoStatus}
       /\ \A s \in Socket : read[s] \in {"queued", NoStatus}
       /\ \A s \in Socket : \A i \in 1..Len(down[s]) : down[s][i] = "queued"
  /\ pty = "up" => row \in Running
  /\ pty = "down" => row = "ended"

\* Frames with a size among them, and frames the last size of which is to.
HasSize(c) == \E i \in 1..Len(c) : c[i].kind = "resize"
LastSize(c, to) ==
  \E i \in 1..Len(c) : /\ c[i].kind = "resize" /\ c[i].to = to
                       /\ \A j \in 1..Len(c) : j > i => c[j].kind # "resize"

\* What the page's open socket carries ends with the window's size, if with any; and
\* that size has reached the terminal or is on its way, unless there was no terminal
\* when it arrived: then the page has not heard yet that there is one.
SizeInv ==
  \A s \in Socket : ref = s /\ sock[s].state = "open" =>
    /\ HasSize(chain[s]) => LastSize(chain[s], window)
    /\ window = NoSize \/ pty # "up" \/ size = window \/ outrun \/ status = "queued"
         \/ LastSize(chain[s], window)

\* A frame is handled: the last size stays the last, unless it was the one at the head.
LEMMA TailSize ==
  ASSUME NEW c \in Seq(Frames), c # <<>>, NEW to, HasSize(c) => LastSize(c, to)
  PROVE  /\ HasSize(Tail(c)) => LastSize(Tail(c), to)
         /\ HasSize(c) => LastSize(Tail(c), to) \/ (Head(c).kind = "resize" /\ Head(c).to = to)
         /\ LastSize(c, to) => HasSize(c)
         /\ Head(c).kind = "resize" => HasSize(c)
  <1> DEFINE d == Tail(c)
  <1>1. /\ Len(c) \in Nat /\ Len(c) > 0 /\ Len(d) = Len(c) - 1 /\ Head(c) = c[1]
        /\ \A i \in 1..Len(d) : d[i] = c[i + 1]
    BY EmptySeq
  <1> HIDE DEF d
  <1>2. HasSize(d) => HasSize(c)
    <2> SUFFICES ASSUME NEW i \in 1..Len(d), d[i].kind = "resize" PROVE HasSize(c)
      BY DEF HasSize
    <2>1. i + 1 \in 1..Len(c) /\ c[i + 1].kind = "resize"
      BY <1>1
    <2> QED
      BY <2>1 DEF HasSize
  <1>3. LastSize(c, to) /\ HasSize(d) => LastSize(d, to)
    <2> SUFFICES ASSUME LastSize(c, to), HasSize(d) PROVE LastSize(d, to)
      OBVIOUS
    <2>1. PICK i \in 1..Len(c) : /\ c[i].kind = "resize" /\ c[i].to = to
                                 /\ \A j \in 1..Len(c) : j > i => c[j].kind # "resize"
      BY DEF LastSize
    <2>2. PICK k \in 1..Len(d) : d[k].kind = "resize"
      BY DEF HasSize
    <2>3. i > 1
      BY <1>1, <2>1, <2>2
    <2>4. i - 1 \in 1..Len(d) /\ d[i - 1] = c[i]
      BY <1>1, <2>1, <2>3
    <2>5. \A j \in 1..Len(d) : j > i - 1 => d[j].kind # "resize"
      BY <1>1, <2>1
    <2> QED
      BY <2>1, <2>4, <2>5 DEF LastSize
  <1>4. LastSize(c, to) /\ ~ HasSize(d) => Head(c).kind = "resize" /\ Head(c).to = to
    <2> SUFFICES ASSUME LastSize(c, to), ~ HasSize(d)
                 PROVE  Head(c).kind = "resize" /\ Head(c).to = to
      OBVIOUS
    <2>1. PICK i \in 1..Len(c) : c[i].kind = "resize" /\ c[i].to = to
      BY DEF LastSize
    <2>2. i > 1 => i - 1 \in 1..Len(d) /\ d[i - 1].kind = "resize"
      BY <1>1, <2>1
    <2>3. i = 1
      BY <2>1, <2>2 DEF HasSize
    <2> QED
      BY <1>1, <2>1, <2>3
  <1>5. LastSize(c, to) => HasSize(c)
    BY DEF LastSize, HasSize
  <1>6. Head(c).kind = "resize" => HasSize(c)
    BY <1>1 DEF HasSize
  <1> QED
    BY <1>2, <1>3, <1>4, <1>5, <1>6 DEF d

\* A frame is sent: a size is now the last, another frame leaves the last as it was.
LEMMA AppendSize ==
  ASSUME NEW c \in Seq(Frames), NEW f \in Frames
  PROVE  /\ f.kind = "resize" => LastSize(Append(c, f), f.to)
         /\ f.kind # "resize" => /\ HasSize(Append(c, f)) => HasSize(c)
                                 /\ \A to : LastSize(c, to) => LastSize(Append(c, f), to)
  <1> DEFINE d == Append(c, f)
  <1>1. /\ Len(c) \in Nat /\ Len(d) = Len(c) + 1 /\ d[Len(d)] = f
        /\ \A i \in 1..Len(c) : d[i] = c[i]
    OBVIOUS
  <1> HIDE DEF d
  <1>2. f.kind = "resize" => LastSize(d, f.to)
    BY <1>1 DEF LastSize
  <1>3. f.kind # "resize" /\ HasSize(d) => HasSize(c)
    BY <1>1 DEF HasSize
  <1>4. ASSUME f.kind # "resize", NEW to, LastSize(c, to) PROVE LastSize(d, to)
    <2>1. PICK i \in 1..Len(c) : /\ c[i].kind = "resize" /\ c[i].to = to
                                 /\ \A j \in 1..Len(c) : j > i => c[j].kind # "resize"
      BY <1>4 DEF LastSize
    <2>2. i \in 1..Len(d) /\ d[i].kind = "resize" /\ d[i].to = to
      BY <1>1, <2>1
    <2>3. \A j \in 1..Len(d) : j > i => d[j].kind # "resize"
      BY <1>1, <1>4, <2>1
    <2> QED
      BY <2>2, <2>3 DEF LastSize
  <1> QED
    BY <1>2, <1>3, <1>4 DEF d

\* Every step keeps StatusInv.
LEMMA StatusStep == TypeOK /\ StatusInv /\ [Next]_vars => StatusInv'
  <1> SUFFICES ASSUME TypeOK, StatusInv, [Next]_vars PROVE StatusInv'
    OBVIOUS
  <1>t. /\ pty \in {"none", "up", "down"} /\ row \in Statuses
        /\ read \in [Socket -> Statuses \cup {NoStatus}]
        /\ down \in [Socket -> Seq(Statuses)]
        /\ NoStatus \notin Statuses
    BY TerminalAssumption DEF TypeOK, AgentType, WireType, Statuses, Active, Running
  <1>1. ASSUME NEW next \in Running \cup {"ended"}, Session(next) PROVE StatusInv'
    BY <1>1 DEF Session, StatusInv, Running, pageVars
  <1>2. CASE BroadcastJob
    <2>1. pty # "none"
      BY <1>2 DEF BroadcastJob, StatusInv
    <2> QED
      BY <1>2, <2>1 DEF BroadcastJob, StatusInv, agentVars
  <1>3. ASSUME NEW s \in Socket, SubscribeRead(s) PROVE StatusInv'
    BY <1>3, <1>t DEF SubscribeRead, StatusInv, agentVars, pageVars
  <1>4. ASSUME NEW s \in Socket, SubscribeFinish(s) PROVE StatusInv'
    <2>1. UNCHANGED <<pty, row, told, status, fetch>>
      BY <1>4 DEF SubscribeFinish, agentVars, pageVars
    <2>2. \A x \in Socket : read'[x] = read[x] \/ read'[x] = NoStatus
      BY <1>t, <1>4 DEF SubscribeFinish
    <2>3. ASSUME pty = "none", NEW x \in Socket, NEW i \in 1..Len(down'[x])
          PROVE  down'[x][i] = "queued"
      <3>1. down'[x] = down[x] \/ (x = s /\ down'[x] = Append(down[x], read[s]))
        BY <1>t, <1>4 DEF SubscribeFinish
      <3>2. read[s] = "queued"
        BY <1>4, <2>3 DEF SubscribeFinish, StatusInv
      <3>3. down[x] \in Seq(Statuses) /\ read[s] \in Statuses
        BY <1>t, <1>4 DEF SubscribeFinish
      <3>4. \A j \in 1..Len(down[x]) : down[x][j] = "queued"
        BY <2>3 DEF StatusInv
      <3> QED
        BY <2>3, <3>1, <3>2, <3>3, <3>4
    <2> QED
      BY <2>1, <2>2, <2>3 DEF StatusInv
  <1>5. ASSUME NEW s \in Socket, OnStatus(s) PROVE StatusInv'
    <2>1. UNCHANGED <<pty, row, told, fetch, read>> /\ status' \in {status, Head(down[s])}
      BY <1>5 DEF OnStatus, Learn, agentVars, serverVars
    <2>2. /\ \A x \in Socket : x # s => down'[x] = down[x]
          /\ down'[s] = Tail(down[s]) /\ down[s] # <<>> /\ down[s] \in Seq(Statuses)
      BY <1>t, <1>5 DEF OnStatus
    <2>3. /\ Len(down[s]) > 0 /\ Head(down[s]) = down[s][1] /\ Len(down'[s]) = Len(down[s]) - 1
          /\ \A i \in 1..Len(down'[s]) : down'[s][i] = down[s][i + 1]
          /\ Len(down[s]) \in Nat
      BY <2>2, EmptySeq
    <2>4. \A i \in 1..Len(down'[s]) : i + 1 \in 1..Len(down[s])
      BY <2>3
    <2>5. pty = "none" => Head(down[s]) = "queued"
      BY <2>3 DEF StatusInv
    <2>6. pty = "none" => \A x \in Socket : \A i \in 1..Len(down'[x]) : down'[x][i] = "queued"
      <3> SUFFICES ASSUME pty = "none", NEW x \in Socket, NEW i \in 1..Len(down'[x])
                   PROVE  down'[x][i] = "queued"
        OBVIOUS
      <3>1. \A j \in 1..Len(down[x]) : down[x][j] = "queued"
        BY DEF StatusInv
      <3>2. CASE x # s
        BY <2>2, <3>1, <3>2
      <3>3. CASE x = s
        BY <2>3, <2>4, <3>1, <3>3
      <3> QED
        BY <3>2, <3>3
    <2> QED
      BY <2>1, <2>5, <2>6 DEF StatusInv
  <1>6. ASSUME NEW s \in Socket, OnClose(s) PROVE StatusInv'
    <2>1. \A x \in Socket : down'[x] = down[x] \/ down'[x] = <<>>
      BY <1>t, <1>6 DEF OnClose
    <2> QED
      BY <1>6, <2>1 DEF OnClose, StatusInv, agentVars, pageVars
  <1>7. CASE Mount
    BY <1>7 DEF Mount, StatusInv, agentVars, serverVars
  <1>8. CASE Refetch
    BY <1>8 DEF Refetch, StatusInv, agentVars, serverVars
  <1>9. CASE Fetched
    BY <1>9 DEF Fetched, Learn, StatusInv, agentVars, serverVars
  <1>10. CASE UNCHANGED <<pty, row, told, status, fetch, read, down>>
    BY <1>10 DEF StatusInv
  <1> QED
    BY <1>1, <1>2, <1>3, <1>4, <1>5, <1>6, <1>7, <1>8, <1>9, <1>10
    DEF Next, vars, agentVars, serverVars, pageVars, forwardInput, forwardResize, writeInput,
        OnOpen, OnOpenDisposed, Reconnect, OnOffline, OnOnline, Type, Resize

\* connect() opens no socket: the one it makes is connecting.
LEMMA ConnectSize ==
  ASSUME NEW known, NEW sockets \in [Socket -> SocketRecord], Connect(known, sockets)
  PROVE  \/ \E s \in Socket : ref' = s /\ sock'[s].state = "connecting"
         \/ sock' = sockets /\ ref' = ref /\ ~ (known \in Active /\ online')
  BY DEF Connect, Unused

\* What the page learns leaves it with the socket it has, or with one not open yet.
LEMMA LearnSize ==
  ASSUME SocketType, NEW known, Learn(known), online' = online
  PROVE  \/ UNCHANGED <<status, sock, ref>>
         \/ \A s \in Socket : ref' = s => sock'[s].state # "open"
  <1>1. CASE Unaffected(known)
    BY <1>1 DEF Learn, Unaffected, socketVars
  <1>2. CASE ~ Unaffected(known) /\ known \in Active /\ online
    <2>1. Connect(known, Disposed)
      BY <1>2 DEF Learn
    <2> QED
      BY <1>2, <2>1, ConnectSize, DisposedType
  <1>3. CASE ~ Unaffected(known) /\ ~ (known \in Active /\ online)
    BY <1>3, TerminalAssumption DEF Learn
  <1> QED
    BY <1>1, <1>2, <1>3

\* Every step keeps SizeInv.
LEMMA SizeStep == TypeOK /\ StatusInv /\ SizeInv /\ [Next]_vars => SizeInv'
  <1> SUFFICES ASSUME TypeOK, StatusInv, SizeInv, [Next]_vars,
                      NEW s \in Socket, ref' = s, sock'[s].state = "open"
               PROVE  /\ HasSize(chain'[s]) => LastSize(chain'[s], window')
                      /\ \/ window' = NoSize \/ pty' # "up" \/ size' = window' \/ outrun'
                         \/ status' = "queued" \/ LastSize(chain'[s], window')
    BY DEF SizeInv, HasSize, LastSize
  <1> DEFINE Goal == /\ HasSize(chain'[s]) => LastSize(chain'[s], window')
                     /\ \/ window' = NoSize \/ pty' # "up" \/ size' = window' \/ outrun'
                        \/ status' = "queued" \/ LastSize(chain'[s], window')
  <1>t. /\ SocketType /\ sock \in [Socket -> SocketRecord] /\ ref \in Socket \cup {NoSocket}
        /\ chain \in [Socket -> Seq(Frames)] /\ NoSocket \notin Socket
        /\ HandlerType
    BY TerminalAssumption DEF TypeOK, SocketType, WireType
  <1>h. ref = s /\ sock[s].state = "open" =>
          /\ HasSize(chain[s]) => LastSize(chain[s], window)
          /\ window = NoSize \/ pty # "up" \/ size = window \/ outrun \/ status = "queued"
               \/ LastSize(chain[s], window)
    BY DEF SizeInv
  <1>1. ASSUME NEW next \in Running \cup {"ended"}, Session(next) PROVE Goal
    <2>1. UNCHANGED <<ref, sock, chain, window, size, outrun, status>>
      BY <1>1 DEF Session, socketVars, pageVars, historyVars
    <2>2. pty = "none" => status = "queued"
      BY <1>t, <2>1, TerminalAssumption DEF StatusInv, SocketType, TypeOK, PageType
    <2>3. pty' = "up" => pty = "none" \/ pty = "up"
      BY <1>1 DEF Session, TypeOK, AgentType
    <2> QED
      BY <1>h, <2>1, <2>2, <2>3
  <1>2. ASSUME NEW x \in Socket, SubscribeFinish(x) PROVE Goal
    <2>1. /\ UNCHANGED <<ref, sock, window, size, outrun, status, pty>>
          /\ chain'[s] = IF s = x THEN Tail(chain[s]) ELSE chain[s]
      BY <1>t, <1>2 DEF SubscribeFinish, agentVars, socketVars, pageVars, historyVars
    <2>2. chain[x] # <<>> /\ Head(chain[x]).kind = "subscribe"
      BY <1>t, <1>2 DEF SubscribeFinish, HandlerType
    <2> QED
      BY <1>t, <1>h, <2>1, <2>2, TailSize
  <1>3. ASSUME NEW x \in Socket, forwardInput(x) PROVE Goal
    <2>1. /\ UNCHANGED <<ref, window, size, outrun, status, pty>>
          /\ chain'[s] = IF s = x THEN Tail(chain[s]) ELSE chain[s]
          /\ chain[x] # <<>> /\ Head(chain[x]).kind = "input"
      BY <1>t, <1>3 DEF forwardInput, HeadIs, pageVars
    <2>2. sock[s].state = "open"
      BY <1>t, <1>3 DEF forwardInput, SocketRecord
    <2> QED
      BY <1>t, <1>h, <2>1, <2>2, TailSize
  <1>4. ASSUME NEW x \in Socket, forwardResize(x) PROVE Goal
    <2>1. /\ UNCHANGED <<ref, sock, window, status, pty>>
          /\ chain'[s] = IF s = x THEN Tail(chain[s]) ELSE chain[s]
          /\ chain[x] # <<>> /\ Head(chain[x]).kind = "resize"
          /\ outrun' = IF pty = "up" THEN ref # x ELSE outrun
      BY <1>t, <1>4 DEF forwardResize, HeadIs, pageVars, socketVars
    <2>2. pty = "up" => size' = Head(chain[x]).to
      BY <1>4 DEF forwardResize, resize, StatusInv, Running
    <2>3. pty # "up" => size' = size
      BY <1>4 DEF forwardResize, resize
    <2>4. CASE s = x
      <3> DEFINE c == chain[s]
      <3>1. /\ c \in Seq(Frames) /\ c # <<>> /\ Head(c).kind = "resize"
            /\ HasSize(c) => LastSize(c, window)
        BY <1>t, <1>h, <2>1, <2>4
      <3> HIDE DEF c
      <3>2. /\ HasSize(Tail(c)) => LastSize(Tail(c), window)
            /\ LastSize(Tail(c), window) \/ Head(c).to = window
        BY <3>1, TailSize
      <3>3. chain'[s] = Tail(c) /\ (pty = "up" => size' = Head(c).to)
        BY <2>1, <2>2, <2>4 DEF c
      <3> QED
        BY <2>1, <3>2, <3>3
    <2>5. CASE s # x
      BY <1>h, <2>1, <2>3, <2>5
    <2> QED
      BY <2>4, <2>5
  <1>5. ASSUME NEW x \in Socket, OnOpen(x) PROVE Goal
    <2>1. /\ UNCHANGED <<ref, window, size, outrun, status, pty>>
          /\ s # x => chain'[s] = chain[s] /\ sock'[s] = sock[s]
          /\ s = x => chain'[s] = <<[kind |-> "subscribe"]>> \o
               IF window = NoSize THEN <<>> ELSE <<[kind |-> "resize", to |-> window]>>
      BY <1>t, <1>5 DEF OnOpen, agentVars, pageVars, historyVars
    <2>2. CASE s = x /\ window = NoSize
      <3>1. \A f : <<f>> \o <<>> = <<f>>
        OBVIOUS
      <3>2. chain'[s] = <<[kind |-> "subscribe"]>>
        BY <2>1, <2>2, <3>1
      <3>3. ~ HasSize(chain'[s])
        BY <3>2 DEF HasSize
      <3> QED
        BY <2>1, <2>2, <3>3
    <2>3. CASE s = x /\ window # NoSize
      <3> DEFINE f == [kind |-> "subscribe"]
                 g == [kind |-> "resize", to |-> window]
      <3>1. f \in Frames /\ g \in Frames
        BY <2>3 DEF Frames, TypeOK, PageType
      <3>2. g.kind = "resize" /\ g.to = window
        OBVIOUS
      <3>3. chain'[s] = <<f>> \o <<g>>
        BY <2>1, <2>3
      <3> HIDE DEF f, g
      <3>4. Len(chain'[s]) = 2 /\ chain'[s][2] = g
        BY <3>1, <3>3
      <3>5. LastSize(chain'[s], window)
        BY <3>2, <3>4 DEF LastSize
      <3> QED
        BY <2>1, <3>5
    <2> QED
      BY <1>h, <2>1, <2>2, <2>3
  <1>6. ASSUME NEW x \in Socket, OnOpenDisposed(x) PROVE Goal
    <2>1. UNCHANGED <<ref, chain, window, size, outrun, status, pty>>
      BY <1>6 DEF OnOpenDisposed, agentVars, pageVars, historyVars
    <2>2. sock[s].state = "open"
      BY <1>t, <1>6 DEF OnOpenDisposed, SocketRecord
    <2> QED
      BY <1>h, <2>1, <2>2
  <1>7. ASSUME NEW x \in Socket, OnStatus(x) PROVE Goal
    <2>1. UNCHANGED <<chain, window, size, outrun, pty, online>>
      BY <1>7 DEF OnStatus, agentVars, historyVars
    <2>2. UNCHANGED <<status, sock, ref>>
      BY <1>t, <1>7, <2>1, LearnSize DEF OnStatus, socketVars
    <2> QED
      BY <1>h, <2>1, <2>2
  <1>8. ASSUME NEW x \in Socket, OnClose(x) PROVE Goal
    <2>1. x # s /\ ref = s /\ sock[s].state = "open"
      BY <1>t, <1>8 DEF OnClose, RefAfterClose, Gone
    <2>2. UNCHANGED <<window, size, outrun, status, pty>> /\ chain'[s] = chain[s]
      BY <1>t, <1>8, <2>1 DEF OnClose, agentVars, pageVars, historyVars
    <2> QED
      BY <1>h, <2>1, <2>2
  <1>9. CASE Mount
    <2>1. Connect(row, Disposed) /\ row \in Active /\ online'
      BY <1>9 DEF Mount, TypeOK, WireType, Statuses
    <2> QED
      BY <1>t, <2>1, ConnectSize, DisposedType
  <1>10. CASE Reconnect \/ OnOnline
    <2>1. UNCHANGED <<chain, window, size, outrun, status, pty>> /\ Connect(status, sock)
      BY <1>10 DEF Reconnect, OnOnline, agentVars, historyVars
    <2>2. UNCHANGED <<sock, ref>>
      BY <1>t, <2>1, ConnectSize
    <2> QED
      BY <1>h, <2>1, <2>2
  <1>11. CASE OnOffline
    <2>1. ref = s /\ sock'[s].state = "closing"
      BY <1>t, <1>11 DEF OnOffline, SocketRecord
    <2> QED
      BY <2>1
  <1>12. CASE Fetched
    <2>1. UNCHANGED <<chain, window, size, outrun, pty, online>> /\ Learn(fetch)
      BY <1>12 DEF Fetched, agentVars, historyVars
    <2>2. UNCHANGED <<status, sock, ref>>
      BY <1>t, <2>1, LearnSize
    <2> QED
      BY <1>h, <2>1, <2>2
  <1>13. CASE Type
    <2> DEFINE f == [kind |-> "input", mount |-> mount, n |-> typed + 1]
    <2>1. UNCHANGED <<sock, ref, window, size, outrun, status, pty>> /\ chain' = Sent(f)
      BY <1>13 DEF Type, agentVars, socketVars, historyVars
    <2>2. f \in Frames /\ f.kind # "resize"
      BY <1>13, TerminalAssumption DEF Type, Frames, TypeOK, PageType, Running
    <2> HIDE DEF f
    <2>3. chain'[s] = Append(chain[s], f)
      BY <1>t, <2>1 DEF Sent
    <2>4. /\ HasSize(chain'[s]) => HasSize(chain[s])
          /\ LastSize(chain[s], window) => LastSize(chain'[s], window)
      <3> DEFINE c == chain[s]
      <3>1. c \in Seq(Frames)
        BY <1>t
      <3> HIDE DEF c
      <3>2. /\ HasSize(Append(c, f)) => HasSize(c)
            /\ LastSize(c, window) => LastSize(Append(c, f), window)
        BY <2>2, <3>1, AppendSize
      <3> QED
        BY <2>3, <3>2 DEF c
    <2> QED
      BY <1>h, <2>1, <2>4
  <1>14. ASSUME NEW to \in Size, Resize(to) PROVE Goal
    <2> DEFINE f == [kind |-> "resize", to |-> to]
    <2>1. UNCHANGED <<sock, ref, size, outrun, status, pty>> /\ chain' = Sent(f) /\ window' = to
      BY <1>14 DEF Resize, agentVars, socketVars, historyVars
    <2>2. f \in Frames /\ f.kind = "resize" /\ f.to = to
      BY DEF Frames
    <2> HIDE DEF f
    <2>3. chain'[s] = Append(chain[s], f)
      BY <1>t, <2>1 DEF Sent
    <2>4. LastSize(chain'[s], to)
      <3> DEFINE c == chain[s]
      <3>1. c \in Seq(Frames)
        BY <1>t
      <3> HIDE DEF c
      <3>2. LastSize(Append(c, f), to)
        BY <2>2, <3>1, AppendSize
      <3> QED
        BY <2>3, <3>2 DEF c
    <2> QED
      BY <2>1, <2>4
  <1>15. CASE UNCHANGED <<chain, sock, ref, window, size, outrun, status, pty>>
    BY <1>h, <1>15
  <1> QED
    BY <1>1, <1>2, <1>3, <1>4, <1>5, <1>6, <1>7, <1>8, <1>9, <1>10, <1>11, <1>12, <1>13, <1>14, <1>15
    DEF Next, vars, agentVars, serverVars, socketVars, pageVars, historyVars, BroadcastJob,
        SubscribeRead, Refetch

\* When the page is connected to a running job and all is quiet, the terminal has
\* the window's size, however sizes, statuses and sockets crossed before, unless the
\* last size it was given came over a socket that the page had replaced.
THEOREM SizeCorrect == Spec => []SizeAgrees
  <1>1. Init => StatusInv /\ SizeInv
    BY TerminalAssumption DEF Init, StatusInv, SizeInv, Gone
  <1>2. TypeOK /\ StatusInv /\ SizeInv => SizeAgrees
    <2> SUFFICES ASSUME TypeOK, StatusInv, SizeInv, Quiet, pty = "up", status = row,
                        window # NoSize, ref # NoSocket, sock[ref].state = "open"
                 PROVE  size = window \/ outrun
      BY DEF SizeAgrees
    <2>1. ref \in Socket
      BY DEF TypeOK, SocketType
    <2>2. chain[ref] = <<>>
      BY <2>1 DEF Quiet
    <2>3. ~ LastSize(chain[ref], window)
      BY <2>2 DEF LastSize
    <2>4. status # "queued"
      BY DEF StatusInv, Running
    <2> QED
      BY <2>1, <2>3, <2>4 DEF SizeInv
  <1> QED
    BY <1>1, <1>2, StatusStep, SizeStep, TypeCorrect, PTL DEF Spec
=============================================================================
