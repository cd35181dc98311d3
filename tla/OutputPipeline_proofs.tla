------------------------ MODULE OutputPipeline_proofs ------------------------
(***************************************************************************)
(* What holds of OutputPipeline for every number of chunks, every length   *)
(* they may have and every limit: its types; that retention keeps exact    *)
(* accounts; that the agent's buffer backstops what a connection lost;     *)
(* that a job ends with its output written; and what a viewer may miss.    *)
(***************************************************************************)
EXTENDS OutputPipeline, FiniteSetTheorems, SequenceTheorems, WellFoundedInduction, TLAPS

-----------------------------------------------------------------------------
(* Least and greatest elements                                             *)

\* A finite set of integers that is not empty has a least element: a smallest
\* one among the sets of elements up to some element.
LEMMA LeastElement ==
  ASSUME NEW S \in SUBSET Int, IsFiniteSet(S), S # {}
  PROVE  \E m \in S : \A k \in S : m <= k
<1> DEFINE Upto(c) == {j \in S : j <= c}
           T == {Upto(c) : c \in S}
<1>1. T \subseteq FiniteSubsetsOf(S)
  <2>1. T \subseteq SUBSET S
    OBVIOUS
  <2> QED BY <2>1, FS_FiniteSubsetsOfFinite
<1>2. T # {}
  OBVIOUS
<1>3. PICK x \in T : \A y \in T : ~(<<y, x>> \in StrictSubsetOrdering(S))
  BY <1>1, <1>2, FS_StrictSubsetOrderingWellFounded, WFMin, Zenon
<1>4. PICK m \in S : x = Upto(m)
  BY <1>3
<1>5. ASSUME NEW k \in S, k < m
      PROVE  FALSE
  <2>1. m \in Upto(m) /\ m \notin Upto(k)
    BY <1>5
  <2>2. \A j \in Upto(k) : j \in Upto(m)
    BY <1>5
  <2>3. <<Upto(k), Upto(m)>> \in StrictSubsetOrdering(S)
    BY <2>1, <2>2 DEF StrictSubsetOrdering
  <2> QED BY <2>3, <1>3, <1>4
<1> QED BY <1>5

\* ... and a greatest one.
LEMMA GreatestElement ==
  ASSUME NEW S \in SUBSET Int, IsFiniteSet(S), S # {}
  PROVE  \E m \in S : \A k \in S : m >= k
<1> DEFINE Downto(c) == {j \in S : j >= c}
           T == {Downto(c) : c \in S}
<1>1. T \subseteq FiniteSubsetsOf(S)
  <2>1. T \subseteq SUBSET S
    OBVIOUS
  <2> QED BY <2>1, FS_FiniteSubsetsOfFinite
<1>2. T # {}
  OBVIOUS
<1>3. PICK x \in T : \A y \in T : ~(<<y, x>> \in StrictSubsetOrdering(S))
  BY <1>1, <1>2, FS_StrictSubsetOrderingWellFounded, WFMin, Zenon
<1>4. PICK m \in S : x = Downto(m)
  BY <1>3
<1>5. ASSUME NEW k \in S, k > m
      PROVE  FALSE
  <2>1. m \in Downto(m) /\ m \notin Downto(k)
    BY <1>5
  <2>2. \A j \in Downto(k) : j \in Downto(m)
    BY <1>5
  <2>3. <<Downto(k), Downto(m)>> \in StrictSubsetOrdering(S)
    BY <2>1, <2>2 DEF StrictSubsetOrdering
  <2> QED BY <2>3, <1>3, <1>4
<1> QED BY <1>5

\* The sets of chunks are finite.
LEMMA ChunksFinite ==
  /\ \A S \in SUBSET (Chunk \cup {NoChunk}) : IsFiniteSet(S) /\ S \in SUBSET Int
  /\ \A S \in SUBSET Chunk : IsFiniteSet(S) /\ Cardinality(S) \in Nat /\ S \in SUBSET Nat
<1>1. Chunk \cup {NoChunk} \subseteq -1..MaxChunks-1
  BY OutputAssumption DEF Chunk, NoChunk
<1>2. IsFiniteSet(-1..MaxChunks-1)
  BY OutputAssumption, FS_Interval
<1>3. \A S \in SUBSET (Chunk \cup {NoChunk}) : IsFiniteSet(S) /\ S \in SUBSET Int
  <2> TAKE S \in SUBSET (Chunk \cup {NoChunk})
  <2>1. S \subseteq -1..MaxChunks-1
    BY <1>1
  <2>2. IsFiniteSet(S)
    BY <2>1, <1>2, FS_Subset
  <2> QED BY <2>1, <2>2, OutputAssumption
<1>4. \A S \in SUBSET Chunk : IsFiniteSet(S) /\ Cardinality(S) \in Nat
  BY <1>3, FS_CardinalityType
<1> QED BY <1>3, <1>4 DEF Chunk

\* Max of chunks and NoChunk.
LEMMA MaxInSet ==
  ASSUME NEW S \in SUBSET (Chunk \cup {NoChunk}), S # {}
  PROVE  Max(S) \in S
<1>1. \E x \in S : \A y \in S : x >= y
  BY ChunksFinite, GreatestElement
<1> QED BY <1>1 DEF Max

-----------------------------------------------------------------------------
(* Lengths of sets of chunks, and what retention removes                   *)

\* No chunks have no length.
LEMMA BytesEmpty == Bytes[{}] = 0
<1>1. {} \in SUBSET Chunk /\ {} \cap {} = {} /\ {} \cup {} = {}
  OBVIOUS
<1>2. Bytes[{}] = Bytes[{}] + Bytes[{}] /\ Bytes[{}] \in Nat
  BY <1>1, BytesAssumption
<1>3. \A b \in Nat : b = b + b => b = 0
  OBVIOUS
<1> QED BY <1>2, <1>3

\* A part of a set of chunks is no longer than the whole.
LEMMA BytesMonotone ==
  ASSUME NEW T \in SUBSET Chunk, NEW S \in SUBSET T
  PROVE  /\ Bytes[S] \in Nat /\ Bytes[T] \in Nat
         /\ Bytes[T \ S] = Bytes[T] - Bytes[S]
         /\ Bytes[S] <= Bytes[T]
<1>1. S \in SUBSET Chunk /\ T \ S \in SUBSET Chunk /\ S \cap (T \ S) = {}
  OBVIOUS
<1>2. S \cup (T \ S) = T
  OBVIOUS
<1>3. Bytes[T] = Bytes[S] + Bytes[T \ S]
  BY <1>1, <1>2, BytesAssumption
<1>4. Bytes[S] \in Nat /\ Bytes[T] \in Nat /\ Bytes[T \ S] \in Nat
  BY <1>1, BytesAssumption
<1> QED BY <1>3, <1>4

\* The eviction loop of persistChunks reclaims what it set out to.
LEMMA OldestReclaims ==
  ASSUME NEW rows \in SUBSET Chunk, NEW reclaim \in Nat, reclaim <= Bytes[rows]
  PROVE  /\ Oldest(rows, reclaim) \in SUBSET rows
         /\ Bytes[Oldest(rows, reclaim)] >= reclaim
<1> DEFINE O == Oldest(rows, reclaim)
<1>1. O \in SUBSET rows
  BY DEF Oldest
<1>2. CASE rows \ O = {}
  <2>1. O = rows BY <1>1, <1>2
  <2> QED BY <2>1, BytesMonotone
<1>3. CASE rows \ O # {}
  <2>1. rows \ O \in SUBSET Int /\ IsFiniteSet(rows \ O)
    BY ChunksFinite
  <2>2. PICK c \in rows \ O : \A k \in rows \ O : c <= k
    BY <2>1, <1>3, LeastElement
  <2> DEFINE P == {k \in rows : k < c}
  <2>3. P \in SUBSET O
    BY <2>1, <2>2, OutputAssumption DEF Chunk
  <2>4. Bytes[P] >= reclaim
    <3>1. ~(Bytes[P] < reclaim)
      BY <2>2 DEF Oldest
    <3>2. Bytes[P] \in Nat
      BY BytesMonotone
    <3> QED BY <3>1, <3>2
  <2>5. Bytes[P] <= Bytes[O] /\ Bytes[P] \in Nat /\ Bytes[O] \in Nat
    BY <2>3, <1>1, BytesMonotone
  <2>6. Bytes[O] >= reclaim
    BY <2>4, <2>5
  <2> QED BY <1>1, <2>6
<1> QED BY <1>1, <1>2, <1>3

\* What the eviction of persistChunks removes is among the rows, and leaves at
\* most the limit.
LEMMA RemovedFits ==
  ASSUME NEW rows \in SUBSET Chunk
  PROVE  /\ Removed(rows, Bytes[rows]) \in SUBSET rows
         /\ Bytes[rows] - Bytes[Removed(rows, Bytes[rows])] <= MaximumOutputBytes
<1>1. Bytes[rows] \in Nat /\ MaximumOutputBytes \in Nat
  BY BytesAssumption, OutputAssumption
<1>2. CASE Bytes[rows] > MaximumOutputBytes
  <2> DEFINE reclaim == Bytes[rows] - MaximumOutputBytes
  <2>1. reclaim \in Nat /\ reclaim <= Bytes[rows]
    BY <1>1, <1>2
  <2>2. /\ Oldest(rows, reclaim) \in SUBSET rows
        /\ Bytes[Oldest(rows, reclaim)] >= reclaim
    BY <2>1, OldestReclaims
  <2>3. Bytes[Oldest(rows, reclaim)] \in Nat
    BY <2>2, BytesMonotone
  <2>4. Bytes[rows] - Bytes[Oldest(rows, reclaim)] <= MaximumOutputBytes
    BY <1>1, <2>2, <2>3
  <2> QED BY <1>2, <2>2, <2>4 DEF Removed
<1>3. CASE ~(Bytes[rows] > MaximumOutputBytes)
  <2>1. Removed(rows, Bytes[rows]) = {}
    BY <1>3 DEF Removed
  <2>2. Bytes[{}] \in Nat
    BY BytesAssumption
  <2> QED BY <1>1, <1>3, <2>1, <2>2
<1> QED BY <1>2, <1>3

-----------------------------------------------------------------------------
(* Retention                                                               *)

\* The chunks that are not rows yet, and the rows that go to make room for them.
New(rows, chunks) == chunks \ rows

Gone(rows, chunks) ==
  IF New(rows, chunks) = {} THEN {}
  ELSE Removed(rows \cup New(rows, chunks), Bytes[rows] + Bytes[New(rows, chunks)])

\* The transaction of persistChunks keeps the accounts: the running total goes
\* up by what is inserted and down by what is removed, each counted once.
LEMMA PersistAccounts ==
  ASSUME NEW rows \in SUBSET Chunk, NEW chunks \in SUBSET Chunk,
         Bytes[rows] <= MaximumOutputBytes
  PROVE  /\ New(rows, chunks) \in SUBSET Chunk
         /\ Gone(rows, chunks) \in SUBSET Chunk
         /\ (rows \cup New(rows, chunks)) \ Gone(rows, chunks) \in SUBSET Chunk
         /\ (Bytes[rows] + Bytes[New(rows, chunks)]) - Bytes[Gone(rows, chunks)]
              = Bytes[(rows \cup New(rows, chunks)) \ Gone(rows, chunks)]
         /\ Bytes[(rows \cup New(rows, chunks)) \ Gone(rows, chunks)] \in Nat
         /\ Bytes[(rows \cup New(rows, chunks)) \ Gone(rows, chunks)] <= MaximumOutputBytes
<1> DEFINE new == New(rows, chunks)
           gone == Gone(rows, chunks)
<1>1. new \in SUBSET Chunk /\ rows \cup new \in SUBSET Chunk /\ rows \cap new = {}
  BY DEF New
<1>2. gone = IF new = {} THEN {} ELSE Removed(rows \cup new, Bytes[rows] + Bytes[new])
  BY DEF Gone
<1> HIDE DEF new, gone
<1>3. Bytes[rows \cup new] = Bytes[rows] + Bytes[new]
  BY <1>1, BytesAssumption
<1>4. Bytes[rows] \in Nat /\ MaximumOutputBytes \in Nat /\ Bytes[rows \cup new] \in Nat
  BY <1>1, BytesAssumption, OutputAssumption
<1>5. /\ gone \in SUBSET (rows \cup new)
      /\ Bytes[rows \cup new] - Bytes[gone] <= MaximumOutputBytes
  <2>1. CASE new = {}
    <3>1. rows \cup new = rows /\ gone = {}
      BY <1>2, <2>1
    <3>2. Bytes[{}] \in Nat
      BY BytesAssumption
    <3>3. Bytes[rows \cup new] = Bytes[rows] /\ Bytes[gone] = Bytes[{}]
      BY <3>1
    <3>4. Bytes[rows \cup new] - Bytes[gone] <= MaximumOutputBytes
      BY <3>2, <3>3, <1>4
    <3> QED BY <3>1, <3>4
  <2>2. CASE new # {}
    <3>1. gone = Removed(rows \cup new, Bytes[rows \cup new])
      BY <1>2, <1>3, <2>2
    <3> QED BY <3>1, <1>1, RemovedFits
  <2> QED BY <2>1, <2>2
<1>6. /\ Bytes[(rows \cup new) \ gone] = Bytes[rows \cup new] - Bytes[gone]
      /\ Bytes[(rows \cup new) \ gone] \in Nat
  <2>1. (rows \cup new) \ gone \in SUBSET (rows \cup new)
    OBVIOUS
  <2> QED BY <1>1, <1>5, <2>1, BytesMonotone
<1>7. (Bytes[rows] + Bytes[new]) - Bytes[gone] = Bytes[(rows \cup new) \ gone]
  BY <1>3, <1>6
<1>8. Bytes[(rows \cup new) \ gone] <= MaximumOutputBytes
  BY <1>5, <1>6
<1>9. gone \in SUBSET Chunk /\ (rows \cup new) \ gone \in SUBSET Chunk
  BY <1>1, <1>5
<1> QED BY <1>1, <1>6, <1>7, <1>8, <1>9 DEF new, gone

-----------------------------------------------------------------------------
(* Sequences and frames                                                    *)

\* The head and the rest of a non-empty sequence.
LEMMA HeadTail ==
  ASSUME NEW S, NEW q \in Seq(S), q # <<>>
  PROVE  Head(q) \in S /\ Tail(q) \in Seq(S)
  OBVIOUS

\* One element more, in front or behind.
LEMMA Extended ==
  ASSUME NEW S, NEW e \in S, NEW q \in Seq(S)
  PROVE  <<e>> \o q \in Seq(S) /\ Append(q, e) \in Seq(S)
  OBVIOUS

\* The frames that carry a chunk, and those that carry nothing.
LEMMA FrameTypes ==
  /\ \A n \in Chunk : [kind |-> "output", seq |-> n] \in Frame
  /\ \A n \in Chunk : [kind |-> "sync", seq |-> n] \in Frame
  /\ \A b \in BOOLEAN : [kind |-> "hello", running |-> b] \in Frame
  /\ [kind |-> "resume"] \in Frame
  /\ [kind |-> "done"] \in Frame
  /\ [kind |-> "ended"] \in Frame
  /\ [kind |-> "reconcile"] \in Frame
  /\ \A f \in Frame : f.kind \in {"output", "sync"} => f.seq \in Chunk
  BY DEF Frame

\* A sync of the buffer names only chunks the command printed.
LEMMA SyncFramesType ==
  ASSUME AgentType, NEW after \in Chunk \cup {NoChunk}
  PROVE  SyncFrames(after) \in Seq(Frame)
<1> DEFINE low == IF after + 1 > ringLow THEN after + 1 ELSE ringLow
           len == IF next > low THEN next - low ELSE 0
<1>1. next \in 0..MaxChunks /\ ringLow \in Nat /\ after \in Int /\ after + 1 >= 0
  BY OutputAssumption DEF AgentType, Chunk, NoChunk
<1>2. low \in Nat /\ len \in Nat /\ 1..next - low = 1..len
  BY <1>1, OutputAssumption
<1>3. \A i \in 1..len : low + i - 1 \in Chunk
  BY <1>1, <1>2, OutputAssumption DEF Chunk
<1>4. \A i \in 1..len : [kind |-> "sync", seq |-> low + i - 1] \in Frame
  BY <1>3, FrameTypes
<1>5. SyncFrames(after) = [i \in 1..len |-> [kind |-> "sync", seq |-> low + i - 1]]
  BY <1>2 DEF SyncFrames
<1>6. SyncFrames(after) \in [1..len -> Frame]
  BY <1>4, <1>5
<1> HIDE DEF low, len
<1> QED BY <1>2, <1>6, SeqDef

\* Client.Send of a frame leaves frames on the wire.
LEMMA SentType ==
  ASSUME NetType, NEW f \in Frame
  PROVE  Sent(f) \in Seq(Frame)
  BY Extended DEF Sent, NetType

\* sendToAgent of a message leaves messages.
LEMMA SentToAgentType ==
  ASSUME NetType, NEW order \in Order
  PROVE  SentToAgent(order) \in Seq(Order)
  BY Extended DEF SentToAgent, NetType

\* A frame of the agent's socket that is being handled, and the frames behind it.
LEMMA HandledFrame ==
  ASSUME NetType, NEW kind, Handling(kind)
  PROVE  /\ wire # <<>>
         /\ Head(wire) \in Frame
         /\ Head(wire).kind = kind
         /\ Tail(wire) \in Seq(Frame)
         /\ ~FrameWaits
  BY HeadTail DEF NetType, Handling, HeadIs

\* A flush of chunks is an operation.
LEMMA FlushType ==
  ASSUME NEW w \in {"none", "frame", "viewer"}, NEW S \in SUBSET Chunk
  PROVE  /\ Flush(w, S) \in Operation
         /\ Flush(w, S).waiter = w
  BY DEF Flush, Operation

\* A sync of a chunk is an operation.
LEMMA SyncType ==
  ASSUME NEW n \in Chunk
  PROVE  Sync({n}) \in Operation /\ Sync({n}).waiter = "frame"
  BY DEF Sync, Operation

\* What a viewer accepts of a queue of chunks are chunks.
LEMMA AcceptedType ==
  ASSUME NEW m \in Seq(Chunk), NEW last
  PROVE  Accepted(m, last) \in SUBSET Chunk
  BY DEF Accepted

\* The number of the truncation notice is that of a chunk.
LEMMA NoticeType ==
  ASSUME stored \in SUBSET Chunk
  PROVE  Notice \in SUBSET Chunk
<1>1. CASE stored = {}
  BY <1>1, OutputAssumption DEF Notice, Chunk
<1>2. CASE stored # {}
  <2>1. PICK m \in stored : \A k \in stored : m <= k
    BY <1>2, ChunksFinite, LeastElement
  <2>2. Min(stored) \in stored
    BY <2>1 DEF Min
  <2>3. Min(stored) \in 0..MaxChunks-1
    BY <2>2 DEF Chunk
  <2> QED BY <1>2, <2>3, OutputAssumption DEF Notice, Chunk
<1> QED BY <1>1, <1>2

-----------------------------------------------------------------------------
(* Type correctness                                                        *)

\* The handler of one frame awaits at most one operation, and its frame stays at
\* the head of the socket's chain until the operation has ended.
OneAwaited ==
  /\ \A i, j \in DOMAIN queue :
       queue[i].waiter = "frame" /\ queue[j].waiter = "frame" => i = j
  /\ FrameWaits => wire # <<>>

\* What every step keeps.  The running total can only be known not to fall below
\* zero while it is exact, and a resumed handler only to have a frame while
\* OneAwaited holds.
Accounts == TypeOK /\ RetentionExact /\ OneAwaited

\* A step that leaves a component's variables alone keeps their types.
LEMMA TypeKept ==
  /\ AgentType /\ UNCHANGED <<agentVars, clientVars>> => AgentType'
  /\ NetType /\ UNCHANGED netVars => NetType'
  /\ ServerType /\ UNCHANGED serverVars => ServerType'
  /\ RowType /\ UNCHANGED rowVars => RowType'
  /\ RetentionExact /\ UNCHANGED rowVars => RetentionExact'
  /\ ViewerType /\ UNCHANGED viewerVars => ViewerType'
  /\ HistoryType /\ UNCHANGED historyVars => HistoryType'
  BY DEF AgentType, NetType, ServerType, RowType, RetentionExact, ViewerType, HistoryType,
         agentVars, clientVars, netVars, serverVars, rowVars, viewerVars, historyVars

\* A step that leaves the operations alone and does not empty the chain.
LEMMA AwaitedKept ==
  ASSUME OneAwaited, queue' = queue, wire # <<>> /\ FrameWaits => wire' # <<>>
  PROVE  OneAwaited'
  BY DEF OneAwaited, FrameWaits

\* Another operation nobody but the viewer awaits.
LEMMA AwaitedAppend ==
  ASSUME OneAwaited, ServerType, NEW op \in Operation, op.waiter # "frame",
         queue' = Append(queue, op), wire # <<>> /\ FrameWaits => wire' # <<>>
  PROVE  OneAwaited'
<1>1. /\ DOMAIN queue = 1..Len(queue) /\ Len(queue) \in Nat
      /\ DOMAIN queue' = 1..Len(queue)+1
      /\ \A i \in DOMAIN queue : queue'[i] = queue[i]
      /\ queue'[Len(queue)+1] = op
  BY DEF ServerType
<1>2. \A i \in DOMAIN queue' : queue'[i].waiter = "frame" =>
        i \in DOMAIN queue /\ queue[i].waiter = "frame"
  BY <1>1
<1> QED BY <1>2 DEF OneAwaited, FrameWaits

\* The one operation a frame's handler awaits.
LEMMA AwaitedFirst ==
  ASSUME ServerType, ~FrameWaits, NEW op \in Operation, queue' = Append(queue, op),
         wire' # <<>>
  PROVE  OneAwaited'
<1>1. /\ DOMAIN queue = 1..Len(queue) /\ Len(queue) \in Nat
      /\ DOMAIN queue' = 1..Len(queue)+1
      /\ \A i \in DOMAIN queue : queue'[i] = queue[i]
  BY DEF ServerType
<1>2. \A i \in DOMAIN queue' : queue'[i].waiter = "frame" => i = Len(queue) + 1
  BY <1>1 DEF FrameWaits
<1> QED BY <1>2 DEF OneAwaited, FrameWaits

\* An operation ends, and the handler that awaited it goes on.
LEMMA ResumedKeeps ==
  ASSUME NetType, ServerType, OneAwaited, queue # <<>>, Resumed(Head(queue))
  PROVE  /\ wire' \in Seq(Frame)
         /\ queue' \in Seq(Operation)
         /\ OneAwaited'
<1> DEFINE op == Head(queue)
<1>1. op \in Operation /\ queue' \in Seq(Operation)
  BY HeadTail DEF ServerType, Resumed
<1>2. /\ DOMAIN queue = 1..Len(queue) /\ Len(queue) \in Nat \ {0}
      /\ DOMAIN queue' = 1..Len(queue)-1
      /\ \A i \in DOMAIN queue' : i + 1 \in DOMAIN queue /\ queue'[i] = queue[i + 1]
      /\ queue[1] = op
  BY DEF ServerType, Resumed
<1>3. CASE op.waiter = "frame"
  <2>1. wire # <<>>
    BY <1>2, <1>3 DEF OneAwaited, FrameWaits
  <2>2. Tail(wire) \in Seq(Frame) /\ <<[kind |-> "ended"]>> \o Tail(wire) \in Seq(Frame)
    BY <2>1, HeadTail, Extended, FrameTypes DEF NetType
  <2>3. \A i \in DOMAIN queue' : queue'[i].waiter # "frame"
    BY <1>2, <1>3 DEF OneAwaited
  <2>4. OneAwaited'
    BY <2>3 DEF OneAwaited, FrameWaits
  <2> QED BY <1>1, <1>3, <2>2, <2>4 DEF Resumed
<1>4. CASE op.waiter # "frame"
  <2>1. wire' = wire
    BY <1>4 DEF Resumed
  <2>2. \A i, j \in DOMAIN queue' :
          queue'[i].waiter = "frame" /\ queue'[j].waiter = "frame" => i = j
    <3> TAKE i, j \in DOMAIN queue'
    <3> HAVE queue'[i].waiter = "frame" /\ queue'[j].waiter = "frame"
    <3>1. i + 1 = j + 1
      BY <1>2 DEF OneAwaited
    <3>2. i \in Int /\ j \in Int
      BY <1>2
    <3> QED BY <3>1, <3>2
  <2>3. FrameWaits' => FrameWaits
    BY <1>2 DEF FrameWaits
  <2>4. OneAwaited'
    BY <2>1, <2>2, <2>3 DEF OneAwaited
  <2> QED BY <1>1, <2>1, <2>4 DEF NetType
<1> QED BY <1>3, <1>4

\* The initial state.
LEMMA AccountsInit == Init => Accounts
<1> SUFFICES ASSUME Init PROVE Accounts
  OBVIOUS
<1>1. Bytes[{}] = 0
  BY BytesEmpty
<1>2. AgentType
  BY OutputAssumption DEF Init, AgentType
<1>3. NetType /\ ServerType /\ HistoryType /\ OneAwaited
  BY DEF Init, NetType, ServerType, HistoryType, OneAwaited, FrameWaits
<1>4. RowType /\ RetentionExact
  <2>1. truncated \in BOOLEAN /\ reported \in BOOLEAN /\ early \in BOOLEAN
    BY DEF Init
  <2>2. retained = 0 /\ stored = {}
    BY DEF Init
  <2> QED BY <1>1, <2>1, <2>2, OutputAssumption DEF RowType, RetentionExact
<1>5. ViewerType
  <2>1. vStatus \in BOOLEAN /\ vFlag \in BOOLEAN /\ vDone \in BOOLEAN /\ vOvertaken \in BOOLEAN
    BY DEF Init
  <2> QED BY <2>1 DEF Init, ViewerType
<1> QED BY <1>2, <1>3, <1>4, <1>5 DEF Accounts, TypeOK

\* The agent's steps.
LEMMA AgentStep ==
  ASSUME Accounts, Agent
  PROVE  Accounts'
<1>t. /\ AgentType /\ NetType /\ ServerType /\ RowType /\ ViewerType /\ HistoryType
      /\ RetentionExact /\ OneAwaited
  BY DEF Accounts, TypeOK
<1>g. ASSUME AgentType', NetType', OneAwaited',
             UNCHANGED <<serverVars, rowVars, viewerVars, historyVars>>
      PROVE  Accounts'
  BY <1>t, <1>g, TypeKept DEF Accounts, TypeOK
<1>s. ASSUME NEW f \in Frame, wire' = Sent(f), queue' = queue, UNCHANGED <<linkUp, orders>>
      PROVE  NetType' /\ OneAwaited'
  <2>1. wire' \in Seq(Frame)
    BY <1>s, <1>t, SentType
  <2>2. wire # <<>> => wire' # <<>>
    BY <1>s, <1>t DEF Sent, NetType
  <2> QED BY <1>s, <1>t, <2>1, <2>2, AwaitedKept DEF NetType
<1>1. ASSUME NEW s \in Stream, Emit(s) PROVE Accounts'
  <2> DEFINE lows == {low \in ringLow..next : Fits(low, next)}
  <2>1. next \in Nat /\ next < MaxChunks /\ ringLow \in 0..next
    BY <1>1, <1>t, OutputAssumption DEF Emit, AgentType
  <2>2. next \in lows
    BY <2>1, OutputAssumption DEF Fits
  <2>3. IsFiniteSet(lows) /\ lows \in SUBSET Int
    <3>1. IsFiniteSet(ringLow..next) /\ lows \subseteq ringLow..next
      BY <2>1, FS_Interval
    <3> QED BY <3>1, <2>1, FS_Subset
  <2>4. PICK m \in lows : \A k \in lows : m <= k
    BY <2>2, <2>3, LeastElement
  <2>5. Min(lows) \in lows
    BY <2>4 DEF Min
  <2>6. ringLow' \in ringLow..next /\ next' = next + 1
    BY <1>1, <2>5 DEF Emit
  <2>7. held' \in [Stream -> Chunk \cup {NoChunk}]
    <3>1. next \in Chunk
      BY <2>1, OutputAssumption DEF Chunk
    <3> QED BY <1>1, <1>t, <3>1 DEF Emit, AgentType
  <2>8. AgentType'
    BY <1>1, <1>t, <2>1, <2>6, <2>7, OutputAssumption DEF Emit, AgentType, clientVars
  <2>9. NetType' /\ OneAwaited'
    BY <1>1, <1>t, TypeKept, AwaitedKept DEF Emit, netVars, serverVars
  <2> QED BY <1>1, <1>g, <2>8, <2>9 DEF Emit
<1>2. ASSUME NEW s \in Stream, EmitSend(s) PROVE Accounts'
  <2>1. held[s] \in Chunk
    BY <1>2, <1>t DEF EmitSend, AgentType
  <2>2. [kind |-> "output", seq |-> held[s]] \in Frame
    BY <2>1, FrameTypes
  <2>3. NetType' /\ OneAwaited'
    BY <1>2, <1>s, <2>2 DEF EmitSend, serverVars
  <2>4. AgentType'
    BY <1>2, <1>t DEF EmitSend, AgentType, clientVars
  <2> QED BY <1>2, <1>g, <2>3, <2>4 DEF EmitSend
<1>3. CASE Finish
  <2>1. AgentType'
    BY <1>3, <1>t DEF Finish, AgentType, clientVars
  <2>2. NetType' /\ OneAwaited'
    BY <1>3, <1>t, TypeKept, AwaitedKept DEF Finish, netVars, serverVars
  <2> QED BY <1>3, <1>g, <2>1, <2>2 DEF Finish
<1>4. CASE FinishSend
  <2>1. AgentType'
    BY <1>4, <1>t DEF FinishSend, AgentType, clientVars
  <2>2. NetType' /\ OneAwaited'
    BY <1>4, <1>s, FrameTypes DEF FinishSend, serverVars
  <2> QED BY <1>4, <1>g, <2>1, <2>2 DEF FinishSend
<1>5. CASE Dial
  <2>1. AgentType'
    BY <1>5, <1>t DEF Dial, AgentType, agentVars
  <2>2. [kind |-> "hello", running |-> runPc = "read"] \in Frame
    BY FrameTypes
  <2>3. NetType'
    BY <1>5, <2>2 DEF Dial, NetType
  <2>4. OneAwaited'
    BY <1>5, <1>t, AwaitedKept DEF Dial, serverVars
  <2> QED BY <1>5, <1>g, <2>1, <2>3, <2>4 DEF Dial
<1>6. CASE Welcomed
  <2>1. AgentType'
    BY <1>6, <1>t DEF Welcomed, AgentType, agentVars
  <2>2. NetType' /\ OneAwaited'
    BY <1>6, <1>t, HeadTail, AwaitedKept DEF Welcomed, NetType, serverVars
  <2> QED BY <1>6, <1>g, <2>1, <2>2 DEF Welcomed
<1>7. CASE ReconcileAll
  <2>1. SyncFrames(NoChunk) \in Seq(Frame) /\ <<[kind |-> "reconcile"]>> \in Seq(Frame)
    BY <1>t, SyncFramesType, FrameTypes
  <2>2. loopOut' \in Seq(Frame)
    BY <1>7, <2>1, ConcatProperties DEF ReconcileAll
  <2>3. AgentType'
    BY <1>7, <1>t, <2>2 DEF ReconcileAll, AgentType, agentVars
  <2>4. NetType' /\ OneAwaited'
    BY <1>7, <1>t, TypeKept, AwaitedKept DEF ReconcileAll, netVars, serverVars
  <2> QED BY <1>7, <1>g, <2>3, <2>4 DEF ReconcileAll
<1>8. CASE BufferRequest
  <2>1. Head(orders).after \in Chunk \cup {NoChunk} /\ Tail(orders) \in Seq(Order)
    <3>1. Head(orders) \in Order /\ Tail(orders) \in Seq(Order)
      BY <1>8, <1>t, HeadTail DEF BufferRequest, NetType
    <3> QED BY <1>8, <3>1 DEF BufferRequest, Order
  <2>2. loopOut' \in Seq(Frame)
    BY <1>8, <1>t, <2>1, SyncFramesType DEF BufferRequest
  <2>3. AgentType'
    BY <1>8, <1>t, <2>2 DEF BufferRequest, AgentType, agentVars
  <2>4. NetType' /\ OneAwaited'
    BY <1>8, <1>t, <2>1, AwaitedKept DEF BufferRequest, NetType, serverVars
  <2> QED BY <1>8, <1>g, <2>3, <2>4 DEF BufferRequest
<1>9. CASE LoopSend
  <2>1. Head(loopOut) \in Frame /\ Tail(loopOut) \in Seq(Frame)
    BY <1>9, <1>t, HeadTail DEF LoopSend, AgentType
  <2>2. AgentType'
    BY <1>9, <1>t, <2>1 DEF LoopSend, AgentType, agentVars
  <2>3. \/ wire' = Sent(Head(loopOut))
        \/ wire' = Sent([kind |-> "done"])
        \/ wire' = wire
    BY <1>9 DEF LoopSend
  <2>4. queue' = queue /\ UNCHANGED <<linkUp, orders>>
    BY <1>9 DEF LoopSend, serverVars
  <2>5. NetType' /\ OneAwaited'
    <3>1. CASE wire' = wire
      BY <1>t, <2>4, <3>1, AwaitedKept DEF NetType
    <3>2. CASE wire' = Sent(Head(loopOut))
      BY <1>s, <2>1, <2>4, <3>2
    <3>3. CASE wire' = Sent([kind |-> "done"])
      BY <1>s, <2>4, <3>3, FrameTypes
    <3> QED BY <2>3, <3>1, <3>2, <3>3
  <2> QED BY <1>9, <1>g, <2>2, <2>5 DEF LoopSend
<1>10. CASE ConnectionLost
  <2>1. AgentType'
    BY <1>10, <1>t DEF ConnectionLost, AgentType, agentVars
  <2>2. NetType' /\ OneAwaited'
    BY <1>10, <1>t, AwaitedKept DEF ConnectionLost, NetType, serverVars
  <2> QED BY <1>10, <1>g, <2>1, <2>2 DEF ConnectionLost
<1> QED BY <1>1, <1>2, <1>3, <1>4, <1>5, <1>6, <1>7, <1>8, <1>9, <1>10 DEF Agent

-----------------------------------------------------------------------------
\* What a broadcast of output does to the viewer.
LEMMA BroadcastType ==
  ASSUME ViewerType, NEW n \in Chunk, Broadcast(n)
  PROVE  ViewerType'
<1>1. CASE Replaying /\ ~vDone
  <2>1. vQueue' \in Seq(Chunk)
    BY <1>1, Extended DEF Broadcast, Replaying, Live, ViewerType
  <2> QED BY <1>1, <2>1 DEF Broadcast, Replaying, Live, ViewerType
<1>2. CASE ~Replaying /\ Live /\ n > vLast
  <2>1. vBatch' \in Nat \cup {NoChunk}
    BY <1>2 DEF Broadcast, ViewerType, NoChunk
  <2>2. vOvertaken' \in BOOLEAN
    BY <1>2 DEF Broadcast
  <2> QED BY <1>2, <2>1, <2>2 DEF Broadcast, ViewerType
<1>3. CASE ~(Replaying /\ ~vDone) /\ ~(Live /\ n > vLast)
  BY <1>3, TypeKept DEF Broadcast
<1> QED BY <1>1, <1>2, <1>3 DEF Replaying, Live

\* ... and of the end of the job.
LEMMA BroadcastDoneType ==
  ASSUME ViewerType, BroadcastDone
  PROVE  ViewerType'
<1>1. CASE Replaying
  BY <1>1 DEF BroadcastDone, Replaying, Live, ViewerType
<1>2. CASE ~Replaying /\ Live
  <2>1. vOvertaken' \in BOOLEAN
    BY <1>2 DEF BroadcastDone
  <2> QED BY <1>2, <2>1 DEF BroadcastDone, ViewerType
<1>3. CASE ~Replaying /\ ~Live
  BY <1>3, TypeKept DEF BroadcastDone
<1> QED BY <1>1, <1>2, <1>3

\* The transaction of persistChunks and what follows it.
LEMMA PersistStep ==
  ASSUME Accounts, Persist
  PROVE  Accounts'
<1>t. /\ AgentType /\ NetType /\ ServerType /\ RowType /\ ViewerType /\ HistoryType
      /\ RetentionExact /\ OneAwaited
  BY DEF Accounts, TypeOK
<1> DEFINE op == Head(queue)
           new == op.chunks \ stored
           removed == IF new = {} THEN {} ELSE Removed(stored \cup new, retained + Bytes[new])
<1>1. op \in Operation /\ op.chunks \in SUBSET Chunk /\ queue # <<>>
  <2>1. queue # <<>>
    BY DEF Persist
  <2>2. op \in Operation
    BY <1>t, <2>1, HeadTail DEF ServerType
  <2> QED BY <2>1, <2>2 DEF Operation
<1>2. /\ stored \in SUBSET Chunk
      /\ retained = Bytes[stored]
      /\ Bytes[stored] <= MaximumOutputBytes
  BY <1>t DEF RowType, RetentionExact
<1>3. /\ stored' \in SUBSET Chunk
      /\ new \in SUBSET Chunk
      /\ removed \in SUBSET Chunk
      /\ retained' \in Nat
      /\ RetentionExact'
  <2>1. new = New(stored, op.chunks)
    BY DEF New
  <2>2. removed = Gone(stored, op.chunks)
    BY <1>2, <2>1 DEF Gone
  <2>3. /\ stored' = (stored \cup new) \ removed
        /\ retained' = (retained + Bytes[new]) - Bytes[removed]
    BY DEF Persist
  <2> HIDE DEF op, new, removed
  <2>4. /\ new \in SUBSET Chunk
        /\ removed \in SUBSET Chunk
        /\ (stored \cup new) \ removed \in SUBSET Chunk
        /\ (Bytes[stored] + Bytes[new]) - Bytes[removed]
             = Bytes[(stored \cup new) \ removed]
        /\ Bytes[(stored \cup new) \ removed] \in Nat
        /\ Bytes[(stored \cup new) \ removed] <= MaximumOutputBytes
    BY <1>1, <1>2, <2>1, <2>2, PersistAccounts
  <2>5. retained' = Bytes[stored']
    BY <1>2, <2>3, <2>4
  <2> QED BY <2>3, <2>4, <2>5 DEF RetentionExact
<1>4. RowType'
  <2>1. truncated' = (truncated \/ removed # {}) /\ UNCHANGED <<reported, early>>
    BY DEF Persist
  <2>2. truncated' \in BOOLEAN
    BY <2>1
  <2> HIDE DEF op, new, removed
  <2> QED BY <1>t, <1>3, <2>1, <2>2 DEF RowType
<1>5. HistoryType'
  <2>1. evicted' = evicted \cup removed /\ lost' = lost \ op.chunks /\ unseen' = unseen
    BY DEF Persist
  <2> HIDE DEF op, new, removed
  <2> QED BY <1>t, <1>3, <2>1 DEF HistoryType
<1>6. NetType' /\ ServerType' /\ OneAwaited'
  <2>1. Resumed(Head(queue)) /\ UNCHANGED <<linkUp, orders, batch>>
    BY DEF Persist
  <2> QED BY <1>t, <1>1, <2>1, ResumedKeeps DEF NetType, ServerType
<1>7. ViewerType'
  <2>1. CASE op.waiter = "viewer"
    <3>1. vPc' = "flag" /\ UNCHANGED <<vAfter, vStatus, vFlag, vSnap, vQueue, vDone, vLast,
                                       vBatch, vSeen, vOvertaken>>
      BY <2>1 DEF Persist
    <3> QED BY <1>t, <3>1 DEF ViewerType
  <2>2. CASE op.waiter = "frame" /\ op.sync /\ new \ removed # {}
    <3>1. Broadcast(CHOOSE n \in new : TRUE)
      BY <2>2 DEF Persist
    <3>2. (CHOOSE n \in new : TRUE) \in Chunk
      <4> HIDE DEF op, new, removed
      <4>1. new # {}
        BY <2>2
      <4>2. \E n \in new : TRUE
        BY <4>1
      <4>3. (CHOOSE n \in new : TRUE) \in new
        BY <4>2
      <4> QED BY <4>3, <1>3
    <3> HIDE DEF op, new, removed
    <3> QED BY <1>t, <3>1, <3>2, BroadcastType
  <2>3. CASE op.waiter # "viewer" /\ ~(op.waiter = "frame" /\ op.sync /\ new \ removed # {})
    <3>1. UNCHANGED viewerVars
      BY <2>3 DEF Persist
    <3> QED BY <1>t, <3>1, TypeKept
  <2> QED BY <2>1, <2>2, <2>3
<1>8. AgentType'
  BY <1>t, TypeKept DEF Persist
<1> QED BY <1>3, <1>4, <1>5, <1>6, <1>7, <1>8 DEF Accounts, TypeOK

\* The server's other steps.
LEMMA ServerStep ==
  ASSUME Accounts, Server
  PROVE  Accounts'
<1>t. /\ AgentType /\ NetType /\ ServerType /\ RowType /\ ViewerType /\ HistoryType
      /\ RetentionExact /\ OneAwaited
  BY DEF Accounts, TypeOK
<1>g. ASSUME NetType', ServerType', OneAwaited',
             UNCHANGED <<agentVars, clientVars, rowVars, viewerVars, historyVars>>
      PROVE  Accounts'
  BY <1>t, <1>g, TypeKept DEF Accounts, TypeOK
<1>1. CASE HandleHello
  <2>1. /\ Tail(wire) \in Seq(Frame) /\ ~FrameWaits
        /\ <<[kind |-> "resume"]>> \o Tail(wire) \in Seq(Frame)
        /\ <<>> \o Tail(wire) \in Seq(Frame)
    BY <1>1, <1>t, HandledFrame, Extended, FrameTypes DEF HandleHello
  <2>2. [kind |-> "welcome"] \in Order
    BY DEF Order
  <2>3. NetType'
    BY <1>1, <1>t, <2>1, <2>2, SentToAgentType DEF HandleHello, NetType
  <2>4. ServerType' /\ OneAwaited'
    BY <1>1, <1>t, <2>1, TypeKept, AwaitedKept DEF HandleHello, serverVars
  <2> QED BY <1>1, <1>g, <2>3, <2>4 DEF HandleHello
<1>2. CASE HandleResume
  <2>1. Tail(wire) \in Seq(Frame) /\ ~FrameWaits
    BY <1>2, <1>t, HandledFrame DEF HandleResume
  <2>2. LatestSequence \in Chunk \cup {NoChunk}
    <3>1. stored \cup {NoChunk} \in SUBSET (Chunk \cup {NoChunk}) /\ stored \cup {NoChunk} # {}
      BY <1>t DEF RowType
    <3> QED BY <3>1, MaxInSet DEF LatestSequence
  <2>3. [kind |-> "request", after |-> LatestSequence] \in Order
    BY <2>2 DEF Order
  <2>4. NetType'
    BY <1>2, <1>t, <2>1, <2>3, SentToAgentType DEF HandleResume, NetType
  <2>5. ServerType' /\ OneAwaited'
    BY <1>2, <1>t, <2>1, TypeKept, AwaitedKept DEF HandleResume, serverVars
  <2> QED BY <1>2, <1>g, <2>4, <2>5 DEF HandleResume
<1>3. CASE HandleOutput
  <2> DEFINE n == Head(wire).seq
             full == Cardinality(batch \cup {n}) >= BatchLimit
  <2>1. n \in Chunk /\ Tail(wire) \in Seq(Frame) /\ ~FrameWaits
    BY <1>3, <1>t, HandledFrame, FrameTypes DEF HandleOutput
  <2>2. ViewerType'
    BY <1>3, <1>t, <2>1, BroadcastType DEF HandleOutput
  <2>3. batch \cup {n} \in SUBSET Chunk
    BY <1>t, <2>1 DEF ServerType
  <2>4. Flush("none", batch \cup {n}) \in Operation /\ Flush("none", batch \cup {n}).waiter = "none"
    BY <2>3, FlushType
  <2>5. /\ wire' = Tail(wire) /\ UNCHANGED <<linkUp, orders>>
        /\ UNCHANGED <<agentVars, clientVars, rowVars, historyVars>>
        /\ \/ batch' = {} /\ queue' = Append(queue, Flush("none", batch \cup {n}))
           \/ batch' = batch \cup {n} /\ queue' = queue
    BY <1>3 DEF HandleOutput
  <2> HIDE DEF n
  <2>6. ServerType' /\ OneAwaited'
    <3>1. CASE batch' = {} /\ queue' = Append(queue, Flush("none", batch \cup {n}))
      <4>1. ServerType'
        BY <3>1, <2>4, <1>t, Extended DEF ServerType
      <4>2. OneAwaited'
        BY <3>1, <2>4, <2>1, <1>t, AwaitedAppend
      <4> QED BY <4>1, <4>2
    <3>2. CASE batch' = batch \cup {n} /\ queue' = queue
      BY <3>2, <2>3, <2>1, <1>t, AwaitedKept DEF ServerType
    <3> QED BY <2>5, <3>1, <3>2
  <2>7. NetType'
    BY <2>1, <2>5, <1>t DEF NetType
  <2> QED BY <1>t, <2>2, <2>5, <2>6, <2>7, TypeKept DEF Accounts, TypeOK
<1>4. CASE TimerFlush
  <2>1. Flush("none", batch) \in Operation /\ Flush("none", batch).waiter = "none"
    BY <1>t, FlushType DEF ServerType
  <2>2. ServerType'
    BY <1>4, <1>t, <2>1, Extended DEF TimerFlush, ServerType
  <2>3. OneAwaited'
    BY <1>4, <1>t, <2>1, AwaitedAppend DEF TimerFlush, netVars
  <2>4. NetType'
    BY <1>4, <1>t, TypeKept DEF TimerFlush
  <2> QED BY <1>4, <1>g, <2>2, <2>3, <2>4 DEF TimerFlush
<1>5. CASE HandleSync
  <2>1. Head(wire).seq \in Chunk /\ wire # <<>> /\ ~FrameWaits
    BY <1>5, <1>t, HandledFrame, FrameTypes DEF HandleSync
  <2>2. Sync({Head(wire).seq}) \in Operation
    BY <2>1, SyncType
  <2>3. ServerType'
    BY <1>5, <1>t, <2>2, Extended DEF HandleSync, ServerType
  <2>4. OneAwaited'
    BY <1>5, <1>t, <2>1, <2>2, AwaitedFirst DEF HandleSync, netVars
  <2>5. NetType'
    BY <1>5, <1>t, TypeKept DEF HandleSync
  <2> QED BY <1>5, <1>g, <2>3, <2>4, <2>5 DEF HandleSync
<1>6. CASE HandleDone
  <2>1. Tail(wire) \in Seq(Frame) /\ wire # <<>> /\ ~FrameWaits
    BY <1>6, <1>t, HandledFrame DEF HandleDone
  <2>2. CASE batch = {}
    <3>1. <<[kind |-> "ended"]>> \o Tail(wire) \in Seq(Frame)
      BY <2>1, Extended, FrameTypes
    <3>2. NetType'
      BY <1>6, <2>2, <3>1, <1>t DEF HandleDone, NetType
    <3>3. ServerType' /\ OneAwaited'
      BY <1>6, <2>2, <2>1, <1>t, TypeKept, AwaitedKept DEF HandleDone, serverVars
    <3> QED BY <1>6, <1>g, <3>2, <3>3 DEF HandleDone
  <2>3. CASE batch # {}
    <3>1. Flush("frame", batch) \in Operation
      BY <1>t, FlushType DEF ServerType
    <3>2. queue' = Append(queue, Flush("frame", batch)) /\ batch' = {} /\ wire' = wire
      BY <1>6, <2>3 DEF HandleDone
    <3>3. ServerType'
      BY <3>1, <3>2, <1>t, Extended DEF ServerType
    <3>4. OneAwaited'
      BY <3>1, <3>2, <2>1, <1>t, AwaitedFirst
    <3>5. NetType'
      BY <1>6, <3>2, <1>t DEF HandleDone, NetType
    <3> QED BY <1>6, <1>g, <3>3, <3>4, <3>5 DEF HandleDone
  <2> QED BY <2>2, <2>3
<1>7. CASE HandleEnded
  <2>1. Tail(wire) \in Seq(Frame) /\ ~FrameWaits
    BY <1>7, <1>t, HandledFrame DEF HandleEnded
  <2>2. ViewerType'
    BY <1>7, <1>t, BroadcastDoneType, TypeKept DEF HandleEnded
  <2>3. RowType' /\ RetentionExact'
    <3>1. reported' \in BOOLEAN
      BY <1>7 DEF HandleEnded
    <3> QED BY <1>7, <1>t, <3>1 DEF HandleEnded, RowType, RetentionExact
  <2>4. NetType'
    BY <1>7, <1>t, <2>1 DEF HandleEnded, NetType
  <2>5. ServerType' /\ OneAwaited'
    BY <1>7, <1>t, <2>1, TypeKept, AwaitedKept DEF HandleEnded, serverVars
  <2>6. AgentType' /\ HistoryType'
    BY <1>7, <1>t, TypeKept DEF HandleEnded
  <2> QED BY <2>2, <2>3, <2>4, <2>5, <2>6 DEF Accounts, TypeOK
<1>8. CASE PersistFails
  <2> DEFINE op == Head(queue)
  <2>1. queue # <<>> /\ Resumed(op) /\ UNCHANGED <<orders, batch>>
    BY <1>8 DEF PersistFails
  <2>2. op \in Operation
    BY <1>t, <2>1, HeadTail DEF ServerType
  <2>3. linkUp' \in BOOLEAN
    BY <1>8 DEF PersistFails
  <2>4. NetType' /\ ServerType' /\ OneAwaited'
    BY <1>t, <2>1, <2>3, ResumedKeeps DEF NetType, ServerType
  <2>5. op.chunks \in SUBSET Chunk
    BY <2>2 DEF Operation
  <2>6. HistoryType'
    BY <1>8, <1>t, <2>5 DEF PersistFails, HistoryType
  <2>7. ViewerType'
    BY <1>8, <1>t DEF PersistFails, ViewerType
  <2>8. AgentType' /\ RowType' /\ RetentionExact'
    BY <1>8, <1>t, TypeKept DEF PersistFails
  <2> QED BY <2>4, <2>6, <2>7, <2>8 DEF Accounts, TypeOK
<1>9. CASE CancelQueued \/ DispatchFailed
  <2>1. ViewerType'
    BY <1>9, <1>t, BroadcastDoneType, TypeKept DEF CancelQueued, DispatchFailed
  <2>2. RowType' /\ RetentionExact'
    <3>1. early' \in BOOLEAN
      BY <1>9 DEF CancelQueued, DispatchFailed
    <3> QED BY <1>9, <1>t, <3>1 DEF CancelQueued, DispatchFailed, RowType, RetentionExact
  <2>3. AgentType' /\ HistoryType' /\ NetType'
    BY <1>9, <1>t, TypeKept DEF CancelQueued, DispatchFailed
  <2>4. ServerType' /\ OneAwaited'
    BY <1>9, <1>t, TypeKept, AwaitedKept DEF CancelQueued, DispatchFailed, serverVars, netVars
  <2> QED BY <2>1, <2>2, <2>3, <2>4 DEF Accounts, TypeOK
<1> QED BY <1>1, <1>2, <1>3, <1>4, <1>5, <1>6, <1>7, <1>8, <1>9, PersistStep DEF Server

\* The replay reaches the viewer.
LEMMA ReplaySendType ==
  ASSUME RowType, ViewerType, ReplaySend
  PROVE  ViewerType'
<1> DEFINE noticed == {n \in Notice : n > vLast}
           mark == Max(noticed \cup {vLast})
           rows == {n \in vSnap : n > mark}
           took == vBatch + Cardinality(noticed) + Cardinality(rows)
           more == took >= ReplayLimit
           last == Max(rows \cup {mark})
           taken(heard) == IF heard THEN Accepted(vQueue, last) ELSE {}
<1>1. noticed \in SUBSET Chunk
  BY NoticeType DEF RowType
<1>2. mark \in Chunk \cup {NoChunk}
  <2>1. noticed \cup {vLast} \in SUBSET (Chunk \cup {NoChunk}) /\ noticed \cup {vLast} # {}
    BY <1>1 DEF ViewerType
  <2> QED BY <2>1, MaxInSet
<1>3. rows \in SUBSET Chunk
  BY DEF ViewerType
<1>4. last \in Chunk \cup {NoChunk}
  <2> HIDE DEF noticed, mark, rows
  <2>1. rows \cup {mark} \in SUBSET (Chunk \cup {NoChunk}) /\ rows \cup {mark} # {}
    BY <1>2, <1>3
  <2> QED BY <2>1, MaxInSet
<1>5. PICK heard \in {TRUE, ~vStatus} :
        /\ vSeen' = vSeen \cup rows \cup taken(heard)
        /\ vLast' = Max(taken(heard) \cup {last})
        /\ vAfter' = IF more THEN last ELSE vAfter
        /\ vBatch' = IF more THEN Cardinality(taken(heard)) ELSE NoChunk
        /\ vPc' = CASE vDone \/ vStatus -> "ended"
                    [] ~vDone /\ ~vStatus /\ more -> "again"
                    [] OTHER -> "live"
        /\ vOvertaken' = \/ vOvertaken
                         \/ more /\ (taken(heard) # {} \/ vDone \/ vStatus)
                         \/ ~more /\ Cardinality(vSnap) >= ReplayLimit
        /\ vQueue' = <<>> /\ vSnap' = {}
        /\ UNCHANGED <<vStatus, vFlag, vDone>>
  BY Zenon DEF ReplaySend
<1> DEFINE queued == taken(heard)
<1>6. queued \in SUBSET Chunk
  BY AcceptedType DEF ViewerType
<1>7. Max(queued \cup {last}) \in Chunk \cup {NoChunk}
  <2> HIDE DEF last, queued
  <2>1. queued \cup {last} \in SUBSET (Chunk \cup {NoChunk}) /\ queued \cup {last} # {}
    BY <1>4, <1>6
  <2> QED BY <2>1, MaxInSet
<1>8. Cardinality(queued) \in Nat
  BY <1>6, ChunksFinite
<1>9. vOvertaken' \in BOOLEAN
  BY <1>5
<1> HIDE DEF noticed, mark, rows, took, more, last, taken
<1>10. vPc' \in {"ended", "again", "live"}
  <2>1. CASE vDone \/ vStatus
    BY <1>5, <2>1
  <2>2. CASE ~vDone /\ ~vStatus /\ more
    BY <1>5, <2>2
  <2>3. CASE ~vDone /\ ~vStatus /\ ~more
    BY <1>5, <2>3
  <2> QED BY <2>1, <2>2, <2>3
<1>11. /\ vSeen' \in SUBSET Chunk
       /\ vLast' \in Chunk \cup {NoChunk}
       /\ vAfter' \in Chunk \cup {NoChunk}
       /\ vBatch' \in Nat \cup {NoChunk}
  BY <1>3, <1>4, <1>5, <1>6, <1>7, <1>8 DEF ViewerType
<1> QED BY <1>5, <1>9, <1>10, <1>11 DEF ViewerType

\* The viewer's steps.
LEMMA ViewerStep ==
  ASSUME Accounts, Viewer
  PROVE  Accounts'
<1>t. /\ AgentType /\ NetType /\ ServerType /\ RowType /\ ViewerType /\ HistoryType
      /\ RetentionExact /\ OneAwaited
  BY DEF Accounts, TypeOK
<1>g. ASSUME ViewerType', HistoryType',
             UNCHANGED <<agentVars, clientVars, netVars, serverVars, rowVars>>
      PROVE  Accounts'
  <2>1. OneAwaited'
    BY <1>t, <1>g, AwaitedKept DEF serverVars, netVars
  <2> QED BY <1>t, <1>g, <2>1, TypeKept DEF Accounts, TypeOK
<1>h. ASSUME ViewerType', ServerType', OneAwaited',
             UNCHANGED <<agentVars, clientVars, netVars, rowVars, historyVars>>
      PROVE  Accounts'
  BY <1>t, <1>h, TypeKept DEF Accounts, TypeOK
<1>1. CASE Subscribe
  <2>1. ViewerType'
    BY <1>1, <1>t DEF Subscribe, ViewerType, RowType, terminal
  <2>2. HistoryType'
    BY <1>1, <1>t, TypeKept DEF Subscribe
  <2> QED BY <1>1, <1>g, <2>1, <2>2 DEF Subscribe
<1>2. CASE SubscribeAgain
  <2>1. ViewerType'
    BY <1>2, <1>t DEF SubscribeAgain, ViewerType, RowType, terminal
  <2>2. HistoryType'
    BY <1>2, <1>t, TypeKept DEF SubscribeAgain
  <2> QED BY <1>2, <1>g, <2>1, <2>2 DEF SubscribeAgain
<1>3. CASE BeginSubscription
  <2>1. Flush("viewer", batch) \in Operation /\ Flush("viewer", batch).waiter = "viewer"
    BY <1>t, FlushType DEF ServerType
  <2>2. ViewerType'
    <3>1. vDone' \in BOOLEAN /\ vPc' \in {"flag", "flush"} /\ vQueue' = <<>>
      BY <1>3 DEF BeginSubscription
    <3> QED BY <1>3, <1>t, <3>1 DEF BeginSubscription, ViewerType
  <2>3. ServerType' /\ OneAwaited'
    <3>1. CASE batch = {}
      BY <1>3, <3>1, <1>t, TypeKept, AwaitedKept DEF BeginSubscription, serverVars, netVars
    <3>2. CASE batch # {}
      <4>1. queue' = Append(queue, Flush("viewer", batch)) /\ batch' = {} /\ wire' = wire
        BY <1>3, <3>2 DEF BeginSubscription, netVars
      <4>2. ServerType'
        BY <4>1, <2>1, <1>t, Extended DEF ServerType
      <4>3. OneAwaited'
        BY <4>1, <2>1, <1>t, AwaitedAppend
      <4> QED BY <4>2, <4>3
    <3> QED BY <3>1, <3>2
  <2> QED BY <1>3, <1>h, <2>2, <2>3 DEF BeginSubscription
<1>4. CASE ReplayFlag
  <2>1. ViewerType'
    BY <1>4, <1>t DEF ReplayFlag, ViewerType, RowType
  <2>2. HistoryType'
    BY <1>4, <1>t, TypeKept DEF ReplayFlag
  <2> QED BY <1>4, <1>g, <2>1, <2>2 DEF ReplayFlag
<1>5. CASE ReplayRead
  <2>1. vSnap' \in SUBSET Chunk
    BY <1>5, <1>t DEF ReplayRead, RowType
  <2>2. ViewerType'
    BY <1>5, <1>t, <2>1 DEF ReplayRead, ViewerType
  <2>3. InFlight \in SUBSET Chunk
    <3>1. \A i \in DOMAIN queue : queue[i] \in Operation
      BY <1>t DEF ServerType
    <3>2. \A i \in DOMAIN queue : queue[i].chunks \in SUBSET Chunk
      BY <3>1 DEF Operation
    <3> QED BY <3>2 DEF InFlight
  <2>4. HistoryType'
    BY <1>5, <1>t, <2>3 DEF ReplayRead, HistoryType
  <2> QED BY <1>5, <1>g, <2>2, <2>4 DEF ReplayRead
<1>6. CASE ReplaySend
  <2>1. ViewerType'
    BY <1>6, <1>t, ReplaySendType
  <2>2. HistoryType'
    BY <1>6, <1>t, TypeKept DEF ReplaySend
  <2> QED BY <1>6, <1>g, <2>1, <2>2 DEF ReplaySend
<1>7. CASE ViewerDrop
  <2>1. ViewerType'
    <3>1. vDone' \in BOOLEAN
      BY <1>7 DEF ViewerDrop
    <3> QED BY <1>7, <1>t, <3>1 DEF ViewerDrop, ViewerType
  <2>2. /\ DOMAIN queue = 1..Len(queue) /\ Len(queue) \in Nat
        /\ \A i \in DOMAIN queue : queue[i] \in Operation
    BY <1>t DEF ServerType
  <2>3. \A i \in DOMAIN queue :
          /\ Flush("none", queue[i].chunks) \in Operation
          /\ Flush("none", queue[i].chunks).waiter = "none"
    BY <2>2, FlushType DEF Operation
  <2>4. queue' = [i \in 1..Len(queue) |->
          IF queue[i].waiter = "viewer" THEN Flush("none", queue[i].chunks) ELSE queue[i]]
    BY <1>7, <2>2 DEF ViewerDrop
  <2>5. queue' \in [1..Len(queue) -> Operation]
    BY <2>2, <2>3, <2>4
  <2>6. ServerType'
    BY <1>7, <1>t, <2>2, <2>5, SeqDef DEF ViewerDrop, ServerType
  <2>7. DOMAIN queue' = DOMAIN queue
        /\ \A i \in DOMAIN queue : queue'[i].waiter = "frame" => queue[i].waiter = "frame"
    BY <2>2, <2>3, <2>4
  <2>8. OneAwaited'
    BY <1>7, <1>t, <2>7 DEF ViewerDrop, netVars, OneAwaited, FrameWaits
  <2> QED BY <1>7, <1>h, <2>1, <2>6, <2>8 DEF ViewerDrop
<1> QED BY <1>1, <1>2, <1>3, <1>4, <1>5, <1>6, <1>7 DEF Viewer

\* Failures of the agent's connection and restarts of the server.
LEMMA FaultStep ==
  ASSUME Accounts, NetworkDrop \/ ServerRestart
  PROVE  Accounts'
<1>t. /\ AgentType /\ NetType /\ ServerType /\ RowType /\ ViewerType /\ HistoryType
      /\ RetentionExact /\ OneAwaited
  BY DEF Accounts, TypeOK
<1>1. CASE NetworkDrop
  <2>1. PICK k \in 0..Len(wire) :
          /\ k = 0 => wire = <<>> \/ ~(FrameWaits \/ HeadIs("resume") \/ HeadIs("ended"))
          /\ wire' = SubSeq(wire, 1, k)
    BY <1>1 DEF NetworkDrop
  <2>2. /\ wire' \in Seq(Frame)
        /\ Len(wire') = k
    BY <2>1, <1>t DEF NetType
  <2>3. NetType'
    <3>1. linkUp' \in BOOLEAN /\ orders' = <<>>
      BY <1>1 DEF NetworkDrop
    <3> QED BY <2>2, <3>1 DEF NetType
  <2>4. wire # <<>> /\ FrameWaits => wire' # <<>>
    BY <2>1, <2>2
  <2>5. ServerType' /\ OneAwaited'
    BY <1>1, <1>t, <2>4, TypeKept, AwaitedKept DEF NetworkDrop, serverVars
  <2>6. AgentType' /\ RowType' /\ RetentionExact' /\ ViewerType' /\ HistoryType'
    BY <1>1, <1>t, TypeKept DEF NetworkDrop
  <2> QED BY <2>3, <2>5, <2>6 DEF Accounts, TypeOK
<1>2. CASE ServerRestart
  <2>1. NetType' /\ ServerType' /\ OneAwaited'
    <3>1. linkUp' \in BOOLEAN /\ orders' = <<>> /\ wire' = <<>> /\ batch' = {} /\ queue' = <<>>
      BY <1>2 DEF ServerRestart
    <3>2. NetType' /\ ServerType'
      BY <3>1 DEF NetType, ServerType
    <3>3. OneAwaited'
      BY <3>1 DEF OneAwaited, FrameWaits
    <3> QED BY <3>2, <3>3
  <2>2. ViewerType'
    <3>1. vDone' \in BOOLEAN
      BY <1>2 DEF ServerRestart
    <3> QED BY <1>2, <1>t, <3>1 DEF ServerRestart, ViewerType
  <2>3. AgentType' /\ RowType' /\ RetentionExact' /\ HistoryType'
    BY <1>2, <1>t, TypeKept DEF ServerRestart
  <2> QED BY <2>1, <2>2, <2>3 DEF Accounts, TypeOK
<1> QED BY <1>1, <1>2

\* Every step keeps the accounts.
LEMMA AccountsStep == Accounts /\ [Next]_vars => Accounts'
<1> SUFFICES ASSUME Accounts, [Next]_vars PROVE Accounts'
  OBVIOUS
<1>1. CASE Next
  BY <1>1, AgentStep, ServerStep, ViewerStep, FaultStep DEF Next
<1>2. CASE UNCHANGED vars
  <2>1. TypeOK' /\ RetentionExact'
    BY <1>2, TypeKept DEF Accounts, TypeOK, vars
  <2>2. OneAwaited'
    BY <1>2, AwaitedKept DEF Accounts, vars, serverVars, netVars
  <2> QED BY <2>1, <2>2 DEF Accounts
<1> QED BY <1>1, <1>2

\* Every reachable state is well typed: no sync of the agent runs past the last
\* chunk, a handler that is resumed has its frame, and the running total of
\* persistChunks never falls below zero.
THEOREM OutputTypeCorrect == Spec => []TypeOK
<1>1. Accounts => TypeOK
  BY DEF Accounts
<1> QED BY <1>1, AccountsInit, AccountsStep, PTL DEF Spec

\* persistChunks keeps exact accounts: however flushes and syncs repeat,
\* interleave or fail, retainedOutputBytes is the length of the rows and at most
\* the limit, for all lengths of the chunks.
THEOREM RetentionCorrect == Spec => []RetentionExact
<1>1. Accounts => RetentionExact
  BY DEF Accounts
<1> QED BY <1>1, AccountsInit, AccountsStep, PTL DEF Spec

-----------------------------------------------------------------------------
(* Sequences, element by element                                           *)

\* The elements of a sequence that is not empty: its head, then its rest.
LEMMA HeadFirst ==
  ASSUME NEW S, NEW q \in Seq(S), q # <<>>
  PROVE  /\ Len(q) \in Nat \ {0}
         /\ DOMAIN q = 1..Len(q)
         /\ q[1] = Head(q)
         /\ Tail(q) \in Seq(S)
         /\ Len(Tail(q)) = Len(q) - 1
         /\ DOMAIN Tail(q) = 1..Len(q)-1
         /\ \A i \in 1..Len(q)-1 : Tail(q)[i] = q[i+1]
  OBVIOUS

\* The elements of a sequence with one more behind.
LEMMA LastAppended ==
  ASSUME NEW S, NEW q \in Seq(S), NEW e \in S
  PROVE  /\ Len(q) \in Nat
         /\ DOMAIN q = 1..Len(q)
         /\ Append(q, e) \in Seq(S)
         /\ Len(Append(q, e)) = Len(q) + 1
         /\ DOMAIN Append(q, e) = 1..Len(q)+1
         /\ \A i \in 1..Len(q) : Append(q, e)[i] = q[i]
         /\ Append(q, e)[Len(q)+1] = e
  OBVIOUS

\* The elements of a sequence whose head is replaced.
LEMMA HeadReplaced ==
  ASSUME NEW S, NEW q \in Seq(S), q # <<>>, NEW e \in S
  PROVE  /\ <<e>> \o Tail(q) \in Seq(S)
         /\ <<e>> \o Tail(q) # <<>>
         /\ Len(<<e>> \o Tail(q)) = Len(q)
         /\ DOMAIN (<<e>> \o Tail(q)) = 1..Len(q)
         /\ Head(<<e>> \o Tail(q)) = e
         /\ (<<e>> \o Tail(q))[1] = e
         /\ \A i \in 2..Len(q) : (<<e>> \o Tail(q))[i] = q[i]
  OBVIOUS

-----------------------------------------------------------------------------
(* The chunks that frames and operations carry                             *)

\* The chunk of a frame, as a set.
Carries(frame) == IF frame.kind \in {"output", "sync"} THEN {frame.seq} ELSE {}

\* The chunks of a sequence of frames.
Carried(frames) == UNION {Carries(frames[i]) : i \in DOMAIN frames}

\* The chunks of a sequence of operations.
Inside(ops) == UNION {ops[i].chunks : i \in DOMAIN ops}

\* Frames carry what their head carries and what the rest does.
LEMMA CarriedHead ==
  ASSUME NEW q \in Seq(Frame), q # <<>>
  PROVE  Carried(q) = Carries(Head(q)) \cup Carried(Tail(q))
<1>1. /\ Len(q) \in Nat \ {0}
      /\ DOMAIN q = 1..Len(q)
      /\ q[1] = Head(q)
      /\ DOMAIN Tail(q) = 1..Len(q)-1
      /\ \A i \in 1..Len(q)-1 : Tail(q)[i] = q[i+1]
  BY HeadFirst
<1>2. \A i \in DOMAIN q : i = 1 \/ i - 1 \in DOMAIN Tail(q)
  BY <1>1
<1>3. \A i \in DOMAIN q : Carries(q[i]) \subseteq Carries(Head(q)) \cup Carried(Tail(q))
  <2> TAKE i \in DOMAIN q
  <2>1. CASE i = 1
    BY <2>1, <1>1
  <2>2. CASE i - 1 \in DOMAIN Tail(q)
    <3>1. Tail(q)[i-1] = q[i]
      BY <2>2, <1>1
    <3> QED BY <2>2, <3>1 DEF Carried
  <2> QED BY <2>1, <2>2, <1>2
<1>4. \A i \in DOMAIN Tail(q) : Carries(Tail(q)[i]) \subseteq Carried(q)
  BY <1>1 DEF Carried
<1>5. Carries(Head(q)) \subseteq Carried(q)
  BY <1>1 DEF Carried
<1>6. Carried(q) \subseteq Carries(Head(q)) \cup Carried(Tail(q))
  BY <1>3 DEF Carried
<1>7. Carried(Tail(q)) \subseteq Carried(q)
  BY <1>4 DEF Carried
<1> QED BY <1>5, <1>6, <1>7

\* One frame more carries its chunk more.
LEMMA CarriedAppend ==
  ASSUME NEW q \in Seq(Frame), NEW f \in Frame
  PROVE  Carried(Append(q, f)) = Carried(q) \cup Carries(f)
<1> DEFINE a == Append(q, f)
<1>1. /\ Len(q) \in Nat
      /\ DOMAIN q = 1..Len(q)
      /\ DOMAIN a = 1..Len(q)+1
      /\ \A i \in 1..Len(q) : a[i] = q[i]
      /\ a[Len(q)+1] = f
  BY LastAppended
<1> HIDE DEF a
<1>2. \A i \in DOMAIN a : i \in DOMAIN q \/ i = Len(q) + 1
  BY <1>1
<1>3. Carried(a) \subseteq Carried(q) \cup Carries(f)
  BY <1>1, <1>2 DEF Carried
<1>4. Carried(q) \cup Carries(f) \subseteq Carried(a)
  <2>1. \A i \in DOMAIN q : i \in DOMAIN a /\ Carries(a[i]) = Carries(q[i])
    BY <1>1
  <2>2. Len(q) + 1 \in DOMAIN a
    BY <1>1
  <2> QED BY <1>1, <2>1, <2>2 DEF Carried
<1> QED BY <1>3, <1>4 DEF a

\* Replacing the head replaces what it carries.
LEMMA CarriedReplaced ==
  ASSUME NEW q \in Seq(Frame), q # <<>>, NEW f \in Frame
  PROVE  Carried(<<f>> \o Tail(q)) = Carries(f) \cup Carried(Tail(q))
<1> DEFINE a == <<f>> \o Tail(q)
<1>1. a \in Seq(Frame) /\ a # <<>> /\ Head(a) = f
  BY HeadReplaced
<1>2. Tail(a) = Tail(q)
  BY HeadTail
<1> HIDE DEF a
<1> QED BY <1>1, <1>2, CarriedHead DEF a

\* Operations have the chunks of the first and those of the rest.
LEMMA InsideHead ==
  ASSUME NEW q \in Seq(Operation), q # <<>>
  PROVE  Inside(q) = Head(q).chunks \cup Inside(Tail(q))
<1>1. /\ Len(q) \in Nat \ {0}
      /\ DOMAIN q = 1..Len(q)
      /\ q[1] = Head(q)
      /\ DOMAIN Tail(q) = 1..Len(q)-1
      /\ \A i \in 1..Len(q)-1 : Tail(q)[i] = q[i+1]
  BY HeadFirst
<1>2. \A i \in DOMAIN q : i = 1 \/ i - 1 \in DOMAIN Tail(q)
  BY <1>1
<1>3. \A i \in DOMAIN q : q[i].chunks \subseteq Head(q).chunks \cup Inside(Tail(q))
  <2> TAKE i \in DOMAIN q
  <2>1. CASE i = 1
    BY <2>1, <1>1
  <2>2. CASE i - 1 \in DOMAIN Tail(q)
    <3>1. Tail(q)[i-1] = q[i]
      BY <2>2, <1>1
    <3> QED BY <2>2, <3>1 DEF Inside
  <2> QED BY <2>1, <2>2, <1>2
<1>4. \A i \in DOMAIN Tail(q) : Tail(q)[i].chunks \subseteq Inside(q)
  BY <1>1 DEF Inside
<1>5. Head(q).chunks \subseteq Inside(q)
  BY <1>1 DEF Inside
<1>6. Inside(q) \subseteq Head(q).chunks \cup Inside(Tail(q))
  BY <1>3 DEF Inside
<1>7. Inside(Tail(q)) \subseteq Inside(q)
  BY <1>4 DEF Inside
<1> QED BY <1>5, <1>6, <1>7

\* One operation more has its chunks more.
LEMMA InsideAppend ==
  ASSUME NEW q \in Seq(Operation), NEW op \in Operation
  PROVE  Inside(Append(q, op)) = Inside(q) \cup op.chunks
<1> DEFINE a == Append(q, op)
<1>1. /\ Len(q) \in Nat
      /\ DOMAIN q = 1..Len(q)
      /\ DOMAIN a = 1..Len(q)+1
      /\ \A i \in 1..Len(q) : a[i] = q[i]
      /\ a[Len(q)+1] = op
  BY LastAppended
<1> HIDE DEF a
<1>2. \A i \in DOMAIN a : i \in DOMAIN q \/ i = Len(q) + 1
  BY <1>1
<1>3. Inside(a) \subseteq Inside(q) \cup op.chunks
  BY <1>1, <1>2 DEF Inside
<1>4. Inside(q) \cup op.chunks \subseteq Inside(a)
  <2>1. \A i \in DOMAIN q : i \in DOMAIN a /\ a[i].chunks = q[i].chunks
    BY <1>1
  <2>2. Len(q) + 1 \in DOMAIN a
    BY <1>1
  <2> QED BY <1>1, <2>1, <2>2 DEF Inside
<1> QED BY <1>3, <1>4 DEF a

-----------------------------------------------------------------------------
(* What a frame's handler awaits                                           *)

\* The operation a frame's handler awaits is that of the frame at the head of
\* the socket's chain: a sync of the frame's chunk, or the flush of flushOutput.
AwaitedFrame ==
  \A i \in DOMAIN queue :
    /\ queue[i].sync => queue[i].waiter = "frame"
    /\ queue[i].waiter = "frame" =>
         IF queue[i].sync THEN HeadIs("sync") /\ queue[i].chunks = {Head(wire).seq}
         ELSE HeadIs("done")

\* A step that leaves the operations alone and the head of the chain.
LEMMA FrameStays ==
  ASSUME AwaitedFrame, queue' = queue,
         wire # <<>> /\ FrameWaits => wire' # <<>> /\ Head(wire') = Head(wire)
  PROVE  AwaitedFrame'
<1>1. CASE FrameWaits
  <2>1. wire # <<>>
    BY <1>1 DEF AwaitedFrame, FrameWaits, HeadIs
  <2>2. \A kind \in {"sync", "done"} : HeadIs(kind) => HeadIs(kind)'
    BY <2>1, <1>1 DEF HeadIs
  <2>3. Head(wire)' = Head(wire)
    BY <2>1, <1>1
  <2> QED BY <2>2, <2>3 DEF AwaitedFrame
<1>2. CASE ~FrameWaits
  BY <1>2 DEF AwaitedFrame, FrameWaits
<1> QED BY <1>1, <1>2

\* One operation more that no frame's handler awaits.
LEMMA FrameStaysAppend ==
  ASSUME AwaitedFrame, ServerType, NEW op \in Operation, op.waiter # "frame", ~op.sync,
         queue' = Append(queue, op),
         FrameWaits => wire' = wire
  PROVE  AwaitedFrame'
<1>1. /\ DOMAIN queue = 1..Len(queue)
      /\ DOMAIN queue' = 1..Len(queue)+1
      /\ \A i \in 1..Len(queue) : queue'[i] = queue[i]
      /\ queue'[Len(queue)+1] = op
      /\ Len(queue) \in Nat
  BY LastAppended DEF ServerType
<1>2. \A i \in DOMAIN queue' : i = Len(queue) + 1 \/ i \in DOMAIN queue
  BY <1>1
<1>3. CASE FrameWaits
  <2>1. wire' = wire
    BY <1>3
  <2>2. \A kind : HeadIs(kind)' <=> HeadIs(kind)
    BY <2>1 DEF HeadIs
  <2> QED BY <1>1, <1>2, <2>1, <2>2 DEF AwaitedFrame
<1>4. CASE ~FrameWaits
  <2>1. \A i \in DOMAIN queue' : queue'[i].waiter # "frame" /\ ~queue'[i].sync
    BY <1>1, <1>2, <1>4 DEF AwaitedFrame, FrameWaits
  <2> QED BY <2>1 DEF AwaitedFrame
<1> QED BY <1>3, <1>4

\* The operation of the frame that is being handled.
LEMMA FrameBegins ==
  ASSUME AwaitedFrame, ServerType, ~FrameWaits, NEW op \in Operation, op.waiter = "frame",
         queue' = Append(queue, op), wire' = wire,
         IF op.sync THEN HeadIs("sync") /\ op.chunks = {Head(wire).seq} ELSE HeadIs("done")
  PROVE  AwaitedFrame'
<1>1. /\ DOMAIN queue = 1..Len(queue)
      /\ DOMAIN queue' = 1..Len(queue)+1
      /\ \A i \in 1..Len(queue) : queue'[i] = queue[i]
      /\ queue'[Len(queue)+1] = op
      /\ Len(queue) \in Nat
  BY LastAppended DEF ServerType
<1>2. \A i \in DOMAIN queue' : i = Len(queue) + 1 \/ i \in DOMAIN queue
  BY <1>1
<1>3. \A i \in DOMAIN queue' :
        queue'[i] = op \/ (queue'[i].waiter # "frame" /\ ~queue'[i].sync)
  BY <1>1, <1>2 DEF AwaitedFrame, FrameWaits
<1>4. \A kind : HeadIs(kind)' <=> HeadIs(kind)
  BY DEF HeadIs
<1> QED BY <1>3, <1>4 DEF AwaitedFrame

\* An operation ends.
LEMMA FrameResumed ==
  ASSUME AwaitedFrame, OneAwaited, ServerType, queue # <<>>, Resumed(Head(queue))
  PROVE  AwaitedFrame'
<1>1. /\ DOMAIN queue = 1..Len(queue)
      /\ Len(queue) \in Nat \ {0}
      /\ queue[1] = Head(queue)
      /\ DOMAIN queue' = 1..Len(queue)-1
      /\ \A i \in 1..Len(queue)-1 : queue'[i] = queue[i+1]
  BY HeadFirst DEF ServerType, Resumed
<1>2. \A i \in DOMAIN queue' : i + 1 \in DOMAIN queue /\ i + 1 # 1 /\ queue'[i] = queue[i+1]
  BY <1>1
<1>3. CASE Head(queue).waiter = "frame"
  <2>1. \A i \in DOMAIN queue' : queue'[i].waiter # "frame"
    BY <1>1, <1>2, <1>3 DEF OneAwaited
  <2> QED BY <1>2, <2>1 DEF AwaitedFrame
<1>4. CASE Head(queue).waiter # "frame"
  <2>1. wire' = wire
    BY <1>4 DEF Resumed
  <2>2. \A kind : HeadIs(kind)' <=> HeadIs(kind)
    BY <2>1 DEF HeadIs
  <2> QED BY <1>2, <2>1, <2>2 DEF AwaitedFrame
<1> QED BY <1>3, <1>4

\* Frames behind a chain leave its head alone.
LEMMA SentKeepsHead ==
  ASSUME NetType, NEW f \in Frame, wire # <<>>
  PROVE  Sent(f) # <<>> /\ Head(Sent(f)) = Head(wire)
<1>1. Append(wire, f) # <<>> /\ Head(Append(wire, f)) = Head(wire)
  BY DEF NetType
<1> QED BY <1>1 DEF Sent

\* The frame whose handler awaits an operation stays at the head of the chain
\* until the operation ends, whatever else happens.
LEMMA AwaitedFrameStep ==
  ASSUME Accounts, AwaitedFrame, [Next]_vars
  PROVE  AwaitedFrame'
<1>t. /\ AgentType /\ NetType /\ ServerType /\ RowType /\ OneAwaited
  BY DEF Accounts, TypeOK
<1>k. ASSUME UNCHANGED <<queue, wire>> PROVE AwaitedFrame'
  BY <1>k, FrameStays
<1>s. ASSUME NEW f \in Frame, wire' = Sent(f), queue' = queue PROVE AwaitedFrame'
  BY <1>s, <1>t, SentKeepsHead, FrameStays
<1>h. ASSUME NEW kind, Handling(kind), queue' = queue PROVE AwaitedFrame'
  BY <1>h, FrameStays DEF Handling
<1>1. ASSUME NEW s \in Stream, Emit(s) PROVE AwaitedFrame'
  BY <1>1, <1>k DEF Emit, netVars, serverVars
<1>2. ASSUME NEW s \in Stream, EmitSend(s) PROVE AwaitedFrame'
  <2>1. held[s] \in Chunk
    BY <1>2, <1>t DEF EmitSend, AgentType
  <2> QED BY <1>2, <2>1, <1>s, FrameTypes DEF EmitSend, serverVars
<1>3. CASE Finish
  BY <1>3, <1>k DEF Finish, netVars, serverVars
<1>4. CASE FinishSend
  BY <1>4, <1>s, FrameTypes DEF FinishSend, serverVars
<1>5. CASE Dial
  BY <1>5, FrameStays DEF Dial, serverVars
<1>6. CASE Welcomed
  BY <1>6, <1>k DEF Welcomed, serverVars
<1>7. CASE ReconcileAll
  BY <1>7, <1>k DEF ReconcileAll, netVars, serverVars
<1>8. CASE BufferRequest
  BY <1>8, <1>k DEF BufferRequest, serverVars
<1>9. CASE LoopSend
  <2>1. Head(loopOut) \in Frame
    BY <1>9, <1>t, HeadTail DEF LoopSend, AgentType
  <2>2. \/ wire' = Sent(Head(loopOut))
        \/ wire' = Sent([kind |-> "done"])
        \/ wire' = wire
    BY <1>9 DEF LoopSend
  <2>3. queue' = queue
    BY <1>9 DEF LoopSend, serverVars
  <2> QED BY <2>1, <2>2, <2>3, <1>s, <1>k, FrameTypes
<1>10. CASE ConnectionLost
  BY <1>10, <1>k DEF ConnectionLost, serverVars
<1>11. CASE HandleHello
  BY <1>11, <1>h DEF HandleHello, serverVars
<1>12. CASE HandleResume
  BY <1>12, <1>h DEF HandleResume, serverVars
<1>13. CASE HandleOutput
  <2> DEFINE n == Head(wire).seq
  <2>1. n \in Chunk /\ ~FrameWaits
    BY <1>13, <1>t, HandledFrame, FrameTypes DEF HandleOutput
  <2>2. batch \cup {n} \in SUBSET Chunk
    BY <1>t, <2>1 DEF ServerType
  <2>3. Flush("none", batch \cup {n}) \in Operation
    BY <2>2, FlushType
  <2>4. ~Flush("none", batch \cup {n}).sync /\ Flush("none", batch \cup {n}).waiter # "frame"
    BY DEF Flush
  <2>5. queue' = queue \/ queue' = Append(queue, Flush("none", batch \cup {n}))
    BY <1>13 DEF HandleOutput
  <2> HIDE DEF n
  <2>6. CASE queue' = queue
    BY <1>13, <2>6, <1>h DEF HandleOutput
  <2>7. CASE queue' = Append(queue, Flush("none", batch \cup {n}))
    BY <2>1, <2>3, <2>4, <2>7, <1>t, FrameStaysAppend
  <2> QED BY <2>5, <2>6, <2>7
<1>14. CASE TimerFlush
  <2>1. Flush("none", batch) \in Operation
    BY <1>t, FlushType DEF ServerType
  <2>2. ~Flush("none", batch).sync /\ Flush("none", batch).waiter # "frame"
    BY DEF Flush
  <2> QED BY <1>14, <2>1, <2>2, <1>t, FrameStaysAppend DEF TimerFlush, netVars
<1>15. CASE HandleSync
  <2>1. Head(wire).seq \in Chunk /\ ~FrameWaits
    BY <1>15, <1>t, HandledFrame, FrameTypes DEF HandleSync
  <2> DEFINE op == Sync({Head(wire).seq})
  <2>2. op \in Operation /\ op.waiter = "frame"
    BY <2>1, SyncType
  <2>3. op.sync /\ op.chunks = {Head(wire).seq} /\ HeadIs("sync")
    BY <1>15 DEF HandleSync, Handling, Sync
  <2>4. queue' = Append(queue, op) /\ wire' = wire
    BY <1>15 DEF HandleSync, netVars
  <2> HIDE DEF op
  <2> QED BY <2>1, <2>2, <2>3, <2>4, <1>t, FrameBegins
<1>16. CASE HandleDone
  <2>1. CASE batch = {}
    BY <1>16, <2>1, <1>h DEF HandleDone, serverVars
  <2>2. CASE batch # {}
    <3> DEFINE op == Flush("frame", batch)
    <3>1. op \in Operation /\ op.waiter = "frame"
      BY <1>t, FlushType DEF ServerType
    <3>2. ~op.sync /\ HeadIs("done") /\ ~FrameWaits
      BY <1>16 DEF HandleDone, Handling, Flush
    <3>3. queue' = Append(queue, op) /\ wire' = wire
      BY <1>16, <2>2 DEF HandleDone
    <3> HIDE DEF op
    <3> QED BY <3>1, <3>2, <3>3, <1>t, FrameBegins
  <2> QED BY <2>1, <2>2
<1>17. CASE HandleEnded
  BY <1>17, <1>h DEF HandleEnded, serverVars
<1>e. CASE CancelQueued \/ DispatchFailed
  BY <1>e, <1>k DEF CancelQueued, DispatchFailed, netVars, serverVars
<1>18. CASE Persist
  BY <1>18, <1>t, FrameResumed DEF Persist
<1>19. CASE PersistFails
  BY <1>19, <1>t, FrameResumed DEF PersistFails
<1>20. CASE Subscribe \/ SubscribeAgain \/ ReplayFlag \/ ReplayRead \/ ReplaySend
  BY <1>20, <1>k DEF Subscribe, SubscribeAgain, ReplayFlag, ReplayRead, ReplaySend,
     netVars, serverVars
<1>21. CASE BeginSubscription
  <2>1. CASE batch = {}
    BY <1>21, <2>1, <1>k DEF BeginSubscription, netVars, serverVars
  <2>2. CASE batch # {}
    <3>1. Flush("viewer", batch) \in Operation
      BY <1>t, FlushType DEF ServerType
    <3>2. ~Flush("viewer", batch).sync /\ Flush("viewer", batch).waiter # "frame"
      BY DEF Flush
    <3>3. queue' = Append(queue, Flush("viewer", batch)) /\ wire' = wire
      BY <1>21, <2>2 DEF BeginSubscription, netVars
    <3> QED BY <3>1, <3>2, <3>3, <1>t, FrameStaysAppend
  <2> QED BY <2>1, <2>2
<1>22. CASE ViewerDrop
  <2>1. /\ wire' = wire
        /\ queue' = [i \in DOMAIN queue |->
             IF queue[i].waiter = "viewer" THEN Flush("none", queue[i].chunks) ELSE queue[i]]
    BY <1>22 DEF ViewerDrop, netVars
  <2>2. /\ DOMAIN queue' = DOMAIN queue
        /\ \A i \in DOMAIN queue :
             queue'[i] = queue[i] \/ (queue'[i].waiter = "none" /\ ~queue'[i].sync)
    BY <2>1 DEF Flush
  <2>3. \A kind : HeadIs(kind)' <=> HeadIs(kind)
    BY <2>1 DEF HeadIs
  <2> QED BY <2>1, <2>2, <2>3 DEF AwaitedFrame
<1>23. CASE NetworkDrop
  <2>1. PICK k \in 0..Len(wire) :
          /\ k = 0 => wire = <<>> \/ ~(FrameWaits \/ HeadIs("resume") \/ HeadIs("ended"))
          /\ wire' = SubSeq(wire, 1, k)
    BY <1>23 DEF NetworkDrop
  <2>2. wire # <<>> /\ FrameWaits => wire' # <<>> /\ Head(wire') = Head(wire)
    <3> SUFFICES ASSUME wire # <<>>, FrameWaits PROVE wire' # <<>> /\ Head(wire') = Head(wire)
      OBVIOUS
    <3>1. k \in 1..Len(wire)
      BY <2>1, <1>t DEF NetType
    <3> QED BY <2>1, <3>1, <1>t DEF NetType
  <2> QED BY <1>23, <2>2, FrameStays DEF NetworkDrop, serverVars
<1>24. CASE ServerRestart
  <2>1. queue' = <<>>
    BY <1>24 DEF ServerRestart
  <2> QED BY <2>1 DEF AwaitedFrame
<1>25. CASE UNCHANGED vars
  BY <1>25, <1>k DEF vars, netVars, serverVars
<1> QED BY <1>1, <1>2, <1>3, <1>4, <1>5, <1>6, <1>7, <1>8, <1>9, <1>10, <1>11, <1>12, <1>13,
           <1>14, <1>15, <1>16, <1>17, <1>e, <1>18, <1>19, <1>20, <1>21, <1>22, <1>23, <1>24, <1>25
       DEF Next, Agent, Server, Viewer

-----------------------------------------------------------------------------
(* Where a chunk can be                                                    *)

\* The chunks that are rows, or were, or that the database refused.
Kept == stored \cup evicted \cup lost

\* The chunks the server has relayed to its viewers.
Relayed == Kept \cup batch \cup InFlight

\* The chunks a reader has yet to send.
Holding == {held[s] : s \in Stream} \ {NoChunk}

\* The chunks that are somewhere between the agent's buffer and the database.
Accounted == Relayed \cup Carried(wire) \cup Carried(loopOut) \cup Holding

\* What an operation stores stays accounted for, with all that was before.
LEMMA PersistKeeps ==
  ASSUME RowType, HistoryType, Persist
  PROVE  Kept \cup Head(queue).chunks \subseteq Kept'
<1> DEFINE op == Head(queue)
           new == op.chunks \ stored
           removed == IF new = {} THEN {} ELSE Removed(stored \cup new, retained + Bytes[new])
<1>1. /\ stored' = (stored \cup new) \ removed
      /\ evicted' = evicted \cup removed
      /\ lost' = lost \ op.chunks
  BY DEF Persist
<1> HIDE DEF removed
<1>2. stored \cup op.chunks \subseteq stored' \cup evicted'
  BY <1>1
<1> QED BY <1>1, <1>2 DEF Kept

\* A flush that fails leaves its chunks among the lost ones.
LEMMA FailureKeeps ==
  ASSUME PersistFails
  PROVE  /\ Kept \subseteq Kept'
         /\ ~Head(queue).sync => Kept' = Kept \cup Head(queue).chunks
         /\ linkUp' = (linkUp /\ ~Head(queue).sync)
  BY DEF PersistFails, rowVars, Kept

\* Output and syncs carry their chunk, the other frames nothing.
LEMMA CarriesFrame ==
  /\ \A f \in Frame : f.kind \notin {"output", "sync"} => Carries(f) = {}
  /\ \A n : Carries([kind |-> "output", seq |-> n]) = {n}
  /\ \A n : Carries([kind |-> "sync", seq |-> n]) = {n}
  /\ Carries([kind |-> "done"]) = {} /\ Carries([kind |-> "ended"]) = {}
  /\ Carries([kind |-> "resume"]) = {} /\ Carries([kind |-> "reconcile"]) = {}
  BY DEF Carries

\* While the connection works no step loses sight of a chunk: not the agent's,
LEMMA AgentAccounts ==
  ASSUME Accounts, Agent, phase = "online", linkUp, phase' = "online"
  PROVE  Accounted \cup next..next'-1 \subseteq Accounted'
<1>t. /\ AgentType /\ NetType /\ ServerType
  BY DEF Accounts, TypeOK
<1>n. next \in Nat
  BY <1>t, OutputAssumption DEF AgentType
<1>r. ASSUME UNCHANGED <<serverVars, rowVars, historyVars>> PROVE Relayed' = Relayed
  BY <1>r DEF Relayed, Kept, InFlight, serverVars, rowVars, historyVars
<1>s. ASSUME NEW f \in Frame, wire' = Sent(f) PROVE Carried(wire)' = Carried(wire) \cup Carries(f)
  <2>1. wire' = Append(wire, f)
    BY <1>s DEF Sent
  <2> QED BY <2>1, <1>t, CarriedAppend DEF NetType
<1>m. next' = next => next..next'-1 = {}
  BY <1>n
<1>1. ASSUME NEW s \in Stream, Emit(s) PROVE Accounted \cup next..next'-1 \subseteq Accounted'
  <2>1. next..next'-1 = {next}
    BY <1>1, <1>n DEF Emit
  <2>2. held' = [held EXCEPT ![s] = next] /\ held[s] = NoChunk /\ next # NoChunk
    BY <1>1, <1>n DEF Emit, NoChunk
  <2>3. Holding \cup {next} \subseteq Holding'
    BY <2>2, <1>t DEF Holding, AgentType
  <2>4. UNCHANGED <<wire, loopOut>> /\ Relayed' = Relayed
    BY <1>1, <1>r DEF Emit, clientVars, netVars
  <2> QED BY <2>1, <2>3, <2>4 DEF Accounted
<1>2. ASSUME NEW s \in Stream, EmitSend(s) PROVE Accounted \cup next..next'-1 \subseteq Accounted'
  <2> DEFINE f == [kind |-> "output", seq |-> held[s]]
  <2>1. held[s] \in Chunk
    BY <1>2, <1>t DEF EmitSend, AgentType
  <2>2. f \in Frame /\ Carries(f) = {held[s]}
    BY <2>1, FrameTypes, CarriesFrame
  <2>3. wire' = Sent(f) /\ held' = [held EXCEPT ![s] = NoChunk]
    BY <1>2 DEF EmitSend
  <2>4. Holding \subseteq Holding' \cup {held[s]}
    BY <2>3, <1>t DEF Holding, AgentType
  <2> HIDE DEF f
  <2>5. Carried(wire)' = Carried(wire) \cup {held[s]}
    BY <2>2, <2>3, <1>s
  <2>6. loopOut' = loopOut /\ Relayed' = Relayed /\ next' = next
    BY <1>2, <1>r DEF EmitSend, clientVars
  <2> QED BY <2>4, <2>5, <2>6, <1>m DEF Accounted
<1>3. CASE Finish
  <2>1. UNCHANGED <<wire, loopOut, held, next>> /\ Relayed' = Relayed
    BY <1>3, <1>r DEF Finish, clientVars, netVars
  <2> QED BY <2>1, <1>m DEF Accounted, Holding
<1>4. CASE FinishSend
  <2>1. UNCHANGED <<loopOut, held, next>> /\ Relayed' = Relayed /\ wire' = Sent([kind |-> "done"])
    BY <1>4, <1>r DEF FinishSend, clientVars
  <2>2. Carried(wire)' = Carried(wire)
    BY <2>1, <1>s, FrameTypes, CarriesFrame
  <2> QED BY <2>1, <2>2, <1>m DEF Accounted, Holding
<1>5. CASE Dial \/ Welcomed \/ ReconcileAll \/ ConnectionLost
  BY <1>5 DEF Dial, Welcomed, ReconcileAll, ConnectionLost
<1>6. CASE BufferRequest
  <2>1. UNCHANGED <<wire, held, next>> /\ Relayed' = Relayed /\ loopOut = <<>>
    BY <1>6, <1>r DEF BufferRequest, agentVars
  <2>2. Carried(loopOut) = {}
    BY <2>1 DEF Carried
  <2> QED BY <2>1, <2>2, <1>m DEF Accounted, Holding
<1>7. CASE LoopSend
  <2>1. UNCHANGED <<held, next>> /\ Relayed' = Relayed /\ loopOut # <<>> /\ loopOut' = Tail(loopOut)
    BY <1>7, <1>r DEF LoopSend, agentVars
  <2>2. Head(loopOut) \in Frame
    BY <2>1, <1>t, HeadTail DEF AgentType
  <2>3. Carried(loopOut) = Carries(Head(loopOut)) \cup Carried(loopOut)'
    BY <2>1, <1>t, CarriedHead DEF AgentType
  <2>4. Carried(wire) \cup Carries(Head(loopOut)) \subseteq Carried(wire)'
    <3>1. CASE Head(loopOut).kind # "reconcile"
      <4>1. wire' = Sent(Head(loopOut))
        BY <1>7, <3>1 DEF LoopSend
      <4> QED BY <4>1, <2>2, <1>s
    <3>2. CASE Head(loopOut).kind = "reconcile"
      <4>1. Carries(Head(loopOut)) = {}
        BY <3>2, <2>2, CarriesFrame
      <4>2. wire' = wire \/ wire' = Sent([kind |-> "done"])
        BY <1>7, <3>2 DEF LoopSend
      <4> QED BY <4>1, <4>2, <1>s, FrameTypes
    <3> QED BY <3>1, <3>2
  <2> QED BY <2>1, <2>3, <2>4, <1>m DEF Accounted, Holding
<1> QED BY <1>1, <1>2, <1>3, <1>4, <1>5, <1>6, <1>7 DEF Agent

\* ... and not the server's.
LEMMA ServerAccounts ==
  ASSUME Accounts, AwaitedFrame, Server, linkUp'
  PROVE  Accounted \subseteq Accounted'
<1>t. /\ NetType /\ ServerType /\ RowType /\ HistoryType /\ OneAwaited
  BY DEF Accounts, TypeOK
<1>g. ASSUME UNCHANGED <<held, loopOut>>,
             Relayed \cup Carried(wire) \subseteq Relayed' \cup Carried(wire)'
      PROVE  Accounted \subseteq Accounted'
  BY <1>g DEF Accounted, Holding
<1>r. ASSUME UNCHANGED <<serverVars, stored, evicted, lost>> PROVE Relayed' = Relayed
  BY <1>r DEF Relayed, Kept, InFlight, serverVars
<1>h. ASSUME NEW kind, Handling(kind)
      PROVE  /\ wire # <<>> /\ Head(wire) \in Frame /\ Head(wire).kind = kind
             /\ Carried(wire) = Carries(Head(wire)) \cup Carried(Tail(wire))
             /\ kind \notin {"output", "sync"} => Carries(Head(wire)) = {}
             /\ kind \in {"output", "sync"} => Carries(Head(wire)) = {Head(wire).seq}
  BY <1>h, <1>t, HandledFrame, CarriedHead DEF NetType, Carries
<1>i. ASSUME NEW op \in Operation, queue' = Append(queue, op)
      PROVE  InFlight' = InFlight \cup op.chunks
  BY <1>i, <1>t, InsideAppend DEF ServerType, InFlight, Inside
<1>1. CASE HandleHello
  <2>1. Carried(wire) = Carried(Tail(wire)) /\ wire # <<>>
    BY <1>1, <1>h DEF HandleHello
  <2>2. CASE Head(wire).running
    <3>1. wire' = <<[kind |-> "resume"]>> \o Tail(wire)
      BY <1>1, <2>2 DEF HandleHello
    <3>2. Carried(wire)' = Carried(wire)
      BY <2>1, <3>1, <1>t, CarriedReplaced, FrameTypes, CarriesFrame DEF NetType
    <3> QED BY <1>1, <3>2, <1>r, <1>g DEF HandleHello, agentVars, clientVars, rowVars, historyVars
  <2>3. CASE ~Head(wire).running
    <3>1. wire' = <<>> \o Tail(wire)
      BY <1>1, <2>3 DEF HandleHello
    <3>2. wire' = Tail(wire)
      BY <3>1, <2>1, <1>t, HeadTail DEF NetType
    <3> QED BY <1>1, <2>1, <3>2, <1>r, <1>g DEF HandleHello, agentVars, clientVars, rowVars,
            historyVars
  <2> QED BY <2>2, <2>3
<1>2. CASE HandleResume
  <2>1. Carried(wire)' = Carried(wire)
    BY <1>2, <1>h DEF HandleResume
  <2> QED BY <1>2, <2>1, <1>r, <1>g DEF HandleResume, agentVars, clientVars, rowVars, historyVars
<1>3. CASE HandleOutput
  <2> DEFINE n == Head(wire).seq
  <2>1. Carried(wire) = {n} \cup Carried(Tail(wire)) /\ Handling("output")
    BY <1>3, <1>h DEF HandleOutput
  <2>2. n \in Chunk
    BY <2>1, <1>t, HandledFrame, FrameTypes
  <2>3. /\ wire' = Tail(wire)
        /\ \/ batch' = {} /\ queue' = Append(queue, Flush("none", batch \cup {n}))
           \/ batch' = batch \cup {n} /\ queue' = queue
    BY <1>3 DEF HandleOutput
  <2>4. UNCHANGED <<held, loopOut, stored, evicted, lost>>
    BY <1>3 DEF HandleOutput, agentVars, clientVars, rowVars, historyVars
  <2>5. batch \cup {n} \in SUBSET Chunk
    BY <2>2, <1>t DEF ServerType
  <2>6. Flush("none", batch \cup {n}) \in Operation /\ Flush("none",
          batch \cup {n}).chunks = batch \cup {n}
    BY <2>5, FlushType DEF Flush
  <2> HIDE DEF n
  <2>7. batch \cup InFlight \cup {n} \subseteq batch' \cup InFlight'
    <3>1. CASE batch' = {} /\ queue' = Append(queue, Flush("none", batch \cup {n}))
      BY <3>1, <2>6, <1>i
    <3>2. CASE batch' = batch \cup {n} /\ queue' = queue
      BY <3>2 DEF InFlight
    <3> QED BY <2>3, <3>1, <3>2
  <2>8. Relayed \cup {n} \subseteq Relayed'
    BY <2>4, <2>7 DEF Relayed, Kept
  <2> QED BY <2>1, <2>3, <2>4, <2>8, <1>g
<1>4. CASE TimerFlush
  <2>1. Flush("none", batch) \in Operation /\ Flush("none", batch).chunks = batch
    BY <1>t, FlushType DEF ServerType, Flush
  <2>2. InFlight' = InFlight \cup batch
    BY <1>4, <2>1, <1>i DEF TimerFlush
  <2> QED BY <1>4, <2>2, <1>g
          DEF TimerFlush, agentVars, clientVars, netVars, rowVars, historyVars, Relayed, Kept
<1>5. CASE HandleSync
  <2>1. Sync({Head(wire).seq}) \in Operation
    BY <1>5, <1>t, HandledFrame, FrameTypes, SyncType DEF HandleSync
  <2>2. InFlight \subseteq InFlight'
    BY <1>5, <2>1, <1>i DEF HandleSync
  <2> QED BY <1>5, <2>2, <1>g
          DEF HandleSync, agentVars, clientVars, netVars, rowVars, historyVars, Relayed, Kept
<1>6. CASE HandleDone
  <2>1. Carried(wire) = Carried(Tail(wire)) /\ wire # <<>>
    <3>1. Handling("done")
      BY <1>6 DEF HandleDone
    <3> QED BY <3>1, <1>h
  <2>2. CASE batch = {}
    <3>1. wire' = <<[kind |-> "ended"]>> \o Tail(wire)
      BY <1>6, <2>2 DEF HandleDone
    <3>2. Carried(wire)' = Carried(wire)
      BY <2>1, <3>1, <1>t, CarriedReplaced, FrameTypes, CarriesFrame DEF NetType
    <3> QED BY <1>6, <2>2, <3>2, <1>r, <1>g DEF HandleDone, agentVars, clientVars, rowVars,
            historyVars
  <2>3. CASE batch # {}
    <3>1. Flush("frame", batch) \in Operation /\ Flush("frame", batch).chunks = batch
      BY <1>t, FlushType DEF ServerType, Flush
    <3>2. InFlight' = InFlight \cup batch /\ wire' = wire
      BY <1>6, <2>3, <3>1, <1>i DEF HandleDone
    <3> QED BY <1>6, <3>2, <1>g
            DEF HandleDone, agentVars, clientVars, rowVars, historyVars, Relayed, Kept
  <2> QED BY <2>2, <2>3
<1>7. CASE HandleEnded
  <2>1. Carried(wire)' = Carried(wire)
    BY <1>7, <1>h DEF HandleEnded
  <2> QED BY <1>7, <2>1, <1>r, <1>g DEF HandleEnded, agentVars, clientVars, historyVars
<1>e. CASE CancelQueued \/ DispatchFailed
  BY <1>e, <1>r, <1>g DEF CancelQueued, DispatchFailed, agentVars, clientVars, netVars,
     historyVars
<1>q. ASSUME queue # <<>>, Resumed(Head(queue)), UNCHANGED <<held, loopOut, batch>>,
             Kept \cup Head(queue).chunks \subseteq Kept'
      PROVE  Accounted \subseteq Accounted'
  <2>1. InFlight = Head(queue).chunks \cup InFlight'
    <3>1. InFlight = Inside(queue) /\ InFlight' = Inside(Tail(queue))
      BY <1>q DEF Resumed, InFlight, Inside
    <3> QED BY <1>q, <1>t, <3>1, InsideHead DEF ServerType
  <2>2. Relayed \subseteq Relayed'
    BY <1>q, <2>1 DEF Relayed
  <2>3. Head(queue) = queue[1] /\ 1 \in DOMAIN queue
    BY <1>q, <1>t, HeadFirst DEF ServerType
  <2>4. Carried(wire) \subseteq Carried(wire)' \cup Head(queue).chunks
    <3>1. CASE Head(queue).waiter # "frame"
      BY <1>q, <3>1 DEF Resumed
    <3>2. CASE Head(queue).waiter = "frame" /\ Head(queue).sync
      <4>1. HeadIs("sync") /\ Head(queue).chunks = {Head(wire).seq} /\ wire' = Tail(wire)
        BY <1>q, <2>3, <3>2 DEF AwaitedFrame, Resumed
      <4>2. Carried(wire) = {Head(wire).seq} \cup Carried(Tail(wire))
        BY <4>1, <1>t, CarriedHead DEF HeadIs, NetType, Carries
      <4> QED BY <4>1, <4>2
    <3>3. CASE Head(queue).waiter = "frame" /\ ~Head(queue).sync
      <4>1. HeadIs("done") /\ wire' = <<[kind |-> "ended"]>> \o Tail(wire)
        BY <1>q, <2>3, <3>3 DEF AwaitedFrame, Resumed
      <4>2. Carried(wire) = Carried(Tail(wire))
        BY <4>1, <1>t, CarriedHead DEF HeadIs, NetType, Carries
      <4>3. Carried(wire)' = Carried(wire)
        BY <4>1, <4>2, <1>t, CarriedReplaced, FrameTypes, CarriesFrame DEF NetType, HeadIs
      <4> QED BY <4>3
    <3> QED BY <3>1, <3>2, <3>3
  <2> QED BY <1>q, <2>2, <2>4, <1>g DEF Relayed
<1>8. CASE Persist
  <2>1. Kept \cup Head(queue).chunks \subseteq Kept'
    BY <1>8, <1>t, PersistKeeps
  <2> QED BY <1>8, <2>1, <1>q DEF Persist, agentVars, clientVars
<1>9. CASE PersistFails
  <2>1. Kept \cup Head(queue).chunks \subseteq Kept'
    BY <1>9, FailureKeeps
  <2> QED BY <1>9, <2>1, <1>q DEF PersistFails, agentVars, clientVars
<1> QED BY <1>1, <1>2, <1>3, <1>4, <1>5, <1>6, <1>7, <1>e, <1>8, <1>9 DEF Server

\* A viewer's steps move chunks at most from the batch into an operation.
LEMMA ViewerAccounts ==
  ASSUME Accounts, Viewer
  PROVE  /\ Relayed' = Relayed /\ Accounted' = Accounted
         /\ UNCHANGED <<agentVars, clientVars, netVars, boundVars>> \/ Subscribe
<1>t. ServerType
  BY DEF Accounts, TypeOK
<1>g. ASSUME UNCHANGED <<agentVars, clientVars, netVars>>, Relayed' = Relayed
      PROVE  Accounted' = Accounted
  BY <1>g DEF Accounted, Holding, agentVars, clientVars, netVars
<1>1. CASE Subscribe \/ SubscribeAgain \/ ReplayFlag \/ ReplayRead \/ ReplaySend
  <2>1. Relayed' = Relayed
    BY <1>1 DEF Subscribe, SubscribeAgain, ReplayFlag, ReplayRead, ReplaySend, serverVars,
       rowVars, historyVars, Relayed, Kept, InFlight
  <2> QED BY <1>1, <2>1, <1>g DEF Subscribe, SubscribeAgain, ReplayFlag, ReplayRead, ReplaySend
<1>2. CASE BeginSubscription
  <2>1. CASE batch = {}
    <3>1. Relayed' = Relayed
      BY <1>2, <2>1 DEF BeginSubscription, serverVars, rowVars, historyVars, Relayed, Kept, InFlight
    <3> QED BY <1>2, <3>1, <1>g DEF BeginSubscription
  <2>2. CASE batch # {}
    <3>1. Flush("viewer", batch) \in Operation /\ Flush("viewer", batch).chunks = batch
      BY <1>t, FlushType DEF ServerType, Flush
    <3>2. queue' = Append(queue, Flush("viewer", batch)) /\ batch' = {}
      BY <1>2, <2>2 DEF BeginSubscription
    <3>3. InFlight' = InFlight \cup batch
      BY <3>1, <3>2, <1>t, InsideAppend DEF ServerType, InFlight, Inside
    <3>4. Relayed' = Relayed
      BY <1>2, <3>2, <3>3 DEF BeginSubscription, rowVars, historyVars, Relayed, Kept
    <3> QED BY <1>2, <3>4, <1>g DEF BeginSubscription
  <2> QED BY <2>1, <2>2
<1>3. CASE ViewerDrop
  <2>1. /\ DOMAIN queue' = DOMAIN queue
        /\ \A i \in DOMAIN queue : queue'[i].chunks = queue[i].chunks
    BY <1>3 DEF ViewerDrop, Flush
  <2>2. InFlight' = InFlight
    BY <2>1 DEF InFlight
  <2>3. Relayed' = Relayed
    BY <1>3, <2>2 DEF ViewerDrop, rowVars, historyVars, Relayed, Kept
  <2> QED BY <1>3, <2>3, <1>g DEF ViewerDrop
<1> QED BY <1>1, <1>2, <1>3 DEF Viewer

-----------------------------------------------------------------------------
(* What a connection failed to deliver is sent again                       *)

\* While the agent is connected nothing of its buffer is out of sight.
RingCovered == phase = "online" /\ linkUp => Ring \subseteq Accounted

\* What the proof that the buffer backstops the database needs.
Backstop == Accounts /\ AwaitedFrame /\ RingCovered

\* The frames of a sync of the whole buffer carry all of it.
LEMMA SyncCovers ==
  ASSUME AgentType, NEW rest \in Seq(Frame)
  PROVE  Ring \subseteq Carried(SyncFrames(NoChunk) \o rest)
<1> DEFINE s == SyncFrames(NoChunk)
<1>1. ringLow \in Nat /\ next \in Nat /\ next - ringLow \in Nat
  BY OutputAssumption DEF AgentType
<1>2. s = [i \in 1..next - ringLow |-> [kind |-> "sync", seq |-> ringLow + i - 1]]
  BY <1>1 DEF SyncFrames, NoChunk
<1>3. s \in Seq(Frame)
  BY SyncFramesType
<1>4. DOMAIN s = 1..next - ringLow /\ Len(s) = next - ringLow
  BY <1>1, <1>2, <1>3
<1>5. \A i \in 1..next - ringLow : i \in DOMAIN (s \o rest) /\ (s \o rest)[i] = s[i]
  BY <1>1, <1>3, <1>4
<1>6. \A n \in Ring : n \in Carries(s[n - ringLow + 1]) /\ n - ringLow + 1 \in 1..next - ringLow
  BY <1>1, <1>2 DEF Ring, Carries
<1> QED BY <1>5, <1>6 DEF Carried

\* Nothing of the buffer gets out of sight while the connection works, and a new
\* connection brings all of it back in sight.
LEMMA RingStep ==
  ASSUME Backstop, [Next]_vars
  PROVE  RingCovered'
<1>t. Accounts /\ AgentType /\ AwaitedFrame /\ RingCovered
  BY DEF Backstop, Accounts, TypeOK
<1>n. next \in Nat /\ ringLow \in Nat
  BY <1>t, OutputAssumption DEF AgentType
<1> SUFFICES ASSUME phase' = "online", linkUp' PROVE Ring' \subseteq Accounted'
  BY DEF RingCovered
<1>a. ASSUME UNCHANGED <<next, ringLow, phase, linkUp>>, Accounted \subseteq Accounted'
      PROVE  Ring' \subseteq Accounted'
  BY <1>a, <1>t DEF Ring, RingCovered
<1>1. CASE Agent
  <2>1. CASE phase = "online" /\ linkUp
    <3>1. Ring \cup next..next'-1 \subseteq Accounted'
      BY <1>1, <1>t, <2>1, AgentAccounts DEF RingCovered
    <3>2. ringLow' \in Int /\ next' \in Int /\ ringLow' >= ringLow
      <4>1. ASSUME NEW s \in Stream, Emit(s)
            PROVE  ringLow' \in Int /\ next' \in Int /\ ringLow' >= ringLow
        <5> DEFINE lows == {low \in ringLow..next : Fits(low, next)}
        <5>1. next \in lows
          BY <1>t, <1>n, OutputAssumption DEF Fits, AgentType
        <5>2. lows \in SUBSET Int /\ IsFiniteSet(lows)
          <6>1. IsFiniteSet(ringLow..next) /\ lows \subseteq ringLow..next
            BY <1>n, FS_Interval
          <6> QED BY <6>1, <1>n, FS_Subset
        <5>3. PICK m \in lows : \A k \in lows : m <= k
          BY <5>1, <5>2, LeastElement
        <5>4. Min(lows) \in lows
          BY <5>3 DEF Min
        <5> QED BY <4>1, <5>4, <1>n DEF Emit
      <4>2. CASE ~\E s \in Stream : Emit(s)
        <5>1. UNCHANGED <<next, ringLow>>
          BY <1>1, <4>2 DEF Agent, EmitSend, Finish, FinishSend, Dial, Welcomed,
             ReconcileAll, BufferRequest, LoopSend, ConnectionLost, agentVars
        <5> QED BY <5>1, <1>n
      <4> QED BY <4>1, <4>2
    <3>3. Ring' \subseteq Ring \cup next..next'-1
      <4>1. \A low, high, a, b \in Int :
              a >= low => a..b-1 \subseteq (low..high-1) \cup (high..b-1)
        OBVIOUS
      <4>2. next \in Int /\ ringLow \in Int
        BY <1>n
      <4>3. ringLow'..next'-1 \subseteq (ringLow..next-1) \cup (next..next'-1)
        BY <4>1, <4>2, <3>2
      <4> QED BY <4>3 DEF Ring
    <3> QED BY <3>1, <3>3
  <2>2. CASE phase # "online"
    <3>1. ReconcileAll
      BY <1>1, <2>2 DEF Agent, Emit, EmitSend, Finish, FinishSend, Dial, Welcomed,
         BufferRequest, LoopSend, ConnectionLost, clientVars
    <3>2. Ring \subseteq Carried(loopOut')
      <4>1. <<[kind |-> "reconcile"]>> \in Seq(Frame)
        BY FrameTypes
      <4>2. loopOut' = SyncFrames(NoChunk) \o <<[kind |-> "reconcile"]>>
        BY <3>1 DEF ReconcileAll
      <4>3. Ring \subseteq Carried(SyncFrames(NoChunk) \o <<[kind |-> "reconcile"]>>)
        BY <4>1, <1>t, SyncCovers
      <4> QED BY <4>2, <4>3
    <3>3. Ring' = Ring
      BY <3>1 DEF ReconcileAll, agentVars, Ring
    <3> QED BY <3>2, <3>3 DEF Accounted
  <2>3. CASE phase = "online" /\ ~linkUp
    BY <1>1, <2>3 DEF Agent, Emit, EmitSend, Finish, FinishSend, Dial, Welcomed, ReconcileAll,
       BufferRequest, LoopSend, ConnectionLost, clientVars, netVars
  <2> QED BY <2>1, <2>2, <2>3
<1>2. CASE Server
  <2>1. UNCHANGED <<next, ringLow, phase>> /\ (linkUp' => linkUp)
    BY <1>2 DEF Server, HandleHello, HandleResume, HandleOutput, TimerFlush, HandleSync,
       HandleDone, HandleEnded, CancelQueued, DispatchFailed, Persist, PersistFails, agentVars,
       clientVars, netVars
  <2>2. Accounted \subseteq Accounted'
    BY <1>2, <1>t, ServerAccounts
  <2> QED BY <2>1, <2>2, <1>t DEF Ring, RingCovered
<1>3. CASE Viewer
  <2>1. UNCHANGED <<next, ringLow, phase, linkUp>>
    BY <1>3 DEF Viewer, Subscribe, SubscribeAgain, BeginSubscription, ReplayFlag, ReplayRead,
       ReplaySend, ViewerDrop, agentVars, clientVars, netVars
  <2>2. Accounted' = Accounted
    BY <1>3, <1>t, ViewerAccounts
  <2> QED BY <2>1, <2>2, <1>a
<1>4. CASE NetworkDrop \/ ServerRestart
  BY <1>4 DEF NetworkDrop, ServerRestart
<1>5. CASE UNCHANGED vars
  <2>1. UNCHANGED <<next, ringLow, phase, linkUp, held, wire, loopOut, batch, queue, stored,
                    evicted, lost>>
    BY <1>5 DEF vars, agentVars, clientVars, netVars, serverVars, rowVars, historyVars
  <2>2. Accounted' = Accounted
    BY <2>1 DEF Accounted, Relayed, Kept, InFlight, Holding
  <2> QED BY <2>1, <2>2, <1>a
<1> QED BY <1>1, <1>2, <1>3, <1>4, <1>5 DEF Next

\* Every step keeps the buffer in sight.
LEMMA BackstopInvariant == Spec => []Backstop
<1>1. Init => Backstop
  <2> SUFFICES ASSUME Init PROVE Backstop
    OBVIOUS
  <2>1. AwaitedFrame
    BY DEF Init, AwaitedFrame
  <2>2. Ring = {}
    BY DEF Init, Ring
  <2> QED BY <2>1, <2>2, AccountsInit DEF Backstop, RingCovered
<1>2. Backstop /\ [Next]_vars => Backstop'
  BY AccountsStep, AwaitedFrameStep, RingStep DEF Backstop
<1> QED BY <1>1, <1>2, PTL DEF Spec

\* The agent's buffer backstops the database: whatever connections and server
\* restarts lost, once the agent is connected and all it sent is handled, every
\* chunk of its buffer is a row, was one, or belongs to a flush the database
\* refused; for all lengths, limits, streams and failures.
THEOREM BackstopCorrect == Spec => []BufferBackstops
<1>1. Backstop => BufferBackstops
  <2> SUFFICES ASSUME Backstop, Quiescent PROVE Ring \subseteq stored \cup evicted \cup lost
    BY DEF BufferBackstops
  <2>1. Ring \subseteq Accounted
    BY DEF Backstop, RingCovered, Quiescent
  <2>2. InFlight = {} /\ Carried(wire) = {} /\ Carried(loopOut) = {} /\ batch = {}
    BY DEF Quiescent, InFlight, Carried
  <2>3. Holding = {}
    BY DEF Quiescent, Holding
  <2> QED BY <2>1, <2>2, <2>3 DEF Accounted, Relayed, Kept
<1> QED BY <1>1, BackstopInvariant, PTL

-----------------------------------------------------------------------------
(* An undisturbed connection                                               *)

Undisturbed == drops = 0 /\ restarts = 0

\* The agent was never asked for anything, and every chunk is in sight.
Steady ==
  /\ phase = "online" /\ linkUp
  /\ orders = <<>> /\ loopOut = <<>>
  /\ \A i \in DOMAIN queue : ~queue[i].sync
  /\ 0..next-1 \subseteq Accounted

\* Frames of output, and at the end at most one of the job's completion.
Outflow(frames) ==
  \A i \in DOMAIN frames :
    \/ frames[i].kind = "output"
    \/ i = Len(frames) /\ frames[i].kind = "done"
    \/ i = Len(frames) /\ i = 1 /\ frames[i].kind = "ended"

\* The completion of the job is the last frame, and once its handler has taken the
\* batch nothing comes into it any more.
Ending ==
  /\ Outflow(wire)
  /\ runPc # "read" => Holding = {}
  /\ runPc # "end" => \A i \in DOMAIN wire : wire[i].kind = "output"
  /\ reported => wire = <<>> /\ runPc = "end"
  /\ (HeadIs("done") /\ FrameWaits) \/ HeadIs("ended") \/ reported => batch = {}

\* What the proof that a job ends with its output written needs.
Flushed ==
  /\ Backstop
  /\ drops \in Nat /\ restarts \in Nat
  /\ Undisturbed => Steady /\ Ending

\* The rest of an outflow is one, and only output has anything behind it.
LEMMA OutflowHead ==
  ASSUME NEW q \in Seq(Frame), Outflow(q), q # <<>>
  PROVE  /\ Outflow(Tail(q))
         /\ Tail(q) # <<>> => Head(q).kind = "output" /\ Head(Tail(q)).kind # "ended"
         /\ Head(q).kind \in {"output", "done", "ended"}
         /\ \A i \in DOMAIN Tail(q) : Tail(q)[i] = q[i+1] /\ i + 1 \in DOMAIN q
<1>1. /\ Len(q) \in Nat \ {0}
      /\ DOMAIN q = 1..Len(q)
      /\ q[1] = Head(q)
      /\ Tail(q) \in Seq(Frame)
      /\ Len(Tail(q)) = Len(q) - 1
      /\ DOMAIN Tail(q) = 1..Len(q)-1
      /\ \A i \in 1..Len(q)-1 : Tail(q)[i] = q[i+1]
  BY HeadFirst
<1>2. \A i \in DOMAIN Tail(q) : i + 1 \in DOMAIN q /\ i + 1 # 1 /\ Tail(q)[i] = q[i+1]
                                /\ (i + 1 = Len(q) => i = Len(Tail(q)))
  BY <1>1
<1>3. Outflow(Tail(q))
  BY <1>2 DEF Outflow
<1>4. Tail(q) # <<>> => Head(q).kind = "output" /\ Head(Tail(q)).kind # "ended"
  <2> SUFFICES ASSUME Tail(q) # <<>>
               PROVE  Head(q).kind = "output" /\ Head(Tail(q)).kind # "ended"
    OBVIOUS
  <2>1. Len(q) # 1 /\ 1 \in DOMAIN Tail(q) /\ Head(Tail(q)) = Tail(q)[1] /\ 1 \in DOMAIN q
    BY <1>1, HeadFirst
  <2> QED BY <2>1, <1>1, <1>2 DEF Outflow
<1>5. Head(q).kind \in {"output", "done", "ended"}
  <2>1. 1 \in DOMAIN q
    BY <1>1
  <2> QED BY <1>1, <2>1 DEF Outflow
<1> QED BY <1>2, <1>3, <1>4, <1>5

\* One frame more behind output.
LEMMA OutflowAppend ==
  ASSUME NEW q \in Seq(Frame), \A i \in DOMAIN q : q[i].kind = "output",
         NEW f \in Frame, f.kind \in {"output", "done"}
  PROVE  /\ Outflow(Append(q, f))
         /\ Append(q, f) # <<>>
         /\ Head(Append(q, f)).kind # "ended"
         /\ q # <<>> => Head(Append(q, f)).kind = "output"
         /\ f.kind = "output" => \A i \in DOMAIN Append(q, f) : Append(q, f)[i].kind = "output"
<1> DEFINE a == Append(q, f)
<1>1. /\ Len(q) \in Nat
      /\ DOMAIN q = 1..Len(q)
      /\ Len(a) = Len(q) + 1
      /\ DOMAIN a = 1..Len(q)+1
      /\ \A i \in 1..Len(q) : a[i] = q[i]
      /\ a[Len(q)+1] = f
      /\ a \in Seq(Frame)
  BY LastAppended
<1> HIDE DEF a
<1>2. a # <<>> /\ Head(a) = a[1]
  <2>1. a # <<>>
    BY <1>1
  <2> QED BY <2>1, <1>1, HeadFirst
<1>3. \A i \in DOMAIN a : i \in DOMAIN q \/ i = Len(a)
  BY <1>1
<1>4. Outflow(a)
  BY <1>1, <1>3 DEF Outflow
<1>5. Head(a).kind # "ended" /\ (q # <<>> => Head(a).kind = "output")
  <2>1. q # <<>> => 1 \in DOMAIN q
    BY <1>1, HeadFirst
  <2>2. q = <<>> => a[1] = f
    BY <1>1
  <2> QED BY <1>1, <1>2, <2>1, <2>2
<1> QED BY <1>1, <1>2, <1>3, <1>4, <1>5 DEF a

\* Whoever is awaited is so before a step that adds no awaited operation.
LEMMA NotAwaited ==
  ASSUME ServerType, NEW op \in Operation, op.waiter # "frame", queue' = Append(queue, op)
  PROVE  FrameWaits' => FrameWaits
<1>1. /\ DOMAIN queue = 1..Len(queue)
      /\ DOMAIN queue' = 1..Len(queue)+1
      /\ \A i \in 1..Len(queue) : queue'[i] = queue[i]
      /\ queue'[Len(queue)+1] = op
      /\ Len(queue) \in Nat
  BY LastAppended DEF ServerType
<1>2. \A i \in DOMAIN queue' : i = Len(queue) + 1 \/ i \in DOMAIN queue
  BY <1>1
<1> QED BY <1>1, <1>2 DEF FrameWaits

\* An operation that is no sync joins others that are none.
LEMMA CalmAppend ==
  ASSUME ServerType, NEW op \in Operation, ~op.sync, queue' = Append(queue, op),
         \A i \in DOMAIN queue : ~queue[i].sync
  PROVE  \A i \in DOMAIN queue' : ~queue'[i].sync
<1>1. /\ DOMAIN queue = 1..Len(queue)
      /\ DOMAIN queue' = 1..Len(queue)+1
      /\ \A i \in 1..Len(queue) : queue'[i] = queue[i]
      /\ queue'[Len(queue)+1] = op
      /\ Len(queue) \in Nat
  BY LastAppended DEF ServerType
<1>2. \A i \in DOMAIN queue' : i = Len(queue) + 1 \/ i \in DOMAIN queue
  BY <1>1
<1> QED BY <1>1, <1>2

\* The steps that an undisturbed connection never takes.
LEMMA Calm ==
  ASSUME Steady, Ending, NetType
  PROVE  /\ ~Dial /\ ~Welcomed /\ ~ReconcileAll /\ ~BufferRequest /\ ~LoopSend
         /\ ~ConnectionLost
         /\ ~HandleHello /\ ~HandleResume /\ ~HandleSync
<1>1. wire # <<>> => Head(wire).kind \in {"output", "done", "ended"}
  BY OutflowHead DEF Ending, NetType
<1>2. ~HandleHello /\ ~HandleResume /\ ~HandleSync
  BY <1>1 DEF HandleHello, HandleResume, HandleSync, Handling, HeadIs
<1>3. /\ ~Dial /\ ~Welcomed /\ ~ReconcileAll /\ ~BufferRequest /\ ~LoopSend
      /\ ~ConnectionLost
  BY DEF Steady, Dial, Welcomed, ReconcileAll, BufferRequest, LoopSend, ConnectionLost
<1> QED BY <1>2, <1>3

\* An operation that ends on an undisturbed connection.
LEMMA CalmResumed ==
  ASSUME Accounts, AwaitedFrame, Steady, Ending, queue # <<>>, Resumed(Head(queue))
  PROVE  /\ \A i \in DOMAIN queue' : ~queue'[i].sync
         /\ ~Head(queue).sync
         /\ FrameWaits' => FrameWaits
         /\ Head(queue).waiter # "frame" => wire' = wire
         /\ Head(queue).waiter = "frame" =>
              /\ FrameWaits /\ ~FrameWaits' /\ HeadIs("done") /\ Tail(wire) = <<>>
              /\ wire' = <<[kind |-> "ended"]>>
<1>t. NetType /\ ServerType /\ OneAwaited
  BY DEF Accounts, TypeOK
<1>1. /\ DOMAIN queue = 1..Len(queue)
      /\ Len(queue) \in Nat \ {0}
      /\ queue[1] = Head(queue)
      /\ DOMAIN queue' = 1..Len(queue)-1
      /\ \A i \in 1..Len(queue)-1 : queue'[i] = queue[i+1]
  BY <1>t, HeadFirst DEF ServerType, Resumed
<1>2. 1 \in DOMAIN queue
      /\ \A i \in DOMAIN queue' : i + 1 \in DOMAIN queue /\ i + 1 # 1 /\ queue'[i] = queue[i+1]
  BY <1>1
<1>3. ~Head(queue).sync /\ \A i \in DOMAIN queue' : ~queue'[i].sync
  BY <1>1, <1>2 DEF Steady
<1>4. FrameWaits' => FrameWaits
  BY <1>2 DEF FrameWaits
<1>5. ASSUME Head(queue).waiter = "frame"
      PROVE  /\ FrameWaits /\ ~FrameWaits' /\ HeadIs("done") /\ Tail(wire) = <<>>
             /\ wire' = <<[kind |-> "ended"]>>
  <2>1. FrameWaits /\ ~FrameWaits'
    BY <1>1, <1>2, <1>5, <1>t DEF FrameWaits, OneAwaited
  <2>2. HeadIs("done")
    BY <1>1, <1>2, <1>3, <1>5 DEF AwaitedFrame
  <2>3. Tail(wire) = <<>>
    BY <2>2, <1>t, OutflowHead DEF Ending, HeadIs, NetType
  <2>4. wire' = <<[kind |-> "ended"]>> \o <<>>
    BY <1>3, <1>5, <2>3 DEF Resumed
  <2> QED BY <2>1, <2>2, <2>3, <2>4
<1>6. Head(queue).waiter # "frame" => wire' = wire
  BY DEF Resumed
<1> QED BY <1>3, <1>4, <1>5, <1>6

\* The rest of the completion's handler is an outflow by itself.
LEMMA EndedAlone ==
  /\ Outflow(<<[kind |-> "ended"]>>)
  /\ Head(<<[kind |-> "ended"]>>).kind = "ended"
  /\ <<[kind |-> "ended"]>> # <<>>
<1>1. DOMAIN <<[kind |-> "ended"]>> = {1} /\ Len(<<[kind |-> "ended"]>>) = 1
  OBVIOUS
<1> QED BY <1>1 DEF Outflow

\* So is nothing.
LEMMA NothingFlows == Outflow(<<>>)
  BY DEF Outflow

\* The end of the job stays where it is when frames, batch and awaited operations do.
LEMMA EndingKept ==
  ASSUME Ending, UNCHANGED <<wire, runPc, held, reported>>, batch' \subseteq batch,
         FrameWaits' => FrameWaits
  PROVE  Ending'
<1>1. Holding' = Holding /\ Outflow(wire)' /\ \A kind : HeadIs(kind)' <=> HeadIs(kind)
  BY DEF Ending, Holding, Outflow, HeadIs
<1> QED BY <1>1 DEF Ending

\* The end of the job stays in its order: nothing is sent behind the completion, and
\* nothing comes into a batch its handler has taken.
LEMMA EndingStep ==
  ASSUME Accounts, AwaitedFrame, Steady, Ending, Next, ~NetworkDrop, ~ServerRestart
  PROVE  Ending'
<1>t. /\ AgentType /\ NetType /\ ServerType /\ OneAwaited
  BY DEF Accounts, TypeOK
<1>q. queue' = queue => (FrameWaits' <=> FrameWaits)
  BY DEF FrameWaits
<1>s. \A f \in Frame : Sent(f) = Append(wire, f)
  BY DEF Steady, Sent
<1>w. FrameWaits => wire # <<>>
  BY <1>t DEF OneAwaited
<1>1. ASSUME NEW s \in Stream, Emit(s) PROVE Ending'
  <2>1. UNCHANGED <<wire, runPc, reported, batch, queue>> /\ runPc = "read"
    BY <1>1 DEF Emit, netVars, serverVars, rowVars
  <2> QED BY <2>1, <1>q DEF Ending, Outflow, HeadIs
<1>2. ASSUME NEW s \in Stream, EmitSend(s) PROVE Ending'
  <2> DEFINE f == [kind |-> "output", seq |-> held[s]]
  <2>1. held[s] \in Chunk /\ held[s] # NoChunk
    BY <1>2, <1>t DEF EmitSend, AgentType
  <2>2. f \in Frame /\ f.kind = "output"
    BY <2>1, FrameTypes
  <2>3. Holding # {}
    BY <2>1 DEF Holding
  <2>4. UNCHANGED <<runPc, reported, batch, queue>> /\ wire' = Sent(f)
    BY <1>2 DEF EmitSend, serverVars, rowVars
  <2> HIDE DEF f
  <2>5. runPc = "read" /\ ~reported /\ \A i \in DOMAIN wire : wire[i].kind = "output"
    BY <2>3 DEF Ending
  <2>6. /\ Outflow(wire') /\ wire' # <<>> /\ Head(wire').kind # "ended"
        /\ wire # <<>> => Head(wire').kind = "output"
        /\ \A i \in DOMAIN wire' : wire'[i].kind = "output"
    BY <2>2, <2>4, <2>5, <1>s, <1>t, OutflowAppend DEF NetType
  <2>7. ~(HeadIs("done")' /\ FrameWaits') /\ ~HeadIs("ended")'
    BY <2>4, <2>6, <1>q, <1>w DEF HeadIs
  <2> QED BY <2>4, <2>5, <2>6, <2>7 DEF Ending, Outflow
<1>3. CASE Finish
  <2>1. UNCHANGED <<wire, held, reported, batch, queue>> /\ runPc = "read" /\ runPc' = "send"
    BY <1>3 DEF Finish, netVars, serverVars, rowVars
  <2>2. Holding' = {}
    BY <1>3, <2>1 DEF Finish, Holding
  <2> QED BY <2>1, <2>2, <1>q DEF Ending, Outflow, HeadIs
<1>4. CASE FinishSend
  <2> DEFINE f == [kind |-> "done"]
  <2>1. f \in Frame /\ f.kind = "done"
    BY FrameTypes
  <2>2. /\ UNCHANGED <<held, reported, batch, queue>> /\ wire' = Sent(f)
        /\ runPc = "send" /\ runPc' = "end"
    BY <1>4 DEF FinishSend, serverVars, rowVars
  <2> HIDE DEF f
  <2>3. ~reported /\ Holding' = {} /\ \A i \in DOMAIN wire : wire[i].kind = "output"
    BY <2>2 DEF Ending, Holding
  <2>4. /\ Outflow(wire') /\ wire' # <<>> /\ Head(wire').kind # "ended"
        /\ wire # <<>> => Head(wire').kind = "output"
    BY <2>1, <2>2, <2>3, <1>s, <1>t, OutflowAppend DEF NetType
  <2>5. ~(HeadIs("done")' /\ FrameWaits') /\ ~HeadIs("ended")'
    BY <2>2, <2>4, <1>q, <1>w DEF HeadIs
  <2> QED BY <2>2, <2>3, <2>4, <2>5 DEF Ending, Outflow
<1>5. ~Dial /\ ~Welcomed /\ ~ReconcileAll /\ ~BufferRequest /\ ~LoopSend /\ ~ConnectionLost
      /\ ~HandleHello /\ ~HandleResume /\ ~HandleSync
  BY <1>t, Calm
<1>6. CASE HandleOutput
  <2> DEFINE n == Head(wire).seq
  <2>1. /\ wire # <<>> /\ Head(wire).kind = "output" /\ ~FrameWaits
        /\ wire' = Tail(wire) /\ UNCHANGED <<held, runPc, reported>>
    BY <1>6 DEF HandleOutput, Handling, HeadIs, agentVars, rowVars
  <2>2. ~reported
    BY <2>1 DEF Ending
  <2>3. /\ Outflow(Tail(wire))
        /\ Tail(wire) # <<>> => Head(Tail(wire)).kind # "ended"
        /\ \A i \in DOMAIN Tail(wire) : Tail(wire)[i] = wire[i+1] /\ i + 1 \in DOMAIN wire
    BY <2>1, <1>t, OutflowHead DEF Ending, NetType
  <2>4. ~FrameWaits'
    <3>1. n \in Chunk
      BY <1>6, <1>t, HandledFrame, FrameTypes DEF HandleOutput
    <3>2. batch \cup {n} \in SUBSET Chunk
      BY <3>1, <1>t DEF ServerType
    <3>3. Flush("none", batch \cup {n}) \in Operation /\ Flush("none", batch \cup {n}).waiter # "frame"
      BY <3>2, FlushType
    <3>4. queue' = queue \/ queue' = Append(queue, Flush("none", batch \cup {n}))
      BY <1>6 DEF HandleOutput
    <3> HIDE DEF n
    <3> QED BY <2>1, <3>3, <3>4, <1>q, <1>t, NotAwaited
  <2>5. ~HeadIs("ended")'
    BY <2>1, <2>3 DEF HeadIs
  <2>6. Outflow(wire)' /\ Holding' = Holding
    BY <2>1, <2>3 DEF Outflow, Holding
  <2>7. runPc' # "end" => \A i \in DOMAIN wire' : wire'[i].kind = "output"
    BY <2>1, <2>3 DEF Ending
  <2> QED BY <2>1, <2>2, <2>4, <2>5, <2>6, <2>7 DEF Ending
<1>7. CASE TimerFlush
  <2>1. Flush("none", batch) \in Operation /\ Flush("none", batch).waiter # "frame"
    BY <1>t, FlushType DEF ServerType
  <2>2. FrameWaits' => FrameWaits
    BY <1>7, <2>1, <1>t, NotAwaited DEF TimerFlush
  <2> QED BY <1>7, <2>2, EndingKept DEF TimerFlush, agentVars, netVars, rowVars
<1>8. CASE HandleDone
  <2>1. HeadIs("done") /\ ~FrameWaits /\ UNCHANGED <<held, runPc, reported>>
    BY <1>8 DEF HandleDone, Handling, agentVars, rowVars
  <2>2. Tail(wire) = <<>> /\ runPc = "end" /\ ~reported
    <3>1. wire # <<>> /\ Head(wire) = wire[1] /\ 1 \in DOMAIN wire
      BY <2>1, <1>t, HeadFirst DEF HeadIs, NetType
    <3>2. Tail(wire) = <<>>
      BY <2>1, <3>1, <1>t, OutflowHead DEF Ending, HeadIs, NetType
    <3> QED BY <2>1, <3>1, <3>2 DEF Ending, HeadIs
  <2>3. CASE batch = {}
    <3>1. wire' = <<[kind |-> "ended"]>> \o <<>> /\ queue' = queue /\ batch' = {}
      BY <1>8, <2>2, <2>3 DEF HandleDone, serverVars
    <3>2. wire' = <<[kind |-> "ended"]>>
      BY <3>1
    <3>3. Outflow(wire)' /\ Holding' = Holding
      BY <2>1, <3>2, EndedAlone DEF Outflow, Holding
    <3> QED BY <2>1, <2>2, <3>1, <3>3 DEF Ending
  <2>4. CASE batch # {}
    <3>1. wire' = wire /\ batch' = {}
      BY <1>8, <2>4 DEF HandleDone
    <3>2. Outflow(wire)' /\ Holding' = Holding
      BY <2>1, <3>1 DEF Outflow, Holding, Ending
    <3> QED BY <2>1, <2>2, <3>1, <3>2 DEF Ending
  <2> QED BY <2>3, <2>4
<1>9. CASE HandleEnded
  <2>1. HeadIs("ended") /\ UNCHANGED <<held, runPc, batch, queue>> /\ wire' = Tail(wire)
    BY <1>9 DEF HandleEnded, Handling, agentVars, serverVars
  <2>2. Tail(wire) = <<>> /\ runPc = "end" /\ batch = {}
    <3>1. wire # <<>> /\ Head(wire) = wire[1] /\ 1 \in DOMAIN wire
      BY <2>1, <1>t, HeadFirst DEF HeadIs, NetType
    <3>2. Tail(wire) = <<>>
      BY <2>1, <3>1, <1>t, OutflowHead DEF Ending, HeadIs, NetType
    <3> QED BY <2>1, <3>1, <3>2 DEF Ending, HeadIs
  <2>3. Outflow(wire)' /\ Holding' = Holding
    BY <2>1, <2>2, NothingFlows DEF Outflow, Holding
  <2> QED BY <2>1, <2>2, <2>3 DEF Ending
<1>10. CASE Persist \/ PersistFails
  <2>1. /\ queue # <<>> /\ Resumed(Head(queue)) /\ UNCHANGED <<held, runPc, batch, reported>>
    BY <1>10 DEF Persist, PersistFails, agentVars, rowVars
  <2>2. /\ FrameWaits' => FrameWaits
        /\ Head(queue).waiter # "frame" => wire' = wire
        /\ Head(queue).waiter = "frame" =>
             /\ FrameWaits /\ ~FrameWaits' /\ HeadIs("done") /\ Tail(wire) = <<>>
             /\ wire' = <<[kind |-> "ended"]>>
    BY <2>1, CalmResumed
  <2>3. CASE Head(queue).waiter # "frame"
    BY <2>1, <2>2, <2>3, EndingKept
  <2>4. CASE Head(queue).waiter = "frame"
    <3>1. batch = {} /\ wire # <<>> /\ ~reported
      BY <2>2, <2>4 DEF Ending, HeadIs
    <3>2. runPc = "end"
      <4>1. Head(wire) = wire[1] /\ 1 \in DOMAIN wire
        BY <3>1, <1>t, HeadFirst DEF NetType
      <4> QED BY <2>2, <2>4, <4>1 DEF Ending, HeadIs
    <3>3. Outflow(wire)' /\ Holding' = Holding
      BY <2>1, <2>2, <2>4, EndedAlone DEF Outflow, Holding
    <3> QED BY <2>1, <3>1, <3>2, <3>3 DEF Ending
  <2> QED BY <2>3, <2>4
<1>11. CASE Subscribe \/ SubscribeAgain \/ ReplayFlag \/ ReplayRead \/ ReplaySend
  <2>1. UNCHANGED <<wire, runPc, held, reported, batch, queue>>
    BY <1>11 DEF Subscribe, SubscribeAgain, ReplayFlag, ReplayRead, ReplaySend, agentVars,
       netVars, serverVars, rowVars
  <2> QED BY <2>1, <1>q, EndingKept
<1>12. CASE BeginSubscription
  <2>1. UNCHANGED <<wire, runPc, held, reported>>
    BY <1>12 DEF BeginSubscription, agentVars, netVars, rowVars
  <2>2. CASE batch = {}
    BY <1>12, <2>1, <2>2, <1>q, EndingKept DEF BeginSubscription, serverVars
  <2>3. CASE batch # {}
    <3>1. Flush("viewer", batch) \in Operation /\ Flush("viewer", batch).waiter # "frame"
      BY <1>t, FlushType DEF ServerType
    <3>2. queue' = Append(queue, Flush("viewer", batch)) /\ batch' = {}
      BY <1>12, <2>3 DEF BeginSubscription
    <3> QED BY <2>1, <3>1, <3>2, <1>t, NotAwaited, EndingKept
  <2> QED BY <2>2, <2>3
<1>13. CASE ViewerDrop
  <2>1. UNCHANGED <<wire, runPc, held, reported, batch>>
    BY <1>13 DEF ViewerDrop, agentVars, netVars, rowVars
  <2>2. FrameWaits' => FrameWaits
    BY <1>13 DEF ViewerDrop, FrameWaits, Flush
  <2> QED BY <2>1, <2>2, EndingKept
<1>14. CASE CancelQueued \/ DispatchFailed
  BY <1>14, <1>q, EndingKept DEF CancelQueued, DispatchFailed, agentVars, netVars, serverVars
<1> QED BY <1>1, <1>2, <1>3, <1>4, <1>5, <1>6, <1>7, <1>8, <1>9, <1>10, <1>11, <1>12, <1>13,
        <1>14 DEF Next, Agent, Server, Viewer

\* An undisturbed connection is never asked for anything and loses nothing.
LEMMA SteadyStep ==
  ASSUME Accounts, AwaitedFrame, Steady, Ending, Next, ~NetworkDrop, ~ServerRestart
  PROVE  Steady'
<1>t. /\ AgentType /\ NetType /\ ServerType /\ OneAwaited
  BY DEF Accounts, TypeOK
<1>n. next \in Nat
  BY <1>t, OutputAssumption DEF AgentType
<1>5. ~Dial /\ ~Welcomed /\ ~ReconcileAll /\ ~BufferRequest /\ ~LoopSend /\ ~ConnectionLost
      /\ ~HandleHello /\ ~HandleResume /\ ~HandleSync
  BY <1>t, Calm
<1>1. UNCHANGED <<phase, orders, loopOut, linkUp>>
  <2>1. CASE PersistFails
    <3>1. ~Head(queue).sync
      BY <2>1, CalmResumed DEF PersistFails
    <3> QED BY <2>1, <3>1, FailureKeeps DEF PersistFails, clientVars, Steady
  <2>2. CASE ~PersistFails
    BY <2>2, <1>5 DEF Next, Agent, Server, Viewer, Emit, EmitSend, Finish, FinishSend,
       HandleOutput, TimerFlush, HandleDone, HandleEnded, CancelQueued, DispatchFailed,
       Persist, Subscribe,
       SubscribeAgain, BeginSubscription, ReplayFlag, ReplayRead, ReplaySend, ViewerDrop,
       clientVars, netVars
  <2> QED BY <2>1, <2>2
<1>2. \A i \in DOMAIN queue' : ~queue'[i].sync
  <2>1. ASSUME queue' = queue PROVE \A i \in DOMAIN queue' : ~queue'[i].sync
    BY <2>1 DEF Steady
  <2>2. ASSUME NEW w \in {"none", "frame", "viewer"}, NEW S \in SUBSET Chunk,
               queue' = Append(queue, Flush(w, S))
        PROVE  \A i \in DOMAIN queue' : ~queue'[i].sync
    <3>1. Flush(w, S) \in Operation /\ ~Flush(w, S).sync
      BY FlushType DEF Flush
    <3> HIDE DEF Flush
    <3> QED BY <2>2, <3>1, <1>t, CalmAppend DEF Steady
  <2>3. CASE Agent \/ HandleEnded \/ CancelQueued \/ DispatchFailed \/ Subscribe
             \/ SubscribeAgain \/ ReplayFlag \/ ReplayRead \/ ReplaySend
    BY <2>1, <2>3 DEF Agent, Emit, EmitSend, Finish, FinishSend, Dial, Welcomed, ReconcileAll,
       BufferRequest, LoopSend, ConnectionLost, HandleEnded, CancelQueued, DispatchFailed,
       Subscribe, SubscribeAgain,
       ReplayFlag, ReplayRead, ReplaySend, serverVars
  <2>4. CASE HandleOutput
    <3> DEFINE n == Head(wire).seq
    <3>1. n \in Chunk
      BY <2>4, <1>t, HandledFrame, FrameTypes DEF HandleOutput
    <3>2. batch \cup {n} \in SUBSET Chunk
      BY <3>1, <1>t DEF ServerType
    <3>3. queue' = queue \/ queue' = Append(queue, Flush("none", batch \cup {n}))
      BY <2>4 DEF HandleOutput
    <3> HIDE DEF n
    <3> QED BY <3>2, <3>3, <2>1, <2>2
  <2>5. CASE TimerFlush
    BY <2>5, <2>2, <1>t DEF TimerFlush, ServerType
  <2>6. CASE HandleDone
    BY <2>6, <2>1, <2>2, <1>t DEF HandleDone, ServerType, serverVars
  <2>7. CASE Persist \/ PersistFails
    BY <2>7, CalmResumed DEF Persist, PersistFails
  <2>8. CASE BeginSubscription
    BY <2>8, <2>1, <2>2, <1>t DEF BeginSubscription, ServerType, serverVars
  <2>9. CASE ViewerDrop
    BY <2>9 DEF ViewerDrop, Flush, Steady
  <2> QED BY <1>5, <2>3, <2>4, <2>5, <2>6, <2>7, <2>8, <2>9 DEF Next, Server, Viewer
<1>3. 0..next'-1 \subseteq Accounted'
  <2>1. CASE Agent
    <3>1. Accounted \cup next..next'-1 \subseteq Accounted'
      BY <2>1, <1>1, AgentAccounts DEF Steady
    <3>2. next' = next \/ next' = next + 1
      BY <2>1 DEF Agent, Emit, EmitSend, Finish, FinishSend, Dial, Welcomed, ReconcileAll,
         BufferRequest, LoopSend, ConnectionLost, agentVars
    <3>3. 0..next'-1 \subseteq (0..next-1) \cup (next..next'-1)
      BY <3>2, <1>n
    <3> QED BY <3>1, <3>3 DEF Steady
  <2>2. CASE Server
    <3>1. Accounted \subseteq Accounted'
      BY <2>2, <1>1, ServerAccounts DEF Steady
    <3>2. next' = next
      BY <2>2 DEF Server, HandleHello, HandleResume, HandleOutput, TimerFlush, HandleSync,
         HandleDone, HandleEnded, CancelQueued, DispatchFailed, Persist, PersistFails, agentVars
    <3> QED BY <3>1, <3>2 DEF Steady
  <2>3. CASE Viewer
    <3>1. Accounted' = Accounted
      BY <2>3, ViewerAccounts
    <3>2. next' = next
      BY <2>3 DEF Viewer, Subscribe, SubscribeAgain, BeginSubscription, ReplayFlag, ReplayRead,
         ReplaySend, ViewerDrop, agentVars
    <3> QED BY <3>1, <3>2 DEF Steady
  <2> QED BY <2>1, <2>2, <2>3 DEF Next
<1> QED BY <1>1, <1>2, <1>3 DEF Steady

\* The counters of failures never go down.
LEMMA StaysUndisturbed ==
  ASSUME Next, drops \in Nat, restarts \in Nat, Undisturbed'
  PROVE  Undisturbed /\ ~NetworkDrop /\ ~ServerRestart
<1>1. ~NetworkDrop /\ ~ServerRestart
  BY DEF NetworkDrop, ServerRestart, Undisturbed
<1>2. UNCHANGED <<drops, restarts>>
  BY <1>1 DEF Next, Agent, Emit, EmitSend, Finish, FinishSend, Dial, Welcomed, ReconcileAll,
     BufferRequest, LoopSend, ConnectionLost, Server, HandleHello, HandleResume, HandleOutput,
     TimerFlush, HandleSync, HandleDone, HandleEnded, CancelQueued, DispatchFailed, Persist,
     PersistFails, Viewer, Subscribe,
     SubscribeAgain, BeginSubscription, ReplayFlag, ReplayRead, ReplaySend, ViewerDrop,
     boundVars
<1> QED BY <1>1, <1>2 DEF Undisturbed

\* The counters of failures are counters.
LEMMA FaultsCounted ==
  ASSUME [Next]_vars, drops \in Nat, restarts \in Nat
  PROVE  drops' \in Nat /\ restarts' \in Nat
<1>1. CASE NetworkDrop \/ ServerRestart
  BY <1>1 DEF NetworkDrop, ServerRestart
<1>2. CASE Next /\ ~NetworkDrop /\ ~ServerRestart
  BY <1>2 DEF Next, Agent, Emit, EmitSend, Finish, FinishSend, Dial, Welcomed, ReconcileAll,
     BufferRequest, LoopSend, ConnectionLost, Server, HandleHello, HandleResume, HandleOutput,
     TimerFlush, HandleSync, HandleDone, HandleEnded, CancelQueued, DispatchFailed, Persist,
     PersistFails, Viewer, Subscribe,
     SubscribeAgain, BeginSubscription, ReplayFlag, ReplayRead, ReplaySend, ViewerDrop,
     boundVars
<1>3. CASE UNCHANGED vars
  BY <1>3 DEF vars, boundVars
<1> QED BY <1>1, <1>2, <1>3

\* A connection starts undisturbed and steady ...
LEMMA FlushedInit == Init => Flushed
<1> SUFFICES ASSUME Init PROVE Flushed
  OBVIOUS
<1>1. AwaitedFrame /\ RingCovered
  BY DEF Init, AwaitedFrame, RingCovered, Ring
<1>2. Steady
  BY DEF Init, Steady
<1>3. Holding = {}
  BY DEF Init, Holding
<1>4. Ending
  BY <1>3 DEF Init, Ending, Outflow, HeadIs
<1> QED BY <1>1, <1>2, <1>4, AccountsInit DEF Flushed, Backstop, Init

\* ... and stays in it.
LEMMA FlushedStep == Flushed /\ [Next]_vars => Flushed'
<1> SUFFICES ASSUME Flushed, [Next]_vars PROVE Flushed'
  OBVIOUS
<1>1. Backstop'
  BY AccountsStep, AwaitedFrameStep, RingStep DEF Backstop, Flushed
<1>2. drops' \in Nat /\ restarts' \in Nat
  BY FaultsCounted DEF Flushed
<1>3. ASSUME Undisturbed' PROVE Steady' /\ Ending'
  <2>1. CASE Next
    <3>1. Undisturbed /\ ~NetworkDrop /\ ~ServerRestart
      BY <1>3, <2>1, StaysUndisturbed DEF Flushed
    <3>2. Accounts /\ AwaitedFrame /\ Steady /\ Ending
      BY <3>1 DEF Flushed, Backstop
    <3> QED BY <2>1, <3>1, <3>2, SteadyStep, EndingStep
  <2>2. CASE UNCHANGED vars
    <3>1. Undisturbed
      BY <1>3, <2>2 DEF Undisturbed, vars, boundVars
    <3>2. UNCHANGED <<phase, linkUp, orders, loopOut, queue, next, held, wire, batch, runPc,
                      reported, stored, evicted, lost>>
      BY <2>2 DEF vars, agentVars, clientVars, netVars, serverVars, rowVars, historyVars
    <3>3. UNCHANGED <<Accounted, Holding, FrameWaits>>
      BY <3>2 DEF Accounted, Relayed, Kept, InFlight, Holding, FrameWaits
    <3>4. Steady'
      BY <3>1, <3>2, <3>3 DEF Flushed, Steady
    <3>5. Ending'
      BY <3>1, <3>2, <3>3, EndingKept DEF Flushed
    <3> QED BY <3>4, <3>5
  <2> QED BY <2>1, <2>2
<1> QED BY <1>1, <1>2, <1>3 DEF Flushed

\* An undisturbed connection is always in its steady state.
LEMMA FlushedInvariant == Spec => []Flushed
  BY FlushedInit, FlushedStep, PTL DEF Spec

\* On an undisturbed connection, once the agent's report of a job's end has been
\* handled the complete output is written, or inside an operation that is under way:
\* flushOutput is awaited first, whatever ended the row before, for every limit and
\* every number of streams.
THEOREM FlushCorrect == Spec => []ReportedFlushed
<1>1. Flushed => ReportedFlushed
  <2> SUFFICES ASSUME Flushed, reported, Undisturbed
               PROVE  0..next-1 \subseteq stored \cup evicted \cup lost \cup InFlight
    BY DEF ReportedFlushed, Undisturbed
  <2>1. wire = <<>> /\ batch = {} /\ loopOut = <<>> /\ Holding = {}
    BY DEF Flushed, Steady, Ending
  <2>2. Carried(wire) = {} /\ Carried(loopOut) = {}
    BY <2>1 DEF Carried
  <2>3. 0..next-1 \subseteq Accounted
    BY DEF Flushed, Steady
  <2> QED BY <2>1, <2>2, <2>3 DEF Accounted, Relayed, Kept
<1> QED BY <1>1, FlushedInvariant, PTL

-----------------------------------------------------------------------------
(* The order of the chunks of one stream                                   *)

\* A pseudo-terminal has one stream, and so one reader.
OneStream == \A s, t \in Stream : s = t

\* The chunks below this one have been sent.
Unsent == IF Holding = {} THEN next ELSE next - 1

\* The chunks from r on are under way, in order; whatever follows them is the
\* job's completion.
Sending(r) ==
  /\ r \in 0..Unsent
  /\ Holding \subseteq {next - 1}
  /\ Unsent - r <= Len(wire)
  /\ \A i \in 1..Unsent-r : wire[i].kind = "output" /\ wire[i].seq = r + i - 1
  /\ \A i \in DOMAIN wire : i > Unsent - r => wire[i].kind # "output"

\* The chunks below r are with the server: those kept came before those inside
\* operations, in the order of the operations, and those before the batch.
Storing(r) ==
  /\ Relayed = 0..r-1
  /\ \A k \in Kept, n \in InFlight \cup batch : k < n
  /\ \A k \in InFlight, n \in batch : k < n
  /\ \A i, j \in DOMAIN queue : i < j => \A k \in queue[i].chunks, n \in queue[j].chunks : k < n
  /\ truncated => 0 \in Kept \ stored

\* What is known of the number of the next frame.
LEMMA SendingTypes ==
  ASSUME AgentType, NetType, NEW r, Sending(r)
  PROVE  /\ next \in Nat /\ Unsent \in Int /\ r \in Nat /\ r <= Unsent /\ Unsent <= next
         /\ DOMAIN wire = 1..Len(wire) /\ Len(wire) \in Nat
<1>1. next \in Nat
  BY OutputAssumption DEF AgentType
<1>2. Unsent \in Int /\ Unsent <= next
  BY <1>1 DEF Unsent
<1> QED BY <1>1, <1>2 DEF Sending, NetType

\* A step that leaves the frames alone.
LEMMA SendingKept ==
  ASSUME NEW r, Sending(r), UNCHANGED <<wire, held, next>>
  PROVE  Sending(r)'
<1>1. Holding' = Holding /\ Unsent' = Unsent
  BY DEF Holding, Unsent
<1> QED BY <1>1 DEF Sending

\* The head of the chain is the next chunk to be relayed.
LEMMA HeadIsNext ==
  ASSUME AgentType, NetType, NEW r, Sending(r), HeadIs("output")
  PROVE  /\ Head(wire).seq = r
         /\ r + 1 <= Unsent
<1>1. /\ Head(wire) = wire[1] /\ 1 \in DOMAIN wire /\ wire[1].kind = "output"
  BY HeadFirst DEF HeadIs, NetType
<1>2. 1 <= Unsent - r
  BY <1>1, SendingTypes DEF Sending
<1>3. wire[1].seq = r + 1 - 1
  BY <1>2, SendingTypes DEF Sending
<1> QED BY <1>1, <1>2, <1>3, SendingTypes

\* When the completion is handled nothing is under way any more.
LEMMA HeadIsLast ==
  ASSUME AgentType, NetType, NEW r, Sending(r), wire = <<>> \/ Head(wire).kind # "output"
  PROVE  r = Unsent
<1>1. CASE wire = <<>>
  BY <1>1, SendingTypes DEF Sending
<1>2. CASE wire # <<>>
  <2>1. Head(wire) = wire[1]
    BY <1>2, HeadFirst DEF NetType
  <2>2. ~(1 <= Unsent - r)
    BY <1>2, <2>1, SendingTypes DEF Sending
  <2> QED BY <2>2, SendingTypes
<1> QED BY <1>1, <1>2

\* The chain's only frame gives way to what is no output.
LEMMA SendingEnds ==
  ASSUME AgentType, NetType, NEW r, Sending(r), UNCHANGED <<held, next>>,
         wire = <<>> \/ Head(wire).kind # "output",
         wire' = <<>> \/ wire' = <<[kind |-> "ended"]>>
  PROVE  Sending(r)'
<1>1. r = Unsent
  BY HeadIsLast
<1>2. Holding' = Holding /\ Unsent' = Unsent
  BY DEF Holding, Unsent
<1>3. Len(wire') \in Nat /\ \A i \in DOMAIN wire' : wire'[i].kind # "output"
  <2>1. CASE wire' = <<>>
    BY <2>1
  <2>2. CASE wire' = <<[kind |-> "ended"]>>
    BY <2>2
  <2> QED BY <2>1, <2>2
<1>4. Unsent - r = 0 /\ 1..Unsent-r = {}
  BY <1>1, SendingTypes
<1> QED BY <1>2, <1>3, <1>4 DEF Sending

\* One frame more behind the chain.
LEMMA SendingAppend ==
  ASSUME AgentType, NetType, NEW r, Sending(r), NEW f \in Frame, wire' = Append(wire, f),
         \A i \in DOMAIN wire : wire[i].kind = "output",
         next' = next, Holding' = {},
         IF f.kind = "output" THEN Holding = {f.seq} ELSE Holding = {}
  PROVE  Sending(r)'
<1>t. /\ next \in Nat /\ Unsent \in Int /\ r \in Nat /\ r <= Unsent
      /\ DOMAIN wire = 1..Len(wire) /\ Len(wire) \in Nat
  BY SendingTypes
<1>1. Len(wire) = Unsent - r
  <2>1. ASSUME Len(wire) > Unsent - r PROVE FALSE
    <3>1. Len(wire) \in DOMAIN wire
      BY <1>t, <2>1
    <3> QED BY <2>1, <3>1 DEF Sending
  <2>2. Unsent - r <= Len(wire)
    BY DEF Sending
  <2> HIDE DEF Sending
  <2> QED BY <2>1, <2>2, <1>t
<1>2. /\ DOMAIN wire' = 1..Len(wire)+1 /\ Len(wire') = Len(wire) + 1
      /\ \A i \in 1..Len(wire) : wire'[i] = wire[i]
      /\ wire'[Len(wire)+1] = f
  BY LastAppended DEF NetType
<1>3. Unsent' = next
  BY DEF Unsent
<1>4. CASE f.kind = "output"
  <2>1. Unsent = next - 1 /\ f.seq = next - 1
    BY <1>4 DEF Unsent, Sending
  <2>2. Unsent' - r = Len(wire) + 1 /\ f.seq = r + (Len(wire) + 1) - 1 /\ r <= Unsent'
    BY <1>1, <1>3, <1>t, <2>1
  <2>3. \A i \in 1..Unsent'-r : i \in 1..Len(wire) \/ i = Len(wire) + 1
    BY <2>2, <1>t
  <2>4. \A i \in 1..Unsent'-r : wire'[i].kind = "output" /\ wire'[i].seq = r + i - 1
    BY <1>1, <1>2, <1>4, <2>2, <2>3 DEF Sending
  <2>5. \A i \in DOMAIN wire' : ~(i > Unsent' - r)
    BY <1>2, <2>2, <1>t
  <2> QED BY <1>2, <1>3, <2>2, <2>4, <2>5, <1>t DEF Sending
<1>5. CASE f.kind # "output"
  <2>1. Unsent' = Unsent
    BY <1>3, <1>5 DEF Unsent
  <2>2. \A i \in 1..Unsent'-r : wire'[i].kind = "output" /\ wire'[i].seq = r + i - 1
    BY <1>1, <1>2, <2>1 DEF Sending
  <2>3. \A i \in DOMAIN wire' : i > Unsent' - r => i = Len(wire) + 1
    BY <1>1, <1>2, <2>1, <1>t
  <2> QED BY <1>1, <1>2, <1>5, <2>1, <2>2, <2>3, <1>t DEF Sending
<1> QED BY <1>4, <1>5

\* The next chunk reaches the server.
LEMMA SendingTail ==
  ASSUME AgentType, NetType, NEW r, Sending(r), HeadIs("output"), wire' = Tail(wire),
         UNCHANGED <<held, next>>
  PROVE  Sending(r + 1)'
<1>t. /\ next \in Nat /\ Unsent \in Int /\ r \in Nat /\ r <= Unsent
      /\ DOMAIN wire = 1..Len(wire) /\ Len(wire) \in Nat
  BY SendingTypes
<1>1. r + 1 <= Unsent
  BY HeadIsNext
<1>2. /\ DOMAIN wire' = 1..Len(wire)-1 /\ Len(wire') = Len(wire) - 1
      /\ \A i \in 1..Len(wire)-1 : wire'[i] = wire[i+1]
  BY HeadFirst DEF NetType, HeadIs
<1>3. Holding' = Holding /\ Unsent' = Unsent
  BY DEF Holding, Unsent
<1> DEFINE u == Unsent
<1> HIDE DEF u
<1>4. u \in Int /\ u - r <= Len(wire) /\ Unsent = u
  BY <1>t DEF u, Sending
<1>5. \A i \in 1..u-(r+1) : i \in 1..Len(wire)-1 /\ i + 1 \in 1..u-r /\ r + (i + 1) - 1 = (r + 1) + i - 1
  BY <1>4, <1>t
<1>6. \A i \in 1..u-(r+1) : wire'[i].kind = "output" /\ wire'[i].seq = (r + 1) + i - 1
  BY <1>2, <1>4, <1>5 DEF Sending
<1>7. \A i \in DOMAIN wire' : i > u - (r + 1) => i + 1 \in DOMAIN wire /\ i + 1 > u - r
  BY <1>2, <1>4, <1>t
<1>8. \A i \in DOMAIN wire' : i > u - (r + 1) => wire'[i].kind # "output"
  BY <1>2, <1>4, <1>7 DEF Sending
<1>9. u - (r + 1) <= Len(wire') /\ r + 1 \in 0..u
  BY <1>1, <1>2, <1>4, <1>t
<1> QED BY <1>3, <1>4, <1>6, <1>8, <1>9 DEF Sending

-----------------------------------------------------------------------------
\* A step that leaves the server's chunks alone.
LEMMA StoringKept ==
  ASSUME NEW r, Storing(r), UNCHANGED <<stored, evicted, lost, truncated, batch>>,
         DOMAIN queue' = DOMAIN queue, \A i \in DOMAIN queue : queue'[i].chunks = queue[i].chunks
  PROVE  Storing(r)'
<1>1. Kept' = Kept /\ InFlight' = InFlight
  BY DEF Kept, InFlight
<1>2. Relayed' = Relayed
  BY <1>1 DEF Relayed
<1> QED BY <1>1, <1>2 DEF Storing

\* A batch is handed to a flush, or takes one more chunk and is.
LEMMA StoringFlush ==
  ASSUME ServerType, RowType, HistoryType, NEW r \in Nat, Storing(r), NEW top \in {r, r + 1},
         NEW op \in Operation, op.chunks = batch \cup r..top-1,
         queue' = Append(queue, op), batch' = {}, UNCHANGED <<stored, evicted, lost, truncated>>
  PROVE  Storing(top)'
<1>1. /\ DOMAIN queue = 1..Len(queue)
      /\ DOMAIN queue' = 1..Len(queue)+1
      /\ \A i \in 1..Len(queue) : queue'[i] = queue[i]
      /\ queue'[Len(queue)+1] = op
      /\ Len(queue) \in Nat
  BY LastAppended DEF ServerType
<1>2. InFlight' = InFlight \cup op.chunks
  BY InsideAppend DEF ServerType, InFlight, Inside
<1>3. Kept' = Kept
  BY DEF Kept
<1>4. /\ r..top-1 \subseteq {r}
      /\ 0..top-1 = (0..r-1) \cup r..top-1
  BY SMT
<1>5. Relayed' = 0..top-1
  BY <1>2, <1>3, <1>4 DEF Relayed, Storing
<1>6. \A k \in Kept \cup InFlight \cup batch : k < r
  BY DEF Storing, Relayed
<1>7. \A k \in Kept \cup InFlight, n \in op.chunks : k < n
  BY <1>4, <1>6 DEF Storing
<1>8. \A k \in Kept, n \in InFlight' : k < n
  BY <1>2, <1>7 DEF Storing
<1>9. ASSUME NEW i \in DOMAIN queue', NEW j \in DOMAIN queue', i < j
      PROVE  \A k \in queue'[i].chunks, n \in queue'[j].chunks : k < n
  <2>1. i \in DOMAIN queue /\ queue'[i] = queue[i]
    BY <1>1, <1>9
  <2>2. queue[i].chunks \subseteq InFlight
    BY <2>1 DEF InFlight
  <2>3. CASE j = Len(queue) + 1
    BY <1>1, <1>7, <2>1, <2>2, <2>3
  <2>4. CASE j \in DOMAIN queue
    BY <1>1, <1>9, <2>1, <2>4 DEF Storing
  <2> QED BY <1>1, <2>3, <2>4
<1> QED BY <1>3, <1>5, <1>8, <1>9 DEF Storing

\* The batch takes one more chunk.
LEMMA StoringBatch ==
  ASSUME NEW r \in Nat, Storing(r), batch' = batch \cup {r},
         UNCHANGED <<queue, stored, evicted, lost, truncated>>
  PROVE  Storing(r + 1)'
<1>1. Kept' = Kept /\ InFlight' = InFlight
  BY DEF Kept, InFlight
<1>2. 0..(r+1)-1 = (0..r-1) \cup {r}
  OBVIOUS
<1>3. Relayed' = 0..(r+1)-1
  BY <1>1, <1>2 DEF Relayed, Storing
<1>4. \A k \in Kept \cup InFlight : k < r
  BY DEF Storing, Relayed
<1> QED BY <1>1, <1>3, <1>4 DEF Storing

\* The first operation's chunks are kept.
LEMMA StoringNext ==
  ASSUME ServerType, NEW r, Storing(r), queue # <<>>, queue' = Tail(queue), batch' = batch,
         Kept' = Kept \cup Head(queue).chunks
  PROVE  /\ Relayed' = 0..r-1
         /\ \A k \in Kept', n \in InFlight' \cup batch' : k < n
         /\ \A k \in InFlight', n \in batch' : k < n
         /\ \A i, j \in DOMAIN queue' :
              i < j => \A k \in queue'[i].chunks, n \in queue'[j].chunks : k < n
         /\ Head(queue).chunks \cap Kept = {}
         /\ Head(queue).chunks \subseteq InFlight
<1>1. /\ DOMAIN queue = 1..Len(queue)
      /\ Len(queue) \in Nat \ {0}
      /\ queue[1] = Head(queue)
      /\ DOMAIN queue' = 1..Len(queue)-1
      /\ \A i \in 1..Len(queue)-1 : queue'[i] = queue[i+1]
  BY HeadFirst DEF ServerType
<1>2. InFlight = Head(queue).chunks \cup InFlight'
  <2>1. InFlight = Inside(queue) /\ InFlight' = Inside(Tail(queue))
    BY DEF InFlight, Inside
  <2> QED BY <2>1, InsideHead DEF ServerType
<1>3. Relayed' = Relayed
  BY <1>2 DEF Relayed
<1>4. \A i \in DOMAIN queue' : 1 < i + 1 /\ i + 1 \in DOMAIN queue /\ queue'[i] = queue[i+1]
  BY <1>1
<1>5. \A k \in Head(queue).chunks, n \in InFlight' : k < n
  <2> SUFFICES ASSUME NEW k \in Head(queue).chunks, NEW i \in DOMAIN queue',
                      NEW n \in queue'[i].chunks
               PROVE  k < n
    BY DEF InFlight
  <2>1. k \in queue[1].chunks /\ n \in queue[i+1].chunks /\ 1 \in DOMAIN queue
        /\ i + 1 \in DOMAIN queue /\ 1 < i + 1
    BY <1>1, <1>4
  <2> QED BY <2>1 DEF Storing
<1>6. \A k \in Kept', n \in InFlight' \cup batch' : k < n
  BY <1>2, <1>5 DEF Storing
<1>7. \A k \in InFlight', n \in batch' : k < n
  BY <1>2 DEF Storing
<1>8. ASSUME NEW i \in DOMAIN queue', NEW j \in DOMAIN queue', i < j
      PROVE  \A k \in queue'[i].chunks, n \in queue'[j].chunks : k < n
  <2>1. i + 1 < j + 1
    BY <1>1, <1>8
  <2> QED BY <2>1, <1>4 DEF Storing
<1>9. Head(queue).chunks \cap Kept = {}
  <2>1. \A n \in Head(queue).chunks : n \in 0..r-1
    BY <1>2 DEF Storing, Relayed
  <2> QED BY <2>1, <1>2 DEF Storing
<1> QED BY <1>2, <1>3, <1>6, <1>7, <1>8, <1>9 DEF Storing

\* All that is below a kept chunk is kept.
LEMMA KeptBelow ==
  ASSUME NEW r \in Nat, Storing(r), NEW k \in Kept, NEW n \in 0..k
  PROVE  n \in Kept
<1>1. k \in 0..r-1
  BY DEF Storing, Relayed
<1>2. n \in Relayed
  <2>1. n \in 0..r-1
    BY <1>1
  <2> QED BY <2>1 DEF Storing
<1>3. n \notin InFlight \cup batch
  BY <1>1 DEF Storing
<1> QED BY <1>2, <1>3 DEF Relayed

\* The steps in which the server takes no output.
Quiet ==
  \/ Agent \/ Viewer
  \/ TimerFlush \/ HandleDone \/ HandleEnded \/ Persist \/ PersistFails
  \/ CancelQueued \/ DispatchFailed

\* On an undisturbed connection there are no others.
LEMMA StepQuiet ==
  ASSUME Steady, Ending, NetType, Next, ~NetworkDrop, ~ServerRestart
  PROVE  HandleOutput \/ Quiet
<1>1. ~HandleHello /\ ~HandleResume /\ ~HandleSync
  BY Calm
<1> QED BY <1>1 DEF Next, Server, Quiet

\* The agent sends its chunks in order, and the server works them off so.
LEMMA SendingStep ==
  ASSUME OneStream, Accounts, AwaitedFrame, Steady, Ending, Quiet, NEW r, Sending(r)
  PROVE  Sending(r)'
<1>t. /\ AgentType /\ NetType /\ ServerType /\ OneAwaited
  BY DEF Accounts, TypeOK
<1>s. \A f \in Frame : Sent(f) = Append(wire, f)
  BY DEF Steady, Sent
<1>h. /\ next \in Nat /\ r \in Nat /\ DOMAIN wire = 1..Len(wire) /\ Len(wire) \in Nat
  BY <1>t, SendingTypes
<1>1. ASSUME NEW s \in Stream, Emit(s) PROVE Sending(r)'
  <2>1. /\ held[s] = NoChunk /\ held' = [held EXCEPT ![s] = next] /\ next' = next + 1
        /\ wire' = wire
    BY <1>1 DEF Emit, netVars
  <2>2. \A q \in Stream : q = s
    BY DEF OneStream
  <2>3. Holding = {}
    BY <2>1, <2>2 DEF Holding
  <2>4. Holding' = {next}
    BY <2>1, <2>2, <1>t, <1>h DEF Holding, AgentType, NoChunk
  <2>5. Unsent = next
    BY <2>3 DEF Unsent
  <2>6. Unsent' = next'-1
    BY <2>4 DEF Unsent
  <2>7. Unsent' = next /\ next' - 1 = next
    BY <2>1, <2>6, <1>h
  <2> QED BY <2>1, <2>4, <2>5, <2>7 DEF Sending
<1>2. ASSUME NEW s \in Stream, EmitSend(s) PROVE Sending(r)'
  <2> DEFINE f == [kind |-> "output", seq |-> held[s]]
  <2>1. held[s] \in Chunk /\ held[s] # NoChunk
    BY <1>2, <1>t DEF EmitSend, AgentType
  <2>2. f \in Frame /\ f.kind = "output" /\ f.seq = held[s]
    BY <2>1, FrameTypes
  <2>3. /\ held' = [held EXCEPT ![s] = NoChunk] /\ next' = next /\ wire' = Sent(f)
    BY <1>2 DEF EmitSend
  <2> HIDE DEF f
  <2>4. \A q \in Stream : q = s
    BY DEF OneStream
  <2>5. Holding = {held[s]} /\ Holding' = {}
    BY <2>1, <2>3, <2>4, <1>t DEF Holding, AgentType
  <2>6. \A i \in DOMAIN wire : wire[i].kind = "output"
    BY <2>5 DEF Ending
  <2> QED BY <2>2, <2>3, <2>5, <2>6, <1>s, <1>t, SendingAppend
<1>3. CASE Finish
  BY <1>3, SendingKept DEF Finish, netVars
<1>4. CASE FinishSend
  <2> DEFINE f == [kind |-> "done"]
  <2>1. f \in Frame /\ f.kind = "done"
    BY FrameTypes
  <2>2. UNCHANGED <<held, next>> /\ wire' = Sent(f) /\ runPc = "send"
    BY <1>4 DEF FinishSend
  <2> HIDE DEF f
  <2>3. Holding = {} /\ Holding' = {} /\ \A i \in DOMAIN wire : wire[i].kind = "output"
    BY <2>2 DEF Ending, Holding
  <2> QED BY <2>1, <2>2, <2>3, <1>s, <1>t, SendingAppend
<1>5. ~Dial /\ ~Welcomed /\ ~ReconcileAll /\ ~BufferRequest /\ ~LoopSend /\ ~ConnectionLost
  BY <1>t, Calm
<1>6. CASE TimerFlush \/ CancelQueued \/ DispatchFailed \/ Viewer
  BY <1>6, SendingKept DEF TimerFlush, CancelQueued, DispatchFailed, Viewer, Subscribe,
       SubscribeAgain, BeginSubscription,
     ReplayFlag, ReplayRead, ReplaySend, ViewerDrop, agentVars, netVars
<1>7. CASE HandleDone \/ HandleEnded
  <2>1. /\ wire # <<>> /\ Head(wire).kind \in {"done", "ended"} /\ UNCHANGED <<held, next>>
    BY <1>7 DEF HandleDone, HandleEnded, Handling, HeadIs, agentVars
  <2>2. Tail(wire) = <<>>
    BY <2>1, <1>t, OutflowHead DEF Ending, NetType
  <2>3. wire' = wire \/ wire' = <<>> \/ wire' = <<[kind |-> "ended"]>> \o <<>>
    BY <1>7, <2>2 DEF HandleDone, HandleEnded
  <2>4. wire' = wire \/ wire' = <<>> \/ wire' = <<[kind |-> "ended"]>>
    BY <2>3
  <2> QED BY <2>1, <2>4, <1>t, SendingKept, SendingEnds
<1>8. CASE Persist \/ PersistFails
  <2>1. /\ queue # <<>> /\ Resumed(Head(queue)) /\ UNCHANGED <<held, next>>
    BY <1>8 DEF Persist, PersistFails, agentVars
  <2>2. wire' = wire \/ (HeadIs("done") /\ wire' = <<[kind |-> "ended"]>>)
    BY <2>1, CalmResumed
  <2> QED BY <2>1, <2>2, <1>t, SendingKept, SendingEnds DEF HeadIs
<1> QED BY <1>1, <1>2, <1>3, <1>4, <1>5, <1>6, <1>7, <1>8 DEF Quiet, Agent

\* What a transaction keeps of an ordered stream: the operation's chunks are all
\* new, and the rows it removes are the oldest.
LEMMA PersistOrdered ==
  ASSUME Accounts, Persist, NEW r \in Nat, Storing(r)
  PROVE  /\ Storing(r)'
         /\ Kept' = Kept \cup Head(queue).chunks
         /\ lost' = lost /\ evicted \subseteq evicted'
<1>t. ServerType /\ RowType /\ HistoryType
  BY DEF Accounts, TypeOK
<1> DEFINE op == Head(queue)
           new == op.chunks \ stored
           rows == stored \cup new
           projected == retained + Bytes[new]
           removed == IF new = {} THEN {} ELSE Removed(rows, projected)
<1>1. /\ queue # <<>> /\ queue' = Tail(queue) /\ batch' = batch
      /\ stored' = rows \ removed
      /\ truncated' = (truncated \/ removed # {})
      /\ evicted' = evicted \cup removed
      /\ lost' = lost \ op.chunks
  BY DEF Persist, Resumed
<1>2. removed \subseteq rows /\ rows = stored \cup op.chunks
  BY DEF Removed, Oldest
<1>3. op \in Operation /\ op.chunks \in SUBSET Chunk
  <2>1. op \in Operation
    BY <1>1, <1>t, HeadTail DEF ServerType
  <2> QED BY <2>1 DEF Operation
<1>4. op.chunks \subseteq InFlight
  <2>1. 1 \in DOMAIN queue /\ queue[1] = op
    BY <1>1, <1>t, HeadFirst DEF ServerType
  <2> QED BY <2>1 DEF InFlight
<1>5. \A k \in Kept, n \in op.chunks : k < n
  BY <1>4 DEF Storing
<1>6. \A n \in op.chunks : n \in Nat
  BY <1>3, OutputAssumption DEF Chunk
<1>7. op.chunks \cap Kept = {}
  BY <1>5, <1>6
<1>8. lost' = lost
  BY <1>1, <1>7 DEF Kept
<1>9. Kept' = Kept \cup op.chunks
  <2> HIDE DEF removed, rows
  <2> QED BY <1>1, <1>2, <1>8 DEF Kept
<1>10. /\ Relayed' = 0..r-1
       /\ \A k \in Kept', n \in InFlight' \cup batch' : k < n
       /\ \A k \in InFlight', n \in batch' : k < n
       /\ \A i, j \in DOMAIN queue' :
            i < j => \A k \in queue'[i].chunks, n \in queue'[j].chunks : k < n
  BY <1>1, <1>9, <1>t, StoringNext
<1>11. ASSUME truncated' PROVE 0 \in Kept' \ stored'
  <2>1. CASE truncated
    <3>1. 0 \in Kept \ stored
      BY <2>1 DEF Storing
    <3> HIDE DEF removed
    <3> QED BY <3>1, <1>1, <1>2, <1>7, <1>9
  <2>2. CASE removed # {}
    <3>1. PICK k \in removed : k \in Kept'
      BY <2>2, <1>1 DEF Kept
    <3>2. k \in 0..r-1
      BY <3>1, <1>10 DEF Relayed
    <3>3. 0 \in Relayed'
      BY <3>2, <1>10
    <3>4. 0 \notin InFlight' \cup batch'
      BY <3>1, <3>2, <1>10
    <3>5. 0 \in Kept'
      BY <3>3, <3>4 DEF Relayed
    <3>6. ASSUME 0 \in rows PROVE 0 \in removed
      <4>1. new # {} /\ projected > MaximumOutputBytes
            /\ removed = Oldest(rows, projected - MaximumOutputBytes)
        BY <2>2 DEF Removed
      <4>2. \A n \in rows : n \in Nat
        BY <1>2, <1>6, <1>t, OutputAssumption DEF RowType, Chunk
      <4>3. {n \in rows : n < 0} = {}
        BY <4>2
      <4>4. Bytes[{}] = 0
        BY BytesEmpty
      <4>5. projected \in Nat
        <5>1. new \in SUBSET Chunk
          BY <1>3
        <5> QED BY <5>1, <1>t, BytesAssumption DEF RowType
      <4> HIDE DEF rows, new, projected, removed
      <4>6. 0 < projected - MaximumOutputBytes
        BY <4>1, <4>5, OutputAssumption
      <4> QED BY <4>1, <4>3, <4>4, <4>6, <3>6 DEF Oldest
    <3> HIDE DEF rows, removed
    <3> QED BY <3>5, <3>6, <1>1
  <2> HIDE DEF removed
  <2> QED BY <2>1, <2>2, <1>11, <1>1
<1>12. Storing(r)'
  BY <1>10, <1>11 DEF Storing
<1> HIDE DEF removed
<1> QED BY <1>1, <1>8, <1>9, <1>12

\* What a refused transaction leaves of it.
LEMMA FailureOrdered ==
  ASSUME Accounts, PersistFails, ~Head(queue).sync, NEW r \in Nat, Storing(r)
  PROVE  /\ Storing(r)'
         /\ Kept' = Kept \cup Head(queue).chunks
         /\ lost \subseteq lost' /\ evicted' = evicted
<1>t. ServerType
  BY DEF Accounts, TypeOK
<1>1. /\ queue # <<>> /\ queue' = Tail(queue) /\ batch' = batch
      /\ UNCHANGED <<stored, truncated, evicted>> /\ lost \subseteq lost'
  BY DEF PersistFails, Resumed, rowVars
<1>2. Kept' = Kept \cup Head(queue).chunks
  BY FailureKeeps
<1>3. /\ Relayed' = 0..r-1
      /\ \A k \in Kept', n \in InFlight' \cup batch' : k < n
      /\ \A k \in InFlight', n \in batch' : k < n
      /\ \A i, j \in DOMAIN queue' :
           i < j => \A k \in queue'[i].chunks, n \in queue'[j].chunks : k < n
  BY <1>1, <1>2, <1>t, StoringNext
<1>4. truncated' => 0 \in Kept' \ stored'
  BY <1>1, <1>2 DEF Storing
<1> QED BY <1>1, <1>2, <1>3, <1>4 DEF Storing

\* The server's chunks stay in order.
LEMMA StoringStep ==
  ASSUME Accounts, AwaitedFrame, Steady, Ending, Quiet, NEW r \in Nat, Storing(r)
  PROVE  Storing(r)'
<1>t. /\ NetType /\ ServerType /\ RowType /\ HistoryType
  BY DEF Accounts, TypeOK
<1>f. ASSUME NEW w \in {"none", "frame", "viewer"}, queue' = Append(queue, Flush(w, batch)),
             batch' = {}, UNCHANGED <<stored, evicted, lost, truncated>>
      PROVE  Storing(r)'
  <2>1. Flush(w, batch) \in Operation
    BY <1>t, FlushType DEF ServerType
  <2>2. Flush(w, batch).chunks = batch \cup r..r-1
    BY DEF Flush
  <2> QED BY <1>f, <2>1, <2>2, <1>t, StoringFlush
<1>1. CASE Agent
  BY <1>1, StoringKept DEF Agent, Emit, EmitSend, Finish, FinishSend, Dial, Welcomed,
     ReconcileAll, BufferRequest, LoopSend, ConnectionLost, serverVars, rowVars, historyVars
<1>2. CASE TimerFlush
  BY <1>2, <1>f DEF TimerFlush, rowVars, historyVars
<1>3. CASE HandleDone
  BY <1>3, <1>f, StoringKept DEF HandleDone, serverVars, rowVars, historyVars
<1>4. CASE HandleEnded \/ CancelQueued \/ DispatchFailed
  BY <1>4, StoringKept DEF HandleEnded, CancelQueued, DispatchFailed, serverVars, historyVars
<1>5. CASE Persist
  BY <1>5, PersistOrdered
<1>6. CASE PersistFails
  <2>1. ~Head(queue).sync
    BY <1>6, CalmResumed DEF PersistFails
  <2> QED BY <1>6, <2>1, FailureOrdered
<1>7. CASE BeginSubscription
  BY <1>7, <1>f, StoringKept DEF BeginSubscription, serverVars, rowVars, historyVars
<1>8. CASE ViewerDrop
  BY <1>8, StoringKept DEF ViewerDrop, Flush, rowVars, historyVars
<1>9. CASE Subscribe \/ SubscribeAgain \/ ReplayFlag \/ ReplayRead \/ ReplaySend
  BY <1>9, StoringKept DEF Subscribe, SubscribeAgain, ReplayFlag, ReplayRead, ReplaySend,
     serverVars, rowVars, historyVars
<1> QED BY <1>1, <1>2, <1>3, <1>4, <1>5, <1>6, <1>7, <1>8, <1>9 DEF Quiet, Viewer

\* The server takes the next chunk.
LEMMA OutputOrdered ==
  ASSUME Accounts, HandleOutput, NEW r, Sending(r), Storing(r)
  PROVE  /\ Sending(r + 1)' /\ Storing(r + 1)'
         /\ Broadcast(r)
         /\ r \in Nat
<1>t. /\ AgentType /\ NetType /\ ServerType /\ RowType /\ HistoryType
  BY DEF Accounts, TypeOK
<1>1. /\ HeadIs("output") /\ wire' = Tail(wire) /\ UNCHANGED <<held, next>>
  BY DEF HandleOutput, Handling, agentVars
<1>2. Head(wire).seq = r /\ r \in Nat
  BY <1>1, <1>t, HeadIsNext, SendingTypes
<1>3. Sending(r + 1)'
  BY <1>1, <1>t, SendingTail
<1>4. /\ Broadcast(r)
      /\ UNCHANGED <<stored, evicted, lost, truncated>>
      /\ \/ batch' = {} /\ queue' = Append(queue, Flush("none", batch \cup {r}))
         \/ batch' = batch \cup {r} /\ queue' = queue
  BY <1>2 DEF HandleOutput, rowVars, historyVars
<1>5. r \in Chunk
  BY <1>2, <1>t, HandledFrame, FrameTypes DEF HandleOutput
<1>6. CASE batch' = {} /\ queue' = Append(queue, Flush("none", batch \cup {r}))
  <2>1. Flush("none", batch \cup {r}) \in Operation
    BY <1>5, <1>t, FlushType DEF ServerType
  <2>2. r..(r+1)-1 = {r}
    BY <1>2
  <2>3. Flush("none", batch \cup {r}).chunks = batch \cup r..(r+1)-1
    BY <2>2 DEF Flush
  <2> QED BY <1>2, <1>3, <1>4, <1>6, <2>1, <2>3, <1>t, StoringFlush
<1>7. CASE batch' = batch \cup {r} /\ queue' = queue
  BY <1>2, <1>3, <1>4, <1>7, StoringBatch
<1> QED BY <1>4, <1>6, <1>7

-----------------------------------------------------------------------------
(* The viewer of one stream on an undisturbed connection                   *)

\* At most one operation is the viewer's, and the viewer waits for it.
AwaitedViewer ==
  \A i \in DOMAIN queue : queue[i].waiter = "viewer" =>
    /\ vPc = "flush"
    /\ \A j \in DOMAIN queue : queue[j].waiter = "viewer" => j = i

\* The chunks the viewer is excused for, or has been shown.
Shown == vSeen \cup unseen \cup evicted \cup lost

\* The page a replay read, of the chunks below r, and what was shown before leave no
\* gap up to the page's last row, and up to the first queued message, of those below
\* e, if the page is not full.
PageRead(r, e) ==
  /\ \A k \in vSnap : k < r /\ \A n \in vAfter+1..k : n \in Shown \cup vSnap
  /\ Cardinality(vSnap) < ReplayLimit =>
       \A n \in vAfter+1..e-Len(vQueue)-1 : n \in Shown \cup vSnap

\* What a viewer has who follows the chunks below r: all below its high-water mark;
\* in a replay, the last of those below e queued; after it, everything, unless the
\* row was ended early.  Only what follows such an end is not queued.
Following(r, e) ==
  /\ vLast < r
  /\ e = r \/ (vDone /\ early /\ e < r)
  /\ vFlag => truncated
  /\ vStatus \/ vDone => terminal
  /\ 0..vLast \subseteq Shown
  /\ (vStatus /\ ~early) \/ ~Replaying => vQueue = <<>>
  /\ \A i \in DOMAIN vQueue : vQueue[i] = e - Len(vQueue) + i - 1
  /\ Replaying => \A n \in batch : n >= e - Len(vQueue)
  /\ vPc \notin {"away", "live", "ended"} => vAfter = vLast /\ vBatch = 0
  /\ vPc = "live" => vBatch = NoChunk /\ Relayed \subseteq Shown
  /\ vPc = "ended" => terminal /\ (early \/ Relayed \subseteq Shown)
  /\ vPc = "send" => PageRead(r, e)

\* A step that shows the viewer nothing; it may end the wait of its replay.
LEMMA FollowingKept ==
  ASSUME NEW r, NEW e, Following(r, e),
         UNCHANGED <<vAfter, vStatus, vFlag, vSnap, vQueue, vDone, vLast, vBatch, vSeen>>,
         vPc' = vPc \/ (vPc = "flush" /\ vPc' = "flag"),
         truncated => truncated', reported => reported', early => early',
         unseen' = unseen, evicted \subseteq evicted', lost \subseteq lost',
         batch' \subseteq batch, Relayed' = Relayed
  PROVE  Following(r, e)'
<1>1. Shown \subseteq Shown'
  BY DEF Shown
<1>t. terminal => terminal'
  BY DEF terminal
<1>2. Replaying' <=> Replaying
  BY DEF Replaying
<1>3. vPc' = "send" => vPc = "send"
  OBVIOUS
<1>4. PageRead(r, e) => PageRead(r, e)'
  BY <1>1 DEF PageRead
<1>5. /\ vPc' \notin {"away", "live", "ended"} => vPc \notin {"away", "live", "ended"}
      /\ vPc' \in {"live", "ended"} => vPc' = vPc
  OBVIOUS
<1>6. /\ vLast' < r
      /\ vFlag' => truncated'
      /\ vStatus' \/ vDone' => terminal'
      /\ 0..vLast' \subseteq Shown'
      /\ (vStatus' /\ ~early') \/ ~Replaying' => vQueue' = <<>>
      /\ e = r \/ (vDone' /\ early' /\ e < r)
      /\ \A i \in DOMAIN vQueue' : vQueue'[i] = e - Len(vQueue') + i - 1
  BY <1>1, <1>2, <1>t DEF Following
<1>7. Replaying' => \A n \in batch' : n >= e - Len(vQueue')
  BY <1>2 DEF Following
<1>8. vPc' \notin {"away", "live", "ended"} => vAfter' = vLast' /\ vBatch' = 0
  BY <1>5 DEF Following
<1>9. /\ vPc' = "live" => vBatch' = NoChunk /\ Relayed' \subseteq Shown'
      /\ vPc' = "ended" => terminal' /\ (early' \/ Relayed' \subseteq Shown')
  BY <1>1, <1>5, <1>t DEF Following
<1>10. vPc' = "send" => PageRead(r, e)'
  BY <1>3, <1>4 DEF Following
<1> QED BY <1>6, <1>7, <1>8, <1>9, <1>10 DEF Following

\* The viewer's operation is one of the last to join and leaves with its wait.
LEMMA AwaitedViewerStep ==
  ASSUME ServerType, NetType, AwaitedViewer, HandleOutput \/ Quiet
  PROVE  AwaitedViewer'
<1>1. ASSUME vPc' = vPc, queue' = queue PROVE AwaitedViewer'
  BY <1>1 DEF AwaitedViewer
<1>2. ASSUME NEW op \in Operation, queue' = Append(queue, op),
             \/ vPc' = vPc /\ op.waiter # "viewer"
             \/ vPc # "flush" /\ vPc' = "flush"
      PROVE  AwaitedViewer'
  <2>1. /\ Len(queue) \in Nat
        /\ DOMAIN queue = 1..Len(queue)
        /\ DOMAIN queue' = 1..Len(queue)+1
        /\ \A i \in 1..Len(queue) : queue'[i] = queue[i]
        /\ queue'[Len(queue)+1] = op
    BY <1>2, LastAppended DEF ServerType
  <2>2. \A i \in DOMAIN queue' : i \in DOMAIN queue \/ i = Len(queue) + 1
    BY <2>1
  <2>3. CASE vPc' = vPc /\ op.waiter # "viewer"
    BY <2>1, <2>2, <2>3 DEF AwaitedViewer
  <2>4. CASE vPc # "flush" /\ vPc' = "flush"
    BY <2>1, <2>2, <2>4 DEF AwaitedViewer
  <2> QED BY <1>2, <2>3, <2>4
<1>3. CASE Agent
  BY <1>1, <1>3 DEF Agent, Emit, EmitSend, Finish, FinishSend, Dial, Welcomed, ReconcileAll,
     BufferRequest, LoopSend, ConnectionLost, serverVars, viewerVars
<1>4. CASE HandleOutput
  <2> DEFINE n == Head(wire).seq
  <2>1. n \in Chunk
    BY <1>4, HandledFrame, FrameTypes DEF HandleOutput
  <2>2. batch \cup {n} \in SUBSET Chunk
    BY <2>1 DEF ServerType
  <2>3. Broadcast(n) /\ (queue' = queue \/ queue' = Append(queue, Flush("none", batch \cup {n})))
    BY <1>4 DEF HandleOutput
  <2> HIDE DEF n
  <2>4. vPc' = vPc
    BY <2>3 DEF Broadcast, viewerVars
  <2> QED BY <1>1, <1>2, <2>2, <2>3, <2>4, FlushType
<1>5. CASE TimerFlush
  BY <1>2, <1>5, FlushType DEF TimerFlush, ServerType, viewerVars
<1>6. CASE HandleDone
  BY <1>1, <1>2, <1>6, FlushType DEF HandleDone, ServerType, serverVars, viewerVars
<1>7. CASE HandleEnded \/ CancelQueued \/ DispatchFailed
  <2>1. queue' = queue /\ (BroadcastDone \/ UNCHANGED viewerVars)
    BY <1>7 DEF HandleEnded, CancelQueued, DispatchFailed, serverVars
  <2>2. vPc' = vPc \/ vPc # "flush"
    BY <2>1 DEF BroadcastDone, Replaying, Live, viewerVars
  <2> QED BY <2>1, <2>2 DEF AwaitedViewer
<1>8. CASE Persist \/ PersistFails
  <2>1. queue # <<>> /\ queue' = Tail(queue)
    BY <1>8 DEF Persist, PersistFails, Resumed
  <2>2. vPc' = IF Head(queue).waiter = "viewer" THEN "flag" ELSE vPc
    <3>1. CASE Persist
      BY <3>1 DEF Persist, Broadcast, viewerVars
    <3>2. CASE PersistFails
      BY <3>2 DEF PersistFails
    <3> QED BY <1>8, <3>1, <3>2
  <2>3. /\ Len(queue) \in Nat \ {0}
        /\ DOMAIN queue = 1..Len(queue)
        /\ queue[1] = Head(queue)
        /\ DOMAIN queue' = 1..Len(queue)-1
        /\ \A i \in 1..Len(queue)-1 : queue'[i] = queue[i+1]
    BY <2>1, HeadFirst DEF ServerType
  <2>4. /\ 1 \in DOMAIN queue
        /\ \A i \in DOMAIN queue' : i \in Int /\ i + 1 \in DOMAIN queue /\ i + 1 # 1
                                    /\ queue'[i] = queue[i+1]
    BY <2>3
  <2>5. \A i, j \in DOMAIN queue' : i + 1 = j + 1 => i = j
    BY <2>4
  <2> QED BY <2>2, <2>3, <2>4, <2>5 DEF AwaitedViewer
<1>9. CASE Subscribe \/ SubscribeAgain \/ ReplayFlag \/ ReplayRead \/ ReplaySend
  <2>1. queue' = queue /\ vPc # "flush"
    BY <1>9 DEF Subscribe, SubscribeAgain, ReplayFlag, ReplayRead, ReplaySend, serverVars
  <2> QED BY <2>1 DEF AwaitedViewer
<1>10. CASE BeginSubscription
  <2>1. CASE batch = {}
    BY <1>10, <2>1 DEF BeginSubscription, serverVars, AwaitedViewer
  <2>2. CASE batch # {}
    BY <1>2, <1>10, <2>2, FlushType DEF BeginSubscription, ServerType
  <2> QED BY <2>1, <2>2
<1>11. CASE ViewerDrop
  BY <1>11 DEF ViewerDrop, Flush, AwaitedViewer
<1> QED BY <1>3, <1>4, <1>5, <1>6, <1>7, <1>8, <1>9, <1>10, <1>11 DEF Quiet, Viewer

\* Live output, or output for the replay's queue.
LEMMA FollowingOutput ==
  ASSUME Accounts, Steady, Ending, HandleOutput, ~vOvertaken', NEW r, Sending(r), Storing(r),
         NEW e \in Nat, Following(r, e)
  PROVE  Following(r + 1, e)' \/ Following(r + 1, r + 1)'
<1>t. ViewerType /\ NetType
  BY DEF Accounts, TypeOK
<1>1. /\ Broadcast(r) /\ r \in Nat /\ Storing(r + 1)'
  BY OutputOrdered
<1>2. ~reported
  BY DEF HandleOutput, Handling, HeadIs, Ending
<1>3. /\ UNCHANGED <<truncated, terminal, reported, early, unseen, evicted, lost>>
  BY DEF HandleOutput, rowVars, historyVars, terminal
<1>4. Relayed' = Relayed \cup {r}
  <2>1. 0..(r+1)-1 = (0..r-1) \cup {r}
    BY <1>1
  <2> QED BY <2>1, <1>1 DEF Storing
<1>5. \A n \in batch' : n \in batch \/ n = r
  <2>1. Head(wire).seq = r
    BY <1>t, HeadIsNext DEF HandleOutput, Handling, Accounts, TypeOK
  <2> QED BY <2>1 DEF HandleOutput
<1>6. vLast \in Int /\ vLast < r
  BY <1>t, OutputAssumption DEF Following, ViewerType, Chunk, NoChunk
<1>7. /\ vStatus \/ vDone => early
      /\ vStatus \/ vDone => terminal
      /\ ~vDone => e = r
      /\ e <= r
  BY <1>1, <1>2 DEF Following, terminal
<1>8. CASE Replaying /\ ~vDone
  <2>f. e = r
    BY <1>7, <1>8
  <2>1. /\ vQueue' = Append(vQueue, r)
        /\ UNCHANGED <<vPc, vAfter, vStatus, vFlag, vSnap, vDone, vLast, vBatch, vSeen>>
    BY <1>1, <1>8 DEF Broadcast, Replaying, Live
  <2>2. /\ Len(vQueue) \in Nat
        /\ DOMAIN vQueue = 1..Len(vQueue)
        /\ Len(vQueue') = Len(vQueue) + 1
        /\ DOMAIN vQueue' = 1..Len(vQueue)+1
        /\ \A i \in 1..Len(vQueue) : vQueue'[i] = vQueue[i]
        /\ vQueue'[Len(vQueue)+1] = r
    <3>1. vQueue \in Seq(Nat)
      BY <1>t, OutputAssumption DEF ViewerType, Chunk
    <3> QED BY <2>1, <3>1, <1>1, LastAppended
  <2>3. (r + 1) - Len(vQueue') = r - Len(vQueue) /\ r >= r - Len(vQueue)
    BY <2>2, <1>1
  <2>4. Shown' = Shown /\ Replaying'
    BY <2>1, <1>3, <1>8 DEF Shown, Replaying
  <2>5. \A i \in DOMAIN vQueue' : vQueue'[i] = (r + 1) - Len(vQueue') + i - 1
    <3> SUFFICES ASSUME NEW i \in 1..Len(vQueue)+1
                 PROVE  vQueue'[i] = r - Len(vQueue) + i - 1
      BY <2>2, <2>3
    <3>1. CASE i \in 1..Len(vQueue)
      BY <3>1, <2>2, <2>f DEF Following
    <3>2. CASE i = Len(vQueue) + 1
      BY <3>2, <2>2, <1>1
    <3> QED BY <3>1, <3>2, <2>2
  <2>6. \A n \in batch' : n >= (r + 1) - Len(vQueue')
    BY <1>5, <1>8, <2>3, <2>f DEF Following
  <2>7. vPc' = "send" => PageRead(r + 1, r + 1)'
    <3> SUFFICES ASSUME vPc = "send" PROVE PageRead(r + 1, r + 1)'
      BY <2>1
    <3>1. PageRead(r, r)
      BY <2>f DEF Following
    <3>2. \A k \in vSnap : k \in Int
      BY <1>t, OutputAssumption DEF ViewerType, Chunk
    <3>3. \A k \in vSnap' : k < r + 1
      BY <3>1, <3>2, <2>1, <1>1 DEF PageRead
    <3> QED BY <3>1, <3>3, <2>1, <2>3, <2>4 DEF PageRead
  <2>8. vLast' < r + 1
    BY <2>1, <1>1, <1>6
  <2>9. vPc' \notin {"away", "live", "ended"}
    BY <2>1, <1>8 DEF Replaying
  <2>10. Following(r + 1, r + 1)'
    BY <1>3, <1>7, <1>8, <2>1, <2>4, <2>5, <2>6, <2>7, <2>8, <2>9 DEF Following
  <2> QED BY <2>10
<1>11. CASE Replaying /\ vDone
  <2>1. UNCHANGED <<vPc, vAfter, vStatus, vFlag, vSnap, vQueue, vDone, vLast, vBatch, vSeen>>
    BY <1>1, <1>11 DEF Broadcast, Replaying, Live, viewerVars
  <2>2. Shown' = Shown /\ Replaying'
    BY <1>3, <1>11, <2>1 DEF Shown, Replaying
  <2>3. vLast' < r + 1
    BY <2>1, <1>1, <1>6
  <2>4. \A n \in batch' : n >= e - Len(vQueue')
    <3>1. Len(vQueue) \in Nat
      BY <1>t DEF ViewerType
    <3>2. r >= e - Len(vQueue)
      BY <3>1, <1>1, <1>7
    <3> QED BY <3>2, <2>1, <1>5, <1>11 DEF Following
  <2>5. vPc' = "send" => PageRead(r + 1, e)'
    <3> SUFFICES ASSUME vPc = "send" PROVE PageRead(r + 1, e)'
      BY <2>1
    <3>1. PageRead(r, e)
      BY DEF Following
    <3>2. \A k \in vSnap : k \in Int
      BY <1>t, OutputAssumption DEF ViewerType, Chunk
    <3>3. \A k \in vSnap' : k < r + 1
      BY <3>1, <3>2, <2>1, <1>1 DEF PageRead
    <3> QED BY <3>1, <3>3, <2>1, <2>2 DEF PageRead
  <2>6. vPc' \notin {"away", "live", "ended"}
    BY <2>1, <1>11 DEF Replaying
  <2>7. vDone' /\ early' /\ e < r + 1
    BY <2>1, <1>1, <1>3, <1>7, <1>11
  <2>8. Following(r + 1, e)'
    BY <1>3, <1>7, <1>11, <2>1, <2>2, <2>3, <2>4, <2>5, <2>6, <2>7 DEF Following
  <2> QED BY <2>8
<1>9. CASE ~Replaying /\ Live
  <2>1. /\ vSeen' = vSeen \cup {r} /\ vLast' = r
        /\ vBatch' = (IF vBatch = NoChunk THEN NoChunk ELSE vBatch + 1)
        /\ vOvertaken' = (vOvertaken \/ vBatch # NoChunk)
        /\ UNCHANGED <<vPc, vAfter, vStatus, vFlag, vSnap, vQueue, vDone>>
    BY <1>1, <1>6, <1>9 DEF Broadcast
  <2>2. vBatch = NoChunk /\ vBatch' = NoChunk
    BY <2>1
  <2>3. vPc = "live"
    BY <1>9, <2>2 DEF Live, Following, NoChunk
  <2>4. Relayed \subseteq Shown
    BY <2>3 DEF Following
  <2>5. Shown' = Shown \cup {r}
    BY <2>1, <1>3 DEF Shown
  <2>6. 0..r = (0..r-1) \cup {r}
    BY <1>1
  <2>7. 0..vLast' \subseteq Shown' /\ Relayed' \subseteq Shown'
    BY <2>1, <2>4, <2>5, <2>6, <1>4 DEF Storing
  <2>8. ~Replaying' /\ vQueue' = <<>> /\ DOMAIN vQueue' = {}
    BY <2>1, <2>3 DEF Replaying, Following
  <2>9. vLast' < r + 1
    BY <2>1, <1>1
  <2>10. Following(r + 1, r + 1)'
    BY <1>3, <1>7, <2>1, <2>2, <2>3, <2>7, <2>8, <2>9 DEF Following
  <2> QED BY <2>10
<1>10. CASE ~Replaying /\ ~Live
  <2>1. UNCHANGED <<vPc, vAfter, vStatus, vFlag, vSnap, vQueue, vDone, vLast, vBatch, vSeen>>
    BY <1>1, <1>10 DEF Broadcast, viewerVars
  <2>2. vPc \in {"away", "open"} \/ (vPc = "ended" /\ terminal /\ early)
    BY <1>2, <1>10, <1>t DEF Replaying, Live, Following, ViewerType, terminal
  <2>3. Shown' = Shown /\ ~Replaying' /\ vQueue' = <<>> /\ DOMAIN vQueue' = {}
    BY <1>3, <1>10, <2>1 DEF Shown, Replaying, Following
  <2>4. vLast' < r + 1
    BY <2>1, <1>1, <1>6
  <2>5. Following(r + 1, r + 1)'
    BY <1>3, <1>7, <2>1, <2>2, <2>3, <2>4 DEF Following
  <2> QED BY <2>5
<1> QED BY <1>8, <1>9, <1>10, <1>11

\* The end of the job reaches the viewer: at once, or in the replay's queue; or nobody
\* is told.
LEMMA FollowingEnded ==
  ASSUME HandleEnded \/ CancelQueued \/ DispatchFailed, ~vOvertaken',
         NEW r, NEW e, Following(r, e)
  PROVE  Following(r, e)'
<1>1. /\ terminal' /\ (BroadcastDone \/ (early' /\ UNCHANGED viewerVars))
      /\ reported => reported'
      /\ early => early'
      /\ UNCHANGED <<batch, queue, stored, truncated, unseen, evicted, lost>>
  BY DEF HandleEnded, CancelQueued, DispatchFailed, serverVars, historyVars, terminal
<1>2. Relayed' = Relayed
  BY <1>1 DEF Relayed, Kept, InFlight
<1>3. CASE BroadcastDone /\ Replaying
  <2>1. /\ vDone'
        /\ UNCHANGED <<vPc, vAfter, vStatus, vFlag, vSnap, vQueue, vLast, vBatch, vSeen>>
    BY <1>3 DEF BroadcastDone, Replaying, Live
  <2>2. Shown' = Shown /\ (Replaying' <=> Replaying) /\ (PageRead(r, e) => PageRead(r, e)')
    BY <2>1, <1>1 DEF Shown, Replaying, PageRead
  <2> QED BY <1>1, <1>2, <2>1, <2>2 DEF Following
<1>4. CASE BroadcastDone /\ ~Replaying /\ Live
  <2>1. /\ vPc' = "ended" /\ vOvertaken' = (vOvertaken \/ vBatch # NoChunk)
        /\ UNCHANGED <<vAfter, vStatus, vFlag, vSnap, vQueue, vDone, vLast, vBatch, vSeen>>
    BY <1>4 DEF BroadcastDone
  <2>2. vBatch = NoChunk
    BY <2>1
  <2>3. vPc = "live"
    BY <1>4, <2>2 DEF Live, Following, NoChunk
  <2>4. Shown' = Shown /\ Relayed \subseteq Shown /\ ~Replaying'
    BY <2>1, <2>3, <1>1 DEF Shown, Replaying, Following
  <2> QED BY <1>1, <1>2, <1>4, <2>1, <2>4 DEF Following
<1>5. CASE (BroadcastDone /\ ~Replaying /\ ~Live) \/ UNCHANGED viewerVars
  <2>1. UNCHANGED <<vPc, vAfter, vStatus, vFlag, vSnap, vQueue, vDone, vLast, vBatch, vSeen>>
    BY <1>5 DEF BroadcastDone, viewerVars
  <2> QED BY <2>1, <1>1, <1>2, FollowingKept
<1> QED BY <1>1, <1>3, <1>4, <1>5

\* A page that is not full has all the rows.
LEMMA PageComplete ==
  ASSUME NEW rows \in SUBSET Chunk, NEW limit \in Nat,
         Cardinality({n \in rows : Cardinality({k \in rows : k < n}) < limit}) < limit
  PROVE  \A n \in rows : Cardinality({k \in rows : k < n}) < limit
<1> DEFINE below(n) == {k \in rows : k < n}
           page == {n \in rows : Cardinality(below(n)) < limit}
<1>1. SUFFICES ASSUME rows \ page # {} PROVE FALSE
  OBVIOUS
<1>2. /\ rows \ page \in SUBSET Int /\ IsFiniteSet(rows \ page)
      /\ page \in SUBSET Chunk
  <2>1. page \in SUBSET Chunk /\ rows \ page \in SUBSET Chunk
    OBVIOUS
  <2> HIDE DEF page
  <2> QED BY <2>1, ChunksFinite
<1>3. PICK m \in rows \ page : \A k \in rows \ page : m <= k
  <2> HIDE DEF page
  <2> QED BY <1>1, <1>2, LeastElement
<1>4. below(m) \subseteq page
  <2> SUFFICES ASSUME NEW k \in rows, k < m, k \notin page PROVE FALSE
    OBVIOUS
  <2>1. m <= k
    BY <1>3
  <2>2. m \in Int /\ k \in Int
    BY ChunksFinite
  <2> HIDE DEF page
  <2> QED BY <2>1, <2>2
<1> HIDE DEF page
<1>5. IsFiniteSet(page) /\ Cardinality(page) \in Nat
  BY <1>2, ChunksFinite
<1>6. Cardinality(below(m)) <= Cardinality(page) /\ Cardinality(below(m)) \in Nat
  <2>1. below(m) \in SUBSET Chunk
    OBVIOUS
  <2> HIDE DEF below
  <2> QED BY <1>4, <1>5, <2>1, FS_Subset, ChunksFinite
<1>7. Cardinality(page) < limit
  BY DEF page
<1>8. Cardinality(below(m)) < limit
  BY <1>5, <1>6, <1>7
<1> QED BY <1>3, <1>8 DEF page

\* Of two rows the one below has fewer rows below it.
LEMMA FewerBelow ==
  ASSUME NEW rows \in SUBSET Chunk, NEW n \in Int, NEW k \in Int, n <= k
  PROVE  /\ Cardinality({j \in rows : j < n}) <= Cardinality({j \in rows : j < k})
         /\ Cardinality({j \in rows : j < n}) \in Nat
         /\ Cardinality({j \in rows : j < k}) \in Nat
<1> DEFINE A == {j \in rows : j < n}
           B == {j \in rows : j < k}
<1>1. \A j \in rows : j \in Int
  BY ChunksFinite
<1>2. A \subseteq B /\ A \in SUBSET Chunk /\ B \in SUBSET Chunk
  BY <1>1
<1> HIDE DEF A, B
<1>3. IsFiniteSet(B) /\ Cardinality(A) \in Nat /\ Cardinality(B) \in Nat
  BY <1>2, ChunksFinite
<1>4. Cardinality(A) <= Cardinality(B)
  BY <1>2, <1>3, FS_Subset
<1> QED BY <1>3, <1>4 DEF A, B

\* The replay reads its page: no gap below its last row, nor below the queued
\* messages, but what is inside an operation.
LEMMA FollowingRead ==
  ASSUME Accounts, ReplayRead, NEW r \in Nat, Storing(r), NEW e \in Nat, Following(r, e)
  PROVE  Following(r, e)'
<1>t. RowType /\ ViewerType
  BY DEF Accounts, TypeOK
<1> DEFINE rows == {n \in stored : n > vAfter}
<1>1. /\ vPc = "read" /\ vPc' = "send"
      /\ vSnap' = {n \in rows : Cardinality({k \in rows : k < n}) < ReplayLimit}
      /\ unseen' = unseen \cup InFlight
      /\ UNCHANGED <<batch, queue, stored, truncated, terminal, early, evicted, lost, vAfter, vStatus,
                     vFlag, vQueue, vDone, vLast, vBatch, vSeen>>
  BY DEF ReplayRead, serverVars, rowVars, terminal
<1>2. rows \in SUBSET Chunk /\ vAfter \in Int /\ vAfter >= -1
  <2>1. rows \in SUBSET Chunk
    BY <1>t DEF RowType
  <2> HIDE DEF rows
  <2> QED BY <2>1, <1>t, OutputAssumption DEF ViewerType, Chunk, NoChunk
<1>3. Shown \cup InFlight \subseteq Shown' /\ evicted \cup lost \subseteq Shown'
  BY <1>1 DEF Shown
<1>4. Relayed' = Relayed
  BY <1>1 DEF Relayed, Kept, InFlight
<1>5. ASSUME NEW k \in vSnap'
      PROVE  k < r /\ \A n \in vAfter+1..k : n \in Shown' \cup vSnap'
  <2>1. k \in rows /\ Cardinality({j \in rows : j < k}) < ReplayLimit
    BY <1>1
  <2>2. k \in Kept /\ k \in Int
    BY <2>1, <1>2, ChunksFinite DEF Kept
  <2>3. k < r
    BY <2>2 DEF Storing, Relayed
  <2>4. ASSUME NEW n \in vAfter+1..k PROVE n \in Shown' \cup vSnap'
    <3>1. n \in 0..k /\ n > vAfter /\ n <= k /\ n \in Int
      BY <1>2, <2>2
    <3>2. n \in Kept
      BY <2>2, <3>1, KeptBelow
    <3>3. CASE n \in stored
      <4>1. n \in rows
        BY <3>1, <3>3
      <4> HIDE DEF rows
      <4>2. Cardinality({j \in rows : j < n}) < ReplayLimit
        <5> DEFINE a == Cardinality({j \in rows : j < n})
                   b == Cardinality({j \in rows : j < k})
        <5>1. a <= b /\ a \in Nat /\ b \in Nat
          BY <2>2, <3>1, <1>2, FewerBelow
        <5>2. b < ReplayLimit
          BY <2>1
        <5> HIDE DEF a, b
        <5>3. a < ReplayLimit
          BY <5>1, <5>2, OutputAssumption
        <5> QED BY <5>3 DEF a
      <4> QED BY <4>1, <4>2, <1>1
    <3> QED BY <3>2, <3>3, <1>3 DEF Kept
  <2> QED BY <2>3, <2>4
<1>6. ASSUME Cardinality(vSnap') < ReplayLimit, NEW n \in vAfter+1..e-Len(vQueue)-1
      PROVE  n \in Shown' \cup vSnap'
  <2>1. Len(vQueue) \in Nat
    BY <1>t DEF ViewerType
  <2>e. e <= r
    BY DEF Following
  <2>2. n \in 0..r-1 /\ n > vAfter /\ n < e - Len(vQueue)
    BY <2>1, <2>e, <1>2
  <2>3. n \in Relayed
    BY <2>2 DEF Storing
  <2>4. n \notin batch
    <3>1. \A k \in batch : k >= e - Len(vQueue)
      BY <1>1 DEF Following, Replaying
    <3> QED BY <3>1, <2>1, <2>2
  <2>5. CASE n \in stored
    <3>1. n \in rows
      BY <2>2, <2>5
    <3> HIDE DEF rows
    <3>2. \A k \in rows : Cardinality({j \in rows : j < k}) < ReplayLimit
      BY <1>1, <1>2, <1>6, PageComplete, OutputAssumption
    <3> QED BY <3>1, <3>2, <1>1
  <2> QED BY <2>3, <2>4, <2>5, <1>3 DEF Relayed, Kept
<1> HIDE DEF rows
<1>7. PageRead(r, e)'
  BY <1>5, <1>6, <1>1 DEF PageRead
<1>8. Replaying /\ Replaying'
  BY <1>1 DEF Replaying
<1>9. 0..vLast' \subseteq Shown'
  BY <1>1, <1>3 DEF Following
<1> QED BY <1>1, <1>7, <1>8, <1>9 DEF Following

\* Of queued messages in sequence the viewer takes those above its mark.
LEMMA AcceptedRun ==
  ASSUME NEW m \in Seq(Chunk), NEW r \in Nat, NEW last \in Int,
         \A i \in DOMAIN m : m[i] = r - Len(m) + i - 1
  PROVE  Accepted(m, last) = {n \in r-Len(m)..r-1 : n > last}
<1>1. Len(m) \in Nat /\ DOMAIN m = 1..Len(m)
  OBVIOUS
<1>2. ASSUME NEW j \in DOMAIN m PROVE m[j] \in r-Len(m)..r-1
  BY <1>1, <1>2
<1>3. Accepted(m, last) \subseteq {n \in r-Len(m)..r-1 : n > last}
  BY <1>2 DEF Accepted
<1>4. ASSUME NEW n \in r-Len(m)..r-1, n > last PROVE n \in Accepted(m, last)
  <2> DEFINE j == n - (r - Len(m)) + 1
  <2>1. j \in 1..Len(m) /\ r - Len(m) + j - 1 = n
    BY <1>1, <1>4
  <2> HIDE DEF j
  <2>2. j \in DOMAIN m /\ m[j] = n
    BY <1>1, <2>1
  <2>3. ASSUME NEW k \in 1..j-1 PROVE m[k] < m[j]
    <3>1. k \in 1..Len(m) /\ r - Len(m) + k - 1 < r - Len(m) + j - 1
      BY <1>1, <2>1
    <3>2. m[k] = r - Len(m) + k - 1
      BY <1>1, <3>1
    <3> QED BY <2>1, <2>2, <3>1, <3>2
  <2> QED BY <2>2, <2>3, <1>4 DEF Accepted
<1> QED BY <1>3, <1>4

\* The truncation notice takes the viewer over rows that are gone, and no others.
LEMMA NoticeHonest ==
  ASSUME Accounts, NEW r \in Nat, Storing(r), vFlag => truncated, NEW sequence \in Notice
  PROVE  sequence < r /\ 0..sequence \subseteq evicted \cup lost
<1>t. RowType
  BY DEF Accounts, TypeOK
<1>1. 0 \in Kept \ stored
  BY DEF Notice, Storing
<1>2. \A k \in Kept : k \in 0..r-1
  BY DEF Storing, Relayed
<1>3. CASE stored = {}
  <2>1. sequence = 0
    BY <1>3 DEF Notice
  <2>2. 0..0 = {0}
    OBVIOUS
  <2> QED BY <2>1, <2>2, <1>1, <1>2 DEF Kept
<1>4. CASE stored # {}
  <2> DEFINE earliest == Min(stored)
  <2>1. earliest \in stored /\ \A k \in stored : earliest <= k
    <3>1. \E x \in stored : \A y \in stored : x <= y
      BY <1>4, <1>t, ChunksFinite, LeastElement DEF RowType
    <3> QED BY <3>1 DEF Min
  <2>2. earliest \in Nat /\ earliest # 0
    BY <2>1, <1>1, <1>t, ChunksFinite DEF RowType
  <2>3. sequence = earliest - 1
    BY <1>4, <2>2 DEF Notice
  <2> HIDE DEF earliest
  <2>4. earliest \in Kept
    BY <2>1 DEF Kept
  <2>5. ASSUME NEW n \in 0..sequence PROVE n \in evicted \cup lost
    <3>1. n \in 0..earliest /\ ~(earliest <= n)
      BY <2>2, <2>3
    <3>2. n \in Kept
      BY <2>4, <3>1, KeptBelow
    <3> QED BY <3>1, <3>2, <2>1 DEF Kept
  <2>6. sequence < r
    BY <2>2, <2>3, <2>4, <1>2
  <2> QED BY <2>5, <2>6
<1> QED BY <1>3, <1>4

\* The notice, the page and the queued messages reach the viewer.
LEMMA FollowingSend ==
  ASSUME Accounts, ReplaySend, ~vOvertaken', NEW r \in Nat, Storing(r),
         NEW e \in Nat, Following(r, e)
  PROVE  Following(r, e)'
<1>t. RowType /\ ViewerType
  BY DEF Accounts, TypeOK
<1> DEFINE noticed == {n \in Notice : n > vLast}
           mark == Max(noticed \cup {vLast})
           rows == {n \in vSnap : n > mark}
           took == vBatch + Cardinality(noticed) + Cardinality(rows)
           more == took >= ReplayLimit
           last == Max(rows \cup {mark})
           taken(heard) == IF heard THEN Accepted(vQueue, last) ELSE {}
<1>1. PICK heard \in {TRUE, ~vStatus} :
        /\ vSeen' = vSeen \cup rows \cup taken(heard)
        /\ vLast' = Max(taken(heard) \cup {last})
        /\ vAfter' = IF more THEN last ELSE vAfter
        /\ vBatch' = IF more THEN Cardinality(taken(heard)) ELSE NoChunk
        /\ vPc' = CASE vDone \/ vStatus -> "ended"
                    [] ~vDone /\ ~vStatus /\ more -> "again"
                    [] OTHER -> "live"
        /\ vOvertaken' = \/ vOvertaken
                         \/ more /\ (taken(heard) # {} \/ vDone \/ vStatus)
                         \/ ~more /\ Cardinality(vSnap) >= ReplayLimit
        /\ vQueue' = <<>> /\ vSnap' = {}
        /\ UNCHANGED <<vStatus, vFlag, vDone>>
  BY Zenon DEF ReplaySend
<1> DEFINE queued == taken(heard)
<1>2. /\ vPc = "send"
      /\ UNCHANGED <<batch, queue, stored, truncated, terminal, reported, early, evicted, lost,
                     unseen>>
  BY DEF ReplaySend, serverVars, rowVars, historyVars, terminal
<1>3. /\ vLast < r /\ vAfter = vLast /\ 0..vLast \subseteq Shown /\ PageRead(r, e)
      /\ \A i \in DOMAIN vQueue : vQueue[i] = e - Len(vQueue) + i - 1
      /\ vStatus /\ ~early => vQueue = <<>>
      /\ e = r \/ (vDone /\ early /\ e < r)
      /\ e <= r
      /\ vStatus \/ vDone => terminal
      /\ vFlag => truncated
  BY <1>2 DEF Following
<1>4. /\ noticed \in SUBSET Chunk
      /\ \A n \in noticed : n < r /\ 0..n \subseteq Shown /\ n > vLast
  BY <1>3, <1>t, NoticeType, NoticeHonest DEF RowType, Shown
<1>5. vLast \in Chunk \cup {NoChunk}
  BY <1>t DEF ViewerType
<1>6. mark \in Chunk \cup {NoChunk} /\ mark < r /\ 0..mark \subseteq Shown /\ mark >= vLast
  <2> HIDE DEF noticed
  <2>1. noticed \cup {vLast} \in SUBSET (Chunk \cup {NoChunk}) /\ noticed \cup {vLast} # {}
    BY <1>4, <1>5
  <2>2. mark \in noticed \cup {vLast}
    BY <2>1, MaxInSet
  <2>3. \A n \in Chunk \cup {NoChunk} : n \in Int
    BY OutputAssumption DEF Chunk, NoChunk
  <2> HIDE DEF mark
  <2>4. CASE mark = vLast
    BY <2>3, <2>4, <1>3, <1>5
  <2>5. CASE mark \in noticed
    <3>1. mark \in Int /\ vLast \in Int /\ mark > vLast
      BY <2>3, <2>5, <1>4, <1>5
    <3> QED BY <2>5, <3>1, <1>4
  <2> QED BY <2>2, <2>4, <2>5
<1>i. \A n \in Chunk \cup {NoChunk} : n \in Int /\ n >= -1
  BY OutputAssumption DEF Chunk, NoChunk
<1>7. rows \in SUBSET Chunk /\ rows = {n \in vSnap : n > mark}
  BY <1>t DEF ViewerType
<1> HIDE DEF noticed, mark
<1>8. /\ last \in rows \cup {mark}
      /\ last \in Chunk \cup {NoChunk}
  <2> HIDE DEF rows
  <2>1. rows \cup {mark} \in SUBSET (Chunk \cup {NoChunk}) /\ rows \cup {mark} # {}
    BY <1>6, <1>7
  <2>2. last \in rows \cup {mark}
    BY <2>1, MaxInSet
  <2> QED BY <2>1, <2>2
<1> HIDE DEF rows, last
<1>9. Shown \cup rows \cup queued \subseteq Shown'
  BY <1>1, <1>2 DEF Shown
<1>10. last < r
  BY <1>3, <1>6, <1>7, <1>8 DEF PageRead
\* What is neither behind the mark nor on the page is shown already.
<1>11. ASSUME NEW n \in Nat, n > mark => n \in Shown \cup vSnap
       PROVE  n \in Shown'
  <2>1. mark \in Int
    BY <1>6, <1>i
  <2>2. CASE n <= mark
    <3>1. n \in 0..mark
      BY <2>1, <2>2
    <3> QED BY <3>1, <1>6, <1>9
  <2>3. CASE n > mark
    <3>1. n \in vSnap => n \in rows
      BY <2>3, <1>7
    <3> QED BY <2>3, <3>1, <1>9, <1>11
  <2> QED BY <2>1, <2>2, <2>3
<1>12. ASSUME NEW n \in 0..last PROVE n \in Shown'
  <2>1. n \in Nat /\ last \in Int /\ mark \in Int /\ vAfter \in Int /\ n <= last /\ vAfter <= mark
    BY <1>3, <1>5, <1>6, <1>8, <1>i
  <2>2. ASSUME n > mark PROVE n \in Shown \cup vSnap
    <3>1. last \in vSnap
      BY <2>1, <2>2, <1>7, <1>8
    <3>2. n \in vAfter+1..last
      BY <2>1, <2>2
    <3> QED BY <3>1, <3>2, <1>3 DEF PageRead
  <2> QED BY <2>1, <2>2, <1>11
<1>13. Relayed' = Relayed /\ Relayed = 0..r-1
  BY <1>2 DEF Relayed, Kept, InFlight, Storing
<1>14. CASE more
  <2>1. queued = {} /\ ~vDone /\ ~vStatus
    BY <1>1, <1>14
  <2>2. Cardinality(queued) = 0
    BY <2>1, FS_EmptySet
  <2>3. vLast' = last
    <3>1. last \in Int
      BY <1>8, <1>i
    <3>2. vLast' = Max({last})
      BY <2>1, <1>1
    <3>3. \E x \in {last} : \A y \in {last} : x >= y
      BY <3>1
    <3>4. Max({last}) = last
      BY <3>3 DEF Max
    <3> QED BY <3>2, <3>4
  <2>4. vAfter' = last /\ vBatch' = 0
    BY <1>1, <1>14, <2>2
  <2>5. vPc' = "again"
    BY <1>1, <1>14, <2>1
  <2>6. ~Replaying' /\ vQueue' = <<>> /\ DOMAIN vQueue' = {}
    BY <1>1, <2>5 DEF Replaying
  <2> QED BY <1>1, <1>2, <1>3, <1>10, <1>12, <2>1, <2>3, <2>4, <2>5, <2>6 DEF Following
<1>15. CASE ~more
  <2>1. ~(Cardinality(vSnap) >= ReplayLimit)
    BY <1>1, <1>15
  <2>2. Cardinality(vSnap) < ReplayLimit
    <3>1. Cardinality(vSnap) \in Nat
      BY <1>t, ChunksFinite DEF ViewerType
    <3> QED BY <2>1, <3>1, OutputAssumption
  <2>3. \A n \in vAfter+1..e-Len(vQueue)-1 : n \in Shown \cup vSnap
    BY <2>2, <1>3 DEF PageRead
  <2>4. Len(vQueue) \in Nat /\ vQueue \in Seq(Chunk) /\ vAfter \in Int /\ mark \in Int
        /\ last \in Int /\ vAfter <= mark
    BY <1>t, <1>3, <1>5, <1>6, <1>8, <1>i DEF ViewerType
  <2>5. ASSUME NEW n \in 0..e-1, n < e - Len(vQueue) PROVE n \in Shown'
    <3>1. n \in Nat
      OBVIOUS
    <3>2. ASSUME n > mark PROVE n \in vAfter+1..e-Len(vQueue)-1
      BY <2>4, <2>5, <3>2
    <3> QED BY <2>3, <3>1, <3>2, <1>11
  <2>a. queued \subseteq {n \in e-Len(vQueue)..e-1 : n > last}
    BY <2>4, <1>3, AcceptedRun
  <2>b. heard => queued = {n \in e-Len(vQueue)..e-1 : n > last}
    BY <2>4, <1>3, AcceptedRun
  <2>c. queued # {} => heard
    OBVIOUS
  <2>d. queued \in SUBSET Chunk
    BY <2>4, AcceptedType
  <2>6. ASSUME NEW n \in 0..e-1, n >= e - Len(vQueue), heard PROVE n \in Shown'
    <3>1. CASE n > last
      <4>1. n \in e-Len(vQueue)..e-1
        BY <2>4, <2>6
      <4>2. n \in queued
        <5> HIDE DEF queued
        <5> QED BY <4>1, <2>6, <2>b, <3>1
      <4> QED BY <4>2, <1>9
    <3>2. CASE ~(n > last)
      <4>1. n \in 0..last
        BY <2>4, <3>2
      <4> QED BY <4>1, <1>12
    <3> QED BY <3>1, <3>2
  <2>e. vLast' \in queued \cup {last} /\ vLast' \in Chunk \cup {NoChunk}
    <3>1. vLast' = Max(queued \cup {last})
      BY <1>1 DEF queued
    <3> HIDE DEF queued
    <3>2. queued \cup {last} \in SUBSET (Chunk \cup {NoChunk}) /\ queued \cup {last} # {}
      BY <2>d, <1>8
    <3> QED BY <3>1, <3>2, MaxInSet
  <2> HIDE DEF queued
  <2>7. (heard \/ vQueue = <<>>) => \A n \in 0..e-1 : n \in Shown'
    <3>1. \A n \in 0..e-1 : n < e - Len(vQueue) \/ n >= e - Len(vQueue)
      BY <2>4
    <3>2. vQueue = <<>> => \A n \in 0..e-1 : n < e - Len(vQueue)
      OBVIOUS
    <3> QED BY <2>5, <2>6, <3>1, <3>2
  <2>8. vLast' < r
    BY <2>4, <2>a, <2>e, <1>3, <1>10
  <2>9. 0..vLast' \subseteq Shown'
    <3>1. CASE vLast' = last
      BY <3>1, <1>12
    <3>2. CASE vLast' \in queued
      <4>1. heard /\ vLast' \in e-Len(vQueue)..e-1
        BY <3>2, <2>a, <2>c
      <4>2. \A n \in 0..vLast' : n \in 0..e-1
        BY <4>1, <2>4
      <4> QED BY <4>1, <4>2, <2>7
    <3> QED BY <2>e, <3>1, <3>2
  <2>10. ~early \/ (~vDone /\ ~vStatus) => Relayed' \subseteq Shown'
    <3> SUFFICES ASSUME ~early \/ (~vDone /\ ~vStatus) PROVE Relayed' \subseteq Shown'
      OBVIOUS
    <3>1. e = r
      BY <1>3
    <3>2. vStatus => vQueue = <<>>
      BY <1>3
    <3>3. ~vStatus => heard
      <4>1. heard = TRUE \/ heard = ~vStatus
        BY Zenon
      <4> QED BY <4>1, Zenon
    <3> QED BY <3>1, <3>2, <3>3, <2>7, <1>13
  <2>11. /\ vPc' \in {"live", "ended"}
         /\ vPc' = "ended" => vDone \/ vStatus
         /\ vPc' = "live" => ~vDone /\ ~vStatus
    <3>1. CASE vDone \/ vStatus
      BY <3>1, <1>1
    <3>2. CASE ~vDone /\ ~vStatus
      BY <3>2, <1>1, <1>15
    <3> QED BY <3>1, <3>2
  <2>12. ~Replaying' /\ vQueue' = <<>> /\ DOMAIN vQueue' = {} /\ vBatch' = NoChunk
    BY <1>1, <1>15, <2>11 DEF Replaying
  <2> QED BY <1>1, <1>2, <1>3, <2>8, <2>9, <2>10, <2>11, <2>12 DEF Following
<1> QED BY <1>14, <1>15

\* The viewer keeps following in the steps in which the server takes no output.
LEMMA FollowingStep ==
  ASSUME Accounts, AwaitedFrame, AwaitedViewer, Steady, Ending, Quiet, ~vOvertaken',
         NEW r \in Nat, Storing(r), NEW e \in Nat, Following(r, e)
  PROVE  Following(r, e)' \/ Following(r, r)'
<1>t. ServerType /\ ViewerType
  BY DEF Accounts, TypeOK
<1>1. Relayed' = Relayed
  BY StoringStep DEF Storing
<1>2. CASE Agent
  <2>1. UNCHANGED <<batch, truncated, reported, early, unseen, evicted, lost, vPc, vAfter, vStatus,
                    vFlag, vSnap, vQueue, vDone, vLast, vBatch, vSeen>>
    BY <1>2 DEF Agent, Emit, EmitSend, Finish, FinishSend, Dial, Welcomed, ReconcileAll,
       BufferRequest, LoopSend, ConnectionLost, serverVars, rowVars, historyVars, viewerVars
  <2> QED BY <2>1, <1>1, FollowingKept
<1>3. CASE TimerFlush \/ HandleDone
  <2>1. /\ batch' \subseteq batch
        /\ UNCHANGED <<truncated, reported, early, unseen, evicted, lost, vPc, vAfter, vStatus,
                       vFlag, vSnap, vQueue, vDone, vLast, vBatch, vSeen>>
    BY <1>3 DEF TimerFlush, HandleDone, serverVars, rowVars, historyVars, viewerVars
  <2> QED BY <2>1, <1>1, FollowingKept
<1>4. CASE HandleEnded \/ CancelQueued \/ DispatchFailed
  BY <1>4, FollowingEnded
<1>5. CASE Persist \/ PersistFails
  <2>1. queue # <<>> /\ ~Head(queue).sync
    BY <1>5, CalmResumed DEF Persist, PersistFails
  <2>2. Head(queue).waiter = "viewer" => vPc = "flush"
    <3>1. 1 \in DOMAIN queue /\ queue[1] = Head(queue)
      BY <2>1, <1>t, HeadFirst DEF ServerType
    <3> QED BY <3>1 DEF AwaitedViewer
  <2>3. /\ UNCHANGED <<vAfter, vStatus, vFlag, vSnap, vQueue, vDone, vLast, vBatch, vSeen>>
        /\ vPc' = IF Head(queue).waiter = "viewer" THEN "flag" ELSE vPc
    <3>1. CASE Persist
      BY <3>1, <2>1 DEF Persist, viewerVars
    <3>2. CASE PersistFails
      BY <3>2 DEF PersistFails
    <3> QED BY <1>5, <3>1, <3>2
  <2>4. evicted \subseteq evicted' /\ lost \subseteq lost'
    BY <1>5, <2>1, PersistOrdered, FailureOrdered
  <2>5. /\ truncated => truncated'
        /\ UNCHANGED <<reported, early, batch, unseen>>
    <3>1. CASE Persist
      <4>1. UNCHANGED <<reported, early, batch, unseen>>
        BY <3>1 DEF Persist
      <4>2. truncated => truncated'
        BY <3>1, Zenon DEF Persist
      <4> QED BY <4>1, <4>2
    <3>2. CASE PersistFails
      BY <3>2 DEF PersistFails, rowVars
    <3> QED BY <1>5, <3>1, <3>2
  <2> QED BY <1>1, <2>2, <2>3, <2>4, <2>5, FollowingKept
<1>6. CASE Subscribe
  <2>1. /\ vPc = "away" /\ vPc' = "open" /\ vStatus' = terminal /\ vAfter' = vLast /\ vBatch' = 0
        /\ UNCHANGED <<batch, truncated, terminal, reported, early, unseen,
                       evicted, lost, vFlag, vSnap, vQueue,
                       vDone, vLast, vSeen>>
    BY <1>6 DEF Subscribe, serverVars, rowVars, historyVars, terminal
  <2>2. Shown' = Shown /\ ~Replaying /\ ~Replaying'
    BY <2>1 DEF Shown, Replaying
  <2> QED BY <2>1, <2>2 DEF Following
<1>7. CASE SubscribeAgain
  <2>1. /\ vPc = "again" /\ vPc' = "reopen" /\ vStatus' = terminal
        /\ UNCHANGED <<batch, truncated, terminal, reported, early, unseen,
                       evicted, lost, vAfter, vFlag, vSnap,
                       vQueue, vDone, vLast, vBatch, vSeen>>
    BY <1>7 DEF SubscribeAgain, serverVars, rowVars, historyVars, terminal
  <2>2. Shown' = Shown /\ ~Replaying /\ ~Replaying'
    BY <2>1 DEF Shown, Replaying
  <2> QED BY <2>1, <2>2 DEF Following
<1>8. CASE BeginSubscription
  <2>1. /\ vPc \in {"open", "reopen"} /\ vPc' \in {"flag", "flush"} /\ vQueue' = <<>>
        /\ vDone' = FALSE /\ batch' = {}
        /\ UNCHANGED <<truncated, terminal, reported, early, unseen, evicted, lost, vAfter,
                       vStatus, vFlag, vSnap,
                       vLast, vBatch, vSeen>>
    BY <1>8 DEF BeginSubscription, serverVars, rowVars, historyVars, terminal
  <2>2. Shown' = Shown /\ DOMAIN vQueue' = {}
    BY <2>1 DEF Shown
  <2>3. vPc' # "send" /\ vPc' \notin {"away", "live", "ended"} /\ vPc \notin {"away", "live", "ended"}
    BY <2>1
  <2>4. Following(r, r)'
    BY <2>1, <2>2, <2>3 DEF Following
  <2> QED BY <2>4
<1>9. CASE ReplayFlag
  <2>1. /\ vPc = "flag" /\ vPc' = "read" /\ vFlag' = truncated
        /\ UNCHANGED <<batch, truncated, terminal, reported, early, unseen,
                       evicted, lost, vAfter, vStatus, vSnap,
                       vQueue, vDone, vLast, vBatch, vSeen>>
    BY <1>9 DEF ReplayFlag, serverVars, rowVars, historyVars, terminal
  <2>2. Shown' = Shown /\ Replaying /\ Replaying'
    BY <2>1 DEF Shown, Replaying
  <2> QED BY <2>1, <2>2 DEF Following
<1>10. CASE ReplayRead
  BY <1>10, FollowingRead
<1>11. CASE ReplaySend
  BY <1>11, FollowingSend
<1>12. CASE ViewerDrop
  <2>1. /\ vPc' = "away" /\ vQueue' = <<>> /\ vDone' = FALSE
        /\ UNCHANGED <<batch, truncated, terminal, reported, early, unseen,
                       evicted, lost, vAfter, vStatus, vFlag,
                       vLast, vSeen>>
    BY <1>12 DEF ViewerDrop, rowVars, historyVars, terminal
  <2>2. Shown' = Shown /\ ~Replaying' /\ DOMAIN vQueue' = {}
    BY <2>1 DEF Shown, Replaying
  <2>3. Following(r, r)'
    BY <2>1, <2>2 DEF Following
  <2> QED BY <2>3
<1> QED BY <1>2, <1>3, <1>4, <1>5, <1>6, <1>7, <1>8, <1>9, <1>10, <1>11, <1>12 DEF Quiet, Viewer

\* What overtook a page is not forgotten.
LEMMA OvertakenStays ==
  ASSUME Accounts, AwaitedFrame, Steady, Ending, HandleOutput \/ Quiet, ~vOvertaken'
  PROVE  ~vOvertaken
<1>1. CASE Agent \/ TimerFlush \/ HandleDone \/ Subscribe \/ SubscribeAgain \/ BeginSubscription
           \/ ReplayFlag \/ ReplayRead \/ ViewerDrop \/ PersistFails
  BY <1>1 DEF Agent, Emit, EmitSend, Finish, FinishSend, Dial, Welcomed, ReconcileAll,
     BufferRequest, LoopSend, ConnectionLost, TimerFlush, HandleDone, Subscribe, SubscribeAgain,
     BeginSubscription, ReplayFlag, ReplayRead, ViewerDrop, PersistFails, viewerVars
<1>2. CASE HandleOutput
  <2>1. Broadcast(Head(wire).seq)
    BY <1>2 DEF HandleOutput
  <2> QED BY <2>1 DEF Broadcast, Replaying, Live, viewerVars
<1>3. CASE HandleEnded \/ CancelQueued \/ DispatchFailed
  <2>1. BroadcastDone \/ UNCHANGED viewerVars
    BY <1>3 DEF HandleEnded, CancelQueued, DispatchFailed
  <2> QED BY <2>1 DEF BroadcastDone, Replaying, Live, viewerVars
<1>4. CASE Persist
  <2>1. ~Head(queue).sync
    BY <1>4, CalmResumed DEF Persist
  <2> QED BY <1>4, <2>1 DEF Persist, viewerVars
<1>5. CASE ReplaySend
  BY <1>5 DEF ReplaySend
<1> QED BY <1>1, <1>2, <1>3, <1>4, <1>5 DEF Quiet, Viewer

\* The viewer of an undisturbed connection follows the stream, some way along it.
Watched ==
  /\ Flushed
  /\ Undisturbed =>
       /\ AwaitedViewer
       /\ \E r, e \in Nat : Sending(r) /\ Storing(r) /\ (~vOvertaken => Following(r, e))

\* The viewer of one stream is always watched over.
LEMMA WatchedInvariant ==
  ASSUME OneStream
  PROVE  Spec => []Watched
<1>1. Init => Watched
  <2> SUFFICES ASSUME Init PROVE Watched
    OBVIOUS
  <2>1. Flushed
    BY FlushedInit
  <2>2. Holding = {} /\ Relayed = {} /\ 0..0-1 = {}
    BY DEF Init, Holding, Relayed, Kept, InFlight
  <2>3. Sending(0)
    BY <2>2 DEF Init, Sending, Unsent
  <2>4. Storing(0)
    BY <2>2 DEF Init, Storing, Relayed
  <2>5. Following(0, 0)
    BY <2>2 DEF Init, Following, Replaying, NoChunk, terminal
  <2>6. AwaitedViewer
    BY DEF Init, AwaitedViewer
  <2> QED BY <2>1, <2>3, <2>4, <2>5, <2>6 DEF Watched
<1>2. Watched /\ [Next]_vars => Watched'
  <2> SUFFICES ASSUME Watched, [Next]_vars PROVE Watched'
    OBVIOUS
  <2>1. Flushed'
    BY FlushedStep DEF Watched
  <2>2. ASSUME Undisturbed'
        PROVE  /\ AwaitedViewer'
               /\ \E r, e \in Nat :
                    Sending(r)' /\ Storing(r)' /\ (~vOvertaken' => Following(r, e)')
    <3>1. CASE Next
      <4>1. Undisturbed /\ ~NetworkDrop /\ ~ServerRestart
        BY <2>2, <3>1, StaysUndisturbed DEF Watched, Flushed
      <4>2. /\ Accounts /\ AwaitedFrame /\ Steady /\ Ending /\ AwaitedViewer
            /\ ServerType /\ NetType
        BY <4>1 DEF Watched, Flushed, Backstop, Accounts, TypeOK
      <4>3. PICK r, e \in Nat : Sending(r) /\ Storing(r) /\ (~vOvertaken => Following(r, e))
        BY <4>1 DEF Watched
      <4>4. HandleOutput \/ Quiet
        BY <3>1, <4>1, <4>2, StepQuiet
      <4>5. AwaitedViewer'
        BY <4>2, <4>4, AwaitedViewerStep
      <4>6. ~vOvertaken' => ~vOvertaken
        BY <4>2, <4>4, OvertakenStays
      <4>7. CASE HandleOutput
        <5>1. Sending(r + 1)' /\ Storing(r + 1)' /\ r + 1 \in Nat
          BY <4>2, <4>3, <4>7, OutputOrdered
        <5>2. ~vOvertaken' => Following(r + 1, e)' \/ Following(r + 1, r + 1)'
          BY <4>2, <4>3, <4>6, <4>7, FollowingOutput
        <5> QED BY <4>5, <5>1, <5>2
      <4>8. CASE Quiet
        <5>1. Sending(r)' /\ Storing(r)'
          BY <4>2, <4>3, <4>8, SendingStep, StoringStep
        <5>2. ~vOvertaken' => Following(r, e)' \/ Following(r, r)'
          BY <4>2, <4>3, <4>6, <4>8, FollowingStep
        <5> QED BY <4>5, <5>1, <5>2
      <4> QED BY <4>4, <4>7, <4>8
    <3>2. CASE UNCHANGED vars
      <4>1. /\ UNCHANGED <<drops, restarts, queue, vPc, vOvertaken, wire, held, next>>
            /\ UNCHANGED <<stored, evicted, lost, unseen, truncated, reported, early, batch>>
            /\ UNCHANGED <<vAfter, vStatus, vFlag, vSnap, vQueue, vDone, vLast, vBatch, vSeen>>
        BY <3>2 DEF vars, boundVars, serverVars, rowVars, historyVars, viewerVars, netVars,
           agentVars
      <4>2. Undisturbed /\ Relayed' = Relayed
        BY <2>2, <4>1 DEF Undisturbed, Relayed, Kept, InFlight
      <4>3. PICK r, e \in Nat : Sending(r) /\ Storing(r) /\ (~vOvertaken => Following(r, e))
        BY <4>2 DEF Watched
      <4>4. Sending(r)' /\ Storing(r)' /\ (~vOvertaken' => Following(r, e)')
        BY <4>1, <4>2, <4>3, SendingKept, StoringKept, FollowingKept
      <4>5. AwaitedViewer'
        BY <4>1, <4>2 DEF Watched, AwaitedViewer
      <4> QED BY <4>4, <4>5
    <3> QED BY <3>1, <3>2
  <2> QED BY <2>1, <2>2 DEF Watched
<1> QED BY <1>1, <1>2, PTL DEF Spec

\* The viewer of a pseudo-terminal, which has one stream, on an undisturbed
\* connection: whatever its replays, its reconnections, retention and failed
\* flushes, below its high-water mark, and everywhere once it was told of the end the
\* agent reported, it misses only what the replay could not see, what retention
\* removed and what the database refused; unless live output or retention overtook a
\* page.
THEOREM ViewedCorrect ==
  ASSUME OneStream
  PROVE  Spec => []ViewerMissesOnlyInFlight
<1>1. Watched => ViewerMissesOnlyInFlight
  <2> SUFFICES ASSUME Watched, Undisturbed, ~vOvertaken
               PROVE  0..(IF vPc = "ended" /\ ~early THEN next - 1 ELSE vLast) \subseteq Shown
    BY DEF ViewerMissesOnlyInFlight, Undisturbed, Shown
  <2>1. PICK r, e \in Nat : Sending(r) /\ Storing(r) /\ Following(r, e)
    BY DEF Watched
  <2>2. CASE vPc = "ended" /\ ~early
    <3>1. reported /\ Relayed \subseteq Shown
      BY <2>1, <2>2 DEF Following, terminal
    <3>2. wire = <<>> /\ Holding = {}
      BY <3>1 DEF Watched, Flushed, Ending
    <3>3. r = Unsent /\ Unsent = next
      BY <2>1, <3>2, HeadIsLast DEF Watched, Flushed, Backstop, Accounts, TypeOK, Unsent
    <3> QED BY <2>1, <2>2, <3>1, <3>3 DEF Storing
  <2>3. CASE ~(vPc = "ended" /\ ~early)
    BY <2>1, <2>3 DEF Following
  <2> QED BY <2>2, <2>3
<1> QED BY <1>1, WatchedInvariant, PTL
=============================================================================
