-------------------------- MODULE ConnectionHub_proofs --------------------------
(***************************************************************************)
(* Theorems about ConnectionHub, for any set of instances and commands and *)
(* any number of connections, failures, crashes and closes: types, what    *)
(* sendToAgent promises (its implementation of AgentDelivery included),    *)
(* and which connections stay routable.                                    *)
(***************************************************************************)
EXTENDS ConnectionHub, SequenceTheorems, TLAPS

-----------------------------------------------------------------------------
(* Queues: what a handler takes from the replies and the envelopes, and    *)
(* what it adds to them.                                                   *)

Greeting == {"attach", "attached", "heartbeat"}
Asking == {"owner", "again", "local", "publish"}

\* Two replies that are never awaited at once: those of one connection's frames, of
\* one call of sendToAgent, or of one attempt at the other end of the relay.
SameReply(a, b) ==
  \/ a.for \in Greeting /\ b.for \in Greeting /\ a.id = b.id
  \/ a.for \in Asking /\ b.for \in Asking /\ a.id = b.id
  \/ a.for = "relay" /\ b.for = "relay" /\ a.id.msg = b.id.msg /\ a.id.attempt = b.id.attempt

\* Two envelopes of one attempt: the message and its acknowledgement.
SameAttempt(a, b) ==
  /\ a.kind # "agent.close" /\ b.kind # "agent.close"
  /\ a.msg = b.msg /\ a.attempt = b.attempt

DistinctReplies(s) == \A n, p \in 1..Len(s) : n < p => ~ SameReply(s[n], s[p])
DistinctAttempts(s) == \A n, p \in 1..Len(s) : n < p => ~ SameAttempt(s[n], s[p])

\* The range of a queue after its head is taken, and after something is added.
LEMMA QueueRange ==
  ASSUME NEW S, NEW s \in Seq(S)
  PROVE  /\ s # <<>> => /\ Head(s) \in S /\ Head(s) \in Range(s) /\ Tail(s) \in Seq(S)
                        /\ Range(s) = Range(Tail(s)) \cup {Head(s)}
         /\ \A x \in S : Append(s, x) \in Seq(S) /\ Range(Append(s, x)) = Range(s) \cup {x}
         /\ Range(s) \subseteq S
  <1>1. Range(s) = {s[n] : n \in 1..Len(s)}
    BY RangeEquality
  <1>2. ASSUME s # <<>>
        PROVE  /\ Head(s) \in S /\ Head(s) \in Range(s) /\ Tail(s) \in Seq(S)
               /\ Range(s) = Range(Tail(s)) \cup {Head(s)}
    <2> DEFINE t == Tail(s)
    <2>1. /\ t \in Seq(S) /\ Head(s) = s[1] /\ Len(s) \in Nat /\ Len(s) > 0 /\ Len(t) = Len(s) - 1
          /\ \A n \in 1..Len(t) : t[n] = s[n + 1]
      BY <1>2, EmptySeq
    <2>2. Range(t) = {t[n] : n \in 1..Len(t)}
      BY <2>1, RangeEquality
    <2> HIDE DEF t
    <2>3. s[1] \in S /\ s[1] \in Range(s)
      BY <1>1, <2>1
    <2>4. \A x \in Range(t) : x \in Range(s)
      <3> SUFFICES ASSUME NEW n \in 1..Len(t) PROVE t[n] \in Range(s)
        BY <2>2
      <3>1. n + 1 \in 1..Len(s)
        BY <2>1
      <3> QED
        BY <1>1, <2>1, <3>1
    <2>5. \A x \in Range(s) : x = s[1] \/ x \in Range(t)
      <3> SUFFICES ASSUME NEW n \in 1..Len(s), n # 1 PROVE s[n] \in Range(t)
        BY <1>1
      <3>1. n - 1 \in 1..Len(t) /\ t[n - 1] = s[n]
        BY <2>1
      <3> QED
        BY <2>2, <3>1
    <2> QED
      BY <2>1, <2>3, <2>4, <2>5 DEF t
  <1>3. ASSUME NEW x \in S
        PROVE  Append(s, x) \in Seq(S) /\ Range(Append(s, x)) = Range(s) \cup {x}
    <2> DEFINE t == Append(s, x)
    <2>1. /\ t \in Seq(S) /\ Len(s) \in Nat /\ Len(t) = Len(s) + 1 /\ t[Len(t)] = x
          /\ \A n \in 1..Len(s) : t[n] = s[n]
      OBVIOUS
    <2>2. Range(t) = {t[n] : n \in 1..Len(t)}
      BY <2>1, RangeEquality
    <2> HIDE DEF t
    <2>3. \A y \in Range(t) : y \in Range(s) \/ y = x
      BY <1>1, <2>1, <2>2
    <2>4. x \in Range(t) /\ \A y \in Range(s) : y \in Range(t)
      BY <1>1, <2>1, <2>2
    <2> QED
      BY <2>1, <2>3, <2>4 DEF t
  <1>4. Range(s) \subseteq S
    BY <1>1
  <1> QED
    BY <1>2, <1>3, <1>4

\* The replies of an instance stay distinct when the oldest is handled, which none
\* of the others is the same as, and when one is added that none is the same as.
LEMMA DistinctKept ==
  ASSUME NEW S, NEW s \in Seq(S)
  PROVE  /\ s # <<>> /\ DistinctReplies(s) =>
              /\ DistinctReplies(Tail(s))
              /\ \A r \in Range(Tail(s)) : ~ SameReply(Head(s), r)
         /\ \A x \in S : DistinctReplies(s) /\ (\A r \in Range(s) : ~ SameReply(r, x)) =>
              DistinctReplies(Append(s, x))
         /\ s # <<>> /\ DistinctAttempts(s) =>
              /\ DistinctAttempts(Tail(s))
              /\ \A r \in Range(Tail(s)) : ~ SameAttempt(Head(s), r)
         /\ \A x \in S : DistinctAttempts(s) /\ (\A r \in Range(s) : ~ SameAttempt(r, x)) =>
              DistinctAttempts(Append(s, x))
  <1>1. Range(s) = {s[n] : n \in 1..Len(s)}
    BY RangeEquality
  <1>2. ASSUME s # <<>>
        PROVE  /\ DistinctReplies(s) => /\ DistinctReplies(Tail(s))
                                        /\ \A r \in Range(Tail(s)) : ~ SameReply(Head(s), r)
               /\ DistinctAttempts(s) => /\ DistinctAttempts(Tail(s))
                                         /\ \A r \in Range(Tail(s)) : ~ SameAttempt(Head(s), r)
    <2> DEFINE t == Tail(s)
    <2>1. /\ t \in Seq(S) /\ Head(s) = s[1] /\ Len(s) \in Nat /\ Len(s) > 0 /\ Len(t) = Len(s) - 1
          /\ \A n \in 1..Len(t) : t[n] = s[n + 1]
      BY <1>2, EmptySeq
    <2>2. Range(t) = {t[n] : n \in 1..Len(t)}
      BY <2>1, RangeEquality
    <2> HIDE DEF t
    <2>3. ASSUME NEW n \in 1..Len(t)
          PROVE  n + 1 \in 1..Len(s) /\ 1 < n + 1 /\ 1 \in 1..Len(s) /\ t[n] = s[n + 1]
      BY <2>1
    <2>4. \A n, p \in 1..Len(t) : n < p => n + 1 < p + 1
      BY <2>1
    <2>5. DistinctReplies(s) => DistinctReplies(t) /\ \A r \in Range(t) : ~ SameReply(Head(s), r)
      <3>1. DistinctReplies(s) => DistinctReplies(t)
        BY <2>3, <2>4 DEF DistinctReplies
      <3>2. DistinctReplies(s) => \A r \in Range(t) : ~ SameReply(Head(s), r)
        BY <2>1, <2>2, <2>3 DEF DistinctReplies
      <3> QED
        BY <3>1, <3>2
    <2>6. DistinctAttempts(s) =>
            DistinctAttempts(t) /\ \A r \in Range(t) : ~ SameAttempt(Head(s), r)
      <3>1. DistinctAttempts(s) => DistinctAttempts(t)
        BY <2>3, <2>4 DEF DistinctAttempts
      <3>2. DistinctAttempts(s) => \A r \in Range(t) : ~ SameAttempt(Head(s), r)
        BY <2>1, <2>2, <2>3 DEF DistinctAttempts
      <3> QED
        BY <3>1, <3>2
    <2> QED
      BY <2>5, <2>6 DEF t
  <1>3. ASSUME NEW x \in S
        PROVE  /\ DistinctReplies(s) /\ (\A r \in Range(s) : ~ SameReply(r, x)) =>
                    DistinctReplies(Append(s, x))
               /\ DistinctAttempts(s) /\ (\A r \in Range(s) : ~ SameAttempt(r, x)) =>
                    DistinctAttempts(Append(s, x))
    <2> DEFINE t == Append(s, x)
    <2>1. /\ Len(s) \in Nat /\ Len(t) = Len(s) + 1 /\ t[Len(t)] = x
          /\ \A n \in 1..Len(s) : t[n] = s[n]
      OBVIOUS
    <2> HIDE DEF t
    <2>2. \A n, p \in 1..Len(t) : n < p =>
            n \in 1..Len(s) /\ t[n] = s[n] /\ (p = Len(t) \/ (p \in 1..Len(s) /\ t[p] = s[p]))
      BY <2>1
    <2>3. DistinctReplies(s) /\ (\A r \in Range(s) : ~ SameReply(r, x)) => DistinctReplies(t)
      BY <1>1, <2>1, <2>2 DEF DistinctReplies
    <2>4. DistinctAttempts(s) /\ (\A r \in Range(s) : ~ SameAttempt(r, x)) => DistinctAttempts(t)
      BY <1>1, <2>1, <2>2 DEF DistinctAttempts
    <2> QED
      BY <2>3, <2>4 DEF t
  <1> QED
    BY <1>2, <1>3

\* The replies of instance i after a handler that took the replies H, the oldest or
\* none, and awaits the replies Y, one or none.
RepliesAfter(i, H, Y) ==
  /\ replies' \in [Instance -> Seq(Replies)]
  /\ \A j \in Instance : \A r \in Range(replies'[j]) :
       \/ r \in Range(replies[j]) /\ (j = i => \A h \in H : ~ SameReply(h, r))
       \/ j = i /\ r \in Y
  /\ \A j \in Instance : \A r \in Range(replies[j]) :
       r \in Range(replies'[j]) \/ (j = i /\ r \in H)
  /\ \A y \in Y : y \in Range(replies'[i])
  /\ (\A y \in Y : \A r \in Range(replies[i]) : (\A h \in H : ~ SameReply(h, r)) => ~ SameReply(r, y))
       => \A j \in Instance : DistinctReplies(replies'[j])

\* The same of the envelopes: H was taken from instance i, and Y published to the
\* instances that they are addressed to.
InboxAfter(i, H, Y) ==
  /\ inbox' \in [Instance -> Seq(Envelope)]
  /\ \A j \in Instance : \A e \in Range(inbox'[j]) :
       \/ e \in Range(inbox[j]) /\ (j = i => \A h \in H : ~ SameAttempt(h, e))
       \/ e \in Y /\ e.to = j
  /\ (\A y \in Y : \A e \in Range(inbox[y.to]) :
        (y.to = i => \A h \in H : ~ SameAttempt(h, e)) => ~ SameAttempt(e, y))
       => \A j \in Instance : DistinctAttempts(inbox'[j])

\* What is left of the replies of instance i when H was taken.
Rest(i, rest, H) ==
  \/ rest = replies[i] /\ H = {}
  \/ replies[i] # <<>> /\ rest = Tail(replies[i]) /\ H = {Head(replies[i])}

\* A handler takes H and awaits nothing, or y.
LEMMA RepliesStep ==
  ASSUME RedisType, \A j \in Instance : DistinctReplies(replies[j]),
         NEW i \in Instance, NEW rest, NEW H, Rest(i, rest, H)
  PROVE  /\ replies' = [replies EXCEPT ![i] = rest] => RepliesAfter(i, H, {})
         /\ \A y \in Replies : replies' = [replies EXCEPT ![i] = Append(rest, y)] =>
              RepliesAfter(i, H, {y})
  <1>t. replies \in [Instance -> Seq(Replies)] /\ replies[i] \in Seq(Replies)
    BY DEF RedisType
  <1>1. /\ rest \in Seq(Replies)
        /\ \A r \in Range(rest) : r \in Range(replies[i]) /\ \A h \in H : ~ SameReply(h, r)
        /\ \A r \in Range(replies[i]) : r \in Range(rest) \/ r \in H
        /\ DistinctReplies(rest)
    <2>1. CASE rest = replies[i] /\ H = {}
      BY <1>t, <2>1
    <2>2. CASE replies[i] # <<>> /\ rest = Tail(replies[i]) /\ H = {Head(replies[i])}
      BY <1>t, <2>2, QueueRange, DistinctKept
    <2> QED
      BY <2>1, <2>2 DEF Rest
  <1>2. ASSUME replies' = [replies EXCEPT ![i] = rest] PROVE RepliesAfter(i, H, {})
    <2>1. replies' \in [Instance -> Seq(Replies)] /\ replies'[i] = rest
      BY <1>t, <1>1, <1>2
    <2>2. \A j \in Instance : j # i => replies'[j] = replies[j]
      BY <1>t, <1>2
    <2> QED
      BY <1>1, <2>1, <2>2 DEF RepliesAfter
  <1>3. ASSUME NEW y \in Replies, replies' = [replies EXCEPT ![i] = Append(rest, y)]
        PROVE  RepliesAfter(i, H, {y})
    <2>1. Append(rest, y) \in Seq(Replies) /\ Range(Append(rest, y)) = Range(rest) \cup {y}
      BY <1>1, QueueRange
    <2>2. replies' \in [Instance -> Seq(Replies)] /\ replies'[i] = Append(rest, y)
      BY <1>t, <1>3, <2>1
    <2>3. \A j \in Instance : j # i => replies'[j] = replies[j]
      BY <1>t, <1>3
    <2>4. (\A r \in Range(rest) : ~ SameReply(r, y)) => DistinctReplies(Append(rest, y))
      BY <1>1, DistinctKept
    <2> HIDE DEF RepliesAfter
    <2>5. (\A r \in Range(replies[i]) : (\A h \in H : ~ SameReply(h, r)) => ~ SameReply(r, y))
            => \A j \in Instance : DistinctReplies(replies'[j])
      BY <1>1, <2>2, <2>3, <2>4
    <2> QED
      BY <1>1, <2>1, <2>2, <2>3, <2>5 DEF RepliesAfter
  <1> QED
    BY <1>2, <1>3

\* What is left of the envelopes when H was taken from those of instance i.
Box(i, box, H) ==
  \/ box = inbox /\ H = {}
  \/ inbox[i] # <<>> /\ box = [inbox EXCEPT ![i] = Tail(@)] /\ H = {Head(inbox[i])}

\* A handler takes H and publishes nothing, or y.
LEMMA InboxStep ==
  ASSUME RedisType, \A j \in Instance : DistinctAttempts(inbox[j]),
         NEW i \in Instance, NEW box, NEW H, Box(i, box, H)
  PROVE  /\ inbox' = box => InboxAfter(i, H, {})
         /\ \A y \in Envelope : y.to \in Instance /\ inbox' = [box EXCEPT ![y.to] = Append(@, y)] =>
              InboxAfter(i, H, {y})
  <1>t. inbox \in [Instance -> Seq(Envelope)]
    BY DEF RedisType
  <1>1. /\ box \in [Instance -> Seq(Envelope)]
        /\ \A j \in Instance :
             /\ \A e \in Range(box[j]) :
                  e \in Range(inbox[j]) /\ (j = i => \A h \in H : ~ SameAttempt(h, e))
             /\ DistinctAttempts(box[j])
    <2>1. CASE box = inbox /\ H = {}
      BY <1>t, <2>1
    <2>2. CASE inbox[i] # <<>> /\ box = [inbox EXCEPT ![i] = Tail(@)] /\ H = {Head(inbox[i])}
      <3>1. inbox[i] \in Seq(Envelope) /\ Tail(inbox[i]) \in Seq(Envelope)
        BY <1>t, <2>2, QueueRange
      <3>2. box \in [Instance -> Seq(Envelope)] /\ box[i] = Tail(inbox[i])
        BY <1>t, <2>2, <3>1
      <3>3. \A j \in Instance : j # i => box[j] = inbox[j]
        BY <1>t, <2>2
      <3>4. \A e \in Range(box[i]) : e \in Range(inbox[i]) /\ \A h \in H : ~ SameAttempt(h, e)
        BY <2>2, <3>1, <3>2, QueueRange, DistinctKept
      <3>5. DistinctAttempts(box[i])
        BY <2>2, <3>1, <3>2, DistinctKept
      <3> QED
        BY <3>2, <3>3, <3>4, <3>5
    <2> QED
      BY <2>1, <2>2 DEF Box
  <1>2. inbox' = box => InboxAfter(i, H, {})
    BY <1>1 DEF InboxAfter
  <1>3. ASSUME NEW y \in Envelope, y.to \in Instance, inbox' = [box EXCEPT ![y.to] = Append(@, y)]
        PROVE  InboxAfter(i, H, {y})
    <2> DEFINE to == y.to
    <2>1. /\ Append(box[to], y) \in Seq(Envelope)
          /\ Range(Append(box[to], y)) = Range(box[to]) \cup {y}
      BY <1>1, <1>3, QueueRange
    <2>2. inbox' \in [Instance -> Seq(Envelope)] /\ inbox'[to] = Append(box[to], y)
      BY <1>1, <1>3, <2>1
    <2>3. \A j \in Instance : j # to => inbox'[j] = box[j]
      BY <1>1, <1>3
    <2>4. (\A e \in Range(box[to]) : ~ SameAttempt(e, y)) => DistinctAttempts(Append(box[to], y))
      BY <1>1, <1>3, DistinctKept
    <2>5. (\A e \in Range(inbox[to]) : (to = i => \A h \in H : ~ SameAttempt(h, e)) => ~ SameAttempt(e, y))
            => \A j \in Instance : DistinctAttempts(inbox'[j])
      BY <1>1, <1>3, <2>2, <2>3, <2>4
    <2>6. \A j \in Instance : \A e \in Range(inbox'[j]) :
            \/ e \in Range(inbox[j]) /\ (j = i => \A h \in H : ~ SameAttempt(h, e))
            \/ e \in {y} /\ e.to = j
      BY <1>1, <1>3, <2>1, <2>2, <2>3
    <2> QED
      BY <2>2, <2>5, <2>6 DEF InboxAfter
  <1> QED
    BY <1>2, <1>3

\* A reply that is awaited as "for" and "id": the value of a command that was about
\* connection conn, or nothing.
Pledge(y, for, id, conn, val) ==
  /\ y \in Replies
  /\ y.for = for
  /\ y.id = id
  /\ y.conn = conn
  /\ y.val \in {None, val}

\* Call: one reply is awaited, and the command has been executed or not.
LEMMA CallAwaits ==
  ASSUME RedisType, \A j \in Instance : DistinctReplies(replies[j]),
         NEW i \in Instance, NEW rest, NEW H, Rest(i, rest, H),
         NEW box, NEW op \in {"get", "publish", "claim", "touch", "release"}, NEW arg,
         NEW for, NEW id, for # "none",
         op \in {"claim", "touch", "release"} => arg \in Connection,
         \/ for \in Greeting \cup {"detach"} /\ id \in Connection
         \/ for \in Asking /\ id \in Message
         \/ for = "relay" /\ id \in Envelope
         \/ for \in {"close", "shutdown"} /\ id = None,
         Call(i, rest, box, op, arg, for, id)
  PROVE  \E y : /\ Pledge(y, for, id, IF op \in {"get", "publish"} THEN None ELSE arg, Value(op, arg))
                /\ RepliesAfter(i, H, {y})
                /\ y.ok => Execute(op, arg, box)
  <1> DEFINE conn == IF op \in {"get", "publish"} THEN None ELSE arg
             reply(ok) == [for |-> for, id |-> id, ok |-> ok, conn |-> conn,
                           val |-> IF ok THEN Value(op, arg) ELSE None]
  <1>1. PICK ok \in BOOLEAN : /\ replies' = [replies EXCEPT ![i] = Append(rest, reply(ok))]
                              /\ ok => Execute(op, arg, box)
    BY DEF Call
  <1>2. Value(op, arg) \in Connection \cup {None}
    BY DEF Value, Owns, RedisType
  <1>3. conn \in Connection \cup {None}
    OBVIOUS
  <1>4. \A v \in Connection \cup {None} :
          [for |-> for, id |-> id, ok |-> ok, conn |-> conn, val |-> v] \in Replies
    <2> HIDE DEF conn
    <2> SUFFICES ASSUME NEW v \in Connection \cup {None}
                 PROVE  [for |-> for, id |-> id, ok |-> ok, conn |-> conn, val |-> v] \in Replies
      OBVIOUS
    <2>1. CASE for \in Greeting \cup {"detach"} /\ id \in Connection
      BY <1>3, <2>1 DEF Replies, Greeting
    <2>2. CASE for \in Asking /\ id \in Message
      BY <1>3, <2>2 DEF Replies, Asking
    <2>3. CASE for = "relay" /\ id \in Envelope
      BY <1>3, <2>3 DEF Replies
    <2>4. CASE for \in {"close", "shutdown"} /\ id = None
      BY <1>3, <2>4 DEF Replies
    <2> QED
      BY <2>1, <2>2, <2>3, <2>4
  <1>5. reply(ok) \in Replies
    BY <1>2, <1>4 DEF None
  <1>6. RepliesAfter(i, H, {reply(ok)})
    BY <1>1, <1>5, RepliesStep
  <1>7. Pledge(reply(ok), for, id, conn, Value(op, arg))
    BY <1>5 DEF Pledge
  <1>8. reply(ok).ok => Execute(op, arg, box)
    BY <1>1
  <1> QED
    BY <1>6, <1>7, <1>8

\* What a command does to Redis.
LEMMA CallEffect ==
  ASSUME NEW i, NEW rest, NEW box, NEW op, NEW arg, NEW for, NEW id,
         op = "release" => arg # None,
         Call(i, rest, box, op, arg, for, id)
  PROVE  /\ op \in {"get", "touch"} => inbox' = box /\ UNCHANGED <<presence, claimed>>
         /\ op = "publish" =>
              /\ UNCHANGED <<presence, claimed>>
              /\ \/ inbox' = box
                 \/ up[arg.to] = "up" /\ inbox' = [box EXCEPT ![arg.to] = Append(@, arg)]
         /\ op = "claim" =>
              /\ inbox' = box
              /\ UNCHANGED <<presence, claimed>> \/ (presence' = arg /\ claimed' = Append(claimed, arg))
         /\ op = "release" =>
              /\ inbox' = box
              /\ claimed' = claimed
              /\ presence' = presence \/ (presence = arg /\ presence' = None)
  <1>1. Execute(op, arg, box) \/ (inbox' = box /\ UNCHANGED <<presence, claimed>>)
    BY DEF Call
  <1>2. ASSUME Execute(op, arg, box), op \in {"get", "touch", "publish"}
        PROVE  UNCHANGED <<presence, claimed>>
    BY <1>2 DEF Execute, Presence
  <1>3. ASSUME Execute(op, arg, box), op = "claim"
        PROVE  presence' = arg /\ claimed' = Append(claimed, arg)
    BY <1>3 DEF Execute, Presence
  <1>4. ASSUME Execute(op, arg, box), op = "release"
        PROVE  claimed' = claimed /\ (presence' = presence \/ (presence = arg /\ presence' = None))
    BY <1>4 DEF Execute, Presence, Owns
  <1>5. ASSUME Execute(op, arg, box)
        PROVE  /\ op # "publish" => inbox' = box
               /\ \/ inbox' = box
                  \/ up[arg.to] = "up" /\ inbox' = [box EXCEPT ![arg.to] = Append(@, arg)]
    BY <1>5 DEF Execute
  <1> QED
    BY <1>1, <1>2, <1>3, <1>4, <1>5

\* The replies that something may await.
Awaitable(for, id) ==
  \/ for \in Greeting \cup {"detach"} /\ id \in Connection
  \/ for \in Asking /\ id \in Message
  \/ for = "relay" /\ id \in Envelope
  \/ for \in {"close", "shutdown"} /\ id = None

\* GET and the touch: the reply is the owner, or the connection itself if it is that.
LEMMA CallReads ==
  ASSUME RedisType, \A j \in Instance : DistinctReplies(replies[j]),
         NEW i \in Instance, NEW rest, NEW H, Rest(i, rest, H), NEW box, NEW for, NEW id,
         Awaitable(for, id)
  PROVE  /\ Call(i, rest, box, "get", None, for, id) =>
              /\ \E y : Pledge(y, for, id, None, presence) /\ RepliesAfter(i, H, {y})
              /\ inbox' = box /\ UNCHANGED <<presence, claimed>>
         /\ \A c \in Connection : Call(i, rest, box, "touch", c, for, id) =>
              /\ \E y : Pledge(y, for, id, c, Owns(c)) /\ RepliesAfter(i, H, {y})
              /\ inbox' = box /\ UNCHANGED <<presence, claimed>>
         /\ \A c \in Connection : Call(i, rest, box, "release", c, for, id) =>
              /\ \E y : Pledge(y, for, id, c, Owns(c)) /\ RepliesAfter(i, H, {y})
              /\ inbox' = box /\ claimed' = claimed
              /\ presence' = presence \/ (presence = c /\ presence' = None)
         /\ \A e : Call(i, rest, box, "publish", e, for, id) =>
              \E y : Pledge(y, for, id, None, None) /\ RepliesAfter(i, H, {y})
  <1>f. for # "none"
    BY DEF Awaitable, Greeting, Asking
  <1>v. /\ Value("get", None) = presence
        /\ \A c : Value("touch", c) = Owns(c) /\ Value("release", c) = Owns(c)
        /\ \A e : Value("publish", e) = None
    BY DEF Value
  <1>1. ASSUME Call(i, rest, box, "get", None, for, id)
        PROVE  /\ \E y : Pledge(y, for, id, None, presence) /\ RepliesAfter(i, H, {y})
               /\ inbox' = box /\ UNCHANGED <<presence, claimed>>
    <2>1. \E y : Pledge(y, for, id, IF "get" \in {"get", "publish"} THEN None ELSE None, Value("get", None))
                 /\ RepliesAfter(i, H, {y})
      BY <1>f, <1>1, CallAwaits DEF Awaitable
    <2> QED
      BY <1>1, <1>v, <2>1, CallEffect
  <1>2. ASSUME NEW c \in Connection, Call(i, rest, box, "touch", c, for, id)
        PROVE  /\ \E y : Pledge(y, for, id, c, Owns(c)) /\ RepliesAfter(i, H, {y})
               /\ inbox' = box /\ UNCHANGED <<presence, claimed>>
    <2>1. \E y : Pledge(y, for, id, IF "touch" \in {"get", "publish"} THEN None ELSE c, Value("touch", c))
                 /\ RepliesAfter(i, H, {y})
      BY <1>f, <1>2, CallAwaits DEF Awaitable
    <2> QED
      BY <1>2, <1>v, <2>1, CallEffect
  <1>3. ASSUME NEW c \in Connection, Call(i, rest, box, "release", c, for, id)
        PROVE  /\ \E y : Pledge(y, for, id, c, Owns(c)) /\ RepliesAfter(i, H, {y})
               /\ inbox' = box /\ claimed' = claimed
               /\ presence' = presence \/ (presence = c /\ presence' = None)
    <2>1. \E y : Pledge(y, for, id, IF "release" \in {"get", "publish"} THEN None ELSE c, Value("release", c))
                 /\ RepliesAfter(i, H, {y})
      BY <1>f, <1>3, CallAwaits DEF Awaitable
    <2>2. c # None
      BY HubAssumption DEF Connection, None
    <2> QED
      BY <1>3, <1>v, <2>1, <2>2, CallEffect
  <1>4. ASSUME NEW e, Call(i, rest, box, "publish", e, for, id)
        PROVE  \E y : Pledge(y, for, id, None, None) /\ RepliesAfter(i, H, {y})
    <2>1. \E y : Pledge(y, for, id, IF "publish" \in {"get", "publish"} THEN None ELSE e, Value("publish", e))
                 /\ RepliesAfter(i, H, {y})
      BY <1>f, <1>4, CallAwaits DEF Awaitable
    <2> QED
      BY <1>v, <2>1
  <1> QED
    BY <1>1, <1>2, <1>3, <1>4

\* PUBLISH: the envelope is in the inbox it is addressed to, or nowhere.
LEMMA CallPublishes ==
  ASSUME RedisType, \A j \in Instance : DistinctAttempts(inbox[j]),
         NEW i \in Instance, NEW rest, NEW box, NEW H, Box(i, box, H), NEW for, NEW id,
         NEW e \in Envelope, e.to \in Instance, Call(i, rest, box, "publish", e, for, id)
  PROVE  /\ UNCHANGED <<presence, claimed>>
         /\ InboxAfter(i, H, {}) \/ InboxAfter(i, H, {e})
  <1>1. UNCHANGED <<presence, claimed>> /\
          (inbox' = box \/ inbox' = [box EXCEPT ![e.to] = Append(@, e)])
    BY CallEffect
  <1>2. InboxAfter(i, H, {}) \/ InboxAfter(i, H, {e})
    BY <1>1, InboxStep
  <1> QED
    BY <1>1, <1>2

-----------------------------------------------------------------------------
(* The invariant of the handlers                                           *)

Busy == Asking \cup {"wait"}

\* The state in which a hello or a heartbeat awaits its reply.
FrameOf(for) == CASE for = "attach" -> "claim"
                  [] for = "attached" -> "publish"
                  [] for = "heartbeat" -> "touch"

\* A connection that anything refers to has been dialled, and the entry of an
\* instance is one of its own.
ConnInv ==
  /\ \A c \in Connection : sock[c] # "unused" <=> host[c] \in Instance
  /\ \A c \in Connection : frame[c] # "new" => sock[c] # "unused"
  /\ presence # None => sock[presence] # "unused"
  /\ \A i \in Instance : agents[i] # None => host[agents[i]] = i
  /\ \A i \in Instance : \A r \in Range(replies[i]) : r.val # None => sock[r.val] # "unused"

\* A reply finds its handler as the command left it.
Awaited(i, r) ==
  /\ r.for \in Greeting => host[r.id] = i /\ frame[r.id] = FrameOf(r.for)
  /\ r.for = "heartbeat" => r.conn = r.id
  /\ r.for = "detach" => host[r.id] = i /\ sock[r.id] = "closed"
  /\ r.for \in Asking => asks[r.id].at = i /\ asks[r.id].pc = r.for
  /\ r.for = "local" => r.conn = asks[r.id].owner /\ r.conn # None /\ host[r.conn] = i
  /\ r.for = "relay" => /\ r.id.kind = "agent.send"
                        /\ r.conn = r.id.conn
                        /\ host[r.conn] = i
                        /\ asks[r.id.msg].at = r.id.from

AwaitInv ==
  \A i \in Instance :
    /\ DistinctReplies(replies[i])
    /\ \A r \in Range(replies[i]) : Awaited(i, r)

\* A call of sendToAgent is made once, the one of the welcome by the hello's handler;
\* an envelope comes from the instance that called.
AskInv ==
  /\ \A m \in Message : asks[m].pc = "idle" <=> asks[m].at = None
  /\ \A c \in Connection :
       /\ frame[c] \in {"new", "claim", "publish"} => asks[Welcome(c)].pc = "idle"
       /\ asks[Welcome(c)].pc \in Busy => frame[c] = "welcome" /\ asks[Welcome(c)].at = host[c]
  /\ \A i \in Instance : \A e \in Range(inbox[i]) :
       e.kind = "agent.send" => asks[e.msg].at = e.from

HasEnvelope(s, m, k) ==
  \E e \in Range(s) : e.kind # "agent.close" /\ e.msg = m /\ e.attempt = k

HasReply(s, m, k) ==
  \E r \in Range(s) : r.for = "relay" /\ r.id.msg = m /\ r.id.attempt = k

\* What the relay has of an attempt is in one place at a time.
ApartInv ==
  /\ \A i \in Instance : DistinctAttempts(inbox[i])
  /\ \A i, j \in Instance : \A m \in Message : \A k \in 0..1 :
       /\ i # j => ~ (HasEnvelope(inbox[i], m, k) /\ HasEnvelope(inbox[j], m, k))
       /\ i # j => ~ (HasReply(replies[i], m, k) /\ HasReply(replies[j], m, k))
       /\ ~ (HasEnvelope(inbox[i], m, k) /\ HasReply(replies[j], m, k))

Base == TypeOK /\ ConnInv /\ AwaitInv /\ AskInv /\ ApartInv

-----------------------------------------------------------------------------
(* The effects of the handlers' steps: what each does to the queues, with  *)
(* the failures of Redis in it.                                            *)

\* The call of message m, and no other, is now as these say.
AskAfter(m, pc, at, owner, attempt, ack) ==
  /\ asks' \in [Message -> Ask]
  /\ \A x \in Message : x # m => asks'[x] = asks[x]
  /\ asks'[m].pc = pc
  /\ asks'[m].at = at
  /\ asks'[m].owner = owner
  /\ asks'[m].attempt = attempt
  /\ asks'[m].ack = ack

AskStates == {"idle", "owner", "local", "publish", "wait", "again", "sent", "unsent", "lost"}
Acks == {"open", "sent", "unsent"}

LEMMA AskStep ==
  ASSUME InstanceType, NEW m \in Message, NEW pc \in AskStates
  PROVE  /\ \A at \in Instance, owner \in Connection, attempt \in 0..1, ack \in Acks :
              asks' = [asks EXCEPT ![m] = [pc |-> pc, at |-> at, owner |-> owner,
                                           attempt |-> attempt, ack |-> ack]] =>
                AskAfter(m, pc, at, owner, attempt, ack)
         /\ \A at \in Instance : asks' = [asks EXCEPT ![m].pc = pc, ![m].at = at] =>
              AskAfter(m, pc, at, asks[m].owner, asks[m].attempt, asks[m].ack)
         /\ \A ack \in Acks : asks' = [asks EXCEPT ![m].pc = pc, ![m].ack = ack] =>
              AskAfter(m, pc, asks[m].at, asks[m].owner, asks[m].attempt, ack)
         /\ asks' = [asks EXCEPT ![m].pc = pc] =>
              AskAfter(m, pc, asks[m].at, asks[m].owner, asks[m].attempt, asks[m].ack)
         /\ \A ack \in Acks : asks' = [asks EXCEPT ![m].ack = ack] =>
              AskAfter(m, asks[m].pc, asks[m].at, asks[m].owner, asks[m].attempt, ack)
  <1>t. asks \in [Message -> Ask] /\ asks[m] \in Ask
    BY DEF InstanceType
  <1>1. ASSUME NEW at \in Instance, NEW owner \in Connection, NEW attempt \in 0..1, NEW ack \in Acks,
               asks' = [asks EXCEPT ![m] = [pc |-> pc, at |-> at, owner |-> owner,
                                            attempt |-> attempt, ack |-> ack]]
        PROVE  AskAfter(m, pc, at, owner, attempt, ack)
    BY <1>t, <1>1 DEF AskAfter, Ask, AskStates, Acks
  <1>2. ASSUME NEW at \in Instance, asks' = [asks EXCEPT ![m].pc = pc, ![m].at = at]
        PROVE  AskAfter(m, pc, at, asks[m].owner, asks[m].attempt, asks[m].ack)
    BY <1>t, <1>2 DEF AskAfter, Ask, AskStates, Acks
  <1>3. ASSUME NEW ack \in Acks, asks' = [asks EXCEPT ![m].pc = pc, ![m].ack = ack]
        PROVE  AskAfter(m, pc, asks[m].at, asks[m].owner, asks[m].attempt, ack)
    BY <1>t, <1>3 DEF AskAfter, Ask, AskStates, Acks
  <1>4. ASSUME asks' = [asks EXCEPT ![m].pc = pc]
        PROVE  AskAfter(m, pc, asks[m].at, asks[m].owner, asks[m].attempt, asks[m].ack)
    BY <1>t, <1>4 DEF AskAfter, Ask, AskStates, Acks
  <1>5. ASSUME NEW ack \in Acks, asks' = [asks EXCEPT ![m].ack = ack]
        PROVE  AskAfter(m, asks[m].pc, asks[m].at, asks[m].owner, asks[m].attempt, ack)
    BY <1>t, <1>5 DEF AskAfter, Ask, AskStates, Acks
  <1> QED
    BY <1>1, <1>2, <1>3, <1>4, <1>5

\* Instance i handles its oldest reply h, awaited as "for".
Handles(i, h, for) ==
  /\ h \in Range(replies[i]) /\ h \in Replies
  /\ h.for = for
  /\ Awaited(i, h)

LEMMA ReplyHandled ==
  ASSUME Base, NEW i \in Instance, NEW for, Reply(i, for)
  PROVE  /\ Handles(i, Head(replies[i]), for)
         /\ Rest(i, Tail(replies[i]), {Head(replies[i])})
         /\ replies' = [replies EXCEPT ![i] = Tail(replies[i])] =>
              RepliesAfter(i, {Head(replies[i])}, {})
  <1>1. replies[i] \in Seq(Replies) /\ replies[i] # <<>>
    BY DEF Base, TypeOK, RedisType, Reply
  <1>2. Rest(i, Tail(replies[i]), {Head(replies[i])})
    BY <1>1 DEF Rest
  <1>3. \A j \in Instance : DistinctReplies(replies[j])
    BY DEF Base, AwaitInv
  <1>4. Head(replies[i]) \in Range(replies[i]) /\ Head(replies[i]) \in Replies
    BY <1>1, QueueRange
  <1> QED
    BY <1>2, <1>3, <1>4, RepliesStep DEF Base, TypeOK, Handles, AwaitInv, Reply

\* A reply is handled that was awaited for a connection, a message or an envelope.
LEMMA HandledType ==
  ASSUME NEW i, NEW h, NEW for, Handles(i, h, for)
  PROVE  /\ h.val \in Connection \cup {None} /\ h.conn \in Connection \cup {None}
         /\ h.ok \in BOOLEAN
         /\ for \in Greeting \cup {"detach"} => h.id \in Connection
         /\ for \in Asking => h.id \in Message
         /\ for = "relay" => h.id \in Envelope
  BY DEF Handles, Replies, Greeting, Asking

\* A message of the routes is not a welcome.
LEMMA MessageKinds ==
  /\ \A c \in Connection : Welcome(c) \in Message /\ Welcome(c)[1] = "welcome" /\ Welcome(c)[2] = c
  /\ \A m \in Message : m[1] # "command" => m[2] \in Connection /\ m = Welcome(m[2])
  /\ \A m \in Message : m[1] = "command" => \A c \in Connection : m # Welcome(c)
  /\ \A m \in Message : m[1] \in {"welcome", "command"}
  BY DEF Message, Welcome

\* attachAgent up to the claim.
AttachEffect(c, y) ==
  /\ Alive(c) /\ frame[c] = "new" /\ host[c] \in Instance
  /\ frame' = [frame EXCEPT ![c] = "claim"]
  /\ prior' = [prior EXCEPT ![c] = agents[host[c]]]
  /\ Pledge(y, "attach", c, c, presence)
  /\ RepliesAfter(host[c], {}, {y})
  /\ UNCHANGED <<presence, claimed>> \/ (presence' = c /\ claimed' = Append(claimed, c))
  /\ y.ok => claimed' = Append(claimed, c)
  /\ UNCHANGED <<sock, host, closing, up, agents, asks, inbox, written, since, doubtful, struck>>

LEMMA AttachStep ==
  ASSUME Base, NEW c \in Connection, AttachAgent(c)
  PROVE  \E y : AttachEffect(c, y)
  <1>1. host[c] \in Instance /\ \A j \in Instance : DistinctReplies(replies[j])
    BY DEF AttachAgent, Alive, Base, ConnInv, AwaitInv
  <1>2. Call(host[c], replies[host[c]], inbox, "claim", c, "attach", c)
    BY DEF AttachAgent
  <1>3. Value("claim", c) = presence
    BY DEF Value
  <1>a. /\ RedisType /\ Rest(host[c], replies[host[c]], {})
        /\ "attach" \in Greeting \cup {"detach"}
    BY DEF Base, TypeOK, Rest, Greeting
  <1>b. \E y : /\ Pledge(y, "attach", c, IF "claim" \in {"get", "publish"} THEN None ELSE c,
                         Value("claim", c))
               /\ RepliesAfter(host[c], {}, {y})
               /\ y.ok => Execute("claim", c, inbox)
    BY <1>1, <1>2, <1>a, CallAwaits
  <1>4. PICK y : /\ Pledge(y, "attach", c, c, presence) /\ RepliesAfter(host[c], {}, {y})
                 /\ y.ok => Execute("claim", c, inbox)
    BY <1>3, <1>b
  <1>6. y.ok => claimed' = Append(claimed, c)
    BY <1>4 DEF Execute
  <1>5. inbox' = inbox /\ (UNCHANGED <<presence, claimed>> \/ (presence' = c /\ claimed' = Append(claimed, c)))
    BY <1>2, CallEffect
  <1> QED
    BY <1>1, <1>4, <1>5, <1>6 DEF AttachAgent, AttachEffect, instanceVars

\* The connection of the hello becomes the entry, in the place of whatever was.
Enters(i, c) ==
  /\ agents' = [agents EXCEPT ![i] = c]
  /\ sock' = Closed({prior[c]})
  /\ struck' = struck \cup ({agents[i]} \ {None, c, prior[c]})
  /\ prior' = [prior EXCEPT ![c] = None]

\* attachAgent from a failed claim.
RefuseEffect(i, h) ==
  /\ Handles(i, h, "attach")
  /\ prior' = [prior EXCEPT ![h.id] = None]
  /\ frame' = [frame EXCEPT ![h.id] = "refused"]
  /\ sock' = Closed({h.id})
  /\ RepliesAfter(i, {h}, {})
  /\ UNCHANGED <<host, closing, up, agents, asks, presence, inbox, written, claimed, since,
                 doubtful, struck>>

\* ... from a claim that found an owner on another instance.
ReplaceEffect(i, h, y, Y) ==
  /\ Handles(i, h, "attach") /\ h.ok
  /\ h.val # None
  /\ Enters(i, h.id)
  /\ frame' = [frame EXCEPT ![h.id] = "publish"]
  /\ Pledge(y, "attached", h.id, None, None)
  /\ RepliesAfter(i, {h}, {y})
  /\ Y \subseteq {CloseEnvelope(h.val)} /\ CloseEnvelope(h.val) \in Envelope
  /\ InboxAfter(i, {}, Y)
  /\ UNCHANGED <<host, closing, up, asks, presence, written, claimed, since, doubtful>>

\* ... from any other, or from the publish: the welcome.
WelcomeEffect(i, h, y) ==
  /\ \/ Handles(i, h, "attach") /\ h.ok /\ Enters(i, h.id)
     \/ Handles(i, h, "attached") /\ UNCHANGED <<agents, sock, struck, prior>>
  /\ frame' = [frame EXCEPT ![h.id] = "welcome"]
  /\ AskAfter(Welcome(h.id), "owner", i, asks[Welcome(h.id)].owner,
              asks[Welcome(h.id)].attempt, asks[Welcome(h.id)].ack)
  /\ since' = [since EXCEPT ![Welcome(h.id)] = Len(claimed)]
  /\ Pledge(y, "owner", Welcome(h.id), None, presence)
  /\ RepliesAfter(i, {h}, {y})
  /\ UNCHANGED <<host, closing, up, presence, inbox, written, claimed, doubtful>>

LEMMA SendWelcomeStep ==
  ASSUME Base, NEW i \in Instance, NEW c \in Connection, NEW rest, NEW H, Rest(i, rest, H),
         SendWelcome(i, c, rest)
  PROVE  /\ AskAfter(Welcome(c), "owner", i, asks[Welcome(c)].owner,
                     asks[Welcome(c)].attempt, asks[Welcome(c)].ack)
         /\ UNCHANGED <<presence, inbox, claimed>>
         /\ \E y : Pledge(y, "owner", Welcome(c), None, presence) /\ RepliesAfter(i, H, {y})
  <1>1. \A j \in Instance : DistinctReplies(replies[j])
    BY DEF Base, AwaitInv
  <1>2. Call(i, rest, inbox, "get", None, "owner", Welcome(c))
    BY DEF SendWelcome
  <1>3. Welcome(c) \in Message /\ Awaitable("owner", Welcome(c))
    BY MessageKinds DEF Awaitable, Asking
  <1>4. /\ \E y : Pledge(y, "owner", Welcome(c), None, presence) /\ RepliesAfter(i, H, {y})
        /\ UNCHANGED <<presence, inbox, claimed>>
    BY <1>1, <1>2, <1>3, CallReads DEF Base, TypeOK
  <1>5. asks' = [asks EXCEPT ![Welcome(c)].pc = "owner", ![Welcome(c)].at = i]
    BY DEF SendWelcome
  <1>6. AskAfter(Welcome(c), "owner", i, asks[Welcome(c)].owner,
                 asks[Welcome(c)].attempt, asks[Welcome(c)].ack)
    BY <1>3, <1>5, AskStep DEF Base, TypeOK, AskStates
  <1> QED
    BY <1>4, <1>6

LEMMA AttachedStep ==
  ASSUME Base, NEW i \in Instance, Attached(i)
  PROVE  \E h : RefuseEffect(i, h) \/ (\E y, Y : ReplaceEffect(i, h, y, Y)) \/ \E y : WelcomeEffect(i, h, y)
  <1> DEFINE h == Head(replies[i])
  <1>h. /\ Handles(i, h, "attach") /\ Rest(i, Tail(replies[i]), {h})
        /\ replies' = [replies EXCEPT ![i] = Tail(replies[i])] => RepliesAfter(i, {h}, {})
    BY ReplyHandled DEF Attached
  <1>c. h.id \in Connection /\ h.val \in Connection \cup {None}
    BY <1>h, HandledType DEF Greeting
  <1>d. \A j \in Instance : DistinctReplies(replies[j]) /\ DistinctAttempts(inbox[j])
    BY DEF Base, AwaitInv, ApartInv
  <1> HIDE DEF h
  <1>1. CASE ~ h.ok
    <2>1. RefuseEffect(i, h)
      BY <1>h, <1>1 DEF Attached, RefuseEffect, NoCall, h
    <2> QED
      BY <2>1
  <1>2. CASE h.ok /\ h.val # None /\ host[h.val] # i
    <2> DEFINE e == CloseEnvelope(h.val)
    <2>1. /\ Call(i, Tail(replies[i]), inbox, "publish", e, "attached", h.id)
          /\ Enters(i, h.id)
          /\ frame' = [frame EXCEPT ![h.id] = "publish"]
          /\ UNCHANGED <<host, closing, up, asks, written, since, doubtful>>
      BY <1>2 DEF Attached, Enters, h
    <2>2. PICK y : Pledge(y, "attached", h.id, None, None) /\ RepliesAfter(i, {h}, {y})
      BY <1>h, <1>c, <1>d, <2>1, CallReads DEF Base, TypeOK, Awaitable, Greeting
    <2>3. host[h.val] \in Instance
      BY <1>h, <1>2, <1>c DEF Base, ConnInv, Handles
    <2>4. e \in Envelope /\ e.to = host[h.val]
      BY <1>2, <1>c, <2>3 DEF CloseEnvelope, Envelope
    <2>b. Box(i, inbox, {}) /\ RedisType /\ \A j \in Instance : DistinctAttempts(inbox[j])
      BY <1>d DEF Box, Base, TypeOK
    <2>5. UNCHANGED <<presence, claimed>> /\ (InboxAfter(i, {}, {}) \/ InboxAfter(i, {}, {e}))
      <3> HIDE DEF e
      <3> QED
        BY <2>1, <2>3, <2>4, <2>b, CallPublishes
    <2>6. PICK Y : Y \subseteq {e} /\ InboxAfter(i, {}, Y)
      BY <2>5
    <2>7. ReplaceEffect(i, h, y, Y)
      BY <1>h, <1>2, <2>1, <2>2, <2>4, <2>5, <2>6 DEF ReplaceEffect
    <2> QED
      BY <2>7
  <1>3. CASE h.ok /\ ~ (h.val # None /\ host[h.val] # i)
    <2>1. /\ SendWelcome(i, h.id, Tail(replies[i]))
          /\ Enters(i, h.id)
          /\ UNCHANGED <<host, closing, up, written, doubtful>>
      BY <1>3 DEF Attached, Enters, h
    <2>2. PICK y : Pledge(y, "owner", Welcome(h.id), None, presence) /\ RepliesAfter(i, {h}, {y})
      BY <1>h, <1>c, <2>1, SendWelcomeStep
    <2>3. /\ AskAfter(Welcome(h.id), "owner", i, asks[Welcome(h.id)].owner,
                      asks[Welcome(h.id)].attempt, asks[Welcome(h.id)].ack)
          /\ UNCHANGED <<presence, inbox, claimed>>
      BY <1>h, <1>c, <2>1, SendWelcomeStep
    <2>4. WelcomeEffect(i, h, y)
      BY <1>h, <1>3, <2>1, <2>2, <2>3 DEF WelcomeEffect, SendWelcome
    <2> QED
      BY <2>4
  <1> QED
    BY <1>1, <1>2, <1>3, <1>h, HandledType

LEMMA ClosePublishedStep ==
  ASSUME Base, NEW i \in Instance, ClosePublished(i)
  PROVE  \E h, y : WelcomeEffect(i, h, y)
  <1> DEFINE h == Head(replies[i])
  <1>h. Handles(i, h, "attached") /\ Rest(i, Tail(replies[i]), {h})
    BY ReplyHandled DEF ClosePublished
  <1>c. h.id \in Connection
    BY <1>h, HandledType DEF Greeting
  <1>1. /\ SendWelcome(i, h.id, Tail(replies[i]))
        /\ UNCHANGED <<sock, host, closing, prior, up, agents, written, doubtful, struck>>
    BY DEF ClosePublished
  <1> HIDE DEF h
  <1>2. PICK y : Pledge(y, "owner", Welcome(h.id), None, presence) /\ RepliesAfter(i, {h}, {y})
    BY <1>h, <1>c, <1>1, SendWelcomeStep
  <1>3. /\ AskAfter(Welcome(h.id), "owner", i, asks[Welcome(h.id)].owner,
                    asks[Welcome(h.id)].attempt, asks[Welcome(h.id)].ack)
        /\ UNCHANGED <<presence, inbox, claimed>>
    BY <1>h, <1>c, <1>1, SendWelcomeStep
  <1>4. WelcomeEffect(i, h, y)
    BY <1>h, <1>1, <1>2, <1>3 DEF WelcomeEffect, SendWelcome
  <1> QED
    BY <1>4

\* A heartbeat up to the touch.
HeartbeatEffect(c, y) ==
  /\ Alive(c) /\ frame[c] = "idle" /\ host[c] \in Instance /\ agents[host[c]] = c
  /\ frame' = [frame EXCEPT ![c] = "touch"]
  /\ Pledge(y, "heartbeat", c, c, Owns(c))
  /\ RepliesAfter(host[c], {}, {y})
  /\ UNCHANGED <<sock, host, closing, prior, up, agents, asks, presence, inbox, written, claimed,
                 since, doubtful, struck>>

LEMMA HeartbeatStep ==
  ASSUME Base, NEW c \in Connection, Heartbeat(c)
  PROVE  \E y : HeartbeatEffect(c, y)
  <1>1. host[c] \in Instance /\ \A j \in Instance : DistinctReplies(replies[j])
    BY DEF Heartbeat, Alive, Base, ConnInv, AwaitInv
  <1>2. Call(host[c], replies[host[c]], inbox, "touch", c, "heartbeat", c)
    BY DEF Heartbeat
  <1>3. Rest(host[c], replies[host[c]], {}) /\ Awaitable("heartbeat", c)
    BY DEF Rest, Awaitable, Greeting
  <1>4. /\ \E y : Pledge(y, "heartbeat", c, c, Owns(c)) /\ RepliesAfter(host[c], {}, {y})
        /\ UNCHANGED <<inbox, presence, claimed>>
    BY <1>1, <1>2, <1>3, CallReads DEF Base, TypeOK
  <1> QED
    BY <1>1, <1>4 DEF Heartbeat, HeartbeatEffect, instanceVars

\* An entry is deleted by a handler of connection c, which is closed.
Strikes(i, c) == Deleted(i, c) /\ sock' = Closed({c})

\* ... from the touch.
BeatEffect(i, h) ==
  /\ Handles(i, h, "heartbeat")
  /\ frame' = [frame EXCEPT ![h.id] = "idle"]
  /\ UNCHANGED <<agents, struck, sock>> \/ Strikes(i, h.id)
  /\ RepliesAfter(i, {h}, {})
  /\ UNCHANGED <<host, closing, prior, up, asks, presence, inbox, written, claimed, since, doubtful>>

LEMMA BeatStep ==
  ASSUME Base, NEW i \in Instance, HeartbeatTouched(i)
  PROVE  \E h : BeatEffect(i, h)
  <1>1. BeatEffect(i, Head(replies[i]))
    BY ReplyHandled DEF HeartbeatTouched, BeatEffect, NoCall, Strikes
  <1> QED
    BY <1>1

\* The close event, without a release ...
CloseOverEffect(c) ==
  /\ closing' = [closing EXCEPT ![c] = "over"]
  /\ UNCHANGED <<sock, host, frame, prior, up, agents, asks, presence, replies, inbox, written,
                 claimed, since, doubtful, struck>>

\* ... or up to it.
CloseEffect(c, y) ==
  /\ sock[c] = "closed" /\ host[c] \in Instance
  /\ closing' = [closing EXCEPT ![c] = "detach"]
  /\ Pledge(y, "detach", c, c, Owns(c))
  /\ RepliesAfter(host[c], {}, {y})
  /\ presence' = presence \/ (presence = c /\ presence' = None)
  /\ UNCHANGED <<sock, host, frame, prior, up, agents, asks, inbox, written, claimed, since,
                 doubtful, struck>>

LEMMA CloseStep ==
  ASSUME Base, NEW c \in Connection, CloseEvent(c)
  PROVE  CloseOverEffect(c) \/ \E y : CloseEffect(c, y)
  <1> DEFINE detach == frame[c] \in {"welcome", "idle", "touch"} /\ agents[host[c]] = c
  <1>1. host[c] \in Instance /\ \A j \in Instance : DistinctReplies(replies[j])
    BY DEF CloseEvent, Base, ConnInv, AwaitInv
  <1>2. CASE detach
    <2>1. Call(host[c], replies[host[c]], inbox, "release", c, "detach", c)
      BY <1>2 DEF CloseEvent
    <2>2. Rest(host[c], replies[host[c]], {}) /\ Awaitable("detach", c)
      BY DEF Rest, Awaitable
    <2>3. /\ \E y : Pledge(y, "detach", c, c, Owns(c)) /\ RepliesAfter(host[c], {}, {y})
          /\ inbox' = inbox /\ claimed' = claimed
          /\ presence' = presence \/ (presence = c /\ presence' = None)
      BY <1>1, <2>1, <2>2, CallReads DEF Base, TypeOK
    <2> QED
      BY <1>1, <1>2, <2>3 DEF CloseEvent, CloseEffect, instanceVars
  <1>3. CASE ~ detach
    <2>1. replies' = replies
      BY <1>1, <1>3 DEF CloseEvent, NoCall, Base, TypeOK, RedisType
    <2> QED
      BY <1>3, <2>1 DEF CloseEvent, NoCall, CloseOverEffect, instanceVars
  <1> QED
    BY <1>2, <1>3

\* ... and from the release.
DetachEffect(i, h) ==
  /\ Handles(i, h, "detach")
  /\ closing' = [closing EXCEPT ![h.id] = "over"]
  /\ UNCHANGED <<agents, struck>> \/ Deleted(i, h.id)
  /\ RepliesAfter(i, {h}, {})
  /\ UNCHANGED <<sock, host, frame, prior, up, asks, presence, inbox, written, claimed, since,
                 doubtful>>

LEMMA DetachStep ==
  ASSUME Base, NEW i \in Instance, DetachAgent(i)
  PROVE  \E h : DetachEffect(i, h)
  <1>1. DetachEffect(i, Head(replies[i]))
    BY ReplyHandled DEF DetachAgent, DetachEffect, NoCall
  <1> QED
    BY <1>1

\* A call of sendToAgent by a route, up to the GET.
SendEffect(i, m, y) ==
  /\ m[1] = "command" /\ asks[m].pc = "idle"
  /\ AskAfter(m, "owner", i, asks[m].owner, asks[m].attempt, asks[m].ack)
  /\ since' = [since EXCEPT ![m] = Len(claimed)]
  /\ Pledge(y, "owner", m, None, presence)
  /\ RepliesAfter(i, {}, {y})
  /\ UNCHANGED <<sock, host, frame, closing, prior, up, agents, presence, inbox, written, claimed,
                 doubtful, struck>>

LEMMA SendStep ==
  ASSUME Base, NEW i \in Instance, NEW m \in Message, SendToAgent(i, m)
  PROVE  \E y : SendEffect(i, m, y)
  <1>1. \A j \in Instance : DistinctReplies(replies[j])
    BY DEF Base, AwaitInv
  <1>2. Rest(i, replies[i], {}) /\ Awaitable("owner", m)
    BY DEF Rest, Awaitable, Asking
  <1>3. Call(i, replies[i], inbox, "get", None, "owner", m)
    BY DEF SendToAgent
  <1>4. /\ \E y : Pledge(y, "owner", m, None, presence) /\ RepliesAfter(i, {}, {y})
        /\ UNCHANGED <<presence, inbox, claimed>>
    BY <1>1, <1>2, <1>3, CallReads DEF Base, TypeOK
  <1>5. AskAfter(m, "owner", i, asks[m].owner, asks[m].attempt, asks[m].ack)
    BY AskStep DEF SendToAgent, Base, TypeOK, AskStates
  <1> QED
    BY <1>4, <1>5 DEF SendToAgent, SendEffect, socketVars

\* The frame of a connection whose welcome was answered is over.
FrameAfter(m) == frame' = IF m[1] = "welcome" THEN [frame EXCEPT ![m[2]] = "idle"] ELSE frame

\* The owner was read: the loop ends ...
GiveUpEffect(i, h) ==
  /\ Handles(i, h, "owner") \/ Handles(i, h, "again")
  /\ AskAfter(h.id, "unsent", i, asks[h.id].owner, asks[h.id].attempt, "open")
  /\ FrameAfter(h.id)
  /\ sock' = Closed(IF h.id[1] = "welcome" THEN {h.id[2]} ELSE {})
  /\ RepliesAfter(i, {h}, {})
  /\ UNCHANGED <<host, closing, prior, up, agents, presence, inbox, written, claimed, since,
                 doubtful, struck>>

\* ... or attempt k is made: the first, or the second with another owner.
Tries(i, h, k, pc) ==
  /\ \/ Handles(i, h, "owner") /\ k = 0
     \/ Handles(i, h, "again") /\ k = 1 /\ asks[h.id].attempt = 0 /\ h.val # asks[h.id].owner
  /\ h.val \in Connection /\ host[h.val] \in Instance
  /\ AskAfter(h.id, pc, i, h.val, k, "open")
  /\ UNCHANGED <<sock, host, frame, closing, prior, up, agents, presence, written, claimed, since,
                 doubtful, struck>>

LocalEffect(i, h, k, y) ==
  /\ Tries(i, h, k, "local")
  /\ host[h.val] = i
  /\ Pledge(y, "local", h.id, h.val, Owns(h.val))
  /\ RepliesAfter(i, {h}, {y})
  /\ inbox' = inbox

MissEffect(i, h, k, y) ==
  /\ Tries(i, h, k, "again")
  /\ Pledge(y, "again", h.id, None, presence)
  /\ RepliesAfter(i, {h}, {y})
  /\ inbox' = inbox

RemoteEffect(i, h, k, y, Y) ==
  /\ Tries(i, h, k, "publish")
  /\ host[h.val] # i
  /\ Pledge(y, "publish", h.id, None, None)
  /\ RepliesAfter(i, {h}, {y})
  /\ Y \subseteq {SendEnvelope(i, h.val, h.id, k)} /\ SendEnvelope(i, h.val, h.id, k) \in Envelope
  /\ InboxAfter(i, {}, Y)

LEMMA OwnerStep ==
  ASSUME Base, NEW i \in Instance, NEW for \in {"owner", "again"}, OwnerRead(i, for)
  PROVE  \E h : \/ GiveUpEffect(i, h)
                \/ \E k, y : LocalEffect(i, h, k, y) \/ MissEffect(i, h, k, y)
                \/ \E k, y, Y : RemoteEffect(i, h, k, y, Y)
  <1> DEFINE h == Head(replies[i])
             k == IF for = "owner" THEN 0 ELSE 1
             rest == Tail(replies[i])
  <1>h. /\ Handles(i, h, for) /\ Rest(i, Tail(replies[i]), {h})
        /\ replies' = [replies EXCEPT ![i] = Tail(replies[i])] => RepliesAfter(i, {h}, {})
    BY ReplyHandled DEF OwnerRead
  <1>c. h.id \in Message /\ h.val \in Connection \cup {None} /\ asks[h.id].at = i
    BY <1>h, HandledType DEF Asking, Handles, Awaited
  <1>d. /\ \A j \in Instance : DistinctReplies(replies[j]) /\ DistinctAttempts(inbox[j])
        /\ RedisType /\ InstanceType
    BY DEF Base, AwaitInv, ApartInv, TypeOK
  <1>o. /\ IF GivesUp(h, h.id)
             THEN /\ Answer(h.id, "unsent")
                  /\ sock' = Closed(IF h.id[1] = "welcome" THEN {h.id[2]} ELSE {})
                  /\ NoCall(i, rest)
             ELSE /\ Attempt(i, h.id, h.val, k, rest)
                  /\ UNCHANGED <<frame, sock>>
        /\ UNCHANGED <<host, closing, prior, up, agents, written, since, doubtful, struck>>
    BY DEF OwnerRead
  <1>k. k \in 0..1 /\ (for = "owner" => k = 0) /\ (for = "again" => k = 1)
    OBVIOUS
  <1> HIDE DEF h, k, rest
  <1>1. CASE GivesUp(h, h.id)
    <2>1. AskAfter(h.id, "unsent", i, asks[h.id].owner, asks[h.id].attempt, "open")
      BY <1>1, <1>c, <1>d, <1>o, AskStep DEF Answer, AskStates, Acks
    <2>2. GiveUpEffect(i, h)
      BY <1>1, <1>h, <1>o, <2>1 DEF GiveUpEffect, Answer, FrameAfter, NoCall, rest
    <2> QED
      BY <2>2
  <1>2. CASE ~ GivesUp(h, h.id)
    <2>1. /\ h.val \in Connection
          /\ for = "again" => h.val # asks[h.id].owner /\ asks[h.id].attempt = 0
      BY <1>2, <1>c, <1>d, <1>h DEF GivesUp, Succeeded, Handles, InstanceType, Ask
    <2>2. host[h.val] \in Instance
      BY <1>h, <2>1, HubAssumption DEF Base, ConnInv, Handles, Connection, None
    <2>3. ASSUME NEW pc \in AskStates,
                 asks' = [asks EXCEPT ![h.id] = [pc |-> pc, at |-> i, owner |-> h.val,
                                                 attempt |-> k, ack |-> "open"]],
                 UNCHANGED <<presence, claimed>>
          PROVE  Tries(i, h, k, pc)
      <3>1. AskAfter(h.id, pc, i, h.val, k, "open")
        BY <1>c, <1>d, <1>k, <2>1, <2>3, AskStep DEF Acks
      <3> QED
        BY <1>2, <1>h, <1>k, <1>o, <2>1, <2>2, <2>3, <3>1 DEF Tries
    <2>4. CASE /\ host[h.val] = i
               /\ asks' = [asks EXCEPT ![h.id] = [pc |-> "local", at |-> i, owner |-> h.val,
                                                  attempt |-> k, ack |-> "open"]]
               /\ Call(i, rest, inbox, "touch", h.val, "local", h.id)
      <3>1. /\ \E y : Pledge(y, "local", h.id, h.val, Owns(h.val)) /\ RepliesAfter(i, {h}, {y})
            /\ UNCHANGED <<inbox, presence, claimed>>
        BY <1>c, <1>d, <1>h, <2>1, <2>4, CallReads DEF Awaitable, Asking, rest
      <3>2. Tries(i, h, k, "local")
        BY <2>3, <2>4, <3>1 DEF AskStates
      <3>3. \E y : LocalEffect(i, h, k, y)
        BY <2>4, <3>1, <3>2 DEF LocalEffect
      <3> QED
        BY <3>3
    <2>5. CASE /\ asks' = [asks EXCEPT ![h.id] = [pc |-> "again", at |-> i, owner |-> h.val,
                                                  attempt |-> k, ack |-> "open"]]
               /\ Call(i, rest, inbox, "get", None, "again", h.id)
      <3>1. /\ \E y : Pledge(y, "again", h.id, None, presence) /\ RepliesAfter(i, {h}, {y})
            /\ UNCHANGED <<inbox, presence, claimed>>
        BY <1>c, <1>d, <1>h, <2>5, CallReads DEF Awaitable, Asking, rest
      <3>2. Tries(i, h, k, "again")
        BY <2>3, <2>5, <3>1 DEF AskStates
      <3>3. \E y : MissEffect(i, h, k, y)
        BY <3>1, <3>2 DEF MissEffect
      <3> QED
        BY <3>3
    <2>6. CASE /\ host[h.val] # i
               /\ asks' = [asks EXCEPT ![h.id] = [pc |-> "publish", at |-> i, owner |-> h.val,
                                                  attempt |-> k, ack |-> "open"]]
               /\ Call(i, rest, inbox, "publish", SendEnvelope(i, h.val, h.id, k), "publish", h.id)
      <3> DEFINE e == SendEnvelope(i, h.val, h.id, k)
      <3>1. e \in Envelope /\ e.to \in Instance
        BY <1>c, <1>k, <2>1, <2>2 DEF SendEnvelope, Envelope
      <3>2. Call(i, rest, inbox, "publish", e, "publish", h.id)
        BY <2>6
      <3> HIDE DEF e
      <3>3. \E y : Pledge(y, "publish", h.id, None, None) /\ RepliesAfter(i, {h}, {y})
        BY <1>c, <1>d, <1>h, <3>2, CallReads DEF Awaitable, Asking, rest
      <3>4. Box(i, inbox, {}) /\ RedisType /\ \A j \in Instance : DistinctAttempts(inbox[j])
        BY <1>d DEF Box
      <3>5. UNCHANGED <<presence, claimed>> /\ (InboxAfter(i, {}, {}) \/ InboxAfter(i, {}, {e}))
        BY <3>1, <3>2, <3>4, CallPublishes
      <3>y. \E Y : Y \subseteq {e} /\ InboxAfter(i, {}, Y)
        BY <3>5
      <3>6. Tries(i, h, k, "publish")
        BY <2>3, <2>6, <3>5 DEF AskStates
      <3>7. \E y, Y : RemoteEffect(i, h, k, y, Y)
        BY <2>6, <3>1, <3>3, <3>y, <3>6 DEF RemoteEffect, e
      <3> QED
        BY <3>7
    <2> QED
      BY <1>2, <1>o, <2>4, <2>5, <2>6 DEF Attempt, ReadAgain
  <1> QED
    BY <1>1, <1>2

\* sendToOwnedLocalAgent from the touch: the message is written ...
WriteEffect(i, h) ==
  /\ Handles(i, h, "local")
  /\ written' = [written EXCEPT ![h.id] = Append(@, h.conn)]
  /\ AskAfter(h.id, "sent", i, asks[h.id].owner, asks[h.id].attempt, "open")
  /\ FrameAfter(h.id)
  /\ RepliesAfter(i, {h}, {})
  /\ UNCHANGED <<sock, host, closing, prior, up, agents, presence, inbox, claimed, since, doubtful,
                 struck>>

\* ... or the owner read again.
RetryEffect(i, h, y) ==
  /\ Handles(i, h, "local")
  /\ UNCHANGED <<agents, struck, sock>> \/ Strikes(i, h.conn)
  /\ AskAfter(h.id, "again", i, asks[h.id].owner, asks[h.id].attempt, asks[h.id].ack)
  /\ Pledge(y, "again", h.id, None, presence)
  /\ RepliesAfter(i, {h}, {y})
  /\ UNCHANGED <<host, frame, closing, prior, up, presence, inbox, written, claimed, since, doubtful>>

LEMMA LocalStep ==
  ASSUME Base, NEW i \in Instance, LocalTouched(i)
  PROVE  \E h : WriteEffect(i, h) \/ \E y : RetryEffect(i, h, y)
  <1> DEFINE h == Head(replies[i])
             rest == Tail(replies[i])
  <1>h. /\ Handles(i, h, "local") /\ Rest(i, Tail(replies[i]), {h})
        /\ replies' = [replies EXCEPT ![i] = Tail(replies[i])] => RepliesAfter(i, {h}, {})
    BY ReplyHandled DEF LocalTouched
  <1>c. h.id \in Message /\ asks[h.id].at = i
    BY <1>h, HandledType DEF Asking, Handles, Awaited
  <1>d. /\ \A j \in Instance : DistinctReplies(replies[j])
        /\ RedisType /\ InstanceType
    BY DEF Base, AwaitInv, TypeOK
  <1>o. /\ Touched(i, h, h.id)
        /\ IF Writes(h)
             THEN Answer(h.id, "sent") /\ NoCall(i, rest)
             ELSE /\ asks' = [asks EXCEPT ![h.id].pc = "again"]
                  /\ ReadAgain(i, h.id, rest)
                  /\ UNCHANGED frame
        /\ UNCHANGED <<host, closing, prior, up, since, doubtful>>
    BY DEF LocalTouched
  <1> HIDE DEF h, rest
  <1>1. CASE Writes(h)
    <2>1. AskAfter(h.id, "sent", i, asks[h.id].owner, asks[h.id].attempt, "open")
      BY <1>1, <1>c, <1>d, <1>o, AskStep DEF Answer, AskStates, Acks
    <2>2. WriteEffect(i, h)
      BY <1>1, <1>h, <1>o, <2>1 DEF WriteEffect, Answer, FrameAfter, NoCall, rest, Touched, Writes
    <2> QED
      BY <2>2
  <1>2. CASE ~ Writes(h)
    <2>1. AskAfter(h.id, "again", i, asks[h.id].owner, asks[h.id].attempt, asks[h.id].ack)
      BY <1>2, <1>c, <1>d, <1>o, AskStep DEF AskStates
    <2>2. Call(i, rest, inbox, "get", None, "again", h.id)
      BY <1>2, <1>o DEF ReadAgain
    <2>3. /\ \E y : Pledge(y, "again", h.id, None, presence) /\ RepliesAfter(i, {h}, {y})
          /\ UNCHANGED <<inbox, presence, claimed>>
      BY <1>c, <1>d, <1>h, <2>2, CallReads DEF Awaitable, Asking, rest
    <2>4. (UNCHANGED <<agents, struck, sock>> \/ Strikes(i, h.conn)) /\ written' = written
      BY <1>2, <1>o DEF Touched, Strikes
    <2>5. \E y : RetryEffect(i, h, y)
      BY <1>2, <1>h, <1>o, <2>1, <2>3, <2>4 DEF RetryEffect
    <2> QED
      BY <2>5
  <1> QED
    BY <1>1, <1>2

\* sendToRemoteAgent from the publish.
PublishedEffect(i, h, ack) ==
  /\ Handles(i, h, "publish")
  /\ AskAfter(h.id, "wait", i, asks[h.id].owner, asks[h.id].attempt, ack)
  /\ \/ ack = asks[h.id].ack /\ doubtful' = doubtful
     \/ asks[h.id].ack = "open" /\ ack = "unsent" /\ doubtful' = doubtful \cup {h.id}
  /\ RepliesAfter(i, {h}, {})
  /\ UNCHANGED <<sock, host, frame, closing, prior, up, agents, presence, inbox, written, claimed,
                 since, struck>>

LEMMA PublishedStep ==
  ASSUME Base, NEW i \in Instance, SendPublished(i)
  PROVE  \E h, ack : PublishedEffect(i, h, ack)
  <1> DEFINE h == Head(replies[i])
             broken == ~ h.ok /\ Pending(h.id)
             ack == IF broken THEN "unsent" ELSE asks[h.id].ack
  <1>h. /\ Handles(i, h, "publish")
        /\ replies' = [replies EXCEPT ![i] = Tail(replies[i])] => RepliesAfter(i, {h}, {})
    BY ReplyHandled DEF SendPublished
  <1>c. h.id \in Message /\ asks[h.id].at = i /\ asks[h.id] \in Ask /\ InstanceType
    BY <1>h, HandledType DEF Asking, Handles, Awaited, Base, TypeOK, InstanceType
  <1>o. /\ asks' = [asks EXCEPT ![h.id].pc = "wait", ![h.id].ack = IF broken THEN "unsent" ELSE @]
        /\ doubtful' = IF broken THEN doubtful \cup {h.id} ELSE doubtful
        /\ NoCall(i, Tail(replies[i]))
        /\ UNCHANGED <<socketVars, up, agents, written, since, struck>>
    BY DEF SendPublished
  <1> HIDE DEF h
  <1>1. ack \in Acks
    BY <1>c DEF Ask, Acks
  <1>2. asks' = [asks EXCEPT ![h.id].pc = "wait", ![h.id].ack = ack]
    BY <1>o, <1>c DEF InstanceType, Ask
  <1> HIDE DEF broken, ack
  <1>3. AskAfter(h.id, "wait", i, asks[h.id].owner, asks[h.id].attempt, ack)
    BY <1>1, <1>2, <1>c, AskStep DEF AskStates
  <1>4. PublishedEffect(i, h, ack)
    BY <1>h, <1>o, <1>3 DEF PublishedEffect, NoCall, socketVars, broken, ack, Pending
  <1> QED
    BY <1>4

\* The acknowledgement times out.
TimeoutEffect(m) ==
  /\ Pending(m)
  /\ AskAfter(m, asks[m].pc, asks[m].at, asks[m].owner, asks[m].attempt, "unsent")
  /\ doubtful' = doubtful \cup {m}
  /\ UNCHANGED <<sock, host, frame, closing, prior, up, agents, presence, replies, inbox, written,
                 claimed, since, struck>>

LEMMA TimeoutStep ==
  ASSUME Base, NEW m \in Message, AckTimeout(m)
  PROVE  TimeoutEffect(m)
  <1>1. asks[m] \in Ask /\ InstanceType
    BY DEF Base, TypeOK, InstanceType
  <1>2. "idle" \in AskStates /\ "unsent" \in Acks
    BY DEF AskStates, Acks
  <1>3. AskAfter(m, asks[m].pc, asks[m].at, asks[m].owner, asks[m].attempt, "unsent")
    BY <1>1, <1>2, AskStep DEF AckTimeout
  <1> QED
    BY <1>3 DEF AckTimeout, TimeoutEffect, socketVars, redisVars

\* sendToAgent from the acknowledgement: the answer ...
AnswerEffect(m) ==
  /\ asks[m].pc = "wait" /\ asks[m].ack = "sent"
  /\ AskAfter(m, "sent", asks[m].at, asks[m].owner, asks[m].attempt, "open")
  /\ FrameAfter(m)
  /\ UNCHANGED <<sock, host, closing, prior, up, agents, presence, replies, inbox, written, claimed,
                 since, doubtful, struck>>

\* ... or the owner read again.
ReaskEffect(m, y) ==
  /\ asks[m].pc = "wait" /\ asks[m].ack = "unsent" /\ asks[m].at \in Instance
  /\ AskAfter(m, "again", asks[m].at, asks[m].owner, asks[m].attempt, "unsent")
  /\ Pledge(y, "again", m, None, presence)
  /\ RepliesAfter(asks[m].at, {}, {y})
  /\ UNCHANGED <<sock, host, frame, closing, prior, up, agents, presence, inbox, written, claimed,
                 since, doubtful, struck>>

LEMMA AcknowledgedStep ==
  ASSUME Base, NEW m \in Message, Acknowledged(m)
  PROVE  AnswerEffect(m) \/ \E y : ReaskEffect(m, y)
  <1>1. /\ asks[m] \in Ask /\ InstanceType /\ RedisType
        /\ \A j \in Instance : DistinctReplies(replies[j])
    BY DEF Base, TypeOK, InstanceType, AwaitInv
  <1>2. asks[m].at \in Instance
    BY <1>1 DEF Acknowledged, Base, AskInv, Ask
  <1>3. CASE asks[m].ack = "sent"
    <2>1. AskAfter(m, "sent", asks[m].at, asks[m].owner, asks[m].attempt, "open")
      BY <1>1, <1>3, AskStep DEF Acknowledged, Answer, AskStates, Acks
    <2>2. replies' = replies
      BY <1>1, <1>3, <1>2 DEF Acknowledged, NoCall, RedisType
    <2> QED
      BY <1>3, <2>1, <2>2 DEF Acknowledged, AnswerEffect, NoCall, Answer, FrameAfter
  <1>4. CASE asks[m].ack # "sent"
    <2>1. asks[m].ack = "unsent"
      BY <1>1, <1>4 DEF Acknowledged, Ask
    <2>2. AskAfter(m, "again", asks[m].at, asks[m].owner, asks[m].attempt, asks[m].ack)
      BY <1>1, <1>4, AskStep DEF Acknowledged, AskStates
    <2>3. Call(asks[m].at, replies[asks[m].at], inbox, "get", None, "again", m)
      BY <1>4 DEF Acknowledged, ReadAgain
    <2>4. Rest(asks[m].at, replies[asks[m].at], {}) /\ Awaitable("again", m)
      BY DEF Rest, Awaitable, Asking
    <2>5. /\ \E y : Pledge(y, "again", m, None, presence) /\ RepliesAfter(asks[m].at, {}, {y})
          /\ UNCHANGED <<presence, inbox, claimed>>
      BY <1>1, <1>2, <2>3, <2>4, CallReads
    <2> QED
      BY <1>2, <1>4, <2>1, <2>2, <2>5 DEF Acknowledged, ReaskEffect
  <1> QED
    BY <1>3, <1>4

\* A command whose reply nobody awaits.
LEMMA CallSilent ==
  ASSUME NEW i, NEW rest, NEW box, NEW op, NEW arg, NEW id,
         Call(i, rest, box, op, arg, "none", id)
  PROVE  replies' = [replies EXCEPT ![i] = rest]
  BY DEF Call

\* Instance i takes envelope e.
Takes(i, e, kind) ==
  /\ e \in Range(inbox[i]) /\ e \in Envelope
  /\ e.kind = kind

LEMMA EnvelopeTaken ==
  ASSUME Base, NEW i \in Instance, inbox[i] # <<>>
  PROVE  /\ Takes(i, Head(inbox[i]), Head(inbox[i]).kind)
         /\ Box(i, [inbox EXCEPT ![i] = Tail(@)], {Head(inbox[i])})
         /\ inbox' = [inbox EXCEPT ![i] = Tail(@)] => InboxAfter(i, {Head(inbox[i])}, {})
  <1>1. inbox[i] \in Seq(Envelope) /\ RedisType /\ \A j \in Instance : DistinctAttempts(inbox[j])
    BY DEF Base, TypeOK, RedisType, ApartInv
  <1>2. Box(i, [inbox EXCEPT ![i] = Tail(@)], {Head(inbox[i])})
    BY DEF Box
  <1>3. Head(inbox[i]) \in Range(inbox[i]) /\ Head(inbox[i]) \in Envelope
    BY <1>1, QueueRange
  <1> QED
    BY <1>1, <1>2, <1>3, InboxStep DEF Takes

LEMMA EnvelopeType ==
  ASSUME NEW e \in Envelope
  PROVE  /\ e.to \in Instance
         /\ e.kind # "relay.ack" => e.conn \in Connection
         /\ e.kind # "agent.close" => e.msg \in Message /\ e.attempt \in 0..1
         /\ e.kind = "agent.send" => e.from \in Instance
         /\ e.kind = "relay.ack" => e.ack \in {"sent", "unsent"}
         /\ e.kind \in {"agent.send", "agent.close", "relay.ack"}
  BY DEF Envelope

\* The acknowledgement of envelope e.
AckOf(e, r) ==
  [kind |-> "relay.ack", to |-> e.from, msg |-> e.msg, attempt |-> e.attempt, ack |-> r]

\* handleRelayMessage: agent.send for the entry, up to the touch, ...
DeliverEffect(i, e, y) ==
  /\ Takes(i, e, "agent.send")
  /\ agents[i] = e.conn
  /\ Pledge(y, "relay", e, e.conn, Owns(e.conn))
  /\ RepliesAfter(i, {}, {y})
  /\ InboxAfter(i, {e}, {})
  /\ UNCHANGED <<sock, host, frame, closing, prior, up, agents, asks, presence, written, claimed,
                 since, doubtful, struck>>

\* ... agent.send for another connection, ...
RejectEffect(i, e, Y) ==
  /\ Takes(i, e, "agent.send")
  /\ Y \subseteq {AckOf(e, "unsent")} /\ AckOf(e, "unsent") \in Envelope
  /\ InboxAfter(i, {e}, Y)
  /\ UNCHANGED <<sock, host, frame, closing, prior, up, agents, asks, presence, replies, written,
                 claimed, since, doubtful, struck>>

\* ... agent.close, ...
ExpelEffect(i, e) ==
  /\ Takes(i, e, "agent.close")
  /\ sock' = sock \/ sock' = Closed({e.conn})
  /\ InboxAfter(i, {e}, {})
  /\ UNCHANGED <<host, frame, closing, prior, up, agents, asks, presence, replies, written, claimed,
                 since, doubtful, struck>>

\* ... and relay.ack.
HearEffect(i, e) ==
  /\ Takes(i, e, "relay.ack")
  /\ \/ asks' = asks
     \/ /\ Pending(e.msg) /\ asks[e.msg].attempt = e.attempt
        /\ AskAfter(e.msg, asks[e.msg].pc, asks[e.msg].at, asks[e.msg].owner,
                    asks[e.msg].attempt, e.ack)
  /\ InboxAfter(i, {e}, {})
  /\ UNCHANGED <<sock, host, frame, closing, prior, up, agents, presence, replies, written, claimed,
                 since, doubtful, struck>>

LEMMA RelayStep ==
  ASSUME Base, NEW i \in Instance, HandleRelayMessage(i)
  PROVE  \E e : \/ \E y : DeliverEffect(i, e, y)
                \/ \E Y : RejectEffect(i, e, Y)
                \/ ExpelEffect(i, e) \/ HearEffect(i, e)
  <1> DEFINE e == Head(inbox[i])
             box == [inbox EXCEPT ![i] = Tail(@)]
  <1>e. /\ Takes(i, e, e.kind) /\ Box(i, box, {e})
        /\ inbox' = box => InboxAfter(i, {e}, {})
    BY EnvelopeTaken DEF HandleRelayMessage
  <1>d. /\ \A j \in Instance : DistinctReplies(replies[j])
        /\ \A j \in Instance : DistinctAttempts(inbox[j])
        /\ RedisType /\ InstanceType
    BY DEF Base, AwaitInv, ApartInv, TypeOK
  <1>o. /\ \/ /\ e.kind = "agent.send"
              /\ IF agents[i] = e.conn THEN Call(i, replies[i], box, "touch", e.conn, "relay", e)
                                       ELSE Acknowledge(i, replies[i], box, e, "unsent")
              /\ UNCHANGED <<sock, asks>>
           \/ /\ e.kind = "agent.close"
              /\ sock' = IF agents[i] = e.conn THEN Closed({e.conn}) ELSE sock
              /\ inbox' = box
              /\ UNCHANGED <<asks, replies, presence, claimed>>
           \/ /\ e.kind = "relay.ack"
              /\ asks' = IF Pending(e.msg) /\ asks[e.msg].attempt = e.attempt
                           THEN [asks EXCEPT ![e.msg].ack = e.ack] ELSE asks
              /\ inbox' = box
              /\ UNCHANGED <<sock, replies, presence, claimed>>
        /\ UNCHANGED <<host, frame, closing, prior, up, agents, written, since, doubtful, struck>>
    BY DEF HandleRelayMessage
  <1> HIDE DEF e, box
  <1>t. e \in Envelope
    BY <1>e DEF Takes
  <1>1. CASE e.kind = "agent.send" /\ agents[i] = e.conn
    <2>1. Call(i, replies[i], box, "touch", e.conn, "relay", e) /\ UNCHANGED <<sock, asks>>
      BY <1>1, <1>o
    <2>2. Rest(i, replies[i], {}) /\ Awaitable("relay", e) /\ e.conn \in Connection
      BY <1>1, <1>t, EnvelopeType DEF Rest, Awaitable
    <2>3. /\ \E y : Pledge(y, "relay", e, e.conn, Owns(e.conn)) /\ RepliesAfter(i, {}, {y})
          /\ inbox' = box /\ UNCHANGED <<presence, claimed>>
      BY <1>d, <2>1, <2>2, CallReads
    <2>4. \E y : DeliverEffect(i, e, y)
      BY <1>1, <1>e, <1>o, <2>1, <2>3 DEF DeliverEffect
    <2> QED
      BY <2>4
  <1>2. CASE e.kind = "agent.send" /\ agents[i] # e.conn
    <2> DEFINE a == AckOf(e, "unsent")
    <2>1. Call(i, replies[i], box, "publish", a, "none", None) /\ UNCHANGED <<sock, asks>>
      BY <1>2, <1>o DEF Acknowledge, AckOf
    <2>2. a \in Envelope /\ a.to \in Instance
      BY <1>2, <1>t, EnvelopeType DEF AckOf, Envelope
    <2>3. replies' = replies
      BY <1>d, <2>1, CallSilent DEF RedisType
    <2>4. UNCHANGED <<presence, claimed>> /\ (InboxAfter(i, {e}, {}) \/ InboxAfter(i, {e}, {a}))
      <3> HIDE DEF a
      <3> QED
        BY <1>d, <1>e, <2>1, <2>2, CallPublishes
    <2>5. \E Y : Y \subseteq {a} /\ InboxAfter(i, {e}, Y)
      BY <2>4
    <2>6. \E Y : RejectEffect(i, e, Y)
      BY <1>2, <1>e, <1>o, <2>1, <2>2, <2>3, <2>4, <2>5 DEF RejectEffect
    <2> QED
      BY <2>6
  <1>3. CASE e.kind = "agent.close"
    <2>1. ExpelEffect(i, e)
      BY <1>3, <1>e, <1>o DEF ExpelEffect
    <2> QED
      BY <2>1
  <1>4. CASE e.kind = "relay.ack"
    <2>1. e.msg \in Message /\ e.ack \in Acks
      BY <1>4, <1>t, EnvelopeType DEF Acks
    <2>2. "idle" \in AskStates
      BY DEF AskStates
    <2>3. asks' = [asks EXCEPT ![e.msg].ack = e.ack] =>
            AskAfter(e.msg, asks[e.msg].pc, asks[e.msg].at, asks[e.msg].owner,
                     asks[e.msg].attempt, e.ack)
      BY <1>d, <2>1, <2>2, AskStep
    <2>4. HearEffect(i, e)
      BY <1>4, <1>e, <1>o, <2>3 DEF HearEffect
    <2> QED
      BY <2>4
  <1> QED
    BY <1>1, <1>2, <1>3, <1>4, <1>t, EnvelopeType

\* The relay's send from the touch: the message is written, or not, and either is
\* acknowledged.
RelayedEffect(i, h, r, Y) ==
  /\ Handles(i, h, "relay")
  /\ \/ /\ r = "sent"
        /\ written' = [written EXCEPT ![h.id.msg] = Append(@, h.conn)]
        /\ UNCHANGED <<agents, struck, sock>>
     \/ /\ r = "unsent"
        /\ written' = written
        /\ UNCHANGED <<agents, struck, sock>> \/ Strikes(i, h.conn)
  /\ RepliesAfter(i, {h}, {})
  /\ Y \subseteq {AckOf(h.id, r)} /\ AckOf(h.id, r) \in Envelope
  /\ InboxAfter(i, {}, Y)
  /\ UNCHANGED <<host, frame, closing, prior, up, asks, presence, claimed, since, doubtful>>

LEMMA RelayedStep ==
  ASSUME Base, NEW i \in Instance, RelayTouched(i)
  PROVE  \E h, r, Y : RelayedEffect(i, h, r, Y)
  <1> DEFINE h == Head(replies[i])
             r == IF Writes(h) THEN "sent" ELSE "unsent"
             a == AckOf(h.id, r)
  <1>h. /\ Handles(i, h, "relay")
        /\ replies' = [replies EXCEPT ![i] = Tail(replies[i])] => RepliesAfter(i, {h}, {})
    BY ReplyHandled DEF RelayTouched
  <1>d. RedisType /\ \A j \in Instance : DistinctAttempts(inbox[j])
    BY DEF Base, ApartInv, TypeOK
  <1>o. /\ Touched(i, h, h.id.msg)
        /\ Call(i, Tail(replies[i]), inbox, "publish", a, "none", None)
        /\ UNCHANGED <<host, frame, closing, prior, up, asks, since, doubtful>>
    BY DEF RelayTouched, Acknowledge, AckOf
  <1> HIDE DEF h
  <1>1. h.id \in Envelope /\ h.id.kind = "agent.send"
    BY <1>h, HandledType DEF Handles, Awaited
  <1>2. a \in Envelope /\ a.to \in Instance
    BY <1>1, EnvelopeType DEF AckOf, Envelope
  <1>3. /\ \/ /\ r = "sent"
              /\ written' = [written EXCEPT ![h.id.msg] = Append(@, h.conn)]
              /\ UNCHANGED <<agents, struck, sock>>
           \/ /\ r = "unsent"
              /\ written' = written
              /\ UNCHANGED <<agents, struck, sock>> \/ Strikes(i, h.conn)
    BY <1>o DEF Touched, Strikes, Writes
  <1> HIDE DEF r
  <1>4. RepliesAfter(i, {h}, {})
    BY <1>h, <1>o, CallSilent
  <1>5. Box(i, inbox, {})
    BY DEF Box
  <1>6. UNCHANGED <<presence, claimed>> /\ (InboxAfter(i, {}, {}) \/ InboxAfter(i, {}, {a}))
    <2> HIDE DEF a
    <2> QED
      BY <1>d, <1>o, <1>2, <1>5, CallPublishes
  <1>7. PICK Y : Y \subseteq {a} /\ InboxAfter(i, {}, Y)
    BY <1>6
  <1>8. RelayedEffect(i, h, r, Y)
    BY <1>h, <1>o, <1>2, <1>3, <1>4, <1>6, <1>7 DEF RelayedEffect
  <1> QED
    BY <1>8

LoseEffect(i, e) ==
  /\ Takes(i, e, e.kind)
  /\ InboxAfter(i, {e}, {})
  /\ UNCHANGED <<sock, host, frame, closing, prior, up, agents, asks, presence, replies, written,
                 claimed, since, doubtful, struck>>

LEMMA LoseStep ==
  ASSUME Base, NEW i \in Instance, LoseEnvelope(i)
  PROVE  \E e : LoseEffect(i, e)
  <1>1. LoseEffect(i, Head(inbox[i]))
    BY EnvelopeTaken DEF LoseEnvelope, LoseEffect, socketVars, instanceVars, historyVars
  <1> QED
    BY <1>1

\* closeDevice up to the GET ...
CloseDeviceEffect(i, y) ==
  /\ Pledge(y, "close", None, None, presence)
  /\ RepliesAfter(i, {}, {y})
  /\ UNCHANGED <<sock, host, frame, closing, prior, up, agents, asks, presence, inbox, written,
                 claimed, since, doubtful, struck>>

LEMMA CloseDeviceStep ==
  ASSUME Base, NEW i \in Instance, CloseDevice(i)
  PROVE  \E y : CloseDeviceEffect(i, y)
  <1>1. RedisType /\ \A j \in Instance : DistinctReplies(replies[j])
    BY DEF Base, AwaitInv, TypeOK
  <1>2. Rest(i, replies[i], {}) /\ Awaitable("close", None)
    BY DEF Rest, Awaitable
  <1>3. Call(i, replies[i], inbox, "get", None, "close", None)
    BY DEF CloseDevice
  <1>4. /\ \E y : Pledge(y, "close", None, None, presence) /\ RepliesAfter(i, {}, {y})
        /\ UNCHANGED <<presence, inbox, claimed>>
    BY <1>1, <1>2, <1>3, CallReads
  <1> QED
    BY <1>4 DEF CloseDevice, CloseDeviceEffect, socketVars, instanceVars

\* ... and from it.
CloseOwnerEffect(i, h, Y) ==
  /\ Handles(i, h, "close")
  /\ RepliesAfter(i, {h}, {})
  /\ Y = {} \/ (Y = {CloseEnvelope(h.val)} /\ h.val # None /\ CloseEnvelope(h.val) \in Envelope)
  /\ InboxAfter(i, {}, Y)
  /\ sock' = sock \/ (sock' = Closed({h.val}) /\ h.val # None)
  /\ UNCHANGED <<host, frame, closing, prior, up, agents, asks, presence, written, claimed, since,
                 doubtful, struck>>

LEMMA CloseOwnerStep ==
  ASSUME Base, NEW i \in Instance, CloseOwner(i)
  PROVE  \E h, Y : CloseOwnerEffect(i, h, Y)
  <1> DEFINE h == Head(replies[i])
             e == CloseEnvelope(h.val)
  <1>h. /\ Handles(i, h, "close")
        /\ replies' = [replies EXCEPT ![i] = Tail(replies[i])] => RepliesAfter(i, {h}, {})
    BY ReplyHandled DEF CloseOwner
  <1>d. RedisType /\ Box(i, inbox, {}) /\ \A j \in Instance : DistinctAttempts(inbox[j])
    BY DEF Base, ApartInv, TypeOK, Box
  <1>o. /\ IF Succeeded(h) /\ host[h.val] # i
             THEN /\ Call(i, Tail(replies[i]), inbox, "publish", e, "none", None)
                  /\ UNCHANGED sock
             ELSE /\ NoCall(i, Tail(replies[i]))
                  /\ sock' = IF Succeeded(h) /\ agents[i] = h.val THEN Closed({h.val}) ELSE sock
        /\ UNCHANGED <<host, frame, closing, prior, up, agents, asks, written, since, doubtful, struck>>
    BY DEF CloseOwner, instanceVars
  <1> HIDE DEF h
  <1>1. CASE Succeeded(h) /\ host[h.val] # i
    <2>1. h.val \in Connection
      BY <1>1, <1>h, HandledType DEF Succeeded
    <2>2. host[h.val] \in Instance
      BY <1>1, <1>h, <2>1 DEF Succeeded, Handles, Base, ConnInv
    <2>3. e \in Envelope /\ e.to \in Instance
      BY <2>1, <2>2 DEF CloseEnvelope, Envelope
    <2>4. RepliesAfter(i, {h}, {})
      BY <1>1, <1>h, <1>o, CallSilent
    <2>5. UNCHANGED <<presence, claimed>> /\ (InboxAfter(i, {}, {}) \/ InboxAfter(i, {}, {e}))
      <3> HIDE DEF e
      <3> QED
        BY <1>1, <1>d, <1>o, <2>3, CallPublishes
    <2>6. PICK Y : (Y = {} \/ Y = {e}) /\ InboxAfter(i, {}, Y)
      BY <2>5
    <2>7. CloseOwnerEffect(i, h, Y)
      BY <1>1, <1>h, <1>o, <2>3, <2>4, <2>5, <2>6 DEF CloseOwnerEffect, Succeeded
    <2> QED
      BY <2>7
  <1>2. CASE ~ (Succeeded(h) /\ host[h.val] # i)
    <2>1. InboxAfter(i, {}, {})
      BY <1>2, <1>d, <1>o, InboxStep DEF NoCall
    <2>2. CloseOwnerEffect(i, h, {})
      BY <1>2, <1>h, <1>o, <2>1 DEF CloseOwnerEffect, NoCall, Succeeded
    <2> QED
      BY <2>2
  <1> QED
    BY <1>1, <1>2

\* performShutdown up to the release of the entry, if there is one.
StopEffect(i, Y) ==
  /\ up' = [up EXCEPT ![i] = "stopping"]
  /\ asks' \in [Message -> Ask]
  /\ \A m \in Message :
       /\ asks'[m].pc = asks[m].pc /\ asks'[m].at = asks[m].at
       /\ asks'[m].owner = asks[m].owner /\ asks'[m].attempt = asks[m].attempt
       /\ \/ asks'[m].ack = asks[m].ack
          \/ asks'[m].ack = "unsent" /\ m \in doubtful'
  /\ doubtful \subseteq doubtful' /\ doubtful' \subseteq Message
  /\ RepliesAfter(i, {}, Y)
  /\ \/ Y = {} /\ presence' = presence
     \/ \E y : /\ Y = {y}
               /\ Pledge(y, "shutdown", None, agents[i], Owns(agents[i]))
               /\ agents[i] \in Connection
               /\ presence' = presence \/ (presence = agents[i] /\ presence' = None)
  /\ UNCHANGED <<sock, host, frame, closing, prior, agents, inbox, written, claimed, since, struck>>

LEMMA StopStep ==
  ASSUME Base, NEW i \in Instance, Shutdown(i)
  PROVE  \E Y : StopEffect(i, Y)
  <1> DEFINE given == {m \in Message : asks[m].at = i /\ Pending(m)}
  <1>1. /\ RedisType /\ \A j \in Instance : DistinctReplies(replies[j])
        /\ agents[i] \in Connection \cup {None}
        /\ asks \in [Message -> Ask]
    BY DEF Base, AwaitInv, TypeOK, InstanceType
  <1>o. /\ up' = [up EXCEPT ![i] = "stopping"]
        /\ asks' = [m \in Message |-> IF m \in given THEN [asks[m] EXCEPT !.ack = "unsent"]
                                      ELSE asks[m]]
        /\ doubtful' = doubtful \cup given
        /\ IF agents[i] = None
             THEN NoCall(i, replies[i])
             ELSE Call(i, replies[i], inbox, "release", agents[i], "shutdown", None)
        /\ UNCHANGED <<sock, host, frame, closing, prior, agents, written, since, struck>>
    BY DEF Shutdown, socketVars
  <1>g. given \subseteq Message
    OBVIOUS
  <1> HIDE DEF given
  <1>2. asks' \in [Message -> Ask]
    <2>1. \A a \in Ask : [a EXCEPT !.ack = "unsent"] \in Ask
      BY DEF Ask
    <2> QED
      BY <1>1, <1>o, <2>1
  <1>3. ASSUME NEW m \in Message
        PROVE  /\ asks'[m].pc = asks[m].pc /\ asks'[m].at = asks[m].at
               /\ asks'[m].owner = asks[m].owner /\ asks'[m].attempt = asks[m].attempt
               /\ asks'[m].ack = asks[m].ack \/ (asks'[m].ack = "unsent" /\ m \in doubtful')
    <2>1. asks[m] \in Ask
      BY <1>1
    <2>2. CASE m \in given
      <3>1. asks'[m] = [asks[m] EXCEPT !.ack = "unsent"] /\ m \in doubtful'
        BY <1>o, <2>2
      <3> QED
        BY <2>1, <3>1 DEF Ask
    <2>3. CASE m \notin given
      BY <1>o, <2>3
    <2> QED
      BY <2>2, <2>3
  <1>4. doubtful \subseteq doubtful' /\ doubtful' \subseteq Message
    BY <1>o, <1>g DEF Base, TypeOK, HistoryType
  <1>5. Rest(i, replies[i], {}) /\ Awaitable("shutdown", None)
    BY DEF Rest, Awaitable
  <1>6. CASE agents[i] = None
    <2>1. RepliesAfter(i, {}, {}) /\ UNCHANGED <<presence, claimed, inbox>>
      BY <1>1, <1>5, <1>6, <1>o, RepliesStep DEF NoCall
    <2>2. StopEffect(i, {})
      BY <1>2, <1>3, <1>4, <1>o, <2>1 DEF StopEffect
    <2> QED
      BY <2>2
  <1>7. CASE agents[i] # None
    <2> DEFINE c == agents[i]
    <2>0. c \in Connection /\ Call(i, replies[i], inbox, "release", c, "shutdown", None)
      BY <1>1, <1>7, <1>o
    <2> HIDE DEF c
    <2>1. /\ \E y : Pledge(y, "shutdown", None, c, Owns(c)) /\ RepliesAfter(i, {}, {y})
          /\ inbox' = inbox /\ claimed' = claimed
          /\ presence' = presence \/ (presence = c /\ presence' = None)
      BY <1>1, <1>5, <2>0, CallReads
    <2>2. PICK y : Pledge(y, "shutdown", None, c, Owns(c)) /\ RepliesAfter(i, {}, {y})
      BY <2>1
    <2>3. StopEffect(i, {y})
      BY <1>2, <1>3, <1>4, <1>o, <2>0, <2>1, <2>2 DEF StopEffect, c
    <2> QED
      BY <2>3
  <1> QED
    BY <1>6, <1>7

\* The instance is gone.
HaltEffect(i) ==
  /\ up' = [up EXCEPT ![i] = "down"]
  /\ agents' = [agents EXCEPT ![i] = None]
  /\ sock' = Closed({c \in Connection : host[c] = i})
  /\ closing' = [c \in Connection |-> IF host[c] = i THEN "over" ELSE closing[c]]
  /\ frame' = [c \in Connection |-> IF host[c] = i THEN "refused" ELSE frame[c]]
  /\ asks' \in [Message -> Ask]
  /\ \A m \in Message :
       /\ asks'[m].pc = IF asks[m].at = i /\ asks[m].pc \notin {"sent", "unsent"} THEN "lost" ELSE asks[m].pc
       /\ asks'[m].at = asks[m].at /\ asks'[m].ack = asks[m].ack
       /\ asks'[m].owner = asks[m].owner /\ asks'[m].attempt = asks[m].attempt
  /\ replies' \in [Instance -> Seq(Replies)] /\ inbox' \in [Instance -> Seq(Envelope)]
  /\ replies'[i] = <<>> /\ inbox'[i] = <<>> /\ Range(replies'[i]) = {} /\ Range(inbox'[i]) = {}
  /\ \A j \in Instance : j # i => replies'[j] = replies[j] /\ inbox'[j] = inbox[j]
  /\ UNCHANGED <<host, prior, presence, written, claimed, since, doubtful, struck>>

LEMMA HaltStep ==
  ASSUME Base, NEW i \in Instance, Halt(i)
  PROVE  HaltEffect(i)
  <1>1. /\ replies \in [Instance -> Seq(Replies)] /\ inbox \in [Instance -> Seq(Envelope)]
        /\ asks \in [Message -> Ask]
    BY DEF Base, TypeOK, RedisType, InstanceType
  <1>2. asks' = [m \in Message |->
                   IF asks[m].at = i /\ asks[m].pc \notin {"sent", "unsent"}
                     THEN [asks[m] EXCEPT !.pc = "lost"] ELSE asks[m]]
    BY DEF Halt
  <1>3. asks' \in [Message -> Ask]
    <2>1. \A a \in Ask : [a EXCEPT !.pc = "lost"] \in Ask
      BY DEF Ask
    <2> QED
      BY <1>1, <1>2, <2>1
  <1>4. ASSUME NEW m \in Message
        PROVE  /\ asks'[m].pc = IF asks[m].at = i /\ asks[m].pc \notin {"sent", "unsent"} THEN "lost"
                                ELSE asks[m].pc
               /\ asks'[m].at = asks[m].at /\ asks'[m].ack = asks[m].ack
               /\ asks'[m].owner = asks[m].owner /\ asks'[m].attempt = asks[m].attempt
    <2>1. asks[m] \in Ask
      BY <1>1
    <2> QED
      BY <1>2, <2>1 DEF Ask
  <1>5. /\ replies' = [replies EXCEPT ![i] = <<>>]
        /\ inbox' = [inbox EXCEPT ![i] = <<>>]
    BY DEF Halt
  <1>6. Range(<<>>) = {}
    BY DEF Range
  <1> QED
    BY <1>1, <1>3, <1>4, <1>5, <1>6 DEF Halt, HaltEffect, historyVars

\* The steps that send nothing to Redis.
DialEffect(c, i) ==
  /\ sock[c] = "unused"
  /\ sock' = [sock EXCEPT ![c] = "open"]
  /\ host' = [host EXCEPT ![c] = i]
  /\ UNCHANGED <<frame, closing, prior, up, agents, asks, presence, replies, inbox, written,
                 claimed, since, doubtful, struck>>

DropEffect(c, state) ==
  /\ Alive(c)
  /\ sock' = [sock EXCEPT ![c] = state]
  /\ UNCHANGED <<host, frame, closing, prior, up, agents, asks, presence, replies, inbox, written,
                 claimed, since, doubtful, struck>>

LapseEffect ==
  /\ presence # None /\ ~ Heard(presence)
  /\ presence' = None
  /\ UNCHANGED <<sock, host, frame, closing, prior, up, agents, asks, replies, inbox, written,
                 claimed, since, doubtful, struck>>

Stutter ==
  UNCHANGED <<sock, host, frame, closing, prior, up, agents, asks, presence, replies, inbox, written,
              claimed, since, doubtful, struck>>

\* What any step may do.
Effect ==
  \/ \E c \in Connection, i \in Instance : DialEffect(c, i)
  \/ \E c \in Connection, state \in {"cut", "closed"} : DropEffect(c, state)
  \/ \E c \in Connection : \E y : AttachEffect(c, y) \/ HeartbeatEffect(c, y) \/ CloseEffect(c, y)
  \/ \E c \in Connection : CloseOverEffect(c)
  \/ \E i \in Instance : \E h : \/ RefuseEffect(i, h) \/ BeatEffect(i, h) \/ DetachEffect(i, h)
                                \/ GiveUpEffect(i, h) \/ WriteEffect(i, h)
  \/ \E i \in Instance : \E h, y : WelcomeEffect(i, h, y) \/ RetryEffect(i, h, y)
  \/ \E i \in Instance : \E h, k, y : LocalEffect(i, h, k, y) \/ MissEffect(i, h, k, y)
  \/ \E i \in Instance : \E h, y, Y : ReplaceEffect(i, h, y, Y)
  \/ \E i \in Instance : \E h, k, y, Y : RemoteEffect(i, h, k, y, Y)
  \/ \E i \in Instance : \E h, ack : PublishedEffect(i, h, ack)
  \/ \E i \in Instance : \E h, r, Y : RelayedEffect(i, h, r, Y)
  \/ \E i \in Instance : \E h, Y : CloseOwnerEffect(i, h, Y)
  \/ \E i \in Instance : \E e : \/ \E y : DeliverEffect(i, e, y)
                                \/ \E Y : RejectEffect(i, e, Y)
                                \/ ExpelEffect(i, e) \/ HearEffect(i, e) \/ LoseEffect(i, e)
  \/ \E i \in Instance : (\E y : CloseDeviceEffect(i, y)) \/ (\E Y : StopEffect(i, Y)) \/ HaltEffect(i)
  \/ \E i \in Instance, m \in Message : \E y : SendEffect(i, m, y)
  \/ \E m \in Message : TimeoutEffect(m) \/ AnswerEffect(m) \/ \E y : ReaskEffect(m, y)
  \/ LapseEffect
  \/ Stutter

LEMMA StepEffect ==
  ASSUME Base, [Next]_vars
  PROVE  Effect
  <1>1. ASSUME NEW i \in Instance, Handle(i) PROVE Effect
    <2>1. ASSUME Attached(i) PROVE Effect
      BY <2>1, AttachedStep DEF Effect
    <2>2. ASSUME ClosePublished(i) PROVE Effect
      BY <2>2, ClosePublishedStep DEF Effect
    <2>3. ASSUME HeartbeatTouched(i) PROVE Effect
      BY <2>3, BeatStep DEF Effect
    <2>4. ASSUME DetachAgent(i) PROVE Effect
      BY <2>4, DetachStep DEF Effect
    <2>5. ASSUME NEW for \in {"owner", "again"}, OwnerRead(i, for) PROVE Effect
      BY <2>5, OwnerStep DEF Effect
    <2>6. ASSUME LocalTouched(i) PROVE Effect
      BY <2>6, LocalStep DEF Effect
    <2>7. ASSUME SendPublished(i) PROVE Effect
      BY <2>7, PublishedStep DEF Effect
    <2>8. ASSUME RelayTouched(i) PROVE Effect
      BY <2>8, RelayedStep DEF Effect
    <2>9. ASSUME CloseOwner(i) PROVE Effect
      BY <2>9, CloseOwnerStep DEF Effect
    <2> QED
      BY <1>1, <2>1, <2>2, <2>3, <2>4, <2>5, <2>6, <2>7, <2>8, <2>9 DEF Handle
  <1>2. ASSUME NEW i \in Instance, Dial(i) PROVE Effect
    <2>1. \E c \in Connection : DialEffect(c, i)
      BY <1>2 DEF Dial, DialEffect, instanceVars, redisVars, historyVars
    <2> QED
      BY <2>1 DEF Effect
  <1>3. ASSUME NEW i \in Instance, HandleRelayMessage(i) PROVE Effect
    BY <1>3, RelayStep DEF Effect
  <1>4. ASSUME NEW i \in Instance, LoseEnvelope(i) PROVE Effect
    BY <1>4, LoseStep DEF Effect
  <1>5. ASSUME NEW i \in Instance, CloseDevice(i) PROVE Effect
    BY <1>5, CloseDeviceStep DEF Effect
  <1>6. ASSUME NEW i \in Instance, Shutdown(i) PROVE Effect
    BY <1>6, StopStep DEF Effect
  <1>7. ASSUME NEW i \in Instance, Halt(i) PROVE Effect
    BY <1>7, HaltStep DEF Effect
  <1>8. ASSUME NEW c \in Connection, Cut(c) \/ Notice(c) PROVE Effect
    <2>1. DropEffect(c, "cut") \/ DropEffect(c, "closed")
      BY <1>8 DEF Cut, Notice, DropEffect, Alive, instanceVars, redisVars, historyVars
    <2> QED
      BY <2>1 DEF Effect
  <1>9. ASSUME NEW c \in Connection, AttachAgent(c) PROVE Effect
    BY <1>9, AttachStep DEF Effect
  <1>10. ASSUME NEW c \in Connection, Heartbeat(c) PROVE Effect
    BY <1>10, HeartbeatStep DEF Effect
  <1>11. ASSUME NEW c \in Connection, CloseEvent(c) PROVE Effect
    BY <1>11, CloseStep DEF Effect
  <1>12. ASSUME NEW m \in Message, AckTimeout(m) PROVE Effect
    BY <1>12, TimeoutStep DEF Effect
  <1>13. ASSUME NEW m \in Message, Acknowledged(m) PROVE Effect
    BY <1>13, AcknowledgedStep DEF Effect
  <1>14. ASSUME NEW m \in Message, NEW i \in Instance, SendToAgent(i, m) PROVE Effect
    BY <1>14, SendStep DEF Effect
  <1>15. ASSUME Lapse PROVE Effect
    <2>1. LapseEffect
      BY <1>15 DEF Lapse, LapseEffect, socketVars, instanceVars, historyVars
    <2> QED
      BY <2>1 DEF Effect
  <1>16. ASSUME UNCHANGED vars PROVE Effect
    <2>1. Stutter
      BY <1>16 DEF vars, Stutter, socketVars, instanceVars, redisVars, historyVars
    <2> QED
      BY <2>1 DEF Effect
  <1> QED
    BY <1>1, <1>2, <1>3, <1>4, <1>5, <1>6, <1>7, <1>8, <1>9, <1>10, <1>11, <1>12, <1>13, <1>14,
       <1>15, <1>16 DEF Next

-----------------------------------------------------------------------------
(* Types.                                                                  *)

SockStates == {"unused", "open", "cut", "closed"}
FrameStates == {"new", "claim", "publish", "welcome", "idle", "touch", "refused"}

\* What socket.close() does to the sockets.
LEMMA ClosedSockets ==
  ASSUME SocketType, NEW S
  PROVE  /\ Closed(S) \in [Connection -> SockStates]
         /\ \A c \in Connection :
              /\ Closed(S)[c] = "unused" <=> sock[c] = "unused"
              /\ Closed(S)[c] = "open" => sock[c] = "open" /\ c \notin S
              /\ sock[c] = "closed" => Closed(S)[c] = "closed"
              /\ Closed(S)[c] \in {sock[c], "closed"}
              /\ c \notin S => Closed(S)[c] = sock[c]
  BY DEF Closed, Alive, SocketType, SockStates

\* The frame's handler of one connection moves on.
LEMMA FrameStep ==
  ASSUME SocketType, NEW m \in Message, FrameAfter(m)
  PROVE  frame' \in [Connection -> FrameStates]
  BY MessageKinds DEF FrameAfter, SocketType, FrameStates

LEMMA SocketTypeStep ==
  ASSUME Base, Effect
  PROVE  SocketType'
  <1>t. /\ SocketType /\ InstanceType
        /\ \A S : Closed(S) \in [Connection -> SockStates]
    BY ClosedSockets DEF Base, TypeOK
  <1>1. ASSUME NEW i \in Instance, NEW y, CloseDeviceEffect(i, y) PROVE SocketType'
    BY <1>t, <1>1 DEF CloseDeviceEffect, SocketType, InstanceType, None
  <1>2. ASSUME NEW i \in Instance, NEW Y, StopEffect(i, Y) PROVE SocketType'
    BY <1>t, <1>2 DEF StopEffect, SocketType, InstanceType, None
  <1>3. ASSUME NEW i \in Instance, NEW e, NEW Y, RejectEffect(i, e, Y) PROVE SocketType'
    BY <1>t, <1>3 DEF RejectEffect, SocketType, InstanceType, None
  <1>4. ASSUME NEW i \in Instance, NEW e, LoseEffect(i, e) \/ HearEffect(i, e) PROVE SocketType'
    BY <1>t, <1>4 DEF LoseEffect, HearEffect, SocketType, InstanceType, None
  <1>5. ASSUME NEW i \in Instance, NEW e, NEW y, DeliverEffect(i, e, y) PROVE SocketType'
    BY <1>t, <1>5 DEF DeliverEffect, SocketType, InstanceType, None
  <1>6. ASSUME NEW c \in Connection, CloseOverEffect(c) PROVE SocketType'
    BY <1>t, <1>6 DEF CloseOverEffect, SocketType, InstanceType, None
  <1>7. ASSUME NEW m \in Message, TimeoutEffect(m) PROVE SocketType'
    BY <1>t, <1>7 DEF TimeoutEffect, SocketType, InstanceType, None
  <1>8. ASSUME NEW m \in Message, NEW y, ReaskEffect(m, y) PROVE SocketType'
    BY <1>t, <1>8 DEF ReaskEffect, SocketType, InstanceType, None
  <1>9. ASSUME LapseEffect \/ Stutter PROVE SocketType'
    BY <1>t, <1>9 DEF LapseEffect, Stutter, SocketType, InstanceType, None
  <1>10. ASSUME NEW i \in Instance, NEW m \in Message, NEW y, SendEffect(i, m, y)
        PROVE  SocketType'
    BY <1>t, <1>10 DEF SendEffect, SocketType, InstanceType, None
  <1>11. ASSUME NEW i \in Instance, NEW h, NEW ack, PublishedEffect(i, h, ack) PROVE SocketType'
    BY <1>t, <1>11 DEF PublishedEffect, SocketType, InstanceType, None
  <1>12. ASSUME NEW c \in Connection, NEW i \in Instance, DialEffect(c, i) PROVE SocketType'
    BY <1>t, <1>12 DEF DialEffect, SocketType, InstanceType, None
  <1>13. ASSUME NEW c \in Connection, NEW state \in {"cut", "closed"}, DropEffect(c, state)
        PROVE  SocketType'
    BY <1>t, <1>13 DEF DropEffect, SocketType, InstanceType, None
  <1>14. ASSUME NEW c \in Connection, NEW y,
               \/ AttachEffect(c, y)
                 \/ HeartbeatEffect(c, y)
                 \/ CloseEffect(c, y)
        PROVE  SocketType'
    BY <1>t, <1>14 DEF AttachEffect, HeartbeatEffect, CloseEffect, SocketType, InstanceType, None
  <1>15. ASSUME NEW i \in Instance, NEW h, NEW k, NEW y,
               \/ LocalEffect(i, h, k, y)
                 \/ MissEffect(i, h, k, y)
        PROVE  SocketType'
    BY <1>t, <1>15 DEF LocalEffect, MissEffect, Tries, SocketType
  <1>16. ASSUME NEW i \in Instance, NEW h, NEW k, NEW y, NEW Y, RemoteEffect(i, h, k, y, Y)
        PROVE  SocketType'
    BY <1>t, <1>16 DEF RemoteEffect, Tries, SocketType
  <1>17. ASSUME NEW i \in Instance, NEW h, NEW y, RetryEffect(i, h, y) PROVE SocketType'
    BY <1>t, <1>17 DEF RetryEffect, SocketType, Strikes, SockStates
  <1>18. ASSUME NEW i \in Instance, NEW h, NEW r, NEW Y, RelayedEffect(i, h, r, Y)
        PROVE  SocketType'
    BY <1>t, <1>18 DEF RelayedEffect, SocketType, Strikes, SockStates
  <1>19. ASSUME NEW i \in Instance, NEW e, ExpelEffect(i, e) PROVE SocketType'
    BY <1>t, <1>19 DEF ExpelEffect, SocketType, Strikes, SockStates
  <1>20. ASSUME NEW i \in Instance, NEW h, NEW Y, CloseOwnerEffect(i, h, Y) PROVE SocketType'
    BY <1>t, <1>20 DEF CloseOwnerEffect, SocketType, Strikes, SockStates
  <1>21. ASSUME NEW i \in Instance, HaltEffect(i) PROVE SocketType'
    BY <1>t, <1>21 DEF HaltEffect, SocketType, Strikes, SockStates
  <1>22. ASSUME NEW i \in Instance, NEW h,
               \/ RefuseEffect(i, h)
                 \/ BeatEffect(i, h)
                 \/ DetachEffect(i, h)
        PROVE  SocketType'
    <2>1. h.id \in Connection
      BY <1>22, HandledType DEF RefuseEffect, BeatEffect, DetachEffect, Greeting
    <2> QED
      BY <1>t, <1>22, <2>1 DEF RefuseEffect, BeatEffect, DetachEffect, SocketType, SockStates, FrameStates, Strikes, Enters
  <1>23. ASSUME NEW i \in Instance, NEW h, NEW y, WelcomeEffect(i, h, y) PROVE SocketType'
    <2>1. h.id \in Connection
      BY <1>23, HandledType DEF WelcomeEffect, Greeting
    <2> QED
      BY <1>t, <1>23, <2>1 DEF WelcomeEffect, SocketType, SockStates, FrameStates, Strikes, Enters
  <1>24. ASSUME NEW i \in Instance, NEW h, NEW y, NEW Y, ReplaceEffect(i, h, y, Y)
        PROVE  SocketType'
    <2>1. h.id \in Connection
      BY <1>24, HandledType DEF ReplaceEffect, Greeting
    <2> QED
      BY <1>t, <1>24, <2>1 DEF ReplaceEffect, SocketType, SockStates, FrameStates, Strikes, Enters
  <1>25. ASSUME NEW i \in Instance, NEW h, GiveUpEffect(i, h) \/ WriteEffect(i, h)
        PROVE  SocketType'
    <2>1. frame' \in [Connection -> FrameStates]
      BY <1>t, <1>25, FrameStep, HandledType DEF GiveUpEffect, WriteEffect, Asking
    <2> QED
      BY <1>t, <1>25, <2>1 DEF GiveUpEffect, WriteEffect, SocketType, SockStates, FrameStates
  <1>26. ASSUME NEW m \in Message, AnswerEffect(m) PROVE SocketType'
    <2>1. frame' \in [Connection -> FrameStates]
      BY <1>t, <1>26, FrameStep DEF AnswerEffect
    <2> QED
      BY <1>t, <1>26, <2>1 DEF AnswerEffect, SocketType, FrameStates
  <1> QED
    BY <1>1, <1>2, <1>3, <1>4, <1>5, <1>6, <1>7, <1>8, <1>9, <1>10, <1>11, <1>12, <1>13, <1>14,
       <1>15, <1>16, <1>17, <1>18, <1>19, <1>20, <1>21, <1>22, <1>23, <1>24, <1>25, <1>26 DEF Effect

LEMMA InstanceTypeStep ==
  ASSUME Base, Effect
  PROVE  InstanceType'
  <1>t. InstanceType
    BY DEF Base, TypeOK
  <1>1. ASSUME NEW i \in Instance, NEW y, CloseDeviceEffect(i, y) PROVE InstanceType'
    BY <1>t, <1>1 DEF CloseDeviceEffect, InstanceType, AskAfter
  <1>2. ASSUME NEW i \in Instance, NEW Y, StopEffect(i, Y) PROVE InstanceType'
    BY <1>t, <1>2 DEF StopEffect, InstanceType, AskAfter
  <1>3. ASSUME NEW i \in Instance, HaltEffect(i) PROVE InstanceType'
    BY <1>t, <1>3 DEF HaltEffect, InstanceType, AskAfter
  <1>4. ASSUME NEW i \in Instance, NEW e, NEW Y, RejectEffect(i, e, Y) PROVE InstanceType'
    BY <1>t, <1>4 DEF RejectEffect, InstanceType, AskAfter
  <1>5. ASSUME NEW i \in Instance, NEW e,
               \/ LoseEffect(i, e)
                 \/ HearEffect(i, e)
                 \/ ExpelEffect(i, e)
        PROVE  InstanceType'
    BY <1>t, <1>5 DEF LoseEffect, HearEffect, ExpelEffect, InstanceType, AskAfter
  <1>6. ASSUME NEW i \in Instance, NEW e, NEW y, DeliverEffect(i, e, y) PROVE InstanceType'
    BY <1>t, <1>6 DEF DeliverEffect, InstanceType, AskAfter
  <1>7. ASSUME NEW c \in Connection, CloseOverEffect(c) PROVE InstanceType'
    BY <1>t, <1>7 DEF CloseOverEffect, InstanceType, AskAfter
  <1>8. ASSUME NEW m \in Message, TimeoutEffect(m) \/ AnswerEffect(m) PROVE InstanceType'
    BY <1>t, <1>8 DEF TimeoutEffect, AnswerEffect, InstanceType, AskAfter
  <1>9. ASSUME NEW m \in Message, NEW y, ReaskEffect(m, y) PROVE InstanceType'
    BY <1>t, <1>9 DEF ReaskEffect, InstanceType, AskAfter
  <1>10. ASSUME LapseEffect \/ Stutter PROVE InstanceType'
    BY <1>t, <1>10 DEF LapseEffect, Stutter, InstanceType, AskAfter
  <1>11. ASSUME NEW i \in Instance, NEW m \in Message, NEW y, SendEffect(i, m, y)
        PROVE  InstanceType'
    BY <1>t, <1>11 DEF SendEffect, InstanceType, AskAfter
  <1>12. ASSUME NEW i \in Instance, NEW h, NEW ack, PublishedEffect(i, h, ack) PROVE InstanceType'
    BY <1>t, <1>12 DEF PublishedEffect, InstanceType, AskAfter
  <1>13. ASSUME NEW c \in Connection, NEW i \in Instance, DialEffect(c, i) PROVE InstanceType'
    BY <1>t, <1>13 DEF DialEffect, InstanceType, AskAfter
  <1>14. ASSUME NEW c \in Connection, NEW state \in {"cut", "closed"}, DropEffect(c, state)
        PROVE  InstanceType'
    BY <1>t, <1>14 DEF DropEffect, InstanceType, AskAfter
  <1>15. ASSUME NEW c \in Connection, NEW y,
               \/ AttachEffect(c, y)
                 \/ HeartbeatEffect(c, y)
                 \/ CloseEffect(c, y)
        PROVE  InstanceType'
    BY <1>t, <1>15 DEF AttachEffect, HeartbeatEffect, CloseEffect, InstanceType, AskAfter
  <1>16. ASSUME NEW i \in Instance, NEW h, NEW Y, CloseOwnerEffect(i, h, Y) PROVE InstanceType'
    BY <1>t, <1>16 DEF CloseOwnerEffect, InstanceType, AskAfter
  <1>17. ASSUME NEW i \in Instance, NEW h, NEW k, NEW y,
               \/ LocalEffect(i, h, k, y)
                 \/ MissEffect(i, h, k, y)
        PROVE  InstanceType'
    BY <1>t, <1>17 DEF LocalEffect, MissEffect, Tries, InstanceType, AskAfter
  <1>18. ASSUME NEW i \in Instance, NEW h, NEW k, NEW y, NEW Y, RemoteEffect(i, h, k, y, Y)
        PROVE  InstanceType'
    BY <1>t, <1>18 DEF RemoteEffect, Tries, InstanceType, AskAfter
  <1>19. ASSUME NEW i \in Instance, NEW h,
               \/ BeatEffect(i, h)
                 \/ DetachEffect(i, h)
                 \/ GiveUpEffect(i, h)
                 \/ WriteEffect(i, h)
        PROVE  InstanceType'
    BY <1>t, <1>19 DEF BeatEffect, DetachEffect, GiveUpEffect, WriteEffect, InstanceType, Strikes, Deleted, AskAfter
  <1>20. ASSUME NEW i \in Instance, NEW h, NEW y, RetryEffect(i, h, y) PROVE InstanceType'
    BY <1>t, <1>20 DEF RetryEffect, InstanceType, Strikes, Deleted, AskAfter
  <1>21. ASSUME NEW i \in Instance, NEW h, NEW r, NEW Y, RelayedEffect(i, h, r, Y)
        PROVE  InstanceType'
    BY <1>t, <1>21 DEF RelayedEffect, InstanceType, Strikes, Deleted, AskAfter
  <1>22. ASSUME NEW i \in Instance, NEW h, RefuseEffect(i, h) PROVE InstanceType'
    <2>1. h.id \in Connection
      BY <1>22, HandledType DEF RefuseEffect, Greeting
    <2> QED
      BY <1>t, <1>22, <2>1 DEF RefuseEffect, InstanceType, Enters, AskAfter
  <1>23. ASSUME NEW i \in Instance, NEW h, NEW y, WelcomeEffect(i, h, y) PROVE InstanceType'
    <2>1. h.id \in Connection
      BY <1>23, HandledType DEF WelcomeEffect, Greeting
    <2> QED
      BY <1>t, <1>23, <2>1 DEF WelcomeEffect, InstanceType, Enters, AskAfter
  <1>24. ASSUME NEW i \in Instance, NEW h, NEW y, NEW Y, ReplaceEffect(i, h, y, Y)
        PROVE  InstanceType'
    <2>1. h.id \in Connection
      BY <1>24, HandledType DEF ReplaceEffect, Greeting
    <2> QED
      BY <1>t, <1>24, <2>1 DEF ReplaceEffect, InstanceType, Enters, AskAfter
  <1> QED
    BY <1>1, <1>2, <1>3, <1>4, <1>5, <1>6, <1>7, <1>8, <1>9, <1>10, <1>11, <1>12, <1>13, <1>14,
       <1>15, <1>16, <1>17, <1>18, <1>19, <1>20, <1>21, <1>22, <1>23, <1>24 DEF Effect

LEMMA RedisTypeStep ==
  ASSUME Base, Effect
  PROVE  RedisType'
  <1>t. RedisType
    BY DEF Base, TypeOK
  <1>1. ASSUME NEW i \in Instance, NEW y, CloseDeviceEffect(i, y) PROVE RedisType'
    BY <1>t, <1>1 DEF CloseDeviceEffect, RedisType, RepliesAfter, InboxAfter
  <1>2. ASSUME NEW i \in Instance, NEW Y, StopEffect(i, Y) PROVE RedisType'
    BY <1>t, <1>2 DEF StopEffect, RedisType, RepliesAfter, InboxAfter
  <1>3. ASSUME NEW i \in Instance, HaltEffect(i) PROVE RedisType'
    BY <1>t, <1>3 DEF HaltEffect, RedisType, RepliesAfter, InboxAfter
  <1>4. ASSUME NEW i \in Instance, NEW e, NEW Y, RejectEffect(i, e, Y) PROVE RedisType'
    BY <1>t, <1>4 DEF RejectEffect, RedisType, RepliesAfter, InboxAfter
  <1>5. ASSUME NEW i \in Instance, NEW e,
               \/ LoseEffect(i, e)
                 \/ HearEffect(i, e)
                 \/ ExpelEffect(i, e)
        PROVE  RedisType'
    BY <1>t, <1>5 DEF LoseEffect, HearEffect, ExpelEffect, RedisType, RepliesAfter, InboxAfter
  <1>6. ASSUME NEW i \in Instance, NEW e, NEW y, DeliverEffect(i, e, y) PROVE RedisType'
    BY <1>t, <1>6 DEF DeliverEffect, RedisType, RepliesAfter, InboxAfter
  <1>7. ASSUME NEW c \in Connection, CloseOverEffect(c) PROVE RedisType'
    BY <1>t, <1>7 DEF CloseOverEffect, RedisType, RepliesAfter, InboxAfter
  <1>8. ASSUME NEW m \in Message, TimeoutEffect(m) \/ AnswerEffect(m) PROVE RedisType'
    BY <1>t, <1>8 DEF TimeoutEffect, AnswerEffect, RedisType, RepliesAfter, InboxAfter
  <1>9. ASSUME NEW m \in Message, NEW y, ReaskEffect(m, y) PROVE RedisType'
    BY <1>t, <1>9 DEF ReaskEffect, RedisType, RepliesAfter, InboxAfter
  <1>10. ASSUME LapseEffect \/ Stutter PROVE RedisType'
    BY <1>t, <1>10 DEF LapseEffect, Stutter, RedisType, RepliesAfter, InboxAfter
  <1>11. ASSUME NEW i \in Instance, NEW m \in Message, NEW y, SendEffect(i, m, y) PROVE RedisType'
    BY <1>t, <1>11 DEF SendEffect, RedisType, RepliesAfter, InboxAfter
  <1>12. ASSUME NEW i \in Instance, NEW h, NEW ack, PublishedEffect(i, h, ack) PROVE RedisType'
    BY <1>t, <1>12 DEF PublishedEffect, RedisType, RepliesAfter, InboxAfter
  <1>13. ASSUME NEW c \in Connection, NEW i \in Instance, DialEffect(c, i) PROVE RedisType'
    BY <1>t, <1>13 DEF DialEffect, RedisType, RepliesAfter, InboxAfter
  <1>14. ASSUME NEW c \in Connection, NEW state \in {"cut", "closed"}, DropEffect(c, state)
        PROVE  RedisType'
    BY <1>t, <1>14 DEF DropEffect, RedisType, RepliesAfter, InboxAfter
  <1>15. ASSUME NEW c \in Connection, NEW y,
               \/ AttachEffect(c, y)
                 \/ HeartbeatEffect(c, y)
                 \/ CloseEffect(c, y)
        PROVE  RedisType'
    BY <1>t, <1>15 DEF AttachEffect, HeartbeatEffect, CloseEffect, RedisType, RepliesAfter, InboxAfter
  <1>16. ASSUME NEW i \in Instance, NEW h, NEW Y, CloseOwnerEffect(i, h, Y) PROVE RedisType'
    BY <1>t, <1>16 DEF CloseOwnerEffect, RedisType, RepliesAfter, InboxAfter
  <1>17. ASSUME NEW i \in Instance, NEW h,
               \/ BeatEffect(i, h)
                 \/ DetachEffect(i, h)
                 \/ GiveUpEffect(i, h)
                 \/ WriteEffect(i, h)
                 \/ RefuseEffect(i, h)
        PROVE  RedisType'
    BY <1>t, <1>17 DEF BeatEffect, DetachEffect, GiveUpEffect, WriteEffect, RefuseEffect, RedisType, RepliesAfter, InboxAfter
  <1>18. ASSUME NEW i \in Instance, NEW h, NEW y, RetryEffect(i, h, y) \/ WelcomeEffect(i, h, y)
        PROVE  RedisType'
    BY <1>t, <1>18 DEF RetryEffect, WelcomeEffect, RedisType, RepliesAfter, InboxAfter
  <1>19. ASSUME NEW i \in Instance, NEW h, NEW r, NEW Y, RelayedEffect(i, h, r, Y)
        PROVE  RedisType'
    BY <1>t, <1>19 DEF RelayedEffect, RedisType, RepliesAfter, InboxAfter
  <1>20. ASSUME NEW i \in Instance, NEW h, NEW y, NEW Y, ReplaceEffect(i, h, y, Y)
        PROVE  RedisType'
    BY <1>t, <1>20 DEF ReplaceEffect, RedisType, RepliesAfter, InboxAfter
  <1>21. ASSUME NEW i \in Instance, NEW h, NEW k, NEW y,
               \/ LocalEffect(i, h, k, y)
                 \/ MissEffect(i, h, k, y)
        PROVE  RedisType'
    BY <1>t, <1>21 DEF LocalEffect, MissEffect, Tries, RedisType, RepliesAfter, InboxAfter
  <1>22. ASSUME NEW i \in Instance, NEW h, NEW k, NEW y, NEW Y, RemoteEffect(i, h, k, y, Y)
        PROVE  RedisType'
    BY <1>t, <1>22 DEF RemoteEffect, Tries, RedisType, RepliesAfter, InboxAfter
  <1> QED
    BY <1>1, <1>2, <1>3, <1>4, <1>5, <1>6, <1>7, <1>8, <1>9, <1>10, <1>11, <1>12, <1>13, <1>14,
       <1>15, <1>16, <1>17, <1>18, <1>19, <1>20, <1>21, <1>22 DEF Effect

LEMMA HistoryTypeStep ==
  ASSUME Base, Effect
  PROVE  HistoryType'
  <1>t. /\ HistoryType
        /\ InstanceType
    BY DEF Base, TypeOK
  <1>1. ASSUME NEW i \in Instance, NEW y, CloseDeviceEffect(i, y) PROVE HistoryType'
    BY <1>t, <1>1 DEF CloseDeviceEffect, HistoryType
  <1>2. ASSUME NEW i \in Instance, NEW Y, StopEffect(i, Y) PROVE HistoryType'
    BY <1>t, <1>2 DEF StopEffect, HistoryType
  <1>3. ASSUME NEW i \in Instance, HaltEffect(i) PROVE HistoryType'
    BY <1>t, <1>3 DEF HaltEffect, HistoryType
  <1>4. ASSUME NEW i \in Instance, NEW e, NEW Y, RejectEffect(i, e, Y) PROVE HistoryType'
    BY <1>t, <1>4 DEF RejectEffect, HistoryType
  <1>5. ASSUME NEW i \in Instance, NEW e,
               \/ LoseEffect(i, e)
                 \/ HearEffect(i, e)
                 \/ ExpelEffect(i, e)
        PROVE  HistoryType'
    BY <1>t, <1>5 DEF LoseEffect, HearEffect, ExpelEffect, HistoryType
  <1>6. ASSUME NEW i \in Instance, NEW e, NEW y, DeliverEffect(i, e, y) PROVE HistoryType'
    BY <1>t, <1>6 DEF DeliverEffect, HistoryType
  <1>7. ASSUME NEW c \in Connection, CloseOverEffect(c) PROVE HistoryType'
    BY <1>t, <1>7 DEF CloseOverEffect, HistoryType
  <1>8. ASSUME NEW m \in Message, TimeoutEffect(m) \/ AnswerEffect(m) PROVE HistoryType'
    BY <1>t, <1>8 DEF TimeoutEffect, AnswerEffect, HistoryType
  <1>9. ASSUME NEW m \in Message, NEW y, ReaskEffect(m, y) PROVE HistoryType'
    BY <1>t, <1>9 DEF ReaskEffect, HistoryType
  <1>10. ASSUME LapseEffect \/ Stutter PROVE HistoryType'
    BY <1>t, <1>10 DEF LapseEffect, Stutter, HistoryType
  <1>11. ASSUME NEW i \in Instance, NEW m \in Message, NEW y, SendEffect(i, m, y)
        PROVE  HistoryType'
    BY <1>t, <1>11 DEF SendEffect, HistoryType
  <1>12. ASSUME NEW c \in Connection, NEW i \in Instance, DialEffect(c, i) PROVE HistoryType'
    BY <1>t, <1>12 DEF DialEffect, HistoryType
  <1>13. ASSUME NEW c \in Connection, NEW state \in {"cut", "closed"}, DropEffect(c, state)
        PROVE  HistoryType'
    BY <1>t, <1>13 DEF DropEffect, HistoryType
  <1>14. ASSUME NEW c \in Connection, NEW y, HeartbeatEffect(c, y) \/ CloseEffect(c, y)
        PROVE  HistoryType'
    BY <1>t, <1>14 DEF HeartbeatEffect, CloseEffect, HistoryType
  <1>15. ASSUME NEW i \in Instance, NEW h, NEW Y, CloseOwnerEffect(i, h, Y) PROVE HistoryType'
    BY <1>t, <1>15 DEF CloseOwnerEffect, HistoryType
  <1>16. ASSUME NEW i \in Instance, NEW h, GiveUpEffect(i, h) \/ RefuseEffect(i, h)
        PROVE  HistoryType'
    BY <1>t, <1>16 DEF GiveUpEffect, RefuseEffect, HistoryType
  <1>17. ASSUME NEW i \in Instance, NEW h, BeatEffect(i, h) \/ DetachEffect(i, h)
        PROVE  HistoryType'
    BY <1>t, <1>17 DEF BeatEffect, DetachEffect, HistoryType, InstanceType, Strikes, Deleted
  <1>18. ASSUME NEW i \in Instance, NEW h, NEW y, RetryEffect(i, h, y) PROVE HistoryType'
    BY <1>t, <1>18 DEF RetryEffect, HistoryType, InstanceType, Strikes, Deleted
  <1>19. ASSUME NEW c \in Connection, NEW y, AttachEffect(c, y) PROVE HistoryType'
    <2>1. Append(claimed, c) \in Seq(Connection)
      BY <1>t DEF HistoryType
    <2> QED
      BY <1>t, <1>19, <2>1 DEF AttachEffect, HistoryType
  <1>20. ASSUME NEW i \in Instance, NEW h, NEW ack, PublishedEffect(i, h, ack) PROVE HistoryType'
    <2>1. h.id \in Message
      BY <1>20, HandledType DEF PublishedEffect, Asking
    <2> QED
      BY <1>t, <1>20, <2>1 DEF PublishedEffect, HistoryType
  <1>21. ASSUME NEW i \in Instance, NEW h, NEW y, WelcomeEffect(i, h, y) PROVE HistoryType'
    <2>1. struck' \subseteq Connection
      BY <1>t, <1>21 DEF WelcomeEffect, HistoryType, InstanceType, Enters
    <2>2. Len(claimed) \in Nat
      BY <1>t DEF HistoryType
    <2> QED
      BY <1>t, <1>21, <2>1, <2>2 DEF WelcomeEffect, HistoryType
  <1>22. ASSUME NEW i \in Instance, NEW h, NEW y, NEW Y, ReplaceEffect(i, h, y, Y)
        PROVE  HistoryType'
    BY <1>t, <1>22 DEF ReplaceEffect, HistoryType, InstanceType, Enters
  <1>23. ASSUME NEW i \in Instance, NEW h, WriteEffect(i, h) PROVE HistoryType'
    <2>1. h.id \in Message /\ h.conn \in Connection
      BY <1>23, HandledType DEF WriteEffect, Asking, Handles, Awaited
    <2> QED
      BY <1>t, <1>23, <2>1 DEF WriteEffect, HistoryType
  <1>24. ASSUME NEW i \in Instance, NEW h, NEW r, NEW Y, RelayedEffect(i, h, r, Y)
        PROVE  HistoryType'
    <2>1. h.id.msg \in Message /\ h.conn \in Connection
      BY <1>24, HandledType, EnvelopeType DEF RelayedEffect, Handles, Awaited
    <2>2. Strikes(i, h.conn) => struck' \subseteq Connection
      BY <1>t DEF HistoryType, InstanceType, Strikes, Deleted
    <2>3. written' \in [Message -> Seq(Connection)]
      <3> DEFINE m == h.id.msg
      <3>1. m \in Message /\ (written' = written \/ written' = [written EXCEPT ![m] = Append(@, h.conn)])
        BY <1>24, <2>1 DEF RelayedEffect
      <3> HIDE DEF m
      <3>2. written \in [Message -> Seq(Connection)] /\ Append(written[m], h.conn) \in Seq(Connection)
        BY <1>t, <2>1, <3>1 DEF HistoryType
      <3>3. CASE written' = written
        BY <3>2, <3>3
      <3>4. CASE written' = [written EXCEPT ![m] = Append(@, h.conn)]
        BY <3>1, <3>2, <3>4
      <3> QED
        BY <3>1, <3>3, <3>4
    <2> QED
      BY <1>t, <1>24, <2>2, <2>3 DEF RelayedEffect, HistoryType
  <1>25. ASSUME NEW i \in Instance, NEW h, NEW k, NEW y,
               \/ LocalEffect(i, h, k, y)
                 \/ MissEffect(i, h, k, y)
        PROVE  HistoryType'
    BY <1>t, <1>25 DEF LocalEffect, MissEffect, Tries, HistoryType
  <1>26. ASSUME NEW i \in Instance, NEW h, NEW k, NEW y, NEW Y, RemoteEffect(i, h, k, y, Y)
        PROVE  HistoryType'
    BY <1>t, <1>26 DEF RemoteEffect, Tries, HistoryType
  <1> QED
    BY <1>1, <1>2, <1>3, <1>4, <1>5, <1>6, <1>7, <1>8, <1>9, <1>10, <1>11, <1>12, <1>13, <1>14,
       <1>15, <1>16, <1>17, <1>18, <1>19, <1>20, <1>21, <1>22, <1>23, <1>24, <1>25, <1>26 DEF Effect

-----------------------------------------------------------------------------
(* The handlers' invariant, kept by every step.                            *)

\* A connection that was dialled stays where it is, and a closed one closed.
SocketsKept ==
  \A c \in Connection :
    /\ sock[c] # "unused" => sock'[c] # "unused" /\ host'[c] = host[c]
    /\ sock[c] = "closed" => sock'[c] = "closed"
    /\ sock'[c] = "unused" => sock[c] = "unused"
    /\ sock'[c] # "unused" <=> host'[c] \in Instance

LEMMA SocketsStep ==
  ASSUME Base, Effect
  PROVE  SocketsKept
  <1>t. /\ SocketType
        /\ \A S : \A c \in Connection :
             /\ Closed(S)[c] = "unused" <=> sock[c] = "unused"
             /\ sock[c] = "closed" => Closed(S)[c] = "closed"
    BY ClosedSockets DEF Base, TypeOK
  <1>c. \A c \in Connection : sock[c] # "unused" <=> host[c] \in Instance
    BY DEF Base, ConnInv
  <1>1. ASSUME NEW i \in Instance, NEW y, CloseDeviceEffect(i, y) PROVE SocketsKept
    BY <1>c, <1>1 DEF CloseDeviceEffect, SocketsKept
  <1>2. ASSUME NEW i \in Instance, NEW Y, StopEffect(i, Y) PROVE SocketsKept
    BY <1>c, <1>2 DEF StopEffect, SocketsKept
  <1>3. ASSUME NEW i \in Instance, NEW e, NEW Y, RejectEffect(i, e, Y) PROVE SocketsKept
    BY <1>c, <1>3 DEF RejectEffect, SocketsKept
  <1>4. ASSUME NEW i \in Instance, NEW e, LoseEffect(i, e) \/ HearEffect(i, e) PROVE SocketsKept
    BY <1>c, <1>4 DEF LoseEffect, HearEffect, SocketsKept
  <1>5. ASSUME NEW i \in Instance, NEW e, NEW y, DeliverEffect(i, e, y) PROVE SocketsKept
    BY <1>c, <1>5 DEF DeliverEffect, SocketsKept
  <1>6. ASSUME NEW c \in Connection, CloseOverEffect(c) PROVE SocketsKept
    BY <1>c, <1>6 DEF CloseOverEffect, SocketsKept
  <1>7. ASSUME NEW m \in Message, TimeoutEffect(m) PROVE SocketsKept
    BY <1>c, <1>7 DEF TimeoutEffect, SocketsKept
  <1>8. ASSUME NEW m \in Message, NEW y, ReaskEffect(m, y) PROVE SocketsKept
    BY <1>c, <1>8 DEF ReaskEffect, SocketsKept
  <1>9. ASSUME LapseEffect \/ Stutter PROVE SocketsKept
    BY <1>c, <1>9 DEF LapseEffect, Stutter, SocketsKept
  <1>10. ASSUME NEW i \in Instance, NEW m \in Message, NEW y, SendEffect(i, m, y)
        PROVE  SocketsKept
    BY <1>c, <1>10 DEF SendEffect, SocketsKept
  <1>11. ASSUME NEW i \in Instance, NEW h, NEW ack, PublishedEffect(i, h, ack) PROVE SocketsKept
    BY <1>c, <1>11 DEF PublishedEffect, SocketsKept
  <1>12. ASSUME NEW c \in Connection, NEW y,
               \/ AttachEffect(c, y)
                 \/ HeartbeatEffect(c, y)
                 \/ CloseEffect(c, y)
        PROVE  SocketsKept
    BY <1>c, <1>12 DEF AttachEffect, HeartbeatEffect, CloseEffect, SocketsKept
  <1>13. ASSUME NEW i \in Instance, NEW h, DetachEffect(i, h) \/ WriteEffect(i, h)
        PROVE  SocketsKept
    BY <1>c, <1>13 DEF DetachEffect, WriteEffect, SocketsKept
  <1>14. ASSUME NEW c \in Connection, NEW i \in Instance, DialEffect(c, i) PROVE SocketsKept
    BY <1>t, <1>c, <1>14 DEF DialEffect, SocketsKept, SocketType, Alive
  <1>15. ASSUME NEW c \in Connection, NEW state \in {"cut", "closed"}, DropEffect(c, state)
        PROVE  SocketsKept
    BY <1>t, <1>c, <1>15 DEF DropEffect, SocketsKept, SocketType, Alive
  <1>16. ASSUME NEW i \in Instance, HaltEffect(i) PROVE SocketsKept
    BY <1>t, <1>c, <1>16 DEF HaltEffect, SocketsKept, Strikes, Enters
  <1>17. ASSUME NEW i \in Instance, NEW h,
               \/ RefuseEffect(i, h)
                 \/ BeatEffect(i, h)
                 \/ GiveUpEffect(i, h)
        PROVE  SocketsKept
    BY <1>t, <1>c, <1>17 DEF RefuseEffect, BeatEffect, GiveUpEffect, SocketsKept, Strikes, Enters
  <1>18. ASSUME NEW i \in Instance, NEW h, NEW y, RetryEffect(i, h, y) \/ WelcomeEffect(i, h, y)
        PROVE  SocketsKept
    BY <1>t, <1>c, <1>18 DEF RetryEffect, WelcomeEffect, SocketsKept, Strikes, Enters
  <1>19. ASSUME NEW i \in Instance, NEW e, ExpelEffect(i, e) PROVE SocketsKept
    BY <1>t, <1>c, <1>19 DEF ExpelEffect, SocketsKept, Strikes, Enters
  <1>20. ASSUME NEW i \in Instance, NEW h, NEW Y, CloseOwnerEffect(i, h, Y) PROVE SocketsKept
    BY <1>t, <1>c, <1>20 DEF CloseOwnerEffect, SocketsKept, Strikes, Enters
  <1>21. ASSUME NEW m \in Message, AnswerEffect(m) PROVE SocketsKept
    BY <1>t, <1>c, <1>21 DEF AnswerEffect, SocketsKept, Strikes, Enters
  <1>22. ASSUME NEW i \in Instance, NEW h, NEW y, NEW Y, ReplaceEffect(i, h, y, Y)
        PROVE  SocketsKept
    BY <1>t, <1>c, <1>22 DEF ReplaceEffect, SocketsKept, Strikes, Enters
  <1>23. ASSUME NEW i \in Instance, NEW h, NEW r, NEW Y, RelayedEffect(i, h, r, Y)
        PROVE  SocketsKept
    BY <1>t, <1>c, <1>23 DEF RelayedEffect, SocketsKept, Strikes, Enters
  <1>24. ASSUME NEW i \in Instance, NEW h, NEW k, NEW y,
               \/ LocalEffect(i, h, k, y)
                 \/ MissEffect(i, h, k, y)
        PROVE  SocketsKept
    BY <1>c, <1>24 DEF LocalEffect, MissEffect, SocketsKept, Tries
  <1>25. ASSUME NEW i \in Instance, NEW h, NEW k, NEW y, NEW Y, RemoteEffect(i, h, k, y, Y)
        PROVE  SocketsKept
    BY <1>c, <1>25 DEF RemoteEffect, SocketsKept, Tries
  <1> QED
    BY <1>1, <1>2, <1>3, <1>4, <1>5, <1>6, <1>7, <1>8, <1>9, <1>10, <1>11, <1>12, <1>13, <1>14,
       <1>15, <1>16, <1>17, <1>18, <1>19, <1>20, <1>21, <1>22, <1>23, <1>24, <1>25 DEF Effect

\* The connection whose frame is being handled has been dialled.
LEMMA HandledFrame ==
  ASSUME Base, NEW i \in Instance, NEW h
  PROVE  /\ \A for \in Greeting : Handles(i, h, for) =>
              h.id \in Connection /\ host[h.id] = i /\ sock[h.id] # "unused" /\ frame[h.id] = FrameOf(for)
         /\ \A for \in Asking : Handles(i, h, for) =>
              /\ h.id \in Message /\ asks[h.id].at = i /\ asks[h.id].pc = for
              /\ h.id[1] = "welcome" => /\ h.id[2] \in Connection /\ h.id = Welcome(h.id[2])
                                        /\ host[h.id[2]] = i /\ frame[h.id[2]] = "welcome"
                                        /\ sock[h.id[2]] # "unused"
  <1>1. ASSUME NEW for \in Greeting, Handles(i, h, for)
        PROVE  h.id \in Connection /\ host[h.id] = i /\ sock[h.id] # "unused" /\ frame[h.id] = FrameOf(for)
    BY <1>1, HandledType DEF Handles, Awaited, Base, ConnInv, Greeting
  <1>2. ASSUME NEW for \in Asking, Handles(i, h, for)
        PROVE  /\ h.id \in Message /\ asks[h.id].at = i /\ asks[h.id].pc = for
               /\ h.id[1] = "welcome" => /\ h.id[2] \in Connection /\ h.id = Welcome(h.id[2])
                                         /\ host[h.id[2]] = i /\ frame[h.id[2]] = "welcome"
                                         /\ sock[h.id[2]] # "unused"
    <2>1. h.id \in Message /\ asks[h.id].at = i /\ asks[h.id].pc = for
      BY <1>2, HandledType DEF Handles, Awaited
    <2>2. h.id[1] = "welcome" => h.id[2] \in Connection /\ h.id = Welcome(h.id[2])
      BY <2>1, MessageKinds
    <2> QED
      BY <2>1, <2>2 DEF Base, ConnInv, AskInv, Busy
  <1> QED
    BY <1>1, <1>2

\* A connection that the server has heard of was dialled.
LEMMA FrameDialled ==
  ASSUME Base, Effect, SocketsKept
  PROVE  \A c \in Connection : frame'[c] # "new" => sock'[c] # "unused"
  <1> DEFINE Goal == \A c \in Connection : frame'[c] # "new" => sock'[c] # "unused"
  <1>t. /\ SocketType
        /\ \A c \in Connection : frame[c] # "new" => sock[c] # "unused"
        /\ \A c \in Connection : sock[c] # "unused" => sock'[c] # "unused"
        /\ \A c \in Connection : sock[c] # "unused" <=> host[c] \in Instance
    BY DEF Base, TypeOK, ConnInv, SocketsKept
  <1>u. frame' = frame => Goal
    BY <1>t
  <1>1. ASSUME NEW i \in Instance, NEW y, CloseDeviceEffect(i, y) PROVE Goal
    BY <1>u, <1>1 DEF CloseDeviceEffect
  <1>2. ASSUME NEW i \in Instance, NEW Y, StopEffect(i, Y) PROVE Goal
    BY <1>u, <1>2 DEF StopEffect
  <1>3. ASSUME NEW i \in Instance, NEW e, NEW Y, RejectEffect(i, e, Y) PROVE Goal
    BY <1>u, <1>3 DEF RejectEffect
  <1>4. ASSUME NEW i \in Instance, NEW e,
               \/ LoseEffect(i, e)
                 \/ HearEffect(i, e)
                 \/ ExpelEffect(i, e)
        PROVE  Goal
    BY <1>u, <1>4 DEF LoseEffect, HearEffect, ExpelEffect
  <1>5. ASSUME NEW i \in Instance, NEW e, NEW y, DeliverEffect(i, e, y) PROVE Goal
    BY <1>u, <1>5 DEF DeliverEffect
  <1>6. ASSUME NEW c \in Connection, CloseOverEffect(c) PROVE Goal
    BY <1>u, <1>6 DEF CloseOverEffect
  <1>7. ASSUME NEW m \in Message, TimeoutEffect(m) PROVE Goal
    BY <1>u, <1>7 DEF TimeoutEffect
  <1>8. ASSUME NEW m \in Message, NEW y, ReaskEffect(m, y) PROVE Goal
    BY <1>u, <1>8 DEF ReaskEffect
  <1>9. ASSUME LapseEffect \/ Stutter PROVE Goal
    BY <1>u, <1>9 DEF LapseEffect, Stutter
  <1>10. ASSUME NEW i \in Instance, NEW m \in Message, NEW y, SendEffect(i, m, y) PROVE Goal
    BY <1>u, <1>10 DEF SendEffect
  <1>11. ASSUME NEW i \in Instance, NEW h, NEW ack, PublishedEffect(i, h, ack) PROVE Goal
    BY <1>u, <1>11 DEF PublishedEffect
  <1>12. ASSUME NEW c \in Connection, NEW y, CloseEffect(c, y) PROVE Goal
    BY <1>u, <1>12 DEF CloseEffect
  <1>13. ASSUME NEW c \in Connection, NEW i \in Instance, DialEffect(c, i) PROVE Goal
    BY <1>u, <1>13 DEF DialEffect
  <1>14. ASSUME NEW c \in Connection, NEW state \in {"cut", "closed"}, DropEffect(c, state)
        PROVE  Goal
    BY <1>u, <1>14 DEF DropEffect
  <1>15. ASSUME NEW i \in Instance, NEW h, DetachEffect(i, h) PROVE Goal
    BY <1>u, <1>15 DEF DetachEffect
  <1>16. ASSUME NEW i \in Instance, NEW h, NEW y, RetryEffect(i, h, y) PROVE Goal
    BY <1>u, <1>16 DEF RetryEffect
  <1>17. ASSUME NEW i \in Instance, NEW h, NEW Y, CloseOwnerEffect(i, h, Y) PROVE Goal
    BY <1>u, <1>17 DEF CloseOwnerEffect
  <1>18. ASSUME NEW i \in Instance, NEW h, NEW r, NEW Y, RelayedEffect(i, h, r, Y) PROVE Goal
    BY <1>u, <1>18 DEF RelayedEffect
  <1>19. ASSUME NEW i \in Instance, NEW h, NEW k, NEW y,
               \/ LocalEffect(i, h, k, y)
                 \/ MissEffect(i, h, k, y)
        PROVE  Goal
    BY <1>u, <1>19 DEF LocalEffect, MissEffect, Tries
  <1>20. ASSUME NEW i \in Instance, NEW h, NEW k, NEW y, NEW Y, RemoteEffect(i, h, k, y, Y)
        PROVE  Goal
    BY <1>u, <1>20 DEF RemoteEffect, Tries
  <1>21. ASSUME NEW c \in Connection, NEW y, AttachEffect(c, y) \/ HeartbeatEffect(c, y)
        PROVE  Goal
    BY <1>t, <1>21 DEF AttachEffect, HeartbeatEffect, SocketType, Alive
  <1>22. ASSUME NEW i \in Instance, HaltEffect(i) PROVE Goal
    BY <1>t, <1>22 DEF HaltEffect, SocketType, Alive
  <1>23. ASSUME NEW i \in Instance, NEW h, RefuseEffect(i, h) \/ BeatEffect(i, h) PROVE Goal
    <2>1. h.id \in Connection /\ sock[h.id] # "unused"
      BY <1>23, HandledFrame DEF RefuseEffect, BeatEffect, Greeting
    <2> QED
      BY <1>t, <1>23, <2>1 DEF RefuseEffect, BeatEffect, SocketType
  <1>24. ASSUME NEW i \in Instance, NEW h, NEW y, WelcomeEffect(i, h, y) PROVE Goal
    <2>1. h.id \in Connection /\ sock[h.id] # "unused"
      BY <1>24, HandledFrame DEF WelcomeEffect, Greeting
    <2> QED
      BY <1>t, <1>24, <2>1 DEF WelcomeEffect, SocketType
  <1>25. ASSUME NEW i \in Instance, NEW h, NEW y, NEW Y, ReplaceEffect(i, h, y, Y) PROVE Goal
    <2>1. h.id \in Connection /\ sock[h.id] # "unused"
      BY <1>25, HandledFrame DEF ReplaceEffect, Greeting
    <2> QED
      BY <1>t, <1>25, <2>1 DEF ReplaceEffect, SocketType
  <1>26. ASSUME NEW i \in Instance, NEW h, GiveUpEffect(i, h) \/ WriteEffect(i, h) PROVE Goal
    <2>1. h.id[1] = "welcome" => h.id[2] \in Connection /\ sock[h.id[2]] # "unused"
      BY <1>26, HandledFrame DEF GiveUpEffect, WriteEffect, Asking
    <2> QED
      BY <1>t, <1>26, <2>1 DEF GiveUpEffect, WriteEffect, SocketType, FrameAfter
  <1>27. ASSUME NEW m \in Message, AnswerEffect(m) PROVE Goal
    <2>1. m[1] = "welcome" => m[2] \in Connection /\ m = Welcome(m[2])
      BY MessageKinds
    <2>2. m[1] = "welcome" => frame[m[2]] = "welcome"
      BY <1>27, <2>1 DEF AnswerEffect, Base, AskInv, Busy
    <2> QED
      BY <1>t, <1>27, <2>1, <2>2 DEF AnswerEffect, SocketType, FrameAfter
  <1> QED
    BY <1>1, <1>2, <1>3, <1>4, <1>5, <1>6, <1>7, <1>8, <1>9, <1>10, <1>11, <1>12, <1>13, <1>14,
       <1>15, <1>16, <1>17, <1>18, <1>19, <1>20, <1>21, <1>22, <1>23, <1>24, <1>25, <1>26, <1>27 DEF Effect

\* The value of a reply that is awaited is the owner, or a connection that is.
LEMMA PledgeValue ==
  ASSUME RedisType, NEW y, NEW for, NEW id, NEW conn
  PROVE  /\ Pledge(y, for, id, conn, presence) => y.val \in {None, presence}
         /\ \A c : Pledge(y, for, id, conn, Owns(c)) => y.val \in {None, presence}
         /\ Pledge(y, for, id, conn, None) => y.val = None
  BY DEF Pledge, Owns

\* The owner of the presence key and the values of the replies were dialled.
LEMMA OwnerDialled ==
  ASSUME Base, Effect, SocketsKept
  PROVE  /\ presence' # None => sock'[presence'] # "unused"
         /\ \A j \in Instance : \A r \in Range(replies'[j]) : r.val # None => sock'[r.val] # "unused"
  <1> DEFINE Goal == /\ presence' # None => sock'[presence'] # "unused"
                     /\ \A j \in Instance : \A r \in Range(replies'[j]) :
                          r.val # None => sock'[r.val] # "unused"
  <1>t. /\ RedisType /\ presence \in Connection \cup {None}
        /\ presence # None => sock[presence] # "unused"
        /\ \A j \in Instance : \A r \in Range(replies[j]) : r.val # None => sock[r.val] # "unused"
        /\ \A c \in Connection : sock[c] # "unused" => sock'[c] # "unused"
        /\ \A j \in Instance : \A r \in Range(replies[j]) : r.val \in Connection \cup {None}
    <2>1. \A j \in Instance : \A r \in Range(replies[j]) : r \in Replies
      BY QueueRange DEF Base, TypeOK, RedisType
    <2>2. \A r \in Replies : r.val \in Connection \cup {None}
      BY DEF Replies
    <2> QED
      BY <2>1, <2>2 DEF Base, TypeOK, RedisType, ConnInv, SocketsKept
  <1>u. ASSUME presence' \in {presence, None},
               \A j \in Instance : \A r \in Range(replies'[j]) :
                 r \in Range(replies[j]) \/ r.val \in {None, presence}
        PROVE  Goal
    BY <1>t, <1>u
  <1> HIDE DEF Goal
  <1>1. ASSUME NEW i \in Instance, NEW e, NEW Y, RejectEffect(i, e, Y) PROVE Goal
    BY <1>u, <1>1 DEF RejectEffect
  <1>2. ASSUME NEW i \in Instance, NEW e,
               \/ HearEffect(i, e)
                 \/ LoseEffect(i, e)
                 \/ ExpelEffect(i, e)
        PROVE  Goal
    BY <1>u, <1>2 DEF HearEffect, LoseEffect, ExpelEffect
  <1>3. ASSUME NEW c \in Connection, CloseOverEffect(c) PROVE Goal
    BY <1>u, <1>3 DEF CloseOverEffect
  <1>4. ASSUME NEW m \in Message, TimeoutEffect(m) \/ AnswerEffect(m) PROVE Goal
    BY <1>u, <1>4 DEF TimeoutEffect, AnswerEffect
  <1>5. ASSUME LapseEffect \/ Stutter PROVE Goal
    BY <1>u, <1>5 DEF LapseEffect, Stutter
  <1>6. ASSUME NEW c \in Connection, NEW i \in Instance, DialEffect(c, i) PROVE Goal
    BY <1>u, <1>6 DEF DialEffect
  <1>7. ASSUME NEW c \in Connection, NEW state \in {"cut", "closed"}, DropEffect(c, state)
        PROVE  Goal
    BY <1>u, <1>7 DEF DropEffect
  <1>8. ASSUME NEW i \in Instance, NEW h,
               \/ RefuseEffect(i, h)
                 \/ BeatEffect(i, h)
                 \/ DetachEffect(i, h)
                 \/ GiveUpEffect(i, h)
                 \/ WriteEffect(i, h)
        PROVE  Goal
    BY <1>u, <1>8 DEF RefuseEffect, BeatEffect, DetachEffect, GiveUpEffect, WriteEffect, RepliesAfter
  <1>9. ASSUME NEW i \in Instance, NEW h, NEW ack, PublishedEffect(i, h, ack) PROVE Goal
    BY <1>u, <1>9 DEF PublishedEffect, RepliesAfter
  <1>10. ASSUME NEW i \in Instance, NEW h, NEW r, NEW Y, RelayedEffect(i, h, r, Y) PROVE Goal
    BY <1>u, <1>10 DEF RelayedEffect, RepliesAfter
  <1>11. ASSUME NEW i \in Instance, NEW h, NEW Y, CloseOwnerEffect(i, h, Y) PROVE Goal
    BY <1>u, <1>11 DEF CloseOwnerEffect, RepliesAfter
  <1>12. ASSUME NEW c \in Connection, NEW y, HeartbeatEffect(c, y) \/ CloseEffect(c, y) PROVE Goal
    <2>1. y.val \in {None, presence}
      BY <1>t, <1>12, PledgeValue DEF HeartbeatEffect, CloseEffect
    <2> QED
      BY <1>u, <1>12, <2>1 DEF HeartbeatEffect, CloseEffect, RepliesAfter
  <1>13. ASSUME NEW i \in Instance, NEW y, CloseDeviceEffect(i, y) PROVE Goal
    <2>1. y.val \in {None, presence}
      BY <1>t, <1>13, PledgeValue DEF CloseDeviceEffect
    <2> QED
      BY <1>u, <1>13, <2>1 DEF CloseDeviceEffect, RepliesAfter
  <1>14. ASSUME NEW i \in Instance, NEW m \in Message, NEW y, SendEffect(i, m, y) PROVE Goal
    <2>1. y.val \in {None, presence}
      BY <1>t, <1>14, PledgeValue DEF SendEffect
    <2> QED
      BY <1>u, <1>14, <2>1 DEF SendEffect, RepliesAfter
  <1>15. ASSUME NEW m \in Message, NEW y, ReaskEffect(m, y) PROVE Goal
    <2>1. y.val \in {None, presence}
      BY <1>t, <1>15, PledgeValue DEF ReaskEffect
    <2> QED
      BY <1>u, <1>15, <2>1 DEF ReaskEffect, RepliesAfter
  <1>16. ASSUME NEW i \in Instance, NEW e, NEW y, DeliverEffect(i, e, y) PROVE Goal
    <2>1. y.val \in {None, presence}
      BY <1>t, <1>16, PledgeValue DEF DeliverEffect
    <2> QED
      BY <1>u, <1>16, <2>1 DEF DeliverEffect, RepliesAfter
  <1>17. ASSUME NEW i \in Instance, NEW h, NEW y, WelcomeEffect(i, h, y) \/ RetryEffect(i, h, y)
        PROVE  Goal
    <2>1. y.val \in {None, presence}
      BY <1>t, <1>17, PledgeValue DEF WelcomeEffect, RetryEffect
    <2> QED
      BY <1>u, <1>17, <2>1 DEF WelcomeEffect, RetryEffect, RepliesAfter
  <1>18. ASSUME NEW i \in Instance, NEW h, NEW y, NEW Y, ReplaceEffect(i, h, y, Y) PROVE Goal
    <2>1. y.val \in {None, presence}
      BY <1>t, <1>18, PledgeValue DEF ReplaceEffect
    <2> QED
      BY <1>u, <1>18, <2>1 DEF ReplaceEffect, RepliesAfter
  <1>19. ASSUME NEW i \in Instance, NEW h, NEW k, NEW y,
               \/ LocalEffect(i, h, k, y)
                 \/ MissEffect(i, h, k, y)
        PROVE  Goal
    <2>1. y.val \in {None, presence}
      BY <1>t, <1>19, PledgeValue DEF LocalEffect, MissEffect
    <2> QED
      BY <1>u, <1>19, <2>1 DEF LocalEffect, MissEffect, RepliesAfter, Tries
  <1>20. ASSUME NEW i \in Instance, NEW h, NEW k, NEW y, NEW Y, RemoteEffect(i, h, k, y, Y)
        PROVE  Goal
    <2>1. y.val \in {None, presence}
      BY <1>t, <1>20, PledgeValue DEF RemoteEffect
    <2> QED
      BY <1>u, <1>20, <2>1 DEF RemoteEffect, RepliesAfter, Tries
  <1>21. ASSUME NEW c \in Connection, NEW y, AttachEffect(c, y) PROVE Goal
    <2>1. y.val \in {None, presence}
      BY <1>t, <1>21, PledgeValue DEF AttachEffect
    <2>2. sock'[c] # "unused"
      BY <1>t, <1>21 DEF AttachEffect, Alive
    <2>3. \A j \in Instance : \A r \in Range(replies'[j]) :
            r \in Range(replies[j]) \/ r.val \in {None, presence}
      BY <1>21, <2>1 DEF AttachEffect, RepliesAfter
    <2> QED
      BY <1>t, <1>21, <2>2, <2>3 DEF AttachEffect, Goal
  <1>22. ASSUME NEW i \in Instance, NEW Y, StopEffect(i, Y) PROVE Goal
    <2>1. \A y \in Y : y.val \in {None, presence}
      BY <1>t, <1>22, PledgeValue DEF StopEffect
    <2> QED
      BY <1>u, <1>22, <2>1 DEF StopEffect, RepliesAfter
  <1>23. ASSUME NEW i \in Instance, HaltEffect(i) PROVE Goal
    <2>1. \A j \in Instance : \A r \in Range(replies'[j]) : r \in Range(replies[j])
      BY <1>23 DEF HaltEffect
    <2> QED
      BY <1>u, <1>23, <2>1 DEF HaltEffect
  <1> QED
    BY <1>1, <1>2, <1>3, <1>4, <1>5, <1>6, <1>7, <1>8, <1>9, <1>10, <1>11, <1>12, <1>13, <1>14,
       <1>15, <1>16, <1>17, <1>18, <1>19, <1>20, <1>21, <1>22, <1>23 DEF Effect, Goal

LEMMA ConnStep ==
  ASSUME Base, Effect
  PROVE  ConnInv'
  <1> DEFINE Goal == \A j \in Instance : agents'[j] # None => host'[agents'[j]] = j
  <1>s. SocketsKept
    BY SocketsStep
  <1>t. /\ InstanceType
        /\ \A j \in Instance : agents[j] # None => host[agents[j]] = j
        /\ \A c \in Connection : sock[c] # "unused" => host'[c] = host[c]
        /\ \A c \in Connection : sock[c] # "unused" <=> host[c] \in Instance
    BY <1>s DEF Base, TypeOK, ConnInv, SocketsKept
  <1>u. ASSUME \A j \in Instance : agents'[j] \in {agents[j], None} PROVE Goal
    BY <1>t, <1>u DEF InstanceType
  <1>d. \A i \in Instance : \A c : Deleted(i, c) => \A j \in Instance : agents'[j] \in {agents[j], None}
    BY <1>t DEF Deleted, InstanceType
  <1> HIDE DEF Goal
  <1>1. ASSUME NEW i \in Instance, NEW y, CloseDeviceEffect(i, y) PROVE Goal
    BY <1>u, <1>1 DEF CloseDeviceEffect
  <1>2. ASSUME NEW i \in Instance, NEW Y, StopEffect(i, Y) PROVE Goal
    BY <1>u, <1>2 DEF StopEffect
  <1>3. ASSUME NEW i \in Instance, NEW e, NEW Y, RejectEffect(i, e, Y) PROVE Goal
    BY <1>u, <1>3 DEF RejectEffect
  <1>4. ASSUME NEW i \in Instance, NEW e,
               \/ LoseEffect(i, e)
                 \/ HearEffect(i, e)
                 \/ ExpelEffect(i, e)
        PROVE  Goal
    BY <1>u, <1>4 DEF LoseEffect, HearEffect, ExpelEffect
  <1>5. ASSUME NEW i \in Instance, NEW e, NEW y, DeliverEffect(i, e, y) PROVE Goal
    BY <1>u, <1>5 DEF DeliverEffect
  <1>6. ASSUME NEW c \in Connection, CloseOverEffect(c) PROVE Goal
    BY <1>u, <1>6 DEF CloseOverEffect
  <1>7. ASSUME NEW m \in Message, TimeoutEffect(m) \/ AnswerEffect(m) PROVE Goal
    BY <1>u, <1>7 DEF TimeoutEffect, AnswerEffect
  <1>8. ASSUME NEW m \in Message, NEW y, ReaskEffect(m, y) PROVE Goal
    BY <1>u, <1>8 DEF ReaskEffect
  <1>9. ASSUME LapseEffect \/ Stutter PROVE Goal
    BY <1>u, <1>9 DEF LapseEffect, Stutter
  <1>10. ASSUME NEW i \in Instance, NEW m \in Message, NEW y, SendEffect(i, m, y) PROVE Goal
    BY <1>u, <1>10 DEF SendEffect
  <1>11. ASSUME NEW i \in Instance, NEW h, NEW ack, PublishedEffect(i, h, ack) PROVE Goal
    BY <1>u, <1>11 DEF PublishedEffect
  <1>12. ASSUME NEW c \in Connection, NEW y,
               \/ CloseEffect(c, y)
                 \/ AttachEffect(c, y)
                 \/ HeartbeatEffect(c, y)
        PROVE  Goal
    BY <1>u, <1>12 DEF CloseEffect, AttachEffect, HeartbeatEffect
  <1>13. ASSUME NEW c \in Connection, NEW i \in Instance, DialEffect(c, i) PROVE Goal
    BY <1>u, <1>13 DEF DialEffect
  <1>14. ASSUME NEW c \in Connection, NEW state \in {"cut", "closed"}, DropEffect(c, state)
        PROVE  Goal
    BY <1>u, <1>14 DEF DropEffect
  <1>15. ASSUME NEW i \in Instance, NEW h, NEW Y, CloseOwnerEffect(i, h, Y) PROVE Goal
    BY <1>u, <1>15 DEF CloseOwnerEffect
  <1>16. ASSUME NEW i \in Instance, NEW h,
               \/ RefuseEffect(i, h)
                 \/ GiveUpEffect(i, h)
                 \/ WriteEffect(i, h)
        PROVE  Goal
    BY <1>u, <1>16 DEF RefuseEffect, GiveUpEffect, WriteEffect
  <1>17. ASSUME NEW i \in Instance, HaltEffect(i) PROVE Goal
    BY <1>t, <1>u, <1>17 DEF HaltEffect, InstanceType
  <1>18. ASSUME NEW i \in Instance, NEW h, NEW k, NEW y,
               \/ LocalEffect(i, h, k, y)
                 \/ MissEffect(i, h, k, y)
        PROVE  Goal
    BY <1>u, <1>18 DEF LocalEffect, MissEffect, Tries
  <1>19. ASSUME NEW i \in Instance, NEW h, NEW k, NEW y, NEW Y, RemoteEffect(i, h, k, y, Y)
        PROVE  Goal
    BY <1>u, <1>19 DEF RemoteEffect, Tries
  <1>20. ASSUME NEW i \in Instance, NEW h, BeatEffect(i, h) \/ DetachEffect(i, h) PROVE Goal
    BY <1>u, <1>d, <1>20 DEF BeatEffect, DetachEffect, Strikes
  <1>21. ASSUME NEW i \in Instance, NEW h, NEW y, RetryEffect(i, h, y) PROVE Goal
    BY <1>u, <1>d, <1>21 DEF RetryEffect, Strikes
  <1>22. ASSUME NEW i \in Instance, NEW h, NEW r, NEW Y, RelayedEffect(i, h, r, Y) PROVE Goal
    BY <1>u, <1>d, <1>22 DEF RelayedEffect, Strikes
  <1>23. ASSUME NEW i \in Instance, NEW h, NEW y, WelcomeEffect(i, h, y) PROVE Goal
    <2>1.  h.id \in Connection /\ host[h.id] = i /\ sock[h.id] # "unused"
      BY <1>23, HandledFrame DEF WelcomeEffect, Greeting
    <2> QED
      BY <1>t, <1>u, <1>23, <2>1 DEF WelcomeEffect, Enters, InstanceType, Goal
  <1>24. ASSUME NEW i \in Instance, NEW h, NEW y, NEW Y, ReplaceEffect(i, h, y, Y) PROVE Goal
    <2>1.  h.id \in Connection /\ host[h.id] = i /\ sock[h.id] # "unused"
      BY <1>24, HandledFrame DEF ReplaceEffect, Greeting
    <2> QED
      BY <1>t, <1>u, <1>24, <2>1 DEF ReplaceEffect, Enters, InstanceType, Goal
  <1>g. Goal
    BY <1>1, <1>2, <1>3, <1>4, <1>5, <1>6, <1>7, <1>8, <1>9, <1>10, <1>11, <1>12, <1>13, <1>14,
       <1>15, <1>16, <1>17, <1>18, <1>19, <1>20, <1>21, <1>22, <1>23, <1>24 DEF Effect
  <1> QED
    BY <1>s, <1>g, FrameDialled, OwnerDialled DEF ConnInv, SocketsKept, Goal

\* A call of sendToAgent stays with the instance that made it.
CallsKept ==
  \A m \in Message :
    /\ asks[m].pc # "idle" => asks'[m].at = asks[m].at
    /\ asks'[m].pc = "idle" <=> asks'[m].at = None

LEMMA CallsStep ==
  ASSUME Base, Effect
  PROVE  CallsKept
  <1>t. /\ \A m \in Message : asks[m].pc = "idle" <=> asks[m].at = None
        /\ \A i \in Instance : i # None
    BY HubAssumption DEF Base, AskInv, None
  <1>u. asks' = asks => CallsKept
    BY <1>t DEF CallsKept
  <1>1. ASSUME NEW i \in Instance, NEW y, CloseDeviceEffect(i, y) PROVE CallsKept
    BY <1>u, <1>1 DEF CloseDeviceEffect
  <1>2. ASSUME NEW i \in Instance, NEW e, NEW Y, RejectEffect(i, e, Y) PROVE CallsKept
    BY <1>u, <1>2 DEF RejectEffect
  <1>3. ASSUME NEW i \in Instance, NEW e, LoseEffect(i, e) \/ ExpelEffect(i, e) PROVE CallsKept
    BY <1>u, <1>3 DEF LoseEffect, ExpelEffect
  <1>4. ASSUME NEW i \in Instance, NEW e, NEW y, DeliverEffect(i, e, y) PROVE CallsKept
    BY <1>u, <1>4 DEF DeliverEffect
  <1>5. ASSUME NEW c \in Connection, CloseOverEffect(c) PROVE CallsKept
    BY <1>u, <1>5 DEF CloseOverEffect
  <1>6. ASSUME LapseEffect \/ Stutter PROVE CallsKept
    BY <1>u, <1>6 DEF LapseEffect, Stutter
  <1>7. ASSUME NEW c \in Connection, NEW y,
               \/ CloseEffect(c, y)
                 \/ AttachEffect(c, y)
                 \/ HeartbeatEffect(c, y)
        PROVE  CallsKept
    BY <1>u, <1>7 DEF CloseEffect, AttachEffect, HeartbeatEffect
  <1>8. ASSUME NEW c \in Connection, NEW i \in Instance, DialEffect(c, i) PROVE CallsKept
    BY <1>u, <1>8 DEF DialEffect
  <1>9. ASSUME NEW c \in Connection, NEW state \in {"cut", "closed"}, DropEffect(c, state)
        PROVE  CallsKept
    BY <1>u, <1>9 DEF DropEffect
  <1>10. ASSUME NEW i \in Instance, NEW h, NEW Y, CloseOwnerEffect(i, h, Y) PROVE CallsKept
    BY <1>u, <1>10 DEF CloseOwnerEffect
  <1>11. ASSUME NEW i \in Instance, NEW h,
               \/ RefuseEffect(i, h)
                 \/ BeatEffect(i, h)
                 \/ DetachEffect(i, h)
        PROVE  CallsKept
    BY <1>u, <1>11 DEF RefuseEffect, BeatEffect, DetachEffect
  <1>12. ASSUME NEW i \in Instance, NEW h, NEW r, NEW Y, RelayedEffect(i, h, r, Y) PROVE CallsKept
    BY <1>u, <1>12 DEF RelayedEffect
  <1>13. ASSUME NEW i \in Instance, NEW h, NEW y, NEW Y, ReplaceEffect(i, h, y, Y) PROVE CallsKept
    BY <1>u, <1>13 DEF ReplaceEffect
  <1>14. ASSUME NEW i \in Instance, NEW Y, StopEffect(i, Y) PROVE CallsKept
    BY <1>t, <1>14 DEF StopEffect, CallsKept
  <1>15. ASSUME NEW i \in Instance, HaltEffect(i) PROVE CallsKept
    <2>1. \A m \in Message :
            /\ asks'[m].at = asks[m].at
            /\ asks'[m].pc = asks[m].pc \/ (asks'[m].pc = "lost" /\ asks[m].at = i)
      BY <1>15 DEF HaltEffect
    <2> QED
      BY <1>t, <2>1 DEF CallsKept
  <1>16. ASSUME NEW i \in Instance, NEW m \in Message, NEW y, SendEffect(i, m, y) PROVE CallsKept
    BY <1>t, <1>16 DEF SendEffect, CallsKept, AskAfter, Pending
  <1>17. ASSUME NEW m \in Message, NEW y, ReaskEffect(m, y) PROVE CallsKept
    BY <1>t, <1>17 DEF ReaskEffect, CallsKept, AskAfter, Pending
  <1>18. ASSUME NEW m \in Message, AnswerEffect(m) \/ TimeoutEffect(m) PROVE CallsKept
    BY <1>t, <1>18 DEF AnswerEffect, TimeoutEffect, CallsKept, AskAfter, Pending
  <1>19. ASSUME NEW i \in Instance, NEW h, NEW y, WelcomeEffect(i, h, y) PROVE CallsKept
    <2>1. h.id \in Connection /\ frame[h.id] \in {"claim", "publish"}
      BY <1>19, HandledFrame DEF WelcomeEffect, Greeting, FrameOf
    <2>2. Welcome(h.id) \in Message /\ asks[Welcome(h.id)].pc = "idle"
      BY <2>1, MessageKinds DEF Base, AskInv
    <2> QED
      BY <1>t, <1>19, <2>2 DEF WelcomeEffect, CallsKept, AskAfter
  <1>20. ASSUME NEW i \in Instance, NEW e, HearEffect(i, e) PROVE CallsKept
    <2>1. e.msg \in Message
      BY <1>20, EnvelopeType DEF HearEffect, Takes
    <2> QED
      BY <1>t, <1>u, <1>20, <2>1 DEF HearEffect, CallsKept, AskAfter, Pending
  <1>21. ASSUME NEW i \in Instance, NEW h, NEW k, NEW y,
               \/ LocalEffect(i, h, k, y)
                 \/ MissEffect(i, h, k, y)
        PROVE  CallsKept
    <2>1. h.id \in Message /\ asks[h.id].at = i
      BY <1>21, HandledFrame DEF LocalEffect, MissEffect, Tries, Asking
    <2> QED
      BY <1>t, <1>21, <2>1 DEF LocalEffect, MissEffect, Tries, CallsKept, AskAfter
  <1>22. ASSUME NEW i \in Instance, NEW h, NEW k, NEW y, NEW Y, RemoteEffect(i, h, k, y, Y)
        PROVE  CallsKept
    <2>1. h.id \in Message /\ asks[h.id].at = i
      BY <1>22, HandledFrame DEF RemoteEffect, Tries, Asking
    <2> QED
      BY <1>t, <1>22, <2>1 DEF RemoteEffect, Tries, CallsKept, AskAfter
  <1>23. ASSUME NEW i \in Instance, NEW h, GiveUpEffect(i, h) \/ WriteEffect(i, h) PROVE CallsKept
    <2>1. h.id \in Message /\ asks[h.id].at = i
      BY <1>23, HandledFrame DEF GiveUpEffect, WriteEffect, Asking
    <2> QED
      BY <1>t, <1>23, <2>1 DEF GiveUpEffect, WriteEffect, CallsKept, AskAfter
  <1>24. ASSUME NEW i \in Instance, NEW h, NEW y, RetryEffect(i, h, y) PROVE CallsKept
    <2>1. h.id \in Message /\ asks[h.id].at = i
      BY <1>24, HandledFrame DEF RetryEffect, Asking
    <2> QED
      BY <1>t, <1>24, <2>1 DEF RetryEffect, CallsKept, AskAfter
  <1>25. ASSUME NEW i \in Instance, NEW h, NEW ack, PublishedEffect(i, h, ack) PROVE CallsKept
    <2>1. h.id \in Message /\ asks[h.id].at = i
      BY <1>25, HandledFrame DEF PublishedEffect, Asking
    <2> QED
      BY <1>t, <1>25, <2>1 DEF PublishedEffect, CallsKept, AskAfter
  <1> QED
    BY <1>1, <1>2, <1>3, <1>4, <1>5, <1>6, <1>7, <1>8, <1>9, <1>10, <1>11, <1>12, <1>13, <1>14,
       <1>15, <1>16, <1>17, <1>18, <1>19, <1>20, <1>21, <1>22, <1>23, <1>24, <1>25 DEF Effect

\* A hello's handler calls sendToAgent last, and waits for the answer.
WelcomeAwaited ==
  \A c \in Connection :
    /\ frame[c] \in {"new", "claim", "publish"} => asks[Welcome(c)].pc = "idle"
    /\ asks[Welcome(c)].pc \in Busy => frame[c] = "welcome" /\ asks[Welcome(c)].at = host[c]

LEMMA WelcomeStep ==
  ASSUME Base, Effect, SocketsKept
  PROVE  WelcomeAwaited'
  <1>t. /\ SocketType /\ InstanceType /\ WelcomeAwaited
        /\ \A c \in Connection : host'[c] = host[c] \/ (frame[c] = "new" /\ sock[c] = "unused")
        /\ \A c \in Connection : Welcome(c) \in Message
    BY MessageKinds DEF Base, TypeOK, SocketsKept, ConnInv, AskInv, WelcomeAwaited
  <1>b. Busy = {"owner", "again", "local", "publish", "wait"}
    BY DEF Busy, Asking
  <1>u. ASSUME asks' = asks, frame' = frame PROVE WelcomeAwaited'
    BY <1>t, <1>b, <1>u DEF WelcomeAwaited
  \* A call that goes on, of a message whose answer is awaited.
  <1>v. ASSUME NEW m \in Message, asks[m].pc \in Busy, frame' = frame, asks'[m].at = asks[m].at,
               asks'[m].pc \in Busy, \A x \in Message : x # m => asks'[x] = asks[x]
        PROVE  WelcomeAwaited'
    BY <1>t, <1>b, <1>v DEF WelcomeAwaited
  \* An answer.
  <1>w. ASSUME NEW m \in Message, asks[m].pc \in Busy, FrameAfter(m),
               asks'[m].pc \in {"sent", "unsent"}, \A x \in Message : x # m => asks'[x] = asks[x]
        PROVE  WelcomeAwaited'
    <2>1. CASE m[1] = "welcome"
      <3>1. m[2] \in Connection /\ m = Welcome(m[2]) /\ frame' = [frame EXCEPT ![m[2]] = "idle"]
        BY <1>w, <2>1, MessageKinds DEF FrameAfter
      <3>2. \A c \in Connection : c # m[2] => Welcome(c) # m
        BY <3>1 DEF Welcome
      <3> QED
        BY <1>t, <1>b, <1>w, <3>1, <3>2 DEF WelcomeAwaited, SocketType
    <2>2. CASE m[1] # "welcome"
      <3>1. frame' = frame /\ \A c \in Connection : Welcome(c) # m
        BY <1>w, <2>2, MessageKinds DEF FrameAfter
      <3> QED
        BY <1>t, <1>b, <1>w, <3>1 DEF WelcomeAwaited
    <2> QED
      BY <2>1, <2>2
  <1>1. ASSUME NEW i \in Instance, NEW y, CloseDeviceEffect(i, y) PROVE WelcomeAwaited'
    BY <1>u, <1>1 DEF CloseDeviceEffect
  <1>2. ASSUME NEW i \in Instance, NEW e, NEW Y, RejectEffect(i, e, Y) PROVE WelcomeAwaited'
    BY <1>u, <1>2 DEF RejectEffect
  <1>3. ASSUME NEW i \in Instance, NEW e, LoseEffect(i, e) \/ ExpelEffect(i, e)
        PROVE  WelcomeAwaited'
    BY <1>u, <1>3 DEF LoseEffect, ExpelEffect
  <1>4. ASSUME NEW i \in Instance, NEW e, NEW y, DeliverEffect(i, e, y) PROVE WelcomeAwaited'
    BY <1>u, <1>4 DEF DeliverEffect
  <1>5. ASSUME NEW c \in Connection, CloseOverEffect(c) PROVE WelcomeAwaited'
    BY <1>u, <1>5 DEF CloseOverEffect
  <1>6. ASSUME LapseEffect \/ Stutter PROVE WelcomeAwaited'
    BY <1>u, <1>6 DEF LapseEffect, Stutter
  <1>7. ASSUME NEW c \in Connection, NEW y, CloseEffect(c, y) PROVE WelcomeAwaited'
    BY <1>u, <1>7 DEF CloseEffect
  <1>8. ASSUME NEW c \in Connection, NEW i \in Instance, DialEffect(c, i) PROVE WelcomeAwaited'
    BY <1>u, <1>8 DEF DialEffect
  <1>9. ASSUME NEW c \in Connection, NEW state \in {"cut", "closed"}, DropEffect(c, state)
        PROVE  WelcomeAwaited'
    BY <1>u, <1>9 DEF DropEffect
  <1>10. ASSUME NEW i \in Instance, NEW h, NEW Y, CloseOwnerEffect(i, h, Y) PROVE WelcomeAwaited'
    BY <1>u, <1>10 DEF CloseOwnerEffect
  <1>11. ASSUME NEW i \in Instance, NEW h, DetachEffect(i, h) PROVE WelcomeAwaited'
    BY <1>u, <1>11 DEF DetachEffect
  <1>12. ASSUME NEW i \in Instance, NEW h, NEW r, NEW Y, RelayedEffect(i, h, r, Y)
        PROVE  WelcomeAwaited'
    BY <1>u, <1>12 DEF RelayedEffect
  <1>13. ASSUME NEW c \in Connection, NEW y, AttachEffect(c, y) \/ HeartbeatEffect(c, y)
        PROVE  WelcomeAwaited'
    BY <1>t, <1>b, <1>13 DEF AttachEffect, HeartbeatEffect, WelcomeAwaited, SocketType
  <1>14. ASSUME NEW i \in Instance, NEW h, RefuseEffect(i, h) \/ BeatEffect(i, h)
        PROVE  WelcomeAwaited'
    <2>1. h.id \in Connection /\ frame[h.id] \in {"claim", "touch"}
      BY <1>14, HandledFrame DEF RefuseEffect, BeatEffect, Greeting, FrameOf
    <2>2. frame[h.id] = "touch" => frame'[h.id] = "idle"
      BY <1>t, <1>14, <2>1, HandledFrame DEF RefuseEffect, BeatEffect, SocketType, Greeting, FrameOf
    <2> QED
      BY <1>t, <1>b, <1>14, <2>1, <2>2 DEF RefuseEffect, BeatEffect, WelcomeAwaited, SocketType
  <1>15. ASSUME NEW i \in Instance, NEW h, NEW y, NEW Y, ReplaceEffect(i, h, y, Y)
        PROVE  WelcomeAwaited'
    <2>1. h.id \in Connection /\ frame[h.id] \in {"claim", "touch"}
      BY <1>15, HandledFrame DEF ReplaceEffect, Greeting, FrameOf
    <2>2. frame[h.id] = "touch" => frame'[h.id] = "idle"
      BY <1>t, <1>15, <2>1, HandledFrame DEF ReplaceEffect, SocketType, Greeting, FrameOf
    <2> QED
      BY <1>t, <1>b, <1>15, <2>1, <2>2 DEF ReplaceEffect, WelcomeAwaited, SocketType
  <1>16. ASSUME NEW i \in Instance, NEW Y, StopEffect(i, Y) PROVE WelcomeAwaited'
    BY <1>t, <1>b, <1>16 DEF StopEffect, WelcomeAwaited
  <1>17. ASSUME NEW i \in Instance, HaltEffect(i) PROVE WelcomeAwaited'
    <2> SUFFICES ASSUME NEW c \in Connection
                 PROVE  /\ frame'[c] \in {"new", "claim", "publish"} => asks'[Welcome(c)].pc = "idle"
                        /\ asks'[Welcome(c)].pc \in Busy =>
                             frame'[c] = "welcome" /\ asks'[Welcome(c)].at = host'[c]
      BY <1>b DEF WelcomeAwaited
    <2> DEFINE m == Welcome(c)
    <2>1. /\ frame'[c] = IF host[c] = i THEN "refused" ELSE frame[c]
          /\ m \in Message /\ host' = host
      BY <1>t, <1>17 DEF HaltEffect
    <2>2. /\ asks'[m].pc = IF asks[m].at = i /\ asks[m].pc \notin {"sent", "unsent"} THEN "lost"
                           ELSE asks[m].pc
          /\ asks'[m].at = asks[m].at
      BY <1>17, <2>1 DEF HaltEffect
    <2>3. asks[m].pc = "idle" => asks[m].at # i
      BY <2>1, HubAssumption DEF Base, AskInv, None
    <2>4. /\ frame[c] \in {"new", "claim", "publish"} => asks[m].pc = "idle"
          /\ asks[m].pc \in Busy => frame[c] = "welcome" /\ asks[m].at = host[c]
      BY <1>t DEF WelcomeAwaited
    <2> QED
      BY <1>b, <2>1, <2>2, <2>3, <2>4
  <1>18. ASSUME NEW i \in Instance, NEW m \in Message, NEW y, SendEffect(i, m, y)
        PROVE  WelcomeAwaited'
    <2>1. \A c \in Connection : Welcome(c) # m
      BY <1>18, MessageKinds DEF SendEffect
    <2> QED
      BY <1>t, <1>b, <1>18, <2>1 DEF SendEffect, WelcomeAwaited, AskAfter
  <1>19. ASSUME NEW m \in Message, NEW y, ReaskEffect(m, y) PROVE WelcomeAwaited'
    BY <1>b, <1>v, <1>19 DEF ReaskEffect, AskAfter, Pending
  <1>20. ASSUME NEW m \in Message, TimeoutEffect(m) PROVE WelcomeAwaited'
    BY <1>b, <1>v, <1>20 DEF TimeoutEffect, AskAfter, Pending
  <1>21. ASSUME NEW m \in Message, AnswerEffect(m) PROVE WelcomeAwaited'
    BY <1>b, <1>w, <1>21 DEF AnswerEffect, AskAfter
  <1>22. ASSUME NEW i \in Instance, NEW h, NEW y, WelcomeEffect(i, h, y) PROVE WelcomeAwaited'
    <2>1. h.id \in Connection /\ host[h.id] = i /\ host'[h.id] = i
      BY <1>22, HandledFrame DEF WelcomeEffect, Greeting
    <2>2. \A c \in Connection : c # h.id => Welcome(c) # Welcome(h.id)
      BY DEF Welcome
    <2> QED
      BY <1>t, <1>b, <1>22, <2>1, <2>2 DEF WelcomeEffect, WelcomeAwaited, SocketType, AskAfter
  <1>23. ASSUME NEW i \in Instance, NEW e, HearEffect(i, e) PROVE WelcomeAwaited'
    <2>1. e.msg \in Message
      BY <1>23, EnvelopeType DEF HearEffect, Takes
    <2> QED
      BY <1>b, <1>u, <1>v, <1>23, <2>1 DEF HearEffect, AskAfter, Pending
  <1>24. ASSUME NEW i \in Instance, NEW h, NEW k, NEW y,
               \/ LocalEffect(i, h, k, y)
                 \/ MissEffect(i, h, k, y)
        PROVE  WelcomeAwaited'
    <2>1. h.id \in Message /\ asks[h.id].at = i /\ asks[h.id].pc \in Busy
      BY <1>b, <1>24, HandledFrame DEF LocalEffect, MissEffect, Tries, Asking
    <2> QED
      BY <1>b, <1>v, <1>24, <2>1 DEF LocalEffect, MissEffect, Tries, AskAfter
  <1>25. ASSUME NEW i \in Instance, NEW h, NEW k, NEW y, NEW Y, RemoteEffect(i, h, k, y, Y)
        PROVE  WelcomeAwaited'
    <2>1. h.id \in Message /\ asks[h.id].at = i /\ asks[h.id].pc \in Busy
      BY <1>b, <1>25, HandledFrame DEF RemoteEffect, Tries, Asking
    <2> QED
      BY <1>b, <1>v, <1>25, <2>1 DEF RemoteEffect, Tries, AskAfter
  <1>26. ASSUME NEW i \in Instance, NEW h, NEW y, RetryEffect(i, h, y) PROVE WelcomeAwaited'
    <2>1. h.id \in Message /\ asks[h.id].at = i /\ asks[h.id].pc \in Busy
      BY <1>b, <1>26, HandledFrame DEF RetryEffect, Asking
    <2> QED
      BY <1>b, <1>v, <1>26, <2>1 DEF RetryEffect, AskAfter
  <1>27. ASSUME NEW i \in Instance, NEW h, NEW ack, PublishedEffect(i, h, ack)
        PROVE  WelcomeAwaited'
    <2>1. h.id \in Message /\ asks[h.id].at = i /\ asks[h.id].pc \in Busy
      BY <1>b, <1>27, HandledFrame DEF PublishedEffect, Asking
    <2> QED
      BY <1>b, <1>v, <1>27, <2>1 DEF PublishedEffect, AskAfter
  <1>28. ASSUME NEW i \in Instance, NEW h, GiveUpEffect(i, h) \/ WriteEffect(i, h)
        PROVE  WelcomeAwaited'
    <2>1. h.id \in Message /\ asks[h.id].pc \in Busy
      BY <1>b, <1>28, HandledFrame DEF GiveUpEffect, WriteEffect, Asking
    <2> QED
      BY <1>b, <1>w, <1>28, <2>1 DEF GiveUpEffect, WriteEffect, AskAfter
  <1> QED
    BY <1>1, <1>2, <1>3, <1>4, <1>5, <1>6, <1>7, <1>8, <1>9, <1>10, <1>11, <1>12, <1>13, <1>14,
       <1>15, <1>16, <1>17, <1>18, <1>19, <1>20, <1>21, <1>22, <1>23, <1>24, <1>25, <1>26,
       <1>27, <1>28 DEF Effect

\* The kinds of envelopes, and what each says of the connection and the call.
FromCaller(e) == e.kind = "agent.send" => asks[e.msg].at = e.from
WellAddressed(e, j) == IF e.kind = "relay.ack" THEN asks[e.msg].at = j ELSE host[e.conn] = j

LEMMA EnvelopesStep ==
  ASSUME Base, Effect, SocketsKept, CallsKept
  PROVE  \A j \in Instance : \A e \in Range(inbox'[j]) : FromCaller(e)' /\ WellAddressed(e, j)'
  <1> DEFINE Goal == \A j \in Instance : \A x \in Range(inbox'[j]) : FromCaller(x)' /\ WellAddressed(x, j)'
  <1>t. /\ \A j \in Instance : \A x \in Range(inbox[j]) :
             x \in Envelope /\ FromCaller(x) /\ WellAddressed(x, j)
        /\ \A c \in Connection : host[c] \in Instance => host'[c] = host[c]
        /\ \A m \in Message : asks[m].at \in Instance => asks'[m].at = asks[m].at
    <2>1. \A j \in Instance : \A x \in Range(inbox[j]) : x \in Envelope
      BY QueueRange DEF Base, TypeOK, RedisType
    <2>2. \A j \in Instance : \A x \in Range(inbox[j]) : FromCaller(x) /\ WellAddressed(x, j)
      BY DEF Base, TypeOK, Addressed, AskInv, FromCaller, WellAddressed
    <2>3. \A c \in Connection : host[c] \in Instance => host'[c] = host[c]
      BY DEF Base, ConnInv, SocketsKept
    <2>4. \A m \in Message : asks[m].at \in Instance => asks'[m].at = asks[m].at
      BY HubAssumption DEF Base, AskInv, CallsKept, None
    <2> QED
      BY <2>1, <2>2, <2>3, <2>4
  <1>k. \A j \in Instance : \A x \in Range(inbox[j]) : FromCaller(x)' /\ WellAddressed(x, j)'
    <2> SUFFICES ASSUME NEW j \in Instance, NEW x \in Range(inbox[j])
                 PROVE  FromCaller(x)' /\ WellAddressed(x, j)'
      OBVIOUS
    <2>1. x \in Envelope /\ FromCaller(x) /\ WellAddressed(x, j)
      BY <1>t
    <2> QED
      BY <1>t, <2>1, EnvelopeType DEF FromCaller, WellAddressed
  <1>u. ASSUME \A j \in Instance : \A x \in Range(inbox'[j]) : x \in Range(inbox[j]) PROVE Goal
    BY <1>k, <1>u
  \* Close envelopes.
  <1>c. ASSUME NEW v \in Connection, host[v] \in Instance, NEW x, x = CloseEnvelope(v)
        PROVE  FromCaller(x)' /\ WellAddressed(x, x.to)'
    BY <1>t, <1>c DEF CloseEnvelope, FromCaller, WellAddressed
  \* Acknowledgements.
  <1>a. ASSUME NEW e \in Envelope, e.kind = "agent.send", FromCaller(e), NEW r, NEW x, x = AckOf(e, r)
        PROVE  FromCaller(x)' /\ WellAddressed(x, x.to)'
    BY <1>t, <1>a, EnvelopeType DEF AckOf, FromCaller, WellAddressed
  <1>p. ASSUME NEW i, NEW H, NEW Y, InboxAfter(i, H, Y),
               \A x \in Y : FromCaller(x)' /\ WellAddressed(x, x.to)'
        PROVE  Goal
    BY <1>k, <1>p DEF InboxAfter
  <1> HIDE DEF Goal
  <1>1. ASSUME NEW i \in Instance, NEW y, CloseDeviceEffect(i, y) PROVE Goal
    BY <1>u, <1>1 DEF CloseDeviceEffect
  <1>2. ASSUME NEW i \in Instance, NEW Y, StopEffect(i, Y) PROVE Goal
    BY <1>u, <1>2 DEF StopEffect
  <1>3. ASSUME NEW c \in Connection, CloseOverEffect(c) PROVE Goal
    BY <1>u, <1>3 DEF CloseOverEffect
  <1>4. ASSUME NEW m \in Message, TimeoutEffect(m) \/ AnswerEffect(m) PROVE Goal
    BY <1>u, <1>4 DEF TimeoutEffect, AnswerEffect
  <1>5. ASSUME NEW m \in Message, NEW y, ReaskEffect(m, y) PROVE Goal
    BY <1>u, <1>5 DEF ReaskEffect
  <1>6. ASSUME LapseEffect \/ Stutter PROVE Goal
    BY <1>u, <1>6 DEF LapseEffect, Stutter
  <1>7. ASSUME NEW i \in Instance, NEW m \in Message, NEW y, SendEffect(i, m, y) PROVE Goal
    BY <1>u, <1>7 DEF SendEffect
  <1>8. ASSUME NEW i \in Instance, NEW h, NEW ack, PublishedEffect(i, h, ack) PROVE Goal
    BY <1>u, <1>8 DEF PublishedEffect
  <1>9. ASSUME NEW c \in Connection, NEW y,
               \/ CloseEffect(c, y)
                 \/ AttachEffect(c, y)
                 \/ HeartbeatEffect(c, y)
        PROVE  Goal
    BY <1>u, <1>9 DEF CloseEffect, AttachEffect, HeartbeatEffect
  <1>10. ASSUME NEW c \in Connection, NEW i \in Instance, DialEffect(c, i) PROVE Goal
    BY <1>u, <1>10 DEF DialEffect
  <1>11. ASSUME NEW c \in Connection, NEW state \in {"cut", "closed"}, DropEffect(c, state)
        PROVE  Goal
    BY <1>u, <1>11 DEF DropEffect
  <1>12. ASSUME NEW i \in Instance, NEW h,
               \/ DetachEffect(i, h)
                 \/ RefuseEffect(i, h)
                 \/ BeatEffect(i, h)
                 \/ GiveUpEffect(i, h)
                 \/ WriteEffect(i, h)
        PROVE  Goal
    BY <1>u, <1>12 DEF DetachEffect, RefuseEffect, BeatEffect, GiveUpEffect, WriteEffect
  <1>13. ASSUME NEW i \in Instance, NEW h, NEW y, RetryEffect(i, h, y) \/ WelcomeEffect(i, h, y)
        PROVE  Goal
    BY <1>u, <1>13 DEF RetryEffect, WelcomeEffect
  <1>14. ASSUME NEW i \in Instance, NEW h, NEW k, NEW y,
               \/ LocalEffect(i, h, k, y)
                 \/ MissEffect(i, h, k, y)
        PROVE  Goal
    BY <1>u, <1>14 DEF LocalEffect, MissEffect, Tries
  <1>15. ASSUME NEW i \in Instance, NEW e,
               \/ LoseEffect(i, e)
                 \/ HearEffect(i, e)
                 \/ ExpelEffect(i, e)
        PROVE  Goal
    BY <1>u, <1>15 DEF LoseEffect, HearEffect, ExpelEffect, InboxAfter
  <1>16. ASSUME NEW i \in Instance, NEW e, NEW y, DeliverEffect(i, e, y) PROVE Goal
    BY <1>u, <1>16 DEF DeliverEffect, InboxAfter
  <1>17. ASSUME NEW i \in Instance, HaltEffect(i) PROVE Goal
    BY <1>u, <1>17 DEF HaltEffect
  <1>18. ASSUME NEW i \in Instance, NEW h, NEW y, NEW Y, ReplaceEffect(i, h, y, Y) PROVE Goal
    <2>1. h.val \in Connection /\ host[h.val] \in Instance
      BY <1>18, HandledType DEF ReplaceEffect, Handles, Base, ConnInv
    <2> QED
      BY <1>p, <1>c, <1>18, <2>1 DEF ReplaceEffect
  <1>19. ASSUME NEW i \in Instance, NEW h, NEW Y, CloseOwnerEffect(i, h, Y) PROVE Goal
    <2>1. Y = {} \/ (h.val \in Connection /\ host[h.val] \in Instance)
      BY <1>19, HandledType DEF CloseOwnerEffect, Handles, Base, ConnInv
    <2> QED
      BY <1>p, <1>c, <1>19, <2>1 DEF CloseOwnerEffect
  <1>20. ASSUME NEW i \in Instance, NEW e, NEW Y, RejectEffect(i, e, Y) PROVE Goal
    <2>1. e \in Envelope /\ e.kind = "agent.send" /\ FromCaller(e)
      BY <1>t, <1>20 DEF RejectEffect, Takes
    <2> QED
      BY <1>p, <1>a, <1>20, <2>1 DEF RejectEffect
  <1>21. ASSUME NEW i \in Instance, NEW h, NEW r, NEW Y, RelayedEffect(i, h, r, Y) PROVE Goal
    <2>1. h.id \in Envelope /\ h.id.kind = "agent.send" /\ FromCaller(h.id)
      BY <1>21, HandledType DEF RelayedEffect, Handles, Awaited, FromCaller
    <2> QED
      BY <1>p, <1>a, <1>21, <2>1 DEF RelayedEffect
  <1>22. ASSUME NEW i \in Instance, NEW h, NEW k, NEW y, NEW Y, RemoteEffect(i, h, k, y, Y)
        PROVE  Goal
    <2>1. h.id \in Message /\ asks'[h.id].at = i /\ h.val \in Connection /\ host[h.val] \in Instance
      BY <1>22, HandledFrame DEF RemoteEffect, Tries, Asking, AskAfter
    <2>2. \A x : x = SendEnvelope(i, h.val, h.id, k) => FromCaller(x)' /\ WellAddressed(x, x.to)'
      BY <1>t, <2>1 DEF SendEnvelope, FromCaller, WellAddressed
    <2> QED
      BY <1>p, <1>22, <2>2 DEF RemoteEffect
  <1> QED
    BY <1>1, <1>2, <1>3, <1>4, <1>5, <1>6, <1>7, <1>8, <1>9, <1>10, <1>11, <1>12, <1>13, <1>14,
       <1>15, <1>16, <1>17, <1>18, <1>19, <1>20, <1>21, <1>22 DEF Effect, Goal

LEMMA AskStepKept ==
  ASSUME Base, Effect
  PROVE  AskInv' /\ Addressed'
  <1>1. SocketsKept /\ CallsKept
    BY SocketsStep, CallsStep
  <1>2. WelcomeAwaited' /\ \A j \in Instance : \A e \in Range(inbox'[j]) :
          FromCaller(e)' /\ WellAddressed(e, j)'
    BY <1>1, WelcomeStep, EnvelopesStep
  <1> QED
    BY <1>1, <1>2 DEF AskInv, Addressed, CallsKept, WelcomeAwaited, FromCaller, WellAddressed

LEMMA TypeStep ==
  ASSUME Base, Effect
  PROVE  TypeOK'
  BY SocketTypeStep, InstanceTypeStep, RedisTypeStep, HistoryTypeStep, AskStepKept DEF TypeOK

\* The states of a frame's handler that awaits a reply.
Handling == {"claim", "publish", "touch"}

\* A step that takes the replies H moves no handler that awaits another one.
Undisturbed(H) ==
  /\ \A c \in Connection :
       \/ frame'[c] = frame[c]
       \/ frame[c] \notin Handling
       \/ \E h \in H : h.for \in Greeting /\ h.id = c
  /\ \A m \in Message :
       \/ asks'[m].pc = asks[m].pc /\ asks'[m].owner = asks[m].owner
       \/ asks[m].pc \notin Asking
       \/ \E h \in H : h.for \in Asking /\ h.id = m

\* Nothing else awaits what y will be the reply to.
Unawaited(i, H, y) ==
  /\ y.for \in Greeting => frame[y.id] \notin Handling \/ \E h \in H : h.for \in Greeting /\ h.id = y.id
  /\ y.for \in Asking => asks[y.id].pc \notin Asking \/ \E h \in H : h.for \in Asking /\ h.id = y.id
  /\ y.for = "relay" => ~ HasReply(replies[i], y.id.msg, y.id.attempt)

LEMMA RepliesTyped ==
  ASSUME RedisType, NEW j \in Instance, NEW r \in Range(replies[j])
  PROVE  /\ r \in Replies
         /\ r.val \in Connection \cup {None} /\ r.conn \in Connection \cup {None}
         /\ r.for \in Greeting \cup {"detach"} => r.id \in Connection
         /\ r.for \in Asking => r.id \in Message
         /\ r.for = "relay" => r.id \in Envelope
  <1>1. r \in Replies
    BY QueueRange DEF RedisType
  <1> QED
    BY <1>1 DEF Replies, Greeting, Asking

LEMMA AwaitKept ==
  ASSUME Base, SocketsKept, CallsKept, NEW i \in Instance, NEW H, NEW Y, RepliesAfter(i, H, Y),
         Undisturbed(H), \A h \in H : Awaited(i, h),
         \A y \in Y : Unawaited(i, H, y) /\ Awaited(i, y)'
  PROVE  AwaitInv'
  <1>d. RedisType /\ \A j \in Instance : \A r \in Range(replies[j]) : Awaited(j, r)
    BY DEF Base, TypeOK, AwaitInv
  <1>f. \A for \in Greeting : FrameOf(for) \in Handling
    BY DEF Greeting, FrameOf, Handling
  <1>1. ASSUME NEW j \in Instance, NEW r \in Range(replies[j]), j = i => \A h \in H : ~ SameReply(h, r)
        PROVE  Awaited(j, r)'
    <2>a. Awaited(j, r)
      BY <1>d
    <2>1. r.for \in Greeting => host'[r.id] = j /\ frame'[r.id] = FrameOf(r.for)
      <3> SUFFICES ASSUME r.for \in Greeting PROVE host'[r.id] = j /\ frame'[r.id] = FrameOf(r.for)
        OBVIOUS
      <3>1. r.id \in Connection /\ host[r.id] = j /\ frame[r.id] = FrameOf(r.for)
        BY <1>d, <2>a, RepliesTyped DEF Awaited
      <3>2. host'[r.id] = j
        BY <3>1 DEF Base, ConnInv, SocketsKept
      <3>3. ~ \E h \in H : h.for \in Greeting /\ h.id = r.id
        BY <1>1, <3>1 DEF Awaited, SameReply
      <3> QED
        BY <1>f, <3>1, <3>2, <3>3 DEF Undisturbed
    <2>2. r.for = "detach" => host'[r.id] = j /\ sock'[r.id] = "closed"
      BY <1>d, <2>a, RepliesTyped DEF Awaited, Base, ConnInv, SocketsKept
    <2>3. ASSUME r.for \in Asking
          PROVE  asks'[r.id].at = j /\ asks'[r.id].pc = r.for /\ asks'[r.id].owner = asks[r.id].owner
      <3>1. r.id \in Message /\ asks[r.id].at = j /\ asks[r.id].pc = r.for /\ r.for # "idle"
        BY <1>d, <2>a, <2>3, RepliesTyped DEF Awaited, Asking
      <3>2. ~ \E h \in H : h.for \in Asking /\ h.id = r.id
        BY <1>1, <2>3, <3>1 DEF Awaited, SameReply
      <3> QED
        BY <2>3, <3>1, <3>2 DEF Undisturbed, CallsKept
    <2>4. r.for = "local" => r.conn = asks'[r.id].owner /\ r.conn # None /\ host'[r.conn] = j
      <3> SUFFICES ASSUME r.for = "local"
                   PROVE  r.conn = asks'[r.id].owner /\ r.conn # None /\ host'[r.conn] = j
        OBVIOUS
      <3>1. r.conn = asks[r.id].owner /\ r.conn # None /\ host[r.conn] = j
        BY <2>a DEF Awaited
      <3>2. r.conn \in Connection
        BY <1>d, <3>1, RepliesTyped
      <3> QED
        BY <2>3, <3>1, <3>2 DEF Asking, Base, ConnInv, SocketsKept
    <2>5. r.for = "relay" => /\ r.id.kind = "agent.send" /\ r.conn = r.id.conn
                             /\ host'[r.conn] = j /\ asks'[r.id.msg].at = r.id.from
      <3> SUFFICES ASSUME r.for = "relay"
                   PROVE  /\ r.id.kind = "agent.send" /\ r.conn = r.id.conn
                          /\ host'[r.conn] = j /\ asks'[r.id.msg].at = r.id.from
        OBVIOUS
      <3>1. /\ r.id.kind = "agent.send" /\ r.conn = r.id.conn
            /\ host[r.conn] = j /\ asks[r.id.msg].at = r.id.from
        BY <2>a DEF Awaited
      <3>2. r.id.msg \in Message /\ r.id.from \in Instance /\ r.conn \in Connection
        BY <1>d, <3>1, RepliesTyped, EnvelopeType
      <3> QED
        BY <3>1, <3>2, HubAssumption DEF Base, ConnInv, AskInv, SocketsKept, CallsKept, None
    <2>6. r.for = "heartbeat" => r.conn = r.id
      BY <2>a DEF Awaited
    <2> QED
      BY <2>1, <2>2, <2>3, <2>4, <2>5, <2>6 DEF Awaited
  <1>2. \A j \in Instance : \A r \in Range(replies'[j]) : Awaited(j, r)'
    BY <1>1 DEF RepliesAfter
  <1>3. ASSUME NEW y \in Y, NEW r \in Range(replies[i]), \A h \in H : ~ SameReply(h, r)
        PROVE  ~ SameReply(r, y)
    <2>a. Awaited(i, r) /\ Unawaited(i, H, y)
      BY <1>d
    <2>1. ~ (r.for \in Greeting /\ y.for \in Greeting /\ r.id = y.id)
      BY <1>3, <1>f, <2>a DEF Awaited, Unawaited, SameReply
    <2>2. ~ (r.for \in Asking /\ y.for \in Asking /\ r.id = y.id)
      BY <1>3, <2>a DEF Awaited, Unawaited, SameReply
    <2>3. ~ (r.for = "relay" /\ y.for = "relay" /\ r.id.msg = y.id.msg /\ r.id.attempt = y.id.attempt)
      BY <2>a DEF Unawaited, HasReply
    <2> QED
      BY <2>1, <2>2, <2>3 DEF SameReply
  <1>4. \A j \in Instance : DistinctReplies(replies'[j])
    BY <1>3 DEF RepliesAfter
  <1> QED
    BY <1>2, <1>4 DEF AwaitInv

\* The same when no reply was handled and none awaited.
LEMMA AwaitUntouched ==
  ASSUME Base, SocketsKept, CallsKept, replies' = replies, Undisturbed({})
  PROVE  AwaitInv'
  <1>1. PICK i \in Instance : TRUE
    BY HubAssumption
  <1>2. RedisType /\ \A j \in Instance : DistinctReplies(replies[j])
    BY DEF Base, TypeOK, AwaitInv
  <1>3. Rest(i, replies[i], {}) /\ replies' = [replies EXCEPT ![i] = replies[i]]
    BY <1>2 DEF Rest, RedisType
  <1>4. RepliesAfter(i, {}, {})
    BY <1>2, <1>3, RepliesStep
  <1> QED
    BY <1>4, AwaitKept


LEMMA AwaitStep ==
  ASSUME Base, Effect
  PROVE  AwaitInv'
  <1>k. SocketsKept /\ CallsKept
    BY SocketsStep, CallsStep
  <1>t. /\ SocketType /\ InstanceType
        /\ \A c \in Connection : host[c] \in Instance => host'[c] = host[c]
    BY <1>k DEF Base, TypeOK, ConnInv, SocketsKept
  <1>u. frame' = frame /\ asks' = asks => \A H : Undisturbed(H)
    BY DEF Undisturbed
  <1>g. /\ Handling = {"claim", "publish", "touch"}
        /\ Greeting = {"attach", "attached", "heartbeat"}
        /\ Asking = {"owner", "again", "local", "publish"}
        /\ FrameOf("attach") = "claim" /\ FrameOf("attached") = "publish" /\ FrameOf("heartbeat") = "touch"
    BY DEF Handling, Greeting, Asking, FrameOf
  \* One call, whose reply is handled or which awaits none, goes on or is answered.
  <1>m. ASSUME NEW m \in Message, NEW H,
               asks[m].pc \notin Asking \/ \E h \in H : h.for \in Asking /\ h.id = m,
               \A x \in Message : x # m => asks'[x] = asks[x],
               frame' = frame \/ (FrameAfter(m) /\ asks[m].pc \in Busy)
        PROVE  Undisturbed(H)
    <2>1. \A c \in Connection : frame'[c] = frame[c] \/ frame[c] \notin Handling
      <3>1. CASE frame' = frame
        BY <3>1
      <3>2. CASE FrameAfter(m) /\ asks[m].pc \in Busy
        <4>1. m[1] = "welcome" => m[2] \in Connection /\ m = Welcome(m[2]) /\ frame[m[2]] = "welcome"
          BY <3>2, MessageKinds DEF Base, AskInv
        <4> QED
          BY <1>g, <1>t, <3>2, <4>1 DEF FrameAfter, SocketType
      <3> QED
        BY <1>m, <3>1, <3>2
    <2> QED
      BY <1>m, <2>1 DEF Undisturbed
  <1>1. ASSUME NEW i \in Instance, NEW e, NEW Y, RejectEffect(i, e, Y) PROVE AwaitInv'
    BY <1>k, <1>u, <1>1, AwaitUntouched DEF RejectEffect
  <1>2. ASSUME NEW i \in Instance, NEW e, LoseEffect(i, e) \/ ExpelEffect(i, e) PROVE AwaitInv'
    BY <1>k, <1>u, <1>2, AwaitUntouched DEF LoseEffect, ExpelEffect
  <1>3. ASSUME NEW c \in Connection, CloseOverEffect(c) PROVE AwaitInv'
    BY <1>k, <1>u, <1>3, AwaitUntouched DEF CloseOverEffect
  <1>4. ASSUME LapseEffect \/ Stutter PROVE AwaitInv'
    BY <1>k, <1>u, <1>4, AwaitUntouched DEF LapseEffect, Stutter
  <1>5. ASSUME NEW c \in Connection, NEW i \in Instance, DialEffect(c, i) PROVE AwaitInv'
    BY <1>k, <1>u, <1>5, AwaitUntouched DEF DialEffect
  <1>6. ASSUME NEW c \in Connection, NEW state \in {"cut", "closed"}, DropEffect(c, state)
        PROVE  AwaitInv'
    BY <1>k, <1>u, <1>6, AwaitUntouched DEF DropEffect
  <1>7. ASSUME NEW m \in Message, TimeoutEffect(m) PROVE AwaitInv'
    <2>1. Undisturbed({})
      BY <1>7 DEF TimeoutEffect, AskAfter, Undisturbed
    <2> QED
      BY <1>k, <1>7, <2>1, AwaitUntouched DEF TimeoutEffect
  <1>8. ASSUME NEW m \in Message, AnswerEffect(m) PROVE AwaitInv'
    <2>1. Undisturbed({})
      BY <1>g, <1>8, <1>m DEF AnswerEffect, AskAfter, Busy
    <2> QED
      BY <1>k, <1>8, <2>1, AwaitUntouched DEF AnswerEffect
  <1>9. ASSUME NEW i \in Instance, NEW e, HearEffect(i, e) PROVE AwaitInv'
    <2>1. Undisturbed({})
      <3>1. e.msg \in Message
        BY <1>9, EnvelopeType DEF HearEffect, Takes
      <3> QED
        BY <1>u, <1>9, <3>1 DEF HearEffect, AskAfter, Undisturbed
    <2> QED
      BY <1>k, <1>9, <2>1, AwaitUntouched DEF HearEffect
  <1>10. ASSUME NEW c \in Connection, NEW y, AttachEffect(c, y) \/ HeartbeatEffect(c, y)
        PROVE  AwaitInv'
    <2>1. Undisturbed({})
      BY <1>g, <1>t, <1>10 DEF AttachEffect, HeartbeatEffect, Undisturbed, SocketType
    <2>2. Unawaited(host[c], {}, y) /\ Awaited(host[c], y)'
      BY <1>g, <1>t, <1>10 DEF AttachEffect, HeartbeatEffect, Pledge, Unawaited, Awaited, SocketType
    <2> QED
      BY <1>k, <1>10, <2>1, <2>2, AwaitKept DEF AttachEffect, HeartbeatEffect
  <1>11. ASSUME NEW c \in Connection, NEW y, CloseEffect(c, y) PROVE AwaitInv'
    <2>1. Undisturbed({})
      BY <1>u, <1>11 DEF CloseEffect
    <2>2. Unawaited(host[c], {}, y) /\ Awaited(host[c], y)'
      BY <1>g, <1>t, <1>11 DEF CloseEffect, Pledge, Unawaited, Awaited
    <2> QED
      BY <1>k, <1>11, <2>1, <2>2, AwaitKept DEF CloseEffect
  <1>12. ASSUME NEW i \in Instance, NEW y, CloseDeviceEffect(i, y) PROVE AwaitInv'
    <2>1. Unawaited(i, {}, y) /\ Awaited(i, y)'
      BY <1>g, <1>12 DEF CloseDeviceEffect, Pledge, Unawaited, Awaited
    <2> QED
      BY <1>k, <1>u, <1>12, <2>1, AwaitKept DEF CloseDeviceEffect
  <1>13. ASSUME NEW i \in Instance, NEW Y, StopEffect(i, Y) PROVE AwaitInv'
    <2>1. \A y \in Y : Unawaited(i, {}, y) /\ Awaited(i, y)'
      BY <1>g, <1>13 DEF StopEffect, Pledge, Unawaited, Awaited
    <2>2. Undisturbed({})
      BY <1>13 DEF StopEffect, Undisturbed
    <2> QED
      BY <1>k, <1>13, <2>1, <2>2, AwaitKept DEF StopEffect
  <1>14. ASSUME NEW i \in Instance, NEW m \in Message, NEW y, SendEffect(i, m, y) PROVE AwaitInv'
    <2>1. Undisturbed({})
      BY <1>g, <1>m, <1>14 DEF SendEffect, AskAfter
    <2>2. Unawaited(i, {}, y) /\ Awaited(i, y)'
      BY <1>g, <1>t, <1>14 DEF SendEffect, Pledge, AskAfter, Unawaited, Awaited
    <2> QED
      BY <1>k, <1>14, <2>1, <2>2, AwaitKept DEF SendEffect
  <1>15. ASSUME NEW m \in Message, NEW y, ReaskEffect(m, y) PROVE AwaitInv'
    <2>1. Undisturbed({})
      BY <1>g, <1>m, <1>15 DEF ReaskEffect, AskAfter
    <2>2. Unawaited(asks[m].at, {}, y) /\ asks'[m].at = asks[m].at
      BY <1>g, <1>t, <1>15 DEF ReaskEffect, Pledge, AskAfter, Unawaited
    <2>3. PICK i \in Instance : i = asks[m].at
      BY <1>15 DEF ReaskEffect
    <2>4. Awaited(i, y)'
      BY <1>g, <1>15, <2>2, <2>3 DEF ReaskEffect, Pledge, AskAfter, Awaited
    <2> QED
      BY <1>k, <1>15, <2>1, <2>2, <2>3, <2>4, AwaitKept DEF ReaskEffect
  <1>16. ASSUME NEW i \in Instance, NEW h, RefuseEffect(i, h) \/ BeatEffect(i, h) PROVE AwaitInv'
    <2>1. h.id \in Connection /\ h.for \in Greeting /\ Awaited(i, h)
      BY <1>g, <1>16, HandledFrame DEF RefuseEffect, BeatEffect, Handles
    <2>2. Undisturbed({h})
      BY <1>t, <1>16, <2>1 DEF RefuseEffect, BeatEffect, Undisturbed, SocketType
    <2> QED
      BY <1>k, <1>16, <2>1, <2>2, AwaitKept DEF RefuseEffect, BeatEffect
  <1>17. ASSUME NEW i \in Instance, NEW h, DetachEffect(i, h) PROVE AwaitInv'
    <2>1. Awaited(i, h)
      BY <1>17 DEF DetachEffect, Handles
    <2>2. Undisturbed({h})
      BY <1>u, <1>17 DEF DetachEffect
    <2> QED
      BY <1>k, <1>17, <2>1, <2>2, AwaitKept DEF DetachEffect
  <1>18. ASSUME NEW i \in Instance, NEW h, NEW r, NEW Y, RelayedEffect(i, h, r, Y) PROVE AwaitInv'
    <2>1. Awaited(i, h)
      BY <1>18 DEF RelayedEffect, Handles
    <2>2. Undisturbed({h})
      BY <1>u, <1>18 DEF RelayedEffect
    <2> QED
      BY <1>k, <1>18, <2>1, <2>2, AwaitKept DEF RelayedEffect
  <1>19. ASSUME NEW i \in Instance, NEW h, NEW Y, CloseOwnerEffect(i, h, Y) PROVE AwaitInv'
    <2>1. Awaited(i, h)
      BY <1>19 DEF CloseOwnerEffect, Handles
    <2>2. Undisturbed({h})
      BY <1>u, <1>19 DEF CloseOwnerEffect
    <2> QED
      BY <1>k, <1>19, <2>1, <2>2, AwaitKept DEF CloseOwnerEffect
  <1>20. ASSUME NEW i \in Instance, NEW h, GiveUpEffect(i, h) \/ WriteEffect(i, h) PROVE AwaitInv'
    <2>1. h.id \in Message /\ h.for \in Asking /\ Awaited(i, h) /\ asks[h.id].pc \in Busy
      BY <1>g, <1>20, HandledFrame DEF GiveUpEffect, WriteEffect, Handles, Busy
    <2>2. Undisturbed({h})
      BY <1>m, <1>20, <2>1 DEF GiveUpEffect, WriteEffect, AskAfter
    <2> QED
      BY <1>k, <1>20, <2>1, <2>2, AwaitKept DEF GiveUpEffect, WriteEffect
  <1>21. ASSUME NEW i \in Instance, NEW h, NEW ack, PublishedEffect(i, h, ack) PROVE AwaitInv'
    <2>1. h.id \in Message /\ h.for \in Asking /\ Awaited(i, h) /\ asks[h.id].pc \in Busy
      BY <1>g, <1>21, HandledFrame DEF PublishedEffect, Handles, Busy
    <2>2. Undisturbed({h})
      BY <1>m, <1>21, <2>1 DEF PublishedEffect, AskAfter
    <2> QED
      BY <1>k, <1>21, <2>1, <2>2, AwaitKept DEF PublishedEffect
  <1>22. ASSUME NEW i \in Instance, NEW h, NEW y, NEW Y, ReplaceEffect(i, h, y, Y) PROVE AwaitInv'
    <2>1. h.id \in Connection /\ h.for \in Greeting /\ Awaited(i, h) /\ host[h.id] = i
      BY <1>g, <1>22, HandledFrame DEF ReplaceEffect, Handles
    <2>2. Undisturbed({h})
      BY <1>t, <1>22, <2>1 DEF ReplaceEffect, Undisturbed, SocketType
    <2>3. Unawaited(i, {h}, y) /\ Awaited(i, y)'
      BY <1>g, <1>t, <1>22, <2>1 DEF ReplaceEffect, Pledge, AskAfter, Unawaited, Awaited, SocketType
    <2> QED
      BY <1>k, <1>22, <2>1, <2>2, <2>3, AwaitKept DEF ReplaceEffect
  <1>23. ASSUME NEW i \in Instance, NEW h, NEW y, WelcomeEffect(i, h, y) PROVE AwaitInv'
    <2>1. h.id \in Connection /\ h.for \in Greeting /\ Awaited(i, h) /\ host[h.id] = i
      BY <1>g, <1>23, HandledFrame DEF WelcomeEffect, Handles
    <2>w. Welcome(h.id) \in Message /\ asks[Welcome(h.id)].pc = "idle"
      BY <1>g, <1>23, <2>1, HandledFrame, MessageKinds DEF WelcomeEffect, Base, AskInv
    <2>2. Undisturbed({h})
      BY <1>g, <1>t, <1>23, <2>1, <2>w DEF WelcomeEffect, Undisturbed, SocketType, AskAfter
    <2>3. Unawaited(i, {h}, y) /\ Awaited(i, y)'
      BY <1>g, <1>t, <1>23, <2>1, <2>w DEF WelcomeEffect, Pledge, AskAfter, Unawaited, Awaited
    <2> QED
      BY <1>k, <1>23, <2>1, <2>2, <2>3, AwaitKept DEF WelcomeEffect
  <1>24. ASSUME NEW i \in Instance, NEW h, NEW y, RetryEffect(i, h, y) PROVE AwaitInv'
    <2>1. h.id \in Message /\ h.for \in Asking /\ Awaited(i, h) /\ asks[h.id].pc \in Busy
      BY <1>g, <1>24, HandledFrame DEF RetryEffect, Handles, Busy
    <2>2. Undisturbed({h})
      BY <1>m, <1>24, <2>1 DEF RetryEffect, AskAfter
    <2>3. Unawaited(i, {h}, y) /\ Awaited(i, y)'
      BY <1>g, <1>t, <1>24, <2>1 DEF RetryEffect, Pledge, AskAfter, Unawaited, Awaited
    <2> QED
      BY <1>k, <1>24, <2>1, <2>2, <2>3, AwaitKept DEF RetryEffect
  <1>25. ASSUME NEW i \in Instance, NEW h, NEW k, NEW y, LocalEffect(i, h, k, y) PROVE AwaitInv'
    <2>1. h.id \in Message /\ h.for \in Asking /\ Awaited(i, h) /\ asks[h.id].pc \in Busy
      BY <1>g, <1>25, HandledFrame DEF LocalEffect, Handles, Busy, Tries
    <2>2. Undisturbed({h})
      BY <1>m, <1>25, <2>1 DEF LocalEffect, AskAfter, Tries
    <2>v. h.val # None
      BY <1>25, HubAssumption DEF LocalEffect, Tries, Connection, None
    <2>3. Unawaited(i, {h}, y) /\ Awaited(i, y)'
      BY <1>g, <1>t, <1>25, <2>1, <2>v DEF LocalEffect, Pledge, AskAfter, Unawaited, Awaited, Tries
    <2> QED
      BY <1>k, <1>25, <2>1, <2>2, <2>3, AwaitKept DEF LocalEffect
  <1>26. ASSUME NEW i \in Instance, NEW h, NEW k, NEW y, MissEffect(i, h, k, y) PROVE AwaitInv'
    <2>1. h.id \in Message /\ h.for \in Asking /\ Awaited(i, h) /\ asks[h.id].pc \in Busy
      BY <1>g, <1>26, HandledFrame DEF MissEffect, Handles, Busy, Tries
    <2>2. Undisturbed({h})
      BY <1>m, <1>26, <2>1 DEF MissEffect, AskAfter, Tries
    <2>3. Unawaited(i, {h}, y) /\ Awaited(i, y)'
      BY <1>g, <1>t, <1>26, <2>1 DEF MissEffect, Pledge, AskAfter, Unawaited, Awaited, Tries
    <2> QED
      BY <1>k, <1>26, <2>1, <2>2, <2>3, AwaitKept DEF MissEffect
  <1>27. ASSUME NEW i \in Instance, NEW h, NEW k, NEW y, NEW Y, RemoteEffect(i, h, k, y, Y)
        PROVE  AwaitInv'
    <2>1. h.id \in Message /\ h.for \in Asking /\ Awaited(i, h) /\ asks[h.id].pc \in Busy
      BY <1>g, <1>27, HandledFrame DEF RemoteEffect, Handles, Busy, Tries
    <2>2. Undisturbed({h})
      BY <1>m, <1>27, <2>1 DEF RemoteEffect, AskAfter, Tries
    <2>3. Unawaited(i, {h}, y) /\ Awaited(i, y)'
      BY <1>g, <1>t, <1>27, <2>1 DEF RemoteEffect, Pledge, AskAfter, Unawaited, Awaited, Tries
    <2> QED
      BY <1>k, <1>27, <2>1, <2>2, <2>3, AwaitKept DEF RemoteEffect
  <1>28. ASSUME NEW i \in Instance, NEW e, NEW y, DeliverEffect(i, e, y) PROVE AwaitInv'
    <2>1. e \in Envelope /\ e \in Range(inbox[i]) /\ e.kind = "agent.send"
      BY <1>28 DEF DeliverEffect, Takes
    <2>2. e.msg \in Message /\ e.attempt \in 0..1 /\ e.conn \in Connection
      BY <2>1, EnvelopeType
    <2>3. host[e.conn] = i /\ asks[e.msg].at = e.from
      BY <2>1 DEF Base, TypeOK, Addressed, AskInv
    <2>4. ~ HasReply(replies[i], e.msg, e.attempt)
      BY <2>1, <2>2 DEF Base, ApartInv, HasEnvelope
    <2>5. Unawaited(i, {}, y) /\ Awaited(i, y)'
      BY <1>g, <1>t, <1>28, <2>1, <2>2, <2>3, <2>4 DEF DeliverEffect, Pledge, Unawaited, Awaited
    <2> QED
      BY <1>k, <1>u, <1>28, <2>5, AwaitKept DEF DeliverEffect
  <1>29. ASSUME NEW i \in Instance, HaltEffect(i) PROVE AwaitInv'
    <2>1. ASSUME NEW j \in Instance, j # i, NEW r \in Range(replies[j]) PROVE Awaited(j, r)'
      <3>a. Awaited(j, r) /\ RedisType
        BY DEF Base, TypeOK, AwaitInv
      <3>1. r.for \in Greeting => frame'[r.id] = frame[r.id] /\ host'[r.id] = host[r.id]
        BY <1>29, <2>1, <3>a, RepliesTyped DEF HaltEffect, Awaited
      <3>2. r.for = "detach" => sock'[r.id] = "closed" /\ host'[r.id] = host[r.id]
        BY <1>k, <1>29, <3>a, RepliesTyped DEF HaltEffect, Awaited, SocketsKept
      <3>3. r.for \in Asking => /\ asks'[r.id].at = asks[r.id].at /\ asks'[r.id].pc = asks[r.id].pc
                               /\ asks'[r.id].owner = asks[r.id].owner
        BY <1>29, <2>1, <3>a, RepliesTyped DEF HaltEffect, Awaited
      <3>4. r.for = "relay" => asks'[r.id.msg].at = asks[r.id.msg].at
        BY <1>29, <3>a, RepliesTyped, EnvelopeType DEF HaltEffect, Awaited
      <3> QED
        BY <1>g, <1>29, <3>a, <3>1, <3>2, <3>3, <3>4 DEF HaltEffect, Awaited
    <2>2. \A j \in Instance : DistinctReplies(replies'[j])
      <3>1. DistinctReplies(<<>>)
        BY DEF DistinctReplies
      <3> QED
        BY <1>29, <3>1 DEF HaltEffect, Base, AwaitInv
    <2> QED
      BY <1>29, <2>1, <2>2 DEF HaltEffect, AwaitInv
  <1> QED
    BY <1>1, <1>2, <1>3, <1>4, <1>5, <1>6, <1>7, <1>8, <1>9, <1>10, <1>11, <1>12, <1>13, <1>14,
       <1>15, <1>16, <1>17, <1>18, <1>19, <1>20, <1>21, <1>22, <1>23, <1>24, <1>25, <1>26,
       <1>27, <1>28, <1>29 DEF Effect

-----------------------------------------------------------------------------
(* Attempts at sending: where each is, and whom it may still reach.        *)

\* The relay has attempt k of message m, or its acknowledgement.
Remote(m, k) == \E i \in Instance : HasEnvelope(inbox[i], m, k) \/ HasReply(replies[i], m, k)

\* Attempt k of message m is on its way to connection c of another instance.
Sending(m, k, c) ==
  \E i \in Instance :
    \/ \E e \in Range(inbox[i]) : e.kind = "agent.send" /\ e.msg = m /\ e.attempt = k /\ e.conn = c
    \/ \E r \in Range(replies[i]) : r.for = "relay" /\ r.id.msg = m /\ r.id.attempt = k /\ r.conn = c

\* A step that makes no new attempt.
RelayKept ==
  /\ \A m \in Message : \A k \in 0..1 : Remote(m, k)' => Remote(m, k)
  /\ \A m \in Message : \A k \in 0..1 : \A c \in Connection : Sending(m, k, c)' => Sending(m, k, c)

\* An acknowledgement that is new says what was done.
AcksAfter ==
  \A j \in Instance : \A e \in Range(inbox'[j]) :
    e.kind = "relay.ack" =>
      \/ e \in Range(inbox[j])
      \/ e.ack = "sent" /\ written'[e.msg] # <<>>
      \/ e.ack = "unsent" /\ written' = written /\ \E c \in Connection : Sending(e.msg, e.attempt, c)

LEMMA QueuesUntouched ==
  ASSUME Base, NEW i \in Instance
  PROVE  /\ replies' = replies => RepliesAfter(i, {}, {})
         /\ inbox' = inbox => InboxAfter(i, {}, {})
  <1>1. /\ RedisType
        /\ \A j \in Instance : DistinctReplies(replies[j])
        /\ \A j \in Instance : DistinctAttempts(inbox[j])
    BY DEF Base, TypeOK, AwaitInv, ApartInv
  <1>2. Rest(i, replies[i], {}) /\ replies = [replies EXCEPT ![i] = replies[i]] /\ Box(i, inbox, {})
    BY <1>1 DEF Rest, RedisType, Box
  <1> QED
    BY <1>1, <1>2, RepliesStep, InboxStep

\* What the relay has after a step of instance i: nothing of attempt k of message m
\* that it had, if the step took that, and of the others no more than it had.
LEMMA ApartKept ==
  ASSUME Base, NEW i \in Instance, NEW H, NEW Y, RepliesAfter(i, H, Y),
         NEW E, NEW F, InboxAfter(i, E, F), \A f \in F : f.to \in Instance, NEW m, NEW k,
         \A y \in Y : y.for = "relay" => y.id.msg = m /\ y.id.attempt = k,
         \A f \in F : f.kind # "agent.close" => f.msg = m /\ f.attempt = k,
         (\A y \in Y : y.for # "relay") \/ (\A f \in F : f.kind = "agent.close"),
         \A f, g \in F : f = g,
         \/ \A y \in Y : y.for # "relay"
         \/ ~ Remote(m, k)
         \/ \E e \in E : e \in Range(inbox[i]) /\ e.kind # "agent.close" /\ e.msg = m /\ e.attempt = k,
         \/ \A f \in F : f.kind = "agent.close"
         \/ ~ Remote(m, k)
         \/ \E e \in E : e \in Range(inbox[i]) /\ e.kind # "agent.close" /\ e.msg = m /\ e.attempt = k
         \/ \E h \in H : /\ h \in Range(replies[i])
                         /\ h.for = "relay" /\ h.id.msg = m /\ h.id.attempt = k
  PROVE  ApartInv'
  <1> DEFINE Env(e, x, n) == e.kind # "agent.close" /\ e.msg = x /\ e.attempt = n
             Rep(r, x, n) == r.for = "relay" /\ r.id.msg = x /\ r.id.attempt = n
             New == (\E y \in Y : y.for = "relay") \/ (\E f \in F : f.kind # "agent.close")
  <1>a. /\ \A p, q \in Instance : \A x \in Message : \A n \in 0..1 :
             /\ p # q => ~ (HasEnvelope(inbox[p], x, n) /\ HasEnvelope(inbox[q], x, n))
             /\ p # q => ~ (HasReply(replies[p], x, n) /\ HasReply(replies[q], x, n))
             /\ ~ (HasEnvelope(inbox[p], x, n) /\ HasReply(replies[q], x, n))
    BY DEF Base, ApartInv
  <1>i. /\ \A j \in Instance : \A e \in Range(inbox'[j]) :
             \/ e \in Range(inbox[j]) /\ (j = i => \A h \in E : ~ SameAttempt(h, e))
             \/ e \in F /\ e.to = j
        /\ \A j \in Instance : \A r \in Range(replies'[j]) :
             \/ r \in Range(replies[j]) /\ (j = i => \A h \in H : ~ SameReply(h, r))
             \/ j = i /\ r \in Y
    BY DEF InboxAfter, RepliesAfter
  \* What was there of the attempt that is renewed is gone.
  <1>1. ASSUME New
        PROVE  /\ \A j \in Instance : \A e \in Range(inbox[j]) :
                    Env(e, m, k) /\ (j = i => \A h \in E : ~ SameAttempt(h, e)) => FALSE
               /\ \A j \in Instance : \A r \in Range(replies[j]) :
                    Rep(r, m, k) /\ (j = i => \A h \in H : ~ SameReply(h, r)) => FALSE
    <2>1. CASE ~ Remote(m, k)
      BY <2>1 DEF Remote, HasEnvelope, HasReply
    <2>2. CASE \E e \in E : e \in Range(inbox[i]) /\ Env(e, m, k)
      <3>0. m \in Message /\ k \in 0..1
        BY <2>2, QueueRange, EnvelopeType DEF Base, TypeOK, RedisType
      <3>1. HasEnvelope(inbox[i], m, k)
        BY <2>2 DEF HasEnvelope
      <3>2. \A j \in Instance : ~ HasReply(replies[j], m, k) /\ (j # i => ~ HasEnvelope(inbox[j], m, k))
        BY <1>a, <3>0, <3>1
      <3> QED
        BY <2>2, <3>2 DEF HasEnvelope, HasReply, SameAttempt
    <2>3. CASE \E h \in H : h \in Range(replies[i]) /\ Rep(h, m, k)
      <3>0. m \in Message /\ k \in 0..1
        BY <2>3, RepliesTyped, EnvelopeType DEF Base, TypeOK, AwaitInv, Awaited
      <3>1. HasReply(replies[i], m, k)
        BY <2>3 DEF HasReply
      <3>2. \A j \in Instance : ~ HasEnvelope(inbox[j], m, k) /\ (j # i => ~ HasReply(replies[j], m, k))
        BY <1>a, <3>0, <3>1
      <3> QED
        BY <2>3, <3>2 DEF HasEnvelope, HasReply, SameReply
    <2> QED
      BY <1>1, <2>1, <2>2, <2>3
  <1>2. ASSUME NEW x \in Message, NEW n \in 0..1, ~ (New /\ x = m /\ n = k), NEW j \in Instance
        PROVE  /\ HasEnvelope(inbox'[j], x, n) => HasEnvelope(inbox[j], x, n)
               /\ HasReply(replies'[j], x, n) => HasReply(replies[j], x, n)
    BY <1>i, <1>2 DEF HasEnvelope, HasReply
  <1>3. ASSUME New, NEW p \in Instance, NEW q \in Instance
        PROVE  /\ p # q => ~ (HasEnvelope(inbox'[p], m, k) /\ HasEnvelope(inbox'[q], m, k))
               /\ p # q => ~ (HasReply(replies'[p], m, k) /\ HasReply(replies'[q], m, k))
               /\ ~ (HasEnvelope(inbox'[p], m, k) /\ HasReply(replies'[q], m, k))
    <2>1. \A j \in Instance : HasEnvelope(inbox'[j], m, k) => \E f \in F : Env(f, m, k) /\ f.to = j
      BY <1>1, <1>3, <1>i DEF HasEnvelope
    <2>2. \A j \in Instance : HasReply(replies'[j], m, k) => j = i /\ \E y \in Y : y.for = "relay"
      BY <1>1, <1>3, <1>i DEF HasReply
    <2> QED
      BY <2>1, <2>2
  <1>4. \A j \in Instance : DistinctAttempts(inbox'[j])
    <2> SUFFICES ASSUME NEW y \in F, NEW e \in Range(inbox[y.to]),
                        y.to = i => \A h \in E : ~ SameAttempt(h, e)
                 PROVE  ~ SameAttempt(e, y)
      BY DEF InboxAfter
    <2>1. CASE y.kind = "agent.close"
      BY <2>1 DEF SameAttempt
    <2>2. CASE y.kind # "agent.close"
      BY <1>1, <2>2 DEF SameAttempt
    <2> QED
      BY <2>1, <2>2
  <1> QED
    BY <1>a, <1>2, <1>3, <1>4 DEF ApartInv

\* A step that touches no attempt.
LEMMA RelayUntouched ==
  ASSUME Base, NEW i \in Instance, NEW H, NEW Y, RepliesAfter(i, H, Y),
         NEW E, NEW F, InboxAfter(i, E, F), \A f \in F : f.to \in Instance /\ f.kind = "agent.close",
         \A f, g \in F : f = g, \A y \in Y : y.for # "relay"
  PROVE  RelayKept /\ AcksAfter /\ ApartInv'
  <1>1. ApartInv'
    BY ApartKept
  <1>2. /\ \A j \in Instance : \A e \in Range(inbox'[j]) : e \in Range(inbox[j]) \/ e.kind = "agent.close"
        /\ \A j \in Instance : \A r \in Range(replies'[j]) : r \in Range(replies[j]) \/ r.for # "relay"
    BY DEF InboxAfter, RepliesAfter
  <1>3. RelayKept
    <2>1. \A m \in Message : \A k \in 0..1 : Remote(m, k)' => Remote(m, k)
      BY <1>2 DEF Remote, HasEnvelope, HasReply
    <2>2. \A m \in Message : \A k \in 0..1 : \A c \in Connection : Sending(m, k, c)' => Sending(m, k, c)
      BY <1>2 DEF Sending
    <2> QED
      BY <2>1, <2>2 DEF RelayKept
  <1>4. AcksAfter
    BY <1>2 DEF AcksAfter
  <1> QED
    BY <1>1, <1>3, <1>4


\* Every step but the publish of an attempt.
LEMMA RelayStepKept ==
  ASSUME Base, Effect, ~ \E i \in Instance : \E h, k, y, Y : RemoteEffect(i, h, k, y, Y)
  PROVE  RelayKept /\ AcksAfter /\ ApartInv'
  <1> DEFINE Goal == RelayKept /\ AcksAfter /\ ApartInv'
  <1>i. PICK o \in Instance : TRUE
    BY HubAssumption
  <1>u. replies' = replies /\ inbox' = inbox => Goal
    BY <1>i, QueuesUntouched, RelayUntouched
  <1>r. ASSUME inbox' = inbox, NEW i \in Instance, NEW H, NEW Y, RepliesAfter(i, H, Y),
               \A y \in Y : y.for # "relay"
        PROVE  Goal
    <2>1. InboxAfter(i, {}, {})
      BY <1>r, QueuesUntouched
    <2> QED
      BY <1>r, <2>1, RelayUntouched
  <1>e. ASSUME replies' = replies, NEW i \in Instance, NEW E, InboxAfter(i, E, {})
        PROVE  Goal
    <2>1. RepliesAfter(i, {}, {})
      BY <1>e, QueuesUntouched
    <2> QED
      BY <1>e, <2>1, RelayUntouched
  <1>t. /\ \A j \in Instance : \A x \in Range(inbox[j]) : x \in Envelope
        /\ RedisType
    BY QueueRange DEF Base, TypeOK, RedisType
  <1> HIDE DEF Goal
  <1>1. ASSUME NEW c \in Connection, CloseOverEffect(c) PROVE Goal
    BY <1>u, <1>1 DEF CloseOverEffect
  <1>2. ASSUME LapseEffect \/ Stutter PROVE Goal
    BY <1>u, <1>2 DEF LapseEffect, Stutter
  <1>3. ASSUME NEW c \in Connection, NEW i \in Instance, DialEffect(c, i) PROVE Goal
    BY <1>u, <1>3 DEF DialEffect
  <1>4. ASSUME NEW c \in Connection, NEW state \in {"cut", "closed"}, DropEffect(c, state)
        PROVE  Goal
    BY <1>u, <1>4 DEF DropEffect
  <1>5. ASSUME NEW m \in Message, TimeoutEffect(m) \/ AnswerEffect(m) PROVE Goal
    BY <1>u, <1>5 DEF TimeoutEffect, AnswerEffect
  <1>6. ASSUME NEW i \in Instance, NEW e,
               \/ LoseEffect(i, e)
                 \/ ExpelEffect(i, e)
                 \/ HearEffect(i, e)
        PROVE  Goal
    BY <1>e, <1>6 DEF LoseEffect, ExpelEffect, HearEffect
  <1>7. ASSUME NEW i \in Instance, NEW h,
               \/ RefuseEffect(i, h)
                 \/ BeatEffect(i, h)
                 \/ DetachEffect(i, h)
                 \/ GiveUpEffect(i, h)
                 \/ WriteEffect(i, h)
        PROVE  Goal
    BY <1>r, <1>7 DEF RefuseEffect, BeatEffect, DetachEffect, GiveUpEffect, WriteEffect
  <1>8. ASSUME NEW i \in Instance, NEW h, NEW ack, PublishedEffect(i, h, ack) PROVE Goal
    BY <1>r, <1>8 DEF PublishedEffect
  <1>9. ASSUME NEW i \in Instance, NEW h, NEW y, WelcomeEffect(i, h, y) \/ RetryEffect(i, h, y)
        PROVE  Goal
    BY <1>r, <1>9 DEF WelcomeEffect, RetryEffect, Pledge
  <1>10. ASSUME NEW i \in Instance, NEW h, NEW k, NEW y,
               \/ LocalEffect(i, h, k, y)
                 \/ MissEffect(i, h, k, y)
        PROVE  Goal
    BY <1>r, <1>10 DEF LocalEffect, MissEffect, Pledge, Tries
  <1>11. ASSUME NEW c \in Connection, NEW y,
               \/ AttachEffect(c, y)
                 \/ HeartbeatEffect(c, y)
                 \/ CloseEffect(c, y)
        PROVE  Goal
    BY <1>r, <1>11 DEF AttachEffect, HeartbeatEffect, CloseEffect, Pledge
  <1>12. ASSUME NEW i \in Instance, NEW y, CloseDeviceEffect(i, y) PROVE Goal
    BY <1>r, <1>12 DEF CloseDeviceEffect, Pledge
  <1>13. ASSUME NEW i \in Instance, NEW m \in Message, NEW y, SendEffect(i, m, y) PROVE Goal
    BY <1>r, <1>13 DEF SendEffect, Pledge
  <1>14. ASSUME NEW m \in Message, NEW y, ReaskEffect(m, y) PROVE Goal
    BY <1>r, <1>14 DEF ReaskEffect, Pledge
  <1>15. ASSUME NEW i \in Instance, NEW Y, StopEffect(i, Y) PROVE Goal
    BY <1>r, <1>15 DEF StopEffect, Pledge
  <1>16. ASSUME NEW i \in Instance, NEW h, NEW y, NEW Y, ReplaceEffect(i, h, y, Y) PROVE Goal
    <2>1. \A f \in Y : f.to \in Instance /\ f.kind = "agent.close"
      BY <1>16, EnvelopeType DEF ReplaceEffect, CloseEnvelope
    <2>2. \A f, g \in Y : f = g
      BY <1>16 DEF ReplaceEffect
    <2> QED
      BY <1>16, <2>1, <2>2, RelayUntouched DEF ReplaceEffect, Pledge, Goal
  <1>17. ASSUME NEW i \in Instance, NEW h, NEW Y, CloseOwnerEffect(i, h, Y) PROVE Goal
    <2>1. \A f \in Y : f.to \in Instance /\ f.kind = "agent.close"
      BY <1>17, EnvelopeType DEF CloseOwnerEffect, CloseEnvelope
    <2>2. \A f, g \in Y : f = g
      BY <1>17 DEF CloseOwnerEffect
    <2> QED
      BY <1>17, <2>1, <2>2, RelayUntouched DEF CloseOwnerEffect, Pledge, Goal
  <1>18. ASSUME NEW i \in Instance, NEW h, NEW k, NEW y, NEW Y, RemoteEffect(i, h, k, y, Y)
        PROVE  Goal
    BY <1>18
  <1>19. ASSUME NEW i \in Instance, HaltEffect(i) PROVE Goal
    <2>1. /\ \A j \in Instance : \A x \in Range(inbox'[j]) : x \in Range(inbox[j])
          /\ \A j \in Instance : \A r \in Range(replies'[j]) : r \in Range(replies[j])
      BY <1>19 DEF HaltEffect
    <2>2. \A m \in Message : \A k \in 0..1 : Remote(m, k)' => Remote(m, k)
      BY <2>1 DEF Remote, HasEnvelope, HasReply
    <2>3. \A m \in Message : \A k \in 0..1 : \A c \in Connection : Sending(m, k, c)' => Sending(m, k, c)
      BY <2>1 DEF Sending
    <2>4. AcksAfter
      BY <2>1 DEF AcksAfter
    <2>5. \A j \in Instance : DistinctAttempts(inbox'[j])
      <3>1. DistinctAttempts(<<>>)
        BY DEF DistinctAttempts
      <3> QED
        BY <1>19, <3>1 DEF HaltEffect, Base, ApartInv
    <2>6. ASSUME NEW j \in Instance, NEW m \in Message, NEW k \in 0..1
          PROVE  /\ HasEnvelope(inbox'[j], m, k) => HasEnvelope(inbox[j], m, k)
                 /\ HasReply(replies'[j], m, k) => HasReply(replies[j], m, k)
      BY <2>1 DEF HasEnvelope, HasReply
    <2>a. \A p, q \in Instance : \A m \in Message : \A k \in 0..1 :
            /\ p # q => ~ (HasEnvelope(inbox[p], m, k) /\ HasEnvelope(inbox[q], m, k))
            /\ p # q => ~ (HasReply(replies[p], m, k) /\ HasReply(replies[q], m, k))
            /\ ~ (HasEnvelope(inbox[p], m, k) /\ HasReply(replies[q], m, k))
      BY DEF Base, ApartInv
    <2>7. ApartInv'
      BY <2>5, <2>6, <2>a DEF ApartInv
    <2> QED
      BY <2>2, <2>3, <2>4, <2>7 DEF RelayKept, Goal
  <1>20. ASSUME NEW i \in Instance, NEW e, NEW y, DeliverEffect(i, e, y) PROVE Goal
    <2>1. e \in Envelope /\ e \in Range(inbox[i]) /\ e.kind = "agent.send"
      BY <1>20 DEF DeliverEffect, Takes
    <2>2. y.for = "relay" /\ y.id = e /\ y.conn = e.conn
      BY <1>20 DEF DeliverEffect, Pledge
    <2>r. RepliesAfter(i, {}, {y}) /\ InboxAfter(i, {e}, {})
      BY <1>20 DEF DeliverEffect
    <2>3. ApartInv'
      <3> DEFINE m == e.msg
                 k == e.attempt
                 Y == {y}
                 E == {e}
      <3>1. \A x \in Y : x.for = "relay" => x.id.msg = m /\ x.id.attempt = k
        BY <2>2
      <3>2. \E x \in E : x \in Range(inbox[i]) /\ x.kind # "agent.close" /\ x.msg = m /\ x.attempt = k
        BY <2>1
      <3>3. RepliesAfter(i, {}, Y) /\ InboxAfter(i, E, {})
        BY <2>r
      <3> HIDE DEF m, k, Y, E
      <3> QED
        BY <3>1, <3>2, <3>3, ApartKept
    <2>4. /\ \A j \in Instance : \A x \in Range(inbox'[j]) : x \in Range(inbox[j])
          /\ \A j \in Instance : \A r \in Range(replies'[j]) : r \in Range(replies[j]) \/ r = y
      BY <1>20 DEF DeliverEffect, InboxAfter, RepliesAfter
    <2>5. \A m \in Message : \A k \in 0..1 : Remote(m, k)' => Remote(m, k)
      BY <2>1, <2>2, <2>4 DEF Remote, HasEnvelope, HasReply
    <2>6. \A m \in Message : \A k \in 0..1 : \A c \in Connection : Sending(m, k, c)' => Sending(m, k, c)
      BY <2>1, <2>2, <2>4 DEF Sending
    <2>7. AcksAfter
      BY <2>4 DEF AcksAfter
    <2> QED
      BY <2>3, <2>5, <2>6, <2>7 DEF RelayKept, Goal
  <1>21. ASSUME NEW i \in Instance, NEW e, NEW Y, RejectEffect(i, e, Y) PROVE Goal
    <2>1. e \in Envelope /\ e \in Range(inbox[i]) /\ e.kind = "agent.send"
      BY <1>21 DEF RejectEffect, Takes
    <2>t. e.msg \in Message /\ e.attempt \in 0..1 /\ e.conn \in Connection
      BY <2>1, EnvelopeType
    <2>2. \A f \in Y : /\ f.kind = "relay.ack" /\ f.msg = e.msg /\ f.attempt = e.attempt
                      /\ f.ack = "unsent" /\ f.to \in Instance
      BY <1>21, <2>1, EnvelopeType DEF RejectEffect, AckOf
    <2>r. RepliesAfter(i, {}, {}) /\ InboxAfter(i, {e}, Y) /\ \A f, g \in Y : f = g
      BY <1>21, QueuesUntouched DEF RejectEffect
    <2>3. ApartInv'
      BY <2>1, <2>2, <2>r, ApartKept
    <2>4. /\ \A j \in Instance : \A x \in Range(inbox'[j]) : x \in Range(inbox[j]) \/ x \in Y
          /\ replies' = replies
      BY <1>21 DEF RejectEffect, InboxAfter
    <2>5. \A m \in Message : \A k \in 0..1 : Remote(m, k)' => Remote(m, k)
      BY <2>1, <2>2, <2>4 DEF Remote, HasEnvelope, HasReply
    <2>6. \A m \in Message : \A k \in 0..1 : \A c \in Connection : Sending(m, k, c)' => Sending(m, k, c)
      BY <2>1, <2>2, <2>4 DEF Sending
    <2>s. Sending(e.msg, e.attempt, e.conn)
      BY <2>1 DEF Sending
    <2>7. AcksAfter
      BY <1>21, <2>2, <2>4, <2>s, <2>t DEF AcksAfter, RejectEffect
    <2> QED
      BY <2>3, <2>5, <2>6, <2>7 DEF RelayKept, Goal
  <1>22. ASSUME NEW i \in Instance, NEW h, NEW r, NEW Y, RelayedEffect(i, h, r, Y) PROVE Goal
    <2>1. /\ h.id \in Envelope /\ h \in Range(replies[i]) /\ h.for = "relay"
          /\ h.id.kind = "agent.send" /\ h.conn = h.id.conn
      BY <1>22, HandledType DEF RelayedEffect, Handles, Awaited
    <2>t. h.id.msg \in Message /\ h.id.attempt \in 0..1 /\ h.conn \in Connection
      BY <2>1, EnvelopeType
    <2>2. \A f \in Y : /\ f.kind = "relay.ack" /\ f.msg = h.id.msg /\ f.attempt = h.id.attempt
                      /\ f.ack = r /\ f.to \in Instance
      BY <1>22, <2>1, EnvelopeType DEF RelayedEffect, AckOf
    <2>r. RepliesAfter(i, {h}, {}) /\ InboxAfter(i, {}, Y) /\ \A f, g \in Y : f = g
      BY <1>22 DEF RelayedEffect
    <2>3. ApartInv'
      BY <2>1, <2>2, <2>r, ApartKept
    <2>4. /\ \A j \in Instance : \A x \in Range(inbox'[j]) : x \in Range(inbox[j]) \/ x \in Y
          /\ \A j \in Instance : \A x \in Range(replies'[j]) : x \in Range(replies[j])
      BY <2>r DEF InboxAfter, RepliesAfter
    <2>5. \A m \in Message : \A k \in 0..1 : Remote(m, k)' => Remote(m, k)
      BY <2>1, <2>2, <2>4 DEF Remote, HasEnvelope, HasReply
    <2>6. \A m \in Message : \A k \in 0..1 : \A c \in Connection : Sending(m, k, c)' => Sending(m, k, c)
      BY <2>1, <2>2, <2>4 DEF Sending
    <2>s. Sending(h.id.msg, h.id.attempt, h.conn)
      BY <2>1 DEF Sending
    <2>w. r = "sent" => written'[h.id.msg] # <<>>
      <3> DEFINE m == h.id.msg
      <3>1. m \in Message /\ written[m] \in Seq(Connection) /\ written \in [Message -> Seq(Connection)]
        BY <2>t DEF Base, TypeOK, HistoryType
      <3>2. r = "sent" => written' = [written EXCEPT ![m] = Append(@, h.conn)]
        BY <1>22 DEF RelayedEffect
      <3> HIDE DEF m
      <3>3. r = "sent" => written'[m] = Append(written[m], h.conn)
        BY <3>1, <3>2
      <3> QED
        BY <2>t, <3>1, <3>3 DEF m
    <2>7. AcksAfter
      BY <1>22, <2>2, <2>4, <2>s, <2>t, <2>w DEF AcksAfter, RelayedEffect
    <2> QED
      BY <2>3, <2>5, <2>6, <2>7 DEF RelayKept, Goal
  <1> QED
    BY <1>1, <1>2, <1>3, <1>4, <1>5, <1>6, <1>7, <1>8, <1>9, <1>10, <1>11, <1>12, <1>13, <1>14,
       <1>15, <1>16, <1>17, <1>18, <1>19, <1>20, <1>21, <1>22 DEF Effect, Goal

\* Attempt k of message m may still be written to connection c: it is on its way to
\* another instance, or the touch before the write is awaited.
Token(m, k, c) ==
  \/ Sending(m, k, c)
  \/ asks[m].pc = "local" /\ k = asks[m].attempt /\ c = asks[m].owner

\* The attempts go to different connections, each of which was not written to yet,
\* and an attempt that was written is over.
TokenOf(m) ==
  /\ asks[m].pc \in {"idle", "owner"} => asks[m].attempt = 0 /\ written[m] = <<>>
  /\ \A k \in 0..1 : Remote(m, k) =>
       k <= asks[m].attempt /\ (k = asks[m].attempt => asks[m].pc \notin {"idle", "owner", "local"})
  /\ \A k \in 0..1 : \A c \in Connection : Token(m, k, c) =>
       /\ c \notin Range(written[m])
       /\ c = asks[m].owner <=> k = asks[m].attempt
       /\ Len(written[m]) <= asks[m].attempt
  /\ \A c, d \in Connection : Token(m, 0, c) /\ Token(m, 1, d) => written[m] = <<>>
  /\ Len(written[m]) <= asks[m].attempt + 1
  /\ asks[m].attempt = 0 => Range(written[m]) \subseteq {asks[m].owner}
  /\ asks[m].ack = "sent" => written[m] # <<>>
  /\ \A i \in Instance : \A e \in Range(inbox[i]) :
       e.kind = "relay.ack" /\ e.msg = m /\ e.ack = "sent" => written[m] # <<>>

TokenInv == \A m \in Message : TokenOf(m)

\* What is on its way is with the relay.
LEMMA SendingRemote ==
  ASSUME NEW m, NEW k, NEW c, Sending(m, k, c)
  PROVE  Remote(m, k)
  <1>1. PICK i \in Instance :
          \/ \E e \in Range(inbox[i]) : e.kind = "agent.send" /\ e.msg = m /\ e.attempt = k /\ e.conn = c
          \/ \E r \in Range(replies[i]) : r.for = "relay" /\ r.id.msg = m /\ r.id.attempt = k /\ r.conn = c
    BY DEF Sending
  <1>2. HasEnvelope(inbox[i], m, k) \/ HasReply(replies[i], m, k)
    BY <1>1 DEF HasEnvelope, HasReply
  <1> QED
    BY <1>2 DEF Remote

\* A message whose call goes on with the attempt it has, and that is not written.
LEMMA TokenKept ==
  ASSUME RelayKept, AcksAfter, NEW m \in Message, TokenOf(m),
         written'[m] = written[m],
         asks'[m].attempt = asks[m].attempt,
         asks'[m].owner = asks[m].owner,
         asks'[m].pc \in {"idle", "owner"} => asks[m].pc \in {"idle", "owner"},
         asks'[m].pc = "local" => asks[m].pc = "local",
         asks'[m].ack = "sent" => asks[m].ack = "sent" \/ written[m] # <<>>
  PROVE  TokenOf(m)'
  <1>1. \A k \in 0..1 : \A c \in Connection : Token(m, k, c)' => Token(m, k, c)
    BY DEF Token, RelayKept
  <1>2. \A k \in 0..1 : Remote(m, k)' => Remote(m, k)
    BY DEF RelayKept
  <1>3. ASSUME NEW i \in Instance, NEW e \in Range(inbox'[i]),
               e.kind = "relay.ack", e.msg = m, e.ack = "sent"
        PROVE  written'[m] # <<>>
    BY <1>3 DEF TokenOf, AcksAfter
  <1>4. /\ asks'[m].pc \in {"idle", "owner"} => asks'[m].attempt = 0 /\ written'[m] = <<>>
        /\ Len(written'[m]) <= asks'[m].attempt + 1
        /\ asks'[m].attempt = 0 => Range(written'[m]) \subseteq {asks'[m].owner}
        /\ asks'[m].ack = "sent" => written'[m] # <<>>
    BY DEF TokenOf
  <1>5. \A k \in 0..1 : Remote(m, k)' =>
          /\ k <= asks'[m].attempt
          /\ k = asks'[m].attempt => asks'[m].pc \notin {"idle", "owner", "local"}
    BY <1>2 DEF TokenOf
  <1>6. \A k \in 0..1 : \A c \in Connection : Token(m, k, c)' =>
          /\ c \notin Range(written'[m])
          /\ c = asks'[m].owner <=> k = asks'[m].attempt
          /\ Len(written'[m]) <= asks'[m].attempt
    BY <1>1 DEF TokenOf
  <1>7. \A c, d \in Connection : Token(m, 0, c)' /\ Token(m, 1, d)' => written'[m] = <<>>
    BY <1>1 DEF TokenOf
  <1> HIDE DEF Token, Remote
  <1> QED
    BY <1>3, <1>4, <1>5, <1>6, <1>7 DEF TokenOf

\* An attempt is made at a connection that has not got the message.
LEMMA TriesFresh ==
  ASSUME Base, TokenInv, NEW i \in Instance, NEW h, NEW k, NEW pc, Tries(i, h, k, pc)
  PROVE  /\ h.id \in Message /\ k \in 0..1 /\ h.val \in Connection
         /\ asks[h.id].attempt = 0 /\ asks[h.id].pc \in {"owner", "again"}
         /\ \A n \in 0..1 : Remote(h.id, n) => n = 0 /\ k = 1
         /\ \A n \in 0..1 : \A c \in Connection : Sending(h.id, n, c) =>
              n = 0 /\ k = 1 /\ c = asks[h.id].owner /\ c # h.val /\ written[h.id] = <<>>
         /\ Len(written[h.id]) <= k
         /\ h.val \notin Range(written[h.id])
         /\ k = 0 => written[h.id] = <<>>
  <1> DEFINE m == h.id
  <1>1. /\ m \in Message /\ asks[m].pc \in {"owner", "again"} /\ h.val \in Connection
        /\ \/ k = 0 /\ asks[m].pc = "owner"
           \/ k = 1 /\ asks[m].attempt = 0 /\ h.val # asks[m].owner
    BY HandledFrame DEF Tries, Asking
  <1>2. TokenOf(m) /\ written[m] \in Seq(Connection)
    BY <1>1 DEF TokenInv, Base, TypeOK, HistoryType
  <1>s. \A n, c : Sending(m, n, c) => Remote(m, n)
    BY SendingRemote
  <1> HIDE DEF m
  <1>3. asks[m].attempt = 0
    BY <1>1, <1>2 DEF TokenOf
  <1>4. \A n \in 0..1 : Remote(m, n) => n = 0 /\ k = 1
    BY <1>1, <1>2, <1>3 DEF TokenOf
  <1>5. \A n \in 0..1 : \A c \in Connection : Sending(m, n, c) =>
          n = 0 /\ k = 1 /\ c = asks[m].owner /\ Len(written[m]) <= 0
    BY <1>2, <1>3, <1>4, <1>s DEF TokenOf, Token
  <1>6. Len(written[m]) <= 0 => written[m] = <<>>
    BY <1>2, EmptySeq
  <1>7. Len(<<>>) = 0 /\ Range(<<>>) = {}
    BY DEF Range
  <1>8. Len(written[m]) <= k /\ h.val \notin Range(written[m]) /\ (k = 0 => written[m] = <<>>)
    BY <1>1, <1>2, <1>3, <1>7 DEF TokenOf
  <1> QED
    BY <1>1, <1>3, <1>4, <1>5, <1>6, <1>8 DEF m

LEMMA TriesToken ==
  ASSUME Base, TokenInv, NEW i \in Instance, NEW h, NEW k, NEW pc \in {"local", "again", "publish"},
         Tries(i, h, k, pc),
         \A n \in 0..1 : Remote(h.id, n)' => Remote(h.id, n) \/ (n = k /\ pc = "publish"),
         \A n \in 0..1 : \A c \in Connection : Sending(h.id, n, c)' =>
           Sending(h.id, n, c) \/ (n = k /\ c = h.val /\ pc = "publish"),
         \A j \in Instance : \A e \in Range(inbox'[j]) : e.kind = "relay.ack" => e \in Range(inbox[j])
  PROVE  TokenOf(h.id)'
  <1> DEFINE m == h.id
  <1>1. /\ m \in Message /\ k \in 0..1 /\ h.val \in Connection
        /\ \A n \in 0..1 : Remote(m, n) => n = 0 /\ k = 1
        /\ \A n \in 0..1 : \A c \in Connection : Sending(m, n, c) =>
              n = 0 /\ k = 1 /\ c = asks[m].owner /\ c # h.val /\ written[m] = <<>>
        /\ Len(written[m]) <= k
        /\ h.val \notin Range(written[m])
        /\ k = 0 => written[m] = <<>>
    BY TriesFresh
  <1>2. /\ asks'[m].pc = pc /\ asks'[m].owner = h.val /\ asks'[m].attempt = k /\ asks'[m].ack = "open"
        /\ written' = written
    BY DEF Tries, AskAfter
  <1>w. TokenOf(m) /\ written[m] \in Seq(Connection) /\ Len(written[m]) \in Nat
    BY <1>1 DEF TokenInv, Base, TypeOK, HistoryType
  <1>e. Len(<<>>) = 0 /\ Range(<<>>) = {}
    BY DEF Range
  <1>h. /\ \A n \in 0..1 : Remote(m, n)' => Remote(m, n) \/ (n = k /\ pc = "publish")
        /\ \A n \in 0..1 : \A c \in Connection : Sending(m, n, c)' =>
             Sending(m, n, c) \/ (n = k /\ c = h.val /\ pc = "publish")
    OBVIOUS
  <1> HIDE DEF m
  <1>3. \A n \in 0..1 : \A c \in Connection : Token(m, n, c)' =>
          (n = k /\ c = h.val) \/ (n = 0 /\ k = 1 /\ c # h.val /\ written[m] = <<>>)
    BY <1>1, <1>2, <1>h DEF Token
  <1>4. \A n \in 0..1 : Remote(m, n)' =>
          n <= asks'[m].attempt /\ (n = asks'[m].attempt => asks'[m].pc \notin {"idle", "owner", "local"})
    BY <1>1, <1>2, <1>h
  <1>5. \A n \in 0..1 : \A c \in Connection : Token(m, n, c)' =>
          /\ c \notin Range(written'[m])
          /\ c = asks'[m].owner <=> n = asks'[m].attempt
          /\ Len(written'[m]) <= asks'[m].attempt
    BY <1>1, <1>2, <1>3, <1>e
  <1>6. \A c, d \in Connection : Token(m, 0, c)' /\ Token(m, 1, d)' => written'[m] = <<>>
    <2> SUFFICES ASSUME NEW c \in Connection, NEW d \in Connection, Token(m, 0, c)', Token(m, 1, d)'
                 PROVE  written[m] = <<>>
      BY <1>2
    <2>1. (0 = k /\ c = h.val) \/ (k = 1 /\ written[m] = <<>>)
      BY <1>3
    <2> QED
      BY <1>1, <2>1
  <1>7. /\ asks'[m].pc \in {"idle", "owner"} => asks'[m].attempt = 0 /\ written'[m] = <<>>
        /\ Len(written'[m]) <= asks'[m].attempt + 1
        /\ asks'[m].attempt = 0 => Range(written'[m]) \subseteq {asks'[m].owner}
        /\ asks'[m].ack = "sent" => written'[m] # <<>>
    BY <1>1, <1>2, <1>w, <1>e
  <1>8. \A j \in Instance : \A e \in Range(inbox'[j]) :
          e.kind = "relay.ack" /\ e.msg = m /\ e.ack = "sent" => written'[m] # <<>>
    BY <1>2, <1>w DEF TokenOf
  <1>9. TokenOf(m)'
    BY <1>4, <1>5, <1>6, <1>7, <1>8 DEF TokenOf
  <1> QED
    BY <1>9 DEF m

\* An attempt is written, which ends it.
LEMMA TokenWritten ==
  ASSUME Base, NEW m \in Message, TokenOf(m), NEW k \in 0..1, NEW c \in Connection, Token(m, k, c),
         written' = [written EXCEPT ![m] = Append(@, c)],
         \A n \in 0..1 : Remote(m, n)' => Remote(m, n),
         \A n \in 0..1 : \A d \in Connection : Token(m, n, d)' => Token(m, n, d) /\ n # k,
         asks'[m].attempt = asks[m].attempt, asks'[m].owner = asks[m].owner,
         asks'[m].pc \notin {"idle", "owner"}, asks'[m].pc = "local" => asks[m].pc = "local"
  PROVE  TokenOf(m)'
  <1> DEFINE a == asks[m].attempt
             o == asks[m].owner
             w == written[m]
  <1>t. /\ a \in 0..1 /\ w \in Seq(Connection) /\ Len(w) \in Nat
        /\ written'[m] = Append(w, c)
    BY DEF Base, TypeOK, InstanceType, HistoryType, Ask
  <1>1. /\ Range(written'[m]) = Range(w) \cup {c}
        /\ Len(written'[m]) = Len(w) + 1
        /\ written'[m] # <<>>
        /\ Len(w) = 0 => Range(w) = {}
    <2>1. Len(w) = 0 => w = <<>>
      BY <1>t, EmptySeq
    <2>2. Range(<<>>) = {}
      BY DEF Range
    <2>3. Range(Append(w, c)) = Range(w) \cup {c}
      BY <1>t, QueueRange
    <2> QED
      BY <1>t, <2>1, <2>2, <2>3
  <1>2. \A n \in 0..1 : \A d \in Connection : Token(m, n, d) =>
          n <= a /\ d \notin Range(w) /\ (d = o <=> n = a) /\ Len(w) <= a
    BY SendingRemote DEF TokenOf, Token
  <1>3. \A x, d \in Connection : Token(m, 0, x) /\ Token(m, 1, d) => Len(w) = 0
    BY DEF TokenOf
  <1>p. /\ asks'[m].attempt = a /\ asks'[m].owner = o
        /\ a = 0 => Range(w) \subseteq {o}
    BY DEF TokenOf
  <1>r. \A n \in 0..1 : Remote(m, n) => n <= a /\ (n = a => asks[m].pc # "local")
    BY DEF TokenOf
  <1> HIDE DEF a, o, w
  <1>4. \A n \in 0..1 : \A d \in Connection : Token(m, n, d)' =>
          /\ d \notin Range(written'[m])
          /\ d = asks'[m].owner <=> n = asks'[m].attempt
          /\ Len(written'[m]) <= asks'[m].attempt
    <2> SUFFICES ASSUME NEW n \in 0..1, NEW d \in Connection, Token(m, n, d)'
                 PROVE  d \notin Range(w) \cup {c} /\ (d = o <=> n = a) /\ Len(w) + 1 <= a
      BY <1>1, <1>p
    <2>1. Token(m, n, d) /\ n # k
      OBVIOUS
    <2>2. Len(w) = 0
      <3>1. CASE n = 0 /\ k = 1
        BY <1>3, <2>1, <3>1
      <3>2. CASE n = 1 /\ k = 0
        BY <1>3, <2>1, <3>2
      <3> QED
        BY <2>1, <3>1, <3>2
    <2>3. a = 1
      BY <1>2, <1>t, <2>1
    <2> QED
      BY <1>2, <1>1, <2>1, <2>2, <2>3
  <1>5. \A x, d \in Connection : Token(m, 0, x)' /\ Token(m, 1, d)' => written'[m] = <<>>
    <2> SUFFICES ASSUME NEW x \in Connection, NEW d \in Connection, Token(m, 0, x)', Token(m, 1, d)'
                 PROVE  FALSE
      OBVIOUS
    <2>1. 0 # k /\ 1 # k
      OBVIOUS
    <2> QED
      BY <2>1
  <1>6. \A n \in 0..1 : Remote(m, n)' =>
          n <= asks'[m].attempt /\ (n = asks'[m].attempt => asks'[m].pc \notin {"idle", "owner", "local"})
    BY <1>p, <1>r
  <1>7. /\ Len(written'[m]) <= asks'[m].attempt + 1
        /\ asks'[m].attempt = 0 => Range(written'[m]) \subseteq {asks'[m].owner}
    BY <1>1, <1>2, <1>p, <1>t
  <1> QED
    BY <1>1, <1>4, <1>5, <1>6, <1>7 DEF TokenOf

LEMMA TokenStep ==
  ASSUME Base, TokenInv, Effect, ~ \E i \in Instance : \E h, k, y, Y : RemoteEffect(i, h, k, y, Y)
  PROVE  TokenInv'
  <1>k. RelayKept /\ AcksAfter
    BY RelayStepKept
  <1>t. written \in [Message -> Seq(Connection)] /\ \A m \in Message : TokenOf(m)
    BY DEF Base, TypeOK, HistoryType, TokenInv
  <1>u. asks' = asks /\ written' = written => TokenInv'
    BY <1>k, <1>t, TokenKept DEF TokenInv
  \* One call goes on.
  <1>m. ASSUME NEW m \in Message, written' = written, \A x \in Message : x # m => asks'[x] = asks[x],
               asks'[m].attempt = asks[m].attempt, asks'[m].owner = asks[m].owner,
               asks'[m].pc \in {"idle", "owner"} => asks[m].pc \in {"idle", "owner"},
               asks'[m].pc = "local" => asks[m].pc = "local",
               asks'[m].ack = "sent" => asks[m].ack = "sent" \/ written[m] # <<>>
        PROVE  TokenInv'
    <2>1. TokenOf(m)'
      BY <1>k, <1>t, <1>m, TokenKept
    <2>2. \A x \in Message : x # m => TokenOf(x)'
      BY <1>k, <1>t, <1>m, TokenKept
    <2> QED
      BY <2>1, <2>2 DEF TokenInv
  \* One message is written.
  <1>w. ASSUME NEW m \in Message, NEW c, written' = [written EXCEPT ![m] = Append(@, c)],
               \A x \in Message : x # m => asks'[x] = asks[x]
        PROVE  \A x \in Message : x # m => TokenOf(x)'
    BY <1>k, <1>t, <1>w, TokenKept
  <1>1. ASSUME NEW c \in Connection, CloseOverEffect(c) PROVE TokenInv'
    BY <1>u, <1>1 DEF CloseOverEffect
  <1>2. ASSUME LapseEffect \/ Stutter PROVE TokenInv'
    BY <1>u, <1>2 DEF LapseEffect, Stutter
  <1>3. ASSUME NEW c \in Connection, NEW i \in Instance, DialEffect(c, i) PROVE TokenInv'
    BY <1>u, <1>3 DEF DialEffect
  <1>4. ASSUME NEW c \in Connection, NEW state \in {"cut", "closed"}, DropEffect(c, state)
        PROVE  TokenInv'
    BY <1>u, <1>4 DEF DropEffect
  <1>5. ASSUME NEW i \in Instance, NEW e, LoseEffect(i, e) \/ ExpelEffect(i, e) PROVE TokenInv'
    BY <1>u, <1>5 DEF LoseEffect, ExpelEffect
  <1>6. ASSUME NEW i \in Instance, NEW h,
               \/ RefuseEffect(i, h)
                 \/ BeatEffect(i, h)
                 \/ DetachEffect(i, h)
        PROVE  TokenInv'
    BY <1>u, <1>6 DEF RefuseEffect, BeatEffect, DetachEffect
  <1>7. ASSUME NEW c \in Connection, NEW y,
               \/ AttachEffect(c, y)
                 \/ HeartbeatEffect(c, y)
                 \/ CloseEffect(c, y)
        PROVE  TokenInv'
    BY <1>u, <1>7 DEF AttachEffect, HeartbeatEffect, CloseEffect
  <1>8. ASSUME NEW i \in Instance, NEW y, CloseDeviceEffect(i, y) PROVE TokenInv'
    BY <1>u, <1>8 DEF CloseDeviceEffect
  <1>9. ASSUME NEW i \in Instance, NEW h, NEW y, NEW Y, ReplaceEffect(i, h, y, Y) PROVE TokenInv'
    BY <1>u, <1>9 DEF ReplaceEffect
  <1>10. ASSUME NEW i \in Instance, NEW h, NEW Y, CloseOwnerEffect(i, h, Y) PROVE TokenInv'
    BY <1>u, <1>10 DEF CloseOwnerEffect
  <1>11. ASSUME NEW i \in Instance, NEW e, NEW y, DeliverEffect(i, e, y) PROVE TokenInv'
    BY <1>u, <1>11 DEF DeliverEffect
  <1>12. ASSUME NEW i \in Instance, NEW e, NEW Y, RejectEffect(i, e, Y) PROVE TokenInv'
    BY <1>u, <1>12 DEF RejectEffect
  <1>13. ASSUME NEW i \in Instance, NEW e, HearEffect(i, e) PROVE TokenInv'
    <2>1. e.msg \in Message /\ e \in Range(inbox[i]) /\ e.kind = "relay.ack"
      BY <1>13, EnvelopeType DEF HearEffect, Takes
    <2>2. e.ack = "sent" => written[e.msg] # <<>>
      BY <1>t, <2>1 DEF TokenOf
    <2> QED
      BY <1>u, <1>m, <1>13, <2>1, <2>2 DEF HearEffect, AskAfter
  <1>14. ASSUME NEW m \in Message, TimeoutEffect(m) \/ AnswerEffect(m) PROVE TokenInv'
    BY <1>m, <1>14 DEF TimeoutEffect, AnswerEffect, AskAfter
  <1>15. ASSUME NEW m \in Message, NEW y, ReaskEffect(m, y) PROVE TokenInv'
    BY <1>m, <1>15 DEF ReaskEffect, AskAfter
  <1>16. ASSUME NEW i \in Instance, NEW m \in Message, NEW y, SendEffect(i, m, y) PROVE TokenInv'
    BY <1>m, <1>16 DEF SendEffect, AskAfter
  <1>17. ASSUME NEW i \in Instance, NEW h, GiveUpEffect(i, h) PROVE TokenInv'
    <2>1. h.id \in Message
      BY <1>17, HandledFrame DEF GiveUpEffect, Asking
    <2> QED
      BY <1>m, <1>17, <2>1 DEF GiveUpEffect, AskAfter
  <1>18. ASSUME NEW i \in Instance, NEW h, NEW y, RetryEffect(i, h, y) PROVE TokenInv'
    <2>1. h.id \in Message
      BY <1>18, HandledFrame DEF RetryEffect, Asking
    <2> QED
      BY <1>m, <1>18, <2>1 DEF RetryEffect, AskAfter
  <1>19. ASSUME NEW i \in Instance, NEW h, NEW ack, PublishedEffect(i, h, ack) PROVE TokenInv'
    <2>1. h.id \in Message
      BY <1>19, HandledFrame DEF PublishedEffect, Asking
    <2> QED
      BY <1>m, <1>19, <2>1 DEF PublishedEffect, AskAfter
  <1>20. ASSUME NEW i \in Instance, NEW h, NEW y, WelcomeEffect(i, h, y) PROVE TokenInv'
    <2>1. h.id \in Connection
      BY <1>20, HandledFrame DEF WelcomeEffect, Greeting
    <2>2. Welcome(h.id) \in Message /\ asks[Welcome(h.id)].pc = "idle"
      BY <1>20, <2>1, HandledFrame, MessageKinds DEF WelcomeEffect, Base, AskInv, Greeting, FrameOf
    <2> QED
      BY <1>m, <1>20, <2>2 DEF WelcomeEffect, AskAfter
  <1>21. ASSUME NEW i \in Instance, NEW Y, StopEffect(i, Y) PROVE TokenInv'
    BY <1>k, <1>t, <1>21, TokenKept DEF StopEffect, TokenInv
  <1>22. ASSUME NEW i \in Instance, HaltEffect(i) PROVE TokenInv'
    BY <1>k, <1>t, <1>22, TokenKept DEF HaltEffect, TokenInv
  <1>23. ASSUME NEW i \in Instance, NEW h, NEW k, NEW y, LocalEffect(i, h, k, y) PROVE TokenInv'
    <2>1. \A x \in Message : x # h.id => TokenOf(x)'
      BY <1>k, <1>t, <1>23, TokenKept DEF LocalEffect, Tries, AskAfter
    <2>2. Tries(i, h, k, "local") /\ inbox' = inbox /\ h.id \in Message
      BY <1>23, TriesFresh DEF LocalEffect
    <2>3. TokenOf(h.id)'
      BY <1>k, <2>2, TriesToken DEF RelayKept
    <2> QED
      BY <2>1, <2>3 DEF TokenInv
  <1>24. ASSUME NEW i \in Instance, NEW h, NEW k, NEW y, MissEffect(i, h, k, y) PROVE TokenInv'
    <2>1. \A x \in Message : x # h.id => TokenOf(x)'
      BY <1>k, <1>t, <1>24, TokenKept DEF MissEffect, Tries, AskAfter
    <2>2. Tries(i, h, k, "again") /\ inbox' = inbox /\ h.id \in Message
      BY <1>24, TriesFresh DEF MissEffect
    <2>3. TokenOf(h.id)'
      BY <1>k, <2>2, TriesToken DEF RelayKept
    <2> QED
      BY <2>1, <2>3 DEF TokenInv
  <1>25. ASSUME NEW i \in Instance, NEW h, NEW k, NEW y, NEW Y, RemoteEffect(i, h, k, y, Y)
        PROVE  TokenInv'
    BY <1>25
  <1>26. ASSUME NEW i \in Instance, NEW h, WriteEffect(i, h) PROVE TokenInv'
    <2> DEFINE m == h.id
               c == h.conn
               k == asks[m].attempt
    <2>1. m \in Message /\ asks[m].pc = "local" /\ c = asks[m].owner /\ c # None /\ c \in Connection
      BY <1>26, HandledFrame, HandledType, SMTT(30) DEF WriteEffect, Asking, Handles, Awaited
    <2>2. k \in 0..1 /\ Token(m, k, c)
      BY <2>1 DEF Token, Base, TypeOK, InstanceType, Ask
    <2>3. /\ written' = [written EXCEPT ![m] = Append(@, c)]
          /\ asks'[m].pc = "sent" /\ asks'[m].attempt = asks[m].attempt
          /\ asks'[m].owner = asks[m].owner
          /\ \A x \in Message : x # m => asks'[x] = asks[x]
      BY <1>26 DEF WriteEffect, AskAfter
    <2> HIDE DEF m, c
    <2>4. ~ Remote(m, k)
      BY <1>t, <2>1, <2>2 DEF TokenOf
    <2>5. \A n \in 0..1 : Remote(m, n)' => Remote(m, n)
      BY <1>k, <2>1 DEF RelayKept
    <2>6. \A n \in 0..1 : \A d \in Connection : Token(m, n, d)' => Token(m, n, d) /\ n # k
      BY <1>k, <2>1, <2>3, <2>4, SendingRemote DEF Token, RelayKept
    <2> HIDE DEF k
    <2>7. TokenOf(m)'
      BY <1>t, <2>1, <2>2, <2>3, <2>5, <2>6, TokenWritten
    <2> QED
      BY <1>w, <2>1, <2>3, <2>7 DEF TokenInv
  <1>27. ASSUME NEW i \in Instance, NEW h, NEW r, NEW Y, RelayedEffect(i, h, r, Y) PROVE TokenInv'
    <2>u. CASE r = "unsent"
      BY <1>u, <1>27, <2>u DEF RelayedEffect
    <2>s. CASE r = "sent"
      <3> DEFINE m == h.id.msg
                 k == h.id.attempt
                 c == h.conn
      <3>1. /\ h.id \in Envelope /\ h \in Range(replies[i]) /\ h.for = "relay"
            /\ h.id.kind = "agent.send" /\ h.conn = h.id.conn
        BY <1>27, HandledType DEF RelayedEffect, Handles, Awaited
      <3>2. m \in Message /\ k \in 0..1 /\ c \in Connection
        BY <3>1, EnvelopeType
      <3>3. HasReply(replies[i], m, k) /\ Sending(m, k, c)
        BY <3>1 DEF HasReply, Sending
      <3>4. written' = [written EXCEPT ![m] = Append(@, c)] /\ asks' = asks
        BY <1>27, <2>s DEF RelayedEffect
      <3>5. /\ \A j \in Instance : ~ HasEnvelope(inbox[j], m, k) /\ (j # i => ~ HasReply(replies[j], m, k))
        BY <3>2, <3>3 DEF Base, ApartInv
      <3>6. /\ \A j \in Instance : \A x \in Range(inbox'[j]) : x \in Range(inbox[j]) \/ x.kind = "relay.ack"
            /\ \A j \in Instance : \A x \in Range(replies'[j]) :
                 x \in Range(replies[j]) /\ (j = i => ~ SameReply(h, x))
        BY <1>27 DEF RelayedEffect, InboxAfter, RepliesAfter, AckOf
      <3>7. \A d \in Connection : ~ Sending(m, k, d)'
        BY <3>1, <3>5, <3>6 DEF Sending, HasEnvelope, HasReply, SameReply
      <3> HIDE DEF m, k, c
      <3>8. Remote(m, k) /\ Token(m, k, c)
        BY <3>3, SendingRemote DEF Token
      <3>9. asks[m].pc \notin {"idle", "owner"} /\ ~ (asks[m].pc = "local" /\ k = asks[m].attempt)
        BY <1>t, <3>2, <3>8 DEF TokenOf
      <3>10. \A n \in 0..1 : Remote(m, n)' => Remote(m, n)
        BY <1>k, <3>2 DEF RelayKept
      <3>11. \A n \in 0..1 : \A d \in Connection : Token(m, n, d)' => Token(m, n, d) /\ n # k
        BY <1>k, <3>2, <3>4, <3>7, <3>9 DEF Token, RelayKept
      <3>12. TokenOf(m)'
        BY <1>t, <3>2, <3>4, <3>8, <3>9, <3>10, <3>11, TokenWritten
      <3> QED
        BY <1>w, <3>2, <3>4, <3>12 DEF TokenInv
    <2> QED
      BY <1>27, <2>u, <2>s DEF RelayedEffect
  <1> QED
    BY <1>1, <1>2, <1>3, <1>4, <1>5, <1>6, <1>7, <1>8, <1>9, <1>10, <1>11, <1>12, <1>13, <1>14,
       <1>15, <1>16, <1>17, <1>18, <1>19, <1>20, <1>21, <1>22, <1>23, <1>24, <1>25, <1>26, <1>27 DEF Effect

\* The publish of an attempt: it is the relay's only one.
LEMMA RemoteStep ==
  ASSUME Base, TokenInv, NEW i \in Instance, NEW h, NEW k, NEW y, NEW Y, RemoteEffect(i, h, k, y, Y)
  PROVE  /\ ApartInv' /\ TokenInv' /\ AcksAfter
         /\ \A m \in Message : \A n \in 0..1 : Remote(m, n)' => Remote(m, n) \/ (m = h.id /\ n = k)
         /\ \A m \in Message : \A n \in 0..1 : \A c \in Connection : Sending(m, n, c)' =>
              Sending(m, n, c) \/ (m = h.id /\ n = k /\ c = h.val)
  <1> DEFINE m == h.id
  <1>1. /\ Tries(i, h, k, "publish") /\ m \in Message /\ k \in 0..1 /\ h.val \in Connection
        /\ ~ Remote(m, k)
    BY TriesFresh DEF RemoteEffect
  <1>2. \A f \in Y : /\ f.kind = "agent.send" /\ f.msg = m /\ f.attempt = k /\ f.conn = h.val
                     /\ f.to \in Instance
    BY <1>1, EnvelopeType DEF RemoteEffect, SendEnvelope
  <1>3. /\ RepliesAfter(i, {h}, {y}) /\ y.for = "publish"
        /\ InboxAfter(i, {}, Y) /\ \A f, g \in Y : f = g
    BY DEF RemoteEffect, Pledge
  <1>4. ApartInv'
    <2> DEFINE H == {h}
               Z == {y}
    <2>1. RepliesAfter(i, H, Z) /\ \A x \in Z : x.for # "relay"
      BY <1>3
    <2> HIDE DEF H, Z, m
    <2> QED
      BY <1>1, <1>2, <1>3, <2>1, ApartKept
  <1>5. /\ \A j \in Instance : \A x \in Range(inbox'[j]) : x \in Range(inbox[j]) \/ x \in Y
        /\ \A j \in Instance : \A x \in Range(replies'[j]) : x \in Range(replies[j]) \/ x.for # "relay"
    BY <1>3 DEF InboxAfter, RepliesAfter
  <1> HIDE DEF m
  <1>6. \A x \in Message : \A n \in 0..1 : Remote(x, n)' => Remote(x, n) \/ (x = m /\ n = k)
    BY <1>2, <1>5 DEF Remote, HasEnvelope, HasReply
  <1>7. \A x \in Message : \A n \in 0..1 : \A c \in Connection : Sending(x, n, c)' =>
          Sending(x, n, c) \/ (x = m /\ n = k /\ c = h.val)
    BY <1>2, <1>5 DEF Sending
  <1>8. /\ \A j \in Instance : \A e \in Range(inbox'[j]) : e.kind = "relay.ack" => e \in Range(inbox[j])
        /\ AcksAfter
    BY <1>2, <1>5 DEF AcksAfter
  <1>9. TokenOf(m)'
    <2>1. /\ \A n \in 0..1 : Remote(h.id, n)' => Remote(h.id, n) \/ (n = k /\ "publish" = "publish")
          /\ \A n \in 0..1 : \A c \in Connection : Sending(h.id, n, c)' =>
               Sending(h.id, n, c) \/ (n = k /\ c = h.val /\ "publish" = "publish")
      BY <1>1, <1>6, <1>7 DEF m
    <2>2. TokenOf(h.id)'
      BY <1>1, <1>8, <2>1, TriesToken
    <2> QED
      BY <2>2 DEF m
  <1>10. ASSUME NEW x \in Message, x # m PROVE TokenOf(x)'
    <2>1. TokenOf(x) /\ written' = written /\ asks'[x] = asks[x]
      BY <1>1, <1>10 DEF TokenInv, Tries, AskAfter, m
    <2>2. /\ \A n \in 0..1 : Remote(x, n)' => Remote(x, n)
          /\ \A n \in 0..1 : \A c \in Connection : Sending(x, n, c)' => Sending(x, n, c)
      BY <1>6, <1>7, <1>10
    <2>3. \A n \in 0..1 : \A c \in Connection : Token(x, n, c)' => Token(x, n, c)
      BY <2>1, <2>2 DEF Token
    <2>4. \A j \in Instance : \A e \in Range(inbox'[j]) :
            e.kind = "relay.ack" /\ e.msg = x /\ e.ack = "sent" => written'[x] # <<>>
      BY <1>8, <2>1 DEF TokenOf
    <2> HIDE DEF Token
    <2> QED
      BY <2>1, <2>2, <2>3, <2>4 DEF TokenOf
  <1>11. TokenInv'
    BY <1>9, <1>10 DEF TokenInv
  <1> QED
    BY <1>4, <1>6, <1>7, <1>8, <1>11 DEF m

-----------------------------------------------------------------------------
(* The inductive invariant of the handlers and of the attempts.            *)

HubInv == Base /\ TokenInv

LEMMA RangeOfNothing == Range(<<>>) = {}
  BY DEF Range

LEMMA HubInit ==
  ASSUME Init
  PROVE  HubInv
  <1>1. <<>> \in Seq(Replies) /\ <<>> \in Seq(Envelope) /\ <<>> \in Seq(Connection) /\ Len(<<>>) = 0
    OBVIOUS
  <1>2. SocketType
    BY DEF Init, SocketType
  <1>3. InstanceType
    BY DEF Init, InstanceType, Ask
  <1>4. RedisType
    BY <1>1 DEF Init, RedisType
  <1>5. HistoryType
    BY <1>1 DEF Init, HistoryType
  <1>6. \A i \in Instance : Range(replies[i]) = {} /\ Range(inbox[i]) = {}
    BY RangeOfNothing DEF Init
  <1>7. TypeOK
    BY <1>2, <1>3, <1>4, <1>5, <1>6 DEF TypeOK, Addressed
  <1>8. ConnInv
    BY <1>6, HubAssumption DEF Init, ConnInv, None
  <1>9. AwaitInv
    BY <1>6 DEF Init, AwaitInv, DistinctReplies
  <1>10. \A m \in Message : asks[m].pc = "idle" /\ asks[m].at = None /\ asks[m].attempt = 0
                            /\ asks[m].ack = "open" /\ written[m] = <<>>
    BY DEF Init
  <1>11. AskInv
    BY <1>6, <1>10, MessageKinds DEF AskInv, Busy, Asking
  <1>12. ApartInv
    BY <1>6 DEF Init, ApartInv, DistinctAttempts, HasEnvelope, HasReply
  <1>13. /\ \A m, k : ~ Remote(m, k)
         /\ \A m \in Message : \A k, c : ~ Token(m, k, c)
    BY <1>6, <1>10 DEF Remote, HasEnvelope, HasReply, Token, Sending
  <1>14. TokenInv
    <2> SUFFICES ASSUME NEW m \in Message PROVE TokenOf(m)
      BY DEF TokenInv
    <2>1. asks[m].attempt = 0 /\ asks[m].ack = "open" /\ written[m] = <<>> /\ Len(written[m]) = 0
      BY <1>10
    <2>2. Len(written[m]) <= asks[m].attempt + 1 /\ Range(written[m]) \subseteq {asks[m].owner}
      BY <2>1, RangeOfNothing
    <2> QED
      BY <1>6, <1>13, <2>1, <2>2 DEF TokenOf
  <1> QED
    BY <1>7, <1>8, <1>9, <1>11, <1>12, <1>14 DEF HubInv, Base

LEMMA HubStep ==
  ASSUME HubInv, Effect
  PROVE  HubInv'
  <1>1. Base /\ TokenInv
    BY DEF HubInv
  <1>2. TypeOK' /\ ConnInv' /\ AwaitInv' /\ AskInv'
    BY <1>1, TypeStep, ConnStep, AwaitStep, AskStepKept
  <1>3. ApartInv' /\ TokenInv'
    <2>1. CASE \E i \in Instance : \E h, k, y, Y : RemoteEffect(i, h, k, y, Y)
      BY <1>1, <2>1, RemoteStep
    <2>2. CASE ~ \E i \in Instance : \E h, k, y, Y : RemoteEffect(i, h, k, y, Y)
      BY <1>1, <2>2, RelayStepKept, TokenStep
    <2> QED
      BY <2>1, <2>2
  <1> QED
    BY <1>2, <1>3 DEF HubInv, Base

LEMMA HubCorrect == Spec => []HubInv
  <1>1. Init => HubInv
    BY HubInit
  <1>2. HubInv /\ [Next]_vars => HubInv'
    BY StepEffect, HubStep DEF HubInv
  <1> QED
    BY <1>1, <1>2, PTL DEF Spec

\* TypeOK in every reachable state.  Besides the types it says that an envelope of
\* the relay is only ever published to the instance that has the connection, or that
\* called sendToAgent.
THEOREM TypeCorrect == Spec => []TypeOK
  <1>1. HubInv => TypeOK
    BY DEF HubInv, Base
  <1> QED
    BY <1>1, HubCorrect, PTL

-----------------------------------------------------------------------------
(* No message goes to a connection that was replaced before it was sent.   *)

\* Connection c claimed the presence key, and was not replaced before m was sent.
Fresh(m, c) == \E n \in 1..Len(claimed) : claimed[n] = c /\ n >= since[m]

\* The owner is the connection that claimed last.
ClaimInv ==
  /\ presence # None => Len(claimed) > 0 /\ presence = claimed[Len(claimed)]
  /\ \A m \in Message : since[m] <= Len(claimed)

FreshReply(r) ==
  /\ r.for \in {"owner", "again"} /\ r.val # None => Fresh(r.id, r.val)
  /\ r.for = "local" => Fresh(r.id, r.conn)
  /\ r.for = "relay" => Fresh(r.id.msg, r.conn)

FreshEnvelope(e) == e.kind = "agent.send" => Fresh(e.msg, e.conn)

FreshInv ==
  /\ ClaimInv
  /\ \A i \in Instance : \A r \in Range(replies[i]) : FreshReply(r)
  /\ \A i \in Instance : \A e \in Range(inbox[i]) : FreshEnvelope(e)
  /\ \A m \in Message : \A c \in Range(written[m]) : Fresh(m, c)

\* What a message may be sent to it may be sent to later on.
FreshKept == \A m \in Message : \A c \in Connection : asks[m].pc # "idle" /\ Fresh(m, c) => Fresh(m, c)'

LEMMA FreshGrows ==
  ASSUME Base, Effect, ClaimInv
  PROVE  ClaimInv' /\ FreshKept
  <1>t. /\ claimed \in Seq(Connection) /\ since \in [Message -> Nat] /\ Len(claimed) \in Nat
        /\ presence \in Connection \cup {None}
    BY DEF Base, TypeOK, HistoryType, RedisType
  <1>u. ASSUME claimed' = claimed, since' = since, presence' \in {presence, None}
        PROVE  ClaimInv' /\ FreshKept
    BY <1>u DEF ClaimInv, FreshKept, Fresh
  <1>s. ASSUME claimed' = claimed, presence' = presence, NEW m \in Message, asks[m].pc = "idle",
               since' = [since EXCEPT ![m] = Len(claimed)]
        PROVE  ClaimInv' /\ FreshKept
    BY <1>t, <1>s DEF ClaimInv, FreshKept, Fresh
  <1>a. ASSUME NEW c \in Connection, claimed' = Append(claimed, c), presence' = c, since' = since
        PROVE  ClaimInv' /\ FreshKept
    <2>1. /\ Len(claimed') = Len(claimed) + 1 /\ claimed'[Len(claimed')] = c
          /\ \A n \in 1..Len(claimed) : claimed'[n] = claimed[n] /\ n \in 1..Len(claimed')
      BY <1>t, <1>a
    <2>2. ClaimInv'
      BY <1>t, <1>a, <2>1 DEF ClaimInv
    <2>3. FreshKept
      BY <1>a, <2>1 DEF FreshKept, Fresh
    <2> QED
      BY <2>2, <2>3
  <1>1. ASSUME NEW c \in Connection, CloseOverEffect(c) PROVE ClaimInv' /\ FreshKept
    BY <1>u, <1>1 DEF CloseOverEffect
  <1>2. ASSUME LapseEffect \/ Stutter PROVE ClaimInv' /\ FreshKept
    BY <1>u, <1>2 DEF LapseEffect, Stutter
  <1>3. ASSUME NEW c \in Connection, NEW i \in Instance, DialEffect(c, i)
        PROVE  ClaimInv' /\ FreshKept
    BY <1>u, <1>3 DEF DialEffect
  <1>4. ASSUME NEW c \in Connection, NEW state \in {"cut", "closed"}, DropEffect(c, state)
        PROVE  ClaimInv' /\ FreshKept
    BY <1>u, <1>4 DEF DropEffect
  <1>5. ASSUME NEW i \in Instance, NEW e,
               \/ LoseEffect(i, e)
                 \/ ExpelEffect(i, e)
                 \/ HearEffect(i, e)
        PROVE  ClaimInv' /\ FreshKept
    BY <1>u, <1>5 DEF LoseEffect, ExpelEffect, HearEffect
  <1>6. ASSUME NEW i \in Instance, NEW h,
               \/ RefuseEffect(i, h)
                 \/ BeatEffect(i, h)
                 \/ DetachEffect(i, h)
                 \/ GiveUpEffect(i, h)
                 \/ WriteEffect(i, h)
        PROVE  ClaimInv' /\ FreshKept
    BY <1>u, <1>6 DEF RefuseEffect, BeatEffect, DetachEffect, GiveUpEffect, WriteEffect
  <1>7. ASSUME NEW i \in Instance, NEW h, NEW y, RetryEffect(i, h, y) PROVE ClaimInv' /\ FreshKept
    BY <1>u, <1>7 DEF RetryEffect
  <1>8. ASSUME NEW i \in Instance, NEW h, NEW ack, PublishedEffect(i, h, ack)
        PROVE  ClaimInv' /\ FreshKept
    BY <1>u, <1>8 DEF PublishedEffect
  <1>9. ASSUME NEW i \in Instance, NEW h, NEW r, NEW Y, RelayedEffect(i, h, r, Y)
        PROVE  ClaimInv' /\ FreshKept
    BY <1>u, <1>9 DEF RelayedEffect
  <1>10. ASSUME NEW i \in Instance, NEW h, NEW y, NEW Y, ReplaceEffect(i, h, y, Y)
        PROVE  ClaimInv' /\ FreshKept
    BY <1>u, <1>10 DEF ReplaceEffect
  <1>11. ASSUME NEW i \in Instance, NEW h, NEW Y, CloseOwnerEffect(i, h, Y)
        PROVE  ClaimInv' /\ FreshKept
    BY <1>u, <1>11 DEF CloseOwnerEffect
  <1>12. ASSUME NEW i \in Instance, NEW e, NEW y, DeliverEffect(i, e, y)
        PROVE  ClaimInv' /\ FreshKept
    BY <1>u, <1>12 DEF DeliverEffect
  <1>13. ASSUME NEW i \in Instance, NEW e, NEW Y, RejectEffect(i, e, Y)
        PROVE  ClaimInv' /\ FreshKept
    BY <1>u, <1>13 DEF RejectEffect
  <1>14. ASSUME NEW c \in Connection, NEW y, HeartbeatEffect(c, y) \/ CloseEffect(c, y)
        PROVE  ClaimInv' /\ FreshKept
    BY <1>u, <1>14 DEF HeartbeatEffect, CloseEffect
  <1>15. ASSUME NEW i \in Instance, NEW y, CloseDeviceEffect(i, y) PROVE ClaimInv' /\ FreshKept
    BY <1>u, <1>15 DEF CloseDeviceEffect
  <1>16. ASSUME NEW m \in Message, TimeoutEffect(m) \/ AnswerEffect(m)
        PROVE  ClaimInv' /\ FreshKept
    BY <1>u, <1>16 DEF TimeoutEffect, AnswerEffect
  <1>17. ASSUME NEW m \in Message, NEW y, ReaskEffect(m, y) PROVE ClaimInv' /\ FreshKept
    BY <1>u, <1>17 DEF ReaskEffect
  <1>18. ASSUME NEW i \in Instance, NEW Y, StopEffect(i, Y) PROVE ClaimInv' /\ FreshKept
    BY <1>u, <1>18 DEF StopEffect
  <1>19. ASSUME NEW i \in Instance, HaltEffect(i) PROVE ClaimInv' /\ FreshKept
    BY <1>u, <1>19 DEF HaltEffect
  <1>20. ASSUME NEW i \in Instance, NEW h, NEW k, NEW y,
               \/ LocalEffect(i, h, k, y)
                 \/ MissEffect(i, h, k, y)
        PROVE  ClaimInv' /\ FreshKept
    BY <1>u, <1>20 DEF LocalEffect, MissEffect, Tries
  <1>21. ASSUME NEW i \in Instance, NEW h, NEW k, NEW y, NEW Y, RemoteEffect(i, h, k, y, Y)
        PROVE  ClaimInv' /\ FreshKept
    BY <1>u, <1>21 DEF RemoteEffect, Tries
  <1>22. ASSUME NEW c \in Connection, NEW y, AttachEffect(c, y) PROVE ClaimInv' /\ FreshKept
    BY <1>u, <1>a, <1>22 DEF AttachEffect
  <1>23. ASSUME NEW i \in Instance, NEW m \in Message, NEW y, SendEffect(i, m, y)
        PROVE  ClaimInv' /\ FreshKept
    BY <1>s, <1>23 DEF SendEffect
  <1>24. ASSUME NEW i \in Instance, NEW h, NEW y, WelcomeEffect(i, h, y)
        PROVE  ClaimInv' /\ FreshKept
    <2>1. h.id \in Connection
      BY <1>24, HandledFrame DEF WelcomeEffect, Greeting
    <2>2. Welcome(h.id) \in Message /\ asks[Welcome(h.id)].pc = "idle"
      BY <1>24, <2>1, HandledFrame, MessageKinds DEF WelcomeEffect, Base, AskInv, Greeting, FrameOf
    <2> QED
      BY <1>s, <1>24, <2>2 DEF WelcomeEffect
  <1> QED
    BY <1>1, <1>2, <1>3, <1>4, <1>5, <1>6, <1>7, <1>8, <1>9, <1>10, <1>11, <1>12, <1>13, <1>14,
       <1>15, <1>16, <1>17, <1>18, <1>19, <1>20, <1>21, <1>22, <1>23, <1>24 DEF Effect

LEMMA FreshStep ==
  ASSUME HubInv, Effect, FreshInv
  PROVE  FreshInv'
  <1>b. Base /\ ClaimInv /\ ClaimInv' /\ FreshKept
    BY FreshGrows DEF HubInv, FreshInv
  <1>p. /\ presence \in Connection \cup {None}
        /\ \A m \in Message, c \in Connection :
             claimed' = claimed /\ since'[m] <= Len(claimed) /\ c = presence => Fresh(m, c)'
    <2>1. claimed \in Seq(Connection) /\ since \in [Message -> Nat] /\ Len(claimed) \in Nat
      BY <1>b DEF Base, TypeOK, HistoryType
    <2>2. since' \in [Message -> Nat]
      BY <1>b, HistoryTypeStep DEF HistoryType
    <2>3. presence \in Connection \cup {None}
      BY <1>b DEF Base, TypeOK, RedisType
    <2>4. ASSUME NEW m \in Message, NEW c \in Connection, claimed' = claimed,
                 since'[m] <= Len(claimed), c = presence
          PROVE  Fresh(m, c)'
      <3>1. Len(claimed) > 0 /\ c = claimed[Len(claimed)]
        BY <1>b, <2>4, HubAssumption DEF ClaimInv, Connection, None
      <3>2. Len(claimed) \in 1..Len(claimed) /\ Len(claimed) >= since'[m]
        BY <2>1, <2>2, <2>4, <3>1
      <3> QED
        BY <2>4, <3>1, <3>2 DEF Fresh
    <2> QED
      BY <2>3, <2>4
  <1>f. \A m \in Message : claimed' = claimed => since'[m] <= Len(claimed)
    BY <1>b DEF ClaimInv
  \* Whatever a message could reach, it still can.
  <1>r. ASSUME NEW j \in Instance, NEW r \in Range(replies[j]) PROVE FreshReply(r)'
    <2>1. FreshReply(r) /\ Awaited(j, r) /\ RedisType
      BY <1>b DEF FreshInv, Base, AwaitInv, TypeOK
    <2>2. r.val \in Connection \cup {None} /\ r.conn \in Connection \cup {None}
      BY <2>1, RepliesTyped
    <2>3. r.for \in Asking => r.id \in Message /\ asks[r.id].pc # "idle"
      BY <2>1, RepliesTyped DEF Awaited, Asking
    <2>4. r.for = "relay" => /\ r.id.msg \in Message /\ asks[r.id.msg].pc # "idle"
                             /\ r.conn \in Connection
      <3> SUFFICES ASSUME r.for = "relay"
                   PROVE  r.id.msg \in Message /\ asks[r.id.msg].pc # "idle" /\ r.conn \in Connection
        OBVIOUS
      <3>1. r.id \in Envelope /\ r.id.kind = "agent.send" /\ asks[r.id.msg].at = r.id.from /\ r.conn = r.id.conn
        BY <2>1, RepliesTyped DEF Awaited
      <3>2. r.id.msg \in Message /\ r.id.from \in Instance /\ r.id.conn \in Connection
        BY <3>1, EnvelopeType
      <3> QED
        BY <1>b, <3>1, <3>2, HubAssumption DEF Base, AskInv, None
    <2>5. r.for = "local" => r.conn \in Connection
      BY <2>1, <2>2 DEF Awaited
    <2>6. r.for \in {"owner", "again"} /\ r.val # None => Fresh(r.id, r.val)'
      BY <1>b, <2>1, <2>2, <2>3 DEF FreshReply, FreshKept, Asking
    <2>7. r.for = "local" => Fresh(r.id, r.conn)'
      BY <1>b, <2>1, <2>3, <2>5 DEF FreshReply, FreshKept, Asking
    <2>8. r.for = "relay" => Fresh(r.id.msg, r.conn)'
      BY <1>b, <2>1, <2>4 DEF FreshReply, FreshKept
    <2> QED
      BY <2>6, <2>7, <2>8 DEF FreshReply
  <1>e. ASSUME NEW j \in Instance, NEW e \in Range(inbox[j]) PROVE FreshEnvelope(e)'
    <2> SUFFICES ASSUME e.kind = "agent.send" PROVE Fresh(e.msg, e.conn)'
      BY DEF FreshEnvelope
    <2>1. e \in Envelope
      BY <1>b, QueueRange DEF Base, TypeOK, RedisType
    <2>2. e.msg \in Message /\ e.conn \in Connection /\ e.from \in Instance
      BY <2>1, EnvelopeType
    <2>3. asks[e.msg].pc # "idle"
      BY <1>b, <2>2, HubAssumption DEF Base, AskInv, None
    <2>4. Fresh(e.msg, e.conn)
      BY DEF FreshInv, FreshEnvelope
    <2> QED
      BY <1>b, <2>2, <2>3, <2>4 DEF FreshKept
  <1>w. ASSUME NEW m \in Message, NEW c \in Range(written[m]) PROVE Fresh(m, c)'
    <2>1. Fresh(m, c) /\ written[m] \in Seq(Connection)
      BY <1>b DEF FreshInv, Base, TypeOK, HistoryType
    <2>2. c \in Connection
      BY <2>1, QueueRange
    <2>3. asks[m].pc # "idle"
      BY RangeOfNothing DEF HubInv, TokenInv, TokenOf
    <2> QED
      BY <1>b, <2>1, <2>2, <2>3 DEF FreshKept
  \* A step is right that adds only what a message can reach.
  <1>g. ASSUME \A j \in Instance : \A r \in Range(replies'[j]) : r \in Range(replies[j]) \/ FreshReply(r)',
               \A j \in Instance : \A e \in Range(inbox'[j]) : e \in Range(inbox[j]) \/ FreshEnvelope(e)',
               \A m \in Message : \A c \in Range(written'[m]) : c \in Range(written[m]) \/ Fresh(m, c)'
        PROVE  FreshInv'
    <2>1. \A j \in Instance : \A r \in Range(replies'[j]) : FreshReply(r)'
      BY <1>r, <1>g
    <2>2. \A j \in Instance : \A e \in Range(inbox'[j]) : FreshEnvelope(e)'
      BY <1>e, <1>g
    <2>3. \A m \in Message : \A c \in Range(written'[m]) : Fresh(m, c)'
      BY <1>w, <1>g
    <2> QED
      BY <1>b, <2>1, <2>2, <2>3 DEF FreshInv
  <1>y. ASSUME NEW y, y.for \notin {"owner", "again", "local", "relay"} PROVE FreshReply(y)'
    BY <1>y DEF FreshReply
  \* A reply with the owner.
  <1>o. ASSUME NEW y, NEW for \in {"owner", "again"}, NEW m \in Message, Pledge(y, for, m, None, presence),
               claimed' = claimed
        PROVE  FreshReply(y)'
    <2>1. y.for = for /\ y.id = m /\ y.val \in {None, presence}
      BY <1>o DEF Pledge
    <2>2. ASSUME y.val # None PROVE Fresh(m, y.val)'
      <3>1. y.val = presence /\ y.val \in Connection
        BY <1>p, <2>1, <2>2
      <3> QED
        BY <1>f, <1>o, <1>p, <3>1
    <2> QED
      BY <2>1, <2>2 DEF FreshReply
  \* An attempt goes to an owner that was read.
  <1>a. ASSUME NEW i \in Instance, NEW h, NEW k, NEW pc, Tries(i, h, k, pc)
        PROVE  h.id \in Message /\ h.val # None /\ Fresh(h.id, h.val)' /\ claimed' = claimed
    <2>1. h.id \in Message /\ h.val \in Connection
      BY <1>a, TriesFresh DEF HubInv
    <2>2. h \in Range(replies[i]) /\ h.for \in {"owner", "again"}
      BY <1>a DEF Tries, Handles
    <2>3. h.val # None
      BY <2>1, HubAssumption DEF Connection, None
    <2>4. Fresh(h.id, h.val)'
      BY <1>r, <2>2, <2>3 DEF FreshReply
    <2> QED
      BY <1>a, <2>1, <2>3, <2>4 DEF Tries
  <1>1. ASSUME NEW c \in Connection, CloseOverEffect(c) PROVE FreshInv'
    BY <1>g, <1>1 DEF CloseOverEffect
  <1>2. ASSUME LapseEffect \/ Stutter PROVE FreshInv'
    BY <1>g, <1>2 DEF LapseEffect, Stutter
  <1>3. ASSUME NEW c \in Connection, NEW i \in Instance, DialEffect(c, i) PROVE FreshInv'
    BY <1>g, <1>3 DEF DialEffect
  <1>4. ASSUME NEW c \in Connection, NEW state \in {"cut", "closed"}, DropEffect(c, state)
        PROVE  FreshInv'
    BY <1>g, <1>4 DEF DropEffect
  <1>5. ASSUME NEW m \in Message, TimeoutEffect(m) \/ AnswerEffect(m) PROVE FreshInv'
    BY <1>g, <1>5 DEF TimeoutEffect, AnswerEffect
  <1>6. ASSUME NEW i \in Instance, NEW e,
               \/ LoseEffect(i, e)
                 \/ ExpelEffect(i, e)
                 \/ HearEffect(i, e)
        PROVE  FreshInv'
    BY <1>g, <1>6 DEF LoseEffect, ExpelEffect, HearEffect, InboxAfter
  <1>7. ASSUME NEW i \in Instance, NEW h,
               \/ RefuseEffect(i, h)
                 \/ BeatEffect(i, h)
                 \/ DetachEffect(i, h)
                 \/ GiveUpEffect(i, h)
        PROVE  FreshInv'
    BY <1>g, <1>7 DEF RefuseEffect, BeatEffect, DetachEffect, GiveUpEffect, RepliesAfter
  <1>8. ASSUME NEW i \in Instance, NEW h, NEW ack, PublishedEffect(i, h, ack) PROVE FreshInv'
    BY <1>g, <1>8 DEF PublishedEffect, RepliesAfter
  <1>9. ASSUME NEW i \in Instance, HaltEffect(i) PROVE FreshInv'
    <2>1. \A j \in Instance : \A r \in Range(replies'[j]) : r \in Range(replies[j])
      BY <1>9 DEF HaltEffect
    <2>2. \A j \in Instance : \A e \in Range(inbox'[j]) : e \in Range(inbox[j])
      BY <1>9 DEF HaltEffect
    <2> QED
      BY <1>g, <1>9, <2>1, <2>2 DEF HaltEffect
  <1>10. ASSUME NEW c \in Connection, NEW y,
               \/ AttachEffect(c, y)
                 \/ HeartbeatEffect(c, y)
                 \/ CloseEffect(c, y)
        PROVE  FreshInv'
    <2>1. FreshReply(y)'
      BY <1>y, <1>10 DEF AttachEffect, HeartbeatEffect, CloseEffect, Pledge
    <2> QED
      BY <1>g, <1>10, <2>1 DEF AttachEffect, HeartbeatEffect, CloseEffect, RepliesAfter
  <1>11. ASSUME NEW i \in Instance, NEW y, CloseDeviceEffect(i, y) PROVE FreshInv'
    <2>1. FreshReply(y)'
      BY <1>y, <1>11 DEF CloseDeviceEffect, Pledge
    <2> QED
      BY <1>g, <1>11, <2>1 DEF CloseDeviceEffect, RepliesAfter
  <1>12. ASSUME NEW i \in Instance, NEW Y, StopEffect(i, Y) PROVE FreshInv'
    <2>1. \A y \in Y : FreshReply(y)'
      BY <1>y, <1>12 DEF StopEffect, Pledge
    <2> QED
      BY <1>g, <1>12, <2>1 DEF StopEffect, RepliesAfter
  <1>13. ASSUME NEW i \in Instance, NEW m \in Message, NEW y, SendEffect(i, m, y) PROVE FreshInv'
    <2>1. FreshReply(y)'
      BY <1>o, <1>13 DEF SendEffect
    <2> QED
      BY <1>g, <1>13, <2>1 DEF SendEffect, RepliesAfter
  <1>14. ASSUME NEW m \in Message, NEW y, ReaskEffect(m, y) PROVE FreshInv'
    <2>1. FreshReply(y)'
      BY <1>o, <1>14 DEF ReaskEffect
    <2> QED
      BY <1>g, <1>14, <2>1 DEF ReaskEffect, RepliesAfter
  <1>15. ASSUME NEW i \in Instance, NEW h, NEW y, WelcomeEffect(i, h, y) PROVE FreshInv'
    <2>1. Welcome(h.id) \in Message
      BY <1>b, <1>15, HandledFrame, MessageKinds DEF WelcomeEffect, Greeting
    <2>2. FreshReply(y)'
      BY <1>o, <1>15, <2>1 DEF WelcomeEffect
    <2> QED
      BY <1>g, <1>15, <2>2 DEF WelcomeEffect, RepliesAfter
  <1>16. ASSUME NEW i \in Instance, NEW h, NEW y, RetryEffect(i, h, y) PROVE FreshInv'
    <2>1. h.id \in Message
      BY <1>b, <1>16, HandledFrame DEF RetryEffect, Asking
    <2>2. FreshReply(y)'
      BY <1>o, <1>16, <2>1 DEF RetryEffect
    <2> QED
      BY <1>g, <1>16, <2>2 DEF RetryEffect, RepliesAfter
  <1>17. ASSUME NEW i \in Instance, NEW h, NEW y, NEW Y, ReplaceEffect(i, h, y, Y) PROVE FreshInv'
    <2>1. FreshReply(y)'
      BY <1>y, <1>17 DEF ReplaceEffect, Pledge
    <2>2. \A e \in Y : FreshEnvelope(e)'
      BY <1>17 DEF ReplaceEffect, CloseEnvelope, FreshEnvelope
    <2> QED
      BY <1>g, <1>17, <2>1, <2>2 DEF ReplaceEffect, RepliesAfter, InboxAfter
  <1>18. ASSUME NEW i \in Instance, NEW h, NEW Y, CloseOwnerEffect(i, h, Y) PROVE FreshInv'
    <2>1. \A e \in Y : FreshEnvelope(e)'
      BY <1>18 DEF CloseOwnerEffect, CloseEnvelope, FreshEnvelope
    <2> QED
      BY <1>g, <1>18, <2>1 DEF CloseOwnerEffect, RepliesAfter, InboxAfter
  <1>19. ASSUME NEW i \in Instance, NEW e, NEW Y, RejectEffect(i, e, Y) PROVE FreshInv'
    <2>1. \A x \in Y : FreshEnvelope(x)'
      BY <1>19 DEF RejectEffect, AckOf, FreshEnvelope
    <2> QED
      BY <1>g, <1>19, <2>1 DEF RejectEffect, InboxAfter
  <1>20. ASSUME NEW i \in Instance, NEW h, NEW k, NEW y, LocalEffect(i, h, k, y) PROVE FreshInv'
    <2>1. FreshReply(y)'
      BY <1>a, <1>20 DEF LocalEffect, Pledge, FreshReply
    <2> QED
      BY <1>g, <1>20, <2>1 DEF LocalEffect, Tries, RepliesAfter
  <1>21. ASSUME NEW i \in Instance, NEW h, NEW k, NEW y, MissEffect(i, h, k, y) PROVE FreshInv'
    <2>1. FreshReply(y)'
      BY <1>a, <1>o, <1>21 DEF MissEffect
    <2> QED
      BY <1>g, <1>21, <2>1 DEF MissEffect, Tries, RepliesAfter
  <1>22. ASSUME NEW i \in Instance, NEW h, NEW k, NEW y, NEW Y, RemoteEffect(i, h, k, y, Y)
        PROVE  FreshInv'
    <2>1. FreshReply(y)'
      BY <1>y, <1>22 DEF RemoteEffect, Pledge
    <2>2. \A e \in Y : e.msg = h.id /\ e.conn = h.val
      BY <1>22 DEF RemoteEffect, SendEnvelope
    <2>3. \A e \in Y : FreshEnvelope(e)'
      BY <1>a, <1>22, <2>2 DEF RemoteEffect, FreshEnvelope
    <2> QED
      BY <1>g, <1>22, <2>1, <2>3 DEF RemoteEffect, Tries, RepliesAfter, InboxAfter
  <1>23. ASSUME NEW i \in Instance, NEW e, NEW y, DeliverEffect(i, e, y) PROVE FreshInv'
    <2>1. e \in Range(inbox[i]) /\ e.kind = "agent.send"
      BY <1>23 DEF DeliverEffect, Takes
    <2>2. Fresh(e.msg, e.conn)'
      BY <1>e, <2>1 DEF FreshEnvelope
    <2>3. FreshReply(y)'
      BY <1>23, <2>2 DEF DeliverEffect, Pledge, FreshReply
    <2> QED
      BY <1>g, <1>23, <2>3 DEF DeliverEffect, RepliesAfter, InboxAfter
  <1>24. ASSUME NEW i \in Instance, NEW h, WriteEffect(i, h) PROVE FreshInv'
    <2>1. h.id \in Message /\ h.conn \in Connection /\ h \in Range(replies[i]) /\ h.for = "local"
      BY <1>b, <1>24, HandledFrame, HandledType DEF WriteEffect, Asking, Handles, Awaited
    <2>2. Fresh(h.id, h.conn)'
      BY <1>r, <2>1 DEF FreshReply
    <2>3. \A m \in Message : \A c \in Range(written'[m]) : c \in Range(written[m]) \/ (m = h.id /\ c = h.conn)
      <3>1. written \in [Message -> Seq(Connection)]
        BY <1>b DEF Base, TypeOK, HistoryType
      <3>2. Range(Append(written[h.id], h.conn)) = Range(written[h.id]) \cup {h.conn}
        BY <2>1, <3>1, QueueRange
      <3> QED
        BY <1>24, <2>1, <3>1, <3>2 DEF WriteEffect
    <2> QED
      BY <1>g, <1>24, <2>2, <2>3 DEF WriteEffect, RepliesAfter
  <1>25. ASSUME NEW i \in Instance, NEW h, NEW r, NEW Y, RelayedEffect(i, h, r, Y) PROVE FreshInv'
    <2>1. /\ h.id \in Envelope /\ h \in Range(replies[i]) /\ h.for = "relay"
          /\ h.id.kind = "agent.send" /\ h.conn = h.id.conn
      BY <1>25, HandledType DEF RelayedEffect, Handles, Awaited
    <2> DEFINE m == h.id.msg
               c == h.conn
    <2>t. m \in Message /\ c \in Connection
      BY <2>1, EnvelopeType
    <2>2. Fresh(m, c)'
      BY <1>r, <2>1 DEF FreshReply
    <2>w. written' = written \/ written' = [written EXCEPT ![m] = Append(@, c)]
      BY <1>25 DEF RelayedEffect
    <2>3. \A x \in Y : FreshEnvelope(x)'
      BY <1>25 DEF RelayedEffect, AckOf, FreshEnvelope
    <2> HIDE DEF m, c
    <2>4. \A x \in Message : \A d \in Range(written'[x]) : d \in Range(written[x]) \/ (x = m /\ d = c)
      <3>1. written \in [Message -> Seq(Connection)]
        BY <1>b DEF Base, TypeOK, HistoryType
      <3>2. Range(Append(written[m], c)) = Range(written[m]) \cup {c}
        BY <2>t, <3>1, QueueRange
      <3>3. CASE written' = written
        BY <3>3
      <3>4. CASE written' = [written EXCEPT ![m] = Append(@, c)]
        BY <2>t, <3>1, <3>2, <3>4
      <3> QED
        BY <2>w, <3>3, <3>4
    <2> QED
      BY <1>g, <1>25, <2>2, <2>3, <2>4 DEF RelayedEffect, RepliesAfter, InboxAfter
  <1> QED
    BY <1>1, <1>2, <1>3, <1>4, <1>5, <1>6, <1>7, <1>8, <1>9, <1>10, <1>11, <1>12, <1>13, <1>14,
       <1>15, <1>16, <1>17, <1>18, <1>19, <1>20, <1>21, <1>22, <1>23, <1>24, <1>25 DEF Effect

\* NeverToReplaced in every reachable state: whatever the instances, the crashes, the
\* failures of Redis and the retries, no message is written to a connection that
\* another one had replaced before sendToAgent was called.
THEOREM FreshCorrect == Spec => []NeverToReplaced
  <1>1. Init => FreshInv
    <2> SUFFICES ASSUME Init PROVE FreshInv
      OBVIOUS
    <2>1. \A i \in Instance : Range(replies[i]) = {} /\ Range(inbox[i]) = {}
      BY RangeOfNothing DEF Init
    <2>2. \A m \in Message : Range(written[m]) = {}
      BY RangeOfNothing DEF Init
    <2>3. ClaimInv
      BY DEF Init, ClaimInv
    <2> QED
      BY <2>1, <2>2, <2>3 DEF FreshInv
  <1>2. HubInv /\ FreshInv /\ [Next]_vars => FreshInv'
    BY StepEffect, FreshStep DEF HubInv
  <1>3. HubInv /\ FreshInv => NeverToReplaced
    <2> SUFFICES ASSUME HubInv, FreshInv, NEW m \in Message, NEW c \in Range(written[m])
                 PROVE  \E n \in DOMAIN claimed : claimed[n] = c /\ n >= since[m]
      BY DEF NeverToReplaced
    <2>1. claimed \in Seq(Connection)
      BY DEF HubInv, Base, TypeOK, HistoryType
    <2>2. DOMAIN claimed = 1..Len(claimed)
      BY <2>1
    <2> QED
      BY <2>2 DEF FreshInv, Fresh
  <1> QED
    BY <1>1, <1>2, <1>3, HubCorrect, PTL DEF Spec

-----------------------------------------------------------------------------
(* sendToAgent implements AgentDelivery.                                   *)

\* What the caller of sendToAgent has heard.
Says(m) == IF asks[m].pc \in {"idle", "sent", "unsent", "lost"} THEN asks[m].pc ELSE "asked"

LEMMA DeliveryStep ==
  ASSUME HubInv, Effect
  PROVE  [Delivery!Next]_(Delivery!vars)
  <1> DEFINE A == [m \in Message |-> Says(m)]
             Goal == Delivery!Next \/ UNCHANGED <<A, written>>
  <1>v. Delivery!vars = <<A, written>> /\ (Delivery!vars)' = <<A', written'>>
    BY DEF Delivery!vars, Says
  <1>t. /\ Base /\ \A m \in Message : TokenOf(m)
        /\ written \in [Message -> Seq(Connection)] /\ asks \in [Message -> Ask]
    BY DEF HubInv, TokenInv, Base, TypeOK, HistoryType, InstanceType
  <1>ask. \A m : Delivery!Ask(m) <=> /\ A[m] = "idle"
                                     /\ A' = [A EXCEPT ![m] = "asked"]
                                     /\ written' = written
    BY DEF Delivery!Ask, Says
  <1>ans. \A m, r : Delivery!Answer(m, r) <=> /\ A[m] = "asked"
                                              /\ r = "sent" => written[m] # <<>>
                                              /\ A' = [A EXCEPT ![m] = r]
                                              /\ written' = written
    BY DEF Delivery!Answer, Says
  <1>wri. \A m \in Message : \A c : Delivery!Write(m, c) <=>
            /\ A[m] # "idle"
            /\ c \notin Range(written[m])
            /\ Len(written[m]) < 2
            /\ written' = [written EXCEPT ![m] = Append(@, c)]
            /\ A' = A \/ (A[m] = "asked" /\ A' = [A EXCEPT ![m] = "sent"])
    BY DEF Delivery!Write, Delivery!Range, Range, Says
  <1>aba. \A M : Delivery!Abandon(M) <=>
            /\ M # {}
            /\ \A m \in M : A[m] = "asked"
            /\ A' = [m \in Message |-> IF m \in M THEN "lost" ELSE A[m]]
            /\ written' = written
    BY DEF Delivery!Abandon, Says
  \* Nothing is heard and nothing written.
  <1>u. ASSUME written' = written, \A m \in Message : Says(m)' = Says(m)
        PROVE  Goal
    BY <1>u
  <1>p. asks' = asks /\ written' = written => Goal
    BY <1>u DEF Says
  \* One call goes on.
  <1>m. ASSUME NEW m \in Message, written' = written, \A x \in Message : x # m => asks'[x] = asks[x],
               Says(m)' = Says(m)
        PROVE  Goal
    BY <1>m, <1>u DEF Says
  \* One call begins, ...
  <1>b. ASSUME NEW m \in Message, written' = written, \A x \in Message : x # m => asks'[x] = asks[x],
               asks[m].pc = "idle", asks'[m].pc = "owner"
        PROVE  Goal
    <2>1. A[m] = "idle" /\ A' = [A EXCEPT ![m] = "asked"]
      BY <1>b DEF Says
    <2> QED
      BY <1>ask, <1>b, <2>1 DEF Delivery!Next
  \* ... and is answered.
  <1>r. ASSUME NEW m \in Message, NEW r \in {"sent", "unsent"}, written' = written,
               \A x \in Message : x # m => asks'[x] = asks[x],
               Says(m) = "asked", asks'[m].pc = r, r = "sent" => written[m] # <<>>
        PROVE  Goal
    <2>1. A[m] = "asked" /\ A' = [A EXCEPT ![m] = r]
      BY <1>r DEF Says
    <2>2. Delivery!Answer(m, r)
      BY <1>ans, <1>r, <2>1
    <2> QED
      BY <2>2 DEF Delivery!Next
  \* One message is written.
  <1>w. ASSUME NEW m \in Message, NEW k \in 0..1, NEW c \in Connection, Token(m, k, c),
               written' = [written EXCEPT ![m] = Append(@, c)],
               \A x \in Message : x # m => asks'[x] = asks[x], asks[m].pc # "idle",
               Says(m)' = Says(m) \/ (Says(m) = "asked" /\ Says(m)' = "sent")
        PROVE  Goal
    <2>1. c \notin Range(written[m]) /\ Len(written[m]) <= asks[m].attempt
      BY <1>t, <1>w DEF TokenOf
    <2>2. asks[m].attempt \in 0..1 /\ Len(written[m]) \in Nat
      BY <1>t DEF Ask
    <2>3. A[m] # "idle"
      BY <1>w DEF Says
    <2>4. \A x \in Message : x # m => Says(x)' = Says(x)
      BY <1>w DEF Says
    <2>5. A' = A \/ (A[m] = "asked" /\ A' = [A EXCEPT ![m] = "sent"])
      BY <1>w, <2>4
    <2>6. Len(written[m]) < 2
      BY <2>1, <2>2
    <2> HIDE DEF A
    <2>7. Delivery!Write(m, c)
      BY <1>w, <1>wri, <2>1, <2>3, <2>5, <2>6
    <2> QED
      BY <2>7 DEF Delivery!Next
  \* An instance stops.
  <1>h. ASSUME NEW M \in SUBSET Message, M # {}, written' = written, \A m \in M : Says(m) = "asked",
               \A m \in Message : Says(m)' = IF m \in M THEN "lost" ELSE Says(m)
        PROVE  Goal
    <2>1. (\A m \in M : A[m] = "asked") /\ A' = [m \in Message |-> IF m \in M THEN "lost" ELSE A[m]]
      BY <1>h
    <2>2. Delivery!Abandon(M)
      BY <1>aba, <1>h, <2>1
    <2> QED
      BY <2>2 DEF Delivery!Next
  <1>q. Goal => [Delivery!Next]_(Delivery!vars)
    BY <1>v
  <1> HIDE DEF A, Goal
  <1>1. ASSUME NEW c \in Connection, CloseOverEffect(c) PROVE Goal
    BY <1>p, <1>1 DEF CloseOverEffect
  <1>2. ASSUME LapseEffect \/ Stutter PROVE Goal
    BY <1>p, <1>2 DEF LapseEffect, Stutter
  <1>3. ASSUME NEW c \in Connection, NEW i \in Instance, DialEffect(c, i) PROVE Goal
    BY <1>p, <1>3 DEF DialEffect
  <1>4. ASSUME NEW c \in Connection, NEW state \in {"cut", "closed"}, DropEffect(c, state)
        PROVE  Goal
    BY <1>p, <1>4 DEF DropEffect
  <1>5. ASSUME NEW i \in Instance, NEW e, LoseEffect(i, e) \/ ExpelEffect(i, e) PROVE Goal
    BY <1>p, <1>5 DEF LoseEffect, ExpelEffect
  <1>6. ASSUME NEW i \in Instance, NEW h,
               \/ RefuseEffect(i, h)
                 \/ BeatEffect(i, h)
                 \/ DetachEffect(i, h)
        PROVE  Goal
    BY <1>p, <1>6 DEF RefuseEffect, BeatEffect, DetachEffect
  <1>7. ASSUME NEW c \in Connection, NEW y,
               \/ AttachEffect(c, y)
                 \/ HeartbeatEffect(c, y)
                 \/ CloseEffect(c, y)
        PROVE  Goal
    BY <1>p, <1>7 DEF AttachEffect, HeartbeatEffect, CloseEffect
  <1>8. ASSUME NEW i \in Instance, NEW y, CloseDeviceEffect(i, y) PROVE Goal
    BY <1>p, <1>8 DEF CloseDeviceEffect
  <1>9. ASSUME NEW i \in Instance, NEW h, NEW y, NEW Y, ReplaceEffect(i, h, y, Y) PROVE Goal
    BY <1>p, <1>9 DEF ReplaceEffect
  <1>10. ASSUME NEW i \in Instance, NEW h, NEW Y, CloseOwnerEffect(i, h, Y) PROVE Goal
    BY <1>p, <1>10 DEF CloseOwnerEffect
  <1>11. ASSUME NEW i \in Instance, NEW e, NEW y, DeliverEffect(i, e, y) PROVE Goal
    BY <1>p, <1>11 DEF DeliverEffect
  <1>12. ASSUME NEW i \in Instance, NEW e, NEW Y, RejectEffect(i, e, Y) PROVE Goal
    BY <1>p, <1>12 DEF RejectEffect
  <1>13. ASSUME NEW i \in Instance, NEW e, HearEffect(i, e) PROVE Goal
    <2>1. e.msg \in Message
      BY <1>13, EnvelopeType DEF HearEffect, Takes
    <2> QED
      BY <1>p, <1>m, <1>13, <2>1 DEF HearEffect, AskAfter, Says
  <1>14. ASSUME NEW m \in Message, TimeoutEffect(m) PROVE Goal
    BY <1>m, <1>14 DEF TimeoutEffect, AskAfter, Says
  <1>15. ASSUME NEW m \in Message, NEW y, ReaskEffect(m, y) PROVE Goal
    BY <1>m, <1>15 DEF ReaskEffect, AskAfter, Says
  <1>16. ASSUME NEW i \in Instance, NEW m \in Message, NEW y, SendEffect(i, m, y) PROVE Goal
    BY <1>b, <1>16 DEF SendEffect, AskAfter
  <1>17. ASSUME NEW m \in Message, AnswerEffect(m) PROVE Goal
    BY <1>r, <1>t, <1>17 DEF AnswerEffect, AskAfter, TokenOf, Says
  <1>18. ASSUME NEW i \in Instance, NEW h, GiveUpEffect(i, h) PROVE Goal
    <2>1. h.id \in Message /\ asks[h.id].pc \in {"owner", "again"}
      BY <1>t, <1>18, HandledFrame DEF GiveUpEffect, Asking
    <2> QED
      BY <1>r, <1>18, <2>1 DEF GiveUpEffect, AskAfter, Says
  <1>19. ASSUME NEW i \in Instance, NEW h, NEW y, RetryEffect(i, h, y) PROVE Goal
    <2>1. h.id \in Message /\ asks[h.id].pc \in {"local", "publish"}
      BY <1>t, <1>19, HandledFrame DEF RetryEffect, Asking
    <2> QED
      BY <1>m, <1>19, <2>1 DEF RetryEffect, AskAfter, Says
  <1>20. ASSUME NEW i \in Instance, NEW h, NEW ack, PublishedEffect(i, h, ack) PROVE Goal
    <2>1. h.id \in Message /\ asks[h.id].pc \in {"local", "publish"}
      BY <1>t, <1>20, HandledFrame DEF PublishedEffect, Asking
    <2> QED
      BY <1>m, <1>20, <2>1 DEF PublishedEffect, AskAfter, Says
  <1>21. ASSUME NEW i \in Instance, NEW h, NEW k, NEW y,
               \/ LocalEffect(i, h, k, y)
                 \/ MissEffect(i, h, k, y)
        PROVE  Goal
    <2>1. h.id \in Message /\ asks[h.id].pc \in {"owner", "again"}
      BY <1>t, <1>21, HandledFrame DEF LocalEffect, MissEffect, Tries, Asking
    <2> QED
      BY <1>m, <1>21, <2>1 DEF LocalEffect, MissEffect, Tries, AskAfter, Says
  <1>22. ASSUME NEW i \in Instance, NEW h, NEW k, NEW y, NEW Y, RemoteEffect(i, h, k, y, Y)
        PROVE  Goal
    <2>1. h.id \in Message /\ asks[h.id].pc \in {"owner", "again"}
      BY <1>t, <1>22, HandledFrame DEF RemoteEffect, Tries, Asking
    <2> QED
      BY <1>m, <1>22, <2>1 DEF RemoteEffect, Tries, AskAfter, Says
  <1>23. ASSUME NEW i \in Instance, NEW h, NEW y, WelcomeEffect(i, h, y) PROVE Goal
    <2>1. h.id \in Connection
      BY <1>t, <1>23, HandledFrame DEF WelcomeEffect, Greeting
    <2>2. Welcome(h.id) \in Message /\ asks[Welcome(h.id)].pc = "idle"
      BY <1>t, <1>23, <2>1, HandledFrame, MessageKinds DEF WelcomeEffect, Base, AskInv, Greeting, FrameOf
    <2> QED
      BY <1>b, <1>23, <2>2 DEF WelcomeEffect, AskAfter
  <1>24. ASSUME NEW i \in Instance, NEW Y, StopEffect(i, Y) PROVE Goal
    BY <1>u, <1>24 DEF StopEffect, Says
  <1>25. ASSUME NEW i \in Instance, HaltEffect(i) PROVE Goal
    <2> DEFINE M == {m \in Message : asks[m].at = i /\ Says(m) = "asked"}
    <2>1. \A m \in Message : asks[m].pc = "idle" => asks[m].at # i
      BY <1>t, HubAssumption DEF Base, AskInv, None
    <2>2. \A m \in Message : Says(m)' = IF m \in M THEN "lost" ELSE Says(m)
      BY <1>25, <2>1 DEF HaltEffect, Says
    <2>3. CASE M = {}
      BY <1>u, <1>25, <2>2, <2>3 DEF HaltEffect
    <2>4. CASE M # {}
      <3>1. M \in SUBSET Message /\ \A m \in M : Says(m) = "asked"
        OBVIOUS
      <3>2. written' = written
        BY <1>25 DEF HaltEffect
      <3> HIDE DEF M
      <3> QED
        BY <1>h, <2>2, <2>4, <3>1, <3>2
    <2> QED
      BY <2>3, <2>4
  <1>26. ASSUME NEW i \in Instance, NEW h, WriteEffect(i, h) PROVE Goal
    <2> DEFINE m == h.id
               c == h.conn
               k == asks[m].attempt
    <2>1. m \in Message /\ asks[m].pc = "local" /\ c = asks[m].owner /\ c # None /\ c \in Connection
      BY <1>t, <1>26, HandledFrame, HandledType, SMTT(30) DEF WriteEffect, Asking, Handles, Awaited
    <2>2. k \in 0..1 /\ Token(m, k, c)
      BY <1>t, <2>1 DEF Token, Ask
    <2>3. /\ written' = [written EXCEPT ![m] = Append(@, c)]
          /\ asks'[m].pc = "sent" /\ \A x \in Message : x # m => asks'[x] = asks[x]
      BY <1>26 DEF WriteEffect, AskAfter
    <2> HIDE DEF m, c, k
    <2>4. Says(m) = "asked" /\ Says(m)' = "sent"
      BY <2>1, <2>3 DEF Says
    <2> QED
      BY <1>w, <2>1, <2>2, <2>3, <2>4
  <1>27. ASSUME NEW i \in Instance, NEW h, NEW r, NEW Y, RelayedEffect(i, h, r, Y) PROVE Goal
    <2>u. CASE r = "unsent"
      BY <1>p, <1>27, <2>u DEF RelayedEffect
    <2>s. CASE r = "sent"
      <3> DEFINE m == h.id.msg
                 k == h.id.attempt
                 c == h.conn
      <3>1. /\ h.id \in Envelope /\ h \in Range(replies[i]) /\ h.for = "relay"
            /\ h.id.kind = "agent.send" /\ h.conn = h.id.conn
        BY <1>27, HandledType DEF RelayedEffect, Handles, Awaited
      <3>2. m \in Message /\ k \in 0..1 /\ c \in Connection
        BY <3>1, EnvelopeType
      <3>3. Sending(m, k, c)
        BY <3>1 DEF Sending
      <3>4. written' = [written EXCEPT ![m] = Append(@, c)] /\ asks' = asks
        BY <1>27, <2>s DEF RelayedEffect
      <3> HIDE DEF m, k, c
      <3>5. Token(m, k, c) /\ Remote(m, k)
        BY <3>3, SendingRemote DEF Token
      <3>6. asks[m].pc # "idle"
        BY <1>t, <3>2, <3>5 DEF TokenOf
      <3>7. Says(m)' = Says(m)
        BY <3>4 DEF Says
      <3> QED
        BY <1>w, <3>2, <3>4, <3>5, <3>6, <3>7
    <2> QED
      BY <1>27, <2>u, <2>s DEF RelayedEffect
  <1> QED
    BY <1>1, <1>2, <1>3, <1>4, <1>5, <1>6, <1>7, <1>8, <1>9, <1>10, <1>11, <1>12, <1>13, <1>14,
       <1>15, <1>16, <1>17, <1>18, <1>19, <1>20, <1>21, <1>22, <1>23, <1>24, <1>25, <1>26, <1>27, <1>q DEF Effect

\* DeliveryHonest: ConnectionHub implements AgentDelivery.  Whatever the instances,
\* their crashes, the failures of Redis, lost acknowledgements and replaced
\* connections, no socket is written a message twice, at most two sockets are, and
\* sendToAgent answers TRUE only for a message that was written.
THEOREM DeliveryCorrect == Spec => DeliveryHonest
  <1>1. Init => Delivery!Init
    BY DEF Init, Delivery!Init
  <1>2. HubInv /\ [Next]_vars => [Delivery!Next]_(Delivery!vars)
    BY StepEffect, DeliveryStep DEF HubInv
  <1> QED
    BY <1>1, <1>2, HubCorrect, PTL DEF Spec, DeliveryHonest, Delivery!Spec

-----------------------------------------------------------------------------
(* A FALSE that nothing made doubtful.                                     *)

\* A message that no timeout, failed publish or shutdown made doubtful is not written
\* while it may still be refused: the relay has nothing of it but the attempt that is
\* awaited, and what says that the attempt did not send is right.
RefuseOf(m) ==
  /\ asks[m].pc \in {"idle", "owner", "again", "local", "unsent"} => written[m] = <<>>
  /\ asks[m].pc \in {"publish", "wait"} /\ asks[m].ack = "unsent" => written[m] = <<>>
  /\ \A k \in 0..1 : Remote(m, k) =>
       /\ k = asks[m].attempt
       /\ asks[m].pc = "lost" \/ (asks[m].pc \in {"publish", "wait"} /\ asks[m].ack = "open")
  /\ \A k \in 0..1 : \A c \in Connection : Sending(m, k, c) => written[m] = <<>>
  /\ \A i \in Instance : \A e \in Range(inbox[i]) :
       e.kind = "relay.ack" /\ e.msg = m /\ e.ack = "unsent" => written[m] = <<>>

RefuseInv == \A m \in Message \ doubtful : RefuseOf(m)

\* A message that is not written and of which the relay has no more than before.
LEMMA RefuseKept ==
  ASSUME AcksAfter, RedisType', NEW m \in Message, RefuseOf(m), written'[m] = written[m],
         \A k \in 0..1 : \A c \in Connection : Sending(m, k, c)' => Sending(m, k, c),
         asks'[m].pc \in {"idle", "owner", "again", "local", "unsent"} => written[m] = <<>>,
         asks'[m].pc \in {"publish", "wait"} /\ asks'[m].ack = "unsent" => written[m] = <<>>,
         \A k \in 0..1 : Remote(m, k)' =>
           /\ k = asks'[m].attempt
           /\ asks'[m].pc = "lost" \/ (asks'[m].pc \in {"publish", "wait"} /\ asks'[m].ack = "open")
  PROVE  RefuseOf(m)'
  <1>1. ASSUME NEW j \in Instance, NEW e \in Range(inbox'[j]),
               e.kind = "relay.ack", e.msg = m, e.ack = "unsent"
        PROVE  written'[m] = <<>>
    <2>1. e \in Envelope
      BY QueueRange DEF RedisType
    <2>2. e.attempt \in 0..1
      BY <1>1, <2>1, EnvelopeType
    <2>3. CASE e \in Range(inbox[j])
      BY <1>1, <2>3 DEF RefuseOf
    <2>4. CASE \E c \in Connection : Sending(m, e.attempt, c)
      BY <2>2, <2>4 DEF RefuseOf
    <2> QED
      BY <1>1, <2>3, <2>4 DEF AcksAfter
  <1> QED
    BY <1>1 DEF RefuseOf

LEMMA RefuseStep ==
  ASSUME HubInv, Effect, RefuseInv, ~ \E i \in Instance : \E h, k, y, Y : RemoteEffect(i, h, k, y, Y)
  PROVE  RefuseInv'
  <1>k. RelayKept /\ AcksAfter /\ Base /\ RedisType'
    BY RelayStepKept, TypeStep DEF HubInv, TypeOK
  <1>t. /\ written \in [Message -> Seq(Connection)] /\ asks \in [Message -> Ask]
        /\ \A m \in Message : TokenOf(m)
        /\ \A m \in Message : m \notin doubtful => RefuseOf(m)
    BY DEF HubInv, Base, TypeOK, HistoryType, InstanceType, TokenInv, RefuseInv
  \* A message that a step leaves alone.
  <1>o. ASSUME NEW m \in Message, m \notin doubtful, asks'[m] = asks[m], written'[m] = written[m]
        PROVE  RefuseOf(m)'
    BY <1>k, <1>t, <1>o, RefuseKept DEF RelayKept, RefuseOf
  <1>u. ASSUME asks' = asks, written' = written, doubtful' = doubtful
        PROVE  RefuseInv'
    BY <1>o, <1>u DEF RefuseInv
  \* One call goes on, which the relay has nothing of.
  <1>m. ASSUME NEW m \in Message, written' = written, doubtful' = doubtful,
               \A x \in Message : x # m => asks'[x] = asks[x],
               m \notin doubtful => /\ \A k \in 0..1 : ~ Remote(m, k)'
                                    /\ asks'[m].pc = "sent" \/ written[m] = <<>>
        PROVE  RefuseInv'
    <2>1. m \notin doubtful => RefuseOf(m)'
      <3> SUFFICES ASSUME m \notin doubtful PROVE RefuseOf(m)'
        OBVIOUS
      <3>1. RefuseOf(m) /\ (\A k \in 0..1 : ~ Remote(m, k)') /\ (asks'[m].pc = "sent" \/ written[m] = <<>>)
        BY <1>t, <1>m
      <3>2. \A k \in 0..1 : \A c \in Connection : Sending(m, k, c)' => Sending(m, k, c)
        BY <1>k DEF RelayKept
      <3> QED
        BY <1>k, <1>m, <3>1, <3>2, RefuseKept
    <2> QED
      BY <1>m, <1>o, <2>1 DEF RefuseInv
  \* What is not with the relay does not get there.
  <1>n. \A m \in Message : m \notin doubtful /\ asks[m].pc \notin {"lost", "publish", "wait"} =>
          (\A k \in 0..1 : ~ Remote(m, k)' /\ ~ Remote(m, k))
    BY <1>k, <1>t DEF RelayKept, RefuseOf
  <1>1. ASSUME NEW c \in Connection, CloseOverEffect(c) PROVE RefuseInv'
    BY <1>u, <1>1 DEF CloseOverEffect
  <1>2. ASSUME LapseEffect \/ Stutter PROVE RefuseInv'
    BY <1>u, <1>2 DEF LapseEffect, Stutter
  <1>3. ASSUME NEW c \in Connection, NEW i \in Instance, DialEffect(c, i) PROVE RefuseInv'
    BY <1>u, <1>3 DEF DialEffect
  <1>4. ASSUME NEW c \in Connection, NEW state \in {"cut", "closed"}, DropEffect(c, state)
        PROVE  RefuseInv'
    BY <1>u, <1>4 DEF DropEffect
  <1>5. ASSUME NEW i \in Instance, NEW e, LoseEffect(i, e) \/ ExpelEffect(i, e) PROVE RefuseInv'
    BY <1>u, <1>5 DEF LoseEffect, ExpelEffect
  <1>6. ASSUME NEW i \in Instance, NEW h,
               \/ RefuseEffect(i, h)
                 \/ BeatEffect(i, h)
                 \/ DetachEffect(i, h)
        PROVE  RefuseInv'
    BY <1>u, <1>6 DEF RefuseEffect, BeatEffect, DetachEffect
  <1>7. ASSUME NEW c \in Connection, NEW y,
               \/ AttachEffect(c, y)
                 \/ HeartbeatEffect(c, y)
                 \/ CloseEffect(c, y)
        PROVE  RefuseInv'
    BY <1>u, <1>7 DEF AttachEffect, HeartbeatEffect, CloseEffect
  <1>8. ASSUME NEW i \in Instance, NEW y, CloseDeviceEffect(i, y) PROVE RefuseInv'
    BY <1>u, <1>8 DEF CloseDeviceEffect
  <1>9. ASSUME NEW i \in Instance, NEW h, NEW y, NEW Y, ReplaceEffect(i, h, y, Y) PROVE RefuseInv'
    BY <1>u, <1>9 DEF ReplaceEffect
  <1>10. ASSUME NEW i \in Instance, NEW h, NEW Y, CloseOwnerEffect(i, h, Y) PROVE RefuseInv'
    BY <1>u, <1>10 DEF CloseOwnerEffect
  <1>11. ASSUME NEW i \in Instance, NEW e, NEW y, DeliverEffect(i, e, y) PROVE RefuseInv'
    BY <1>u, <1>11 DEF DeliverEffect
  <1>12. ASSUME NEW i \in Instance, NEW e, NEW Y, RejectEffect(i, e, Y) PROVE RefuseInv'
    BY <1>u, <1>12 DEF RejectEffect
  <1>13. ASSUME NEW i \in Instance, NEW e, HearEffect(i, e) PROVE RefuseInv'
    <2> DEFINE m == e.msg
               k == e.attempt
    <2>1. m \in Message /\ k \in 0..1 /\ e \in Range(inbox[i]) /\ e.kind = "relay.ack"
      BY <1>13, EnvelopeType DEF HearEffect, Takes
    <2>2. HasEnvelope(inbox[i], m, k) /\ Remote(m, k)
      BY <2>1 DEF HasEnvelope, Remote
    <2>3. \A j \in Instance : ~ HasReply(replies[j], m, k) /\ (j # i => ~ HasEnvelope(inbox[j], m, k))
      BY <1>k, <2>1, <2>2 DEF Base, ApartInv
    <2>4. /\ \A j \in Instance : \A x \in Range(inbox'[j]) :
               x \in Range(inbox[j]) /\ (j = i => ~ SameAttempt(e, x))
          /\ replies' = replies
      BY <1>13 DEF HearEffect, InboxAfter
    <2>5. ~ Remote(m, k)'
      BY <2>1, <2>3, <2>4 DEF Remote, HasEnvelope, HasReply, SameAttempt
    <2>6. e.ack = "unsent" /\ m \notin doubtful => written[m] = <<>>
      BY <1>t, <2>1 DEF RefuseOf
    <2>h. /\ written' = written /\ doubtful' = doubtful
          /\ \/ asks' = asks
             \/ /\ Pending(m) /\ asks[m].attempt = k
                /\ AskAfter(m, asks[m].pc, asks[m].at, asks[m].owner, asks[m].attempt, e.ack)
      BY <1>13 DEF HearEffect
    <2>a. e.ack \in {"sent", "unsent"}
      BY <1>13, EnvelopeType DEF HearEffect, Takes
    <2> DEFINE ack == e.ack
    <2> HIDE DEF m, k, ack
    <2>7. CASE asks' = asks
      BY <1>u, <2>7, <2>h
    <2>8. CASE AskAfter(m, asks[m].pc, asks[m].at, asks[m].owner, asks[m].attempt, e.ack)
      <3>1. ASSUME m \notin doubtful PROVE RefuseOf(m)'
        <4>1. RefuseOf(m) /\ \A n \in 0..1 : Remote(m, n)' => Remote(m, n)
          BY <1>k, <1>t, <2>1, <3>1 DEF RelayKept
        <4>2. \A n \in 0..1 : ~ Remote(m, n)'
          BY <2>2, <2>1, <2>5, <4>1 DEF RefuseOf
        <4>3. \A n \in 0..1 : \A c \in Connection : Sending(m, n, c)' => Sending(m, n, c)
          BY <1>k, <2>1 DEF RelayKept
        <4>4. /\ asks'[m].pc = asks[m].pc /\ asks'[m].ack = e.ack /\ written'[m] = written[m]
          BY <2>8, <2>h DEF AskAfter
        <4>5. asks'[m].pc \in {"idle", "owner", "again", "local", "unsent"} => written[m] = <<>>
          BY <4>1, <4>4 DEF RefuseOf
        <4>6. asks'[m].pc \in {"publish", "wait"} /\ asks'[m].ack = "unsent" => written[m] = <<>>
          BY <2>6, <3>1, <4>4
        <4> QED
          BY <1>k, <2>1, <4>1, <4>2, <4>3, <4>4, <4>5, <4>6, RefuseKept
      <3>2. \A x \in Message : x # m => asks'[x] = asks[x]
        BY <2>8 DEF AskAfter
      <3> QED
        BY <1>o, <2>h, <3>1, <3>2 DEF RefuseInv
    <2> QED
      BY <2>7, <2>8, <2>h
  <1>14. ASSUME NEW m \in Message, TimeoutEffect(m) PROVE RefuseInv'
    <2>1. /\ \A x \in Message : x # m => asks'[x] = asks[x]
          /\ doubtful' = doubtful \cup {m} /\ written' = written
      BY <1>14 DEF TimeoutEffect, AskAfter
    <2> QED
      BY <1>o, <2>1 DEF RefuseInv
  <1>15. ASSUME NEW i \in Instance, NEW Y, StopEffect(i, Y) PROVE RefuseInv'
    <2>1. ASSUME NEW m \in Message, m \notin doubtful' PROVE RefuseOf(m)'
      <3>1. /\ m \notin doubtful /\ written' = written
            /\ asks'[m].pc = asks[m].pc /\ asks'[m].ack = asks[m].ack
            /\ asks'[m].attempt = asks[m].attempt
        BY <1>15, <2>1 DEF StopEffect
      <3>2. RefuseOf(m)
        BY <1>t, <3>1
      <3> QED
        BY <1>k, <3>1, <3>2, RefuseKept DEF RelayKept, RefuseOf
    <2> QED
      BY <2>1 DEF RefuseInv
  <1>16. ASSUME NEW i \in Instance, HaltEffect(i) PROVE RefuseInv'
    <2>1. ASSUME NEW m \in Message, m \notin doubtful PROVE RefuseOf(m)'
      <3>1. /\ written' = written
            /\ asks'[m].pc \in {asks[m].pc, "lost"} /\ asks'[m].ack = asks[m].ack
            /\ asks'[m].attempt = asks[m].attempt
        BY <1>16 DEF HaltEffect
      <3>2. RefuseOf(m)
        BY <1>t, <2>1
      <3> QED
        BY <1>k, <3>1, <3>2, RefuseKept DEF RelayKept, RefuseOf
    <2> QED
      BY <1>16, <2>1 DEF HaltEffect, RefuseInv
  <1>17. ASSUME NEW m \in Message, NEW y, ReaskEffect(m, y) PROVE RefuseInv'
    <2>1. m \notin doubtful => written[m] = <<>> /\ \A k \in 0..1 : ~ Remote(m, k)'
      BY <1>k, <1>t, <1>17 DEF ReaskEffect, RefuseOf, RelayKept
    <2> QED
      BY <1>m, <1>17, <2>1 DEF ReaskEffect, AskAfter
  <1>18. ASSUME NEW i \in Instance, NEW m \in Message, NEW y, SendEffect(i, m, y) PROVE RefuseInv'
    BY <1>m, <1>n, <1>t, <1>18 DEF SendEffect, AskAfter, RefuseOf
  <1>19. ASSUME NEW m \in Message, AnswerEffect(m) PROVE RefuseInv'
    <2>1. m \notin doubtful => \A k \in 0..1 : ~ Remote(m, k)'
      BY <1>k, <1>t, <1>19 DEF AnswerEffect, RefuseOf, RelayKept
    <2> QED
      BY <1>m, <1>19, <2>1 DEF AnswerEffect, AskAfter
  <1>20. ASSUME NEW i \in Instance, NEW h, GiveUpEffect(i, h) PROVE RefuseInv'
    <2>1. h.id \in Message /\ asks[h.id].pc \in {"owner", "again"}
      BY <1>k, <1>20, HandledFrame DEF GiveUpEffect, Asking
    <2> QED
      BY <1>m, <1>n, <1>t, <1>20, <2>1 DEF GiveUpEffect, AskAfter, RefuseOf
  <1>21. ASSUME NEW i \in Instance, NEW h, NEW y, RetryEffect(i, h, y) PROVE RefuseInv'
    <2>1. h.id \in Message /\ asks[h.id].pc = "local"
      BY <1>k, <1>21, HandledFrame DEF RetryEffect, Asking
    <2> QED
      BY <1>m, <1>n, <1>t, <1>21, <2>1 DEF RetryEffect, AskAfter, RefuseOf
  <1>22. ASSUME NEW i \in Instance, NEW h, NEW k, NEW y,
               \/ LocalEffect(i, h, k, y)
                 \/ MissEffect(i, h, k, y)
        PROVE  RefuseInv'
    <2>1. h.id \in Message /\ asks[h.id].pc \in {"owner", "again"}
      BY <1>k, <1>22, HandledFrame DEF LocalEffect, MissEffect, Tries, Asking
    <2> QED
      BY <1>m, <1>n, <1>t, <1>22, <2>1 DEF LocalEffect, MissEffect, Tries, AskAfter, RefuseOf
  <1>23. ASSUME NEW i \in Instance, NEW h, NEW k, NEW y, NEW Y, RemoteEffect(i, h, k, y, Y)
        PROVE  RefuseInv'
    BY <1>23
  <1>24. ASSUME NEW i \in Instance, NEW h, NEW ack, PublishedEffect(i, h, ack) PROVE RefuseInv'
    <2>1. h.id \in Message /\ asks[h.id].pc = "publish"
      BY <1>k, <1>24, HandledFrame DEF PublishedEffect, Asking
    <2> DEFINE m == h.id
    <2>2. /\ written' = written /\ \A x \in Message : x # m => asks'[x] = asks[x]
          /\ asks'[m].pc = "wait" /\ asks'[m].ack = ack /\ asks'[m].attempt = asks[m].attempt
          /\ doubtful' = doubtful \cup {m} \/ (doubtful' = doubtful /\ ack = asks[m].ack)
      BY <1>24 DEF PublishedEffect, AskAfter
    <2> HIDE DEF m
    <2>3. ASSUME doubtful' = doubtful, ack = asks[m].ack, m \notin doubtful PROVE RefuseOf(m)'
      <3>1. RefuseOf(m) /\ m \in Message /\ asks[m].pc = "publish"
        BY <1>t, <2>1, <2>3 DEF m
      <3>2. \A k \in 0..1 : Remote(m, k)' => Remote(m, k)
        BY <1>k, <3>1 DEF RelayKept
      <3>3. \A k \in 0..1 : \A c \in Connection : Sending(m, k, c)' => Sending(m, k, c)
        BY <1>k, <3>1 DEF RelayKept
      <3>4. asks'[m].ack = "unsent" => written[m] = <<>>
        BY <2>2, <2>3, <3>1 DEF RefuseOf
      <3>5. \A k \in 0..1 : Remote(m, k)' => k = asks'[m].attempt /\ asks'[m].ack = "open"
        BY <2>2, <2>3, <3>1, <3>2 DEF RefuseOf
      <3> QED
        BY <1>k, <2>2, <3>1, <3>3, <3>4, <3>5, RefuseKept
    <2> QED
      BY <1>o, <2>2, <2>3 DEF RefuseInv
  <1>25. ASSUME NEW i \in Instance, NEW h, NEW y, WelcomeEffect(i, h, y) PROVE RefuseInv'
    <2>1. h.id \in Connection
      BY <1>k, <1>25, HandledFrame DEF WelcomeEffect, Greeting
    <2>2. Welcome(h.id) \in Message /\ asks[Welcome(h.id)].pc = "idle"
      BY <1>k, <1>25, <2>1, HandledFrame, MessageKinds DEF WelcomeEffect, Base, AskInv, Greeting, FrameOf
    <2> QED
      BY <1>m, <1>n, <1>t, <1>25, <2>2 DEF WelcomeEffect, AskAfter, RefuseOf
  <1>26. ASSUME NEW i \in Instance, NEW h, WriteEffect(i, h) PROVE RefuseInv'
    <2> DEFINE m == h.id
    <2>1. m \in Message /\ asks[m].pc = "local" /\ h.conn \in Connection
      BY <1>k, <1>26, HandledFrame, HandledType DEF WriteEffect, Asking, Handles, Awaited
    <2>2. /\ written' = [written EXCEPT ![m] = Append(@, h.conn)] /\ doubtful' = doubtful
          /\ inbox' = inbox
          /\ asks'[m].pc = "sent" /\ \A x \in Message : x # m => asks'[x] = asks[x]
      BY <1>26 DEF WriteEffect, AskAfter
    <2> HIDE DEF m
    <2>3. ASSUME m \notin doubtful PROVE RefuseOf(m)'
      <3>1. \A k \in 0..1 : ~ Remote(m, k)' /\ ~ Remote(m, k)
        BY <1>n, <2>1, <2>3
      <3>2. \A k \in 0..1 : \A c \in Connection : ~ Sending(m, k, c)'
        BY <1>k, <2>1, <3>1, SendingRemote DEF RelayKept
      <3>3. ASSUME NEW j \in Instance, NEW e \in Range(inbox'[j]), e.kind = "relay.ack", e.msg = m
            PROVE  FALSE
        <4>1. e \in Range(inbox[j]) /\ e \in Envelope
          BY <1>k, <2>2, QueueRange DEF Base, TypeOK, RedisType
        <4>2. e.attempt \in 0..1 /\ Remote(m, e.attempt)
          BY <3>3, <4>1, EnvelopeType DEF Remote, HasEnvelope
        <4> QED
          BY <3>1, <4>2
      <3> QED
        BY <2>2, <3>1, <3>2, <3>3 DEF RefuseOf
    <2>4. \A x \in Message : x # m => written'[x] = written[x]
      BY <1>t, <2>2
    <2> QED
      BY <1>o, <2>2, <2>3, <2>4 DEF RefuseInv
  <1>27. ASSUME NEW i \in Instance, NEW h, NEW r, NEW Y, RelayedEffect(i, h, r, Y)
        PROVE  RefuseInv'
    <2>u. CASE r = "unsent"
      BY <1>u, <1>27, <2>u DEF RelayedEffect
    <2>s. CASE r = "sent"
      <3> DEFINE m == h.id.msg
                 k == h.id.attempt
                 c == h.conn
      <3>1. /\ h.id \in Envelope /\ h \in Range(replies[i]) /\ h.for = "relay"
            /\ h.id.kind = "agent.send" /\ h.conn = h.id.conn
        BY <1>27, HandledType DEF RelayedEffect, Handles, Awaited
      <3>2. m \in Message /\ k \in 0..1 /\ c \in Connection
        BY <3>1, EnvelopeType
      <3>3. HasReply(replies[i], m, k)
        BY <3>1 DEF HasReply
      <3>4. /\ written' = [written EXCEPT ![m] = Append(@, c)] /\ asks' = asks
            /\ doubtful' = doubtful
        BY <1>27, <2>s DEF RelayedEffect
      <3>5. \A j \in Instance : ~ HasEnvelope(inbox[j], m, k) /\ (j # i => ~ HasReply(replies[j], m, k))
        BY <1>k, <3>2, <3>3 DEF Base, ApartInv
      <3>6. /\ \A j \in Instance : \A x \in Range(inbox'[j]) :
                 x \in Range(inbox[j]) \/ (x.kind = "relay.ack" /\ x.ack = "sent")
            /\ \A j \in Instance : \A x \in Range(replies'[j]) :
                 x \in Range(replies[j]) /\ (j = i => ~ SameReply(h, x))
        BY <1>27, <2>s DEF RelayedEffect, InboxAfter, RepliesAfter, AckOf
      <3>7. \A d \in Connection : ~ Sending(m, k, d)'
        BY <3>1, <3>5, <3>6 DEF Sending, HasEnvelope, HasReply, SameReply
      <3> HIDE DEF m, k, c
      <3>8. Remote(m, k)
        BY <3>3 DEF Remote
      <3>9. ASSUME m \notin doubtful PROVE RefuseOf(m)'
        <4>1. RefuseOf(m)
          BY <1>t, <3>2, <3>9
        <4>2. /\ k = asks[m].attempt /\ \A n \in 0..1 : Remote(m, n) => n = k
              /\ asks[m].pc = "lost" \/ (asks[m].pc \in {"publish", "wait"} /\ asks[m].ack = "open")
          BY <3>2, <3>8, <4>1 DEF RefuseOf
        <4>3. \A n \in 0..1 : Remote(m, n)' => Remote(m, n)
          BY <1>k, <3>2 DEF RelayKept
        <4>4. \A n \in 0..1 : \A d \in Connection : ~ Sending(m, n, d)'
          BY <1>k, <3>2, <3>7, <4>2, SendingRemote DEF RelayKept
        <4>5. ASSUME NEW j \in Instance, NEW e \in Range(inbox'[j]), e.kind = "relay.ack",
                     e.msg = m, e.ack = "unsent"
              PROVE  FALSE
          <5>1. e \in Range(inbox[j])
            BY <3>6, <4>5
          <5>2. e \in Envelope
            BY <1>k, <5>1, QueueRange DEF Base, TypeOK, RedisType
          <5>3. e.attempt \in 0..1
            BY <4>5, <5>2, EnvelopeType
          <5>4. HasEnvelope(inbox[j], m, e.attempt)
            BY <4>5, <5>1 DEF HasEnvelope
          <5>5. e.attempt = k
            BY <4>2, <5>3, <5>4 DEF Remote
          <5> QED
            BY <3>5, <5>4, <5>5
        <4> QED
          BY <3>4, <4>2, <4>3, <4>4, <4>5 DEF RefuseOf
      <3>10. \A x \in Message : x # m => written'[x] = written[x]
        BY <1>t, <3>4
      <3> QED
        BY <1>o, <3>4, <3>9, <3>10 DEF RefuseInv
    <2> QED
      BY <1>27, <2>u, <2>s DEF RelayedEffect
  <1> QED
    BY <1>1, <1>2, <1>3, <1>4, <1>5, <1>6, <1>7, <1>8, <1>9, <1>10, <1>11, <1>12, <1>13, <1>14,
       <1>15, <1>16, <1>17, <1>18, <1>19, <1>20, <1>21, <1>22, <1>23, <1>24, <1>25, <1>26, <1>27 DEF Effect

\* The publish of an attempt.
LEMMA RefuseRemote ==
  ASSUME HubInv, RefuseInv, Effect, NEW i \in Instance, NEW h, NEW k, NEW y, NEW Y,
         RemoteEffect(i, h, k, y, Y)
  PROVE  RefuseInv'
  <1> DEFINE m == h.id
             c == h.val
  <1>1. /\ Base /\ TokenInv /\ RedisType' /\ AcksAfter
        /\ \A x \in Message : \A n \in 0..1 : Remote(x, n)' => Remote(x, n) \/ (x = m /\ n = k)
        /\ \A x \in Message : \A n \in 0..1 : \A d \in Connection : Sending(x, n, d)' =>
             Sending(x, n, d) \/ (x = m /\ n = k /\ d = c)
    BY RemoteStep, TypeStep DEF HubInv, TypeOK
  <1>2. Tries(i, h, k, "publish")
    BY DEF RemoteEffect
  <1>3. m \in Message /\ asks[m].pc \in {"owner", "again"}
    BY <1>1, <1>2, HandledFrame DEF Tries, Asking
  <1>4. /\ \A x \in Message : x # m => asks'[x] = asks[x]
        /\ asks'[m].pc = "publish" /\ asks'[m].attempt = k /\ asks'[m].ack = "open"
        /\ written' = written /\ doubtful' = doubtful
    BY <1>2 DEF Tries, AskAfter
  <1>e. \A j \in Instance : \A e \in Range(inbox'[j]) : e \in Range(inbox[j]) \/ e.kind = "agent.send"
    BY DEF RemoteEffect, InboxAfter, SendEnvelope
  <1> HIDE DEF m, c
  <1>5. ASSUME NEW x \in Message, x \notin doubtful, x # m PROVE RefuseOf(x)'
    <2>1. RefuseOf(x) /\ asks'[x] = asks[x]
      BY <1>4, <1>5 DEF RefuseInv
    <2>2. /\ \A n \in 0..1 : Remote(x, n)' => Remote(x, n)
          /\ \A n \in 0..1 : \A d \in Connection : Sending(x, n, d)' => Sending(x, n, d)
      BY <1>1, <1>5
    <2> QED
      BY <1>1, <1>4, <2>1, <2>2, RefuseKept DEF RefuseOf
  <1>6. ASSUME m \notin doubtful PROVE RefuseOf(m)'
    <2>1. RefuseOf(m)
      BY <1>3, <1>6 DEF RefuseInv
    <2>2. written[m] = <<>> /\ \A n \in 0..1 : ~ Remote(m, n)
      BY <1>3, <2>1 DEF RefuseOf
    <2>3. \A n \in 0..1 : Remote(m, n)' => n = k
      BY <1>1, <1>3, <2>2
    <2> QED
      BY <1>4, <2>2, <2>3 DEF RefuseOf
  <1> QED
    BY <1>4, <1>5, <1>6 DEF RefuseInv

\* RefusalHonest in every reachable state: when sendToAgent answers FALSE, and no
\* timeout, failed publish or shutdown settled one of its acknowledgements, the
\* message was written to no socket, whatever attempts were made.
THEOREM RefusalCorrect == Spec => []RefusalHonest
  <1>1. Init => RefuseInv
    <2> SUFFICES ASSUME Init, NEW m \in Message PROVE RefuseOf(m)
      BY DEF RefuseInv
    <2>1. \A i \in Instance : Range(replies[i]) = {} /\ Range(inbox[i]) = {}
      BY RangeOfNothing DEF Init
    <2>2. asks[m].pc = "idle" /\ written[m] = <<>>
      BY DEF Init
    <2>3. \A k : ~ Remote(m, k) /\ \A c : ~ Sending(m, k, c)
      BY <2>1 DEF Remote, HasEnvelope, HasReply, Sending
    <2> QED
      BY <2>1, <2>2, <2>3 DEF RefuseOf
  <1>2. HubInv /\ RefuseInv /\ [Next]_vars => RefuseInv'
    <2> SUFFICES ASSUME HubInv, RefuseInv, [Next]_vars PROVE RefuseInv'
      OBVIOUS
    <2>1. Effect
      BY StepEffect DEF HubInv
    <2>2. CASE \E i \in Instance : \E h, k, y, Y : RemoteEffect(i, h, k, y, Y)
      BY <2>1, <2>2, RefuseRemote
    <2>3. CASE ~ \E i \in Instance : \E h, k, y, Y : RemoteEffect(i, h, k, y, Y)
      BY <2>1, <2>3, RefuseStep
    <2> QED
      BY <2>2, <2>3
  <1>3. RefuseInv => RefusalHonest
    BY DEF RefuseInv, RefuseOf, RefusalHonest
  <1> QED
    BY <1>1, <1>2, <1>3, HubCorrect, PTL DEF Spec

-----------------------------------------------------------------------------
(* Connections that stay routable.                                         *)

\* The hello was accepted.
Served == {"publish", "welcome", "idle", "touch"}

LastClaim(c) == Len(claimed) > 0 /\ claimed[Len(claimed)] = c

\* The instance of connection c has released its key and is about to stop.
Stopping(c) == \E r \in Range(replies[host[c]]) : r.for = "shutdown"

\* A connection that was accepted is the entry of its instance.
EntryInv ==
  \A c \in Connection :
    frame[c] \in Served /\ sock[c] = "open" => agents[host[c]] = c \/ c \in struck

\* The connection that claimed last is the owner, even before its claim is answered.
OwnerInv ==
  \A c \in Connection :
    frame[c] \in Served \cup {"claim"} /\ sock[c] = "open" /\ LastClaim(c) =>
      presence = c \/ c \in struck \/ Stopping(c)

\* What has been answered has been claimed.
AnsweredInv ==
  /\ \A c \in Connection : frame[c] \in Served => Len(claimed) > 0
  /\ \A i \in Instance : \A r \in Range(replies[i]) : r.for = "attach" /\ r.ok => Len(claimed) > 0
  /\ \A c \in Connection : LastClaim(c) => frame[c] # "new"

RouteInv == ClaimInv /\ EntryInv /\ OwnerInv /\ AnsweredInv

LEMMA RouteStep ==
  ASSUME HubInv, Effect, RouteInv
  PROVE  RouteInv'
  <1>b. Base /\ ClaimInv'
    BY FreshGrows DEF HubInv, RouteInv
  <1>t. /\ frame \in [Connection -> FrameStates] /\ SocketType /\ RedisType
        /\ presence \in Connection \cup {None} /\ None \notin Connection
        /\ claimed \in Seq(Connection) /\ agents \in [Instance -> Connection \cup {None}]
    BY <1>b, HubAssumption
       DEF Base, TypeOK, SocketType, RedisType, HistoryType, InstanceType, FrameStates, Connection, None
  <1>i. \A c \in Connection : sock[c] # "unused" <=> host[c] \in Instance
    BY <1>b DEF Base, ConnInv
  \* A step that claims nothing.
  <1>g. ASSUME claimed' = claimed, struck \subseteq struck',
               \A c \in Connection :
                 /\ frame'[c] = "new" => frame[c] = "new"
                 /\ frame'[c] = "claim" => frame[c] = "claim" \/ ~ LastClaim(c)
                 /\ frame'[c] \in Served =>
                      \/ frame[c] \in Served
                      \/ frame[c] = "claim" /\ Len(claimed) > 0 /\ (sock'[c] = "open" => agents'[host[c]] = c)
                 /\ sock'[c] = "open" /\ frame'[c] # "new" =>
                      /\ sock[c] = "open" /\ host'[c] = host[c]
                      /\ agents[host[c]] = c => agents'[host[c]] = c \/ c \in struck'
                      /\ presence = c => presence' = c \/ c \in struck' \/ Stopping(c)'
                      /\ Stopping(c) => Stopping(c)' \/ frame'[c] = "refused",
               \A j \in Instance : \A r \in Range(replies'[j]) :
                 r.for = "attach" /\ r.ok => r \in Range(replies[j]) \/ Len(claimed') > 0
        PROVE  RouteInv'
    <2>l. \A c : LastClaim(c)' <=> LastClaim(c)
      BY <1>g DEF LastClaim
    <2>s. Served \cap {"new", "claim", "refused"} = {}
      BY DEF Served
    <2>1. EntryInv'
      BY <1>g, <2>s DEF RouteInv, EntryInv
    <2>2. OwnerInv'
      <3> SUFFICES ASSUME NEW c \in Connection, frame'[c] \in Served \cup {"claim"}, sock'[c] = "open",
                          LastClaim(c)'
                   PROVE  presence' = c \/ c \in struck' \/ Stopping(c)'
        BY DEF OwnerInv
      <3>1. frame'[c] \notin {"new", "refused"} /\ LastClaim(c)
        BY <2>l, <2>s
      <3>2. /\ sock[c] = "open"
            /\ presence = c => presence' = c \/ c \in struck' \/ Stopping(c)'
            /\ Stopping(c) => Stopping(c)'
        BY <1>g, <3>1
      <3>3. frame[c] \in Served \cup {"claim"}
        BY <1>g, <3>1
      <3>4. presence = c \/ c \in struck \/ Stopping(c)
        BY <3>1, <3>2, <3>3 DEF RouteInv, OwnerInv
      <3> QED
        BY <1>g, <3>2, <3>4
    <2>3. AnsweredInv'
      <3>1. \A c \in Connection : frame'[c] \in Served => Len(claimed') > 0
        BY <1>g DEF RouteInv, AnsweredInv
      <3>2. \A j \in Instance : \A r \in Range(replies'[j]) : r.for = "attach" /\ r.ok => Len(claimed') > 0
        BY <1>g DEF RouteInv, AnsweredInv
      <3>3. \A c \in Connection : LastClaim(c)' => frame'[c] # "new"
        BY <1>g, <2>l DEF RouteInv, AnsweredInv
      <3> QED
        BY <3>1, <3>2, <3>3 DEF AnsweredInv
    <2> QED
      BY <1>b, <2>1, <2>2, <2>3 DEF RouteInv
  \* A shutdown's reply is handled by the end of the instance.
  <1>s. ASSUME NEW i \in Instance, NEW H, NEW Y, RepliesAfter(i, H, Y),
               \A h \in H : h.for # "shutdown",
               NEW c \in Connection, sock[c] = "open", host'[c] = host[c], Stopping(c)
        PROVE  Stopping(c)'
    <2>1. PICK r \in Range(replies[host[c]]) : r.for = "shutdown"
      BY <1>s DEF Stopping
    <2>2. host[c] \in Instance
      BY <1>i, <1>s
    <2>3. r \in Range(replies'[host[c]])
      BY <1>s, <2>1, <2>2 DEF RepliesAfter
    <2> QED
      BY <1>s, <2>1, <2>3 DEF Stopping
  <1>w. \A c : replies' = replies /\ host'[c] = host[c] /\ Stopping(c) => Stopping(c)'
    BY DEF Stopping
  \* A handler that deletes the entry, or leaves it.
  <1>d. ASSUME NEW i \in Instance, NEW c \in Connection, Deleted(i, c), sock'[c] # "open",
               NEW d \in Connection, sock'[d] = "open", agents[host[d]] = d
        PROVE  agents'[host[d]] = d \/ d \in struck'
    BY <1>d, <1>t DEF Deleted
  <1>c. /\ \A S : \A c \in Connection : Closed(S)[c] = "open" => sock[c] = "open" /\ c \notin S
        /\ \A S : \A c \in Connection : c \notin S => Closed(S)[c] = sock[c]
    BY <1>t, ClosedSockets
  \* A step of the handlers that await replies.
  <1>h. ASSUME UNCHANGED <<claimed, presence, host>>, struck \subseteq struck',
               NEW i \in Instance, NEW H, NEW Y, RepliesAfter(i, H, Y),
               \A h \in H : h.for # "shutdown", \A y \in Y : y.for # "attach",
               \A c \in Connection :
                 /\ frame'[c] = "new" => frame[c] = "new"
                 /\ frame'[c] = "claim" => frame[c] = "claim"
                 /\ frame'[c] \in Served =>
                      \/ frame[c] \in Served
                      \/ frame[c] = "claim" /\ Len(claimed) > 0 /\ (sock'[c] = "open" => agents'[host[c]] = c)
                 /\ sock'[c] = "open" => sock[c] = "open"
                 /\ sock'[c] = "open" /\ agents[host[c]] = c => agents'[host[c]] = c \/ c \in struck'
        PROVE  RouteInv'
    <2>1. \A j \in Instance : \A r \in Range(replies'[j]) : r.for = "attach" => r \in Range(replies[j])
      BY <1>h DEF RepliesAfter
    <2>2. \A c \in Connection : sock[c] = "open" /\ Stopping(c) => Stopping(c)'
      BY <1>h, <1>s
    <2> QED
      BY <1>g, <1>h, <2>1, <2>2
  \* ... that moves no frame and no entry.
  <1>q. ASSUME UNCHANGED <<claimed, presence, host, frame, agents, struck, replies>>,
               \A c \in Connection : sock'[c] = "open" => sock[c] = "open" \/ frame[c] = "new"
        PROVE  RouteInv'
    BY <1>g, <1>q, <1>w
  \* The frames that an answer moves.
  <1>f. ASSUME NEW m \in Message, FrameAfter(m), m[1] = "welcome" => frame[m[2]] = "welcome"
        PROVE  \A c \in Connection :
                 /\ frame'[c] = "new" => frame[c] = "new"
                 /\ frame'[c] = "claim" => frame[c] = "claim"
                 /\ frame'[c] \in Served => frame[c] \in Served
    <2>1. m[1] = "welcome" => m[2] \in Connection
      BY MessageKinds
    <2> QED
      BY <1>f, <1>t, <2>1 DEF FrameAfter, Served
  <1>n. ASSUME NEW i \in Instance, NEW c \in Connection, Enters(i, c), host[c] = i
        PROVE  /\ struck \subseteq struck' /\ agents'[i] = c
               /\ \A d \in Connection : sock'[d] = "open" => sock[d] = "open"
               /\ \A d \in Connection : sock'[d] = "open" /\ agents[host[d]] = d =>
                    agents'[host[d]] = d \/ d \in struck'
    BY <1>n, <1>t, <1>c DEF Enters
  <1>1. ASSUME NEW i \in Instance, NEW e, LoseEffect(i, e) \/ HearEffect(i, e) PROVE RouteInv'
    BY <1>q, <1>1 DEF LoseEffect, HearEffect
  <1>2. ASSUME Stutter PROVE RouteInv'
    BY <1>q, <1>2 DEF Stutter
  <1>3. ASSUME NEW c \in Connection, CloseOverEffect(c) PROVE RouteInv'
    BY <1>q, <1>3 DEF CloseOverEffect
  <1>4. ASSUME NEW i \in Instance, NEW e, NEW Y, RejectEffect(i, e, Y) PROVE RouteInv'
    BY <1>q, <1>4 DEF RejectEffect
  <1>5. ASSUME NEW m \in Message, TimeoutEffect(m) PROVE RouteInv'
    BY <1>q, <1>5 DEF TimeoutEffect
  <1>6. ASSUME NEW c \in Connection, NEW i \in Instance, DialEffect(c, i) PROVE RouteInv'
    <2>1. /\ UNCHANGED <<claimed, presence, frame, agents, struck, replies>>
          /\ frame[c] = "new" /\ sock[c] # "open"
      BY <1>b, <1>6 DEF DialEffect, Base, ConnInv
    <2>2. \A d \in Connection : d # c => sock'[d] = sock[d] /\ host'[d] = host[d]
      BY <1>6 DEF DialEffect
    <2>3. \A d \in Connection : d # c /\ Stopping(d) => Stopping(d)'
      BY <1>w, <2>1, <2>2
    <2> QED
      BY <1>g, <2>1, <2>2, <2>3
  <1>7. ASSUME NEW c \in Connection, NEW state \in {"cut", "closed"}, DropEffect(c, state)
        PROVE  RouteInv'
    BY <1>q, <1>t, <1>7 DEF DropEffect, SocketType
  <1>8. ASSUME NEW i \in Instance, NEW e, ExpelEffect(i, e) PROVE RouteInv'
    BY <1>q, <1>c, <1>8 DEF ExpelEffect
  <1>9. ASSUME LapseEffect PROVE RouteInv'
    <2>1. ASSUME NEW c \in Connection, sock[c] = "open", presence = c, frame[c] \in Served \cup {"claim"}
          PROVE  c \in struck
      <3>1. agents[host[c]] # c /\ frame[c] \notin {"claim", "publish", "welcome"}
        BY <1>9, <2>1 DEF LapseEffect, Heard
      <3> QED
        BY <2>1, <3>1 DEF RouteInv, EntryInv
    <2>2. OwnerInv'
      <3>1. \A c : LastClaim(c)' = LastClaim(c) /\ (Stopping(c) => Stopping(c)')
        BY <1>w, <1>9 DEF LapseEffect, LastClaim
      <3> QED
        BY <1>9, <2>1, <3>1 DEF LapseEffect, RouteInv, OwnerInv
    <2>3. EntryInv' /\ AnsweredInv'
      BY <1>9 DEF LapseEffect, RouteInv, EntryInv, AnsweredInv, LastClaim
    <2> QED
      BY <1>b, <2>2, <2>3 DEF RouteInv
  <1>10. ASSUME NEW c \in Connection, NEW y, AttachEffect(c, y) PROVE RouteInv'
    <2>0. /\ frame[c] = "new" /\ host[c] \in Instance /\ frame' = [frame EXCEPT ![c] = "claim"]
          /\ UNCHANGED <<sock, host, agents, struck>>
          /\ UNCHANGED <<presence, claimed>> \/ (presence' = c /\ claimed' = Append(claimed, c))
          /\ y.ok => claimed' = Append(claimed, c)
          /\ RepliesAfter(host[c], {}, {y})
      BY <1>10 DEF AttachEffect
    <2>1. ~ LastClaim(c) /\ frame'[c] = "claim" /\ \A d \in Connection : d # c => frame'[d] = frame[d]
      BY <1>t, <2>0 DEF RouteInv, AnsweredInv
    <2>2. \A d \in Connection : sock[d] = "open" /\ Stopping(d) => Stopping(d)'
      BY <1>s, <2>0
    <2>3. \A j \in Instance : \A r \in Range(replies'[j]) : r \in Range(replies[j]) \/ r = y
      BY <2>0 DEF RepliesAfter
    <2>4. claimed' = Append(claimed, c) => Len(claimed') > 0 /\ claimed'[Len(claimed')] = c
      BY <1>t
    <2>5. CASE UNCHANGED <<presence, claimed>>
      BY <1>g, <2>0, <2>1, <2>2, <2>3, <2>4, <2>5 DEF Served
    <2>6. CASE presence' = c /\ claimed' = Append(claimed, c)
      <3>1. EntryInv'
        BY <2>0, <2>1 DEF RouteInv, EntryInv, Served
      <3>2. OwnerInv'
        BY <2>4, <2>6 DEF OwnerInv, LastClaim
      <3>3. AnsweredInv'
        BY <2>1, <2>4, <2>6 DEF AnsweredInv, LastClaim
      <3> QED
        BY <1>b, <3>1, <3>2, <3>3 DEF RouteInv
    <2> QED
      BY <2>0, <2>5, <2>6
  <1>11. ASSUME NEW c \in Connection, NEW y, HeartbeatEffect(c, y) PROVE RouteInv'
    <2> DEFINE H == {}
               Z == {y}
    <2>z. RepliesAfter(host[c], H, Z) /\ (\A x \in H : x.for # "shutdown") /\ \A x \in Z : x.for # "attach"
      BY <1>11 DEF HeartbeatEffect, Pledge, Handles
    <2> HIDE DEF H, Z
    <2>1. /\ UNCHANGED <<claimed, presence, host, struck, sock, agents>> /\ host[c] \in Instance
          /\ \A d \in Connection : frame'[d] = frame[d] \/ (frame'[d] = "touch" /\ frame[d] = "idle")
      BY <1>t, <1>11 DEF HeartbeatEffect
    <2> QED
      BY <1>h, <2>z, <2>1 DEF Served
  <1>12. ASSUME NEW c \in Connection, NEW y, CloseEffect(c, y) PROVE RouteInv'
    <2> DEFINE H == {}
               Z == {y}
    <2>z. RepliesAfter(host[c], H, Z) /\ (\A x \in H : x.for # "shutdown") /\ \A x \in Z : x.for # "attach"
      BY <1>12 DEF CloseEffect, Pledge, Handles
    <2> HIDE DEF H, Z
    <2>1. /\ UNCHANGED <<claimed, host, struck, sock, agents, frame>> /\ host[c] \in Instance
          /\ sock[c] = "closed" /\ (presence' = presence \/ presence = c)
      BY <1>12 DEF CloseEffect
    <2>2. \A d \in Connection : sock[d] = "open" /\ Stopping(d) => Stopping(d)'
      BY <1>s, <2>z, <2>1
    <2>3. \A j \in Instance : \A r \in Range(replies'[j]) : r.for = "attach" => r \in Range(replies[j])
      BY <2>z DEF RepliesAfter
    <2> QED
      BY <1>g, <2>1, <2>2, <2>3
  <1>13. ASSUME NEW i \in Instance, NEW m \in Message, NEW y, SendEffect(i, m, y) PROVE RouteInv'
    <2> DEFINE H == {}
               Z == {y}
    <2>z. RepliesAfter(i, H, Z) /\ (\A x \in H : x.for # "shutdown") /\ \A x \in Z : x.for # "attach"
      BY <1>13 DEF SendEffect, Pledge, Handles
    <2> HIDE DEF H, Z
    <2>1. UNCHANGED <<claimed, presence, host, struck, sock, agents, frame>>
      BY <1>13 DEF SendEffect
    <2> QED
      BY <1>h, <2>z, <2>1
  <1>14. ASSUME NEW i \in Instance, NEW e, NEW y, DeliverEffect(i, e, y) PROVE RouteInv'
    <2> DEFINE H == {}
               Z == {y}
    <2>z. RepliesAfter(i, H, Z) /\ (\A x \in H : x.for # "shutdown") /\ \A x \in Z : x.for # "attach"
      BY <1>14 DEF DeliverEffect, Pledge, Handles
    <2> HIDE DEF H, Z
    <2>1. UNCHANGED <<claimed, presence, host, struck, sock, agents, frame>>
      BY <1>14 DEF DeliverEffect
    <2> QED
      BY <1>h, <2>z, <2>1
  <1>15. ASSUME NEW i \in Instance, NEW y, CloseDeviceEffect(i, y) PROVE RouteInv'
    <2> DEFINE H == {}
               Z == {y}
    <2>z. RepliesAfter(i, H, Z) /\ (\A x \in H : x.for # "shutdown") /\ \A x \in Z : x.for # "attach"
      BY <1>15 DEF CloseDeviceEffect, Pledge, Handles
    <2> HIDE DEF H, Z
    <2>1. UNCHANGED <<claimed, presence, host, struck, sock, agents, frame>>
      BY <1>15 DEF CloseDeviceEffect
    <2> QED
      BY <1>h, <2>z, <2>1
  <1>16. ASSUME NEW m \in Message, NEW y, ReaskEffect(m, y) PROVE RouteInv'
    <2> DEFINE H == {}
               Z == {y}
    <2>z. RepliesAfter(asks[m].at, H, Z) /\ (\A x \in H : x.for # "shutdown") /\ \A x \in Z : x.for # "attach"
      BY <1>16 DEF ReaskEffect, Pledge, Handles
    <2> HIDE DEF H, Z
    <2>1. UNCHANGED <<claimed, presence, host, struck, sock, agents, frame>> /\ asks[m].at \in Instance
      BY <1>16 DEF ReaskEffect
    <2> QED
      BY <1>h, <2>z, <2>1
  <1>17. ASSUME NEW i \in Instance, NEW h, NEW ack, PublishedEffect(i, h, ack) PROVE RouteInv'
    <2> DEFINE H == {h}
               Z == {}
    <2>z. RepliesAfter(i, H, Z) /\ (\A x \in H : x.for # "shutdown") /\ \A x \in Z : x.for # "attach"
      BY <1>17 DEF PublishedEffect, Pledge, Handles
    <2> HIDE DEF H, Z
    <2>1. UNCHANGED <<claimed, presence, host, struck, sock, agents, frame>>
      BY <1>17 DEF PublishedEffect
    <2> QED
      BY <1>h, <2>z, <2>1
  <1>18. ASSUME NEW i \in Instance, NEW h, NEW k, NEW y,
               \/ LocalEffect(i, h, k, y)
                 \/ MissEffect(i, h, k, y)
        PROVE  RouteInv'
    <2> DEFINE H == {h}
               Z == {y}
    <2>z. RepliesAfter(i, H, Z) /\ (\A x \in H : x.for # "shutdown") /\ \A x \in Z : x.for # "attach"
      BY <1>18 DEF LocalEffect, MissEffect, Pledge, Handles, Tries
    <2> HIDE DEF H, Z
    <2>1. UNCHANGED <<claimed, presence, host, struck, sock, agents, frame>>
      BY <1>18 DEF LocalEffect, MissEffect, Tries
    <2> QED
      BY <1>h, <2>z, <2>1
  <1>19. ASSUME NEW i \in Instance, NEW h, NEW k, NEW y, NEW Y, RemoteEffect(i, h, k, y, Y)
        PROVE  RouteInv'
    <2> DEFINE H == {h}
               Z == {y}
    <2>z. RepliesAfter(i, H, Z) /\ (\A x \in H : x.for # "shutdown") /\ \A x \in Z : x.for # "attach"
      BY <1>19 DEF RemoteEffect, Pledge, Handles, Tries
    <2> HIDE DEF H, Z
    <2>1. UNCHANGED <<claimed, presence, host, struck, sock, agents, frame>>
      BY <1>19 DEF RemoteEffect, Tries
    <2> QED
      BY <1>h, <2>z, <2>1
  <1>20. ASSUME NEW i \in Instance, NEW h, NEW Y, CloseOwnerEffect(i, h, Y) PROVE RouteInv'
    <2> DEFINE H == {h}
               Z == {}
    <2>z. RepliesAfter(i, H, Z) /\ (\A x \in H : x.for # "shutdown") /\ \A x \in Z : x.for # "attach"
      BY <1>20 DEF CloseOwnerEffect, Pledge, Handles
    <2> HIDE DEF H, Z
    <2>1. /\ UNCHANGED <<claimed, presence, host, struck, agents, frame>>
          /\ \A c \in Connection : sock'[c] = "open" => sock[c] = "open"
      BY <1>c, <1>20 DEF CloseOwnerEffect
    <2> QED
      BY <1>h, <2>z, <2>1
  <1>21. ASSUME NEW i \in Instance, NEW h, RefuseEffect(i, h) PROVE RouteInv'
    <2> DEFINE H == {h}
               Z == {}
    <2>z. RepliesAfter(i, H, Z) /\ (\A x \in H : x.for # "shutdown") /\ \A x \in Z : x.for # "attach"
      BY <1>21 DEF RefuseEffect, Pledge, Handles
    <2> HIDE DEF H, Z
    <2>1. /\ UNCHANGED <<claimed, presence, host, struck, agents>> /\ h.id \in Connection
          /\ \A c \in Connection : sock'[c] = "open" => sock[c] = "open"
          /\ frame' = [frame EXCEPT ![h.id] = "refused"]
      BY <1>b, <1>c, <1>21, HandledFrame DEF RefuseEffect, Greeting
    <2>2. \A c \in Connection : frame'[c] = frame[c] \/ frame'[c] = "refused"
      BY <1>t, <2>1
    <2> QED
      BY <1>h, <2>z, <2>1, <2>2 DEF Served
  <1>22. ASSUME NEW i \in Instance, NEW h, BeatEffect(i, h) PROVE RouteInv'
    <2> DEFINE H == {h}
               Z == {}
    <2>z. RepliesAfter(i, H, Z) /\ (\A x \in H : x.for # "shutdown") /\ \A x \in Z : x.for # "attach"
      BY <1>22 DEF BeatEffect, Pledge, Handles
    <2> HIDE DEF H, Z
    <2>1. h.id \in Connection /\ frame[h.id] = "touch"
      BY <1>b, <1>22, HandledFrame DEF BeatEffect, Greeting, FrameOf
    <2>2. /\ UNCHANGED <<claimed, presence, host>>
          /\ UNCHANGED <<agents, struck, sock>> \/ Strikes(i, h.id)
          /\ \A c \in Connection : frame'[c] = frame[c] \/ (frame'[c] = "idle" /\ frame[c] = "touch")
      BY <1>t, <1>22, <2>1 DEF BeatEffect
    <2>3. ASSUME Strikes(i, h.id) PROVE struck \subseteq struck' /\ sock'[h.id] # "open"
      <3>1. struck \subseteq struck'
        BY <2>3 DEF Strikes, Deleted
      <3>2. sock' = Closed({h.id})
        BY <2>3 DEF Strikes
      <3>3. h.id \in {h.id}
        OBVIOUS
      <3>4. sock'[h.id] # "open"
        BY <1>c, <2>1, <3>2, <3>3
      <3> QED
        BY <3>1, <3>4
    <2>4. /\ struck \subseteq struck'
          /\ \A c \in Connection : sock'[c] = "open" => sock[c] = "open"
          /\ \A c \in Connection : sock'[c] = "open" /\ agents[host[c]] = c =>
               agents'[host[c]] = c \/ c \in struck'
      BY <1>c, <1>d, <2>1, <2>2, <2>3 DEF Strikes
    <2> QED
      BY <1>h, <2>z, <2>2, <2>4 DEF Served
  <1>23. ASSUME NEW i \in Instance, NEW h, DetachEffect(i, h) PROVE RouteInv'
    <2> DEFINE H == {h}
               Z == {}
    <2>z. RepliesAfter(i, H, Z) /\ (\A x \in H : x.for # "shutdown") /\ \A x \in Z : x.for # "attach"
      BY <1>23 DEF DetachEffect, Pledge, Handles
    <2> HIDE DEF H, Z
    <2>1. h.id \in Connection /\ sock[h.id] = "closed"
      BY <1>23, HandledType DEF DetachEffect, Handles, Awaited
    <2>2. /\ UNCHANGED <<claimed, presence, host, frame, sock>>
          /\ UNCHANGED <<agents, struck>> \/ Deleted(i, h.id)
      BY <1>23 DEF DetachEffect
    <2>3. struck \subseteq struck'
      BY <2>2 DEF Deleted
    <2>4. \A c \in Connection : sock'[c] = "open" /\ agents[host[c]] = c =>
            agents'[host[c]] = c \/ c \in struck'
      BY <1>d, <2>1, <2>2
    <2> QED
      BY <1>h, <2>z, <2>2, <2>3, <2>4
  <1>24. ASSUME NEW i \in Instance, NEW h, GiveUpEffect(i, h) PROVE RouteInv'
    <2> DEFINE H == {h}
               Z == {}
    <2>z. RepliesAfter(i, H, Z) /\ (\A x \in H : x.for # "shutdown") /\ \A x \in Z : x.for # "attach"
      BY <1>24 DEF GiveUpEffect, Pledge, Handles
    <2> HIDE DEF H, Z
    <2>1. h.id \in Message /\ (h.id[1] = "welcome" => frame[h.id[2]] = "welcome")
      BY <1>b, <1>24, HandledFrame DEF GiveUpEffect, Asking
    <2>2. /\ UNCHANGED <<claimed, presence, host, struck, agents>> /\ FrameAfter(h.id)
          /\ \A c \in Connection : sock'[c] = "open" => sock[c] = "open"
      BY <1>c, <1>24 DEF GiveUpEffect
    <2> QED
      BY <1>f, <1>h, <2>z, <2>1, <2>2
  <1>25. ASSUME NEW i \in Instance, NEW h, WriteEffect(i, h) PROVE RouteInv'
    <2> DEFINE H == {h}
               Z == {}
    <2>z. RepliesAfter(i, H, Z) /\ (\A x \in H : x.for # "shutdown") /\ \A x \in Z : x.for # "attach"
      BY <1>25 DEF WriteEffect, Pledge, Handles
    <2> HIDE DEF H, Z
    <2>1. h.id \in Message /\ (h.id[1] = "welcome" => frame[h.id[2]] = "welcome")
      BY <1>b, <1>25, HandledFrame DEF WriteEffect, Asking
    <2>2. UNCHANGED <<claimed, presence, host, struck, agents, sock>> /\ FrameAfter(h.id)
      BY <1>25 DEF WriteEffect
    <2> QED
      BY <1>f, <1>h, <2>z, <2>1, <2>2
  <1>26. ASSUME NEW m \in Message, AnswerEffect(m) PROVE RouteInv'
    <2>1. m[1] = "welcome" => frame[m[2]] = "welcome"
      BY <1>b, <1>26, MessageKinds DEF AnswerEffect, Base, AskInv, Busy
    <2>2. UNCHANGED <<claimed, presence, host, struck, agents, sock, replies>> /\ FrameAfter(m)
      BY <1>26 DEF AnswerEffect
    <2>3. \A c : Stopping(c) => Stopping(c)'
      BY <1>w, <2>2
    <2> QED
      BY <1>f, <1>g, <2>1, <2>2, <2>3
  <1>27. ASSUME NEW i \in Instance, NEW h, NEW y, RetryEffect(i, h, y) PROVE RouteInv'
    <2> DEFINE H == {h}
               Z == {y}
    <2>z. RepliesAfter(i, H, Z) /\ (\A x \in H : x.for # "shutdown") /\ \A x \in Z : x.for # "attach"
      BY <1>27 DEF RetryEffect, Pledge, Handles
    <2> HIDE DEF H, Z
    <2>1. h.conn \in Connection
      BY <1>27, HandledType DEF RetryEffect, Handles, Awaited
    <2>2. /\ UNCHANGED <<claimed, presence, host, frame>>
          /\ UNCHANGED <<agents, struck, sock>> \/ Strikes(i, h.conn)
      BY <1>27 DEF RetryEffect
    <2>3. Strikes(i, h.conn) => struck \subseteq struck' /\ sock'[h.conn] # "open"
      BY <1>c, <2>1 DEF Strikes, Deleted
    <2>4. /\ struck \subseteq struck'
          /\ \A c \in Connection : sock'[c] = "open" => sock[c] = "open"
          /\ \A c \in Connection : sock'[c] = "open" /\ agents[host[c]] = c =>
               agents'[host[c]] = c \/ c \in struck'
      BY <1>c, <1>d, <2>1, <2>2, <2>3 DEF Strikes
    <2> QED
      BY <1>h, <2>z, <2>2, <2>4
  <1>28. ASSUME NEW i \in Instance, NEW h, NEW r, NEW Y, RelayedEffect(i, h, r, Y) PROVE RouteInv'
    <2> DEFINE H == {h}
               Z == {}
    <2>z. RepliesAfter(i, H, Z) /\ (\A x \in H : x.for # "shutdown") /\ \A x \in Z : x.for # "attach"
      BY <1>28 DEF RelayedEffect, Pledge, Handles
    <2> HIDE DEF H, Z
    <2>1. h.conn \in Connection
      BY <1>28, HandledType, EnvelopeType DEF RelayedEffect, Handles, Awaited
    <2>2. /\ UNCHANGED <<claimed, presence, host, frame>>
          /\ UNCHANGED <<agents, struck, sock>> \/ Strikes(i, h.conn)
      BY <1>28 DEF RelayedEffect
    <2>3. Strikes(i, h.conn) => struck \subseteq struck' /\ sock'[h.conn] # "open"
      BY <1>c, <2>1 DEF Strikes, Deleted
    <2>4. /\ struck \subseteq struck'
          /\ \A c \in Connection : sock'[c] = "open" => sock[c] = "open"
          /\ \A c \in Connection : sock'[c] = "open" /\ agents[host[c]] = c =>
               agents'[host[c]] = c \/ c \in struck'
      BY <1>c, <1>d, <2>1, <2>2, <2>3 DEF Strikes
    <2> QED
      BY <1>h, <2>z, <2>2, <2>4
  <1>29. ASSUME NEW i \in Instance, NEW h, NEW y, NEW Y, ReplaceEffect(i, h, y, Y) PROVE RouteInv'
    <2> DEFINE H == {h}
               Z == {y}
    <2>z. RepliesAfter(i, H, Z) /\ (\A x \in H : x.for # "shutdown") /\ \A x \in Z : x.for # "attach"
      BY <1>29 DEF ReplaceEffect, Pledge, Handles
    <2> HIDE DEF H, Z
    <2>1. h.id \in Connection /\ host[h.id] = i /\ frame[h.id] = "claim"
      BY <1>b, <1>29, HandledFrame DEF ReplaceEffect, Greeting, FrameOf
    <2>2. Len(claimed) > 0
      BY <1>29 DEF ReplaceEffect, Handles, RouteInv, AnsweredInv
    <2>3. /\ UNCHANGED <<claimed, presence, host>> /\ Enters(i, h.id)
          /\ \A c \in Connection : frame'[c] = frame[c] \/ (c = h.id /\ frame'[c] = "publish")
      BY <1>t, <1>29, <2>1 DEF ReplaceEffect
    <2>4. /\ struck \subseteq struck' /\ agents'[i] = h.id
          /\ \A d \in Connection : sock'[d] = "open" => sock[d] = "open"
          /\ \A d \in Connection : sock'[d] = "open" /\ agents[host[d]] = d =>
               agents'[host[d]] = d \/ d \in struck'
      BY <1>n, <2>1, <2>3
    <2> QED
      BY <1>h, <2>z, <2>1, <2>2, <2>3, <2>4
  <1>30. ASSUME NEW i \in Instance, NEW h, NEW y, WelcomeEffect(i, h, y) PROVE RouteInv'
    <2> DEFINE H == {h}
               Z == {y}
    <2>z. RepliesAfter(i, H, Z) /\ (\A x \in H : x.for # "shutdown") /\ \A x \in Z : x.for # "attach"
      BY <1>30 DEF WelcomeEffect, Pledge, Handles
    <2> HIDE DEF H, Z
    <2>1. h.id \in Connection /\ host[h.id] = i
      BY <1>b, <1>30, HandledFrame DEF WelcomeEffect, Greeting
    <2>2. \A c \in Connection : frame'[c] = frame[c] \/ (c = h.id /\ frame'[c] = "welcome")
      BY <1>t, <1>30, <2>1 DEF WelcomeEffect
    <2>3. UNCHANGED <<claimed, presence, host>>
      BY <1>30 DEF WelcomeEffect
    <2>4. CASE Handles(i, h, "attach") /\ h.ok /\ Enters(i, h.id)
      <3>1. frame[h.id] = "claim" /\ Len(claimed) > 0
        BY <1>b, <2>4, HandledFrame DEF Greeting, FrameOf, Handles, RouteInv, AnsweredInv
      <3>2. /\ struck \subseteq struck' /\ agents'[i] = h.id
            /\ \A d \in Connection : sock'[d] = "open" => sock[d] = "open"
            /\ \A d \in Connection : sock'[d] = "open" /\ agents[host[d]] = d =>
                 agents'[host[d]] = d \/ d \in struck'
        BY <1>n, <2>1, <2>4
      <3> QED
        BY <1>h, <2>z, <2>1, <2>2, <2>3, <3>1, <3>2
    <2>5. CASE Handles(i, h, "attached") /\ UNCHANGED <<agents, sock, struck, prior>>
      <3>1. frame[h.id] = "publish"
        BY <1>b, <2>5, HandledFrame DEF Greeting, FrameOf
      <3> QED
        BY <1>h, <2>z, <2>1, <2>2, <2>3, <2>5, <3>1 DEF Served
    <2> QED
      BY <1>30, <2>4, <2>5 DEF WelcomeEffect
  <1>31. ASSUME NEW i \in Instance, NEW Y, StopEffect(i, Y) PROVE RouteInv'
    <2>1. UNCHANGED <<claimed, host, struck, sock, agents, frame>> /\ RepliesAfter(i, {}, Y)
      BY <1>31 DEF StopEffect
    <2>2. \A c \in Connection : sock[c] = "open" /\ Stopping(c) => Stopping(c)'
      BY <1>s, <2>1
    <2>3. \A y \in Y : y.for = "shutdown" /\ y \in Range(replies'[i])
      BY <1>31 DEF StopEffect, Pledge, RepliesAfter
    <2>4. \A j \in Instance : \A r \in Range(replies'[j]) : r.for = "attach" => r \in Range(replies[j])
      BY <2>1, <2>3 DEF RepliesAfter
    <2>5. ASSUME NEW c \in Connection, presence = c PROVE presence' = c \/ Stopping(c)'
      <3>1. presence' = presence \/ (agents[i] = c /\ \E y : y \in Y)
        BY <1>31, <2>5 DEF StopEffect
      <3>2. agents[i] = c => host'[c] = i
        BY <1>b, <1>t, <2>1 DEF Base, ConnInv
      <3> QED
        BY <2>3, <2>5, <3>1, <3>2 DEF Stopping
    <2> QED
      BY <1>g, <2>1, <2>2, <2>4, <2>5
  <1>32. ASSUME NEW i \in Instance, HaltEffect(i) PROVE RouteInv'
    <2>1. /\ UNCHANGED <<claimed, host, presence, struck>>
          /\ sock' = Closed({c \in Connection : host[c] = i})
          /\ agents' = [agents EXCEPT ![i] = None]
          /\ Range(replies'[i]) = {} /\ \A j \in Instance : j # i => replies'[j] = replies[j]
          /\ \A c \in Connection : frame'[c] = IF host[c] = i THEN "refused" ELSE frame[c]
      BY <1>32 DEF HaltEffect
    <2>2. \A c \in Connection : sock'[c] = "open" => sock[c] = "open" /\ host[c] # i /\ host[c] \in Instance
      BY <1>c, <1>i, <2>1
    <2>3. \A c \in Connection : sock'[c] = "open" => agents'[host[c]] = agents[host[c]]
      BY <1>t, <2>1, <2>2
    <2>4. \A c \in Connection : sock'[c] = "open" /\ Stopping(c) => Stopping(c)'
      BY <2>1, <2>2 DEF Stopping
    <2>5. \A j \in Instance : \A r \in Range(replies'[j]) : r \in Range(replies[j])
      BY <2>1
    <2>6. UNCHANGED <<claimed, host, presence, struck>> /\ "refused" \notin Served
      BY <2>1 DEF Served
    <2>7. \A c \in Connection : frame'[c] = frame[c] \/ frame'[c] = "refused"
      BY <2>1
    <2> QED
      BY <1>g, <2>2, <2>3, <2>4, <2>5, <2>6, <2>7
  <1> QED
    BY <1>1, <1>2, <1>3, <1>4, <1>5, <1>6, <1>7, <1>8, <1>9, <1>10, <1>11, <1>12, <1>13, <1>14,
       <1>15, <1>16, <1>17, <1>18, <1>19, <1>20, <1>21, <1>22, <1>23, <1>24, <1>25, <1>26,
       <1>27, <1>28, <1>29, <1>30, <1>31, <1>32 DEF Effect

\* RoutableUnlessStruck in every reachable state: when nothing is under way, the
\* agent's accepted connection is the entry of its instance, and the owner of the
\* presence key unless another one has claimed it since; the exception are the
\* connections whose entry another connection's handler removed.
THEOREM RouteCorrect == Spec => []RoutableUnlessStruck
  <1>1. Init => RouteInv
    <2> SUFFICES ASSUME Init PROVE RouteInv
      OBVIOUS
    <2>1. \A i \in Instance : Range(replies[i]) = {}
      BY RangeOfNothing DEF Init
    <2>2. Len(claimed) = 0 /\ presence = None /\ (\A c \in Connection : frame[c] = "new")
          /\ \A m \in Message : since[m] = 0
      BY DEF Init
    <2> QED
      BY <2>1, <2>2 DEF RouteInv, ClaimInv, EntryInv, OwnerInv, AnsweredInv, LastClaim, Served
  <1>2. HubInv /\ RouteInv /\ [Next]_vars => RouteInv'
    BY StepEffect, RouteStep DEF HubInv
  <1>3. HubInv /\ RouteInv => RoutableUnlessStruck
    <2> SUFFICES ASSUME HubInv, RouteInv, Quiet, NEW c \in Connection, Greeted(c), c \notin struck
                 PROVE  Routable(c)
      BY DEF RoutableUnlessStruck
    <2>1. frame[c] \in Served /\ sock[c] = "open" /\ host[c] \in Instance
      BY DEF Greeted, Served, HubInv, Base, ConnInv
    <2>2. agents[host[c]] = c /\ Len(claimed) > 0
      BY <2>1 DEF RouteInv, EntryInv, AnsweredInv
    <2>3. ~ Stopping(c)
      BY <2>1, RangeOfNothing DEF Stopping, Quiet
    <2>4. presence = c \/ claimed[Len(claimed)] # c
      BY <2>1, <2>2, <2>3 DEF RouteInv, OwnerInv, LastClaim
    <2>5. claimed # <<>>
      BY <2>2
    <2> QED
      BY <2>2, <2>4, <2>5 DEF Routable
  <1> QED
    BY <1>1, <1>2, <1>3, HubCorrect, PTL DEF Spec
=============================================================================
