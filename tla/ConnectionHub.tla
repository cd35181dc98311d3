--------------------------- MODULE ConnectionHub ---------------------------
(***************************************************************************)
(* The ConnectionHub of several server instances that share a Redis: the   *)
(* connections of one device's agent, the presence key that names the      *)
(* owner, the relay channel, sendToAgent with its retry and its            *)
(* acknowledgements, closeDevice, stale connections and shutdown.          *)
(*                                                                         *)
(* A handler runs to its next await.  An instance has one Redis            *)
(* connection: replies are handled in the order the commands were issued.  *)
(* A command is executed when it is issued and its reply handled later:    *)
(* what other instances do between issue and execution commutes with the   *)
(* handlers of this one, whose own later commands cannot overtake it.      *)
(*                                                                         *)
(* The agent holds one connection at a time and dials again when it has    *)
(* lost the last; the server may learn of the loss much later.             *)
(***************************************************************************)
EXTENDS Naturals, Sequences, Functions

CONSTANTS
  Instance,        \* server instances
  MaxConnections,  \* bound: connections the agent opens
  Command,         \* messages the routes send to the agent
  MaxFailures,     \* bound: Redis commands that fail
  MaxStops,        \* bound: crashes and shutdowns of instances
  MaxCloses        \* bound: calls of closeDevice

ASSUME HubAssumption ==
  /\ Instance # {}
  /\ 0 \notin Instance
  /\ MaxConnections \in Nat
  /\ MaxFailures \in Nat
  /\ MaxStops \in Nat
  /\ MaxCloses \in Nat

Connection == 1..MaxConnections
None == 0

\* agent.welcome is sent with sendToAgent as the commands are.
Welcome(c) == <<"welcome", c>>
Message == {Welcome(c) : c \in Connection} \cup {<<"command", m>> : m \in Command}

VARIABLES
  \* sockets of the agent, in the order they were dialled
  sock,      \* "unused", "open", "cut" (the agent is gone, the server has not
             \* noticed) or "closed"
  host,      \* the instance a connection reached
  frame,     \* the handler of the connection's frames: "new", "claim", "publish",
             \* "welcome", "idle", "touch" or "refused"; helloReceived from "welcome" on
  closing,   \* the close event: "no", "detach" (the release is awaited) or "over"
  prior,     \* existing, as attachAgent read it before the claim
  \* the instances
  up,        \* "up", "stopping" (shuttingDown) or "down"
  agents,    \* ConnectionHub.agents, the entry of the device
  asks,      \* [Message -> the state of its sendToAgent]
  \* Redis
  presence,  \* the value of the presence key
  replies,   \* [Instance -> Seq]: replies of Redis not yet handled
  inbox,     \* [Instance -> Seq]: relay envelopes published to it
  \* history
  written,   \* [Message -> Seq(Connection)]: the sockets it was written to
  claimed,   \* the connections in the order of their claims
  since,     \* [Message -> Nat]: claims made before it was sent
  doubtful,  \* messages whose acknowledgement timed out or was given up
  struck,    \* connections whose entry another connection's handler deleted or
             \* overwrote, and left open
  \* bounds
  failures, stops, closes

socketVars   == <<sock, host, frame, closing, prior>>
instanceVars == <<up, agents, asks>>
redisVars    == <<presence, replies, inbox>>
historyVars  == <<written, claimed, since, doubtful, struck>>
boundVars    == <<failures, stops, closes>>
vars == <<socketVars, instanceVars, redisVars, historyVars, boundVars>>

-----------------------------------------------------------------------------
(* Calls of sendToAgent, and the relay's envelopes.                        *)

Ask == [pc : {"idle", "owner", "local", "publish", "wait", "again", "sent", "unsent", "lost"},
        at : Instance \cup {None}, owner : Connection \cup {None},
        attempt : 0..1, ack : {"open", "sent", "unsent"}]

Envelope ==
  [kind : {"agent.send"}, to : Instance, from : Instance, conn : Connection,
   msg : Message, attempt : 0..1]
    \cup [kind : {"agent.close"}, to : Instance, conn : Connection]
    \cup [kind : {"relay.ack"}, to : Instance, msg : Message, attempt : 0..1,
          ack : {"sent", "unsent"}]

\* A reply of Redis: what awaits it, and for which connection, message or envelope.
Replies ==
  LET Awaited(for, id) == [for : for, id : id, ok : BOOLEAN, conn : Connection \cup {None},
                           val : Connection \cup {None}]
  IN Awaited({"attach", "attached", "heartbeat", "detach"}, Connection)
       \cup Awaited({"owner", "again", "local", "publish"}, Message)
       \cup Awaited({"relay"}, Envelope)
       \cup Awaited({"close", "shutdown"}, {None})

SocketType ==
  /\ sock \in [Connection -> {"unused", "open", "cut", "closed"}]
  /\ host \in [Connection -> Instance \cup {None}]
  /\ frame \in [Connection -> {"new", "claim", "publish", "welcome", "idle", "touch", "refused"}]
  /\ closing \in [Connection -> {"no", "detach", "over"}]
  /\ prior \in [Connection -> Connection \cup {None}]

InstanceType ==
  /\ up \in [Instance -> {"up", "stopping", "down"}]
  /\ agents \in [Instance -> Connection \cup {None}]
  /\ asks \in [Message -> Ask]

RedisType ==
  /\ presence \in Connection \cup {None}
  /\ replies \in [Instance -> Seq(Replies)]
  /\ inbox \in [Instance -> Seq(Envelope)]

HistoryType ==
  /\ written \in [Message -> Seq(Connection)]
  /\ claimed \in Seq(Connection)
  /\ since \in [Message -> Nat]
  /\ doubtful \subseteq Message
  /\ struck \subseteq Connection

\* An envelope is published to the instance that has the connection, or that asked.
Addressed ==
  \A i \in Instance : \A e \in Range(inbox[i]) :
    IF e.kind = "relay.ack" THEN asks[e.msg].at = i ELSE host[e.conn] = i

TypeOK == SocketType /\ InstanceType /\ RedisType /\ HistoryType /\ Addressed

Init ==
  /\ sock = [c \in Connection |-> "unused"]
  /\ host = [c \in Connection |-> None]
  /\ frame = [c \in Connection |-> "new"]
  /\ closing = [c \in Connection |-> "no"]
  /\ prior = [c \in Connection |-> None]
  /\ up = [i \in Instance |-> "up"]
  /\ agents = [i \in Instance |-> None]
  /\ asks = [m \in Message |->
               [pc |-> "idle", at |-> None, owner |-> None, attempt |-> 0, ack |-> "open"]]
  /\ presence = None
  /\ replies = [i \in Instance |-> <<>>]
  /\ inbox = [i \in Instance |-> <<>>]
  /\ written = [m \in Message |-> <<>>]
  /\ claimed = <<>>
  /\ since = [m \in Message |-> 0]
  /\ doubtful = {}
  /\ struck = {}
  /\ failures = 0
  /\ stops = 0
  /\ closes = 0

-----------------------------------------------------------------------------
(* Redis.                                                                  *)

Owns(c) == IF presence = c THEN c ELSE None

\* The three scripts, GET and PUBLISH: the reply's value and the presence key.
\* A touch or a release that returns 0 replies None.
Value(op, arg) ==
  CASE op \in {"claim", "get"}     -> presence
    [] op \in {"touch", "release"} -> Owns(arg)
    [] op = "publish"              -> None

\* Mutant: the claim is a SET with NX.
PresenceFirstWins(op, arg) ==
  CASE op = "claim"   -> IF presence = None THEN arg ELSE presence
    [] op = "release" -> IF Owns(arg) = arg THEN None ELSE presence
    [] OTHER          -> presence

Presence(op, arg) ==
  CASE op = "claim"   -> arg
    [] op = "release" -> IF Owns(arg) = arg THEN None ELSE presence
    [] OTHER          -> presence

Execute(op, arg, box) ==
  /\ presence' = Presence(op, arg)
  /\ claimed' = IF op = "claim" THEN Append(claimed, arg) ELSE claimed
  /\ inbox' = IF op = "publish" /\ up[arg.to] = "up"
                THEN [box EXCEPT ![arg.to] = Append(@, arg)]
                ELSE box

\* A handler of instance i, for whom rest are the replies still to be handled and
\* box the envelopes, issues a command and awaits it as "for" (and "id"); "none"
\* awaits nothing.  A command that fails may have been executed all the same.
Call(i, rest, box, op, arg, for, id) ==
  LET reply(ok) == [for |-> for, id |-> id, ok |-> ok,
                    conn |-> IF op \in {"get", "publish"} THEN None ELSE arg,
                    val |-> IF ok THEN Value(op, arg) ELSE None]
      Await(ok) == replies' = [replies EXCEPT ![i] = IF for = "none" THEN rest
                                                     ELSE Append(rest, reply(ok))]
  IN \/ /\ Execute(op, arg, box)
        /\ Await(TRUE)
        /\ UNCHANGED failures
     \/ /\ failures < MaxFailures
        /\ failures' = failures + 1
        /\ Await(FALSE)
        /\ \/ Execute(op, arg, box)
           \/ inbox' = box /\ UNCHANGED <<presence, claimed>>

NoCall(i, rest) ==
  /\ replies' = [replies EXCEPT ![i] = rest]
  /\ UNCHANGED <<presence, claimed, inbox, failures>>

\* Heartbeats come every third of the key's TTL: it lapses when its owner is
\* not heard, or not found in the map.
Heard(c) ==
  /\ sock[c] = "open"
  /\ \/ frame[c] \in {"claim", "publish", "welcome"}
     \/ agents[host[c]] = c

\* Mutant: the key has no TTL.
LapseNever == FALSE /\ UNCHANGED vars

Lapse ==
  /\ presence # None
  /\ ~ Heard(presence)
  /\ presence' = None
  /\ UNCHANGED <<socketVars, instanceVars, replies, inbox, historyVars, boundVars>>

-----------------------------------------------------------------------------
(* Shared steps of the handlers.                                           *)

Alive(c) == sock[c] \in {"open", "cut"}

\* socket.close() on each of S; the close event follows (CloseEvent).
Closed(S) == [c \in Connection |-> IF c \in S /\ Alive(c) THEN "closed" ELSE sock[c]]

SendEnvelope(i, c, m, k) ==
  [kind |-> "agent.send", to |-> host[c], from |-> i, conn |-> c, msg |-> m, attempt |-> k]

CloseEnvelope(c) == [kind |-> "agent.close", to |-> host[c], conn |-> c]

\* The handler awaiting the oldest reply of instance i goes on.
Reply(i, for) ==
  /\ replies[i] # <<>>
  /\ Head(replies[i]).for = for

Succeeded(r) == r.ok /\ r.val # None

\* agents.delete(deviceId) by a handler of connection c: whatever it holds.
Deleted(i, c) ==
  /\ agents' = [agents EXCEPT ![i] = None]
  /\ struck' = struck \cup ({agents[i]} \ {None, c})

-----------------------------------------------------------------------------
(* Connections.                                                            *)

\* The agent dials, with no connection it believes in.
Dial(i) ==
  /\ up[i] = "up"
  /\ \A c \in Connection : sock[c] # "open"
  /\ \E c \in Connection :
       /\ sock[c] = "unused"
       /\ \A d \in Connection : sock[d] = "unused" => c <= d
       /\ sock' = [sock EXCEPT ![c] = "open"]
       /\ host' = [host EXCEPT ![c] = i]
  /\ UNCHANGED <<frame, closing, prior, instanceVars, redisVars, historyVars, boundVars>>

\* The agent's end of the connection fails.
Cut(c) ==
  /\ sock[c] = "open"
  /\ sock' = [sock EXCEPT ![c] = "cut"]
  /\ UNCHANGED <<host, frame, closing, prior, instanceVars, redisVars, historyVars, boundVars>>

\* The server notices: a reset, or expireStaleConnections terminates the
\* connection whose heartbeats stopped (staleAgents).
Notice(c) ==
  /\ sock[c] = "cut"
  /\ sock' = [sock EXCEPT ![c] = "closed"]
  /\ UNCHANGED <<host, frame, closing, prior, instanceVars, redisVars, historyVars, boundVars>>

\* agent.hello: attachAgent up to the claim.
AttachAgent(c) ==
  LET i == host[c] IN
  /\ Alive(c)
  /\ frame[c] = "new"
  /\ frame' = [frame EXCEPT ![c] = "claim"]
  /\ prior' = [prior EXCEPT ![c] = agents[i]]
  /\ Call(i, replies[i], inbox, "claim", c, "attach", c)
  /\ UNCHANGED <<sock, host, closing, instanceVars, written, since, doubtful, struck, stops,
                 closes>>

\* The rest of the hello's handler: the welcome is sent through the hub.
SendWelcome(i, c, rest) ==
  /\ frame' = [frame EXCEPT ![c] = "welcome"]
  /\ asks' = [asks EXCEPT ![Welcome(c)].pc = "owner", ![Welcome(c)].at = i]
  /\ since' = [since EXCEPT ![Welcome(c)] = Len(claimed)]
  /\ Call(i, rest, inbox, "get", None, "owner", Welcome(c))

\* ... from the claim: the entry, the close of the older local connection, and
\* the close of the older connection elsewhere.  A failed claim ends the socket.
Attached(i) ==
  LET r == Head(replies[i])
      c == r.id
      rest == Tail(replies[i])
  IN
  /\ Reply(i, "attach")
  /\ prior' = [prior EXCEPT ![c] = None]
  /\ IF ~ r.ok
       THEN /\ frame' = [frame EXCEPT ![c] = "refused"]
            /\ sock' = Closed({c})
            /\ NoCall(i, rest)
            /\ UNCHANGED <<agents, struck, asks, since>>
       ELSE /\ agents' = [agents EXCEPT ![i] = c]
            /\ sock' = Closed({prior[c]})
            /\ struck' = struck \cup ({agents[i]} \ {None, c, prior[c]})
            /\ IF r.val # None /\ host[r.val] # i
                 THEN /\ frame' = [frame EXCEPT ![c] = "publish"]
                      /\ Call(i, rest, inbox, "publish", CloseEnvelope(r.val), "attached", c)
                      /\ UNCHANGED <<asks, since>>
                 ELSE SendWelcome(i, c, rest)
  /\ UNCHANGED <<host, closing, up, written, doubtful, stops, closes>>

\* ... from the publish of agent.close, which is best effort.
ClosePublished(i) ==
  /\ Reply(i, "attached")
  /\ SendWelcome(i, Head(replies[i]).id, Tail(replies[i]))
  /\ UNCHANGED <<sock, host, closing, prior, up, agents, written, doubtful, struck, stops,
                 closes>>

\* agent.heartbeat: a connection that is not the map's is ignored.
Heartbeat(c) ==
  LET i == host[c] IN
  /\ Alive(c)
  /\ frame[c] = "idle"
  /\ agents[i] = c
  /\ frame' = [frame EXCEPT ![c] = "touch"]
  /\ Call(i, replies[i], inbox, "touch", c, "heartbeat", c)
  /\ UNCHANGED <<sock, host, closing, prior, instanceVars, written, since, doubtful, struck,
                 stops, closes>>

\* Mutant: the replaced connection is forgotten and not closed.
HeartbeatTouchedSilent(i) ==
  LET r == Head(replies[i]) IN
  /\ Reply(i, "heartbeat")
  /\ frame' = [frame EXCEPT ![r.id] = "idle"]
  /\ NoCall(i, Tail(replies[i]))
  /\ IF Succeeded(r) THEN UNCHANGED <<agents, struck>> ELSE Deleted(i, r.id)
  /\ UNCHANGED <<sock, host, closing, prior, up, asks, written, since, doubtful, stops, closes>>

HeartbeatTouched(i) ==
  LET r == Head(replies[i]) IN
  /\ Reply(i, "heartbeat")
  /\ frame' = [frame EXCEPT ![r.id] = "idle"]
  /\ NoCall(i, Tail(replies[i]))
  /\ IF Succeeded(r)
       THEN UNCHANGED <<agents, struck, sock>>
       ELSE Deleted(i, r.id) /\ sock' = Closed({r.id})
  /\ UNCHANGED <<host, closing, prior, up, asks, written, since, doubtful, stops, closes>>

\* socket.on('close'): nothing when the hello was not answered yet, nothing when
\* the map has another connection; else detachAgent up to the release.
CloseEvent(c) ==
  LET i == host[c]
      detach == frame[c] \in {"welcome", "idle", "touch"} /\ agents[i] = c
  IN
  /\ sock[c] = "closed"
  /\ closing[c] = "no"
  /\ closing' = [closing EXCEPT ![c] = IF detach THEN "detach" ELSE "over"]
  /\ IF detach
       THEN Call(i, replies[i], inbox, "release", c, "detach", c)
       ELSE NoCall(i, replies[i])
  /\ UNCHANGED <<sock, host, frame, prior, instanceVars, written, since, doubtful, struck,
                 stops, closes>>

\* ... from the release.  A failed one leaves the entry where it is.
DetachAgent(i) ==
  LET r == Head(replies[i]) IN
  /\ Reply(i, "detach")
  /\ closing' = [closing EXCEPT ![r.id] = "over"]
  /\ NoCall(i, Tail(replies[i]))
  /\ IF r.ok THEN Deleted(i, r.id) ELSE UNCHANGED <<agents, struck>>
  /\ UNCHANGED <<sock, host, frame, prior, up, asks, written, since, doubtful, stops, closes>>

-----------------------------------------------------------------------------
(* sendToAgent.                                                            *)

SendToAgent(i, m) ==
  /\ m[1] = "command"
  /\ up[i] = "up"
  /\ asks[m].pc = "idle"
  /\ asks' = [asks EXCEPT ![m].pc = "owner", ![m].at = i]
  /\ since' = [since EXCEPT ![m] = Len(claimed)]
  /\ Call(i, replies[i], inbox, "get", None, "owner", m)
  /\ UNCHANGED <<socketVars, up, agents, written, doubtful, struck, stops, closes>>

\* The owner is read again after an attempt that did not send.
ReadAgain(i, m, rest) == Call(i, rest, inbox, "get", None, "again", m)

\* Attempt k to send message m to owner o, on instance i: sendToOwnedLocalAgent
\* up to the touch, or sendToRemoteAgent up to the publish.
Attempt(i, m, o, k, rest) ==
  LET At(pc) == asks' = [asks EXCEPT ![m] = [pc |-> pc, at |-> i, owner |-> o, attempt |-> k,
                                             ack |-> "open"]]
  IN \/ /\ host[o] = i
        /\ agents[i] = o
        /\ At("local")
        /\ Call(i, rest, inbox, "touch", o, "local", m)
     \/ /\ host[o] = i
        /\ agents[i] # o
        /\ At("again")
        /\ ReadAgain(i, m, rest)
     \/ /\ host[o] # i
        /\ At("publish")
        /\ Call(i, rest, inbox, "publish", SendEnvelope(i, o, m, k), "publish", m)

\* The answer to the caller.  The hello's handler throws when its welcome was
\* not sent (sock' closes it), and the socket's next frame is taken up.
Answer(m, r) ==
  /\ asks' = [asks EXCEPT ![m].pc = r, ![m].ack = "open"]
  /\ frame' = IF m[1] = "welcome" THEN [frame EXCEPT ![m[2]] = "idle"] ELSE frame

\* Mutant: the same owner is tried again.
GivesUpAfterTwo(r, m) ==
  \/ ~ Succeeded(r)
  \/ r.for = "again" /\ asks[m].attempt = 1

\* The loop ends: there is no owner, the owner is the one that was tried, or both
\* attempts were made.
GivesUp(r, m) ==
  \/ ~ Succeeded(r)
  \/ r.for = "again" /\ (r.val = asks[m].owner \/ asks[m].attempt = 1)

\* The reply to GET: the first owner, or the one read after a failed attempt.
OwnerRead(i, for) ==
  LET r == Head(replies[i])
      m == r.id
      k == IF for = "owner" THEN 0 ELSE 1
  IN
  /\ Reply(i, for)
  /\ IF GivesUp(r, m)
       THEN /\ Answer(m, "unsent")
            /\ sock' = Closed(IF m[1] = "welcome" THEN {m[2]} ELSE {})
            /\ NoCall(i, Tail(replies[i]))
       ELSE /\ Attempt(i, m, r.val, k, Tail(replies[i]))
            /\ UNCHANGED <<frame, sock>>
  /\ UNCHANGED <<host, closing, prior, up, agents, written, since, doubtful, struck, stops,
                 closes>>

\* sendToOwnedLocalAgent from the touch: the message is written when the touch
\* found the connection to be the owner and its socket is open.
Writes(r) == Succeeded(r) /\ Alive(r.conn)

\* Mutant: the message is written before the touch is awaited.
TouchedUnfenced(i, r, m) ==
  /\ written' = IF Alive(r.conn) THEN [written EXCEPT ![m] = Append(@, r.conn)] ELSE written
  /\ IF Succeeded(r)
       THEN UNCHANGED <<agents, struck, sock>>
       ELSE Deleted(i, r.conn) /\ sock' = Closed({r.conn})

Touched(i, r, m) ==
  /\ written' = IF Writes(r) THEN [written EXCEPT ![m] = Append(@, r.conn)] ELSE written
  /\ IF Succeeded(r)
       THEN UNCHANGED <<agents, struck, sock>>
       ELSE Deleted(i, r.conn) /\ sock' = Closed({r.conn})

LocalTouched(i) ==
  LET r == Head(replies[i])
      m == r.id
  IN
  /\ Reply(i, "local")
  /\ Touched(i, r, m)
  /\ IF Writes(r)
       THEN /\ Answer(m, "sent")
            /\ NoCall(i, Tail(replies[i]))
       ELSE /\ asks' = [asks EXCEPT ![m].pc = "again"]
            /\ ReadAgain(i, m, Tail(replies[i]))
            /\ UNCHANGED frame
  /\ UNCHANGED <<host, closing, prior, up, since, doubtful, stops, closes>>

\* sendToRemoteAgent: the promise of the acknowledgement is settled once, by the
\* relay.ack, the timeout, a failed publish or the shutdown.
Pending(m) == asks[m].pc \in {"publish", "wait"} /\ asks[m].ack = "open"

SendPublished(i) ==
  LET r == Head(replies[i])
      m == r.id
      broken == ~ r.ok /\ Pending(m)
  IN
  /\ Reply(i, "publish")
  /\ asks' = [asks EXCEPT ![m].pc = "wait", ![m].ack = IF broken THEN "unsent" ELSE @]
  /\ doubtful' = IF broken THEN doubtful \cup {m} ELSE doubtful
  /\ NoCall(i, Tail(replies[i]))
  /\ UNCHANGED <<socketVars, up, agents, written, since, struck, stops, closes>>

AckTimeout(m) ==
  /\ Pending(m)
  /\ asks' = [asks EXCEPT ![m].ack = "unsent"]
  /\ doubtful' = doubtful \cup {m}
  /\ UNCHANGED <<socketVars, up, agents, redisVars, written, claimed, since, struck, boundVars>>

Acknowledged(m) ==
  LET i == asks[m].at IN
  /\ asks[m].pc = "wait"
  /\ asks[m].ack # "open"
  /\ IF asks[m].ack = "sent"
       THEN /\ Answer(m, "sent")
            /\ NoCall(i, replies[i])
       ELSE /\ asks' = [asks EXCEPT ![m].pc = "again"]
            /\ ReadAgain(i, m, replies[i])
            /\ UNCHANGED frame
  /\ UNCHANGED <<sock, host, closing, prior, up, agents, written, since, doubtful, struck,
                 stops, closes>>

-----------------------------------------------------------------------------
(* The relay.                                                              *)

\* Mutant: the acknowledgement is addressed to the instance that sends it.
AcknowledgeSelf(i, rest, box, e, r) ==
  Call(i, rest, box, "publish",
       [kind |-> "relay.ack", to |-> e.to, msg |-> e.msg, attempt |-> e.attempt, ack |-> r],
       "none", None)

Acknowledge(i, rest, box, e, r) ==
  Call(i, rest, box, "publish",
       [kind |-> "relay.ack", to |-> e.from, msg |-> e.msg, attempt |-> e.attempt, ack |-> r],
       "none", None)

\* handleRelayMessage.
HandleRelayMessage(i) ==
  LET e == Head(inbox[i])
      box == [inbox EXCEPT ![i] = Tail(@)]
      mine == agents[i] = e.conn
  IN
  /\ inbox[i] # <<>>
  /\ up[i] = "up"
  /\ \/ /\ e.kind = "agent.send"
        /\ IF mine THEN Call(i, replies[i], box, "touch", e.conn, "relay", e)
                   ELSE Acknowledge(i, replies[i], box, e, "unsent")
        /\ UNCHANGED <<sock, asks>>
     \/ /\ e.kind = "agent.close"
        /\ sock' = IF mine THEN Closed({e.conn}) ELSE sock
        /\ inbox' = box
        /\ UNCHANGED <<asks, replies, presence, claimed, failures>>
     \/ /\ e.kind = "relay.ack"
        /\ asks' = IF Pending(e.msg) /\ asks[e.msg].attempt = e.attempt
                     THEN [asks EXCEPT ![e.msg].ack = e.ack] ELSE asks
        /\ inbox' = box
        /\ UNCHANGED <<sock, replies, presence, claimed, failures>>
  /\ UNCHANGED <<host, frame, closing, prior, up, agents, written, since, doubtful, struck,
                 stops, closes>>

RelayTouched(i) ==
  LET r == Head(replies[i]) IN
  /\ Reply(i, "relay")
  /\ Touched(i, r, r.id.msg)
  /\ Acknowledge(i, Tail(replies[i]), inbox, r.id, IF Writes(r) THEN "sent" ELSE "unsent")
  /\ UNCHANGED <<host, frame, closing, prior, up, asks, since, doubtful, stops, closes>>

\* An envelope expires, or the subscriber was not connected.  A lost
\* acknowledgement is one that comes after the timeout.
LoseEnvelope(i) ==
  /\ inbox[i] # <<>>
  /\ Head(inbox[i]).kind # "relay.ack"
  /\ inbox' = [inbox EXCEPT ![i] = Tail(@)]
  /\ UNCHANGED <<socketVars, instanceVars, presence, replies, historyVars, boundVars>>

-----------------------------------------------------------------------------
(* closeDevice, crashes and shutdown.                                      *)

CloseDevice(i) ==
  /\ up[i] = "up"
  /\ closes < MaxCloses
  /\ closes' = closes + 1
  /\ Call(i, replies[i], inbox, "get", None, "close", None)
  /\ UNCHANGED <<socketVars, instanceVars, written, since, doubtful, struck, stops>>

CloseOwner(i) ==
  LET r == Head(replies[i])
      o == r.val
      rest == Tail(replies[i])
  IN
  /\ Reply(i, "close")
  /\ IF Succeeded(r) /\ host[o] # i
       THEN /\ Call(i, rest, inbox, "publish", CloseEnvelope(o), "none", None)
            /\ UNCHANGED sock
       ELSE /\ NoCall(i, rest)
            /\ sock' = IF Succeeded(r) /\ agents[i] = o THEN Closed({o}) ELSE sock
  /\ UNCHANGED <<host, frame, closing, prior, instanceVars, written, since, doubtful, struck,
                 stops, closes>>

\* performShutdown up to the releases: every awaited acknowledgement is FALSE.
Shutdown(i) ==
  LET given == {m \in Message : asks[m].at = i /\ Pending(m)} IN
  /\ up[i] = "up"
  /\ stops < MaxStops
  /\ stops' = stops + 1
  /\ up' = [up EXCEPT ![i] = "stopping"]
  /\ asks' = [m \in Message |-> IF m \in given THEN [asks[m] EXCEPT !.ack = "unsent"]
                                ELSE asks[m]]
  /\ doubtful' = doubtful \cup given
  /\ IF agents[i] = None
       THEN NoCall(i, replies[i])
       ELSE Call(i, replies[i], inbox, "release", agents[i], "shutdown", None)
  /\ UNCHANGED <<socketVars, agents, written, since, struck, closes>>

\* The sockets, the maps and the handlers of the instance are gone: the rest of
\* the shutdown, or a crash.
Halt(i) ==
  /\ \/ /\ up[i] = "stopping"
        /\ replies[i] = <<>> \/ Reply(i, "shutdown")
        /\ UNCHANGED stops
     \/ /\ up[i] = "up"
        /\ stops < MaxStops
        /\ stops' = stops + 1
  /\ up' = [up EXCEPT ![i] = "down"]
  /\ agents' = [agents EXCEPT ![i] = None]
  /\ sock' = Closed({c \in Connection : host[c] = i})
  /\ closing' = [c \in Connection |-> IF host[c] = i THEN "over" ELSE closing[c]]
  /\ frame' = [c \in Connection |-> IF host[c] = i THEN "refused" ELSE frame[c]]
  /\ asks' = [m \in Message |->
                IF asks[m].at = i /\ asks[m].pc \notin {"sent", "unsent"}
                  THEN [asks[m] EXCEPT !.pc = "lost"] ELSE asks[m]]
  /\ replies' = [replies EXCEPT ![i] = <<>>]
  /\ inbox' = [inbox EXCEPT ![i] = <<>>]
  /\ UNCHANGED <<host, prior, presence, historyVars, failures, closes>>

-----------------------------------------------------------------------------
(* The specification.                                                      *)

Handle(i) ==
  \/ Attached(i)
  \/ ClosePublished(i)
  \/ HeartbeatTouched(i)
  \/ DetachAgent(i)
  \/ \E for \in {"owner", "again"} : OwnerRead(i, for)
  \/ LocalTouched(i)
  \/ SendPublished(i)
  \/ RelayTouched(i)
  \/ CloseOwner(i)

Next ==
  \/ \E i \in Instance :
       \/ Handle(i)
       \/ Dial(i)
       \/ HandleRelayMessage(i)
       \/ LoseEnvelope(i)
       \/ CloseDevice(i)
       \/ Shutdown(i)
       \/ Halt(i)
  \/ \E c \in Connection :
       \/ Cut(c)
       \/ Notice(c)
       \/ AttachAgent(c)
       \/ Heartbeat(c)
       \/ CloseEvent(c)
  \/ \E m \in Message :
       \/ AckTimeout(m)
       \/ Acknowledged(m)
       \/ \E i \in Instance : SendToAgent(i, m)
  \/ Lapse

\* Redis answers, event loops run, timers fire and the key's TTL is Redis's
\* own.  Nobody is obliged to dial, to send, to fail or to stop.
Fairness ==
  /\ \A i \in Instance :
       /\ WF_vars(Handle(i))
       /\ WF_vars(HandleRelayMessage(i))
  /\ \A c \in Connection :
       /\ WF_vars(Notice(c))
       /\ WF_vars(CloseEvent(c))
       /\ WF_vars(AttachAgent(c))
  /\ \A m \in Message :
       /\ WF_vars(AckTimeout(m))
       /\ WF_vars(Acknowledged(m))
  /\ WF_vars(Lapse)

Spec == Init /\ [][Next]_vars

FairSpec == Spec /\ Fairness

-----------------------------------------------------------------------------
(* Properties.                                                             *)

\* sendToAgent implements AgentDelivery: across instances, retries, lost
\* acknowledgements and replaced connections, no socket gets a message twice,
\* at most two sockets get it, and TRUE means that one of them did.
Delivery ==
  INSTANCE AgentDelivery WITH
    answer <- [m \in Message |->
                 IF asks[m].pc \in {"idle", "sent", "unsent", "lost"} THEN asks[m].pc
                 ELSE "asked"]

DeliveryHonest == Delivery!Spec

\* No message is written to a connection that had been replaced, by a claim in
\* Redis, before sendToAgent was called.
NeverToReplaced ==
  \A m \in Message : \A c \in Range(written[m]) :
    \E n \in DOMAIN claimed : claimed[n] = c /\ n >= since[m]

\* A FALSE that no timeout, failed publish or shutdown gave: nobody has the
\* message.  The job route then reports the device offline.
RefusalHonest ==
  \A m \in Message : asks[m].pc = "unsent" /\ m \notin doubtful => written[m] = <<>>

\* When nothing is under way the agent's connection is the entry of its instance,
\* and the owner of the presence key unless another claimed after it: commands
\* reach it, or its next heartbeat closes it and the agent dials again.  The
\* exception is a connection whose entry another connection's handler removed.
Quiet ==
  /\ \A i \in Instance : replies[i] = <<>> /\ inbox[i] = <<>>
  /\ \A c \in Connection :
       /\ frame[c] \notin {"claim", "publish", "welcome", "touch"}
       /\ sock[c] = "closed" => closing[c] = "over"
       /\ sock[c] # "cut"

Greeted(c) == sock[c] = "open" /\ frame[c] = "idle"

Routable(c) ==
  /\ agents[host[c]] = c
  /\ presence = c \/ (claimed # <<>> /\ claimed[Len(claimed)] # c)

RoutableUnlessStruck ==
  Quiet => \A c \in Connection : Greeted(c) => Routable(c) \/ c \in struck

\* A connection that is gone does not stay the owner for ever, whatever its close
\* handler missed: a hello still under way, a failed release or a crash.
DeadOwnerLapses ==
  \A c \in Connection : (presence = c /\ ~ Alive(c)) ~> (presence # c)
=============================================================================
