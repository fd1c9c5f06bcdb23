--------------------------- MODULE WebSocketBridge ---------------------------
(***************************************************************************)
(* Events on their way to the browser: the in-process bus with a queue and *)
(* a consumer per stream (InProcessBus, hqmts/infra/pipeline.py), the      *)
(* bridge that forwards them (api/ws_bridge.py), the connection manager    *)
(* (api/ws_manager.py) and the endpoint of each web socket                 *)
(* (api/routes/ws.py).  Tasks interleave wherever one waits: at a send, at *)
(* a receive, at a queue.  A socket is used once; the client may go away   *)
(* without the server noticing.                                            *)
(***************************************************************************)
EXTENDS Integers, Sequences, FiniteSets

CONSTANTS
    Sockets,        \* web sockets that may be opened
    Tokens,         \* the tokens a socket may bring: session_id, user_id, role
    Events,         \* messages published
    StreamOf,       \* the stream of each
    TypeOf,         \* its WS type, for an alert with the level
    BufferSize,     \* buffer_size
    ReplaySize      \* messages of the initial replay

ASSUME BridgeAssumption ==
    /\ {BufferSize, ReplaySize} \subseteq Nat \ {0}
    /\ \A t, u \in Tokens : /\ t.session = u.session => t.user = u.user
                            /\ t.user = u.user => t.role = u.role

WsUsers == {t.user : t \in Tokens}
Sessions == {t.session : t \in Tokens}
Streams == {StreamOf[e] : e \in Events}

VARIABLES
    tokens,       \* the token that a socket brings
    queues,       \* the bridge's queue on each stream
    sent,         \* events published
    forwarding,   \* forwarding[s]: the event its consumer forwards, and to whom still
    connections,  \* _connections: the socket that a session has, or "none"
    sequences,    \* _sequences
    buffers,      \* _buffers
    sockets,      \* where the endpoint of each socket stands
    replays,      \* what it still has to replay
    clients,      \* the client of a socket: not yet there, there, or gone
    received,     \* what a client that is there received, with its sequence number
    owed          \* history: the events it is to have

bridgeVars == <<tokens, queues, sent, forwarding, connections, sequences, buffers,
                sockets, replays, clients, received, owed>>
managerVars == <<connections, sequences, buffers>>
socketVars == <<tokens, sockets, replays, clients, received, owed>>

NoEvent == [event |-> "none", todo |-> {}]

BridgeInit ==
    /\ tokens \in [Sockets -> Tokens]
    /\ queues = [s \in Streams |-> <<>>]
    /\ sent = {}
    /\ forwarding = [s \in Streams |-> NoEvent]
    /\ connections = [i \in Sessions |-> "none"]
    /\ sequences = [u \in WsUsers |-> 0]
    /\ buffers = [u \in WsUsers |-> <<>>]
    /\ sockets = [k \in Sockets |-> "new"]
    /\ replays = [k \in Sockets |-> <<>>]
    /\ clients = [k \in Sockets |-> "absent"]
    /\ received = [k \in Sockets |-> {}]
    /\ owed = [k \in Sockets |-> {}]

(* InProcessBus.publish() *)
PublishEvent(e) ==
    /\ e \notin sent
    /\ sent' = sent \cup {e}
    /\ queues' = [queues EXCEPT ![StreamOf[e]] = Append(@, e)]
    /\ UNCHANGED <<forwarding, managerVars, socketVars>>

(* _should_deliver(): by role. *)
ShouldDeliver(type, role) ==
    /\ role = "quant_researcher" => type \notin {"risk_change", "P0", "P1"}
    /\ role = "trader" => type # "P0"

(* disconnect() of a session, whoever holds it. *)
Disconnected(session) == connections' = [connections EXCEPT ![session] = "none"]

LastOf(s, n) == IF Len(s) <= n THEN s ELSE SubSeq(s, Len(s) - n + 1, Len(s))

(* The consumer takes the next message; the connections are listed now,    *)
(* and each is sent to in turn.                                            *)
TakeMessage(s) ==
    LET e == Head(queues[s])
        listed == {connections[i] : i \in Sessions} \ {"none"}
        todo == {k \in listed : ShouldDeliver(TypeOf[e], tokens[k].role)}
    IN  /\ forwarding[s] = NoEvent /\ queues[s] # <<>>
        /\ queues' = [queues EXCEPT ![s] = Tail(@)]
        /\ forwarding' = [forwarding EXCEPT ![s] = IF todo = {} THEN NoEvent
                                                   ELSE [event |-> e, todo |-> todo]]
        /\ owed' = [k \in Sockets |-> IF k \in todo /\ clients[k] = "there"
                                     THEN owed[k] \cup {e} ELSE owed[k]]
        /\ UNCHANGED <<sent, managerVars, tokens, sockets, replays, clients, received>>

Reachable(k) == clients[k] = "there" /\ sockets[k] # "closed"

(* Mutant: the buffer is trimmed before the message comes in. *)
BufferedUntrimmed(u, e) ==
    /\ sequences' = [sequences EXCEPT ![u] = @ + 1]
    /\ buffers' = [buffers EXCEPT ![u] = Append(LastOf(@, BufferSize), <<sequences[u] + 1, e>>)]

(* buffer_message(), once per connection. *)
Buffered(u, e) ==
    /\ sequences' = [sequences EXCEPT ![u] = @ + 1]
    /\ buffers' = [buffers EXCEPT ![u] = LastOf(Append(@, <<sequences[u] + 1, e>>), BufferSize)]

(* One connection of the list: the message is buffered for its user and    *)
(* sent; when sending fails the session is disconnected.                   *)
ForwardTo(s, k) ==
    LET e == forwarding[s].event
    IN  /\ k \in forwarding[s].todo
        /\ Buffered(tokens[k].user, e)
        /\ IF Reachable(k)
           THEN /\ received' = [received EXCEPT ![k] = @ \cup {<<sequences[tokens[k].user] + 1, e>>}]
                /\ UNCHANGED connections
           ELSE Disconnected(tokens[k].session) /\ UNCHANGED received
        /\ forwarding' = [forwarding EXCEPT ![s] = IF @.todo = {k} THEN NoEvent
                                                   ELSE [event |-> e, todo |-> @.todo \ {k}]]
        /\ UNCHANGED <<tokens, queues, sent, sockets, replays, clients, owed>>

(* Mutant: what was buffered last is left out of the replay. *)
InitialReplayShort(u) == LastOf(SubSeq(buffers[u], 1, Len(buffers[u]) - 1), ReplaySize)

InitialReplay(u) == LastOf(buffers[u], ReplaySize)

EventsIn(messages) == {messages[n][2] : n \in 1..Len(messages)}

(* connect() registers the socket under its session, in place of another   *)
(* that may be there; the messages to replay are read at once.             *)
ConnectSocket(k) ==
    /\ sockets[k] = "new"
    /\ clients' = [clients EXCEPT ![k] = "there"]
    /\ connections' = [connections EXCEPT ![tokens[k].session] = k]
    /\ sockets' = [sockets EXCEPT ![k] = "replaying"]
    /\ replays' = [replays EXCEPT ![k] = InitialReplay(tokens[k].user)]
    /\ owed' = [owed EXCEPT ![k] = EventsIn(LastOf(buffers[tokens[k].user], ReplaySize))]
    /\ UNCHANGED <<tokens, queues, sent, forwarding, sequences, buffers, received>>

(* A message of the replay is sent, or sending fails and the endpoint ends.*)
ReplayNext(k) ==
    /\ sockets[k] = "replaying" /\ replays[k] # <<>>
    /\ IF clients[k] = "there"
       THEN /\ received' = [received EXCEPT ![k] = @ \cup {Head(replays[k])}]
            /\ replays' = [replays EXCEPT ![k] = Tail(@)]
            /\ UNCHANGED <<sockets, connections>>
       ELSE /\ Disconnected(tokens[k].session)
            /\ sockets' = [sockets EXCEPT ![k] = "closed"]
            /\ replays' = [replays EXCEPT ![k] = <<>>]
            /\ UNCHANGED received
    /\ UNCHANGED <<tokens, queues, sent, forwarding, sequences, buffers, clients, owed>>

Replayed(k) ==
    /\ sockets[k] = "replaying" /\ replays[k] = <<>>
    /\ sockets' = [sockets EXCEPT ![k] = "serving"]
    /\ UNCHANGED <<queues, sent, forwarding, managerVars, tokens, replays, clients, received, owed>>

Highest(k) == IF received[k] = {} THEN 0
              ELSE CHOOSE n \in 1..sequences[tokens[k].user] :
                     (\E m \in received[k] : m[1] = n) /\ \A m \in received[k] : m[1] <= n

(* get_buffered_messages(): what the buffer has above that number is at    *)
(* its end, for the numbers ascend.                                        *)
Missed(k) ==
    LET buffer == buffers[tokens[k].user]
    IN  LastOf(buffer, Cardinality({n \in 1..Len(buffer) : buffer[n][1] > Highest(k)}))

(* The client asks for what came after the last sequence number it saw.    *)
ReconnectMessage(k) ==
    /\ sockets[k] = "serving" /\ clients[k] = "there"
    /\ Missed(k) # <<>>
    /\ replays' = [replays EXCEPT ![k] = Missed(k)]
    /\ sockets' = [sockets EXCEPT ![k] = "replaying"]
    /\ UNCHANGED <<queues, sent, forwarding, managerVars, tokens, clients, received, owed>>

ClientLeaves(k) ==
    /\ clients[k] = "there"
    /\ clients' = [clients EXCEPT ![k] = "gone"]
    /\ received' = [received EXCEPT ![k] = {}]
    /\ owed' = [owed EXCEPT ![k] = {}]
    /\ UNCHANGED <<queues, sent, forwarding, managerVars, tokens, sockets, replays>>

(* The heartbeat's send fails: the session is disconnected, and the        *)
(* endpoint waits on.                                                      *)
HeartbeatFails(k) ==
    /\ sockets[k] \in {"serving", "replaying"} /\ clients[k] = "gone"
    /\ connections[tokens[k].session] # "none"
    /\ Disconnected(tokens[k].session)
    /\ UNCHANGED <<queues, sent, forwarding, sequences, buffers, socketVars>>

(* The endpoint notices: its finally disconnects the session. *)
EndpointEnds(k) ==
    /\ sockets[k] = "serving" /\ clients[k] = "gone"
    /\ Disconnected(tokens[k].session)
    /\ sockets' = [sockets EXCEPT ![k] = "closed"]
    /\ UNCHANGED <<tokens, queues, sent, forwarding, sequences, buffers, replays, clients, received, owed>>

BridgeNext ==
    \/ \E e \in Events : PublishEvent(e)
    \/ \E s \in Streams : TakeMessage(s) \/ \E k \in Sockets : ForwardTo(s, k)
    \/ \E k \in Sockets : \/ ConnectSocket(k) \/ ReplayNext(k) \/ Replayed(k)
                          \/ ReconnectMessage(k) \/ ClientLeaves(k)
                          \/ HeartbeatFails(k) \/ EndpointEnds(k)

BridgeSpec == BridgeInit /\ [][BridgeNext]_bridgeVars

-----------------------------------------------------------------------------

Numbered == (Nat \ {0}) \X Events

BridgeTypeOK ==
    /\ queues \in [Streams -> Seq(Events)]
    /\ connections \in [Sessions -> Sockets \cup {"none"}]
    /\ sequences \in [WsUsers -> Nat]
    /\ buffers \in [WsUsers -> Seq(Numbered)]
    /\ \A u \in WsUsers : Len(buffers[u]) <= BufferSize
    /\ sockets \in [Sockets -> {"new", "replaying", "serving", "closed"}]
    /\ clients \in [Sockets -> {"absent", "there", "gone"}]

(* PRD 30.6 as ws_bridge.py cites it, "researchers see none" of the risk   *)
(* changes: what a client receives, live or out of the buffer that all     *)
(* sockets of its user share, is what its role may see.                    *)
RoleFiltered ==
    \A k \in Sockets : \A m \in received[k] :
        CASE tokens[k].role = "quant_researcher" -> TypeOf[m[2]] \notin {"risk_change", "P0", "P1"}
          [] tokens[k].role = "trader" -> TypeOf[m[2]] # "P0"
          [] OTHER -> TRUE

InFlight(k) == {forwarding[s].event : s \in {x \in Streams : k \in forwarding[x].todo}}

(* A client that is there and has had its replay has every event that was  *)
(* in the replay's reach when it connected and every event taken up since, *)
(* but for those on their way to it - while other sockets come and go and  *)
(* the streams are forwarded concurrently.                                 *)
CaughtUp ==
    \A k \in Sockets :
        clients[k] = "there" /\ sockets[k] = "serving" =>
            owed[k] \subseteq {m[2] : m \in received[k]} \cup InFlight(k)

(* Of the sequence numbers of a user no two name different events, and the *)
(* buffer holds the latest without a gap, however the streams interleave.  *)
SequencesTell ==
    \A u \in WsUsers :
        /\ \A n \in 1..Len(buffers[u]) :
              buffers[u][n][1] = sequences[u] - Len(buffers[u]) + n
        /\ \A k, l \in {x \in Sockets : tokens[x].user = u} :
              \A m \in received[k], n \in received[l] : m[1] = n[1] => m[2] = n[2]

(* ws_manager.py:116, "Get all active connections": a socket that is       *)
(* served, its client still there, is the connection of its session.       *)
ActiveAreListed ==
    \A k \in Sockets :
        clients[k] = "there" /\ sockets[k] = "serving" => connections[tokens[k].session] = k

(* A client gets what its role may see and nothing else, all of it once it *)
(* has caught up, and under numbers that identify it.                      *)
SocketsCatchUp == RoleFiltered /\ CaughtUp /\ SequencesTell
=============================================================================
