-------------------------------- MODULE Hub --------------------------------
(***************************************************************************)
(* The message hub of rust-ws-server: the state every connection shares    *)
(* (AppState.topics and AppState.clients, src/src/state.rs), the life of   *)
(* every connection (connection_loop, src/src/server.rs) with its reader,  *)
(* writer and fanout tasks, and the two HTTP handlers that send into the   *)
(* hub (src/src/api.rs).                                                   *)
(*                                                                         *)
(* A connection stands for its connection_id: fetch_add hands every        *)
(* connection an id of its own and ids are only compared for equality.     *)
(* Frames keep what the properties tell apart: their kind, the tenant on   *)
(* whose behalf they were sent and, for a broadcast, its position in the   *)
(* topic.  Tenant ids and topic names are strings of characters, because   *)
(* the key of a topic is the two of them in one string (TopicKeys).        *)
(***************************************************************************)
EXTENDS TopicKeys

CONSTANTS
    Conns,      \* connections that may be opened, each at most once
    NoConn,     \* an empty slot of the client registry
    Tenants,    \* tenant ids
    Clients,    \* client ids
    Topics,     \* client-facing topic names, already normalised
    TenantOf,   \* [Conns -> Tenants]: identity.tenant_id
    ClientOf,   \* [Conns -> Clients]: identity.client_id
    TopicOf,    \* [Conns -> Topics]:  the topic named in the upgrade request
    QueueCap,   \* client_queue_capacity
    RingCap,    \* topic_channel_capacity, as rounded up by tokio
    Workload,   \* what peers and API callers do in this instance
    MaxCalls    \* bound on the frames and API calls of a behaviour

Calls == {"ping", "reject", "publish", "direct", "rate_limited",
          "api_publish", "api_direct", "silence"}

ASSUME IdentityAssumption ==
    /\ NoConn \notin Conns
    /\ TenantOf \in [Conns -> Tenants]
    /\ ClientOf \in [Conns -> Clients]
    /\ TopicOf \in [Conns -> Topics]

\* Nothing is required of a tenant id or a topic, a colon in it included.
ASSUME StringAssumption == Tenants \subseteq Strings /\ Topics \subseteq Strings

\* mpsc::channel and broadcast::channel panic on a capacity of zero.
ASSUME CapacityAssumption ==
    /\ QueueCap \in Nat \ {0}
    /\ RingCap \in Nat \ {0}
    /\ MaxCalls \in Nat
    /\ Workload \subseteq Calls

VARIABLES
    main,     \* [Conns -> phase]: where connection_loop stands
    live,     \* [Conns -> SUBSET Tasks]: spawned tasks that have not finished
    queue,    \* [Conns -> Seq(Frame)]: the mpsc channel client_tx/client_rx
    holding,  \* [Conns -> Seq(Frame)]: the frame the writer took and is sending
    clients,  \* [Tenants \X Clients -> Conns or NoConn]: AppState.clients
    log,      \* [Keys -> Seq(Tenants)]: everything broadcast on a topic; the
              \* channel's ring retains the last RingCap entries
    cursor,   \* [Conns -> Nat]: next position topic_rx reads
    silent,   \* [Conns -> BOOLEAN]: the peer has stopped sending frames
    calls,    \* frames and API calls so far
    wire,     \* history: the frames written to the socket
    first,    \* history: the position at which the connection subscribed
    skipped,  \* history: positions reported as Lagged
    ended,    \* history: why tasks of the connection ended by themselves
    latest    \* history: the last connection registered under an identity

sessionVars == <<main, live, queue, holding, cursor, silent>>
history     == <<wire, first, skipped, ended, latest>>
vars        == <<sessionVars, clients, log, calls, history>>

-----------------------------------------------------------------------------
Tasks  == {"reader", "writer", "fanout"}
Phases == {"new", "subscribed", "registered", "running", "joining",
           "removing", "closed"}
Kinds  == {"ready", "message", "direct", "pong", "error", "client_not_found",
           "rate_limited", "close"}
Ends   == {"peer", "rate_limited", "idle", "write_failed", "overflow"}
Frames == [kind : Kinds, tenant : Tenants, pos : Nat]

Frame(kind, tenant)     == [kind |-> kind, tenant |-> tenant, pos |-> 0]
Broadcast(tenant, pos)  == [kind |-> "message", tenant |-> tenant, pos |-> pos]
Note(c, kind)           == Frame(kind, TenantOf[c])

Identity(c) == <<TenantOf[c], ClientOf[c]>>

\* AppState's topic map is keyed by tenant_topic(tenant, topic).
Keys     == {TenantTopic(t, topic) : t \in Tenants, topic \in Topics}
KeyOf(c) == TenantTopic(TenantOf[c], TopicOf[c])

\* client_rx is dropped with the writer task that owns it.
ChannelOpen(c) == main[c] \in {"subscribed", "registered"} \/ "writer" \in live[c]
CanPush(c)     == ChannelOpen(c) /\ Len(queue[c]) < QueueCap

\* try_send: the queue after a send whose failure is ignored.
\* Mutant OfferUnbounded: an unbounded channel.
OfferUnbounded(q, m) == Append(q, m)
Offer(q, m)    == IF Len(q) < QueueCap THEN Append(q, m) ELSE q
Offered(c, m)  == IF ChannelOpen(c) THEN [queue EXCEPT ![c] = Offer(@, m)] ELSE queue

\* topic_rx is created by subscribe and dropped with the fanout task.
Subscribed(c)  == main[c] \in {"subscribed", "registered"} \/ "fanout" \in live[c]
Receivers(k)   == {c \in Conns : KeyOf(c) = k /\ Subscribed(c)}
Oldest(k)      == IF Len(log[k]) > RingCap THEN Len(log[k]) - RingCap + 1 ELSE 1

\* AppState::publish: a channel without receivers stores nothing.
Published(t, k) ==
    IF Receivers(k) # {} THEN [log EXCEPT ![k] = Append(@, t)] ELSE log

\* AppState::send_to_client finds a handle and its channel accepts the frame.
Reaches(t, id) == LET h == clients[<<t, id>>] IN h # NoConn /\ CanPush(h)
Directed(t, id) ==
    [queue EXCEPT ![clients[<<t, id>>]] = Append(@, Frame("direct", t))]

Init ==
    /\ main = [c \in Conns |-> "new"]
    /\ live = [c \in Conns |-> {}]
    /\ queue = [c \in Conns |-> <<>>]
    /\ holding = [c \in Conns |-> <<>>]
    /\ clients = [k \in Tenants \X Clients |-> NoConn]
    /\ log = [k \in Keys |-> <<>>]
    /\ cursor = [c \in Conns |-> 1]
    /\ silent = [c \in Conns |-> FALSE]
    /\ calls = 0
    /\ wire = [c \in Conns |-> <<>>]
    /\ first = [c \in Conns |-> 1]
    /\ skipped = [c \in Conns |-> {}]
    /\ ended = [c \in Conns |-> {}]
    /\ latest = [k \in Tenants \X Clients |-> NoConn]

Call(kind) ==
    /\ kind \in Workload
    /\ calls < MaxCalls
    /\ calls' = calls + 1

-----------------------------------------------------------------------------
(* connection_loop before its tasks run.  Nothing in it awaits, but other  *)
(* threads interleave with it.                                             *)

Subscribe(c) ==
    /\ main[c] = "new"
    /\ main' = [main EXCEPT ![c] = "subscribed"]
    /\ cursor' = [cursor EXCEPT ![c] = Len(log[KeyOf(c)]) + 1]
    /\ first' = [first EXCEPT ![c] = Len(log[KeyOf(c)]) + 1]
    /\ UNCHANGED <<live, queue, holding, silent, clients, log, calls, wire,
                   skipped, ended, latest>>

\* The insert replaces whatever handle the identity had.
\* Mutant RegisterSpawningFanout: the fanout task starts before Ready is sent.
RegisterSpawningFanout(c) ==
    /\ main[c] = "subscribed"
    /\ main' = [main EXCEPT ![c] = "registered"]
    /\ live' = [live EXCEPT ![c] = {"fanout"}]
    /\ clients' = [clients EXCEPT ![Identity(c)] = c]
    /\ latest' = [latest EXCEPT ![Identity(c)] = c]
    /\ UNCHANGED <<queue, holding, cursor, silent, log, calls, wire, first,
                   skipped, ended>>
Register(c) ==
    /\ main[c] = "subscribed"
    /\ main' = [main EXCEPT ![c] = "registered"]
    /\ clients' = [clients EXCEPT ![Identity(c)] = c]
    /\ latest' = [latest EXCEPT ![Identity(c)] = c]
    /\ UNCHANGED <<live, queue, holding, cursor, silent, log, calls, wire,
                   first, skipped, ended>>

\* Ready is offered to the queue, then the three tasks are spawned.
Start(c) ==
    /\ main[c] = "registered"
    /\ main' = [main EXCEPT ![c] = "running"]
    /\ queue' = Offered(c, Note(c, "ready"))
    /\ live' = [live EXCEPT ![c] = Tasks]
    /\ UNCHANGED <<holding, cursor, silent, clients, log, calls, history>>

-----------------------------------------------------------------------------
(* The reader task.  Handling one frame never suspends, so each frame is   *)
(* one step.                                                               *)

FrameArrives(c, kind) ==
    /\ "reader" \in live[c]
    /\ ~silent[c]
    /\ Call(kind)

ReaderEnds(c, why) ==
    /\ live' = [live EXCEPT ![c] = @ \ {"reader"}]
    /\ ended' = [ended EXCEPT ![c] = @ \union {why}]

\* A ping event, or a WebSocket ping: both are answered through the queue.
Ping(c) ==
    /\ FrameArrives(c, "ping")
    /\ queue' = Offered(c, Note(c, "pong"))
    /\ UNCHANGED <<main, live, holding, cursor, silent, clients, log, history>>

\* message_too_large, tenant_rate_limited, invalid_json, invalid_msgpack: an
\* error is offered and the session goes on.
Reject(c) ==
    /\ FrameArrives(c, "reject")
    /\ queue' = Offered(c, Note(c, "error"))
    /\ UNCHANGED <<main, live, holding, cursor, silent, clients, log, history>>

Publish(c, topic) ==
    /\ FrameArrives(c, "publish")
    /\ log' = Published(TenantOf[c], TenantTopic(TenantOf[c], topic))
    /\ UNCHANGED <<sessionVars, clients, history>>

Direct(c, to) ==
    /\ FrameArrives(c, "direct")
    /\ \/ /\ Reaches(TenantOf[c], to)
          /\ queue' = Directed(TenantOf[c], to)
       \/ /\ ~Reaches(TenantOf[c], to)
          /\ queue' = Offered(c, Note(c, "client_not_found"))
    /\ UNCHANGED <<main, live, holding, cursor, silent, clients, log, history>>

\* The per-connection limiter refuses the frame: an error and a Close frame
\* are offered and the reader ends.
RateLimited(c) ==
    /\ FrameArrives(c, "rate_limited")
    /\ queue' = IF ChannelOpen(c)
                THEN [queue EXCEPT ![c] = Offer(Offer(@, Note(c, "rate_limited")),
                                                Note(c, "close"))]
                ELSE queue
    /\ ReaderEnds(c, "rate_limited")
    /\ UNCHANGED <<main, holding, cursor, silent, clients, log, wire, first,
                   skipped, latest>>

\* Close frame, end of stream or socket error.
PeerCloses(c) ==
    /\ "reader" \in live[c]
    /\ ReaderEnds(c, "peer")
    /\ UNCHANGED <<main, queue, holding, cursor, silent, clients, log, calls,
                   wire, first, skipped, latest>>

\* No frame for idle_timeout.
\* Mutant IdleTimeoutContinues: the reader offers a Close and reads on.
IdleTimeoutContinues(c) ==
    /\ "reader" \in live[c]
    /\ queue' = Offered(c, Note(c, "close"))
    /\ UNCHANGED <<main, live, holding, cursor, silent, clients, log, calls, history>>
IdleTimeout(c) ==
    /\ "reader" \in live[c]
    /\ queue' = Offered(c, Note(c, "close"))
    /\ ReaderEnds(c, "idle")
    /\ UNCHANGED <<main, holding, cursor, silent, clients, log, calls, wire,
                   first, skipped, latest>>

-----------------------------------------------------------------------------
(* The writer task.  It suspends while a frame is being sent; a heartbeat  *)
(* ping that is sent changes nothing modelled here, one that fails is a    *)
(* WriterFails.                                                            *)

WriterTakes(c) ==
    /\ "writer" \in live[c]
    /\ holding[c] = <<>>
    /\ queue[c] # <<>>
    /\ holding' = [holding EXCEPT ![c] = <<Head(queue[c])>>]
    /\ queue' = [queue EXCEPT ![c] = Tail(@)]
    /\ UNCHANGED <<main, live, cursor, silent, clients, log, calls, history>>

\* The socket refuses data once a Close frame was sent.
CloseSent(c) == \E i \in 1..Len(wire[c]) : wire[c][i].kind = "close"

WriterSends(c) ==
    /\ "writer" \in live[c]
    /\ holding[c] # <<>>
    /\ ~CloseSent(c)
    /\ wire' = [wire EXCEPT ![c] = @ \o holding[c]]
    /\ holding' = [holding EXCEPT ![c] = <<>>]
    /\ UNCHANGED <<main, live, queue, cursor, silent, clients, log, calls,
                   first, skipped, ended, latest>>

\* What the end of the writer does, however it ends: client_rx is dropped
\* with the frames still queued, and a frame being sent is lost.
WriterGone(c) ==
    /\ live' = [live EXCEPT ![c] = @ \ {"writer"}]
    /\ queue' = [queue EXCEPT ![c] = <<>>]
    /\ holding' = [holding EXCEPT ![c] = <<>>]

WriterFails(c) ==
    /\ "writer" \in live[c]
    /\ WriterGone(c)
    /\ ended' = [ended EXCEPT ![c] = @ \union {"write_failed"}]
    /\ UNCHANGED <<main, cursor, silent, clients, log, calls, wire, first,
                   skipped, latest>>

-----------------------------------------------------------------------------
(* The fanout task: topic_rx.recv and a try_send of what it returns.       *)

\* recv on a retained message.  Mutant FanoutRereads: the cursor stays put.
FanoutRereads(c) ==
    /\ "fanout" \in live[c]
    /\ cursor[c] \in Oldest(KeyOf(c))..Len(log[KeyOf(c)])
    /\ UNCHANGED cursor
FanoutReads(c) ==
    /\ "fanout" \in live[c]
    /\ cursor[c] \in Oldest(KeyOf(c))..Len(log[KeyOf(c)])
    /\ cursor' = [cursor EXCEPT ![c] = @ + 1]

FanoutForwards(c) ==
    /\ FanoutReads(c)
    /\ CanPush(c)
    /\ queue' = [queue EXCEPT ![c] =
                   Append(@, Broadcast(log[KeyOf(c)][cursor[c]], cursor[c]))]
    /\ UNCHANGED <<main, live, holding, silent, clients, log, calls, history>>

\* A full or closed queue ends the session: the message read is lost.
\* Mutant OverflowIgnored: the message is dropped and the fanout goes on.
OverflowIgnored(c) ==
    /\ FanoutReads(c)
    /\ ~CanPush(c)
    /\ UNCHANGED <<main, live, queue, holding, silent, clients, log, calls, history>>
FanoutOverflows(c) ==
    /\ FanoutReads(c)
    /\ ~CanPush(c)
    /\ live' = [live EXCEPT ![c] = @ \ {"fanout"}]
    /\ ended' = [ended EXCEPT ![c] = @ \union {"overflow"}]
    /\ UNCHANGED <<main, queue, holding, silent, clients, log, calls, wire, first,
                   skipped, latest>>

\* RecvError::Lagged moves the cursor to the oldest retained message.
\* Mutant LagResubscribes: the fanout subscribes anew after a lag.
LagResubscribes(c) ==
    LET k == KeyOf(c) IN
    /\ "fanout" \in live[c]
    /\ cursor[c] < Oldest(k)
    /\ cursor' = [cursor EXCEPT ![c] = Len(log[k]) + 1]
    /\ skipped' = [skipped EXCEPT ![c] = @ \union (cursor[c]..(Oldest(k) - 1))]
    /\ UNCHANGED <<main, live, queue, holding, silent, clients, log, calls,
                   wire, first, ended, latest>>
FanoutLags(c) ==
    LET k == KeyOf(c) IN
    /\ "fanout" \in live[c]
    /\ cursor[c] < Oldest(k)
    /\ cursor' = [cursor EXCEPT ![c] = Oldest(k)]
    /\ skipped' = [skipped EXCEPT ![c] = @ \union (cursor[c]..(Oldest(k) - 1))]
    /\ UNCHANGED <<main, live, queue, holding, silent, clients, log, calls,
                   wire, first, ended, latest>>

-----------------------------------------------------------------------------
(* connection_loop after its select: abort and await the other tasks, then *)
(* unregister_client, whose get and remove are two accesses of the map.    *)

Select(c) ==
    /\ main[c] = "running"
    /\ live[c] # Tasks
    /\ main' = [main EXCEPT ![c] = "joining"]
    /\ UNCHANGED <<live, queue, holding, cursor, silent, clients, log, calls,
                   history>>

\* An aborted task is dropped at its next suspension point; until then it
\* may take further steps.
\* Mutant AbortedAllButWriter: writer.abort() is forgotten.
AbortedAllButWriter(c) == IF main[c] = "joining" THEN live[c] \ {"writer"} ELSE {}
Aborted(c)             == IF main[c] = "joining" THEN live[c] ELSE {}

Cancel(c, task) ==
    /\ task \in Aborted(c)
    /\ IF task = "writer"
       THEN WriterGone(c)
       ELSE /\ live' = [live EXCEPT ![c] = @ \ {task}]
            /\ UNCHANGED <<queue, holding>>
    /\ UNCHANGED <<main, cursor, silent, clients, log, calls, history>>

\* Mutants JoinedAllButWriter: writer.await is forgotten; OwnsNoHandle: the
\* comparison of connection ids is inverted.
JoinedAllButWriter(c) == live[c] \subseteq {"writer"}
Joined(c)             == live[c] = {}
OwnsNoHandle(c)       == clients[Identity(c)] # c
OwnsHandle(c)         == clients[Identity(c)] = c

UnregisterCheck(c) ==
    /\ main[c] = "joining"
    /\ Joined(c)
    /\ main' = [main EXCEPT ![c] =
                  IF OwnsHandle(c) THEN "removing" ELSE "closed"]
    /\ UNCHANGED <<live, queue, holding, cursor, silent, clients, log, calls,
                   history>>

UnregisterRemove(c) ==
    /\ main[c] = "removing"
    /\ main' = [main EXCEPT ![c] = "closed"]
    /\ clients' = [clients EXCEPT ![Identity(c)] = NoConn]
    /\ UNCHANGED <<live, queue, holding, cursor, silent, log, calls, history>>

-----------------------------------------------------------------------------
(* The HTTP handlers, and the peer.                                        *)

ApiPublish(t, topic) ==
    /\ Call("api_publish")
    /\ log' = Published(t, TenantTopic(t, topic))
    /\ UNCHANGED <<sessionVars, clients, history>>

\* Answered with 404 client_not_found when the hub cannot deliver.
ApiDirect(t, to) ==
    /\ Call("api_direct")
    /\ \/ /\ Reaches(t, to)
          /\ queue' = Directed(t, to)
       \/ /\ ~Reaches(t, to)
          /\ UNCHANGED queue
    /\ UNCHANGED <<main, live, holding, cursor, silent, clients, log, history>>

\* A zombie: the socket stays open, nothing more arrives, not even pongs.
PeerFallsSilent(c) ==
    /\ "silence" \in Workload
    /\ main[c] = "running"
    /\ ~silent[c]
    /\ silent' = [silent EXCEPT ![c] = TRUE]
    /\ UNCHANGED <<main, live, queue, holding, cursor, clients, log, calls,
                   history>>

\* Every connection has come and gone.
Finished ==
    /\ \A c \in Conns : main[c] = "closed"
    /\ UNCHANGED vars

Reader(c) == \/ Ping(c) \/ Reject(c) \/ RateLimited(c) \/ PeerCloses(c)
             \/ IdleTimeout(c)
             \/ \E topic \in Topics : Publish(c, topic)
             \/ \E to \in Clients : Direct(c, to)
Writer(c) == WriterTakes(c) \/ WriterSends(c) \/ WriterFails(c)
Fanout(c) == FanoutForwards(c) \/ FanoutOverflows(c) \/ FanoutLags(c)
Main(c)   == \/ Subscribe(c) \/ Register(c) \/ Start(c) \/ Select(c)
             \/ UnregisterCheck(c) \/ UnregisterRemove(c)

Next ==
    \/ \E c \in Conns : Main(c) \/ Reader(c) \/ Writer(c) \/ Fanout(c)
    \/ \E c \in Conns, task \in Tasks : Cancel(c, task)
    \/ \E c \in Conns : PeerFallsSilent(c)
    \/ \E t \in Tenants, topic \in Topics : ApiPublish(t, topic)
    \/ \E t \in Tenants, to \in Clients : ApiDirect(t, to)
    \/ Finished

Spec == Init /\ [][Next]_vars

-----------------------------------------------------------------------------
(* Properties.                                                             *)

\* Every variable has its type, and the write queue is bounded by
\* client_queue_capacity (README.md:8, a bounded write queue per connection).
TypeOK ==
    /\ main \in [Conns -> Phases]
    /\ live \in [Conns -> SUBSET Tasks]
    /\ queue \in [Conns -> Seq(Frames)]
    /\ \A c \in Conns : Len(queue[c]) <= QueueCap
    /\ holding \in [Conns -> Seq(Frames)]
    /\ clients \in [Tenants \X Clients -> Conns \union {NoConn}]
    /\ log \in [Keys -> Seq(Tenants)]
    /\ cursor \in [Conns -> Nat \ {0}]
    /\ silent \in [Conns -> BOOLEAN]
    /\ calls \in Nat
    /\ wire \in [Conns -> Seq(Frames)]
    /\ first \in [Conns -> Nat \ {0}]
    /\ skipped \in [Conns -> SUBSET Nat]
    /\ ended \in [Conns -> SUBSET Ends]
    /\ latest \in [Tenants \X Clients -> Conns \union {NoConn}]

\* What the hub has accepted for a peer and not lost with its writer: frames its
\* socket took, the one being sent and those that are still queued.
Sent(c) == wire[c] \o holding[c] \o queue[c]
Delivered(c) == {Sent(c)[i].pos : i \in {j \in 1..Len(Sent(c)) : Sent(c)[j].kind = "message"}}

\* The registry never names a connection whose session is over, and an entry
\* belongs to the identity it is filed under, although unregister_client races
\* with a reconnect of the same client.
NoStaleHandle ==
    \A k \in DOMAIN clients : clients[k] # NoConn =>
        /\ Identity(clients[k]) = k
        /\ main[clients[k]] \notin {"new", "subscribed", "closed"}

\* When the session is unregistered, none of its tasks is left running and
\* nothing is queued: whichever task ended first, the others were aborted and
\* awaited.
NoOrphanTask ==
    \A c \in Conns : main[c] \in {"removing", "closed"} =>
        /\ live[c] = {}
        /\ queue[c] = <<>>
        /\ holding[c] = <<>>

\* What may be sent to a peer.  tenant_topic keeps tenants apart by the prefix
\* that it puts before the topic, and a colon in a tenant id takes away what ends
\* the prefix: a:a with topic a is a with topic a:a, so that of such tenants a
\* broadcast may reach the other.  Nothing else may, whatever the ids.
OwnFrames(c) ==
    {f \in Frames :
       \/ f.tenant = TenantOf[c]
       \/ f.kind = "message" /\ ~(SeparatorFree(f.tenant) /\ SeparatorFree(TenantOf[c]))}

\* Tenants whose ids have no colon are isolated although they share topic and
\* client names: whatever a peer of such a tenant is sent, broadcasts included,
\* was not sent on behalf of another one.  Direct messages and replies never
\* leave their tenant, whatever its id.
TenantIsolation ==
    \A c \in Conns :
        /\ wire[c] \in Seq(OwnFrames(c))
        /\ holding[c] \in Seq(OwnFrames(c))
        /\ queue[c] \in Seq(OwnFrames(c))

\* A subscriber gets the broadcasts of its topic in the order they were
\* published, none twice, whatever is queued between them.
StreamInOrder ==
    \A c \in Conns : \A i, j \in 1..Len(Sent(c)) :
        /\ i < j
        /\ Sent(c)[i].kind = "message"
        /\ Sent(c)[j].kind = "message"
        => Sent(c)[i].pos < Sent(c)[j].pos

\* A subscriber that gets a broadcast, or has it queued, got every earlier one
\* since it subscribed, save those that recv reported to its fanout as Lagged: a
\* full queue ends the session and never leaves a hole in the stream.  The server
\* counts a lag (server.rs:311); the peer itself is sent nothing about it.
NoSilentGap ==
    \A c \in Conns : \A p \in Delivered(c) :
        first[c]..(p - 1) \subseteq Delivered(c) \union skipped[c]

\* No broadcast overtakes the Ready event, although the subscription is older.
ReadyBeforeBroadcasts ==
    \A c \in Conns : \A i, j \in 1..Len(Sent(c)) :
        i < j /\ Sent(c)[j].kind = "ready" => Sent(c)[i].kind # "message"

\* Of a running session the newest connection of an identity is the one direct
\* messages go to: the registry loses an entry only to a newer connection or
\* to the end of its own session.
NewestReachable ==
    \A k \in DOMAIN latest : latest[k] # NoConn =>
        (main[latest[k]] = "running" => clients[k] = latest[k])

\* A session ended by the rate limiter told its peer so: tests/websocket.rs
\* asserts that the client receives the rate_limited error.
RateLimitReported ==
    \A c \in Conns : main[c] = "closed" /\ ended[c] = {"rate_limited"} =>
        \E i \in 1..Len(wire[c]) : wire[c][i].kind = "rate_limited"

\* The end of any one task ends the session: a rate-limited reader, a failed
\* write and a subscriber too slow for its queue are all disconnected.
EndedTaskClosesSession ==
    \A c \in Conns : ended[c] # {} ~> main[c] = "closed"

\* While a session stays open, every broadcast of its topic is queued for its
\* peer, or recv reports to its fanout that it lagged behind it.  What is queued
\* need never reach a peer that reads nothing.
StreamCatchesUp ==
    \A c \in Conns : \A p \in 1..MaxCalls :
        main[c] = "running" /\ p \in first[c]..Len(log[KeyOf(c)])
            ~> main[c] # "running" \/ p \in Delivered(c) \union skipped[c]
=============================================================================
