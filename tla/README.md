# rust-ws-server in TLA+

TLA+ models of the WebSocket server in `src/`, the TLC runs that check them on
small instances and the TLAPS proofs that hold for every instance. `src/` is the
repository: the server's code is in `src/src/` (named by file below), its README
is `src/README.md` and its integration tests are `src/tests/websocket.rs`.

## 1. The system

A Tokio/Axum server. A client upgrades to a WebSocket with a topic and an
identity (tenant and client id, from a token); it gets what is broadcast on that
topic and what is sent to its identity. Backends use two HTTP endpoints to do
the same sends. Everything lives in one process and in memory.

| Component | Code | State | Operations |
|---|---|---|---|
| Hub: registry and topics | `state.rs` | `topics` (key to broadcast channel), `clients` (identity to queue and connection id) | `subscribe_topic`, `publish`, `register_client`, `unregister_client`, `send_to_client` |
| Connection loop | `server.rs` 233-560 | per connection: one bounded mpsc queue, one topic receiver, three tasks | reader, writer, fanout, `select!`, abort and join |
| Heartbeat and idle timer | `server.rs` 273-393 | the writer's interval, the reader's sleep | ping, restart the sleep, give up |
| HTTP API | `api.rs` | none of its own | `POST /api/publish`, `POST /api/direct` |
| Message rate limits | `server.rs` `RateLimiter`, `state.rs` `check_tenant_rate` | one bucket per connection, one per tenant | one charge per data frame |
| Per-address limiter | `ip_limiter.rs` | address to live count, bucket, last use | `try_acquire` with `reap_idle`, release on drop |
| Admission | `server.rs` `ws_handler`, `handle_socket` | global semaphore, tenant semaphores, address counts | try each, hand the permits to the session, drop |
| Metrics | `metrics.rs` | atomic counters and a gauge | increments; rendering |
| Topic names | `state.rs` `normalize_topic`, `tenant_topic`, `extract_topic` | none | pure functions on strings |
| Authentication | `auth.rs`, `server.rs` 141-170, `api.rs` `resolve_identity` | the verifier, made once | choose key and algorithm, verify a JWT or accept a query identity |
| Wire protocol, configuration, start-up, token minting | `protocol.rs`, `config.rs`, `main.rs`, `lib.rs`, `examples/` | none | encoding, parsing, I/O |

How they interact. `ws_handler` asks the address limiter, the global semaphore,
the authentication and the tenant's semaphore in that order and moves the three
permits into the upgrade callback; `handle_socket` counts the session and runs
`connection_loop`. That subscribes to the topic, registers the identity, offers
`Ready` to its own queue and spawns three tasks. The **reader** handles frames
one at a time and never suspends inside one. The **fanout** copies the topic's
broadcast channel into the mpsc queue with `try_send`. The **writer** owns the
receiving end of that queue and suspends on the socket. `send_to_client` of any
other task reaches the queue through the registry. When the first of the three
tasks ends, the others are aborted and awaited and the identity is unregistered.

What is hard about it:

- three tasks of each connection, the tasks of other connections and the HTTP
  handlers interleave on shared maps; `unregister_client` takes two accesses of
  a map, `reap_idle` a scan and then a removal per victim;
- an aborted task goes on until its next suspension point, and takes its half of
  a channel with it when it is dropped;
- every queue is bounded: the mpsc queue by `client_queue_capacity`, the topic
  by its ring, and a slow subscriber meets both limits;
- early returns with permits held, and an upgrade that never completes;
- a peer that vanishes without closing while the writer waits for its socket;
- token buckets with fractional refills, some of which are thrown away;
- a heartbeat, its answer and a timer that race on every quiet connection;
- names that are stripped, cut, joined and split again by different functions;
- counters that several places increment for one message.

What makes each part correct:

- Hub and connection loop: the registry names only sessions that exist, the
  newest one of an identity in particular; nothing of a session survives it;
  tenants whose ids have no colon do not see each other; a subscriber gets its
  topic in order and without a hole but for a lag that the server has counted;
  the end of one task, or silence of the peer, ends the session.
- Rate limits: the bucket is the sliding-window rule, no more and no less.
- Address limiter and admission: counters are exactly the live permits, on every
  path; the sessions stay within every limit; nobody waits.
- Server: whatever of a session is in the hub is paid for by its permits, and
  the permits of a dead session come back.
- Heartbeat: who is well is kept, who is gone is dropped, in bounded time.
- Names and identities: a broadcast reaches the sessions of its tenant that asked
  for its topic, however spelled, and between tenants whose ids have no colon no
  others; both doors agree on identities.
- API and metrics: answers and counters say what happened.

## 2. The modules

| Module | Models | Shape |
|---|---|---|
| `TopicKeys`, `TopicKeysProofs` | `tenant_topic`, `extract_topic` | operators on sequences |
| `Hub` | `AppState.clients`, `AppState.topics`, `connection_loop`, both API handlers | extends `TopicKeys`: one action per handler or task step |
| `HubProofs` | theorems about `Hub` and its refinement of `TopicStreams` | uses `TopicKeysProofs` |
| `TopicStreams` | what a topic promises a subscriber | abstract specification |
| `Streams` | `Hub` as an implementation of `TopicStreams` | refinement mapping |
| `Traffic` | the message counters and the answers of the API | extends `Hub`: each step with what it counts |
| `Server` | `Traffic` behind `Admission`: a request becomes a connection and pays back | composition, with the fairness of the scheduler |
| `CompositionProofs` | theorems about `Traffic` and `Server`, which are built around `Hub` | |
| `KeepAlive`, `KeepAliveProofs` | the heartbeat of the writer against the sleep of the reader | discrete time |
| `TopicNames` | `normalize_topic` | extends `TopicKeys`: operators on sequences |
| `Identity` | `AuthVerifier`, the identity each door gives a request | operators |
| `Addressing`, `AddressingProofs` | who gets a publication, under which name | extends `TopicNames`, `Identity` |
| `TokenBucket` | `RateLimiter` and `TokenBucket`, the same algorithm twice in the code | operators |
| `RateLimits`, `RateLimitsProofs` | what the reader does with its limiter and the tenant's | extends `TokenBucket` |
| `IpLimiter`, `IpLimiterProofs` | the per-address limiter with concurrent reaping | extends `TokenBucket` |
| `PermitPools` | what a concurrency limit promises | abstract specification |
| `Admission`, `AdmissionProofs` | `ws_handler`, `handle_socket` | implements `PermitPools` three times |
| `MCServer`, `MCHub`, `MCTraffic`, `MCAddressing`, `MCKeepAlive`, `MCRateLimits`, `MCIpLimiter`, `MCAdmission` | instances for TLC | |

**Hub.** A connection of the model is a `connection_id`; `main[c]` is where its
`connection_loop` stands, `live[c]` the spawned tasks that have not finished.
`queue[c]` is the mpsc channel, `holding[c]` the frame the writer has received
and is sending, `wire[c]` what the socket took. A topic is the sequence `log` of
everything broadcast on it, of which the ring retains the last `RingCap`
entries; a receiver is the position `cursor[c]`. A broadcast without receivers
stores nothing, as in `broadcast::Sender::send`. Topics are kept under the keys
that `TenantTopic` makes of a tenant and a name, which are strings with any
characters in them, colons included, so two tenants may share a topic as they do
in the code. A channel is open as long as
its receiver exists, which the writer owns after `Start` (`ChannelOpen`). Steps
that the code takes without an `.await` and on state nobody else can see are one
action; `Subscribe`, `Register` and `Start` are three because other threads use
the topic and the registry between them, and `UnregisterCheck` and
`UnregisterRemove` two because the map is locked for each one alone. `Cancel` is
an abort taking effect at a suspension point: an aborted task may take further
steps before. Frames carry kind, tenant on whose behalf they were sent and
position in the topic; contents are left out. `Reject` stands for the four
replies that leave the session open (too large, tenant limit, invalid JSON,
invalid MessagePack). `Workload` names the kinds of calls an instance makes and
`MaxCalls` bounds them; `first`, `skipped`, `ended`, `latest` and `wire` are
history.

**TopicStreams, Streams.** The abstract specification has subscribers that read
the positions of their topic upwards from where they subscribed, and positions
recorded as missed; no queue, ring or task. `Streams` maps `Hub` to it:
what a peer got is what its socket took, and what it missed is what
`RecvError::Lagged` reported to the fanout. `WriterSends` of a broadcast is
`Deliver`, `FanoutLags` is `Miss`, and everything between is a stutter.

**Traffic.** Every action of `Hub` conjoined with its effect on `messages_in`,
`messages_out`, `dropped_messages` and `protocol_errors`, and on the answer of
the API. `Uncounted` marks the steps that count nothing. A `Reject` that is the
tenant's limit is no protocol error, so its count is 0 or 1; a WebSocket-level
ping counts nothing where a ping event counts one message in.

**Server.** A connection and the request it comes from share a name. `Begins` is
`handle_socket` calling `connection_loop`, `Returns` its going on after
`connection_loop` returned; `AtWork` is what the hub and the API do otherwise,
with what `Traffic` counts of it, and `AtTheDoor` what `ws_handler` does.
`Admission` is instantiated (`Door`), so its actions are used unchanged.

**KeepAlive.** `alarm` is the deadline of the reader's sleep, which each frame
replaces; `beat` is the interval's next tick, which is made up for at once when
missed, as Tokio's default does. The writer cannot beat while a ping waits for
the socket (`sending`). The peer is well, stalled (it reads nothing) or gone;
`Tick` lets time pass when nothing is due, so what is due at one instant comes
in any order and before the next.

**TopicKeys, TopicNames.** A string is a sequence of characters, of which some are
blanks and one each the slash and the colon. The operators do what the code's
`format!` and `split_once`, `trim`, `trim_start_matches` and `chars().take(128)`
do.

**Identity.** A token is what a verifier can tell of it: its key, issuer, claims
and whether it has expired. `Verifier` is `from_config`, including the guess of
the algorithm from the text of the PEM and a PEM that cannot be read, which
leaves authentication off. The checks inside `jsonwebtoken` and their order are
external.

**Addressing.** Sessions and API calls with the two above: the key a session is
filed under, the receivers of a publication and the topic it names. Queues are
left to `Hub`, which has topics that are normalised already.

**TokenBucket, RateLimits.** Time is in ticks; a token is `TicksPerSecond` parts,
so a tick refills exactly `rate` parts and the arithmetic is exact. The f64
rounding of the code is not modelled. A frame first charges the connection's
bucket, then is measured, then charges the tenant's; each outcome is an action.

**IpLimiter.** `try_acquire` is a `Scan` for idle entries, one `Reap` per victim
(the `remove_if` with its second test) and one action for what happens under
the entry's lock: `RateLimited`, `ConcurrencyLimited` or `Admit`. `Release` is
the drop of the permit with its saturating decrement. An entry is refreshed
(`seen`) by an admission and a release, not by a refusal, as in the code.

**Admission.** Each `try_acquire` and each early return is an action. Permits are
dropped one at a time after the handler or the session is done, in any order,
which covers every drop order of the paths. The address limit is a pool that may
also refuse for its rate, which is what `IpLimiter` is shown to be. Whether a
token verifies is a constant of the request.

**PermitPools.** Users, pools and a cap: taking a permit needs room, giving it
back makes room. `IpLimiter` implements it with one pool per address, and
`Admission` with one for the server, one per address and one per tenant.

## 3. The runs

| Run | Instance | Shows |
|---|---|---|
| `session` | one request and its session, queue 2, ring 2, four calls, silence, a rate limit, fairness | `StreamInOrder`, `NoSilentGap`, `ReadyBeforeBroadcasts`, `ImplementsStreams`, `DropsAreVisible`, `SlotsComeBack`, `EndedTaskClosesSession`, `StreamCatchesUp` |
| `server` | two requests of one identity, three tenants, queue 1, one call | `TypeOK`, `NoStaleHandle`, `NoOrphanTask`, `TenantIsolation`, `PresenceIsPaidFor`, `DropsAreVisible` |
| `addressing` | two sockets, three tenants, nine spellings, three settings | `DeliveredToOwnTopic`, `NamesRoundTrip`, `SpellingDoesNotMatter`, `BothDoorsAgree` |
| `keepalive` | five timings around the boundary, ten instants | `HealthyPeerKept`, `ZombieIsDropped`, `OnlyIdleIsDropped` |
| `rates` | two connections of one tenant, six instants, thirds of a token | `TypeOK`, `TenantRateHolds`, `TenantExact`, `LimitedExactly` |
| `ip_limiter` | three requests of two addresses, five instants, batch of one | `TypeOK`, `CountIsPermits`, `RateHolds`, `ImplementsPools` |
| `admission` | four requests, one without a valid token, limits 2/2/1 | `TypeOK`, `PermitsAccounted`, `SessionsWithinCaps`, `GaugeIsSessions`, `ImplementsPools`, `EveryRequestAnswered` |
| `toctou` | a reconnect without any call | finding: `NewestReachable` fails |
| `lasterror` | one connection that is rate limited | finding: `RateLimitReported` fails |
| `notfound` | one connection, queue 1, one direct message | finding: `NotFoundMeansOffline` fails |
| `outonce` | one connection and one publication of the API | finding: `EachMessageOutOnce` fails |
| `eddsa` | every setting of the verifier, one token per key | finding: `GoodTokenAccepted` fails |

Why these bounds are enough to be interesting. A ring and a queue of two with
four calls let the queue fill and drain and the fanout lag, catch up and lag
again. Two connections of one identity are the least that race in the registry;
each connection is opened once because its id is never used again. They are
interchangeable, and permuting them is sound because `server` checks invariants
only. Its queue of one is full as soon as `Ready` waits in it, and full before
when a direct message has come first. Its tenants are `a`, of which the two
connections are, `b`, and `a:b`, whose topic `n` has the key of `a`'s topic
`b:n`, so a topic is in fact shared between tenants. A limit of the server that is
not configured is no constant of its own but a limit that nobody reaches; the
rate of an address alone can be unset. In `addressing` a name keeps `MaxLen = 3` characters
instead of 128: one of the names is longer, the others have blanks and slashes
in either order, a colon or nothing at all, and one tenant is another one with a
colon and more. The timings of `keepalive` fit by one tick, by none and not at
all, and ten instants hold two idle timeouts. `TicksPerSecond = 3` with rates of
one and two makes every refill a fraction and the sixth instant exceeds a full
refill of either bucket. `IdleTtl = 1` and five instants let an address be
admitted, released, become idle, be found by one request and come back through
another before the removal. In `admission` each limit is below the number of
requests that compete for it.

The bounds are `MaxCalls` in `Hub`, `MaxNow` in `KeepAlive`, `MaxNow` and
`MaxFrames` in `RateLimits`, `MaxNow` and `MaxTries` in `IpLimiter`. `Hub`,
`Server` and `Admission` end in a named final state and are checked for
deadlock; the three runs with a clock stop when it runs out, which their cfg
says.

What the properties mean beyond their names:

- `NoSilentGap` and `StreamInOrder` together are the delivery contract of a
  topic: what a peer is sent is increasing, and a hole is one that `recv` reported
  as `Lagged`, or comes with the end of the session. Who learns of a lag is the
  server: the fanout counts and logs it (`server.rs:311`), the peer is sent
  nothing. It holds because an overflow ends the fanout rather than drops a
  message (`FanoutOverflows`). `Delivered` is what the hub has accepted for a
  peer: frames on the wire, in the writer's hands and still queued.
- `TenantIsolation` states the condition under which the code isolates tenants.
  `tenant_topic` puts a colon between tenant and topic and escapes none
  (`state.rs:206-210`), and no line keeps one out of a claim or of
  `?tenant_id=`. Whatever the ids, direct messages and replies stay with their
  tenant. Broadcasts do so between tenants whose ids have no colon; `server` has
  one whose id has, of which peers of `a` do get a broadcast.
- `StreamCatchesUp` says that the fanout keeps up with the topic: what is queued
  need not be read by a peer that reads nothing.
- `ReadyBeforeBroadcasts`: the subscription exists before `Ready` is queued, but
  the fanout does not. Direct messages can precede `Ready`; no document promises
  otherwise.
- `ImplementsStreams` says the same of every step, and adds that nothing is sent
  twice and nothing is both sent and reported as missed.
- `PresenceIsPaidFor` is what makes the three limits limits on work: no task,
  registry entry or topic receiver is left when the permits are dropped.
  `SlotsComeBack` is its counterpart: they are dropped, if the peer is dead.
- `DropsAreVisible` is one-sided and has its exceptions. The counter bounds
  nothing: a lag counts one whatever it skipped. It does not stay at zero when a
  subscription has lagged, when a session was ended for its full queue, or when
  one whose writer lives has missed its `Ready` or a broadcast it has read. What
  dies in the queue of a writer that ends is not counted, nor are a pong to a
  WebSocket ping and a Close that find the queue full.
- `HealthyPeerKept` needs heartbeat and answer to fit strictly into the idle
  timeout; at equality the sleep may win, which the run `keepalive` reaches in
  its fourth timing.
- `DeliveredToOwnTopic` and `NamesRoundTrip` hold between tenants without a
  colon in their ids, as `TenantIsolation` does of broadcasts. `addressing` has
  one with a colon: `a:a` with topic `a` is `a` with topic `a:a`.
- `TenantExact` and `LimitedExactly` are equivalences with a definition that
  mentions no bucket: a frame is refused if and only if some window of the
  frames before it, with it, holds more than the burst and the refill over its
  length. The frames that count are the handled ones for a tenant and all data
  frames for a connection.
- `RateHolds` assumes that the bucket of an address would be full again after
  `IDLE_TTL` (`ReapIsTransparent`). A burst of more than 300 seconds' worth of
  refill breaks that: the reaper then gives the address a full bucket early.
- `SessionsWithinCaps` is about the sessions and not about the permits: it needs
  the permits to be moved into the upgrade callback.

### Fairness

`Server` (`ServerFairness`): weak fairness of the handler, of the steps of
`connection_loop` once it has begun and of what `handle_socket` does after it,
of the fanout, of the drop of an aborted task and of the idle timer of a peer
that has fallen silent. The justification is Tokio's scheduler, which runs every
woken task, and its timer. Nothing is assumed of a peer, of frames that arrive,
of an upgrade's completion, or of the writer: a socket may never take another
byte. So `SlotsComeBack` does not rest on the writer's failing. `Admission`:
handlers run to their end, because they only use `try_acquire`, and permits are
dropped; a session may last for ever. In `KeepAlive` time does not pass beyond
what is due, which gives its bounds as invariants.

### Findings

1. `NewestReachable` (`state.rs:172`). `unregister_client` compares the
   connection id with a `get` and removes the key with a second access. A
   reconnect of the same client between the two replaces the handle, and its
   fresh entry is removed. The new session runs on, gets its broadcasts, and is
   reported as offline to whoever sends to it, which `src/README.md:482`
   documents as meaning that the target is not connected. `NoStaleHandle` holds
   nevertheless: the race loses entries, it never leaves wrong ones.
2. `RateLimitReported` (`server.rs:410`). A limited client is sent an error and
   a Close through its queue, and then the writer is aborted with both possibly
   still in it. `tests/websocket.rs:244` asserts that the error is seen.
3. `NotFoundMeansOffline` (`state.rs:184`). `send_to_client` returns false for a
   client that is not registered and for one whose queue is full, and the API
   answers 404 `client_not_found` to both. `src/README.md:493` documents the 404
   as a target that is offline or of another tenant.
4. `GoodTokenAccepted` (`auth.rs:82`). EdDSA is chosen only if the PEM text
   contains `ED25519` or `Ed25519`, which the PEM of an Ed25519 public key does
   not. The verifier then expects RS256 of an Ed25519 key and rejects every
   token. `src/README.md:135` names EdDSA PEMs as supported.

5. `EachMessageOutOnce` (`api.rs:103`). `/api/publish` counts a message out for
   every receiver of the topic, before any of them has it, and `/api/direct` one
   for what it queued (`api.rs:136`); the writer counts the same frame again when
   it sends it (`server.rs:291`). `metrics.rs:79` describes the counter as
   outbound websocket messages and `api.rs:101` as one per receiver. With nothing
   lost and nothing left to send, the counter is above the number of frames by
   those that the API sent.

Observations that contradict a document and have no run of their own:

- Tenants are not isolated by the prefix if the id of one has a colon. The comment
  at `state.rs:207` and `src/README.md:371` claim it of all tenants. (Topics of the
  same name, of which `src/README.md:208` speaks, do stay apart.)
  `TenantIsolation` and `DeliveredToOwnTopic` state the condition, and the runs
  `server` and `addressing` have tenants that do not meet it.
- `receivers` in the answer of `/api/publish` is the number of receivers of the
  channel, which may lag, overflow or end before they get the message.
  `src/README.md:458` documents it as the clients that the message was delivered
  to.
- A public key that is configured but cannot be read leaves authentication off.
  `src/README.md:135` says that configuring it turns authentication on, and the
  comment at `auth.rs:71` that it is off if no key is set.

Observations that contradict no document: a request that its tenant's limit is
about to reject holds a permit of the server meanwhile, for which another tenant's
request can be turned away (`server.rs:119`). Normalising a topic twice may change
it again: of `/ a` the first time leaves a blank in front. A message of the API
names the topic as its caller spelled it, one of a session names it normalised
(`api.rs:87`).

## 4. The proofs

All proofs are checked by TLAPS to the last leaf. Every invariant and
action property that a passing run checks is a theorem, and so are the
refinements: of `TopicStreams` by `Hub`, and of `PermitPools` by `IpLimiter` and
three times by `Admission`. Liveness is left to TLC. `Hub`, `Server`,
`Traffic` and `KeepAlive` are proved for every number of connections and every
capacity or timing, the limits for every finite set of requests and every number.

| Theorem | States | Inductive invariant |
|---|---|---|
| `TypeCorrect` | `Hub`: `Spec => []TypeOK` | `TypeOK` itself; the bound on the queue needs every push to be an `Offer` or guarded by `CanPush` |
| `RegistryCorrect` | `Hub`: `Spec => []NoStaleHandle` | `NoStaleHandle` with `TypeOK`: only `Register` and `UnregisterRemove` write the registry, and a connection closes without removing its entry only if the entry is not its own |
| `NoOrphans` | `Hub`: `Spec => []NoOrphanTask` | `SessionInv`: tasks exist only from `Start` to the join, and a queue whose receiver is gone is empty. `NoOrphanTask` alone says nothing of the phases before, so it is not inductive |
| `Isolation` | `Hub`: `Spec => []TenantIsolation`, broadcasts between tenants without a colon, direct messages and replies of all | with `LogOwned`: the log of a topic key holds only messages of tenants that have the key, of which by `KeysApart` at most one has no colon. Forwarding copies from the log, so isolation of the queues does not follow from the queues; direct messages need `NoStaleHandle` |
| `InOrder`, `NoGap`, `ReadyIsFirst` | `Hub`: `Spec => []StreamInOrder`, `[]NoSilentGap`, `[]ReadyBeforeBroadcasts` | `StreamInv`, see below |
| `StreamsImplemented` | `Hub`: `Spec => ImplementsStreams` | `StreamInv` with `OneHeld`: the writer has at most one frame in its hands, so what it sends is next in the stream |
| `ServerHub`, `ServerStreams`, `ServerDrops` | `Server`: `ServerSpec =>` all of the above, isolation under the same condition, and `[]DropsAreVisible` | none: every step of `Server` is a step of `Traffic` or leaves it alone (`StepIsTrafficStep`), and one of `Traffic` is one of `Hub` (`CountedStepIsHubStep`), so the theorems carry over |
| `PresencePaid` | `Server`: `ServerSpec => []PresenceIsPaidFor` | `Seated`: a connection that is neither new nor closed belongs to a request in its session. With `AdmissionInv` of the door, of which every step of `Server` is a step or a stutter |
| `DropsCounted` | `Traffic`: `TrafficSpec => []DropsAreVisible` | `LossInv`: as long as nothing is counted as dropped every session is `Complete`, which says of a connection without a writer less than of one with |
| `SpellingsMeet`, `OwnTopic`, `TopicNames` | `Addressing`: `Spec => []SpellingDoesNotMatter`, `[]DeliveredToOwnTopic`, `[]NamesRoundTrip` | `Filed`: a session is stored under the key of its tenant and normalised topic, and the latest publication has the receivers of such a key. The properties follow with `OneName` and `GoodName`, `KeysApart` and `RoundTrip` |
| `KeysApart`, `RoundTrip` | `TopicKeys`: facts about `tenant_topic` and `extract_topic`, for all strings | none; the first colon of a joined key is where the tenant ends |
| `DoorsAgree` | `Addressing`: `Spec => []BothDoorsAgree` | `Agreed`, of each session |
| `DeadAreDropped`, `IdleAreDropped` | `KeepAlive`: `Spec => []ZombieIsDropped`, `Spec => OnlyIdleIsDropped` | `SleepInv`: the sleep ends `idle_timeout` after the last frame and time does not pass its end |
| `HealthyAreKept` | `KeepAlive`: `Spec => []HealthyPeerKept` | `KeepInv`: pings follow at the heartbeat's distance and the last frame came at most a heartbeat before the oldest that is unanswered (`Paced`). That the connection is open does not say how late the next pong may be |
| `AdmissionTypes`, `NoPermitLost`, `GaugeIsExact`, `CapsHold` | `Admission`: `Spec => []TypeOK`, `[]PermitsAccounted`, `[]GaugeIsSessions`, `[]SessionsWithinCaps` | `AdmissionInv`: with `HeldByStep`, which permits a request holds at each step of the handler. That permits add up says nothing of who holds them, and a session is within the caps because it holds all three |
| `LimitsArePools` | `Admission`: `Spec => ImplementsPools` | `AdmissionInv`: a free permit means fewer holders than the limit |
| `LimiterTypes`, `CountIsExact`, `LimiterIsPool` | `IpLimiter`: `Spec => []TypeOK`, `[]CountIsPermits`, `ImplementsPools` | `LimiterInv`: with `ClockInv`, no entry or scan is younger than now. The saturating decrement is exact because a holder's entry exists and counts it |
| `RateIsKept` | `IpLimiter`: `Spec => []RateHolds`, if `ReapIsTransparent` and `MaxConcurrent > 0` | `RateInv`: what a bucket holds is at most what every window that ends now leaves over; without an entry every window leaves a whole bucket over |
| `RateTypes`, `TenantRateIsKept`, `TenantIsExact`, `LimitedIsExact` | `RateLimits`: `Spec => []TypeOK`, `[]TenantRateHolds`, `[]TenantExact`, `[]LimitedExactly` | `RateInv`, see below |
| `PoolsKeepCap` | `IpLimiter`: no address has more than `MaxConcurrent` holders | the cap itself, with `LimiterInv`, by which every step is one of the pools: what `LimiterIsPool` and the cardinality of one more holder give |

The arguments that are more than bookkeeping:

- **Streams** (`Streamed`). The wire, the frame in the writer's hands and the
  queue are one sequence (`Sent`). Its broadcasts lie in increasing order between
  the subscription and the cursor, below each of them every position was sent or
  skipped, and while writer and fanout both live that holds up to the cursor.
  The last part is what forwarding needs, and it ends with the fanout: a full
  queue stops it after the cursor has moved, and nothing is appended after that.
- **Losses** (`Complete`). That nothing was counted must give that nothing was
  missed, of every session at once. Each way to lose a frame of a session whose
  writer lives is a step that counts one: an offer to a full queue, a lag, an
  overflow. The frames that die with a writer are lost uncounted, which is why
  `DropsAreVisible` speaks of sessions whose writer lives.
- **A bucket is the window rule** (`Exact`, `Asked`). The tokens of a bucket are
  the least that any window ending now leaves over of burst and refill, or the
  whole burst. `Measures` says both halves, at most every window and equal to
  one. The second half is what `TenantExact` and `LimitedExactly` need and
  `TenantRateHolds` does not.
- **Reaping.** An entry is removed only if it was not seen for longer than
  `IDLE_TTL`, and all that passed the rate check of an address without permits
  did so no later than it was last seen. So a window over the removal spans a
  full refill. The second half needs `MaxConcurrent > 0`: with
  `ip_max_concurrent = 0` a request passes the rate check, is refused for
  concurrency without refreshing `last_seen`, and its entry is reaped with the
  bucket it has charged. Nobody is admitted then, so it does no harm, and the
  theorem excludes it.
- **Spellings** (`CutStart`, `CutEnd`). What is stripped from a string is
  determined by the one position at which a character is kept first or last. The
  position is a least number (`Least`, from the well-foundedness of `<`). Where
  stripping one more character makes no difference then is a matter of shifting
  it.

`RegistryCorrect` deserves a note. Its second case is where the two accesses of
`unregister_client` matter: between `UnregisterCheck` and `UnregisterRemove`
another connection may take the entry, and the removal then empties it. An empty
entry is never stale, so the theorem holds; that the entry is lost is finding 1.

The proofs assume of the constants what the modules state: `IdentityAssumption`
(the identity maps are functions into their sets), `CapacityAssumption`
(capacities are positive, as the channels demand), `StringAssumption` (tenant ids
and topics are strings, with any characters),
`DoorAssumption`, `AdmissionAssumption` and `LimiterAssumption` (finitely many
requests, each with an address and a tenant, and limits that are natural
numbers, zero included), `TickAssumption` and `RateAssumption` (a second has
ticks; rates and bursts are natural numbers, which the buckets raise to one),
`CharAssumption`, `NameAssumption` and `AddressingAssumption` (blanks, slash and
colon are different characters; names and tenants are strings) and `TimingAssumption`
(heartbeat and timeout are positive). What `Admission` assumes is
proved of the server by `FrontAssumption`. No theorem assumes anything of the
colons in an id: where they matter the property says so. `RateIsKept` has the two
hypotheses of the table besides, and the facts about keys have theirs.

Model-checked only:

- `SlotsComeBack`, `EndedTaskClosesSession`, `StreamCatchesUp` and
  `EveryRequestAnswered`: liveness under fairness is out of this prover's reach.
- The five findings, which are violations.

## 5. What is not modelled

- Wire protocol: encodings and error texts. `Hub` has an accepted event or a
  rejected frame, and no property depends on more.
- Configuration: parsing of flags and environment. The values are the CONSTANTS.
- Start-up, shutdown, logging, the health endpoints and the token-minting
  example: I/O around the system. Graceful shutdown does not touch upgraded
  sockets.
- Metrics: the four counters that break rejections down by reason, which are
  increments beside the ones that are modelled, and the text of `/metrics`.
- Inside `jsonwebtoken`: the cryptography, the leeway of the expiry, and tokens
  without an issuer, of which the code says nothing. A token is checked at the
  handshake only; a session outlives its token.
- PEMs of elliptic-curve keys other than Ed25519, which no document names.
- `resolve_client_ip`: header parsing; the address of a request is a constant.
- f64 rounding in the buckets; the truncation of `ip_max_concurrent` to u32.
- What else ends a session is left out of `KeepAlive`, and what pings carry is
  left out of `Hub`: one that is sent changes nothing there, one that fails is a
  `WriterFails`.
- A panic of `connection_loop`, which a channel capacity of zero causes and
  which would leave the gauge one too high; `CapacityAssumption` excludes it.
- Topics and tenant buckets are never removed: memory growth is not a property
  of this state.

## 6. Plan

The components above that are modelled are complete, and so are the theorems
about their safety. What would add to them:

1. `Hub`: what does hold of `NewestReachable`. The newest handle of a running
   session is lost in one way only, a removal by an older connection of the same
   identity that checked before it registered (finding 1); an action property
   would say so of every step, and its proof that there is no second way.
2. `KeepAlive`, `Server`: steps that fairness needs, as ordinary theorems (what
   must be true of a state for an aborted task to be dropped or a permit to be
   given back), so that only the scheduling is left to TLC.
