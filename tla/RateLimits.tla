----------------------------- MODULE RateLimits -----------------------------
(***************************************************************************)
(* Inbound message rates: what the reader task of every connection does    *)
(* with an arriving data frame before it handles it (src/src/server.rs,    *)
(* connection_loop) and the per-tenant bucket that all connections of a    *)
(* tenant share (AppState::check_tenant_rate, src/src/state.rs).           *)
(***************************************************************************)
EXTENDS TokenBucket, Sequences, FiniteSets

CONSTANTS
    Conns,        \* connections
    Tenants,      \* tenant ids
    TenantOf,     \* [Conns -> Tenants]
    Rate,         \* max_messages_per_second
    Burst,        \* message_burst
    TenantRate,   \* tenant_max_messages_per_second
    TenantBurst,  \* tenant_message_burst, its default resolved
    MaxNow,       \* bound on the clock
    MaxFrames     \* bound on the frames of a connection

ASSUME RateAssumption ==
    /\ TenantOf \in [Conns -> Tenants]
    /\ {Rate, Burst, TenantRate, TenantBurst, MaxNow, MaxFrames} \subseteq Nat

VARIABLES
    now,      \* the clock, in ticks
    phase,    \* [Conns -> Phases]: the reader task
    own,      \* [Conns -> Buckets]: rate_limiter of the reader
    shared,   \* [Tenants -> Buckets or NoBucket]: tenant_rate_limits
    arrived,  \* history: [Conns -> Seq(Nat)], when data frames arrived
    handled   \* history: [Tenants -> Seq(Nat)], when frames were handled

vars == <<now, phase, own, shared, arrived, handled>>

Phases   == {"new", "open", "limited", "closed"}
NoBucket == [capacity |-> 0, rate |-> 0, tokens |-> 0, last |-> 0]

Init ==
    /\ now = 0
    /\ phase = [c \in Conns |-> "new"]
    /\ own = [c \in Conns |-> NoBucket]
    /\ shared = [t \in Tenants |-> NoBucket]
    /\ arrived = [c \in Conns |-> <<>>]
    /\ handled = [t \in Tenants |-> <<>>]

Tick ==
    /\ now < MaxNow
    /\ now' = now + 1
    /\ UNCHANGED <<phase, own, shared, arrived, handled>>

Open(c) ==
    /\ phase[c] = "new"
    /\ phase' = [phase EXCEPT ![c] = "open"]
    /\ own' = [own EXCEPT ![c] = NewBucket(Rate, Burst, now)]
    /\ UNCHANGED <<now, shared, arrived, handled>>

\* A data frame arrives and takes a token of the connection's own bucket.
Arrives(c) ==
    /\ phase[c] = "open"
    /\ Len(arrived[c]) < MaxFrames
    /\ arrived' = [arrived EXCEPT ![c] = Append(@, now)]
    /\ own' = [own EXCEPT ![c] = Consume(@, now)]

\* The connection's own limit closes it, before the tenant's bucket is asked.
\* Mutant TooManySpares: the frame is refused, the connection stays.
TooManySpares(c) ==
    /\ Arrives(c)
    /\ ~Admits(own[c], now)
    /\ UNCHANGED <<now, phase, shared, handled>>
TooMany(c) ==
    /\ Arrives(c)
    /\ ~Admits(own[c], now)
    /\ phase' = [phase EXCEPT ![c] = "limited"]
    /\ UNCHANGED <<now, shared, handled>>

\* message_too_large: only text frames are measured, before the tenant check.
TooLarge(c) ==
    /\ Arrives(c)
    /\ Admits(own[c], now)
    /\ UNCHANGED <<now, phase, shared, handled>>

\* The tenant's bucket is made by the first frame that asks for it.
\* Mutant FreshShared: every frame is measured by a new bucket.
FreshShared(t) == NewBucket(TenantRate, TenantBurst, now)
Shared(t) == IF shared[t] = NoBucket THEN NewBucket(TenantRate, TenantBurst, now)
                                     ELSE shared[t]

TenantTooMany(c) ==
    LET t == TenantOf[c] IN
    /\ Arrives(c)
    /\ Admits(own[c], now)
    /\ ~Admits(Shared(t), now)
    /\ shared' = [shared EXCEPT ![t] = Consume(Shared(t), now)]
    /\ UNCHANGED <<now, phase, handled>>

Handle(c) ==
    LET t == TenantOf[c] IN
    /\ Arrives(c)
    /\ Admits(own[c], now)
    /\ Admits(Shared(t), now)
    /\ shared' = [shared EXCEPT ![t] = Consume(Shared(t), now)]
    /\ handled' = [handled EXCEPT ![t] = Append(@, now)]
    /\ UNCHANGED <<now, phase>>

\* The peer leaves, or the session ends for another reason.
Leaves(c) ==
    /\ phase[c] = "open"
    /\ phase' = [phase EXCEPT ![c] = "closed"]
    /\ UNCHANGED <<now, own, shared, arrived, handled>>

Next ==
    \/ Tick
    \/ \E c \in Conns : \/ Open(c) \/ TooMany(c) \/ TooLarge(c)
                        \/ TenantTooMany(c) \/ Handle(c) \/ Leaves(c)

Spec == Init /\ [][Next]_vars

-----------------------------------------------------------------------------
(* Properties.                                                             *)

\* Every variable has its type; no bucket holds a negative amount of tokens.
TypeOK ==
    /\ now \in Nat
    /\ phase \in [Conns -> Phases]
    /\ own \in [Conns -> Buckets]
    /\ shared \in [Tenants -> Buckets]
    /\ arrived \in [Conns -> Seq(Nat)]
    /\ handled \in [Tenants -> Seq(Nat)]

\* A stream of times respects a burst and a rate if no window of it holds more
\* than the burst and what the rate adds over its length.
Window(times, i, j, rate, burst) ==
    (j - i + 1) * Token <= AtLeastOne(burst) * Token
                             + AtLeastOne(rate) * (times[j] - times[i])
Respects(times, rate, burst) ==
    \A i, j \in 1..Len(times) : i <= j => Window(times, i, j, rate, burst)

\* However a tenant spreads its load over connections that come and go, the
\* frames handled for it respect its aggregate rate in every window.
TenantRateHolds ==
    \A t \in Tenants : Respects(handled[t], TenantRate, TenantBurst)

\* The bucket is the window rule: a tenant's next frame is admitted exactly if
\* all its handled frames together with it still respect the rate, so nobody is
\* refused for frames that were themselves refused or for time that has passed.
TenantExact ==
    \A t \in Tenants : Admits(Shared(t), now)
        <=> Respects(Append(handled[t], now), TenantRate, TenantBurst)

\* The limiter closes a connection exactly when the frames it sent, the handled
\* ones and those rejected as too large or by the tenant's limit alike, exceed
\* its own rate in some window; load of other connections never closes it.
LimitedExactly ==
    \A c \in Conns : phase[c] \in {"open", "limited"} =>
        (phase[c] = "limited" <=> ~Respects(arrived[c], Rate, Burst))
=============================================================================
