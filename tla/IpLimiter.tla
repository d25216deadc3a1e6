----------------------------- MODULE IpLimiter -----------------------------
(***************************************************************************)
(* The per-address connection limiter, src/src/ip_limiter.rs: a map from   *)
(* addresses to a counter of live permits and a token bucket, whose idle   *)
(* entries every try_acquire first reaps.  Requests run concurrently: the  *)
(* scan for victims, each removal, the admission and the release are       *)
(* separate accesses of the map.                                           *)
(***************************************************************************)
EXTENDS TokenBucket, Sequences, FiniteSets

CONSTANTS
    Requests,        \* requests; one is made again after its permit is dropped
    Ips,             \* source addresses
    IpOf,            \* [Requests -> Ips]
    MaxConcurrent,   \* ip_max_concurrent
    RateConfigured,  \* whether ip_connection_rate is set
    Rate,            \* refill_per_second
    Burst,           \* ip_rate_burst, its default resolved
    IdleTtl,         \* IDLE_TTL, in ticks
    ReapBatch,       \* victims of one reap_idle at most (64)
    MaxNow,          \* bound on the clock
    MaxTries         \* bound on the calls of try_acquire

ASSUME LimiterAssumption ==
    /\ IsFiniteSet(Requests)
    /\ IpOf \in [Requests -> Ips]
    /\ RateConfigured \in BOOLEAN
    /\ {MaxConcurrent, Rate, Burst, IdleTtl, ReapBatch, MaxNow, MaxTries} \subseteq Nat

VARIABLES
    now,      \* the clock, in ticks
    states,   \* [Ips -> IpState or Absent]
    pc,       \* [Requests -> {"out", "reaping", "holding"}]
    asof,     \* [Requests -> Nat]: `now' of the request's reap_idle
    victims,  \* [Requests -> SUBSET Ips]: what it still has to try to remove
    tries,    \* calls of try_acquire so far
    passed    \* history: [Ips -> Seq(Nat)], when the rate check was passed

vars == <<now, states, pc, asof, victims, tries, passed>>

IpStates == [concurrent : Nat, bucket : Buckets, seen : Nat]
Absent   == [concurrent |-> 0, bucket |-> NewBucket(0, 0, 0), seen |-> -1]

Init ==
    /\ now = 0
    /\ states = [ip \in Ips |-> Absent]
    /\ pc = [r \in Requests |-> "out"]
    /\ asof = [r \in Requests |-> 0]
    /\ victims = [r \in Requests |-> {}]
    /\ tries = 0
    /\ passed = [ip \in Ips |-> <<>>]

Tick ==
    /\ now < MaxNow
    /\ now' = now + 1
    /\ UNCHANGED <<states, pc, asof, victims, tries, passed>>

\* Mutant SeenLongAgo: live permits do not keep an entry.
SeenLongAgo(state, t) == state # Absent /\ t - state.seen > IdleTtl
Idle(state, t)        == state # Absent /\ state.concurrent = 0 /\ t - state.seen > IdleTtl

\* reap_idle, the scan: up to ReapBatch idle entries, in the map's own order.
\* An entry that stops being idle at `t' never is again at `t', so the scan may
\* be taken as one step: each removal checks again.
Scan(r) ==
    LET idle == {ip \in Ips : Idle(states[ip], now)} IN
    /\ pc[r] = "out"
    /\ tries < MaxTries
    /\ tries' = tries + 1
    /\ pc' = [pc EXCEPT ![r] = "reaping"]
    /\ asof' = [asof EXCEPT ![r] = now]
    /\ \E v \in SUBSET idle :
         /\ Cardinality(v) = Smaller(ReapBatch, Cardinality(idle))
         /\ victims' = [victims EXCEPT ![r] = v]
    /\ UNCHANGED <<now, states, passed>>

\* reap_idle, remove_if: the entry goes only if it is idle still.
\* Mutant StillVictim: the removal does not check again.
StillVictim(r, ip) == TRUE
StillIdle(r, ip)   == Idle(states[ip], asof[r])

Reap(r, ip) ==
    /\ ip \in victims[r]
    /\ victims' = [victims EXCEPT ![r] = @ \ {ip}]
    /\ states' = IF StillIdle(r, ip) THEN [states EXCEPT ![ip] = Absent] ELSE states
    /\ UNCHANGED <<now, pc, asof, tries, passed>>

\* The entry that try_acquire finds or makes.
Entry(ip) ==
    IF states[ip] # Absent THEN states[ip]
    ELSE [concurrent |-> 0, bucket |-> NewBucket(Rate, Burst, now), seen |-> now]

\* The entry after the rate check, which a refusal for concurrency keeps.
\* Mutant Uncharged: passing the check takes no token.
Uncharged(ip)  == Entry(ip)
Charged(ip)    == IF RateConfigured
                  THEN [Entry(ip) EXCEPT !.bucket = Consume(@, now)] ELSE Entry(ip)
PassesRate(ip) == RateConfigured => Admits(Entry(ip).bucket, now)
Passes(ip) ==
    passed' = IF RateConfigured THEN [passed EXCEPT ![ip] = Append(@, now)] ELSE passed

\* The rest of try_acquire runs under the map entry's lock.
Acquiring(r) == pc[r] = "reaping" /\ victims[r] = {}

RateLimited(r) ==
    LET ip == IpOf[r] IN
    /\ Acquiring(r)
    /\ ~PassesRate(ip)
    /\ states' = [states EXCEPT ![ip] = Charged(ip)]
    /\ pc' = [pc EXCEPT ![r] = "out"]
    /\ UNCHANGED <<now, asof, victims, tries, passed>>

ConcurrencyLimited(r) ==
    LET ip == IpOf[r] IN
    /\ Acquiring(r)
    /\ PassesRate(ip)
    /\ Entry(ip).concurrent >= MaxConcurrent
    /\ states' = [states EXCEPT ![ip] = Charged(ip)]
    /\ pc' = [pc EXCEPT ![r] = "out"]
    /\ Passes(ip)
    /\ UNCHANGED <<now, asof, victims, tries>>

Admit(r) ==
    LET ip == IpOf[r] IN
    /\ Acquiring(r)
    /\ PassesRate(ip)
    /\ Entry(ip).concurrent < MaxConcurrent
    /\ states' = [states EXCEPT ![ip] =
                    [Charged(ip) EXCEPT !.concurrent = @ + 1, !.seen = now]]
    /\ pc' = [pc EXCEPT ![r] = "holding"]
    /\ Passes(ip)
    /\ UNCHANGED <<now, asof, victims, tries>>

\* IpPermit is dropped.  An entry that is gone, or a counter at zero, is left.
Release(r) ==
    LET ip == IpOf[r] IN
    /\ pc[r] = "holding"
    /\ pc' = [pc EXCEPT ![r] = "out"]
    /\ states' = IF states[ip] = Absent THEN states
                 ELSE [states EXCEPT
                         ![ip].concurrent = IF @ > 0 THEN @ - 1 ELSE 0,
                         ![ip].seen = now]
    /\ UNCHANGED <<now, asof, victims, tries, passed>>

Next ==
    \/ Tick
    \/ \E r \in Requests : \/ Scan(r) \/ RateLimited(r) \/ ConcurrencyLimited(r)
                           \/ Admit(r) \/ Release(r)
                           \/ \E ip \in Ips : Reap(r, ip)

Spec == Init /\ [][Next]_vars

-----------------------------------------------------------------------------
(* Properties.                                                             *)

\* Every variable has its type; no bucket holds a negative amount of tokens.
TypeOK ==
    /\ now \in Nat
    /\ states \in [Ips -> IpStates \union {Absent}]
    /\ pc \in [Requests -> {"out", "reaping", "holding"}]
    /\ asof \in [Requests -> Nat]
    /\ victims \in [Requests -> SUBSET Ips]
    /\ tries \in Nat
    /\ passed \in [Ips -> Seq(Nat)]

Holding     == {r \in Requests : pc[r] = "holding"}
Holders(ip) == {r \in Holding : IpOf[r] = ip}

\* The counter of an address is the number of its live permits, and an address
\* with live permits keeps its entry although requests reap concurrently: no
\* release ever meets a missing entry or a counter at zero.
CountIsPermits ==
    \A ip \in Ips : states[ip].concurrent = Cardinality(Holders(ip))

\* The limiter implements a pool of MaxConcurrent permits for each address.
Pools == INSTANCE PermitPools WITH
    Users <- Requests, PoolOf <- IpOf, Cap <- MaxConcurrent, holders <- Holding
ImplementsPools == Pools!Spec

\* Reaping an entry forgets its bucket, which loses nothing if the bucket
\* would be full again after IDLE_TTL.
ReapIsTransparent ==
    AtLeastOne(Burst) * Token <= (IdleTtl + 1) * AtLeastOne(Rate)

\* The connections of one address that pass the rate check respect its rate in
\* every window of time, reaped entries or not.
Window(times, i, j) ==
    (j - i + 1) * Token <= AtLeastOne(Burst) * Token
                             + AtLeastOne(Rate) * (times[j] - times[i])
RateHolds ==
    \A ip \in Ips : \A i, j \in 1..Len(passed[ip]) : i <= j => Window(passed[ip], i, j)
=============================================================================
