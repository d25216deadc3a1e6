-------------------------- MODULE IpLimiterProofs --------------------------
(***************************************************************************)
(* Proofs about IpLimiter, for every finite set of requests, every address *)
(* they come from and limits, rates and clocks of every size.              *)
(***************************************************************************)
EXTENDS IpLimiter, FiniteSetTheorems, TLAPS

\* A full bucket of an address, and the parts that a tick refills.
Full == AtLeastOne(Burst) * Token
Pace == AtLeastOne(Rate)

\* What the rate gives in d ticks, and what n checks cost.
Earned(d) == Pace * d
Cost(n)   == n * Token

\* Tokens, capacities and rates are numbers, and a rate is never zero.
LEMMA Sizes ==
    /\ Token \in Nat \ {0}
    /\ Full \in Nat
    /\ Pace \in Nat \ {0}
<1>1. Token \in Nat \ {0} /\ AtLeastOne(Burst) \in Nat \ {0} /\ Pace \in Nat \ {0}
  BY TickAssumption, LimiterAssumption DEF Token, AtLeastOne, Pace
<1>2. \A m, n \in Nat : m * n \in Nat
  OBVIOUS
<1> QED
  BY <1>1, <1>2 DEF Full

\* The buckets an address may have: made with this rate and burst, and never
\* refilled past its capacity or later than now.
Sound(b) ==
    /\ b \in Buckets
    /\ b.capacity = Full
    /\ b.rate = Pace
    /\ b.tokens <= Full
    /\ b.last <= now

\* A new bucket is full.
LEMMA NewIsSound ==
    ASSUME now \in Nat
    PROVE  /\ Sound(NewBucket(Rate, Burst, now))
           /\ NewBucket(Rate, Burst, now).tokens = Full
           /\ NewBucket(Rate, Burst, now).last = now
BY Sizes DEF Sound, NewBucket, Buckets, Full, Pace

\* What refilling adds is what the rate gives since the last refill.
LEMMA Refilled ==
    ASSUME now \in Nat, NEW b, Sound(b)
    PROVE  /\ Sound(Refill(b, now))
           /\ Refill(b, now).last = now
           /\ \A q \in Int : q = Earned(now - b.last) => Refill(b, now).tokens <= b.tokens + q
<1> DEFINE d == now - b.last
           x == b.tokens + d * b.rate
<1>1. b.tokens \in Nat /\ b.last \in Nat /\ d \in Nat
  BY DEF Sound, Buckets
<1>2. \A m, n \in Nat : m * n \in Nat /\ m * n = n * m
  OBVIOUS
<1>3. d * b.rate \in Nat /\ d * b.rate = Pace * d
  BY <1>1, <1>2, Sizes DEF Sound
<1>4. x \in Nat /\ x = b.tokens + Pace * d
  BY <1>1, <1>3
<1> DEFINE y == Smaller(x, Full)
<1>5. Refill(b, now) = [b EXCEPT !.tokens = y, !.last = now]
  BY DEF Refill, Sound
<1> HIDE DEF x
<1>6. y \in Nat /\ y <= Full /\ y <= x
  BY <1>4, Sizes DEF Smaller
<1> HIDE DEF y
<1>7. /\ Refill(b, now) \in [capacity : Nat, rate : Nat, tokens : Nat, last : Nat]
      /\ Refill(b, now).capacity = Full /\ Refill(b, now).rate = Pace
      /\ Refill(b, now).tokens = y /\ Refill(b, now).last = now
  <2>1. b \in [capacity : Nat, rate : Nat, tokens : Nat, last : Nat]
        /\ b.capacity = Full /\ b.rate = Pace
    BY DEF Sound, Buckets
  <2> QED BY <1>5, <1>6, <2>1
<1>8. \A q \in Int : q = Earned(d) => x = b.tokens + q
  BY <1>3, <1>4 DEF Earned, x
<1>9. \A q \in Int : q = Earned(d) => y <= b.tokens + q
  BY <1>6, <1>8
<1> QED
  BY <1>6, <1>7, <1>9, Sizes DEF Sound, Buckets

\* A check charges the bucket one token if it passes and none if it does not.
LEMMA Consumed ==
    ASSUME now \in Nat, NEW b, Sound(b)
    PROVE  /\ Sound(Consume(b, now))
           /\ Consume(b, now).last = now
           /\ Consume(b, now).tokens =
                IF Admits(b, now) THEN Refill(b, now).tokens - Token ELSE Refill(b, now).tokens
<1> DEFINE f == Refill(b, now)
<1>1. Sound(f) /\ f.last = now
  BY Refilled
<1>2. /\ f = [capacity |-> Full, rate |-> Pace, tokens |-> f.tokens, last |-> now]
      /\ f.tokens \in Nat /\ f.tokens <= Full
  BY <1>1 DEF Sound, Buckets
<1> HIDE DEF f
<1>3. CASE f.tokens >= Token
  <2>1. Consume(b, now) = [f EXCEPT !.tokens = f.tokens - Token] /\ Admits(b, now)
    BY <1>3 DEF Consume, Admits, f
  <2>2. f.tokens - Token \in Nat /\ f.tokens - Token <= Full
    BY <1>2, <1>3, Sizes
  <2>3. Consume(b, now) = [capacity |-> Full, rate |-> Pace, tokens |-> f.tokens - Token, last |-> now]
    BY <1>2, <2>1
  <2>4. Sound(Consume(b, now)) /\ Consume(b, now).last = now
        /\ Consume(b, now).tokens = f.tokens - Token
    BY <2>2, <2>3, Sizes DEF Sound, Buckets
  <2> QED BY <2>1, <2>4 DEF f
<1>4. CASE ~(f.tokens >= Token)
  BY <1>1, <1>4 DEF Consume, Admits, f
<1> QED
  BY <1>3, <1>4

-----------------------------------------------------------------------------
(* Types, the clock and the counters.                                      *)

\* An entry was last seen, and a request last scanned, no later than now.
ClockInv ==
    /\ \A ip \in Ips : states[ip] # Absent => Sound(states[ip].bucket) /\ states[ip].seen <= now
    /\ \A r \in Requests : asof[r] <= now

LimiterInv == TypeOK /\ ClockInv /\ CountIsPermits

\* An address without an entry has no state, and no permits.
LEMMA AbsentFacts == Absent \notin IpStates /\ Absent.concurrent = 0
BY DEF Absent, IpStates

\* The entry that try_acquire works on: an old one, or a new one without permits.
LEMMA EntryFacts ==
    ASSUME TypeOK, ClockInv, NEW ip \in Ips
    PROVE  /\ Entry(ip) \in IpStates
           /\ Entry(ip).concurrent = states[ip].concurrent
           /\ Sound(Entry(ip).bucket)
           /\ Entry(ip).seen <= now
<1>1. CASE states[ip] # Absent
  BY <1>1 DEF Entry, TypeOK, ClockInv
<1>2. CASE states[ip] = Absent
  <2>1. now \in Nat /\ Sound(NewBucket(Rate, Burst, now))
    BY NewIsSound DEF TypeOK
  <2> QED BY <1>2, <2>1, AbsentFacts DEF Entry, IpStates, Sound
<1> QED
  BY <1>1, <1>2

\* The rate check changes the bucket of the entry and nothing else.
LEMMA ChargedFacts ==
    ASSUME TypeOK, ClockInv, NEW ip \in Ips
    PROVE  /\ Charged(ip) \in IpStates
           /\ Charged(ip).concurrent = states[ip].concurrent
           /\ Charged(ip).seen = Entry(ip).seen
           /\ Charged(ip).bucket = IF RateConfigured THEN Consume(Entry(ip).bucket, now)
                                                     ELSE Entry(ip).bucket
           /\ Sound(Charged(ip).bucket)
<1>1. /\ Entry(ip) \in IpStates
      /\ Entry(ip).concurrent = states[ip].concurrent
      /\ Sound(Entry(ip).bucket)
  BY EntryFacts
<1>2. Sound(Consume(Entry(ip).bucket, now))
  BY <1>1, Consumed DEF TypeOK
<1> QED
  BY <1>1, <1>2 DEF Charged, IpStates, Sound

\* Those of a set of requests that come from an address.
From(S, ip) == {r \in S : IpOf[r] = ip}

\* A request that gets or drops its permit is one more or one fewer from its own
\* address and from no other.
LEMMA FromSets ==
    ASSUME NEW S \in SUBSET Requests, NEW ip
    PROVE  /\ IsFiniteSet(From(S, ip)) /\ Cardinality(From(S, ip)) \in Nat
           /\ \A r \in Requests \ S :
                Cardinality(From(S \union {r}, ip))
                  = Cardinality(From(S, ip)) + (IF IpOf[r] = ip THEN 1 ELSE 0)
           /\ \A r \in S :
                Cardinality(From(S \ {r}, ip))
                  = Cardinality(From(S, ip)) - (IF IpOf[r] = ip THEN 1 ELSE 0)
<1>1. IsFiniteSet(From(S, ip)) /\ Cardinality(From(S, ip)) \in Nat
  BY LimiterAssumption, FS_Subset, FS_CardinalityType DEF From
<1>2. ASSUME NEW r \in Requests \ S
      PROVE  Cardinality(From(S \union {r}, ip))
               = Cardinality(From(S, ip)) + (IF IpOf[r] = ip THEN 1 ELSE 0)
  <2>1. CASE IpOf[r] = ip
    <3>1. From(S \union {r}, ip) = From(S, ip) \union {r} /\ r \notin From(S, ip)
      BY <2>1 DEF From
    <3> QED BY <1>1, <2>1, <3>1, FS_AddElement
  <2>2. CASE IpOf[r] # ip
    <3>1. From(S \union {r}, ip) = From(S, ip)
      BY <2>2 DEF From
    <3> QED BY <1>1, <2>2, <3>1
  <2> QED BY <2>1, <2>2
<1>3. ASSUME NEW r \in S
      PROVE  Cardinality(From(S \ {r}, ip))
               = Cardinality(From(S, ip)) - (IF IpOf[r] = ip THEN 1 ELSE 0)
  <2>1. CASE IpOf[r] = ip
    <3>1. From(S \ {r}, ip) = From(S, ip) \ {r} /\ r \in From(S, ip)
      BY <2>1 DEF From
    <3>2. Cardinality(From(S, ip) \ {r}) = Cardinality(From(S, ip)) - 1
      BY <1>1, <3>1, FS_RemoveElement
    <3> QED BY <2>1, <3>1, <3>2
  <2>2. CASE IpOf[r] # ip
    <3>1. From(S \ {r}, ip) = From(S, ip)
      BY <2>2 DEF From
    <3> QED BY <1>1, <2>2, <3>1
  <2> QED BY <2>1, <2>2
<1> QED
  BY <1>1, <1>2, <1>3

\* The requests that hold a permit, and those of one address among them.
LEMMA TheHolders ==
    /\ Holding \in SUBSET Requests
    /\ \A ip : Holders(ip) = From(Holding, ip)
    /\ \A ip : Holders(ip)' = From(Holding', ip)
BY DEF Holding, Holders, From

\* A step by which no request gets or drops its permit, and no entry changes its
\* counter, keeps them in step.
LEMMA CountKept ==
    ASSUME CountIsPermits, Holding' = Holding,
           \A ip \in Ips : states'[ip].concurrent = states[ip].concurrent
    PROVE  CountIsPermits'
BY DEF CountIsPermits, Holders

\* Storing a sound entry keeps the types and the order of times.
LEMMA EntryStored ==
    ASSUME TypeOK, ClockInv, NEW ip \in Ips, NEW e \in IpStates,
           Sound(e.bucket), e.seen <= now,
           states' = [states EXCEPT ![ip] = e], UNCHANGED <<now, asof>>
    PROVE  states' \in [Ips -> IpStates \union {Absent}] /\ ClockInv'
<1>1. \A x \in Ips : states'[x] = IF x = ip THEN e ELSE states[x]
  BY DEF TypeOK
<1>2. states' \in [Ips -> IpStates \union {Absent}]
  BY DEF TypeOK
<1>3. \A b : Sound(b)' <=> Sound(b)
  BY DEF Sound
<1> QED
  BY <1>1, <1>2, <1>3 DEF ClockInv

\* One more passed check is one more time in the history.
LEMMA PassedType ==
    ASSUME TypeOK, NEW ip \in Ips, Passes(ip)
    PROVE  passed' \in [Ips -> Seq(Nat)]
<1>1. Append(passed[ip], now) \in Seq(Nat)
  BY DEF TypeOK
<1> QED
  BY <1>1 DEF TypeOK, Passes

\* Time passes.
LEMMA TickInv == LimiterInv /\ Tick => LimiterInv'
<1> SUFFICES ASSUME LimiterInv, Tick PROVE LimiterInv'
  OBVIOUS
<1>1. /\ now \in Nat /\ now' = now + 1
      /\ UNCHANGED <<states, pc, asof, victims, tries, passed>>
  BY DEF LimiterInv, TypeOK, Tick
<1>2. TypeOK' /\ CountIsPermits'
  BY <1>1 DEF LimiterInv, TypeOK, CountIsPermits, Holders, Holding
<1>3. \A b : Sound(b) => Sound(b)'
  BY <1>1 DEF Sound, Buckets
<1>4. \A ip \in Ips : states[ip] # Absent => states[ip].seen \in Nat
  BY DEF LimiterInv, TypeOK, IpStates
<1>5. ClockInv'
  BY <1>1, <1>3, <1>4 DEF LimiterInv, ClockInv, TypeOK
<1> QED
  BY <1>2, <1>5 DEF LimiterInv

\* reap_idle looks for victims.
LEMMA ScanInv ==
    ASSUME LimiterInv, NEW r \in Requests, Scan(r)
    PROVE  LimiterInv'
<1>1. PICK v \in SUBSET {ip \in Ips : Idle(states[ip], now)} :
        victims' = [victims EXCEPT ![r] = v]
  BY DEF Scan
<1>2. /\ pc' = [pc EXCEPT ![r] = "reaping"] /\ pc[r] = "out"
      /\ asof' = [asof EXCEPT ![r] = now] /\ tries' = tries + 1
      /\ UNCHANGED <<now, states, passed>>
  BY DEF Scan
<1>3. TypeOK'
  BY <1>1, <1>2 DEF LimiterInv, TypeOK
<1>4. ClockInv'
  BY <1>2 DEF LimiterInv, ClockInv, TypeOK, Sound
<1>5. CountIsPermits'
  <2>1. Holding' = Holding
    BY <1>2 DEF Holding, LimiterInv, TypeOK
  <2> QED BY <1>2, <2>1, CountKept DEF LimiterInv
<1> QED
  BY <1>3, <1>4, <1>5 DEF LimiterInv

\* remove_if: only an entry without permits goes.
LEMMA ReapInv ==
    ASSUME LimiterInv, NEW r \in Requests, NEW ip \in Ips, Reap(r, ip)
    PROVE  LimiterInv'
<1>1. /\ victims' = [victims EXCEPT ![r] = @ \ {ip}]
      /\ UNCHANGED <<now, pc, asof, tries, passed>>
      /\ \/ states' = states
         \/ states' = [states EXCEPT ![ip] = Absent] /\ states[ip].concurrent = 0
  BY DEF Reap, StillIdle, Idle
<1>2. ASSUME NEW x \in Ips
      PROVE  /\ states'[x] \in IpStates \union {Absent}
             /\ states'[x] # states[x] => states'[x] = Absent /\ states[x].concurrent = 0
  BY <1>1 DEF LimiterInv, TypeOK
<1>3. TypeOK'
  <2>1. states' \in [Ips -> IpStates \union {Absent}]
    BY <1>1, AbsentFacts DEF LimiterInv, TypeOK
  <2> QED BY <1>1, <2>1 DEF LimiterInv, TypeOK
<1>4. ClockInv'
  BY <1>1, <1>2 DEF LimiterInv, ClockInv, Sound
<1>5. CountIsPermits'
  <2>1. Holding' = Holding
    BY <1>1 DEF Holding
  <2> QED BY <1>2, <2>1, AbsentFacts, CountKept DEF LimiterInv
<1> QED
  BY <1>3, <1>4, <1>5 DEF LimiterInv

\* A refusal, for the rate or for the number of connections, stores the entry
\* that was checked.
LEMMA RefusalInv ==
    ASSUME LimiterInv, NEW r \in Requests, RateLimited(r) \/ ConcurrencyLimited(r)
    PROVE  LimiterInv'
<1>1. /\ pc[r] = "reaping" /\ pc' = [pc EXCEPT ![r] = "out"]
      /\ states' = [states EXCEPT ![IpOf[r]] = Charged(IpOf[r])]
      /\ UNCHANGED <<now, asof, victims, tries>>
      /\ Passes(IpOf[r]) \/ UNCHANGED passed
  BY DEF RateLimited, ConcurrencyLimited, Acquiring
<1>2. TypeOK /\ ClockInv /\ IpOf[r] \in Ips
  BY LimiterAssumption DEF LimiterInv
<1>3. /\ Charged(IpOf[r]) \in IpStates
      /\ Charged(IpOf[r]).concurrent = states[IpOf[r]].concurrent
      /\ Charged(IpOf[r]).seen <= now
      /\ Sound(Charged(IpOf[r]).bucket)
  BY <1>2, ChargedFacts, EntryFacts
<1>4. states' \in [Ips -> IpStates \union {Absent}] /\ ClockInv'
  BY <1>1, <1>2, <1>3, EntryStored
<1>5. TypeOK'
  BY <1>1, <1>2, <1>4, PassedType DEF TypeOK
<1>6. CountIsPermits'
  <2>1. Holding' = Holding
    BY <1>1, <1>2 DEF Holding, TypeOK
  <2>2. \A x \in Ips : states'[x].concurrent = states[x].concurrent
    BY <1>1, <1>2, <1>3 DEF TypeOK
  <2> QED BY <2>1, <2>2, CountKept DEF LimiterInv
<1> QED
  BY <1>4, <1>5, <1>6 DEF LimiterInv

\* An admission: the request joins the holders as the counter goes up.
LEMMA AdmitInv ==
    ASSUME LimiterInv, NEW r \in Requests, Admit(r)
    PROVE  LimiterInv'
<1> DEFINE a == IpOf[r]
           e == [Charged(a) EXCEPT !.concurrent = @ + 1, !.seen = now]
<1>1. /\ pc[r] = "reaping" /\ pc' = [pc EXCEPT ![r] = "holding"]
      /\ states' = [states EXCEPT ![a] = e]
      /\ UNCHANGED <<now, asof, victims, tries>>
      /\ Passes(a)
  BY DEF Admit, Acquiring
<1>2. TypeOK /\ ClockInv /\ a \in Ips /\ now \in Nat
  BY LimiterAssumption DEF LimiterInv, TypeOK
<1>3. /\ Charged(a) \in IpStates
      /\ Charged(a).concurrent = states[a].concurrent
      /\ Sound(Charged(a).bucket)
  BY <1>2, ChargedFacts
<1>4. /\ e \in IpStates /\ e.concurrent = states[a].concurrent + 1 /\ e.seen = now
      /\ e.bucket = Charged(a).bucket
  <2> DEFINE k == Charged(a).concurrent + 1
  <2>1. k \in Nat
    BY <1>3 DEF IpStates
  <2>2. e = [Charged(a) EXCEPT !.concurrent = k, !.seen = now]
    OBVIOUS
  <2> HIDE DEF k, e
  <2>3. e \in IpStates /\ e.concurrent = k /\ e.seen = now /\ e.bucket = Charged(a).bucket
    BY <1>2, <1>3, <2>1, <2>2 DEF IpStates
  <2> QED BY <1>3, <2>3 DEF k
<1> HIDE DEF a, e
<1>5. states' \in [Ips -> IpStates \union {Absent}] /\ ClockInv'
  <2>1. Sound(e.bucket) /\ e.seen <= now
    BY <1>2, <1>3, <1>4
  <2>2. UNCHANGED <<now, asof>>
    BY <1>1
  <2> QED BY <1>1, <1>2, <1>4, <2>1, <2>2, EntryStored
<1>6. TypeOK'
  BY <1>1, <1>2, <1>5, PassedType DEF TypeOK
<1>7. CountIsPermits'
  <2>1. Holding' = Holding \union {r} /\ r \in Requests \ Holding
    BY <1>1, <1>2 DEF Holding, TypeOK
  <2>2. ASSUME NEW x \in Ips
        PROVE  states'[x].concurrent = Cardinality(Holders(x)')
    <3>1. Cardinality(Holders(x)') = Cardinality(Holders(x)) + (IF a = x THEN 1 ELSE 0)
          /\ Cardinality(Holders(x)) \in Nat
      <4>1. Holders(x)' = From(Holding \union {r}, x) /\ Holders(x) = From(Holding, x)
        BY <2>1, TheHolders
      <4>2. Holding \in SUBSET Requests
        BY TheHolders
      <4> QED BY <2>1, <4>1, <4>2, FromSets DEF a
    <3>2. states'[x].concurrent = states[x].concurrent + (IF a = x THEN 1 ELSE 0)
      <4>1. CASE a = x
        BY <1>1, <1>2, <1>4, <4>1 DEF TypeOK
      <4>2. CASE a # x
        <5>1. states'[x] = states[x] /\ states[x].concurrent \in Nat
          BY <1>1, <1>2, <4>2 DEF TypeOK, IpStates, Absent
        <5> QED BY <4>2, <5>1
      <4> QED BY <4>1, <4>2
    <3> QED BY <3>1, <3>2 DEF LimiterInv, CountIsPermits
  <2> QED BY <2>2 DEF CountIsPermits
<1> QED
  BY <1>5, <1>6, <1>7 DEF LimiterInv

\* A permit is dropped: its address has an entry, whose counter is above zero.
LEMMA ReleaseInv ==
    ASSUME LimiterInv, NEW r \in Requests, Release(r)
    PROVE  LimiterInv'
<1> DEFINE a == IpOf[r]
           n == states[a].concurrent
           k == IF n > 0 THEN n - 1 ELSE 0
           e == [states[a] EXCEPT !.concurrent = k, !.seen = now]
<1>1. TypeOK /\ ClockInv /\ a \in Ips /\ now \in Nat
  BY LimiterAssumption DEF LimiterInv, TypeOK
<1>2. /\ pc[r] = "holding" /\ pc' = [pc EXCEPT ![r] = "out"]
      /\ UNCHANGED <<now, asof, victims, tries, passed>>
  BY DEF Release
<1>3. Holding' = Holding \ {r} /\ r \in Holding
  BY <1>1, <1>2 DEF Holding, TypeOK
<1>4. n \in Nat /\ n > 0 /\ states[a] # Absent
  <2>1. Cardinality(Holders(a)) \in Nat /\ Cardinality(Holders(a)) >= 1
    <3>1. Holders(a) \in SUBSET Requests /\ r \in Holders(a)
      BY <1>3 DEF Holding, Holders
    <3>2. IsFiniteSet(Holders(a)) /\ Holders(a) # {}
      BY <3>1, LimiterAssumption, FS_Subset
    <3>3. Cardinality(Holders(a)) \in Nat /\ Cardinality(Holders(a)) # 0
      BY <3>2, FS_EmptySet, FS_CardinalityType
    <3> QED BY <3>3
  <2>2. n = Cardinality(Holders(a))
    BY <1>1 DEF LimiterInv, CountIsPermits
  <2> QED BY <2>1, <2>2, AbsentFacts
<1>5. states' = [states EXCEPT ![a] = e]
  BY <1>4 DEF Release
<1>6. /\ states[a] \in IpStates /\ Sound(states[a].bucket)
      /\ e \in IpStates /\ e.concurrent = n - 1 /\ e.seen = now /\ e.bucket = states[a].bucket
  <2>1. states[a] \in IpStates /\ Sound(states[a].bucket)
    BY <1>1, <1>4 DEF TypeOK, ClockInv
  <2>2. k = n - 1 /\ k \in Nat
    BY <1>4
  <2> HIDE DEF n, k
  <2>3. /\ e \in IpStates /\ e.concurrent = k /\ e.seen = now
        /\ e.bucket = states[a].bucket
    BY <1>1, <2>1, <2>2 DEF IpStates
  <2> QED BY <2>1, <2>2, <2>3
<1> HIDE DEF a, e
<1>7. states' \in [Ips -> IpStates \union {Absent}] /\ ClockInv'
  <2>1. Sound(e.bucket) /\ e.seen <= now
    BY <1>1, <1>6
  <2>2. UNCHANGED <<now, asof>>
    BY <1>2
  <2> QED BY <1>1, <1>5, <1>6, <2>1, <2>2, EntryStored
<1>8. TypeOK'
  BY <1>1, <1>2, <1>7 DEF TypeOK
<1>9. CountIsPermits'
  <2>2. ASSUME NEW x \in Ips
        PROVE  states'[x].concurrent = Cardinality(Holders(x)')
    <3>1. Cardinality(Holders(x)') = Cardinality(Holders(x)) - (IF a = x THEN 1 ELSE 0)
          /\ Cardinality(Holders(x)) \in Nat
      <4>1. Holders(x)' = From(Holding \ {r}, x) /\ Holders(x) = From(Holding, x)
        BY <1>3, TheHolders
      <4>2. Holding \in SUBSET Requests
        BY TheHolders
      <4> QED BY <1>3, <4>1, <4>2, FromSets DEF a
    <3>2. states'[x].concurrent = states[x].concurrent - (IF a = x THEN 1 ELSE 0)
      <4>1. CASE a = x
        BY <1>1, <1>5, <1>6, <4>1 DEF TypeOK
      <4>2. CASE a # x
        <5>1. states'[x] = states[x] /\ states[x].concurrent \in Nat
          BY <1>1, <1>5, <4>2 DEF TypeOK, IpStates, Absent
        <5> QED BY <4>2, <5>1
      <4> QED BY <4>1, <4>2
    <3> QED BY <3>1, <3>2 DEF LimiterInv, CountIsPermits
  <2> QED BY <2>2 DEF CountIsPermits
<1> QED
  BY <1>7, <1>8, <1>9 DEF LimiterInv

\* Nobody holds a permit at the start, and no address has an entry.
LEMMA LimiterInit == Init => LimiterInv
<1> SUFFICES ASSUME Init PROVE LimiterInv
  OBVIOUS
<1>1. TypeOK /\ ClockInv
  BY DEF Init, TypeOK, ClockInv
<1>2. CountIsPermits
  <2>1. \A ip : Holders(ip) = {}
    BY DEF Init, Holders, Holding
  <2> QED BY <2>1, AbsentFacts, FS_EmptySet DEF Init, CountIsPermits
<1> QED
  BY <1>1, <1>2 DEF LimiterInv

\* Every step keeps the invariant.
LEMMA LimiterNext == LimiterInv /\ [Next]_vars => LimiterInv'
<1> SUFFICES ASSUME LimiterInv, [Next]_vars PROVE LimiterInv'
  OBVIOUS
<1>1. CASE UNCHANGED vars
  BY <1>1 DEF vars, LimiterInv, TypeOK, ClockInv, Sound, CountIsPermits, Holders, Holding
<1> QED
  BY <1>1, TickInv, ScanInv, ReapInv, RefusalInv, AdmitInv, ReleaseInv DEF Next

\* The invariant that the proofs about the limiter rest on.
LEMMA LimiterInvariant == Spec => []LimiterInv
BY LimiterInit, LimiterNext, PTL DEF Spec

\* Every variable of IpLimiter has its type: in particular no bucket ever holds
\* a negative amount of tokens.
THEOREM LimiterTypes == Spec => []TypeOK
<1>1. LimiterInv => TypeOK
  BY DEF LimiterInv
<1> QED BY <1>1, LimiterInvariant, PTL

\* The counter of an address is the number of its live permits, however scans,
\* removals, admissions and drops interleave: an entry with permits is never
\* reaped, and no release meets a missing entry.
THEOREM CountIsExact == Spec => []CountIsPermits
<1>1. LimiterInv => CountIsPermits
  BY DEF LimiterInv
<1> QED BY <1>1, LimiterInvariant, PTL

-----------------------------------------------------------------------------
(* The limiter is a pool of permits for each address.                      *)

\* The pools count their holders as the limiter counts its requests.
LEMMA SameCount == \A S : Pools!Cardinality(S) = Cardinality(S)
BY DEF Cardinality, Pools!Cardinality

\* An admission is an Acquire with room in the pool, a release is a Release,
\* and every other step leaves the holders alone.
LEMMA PoolStep ==
    ASSUME LimiterInv, [Next]_vars
    PROVE  Pools!Next \/ Holding' = Holding
<1>0. TypeOK /\ ClockInv /\ CountIsPermits
  BY DEF LimiterInv
<1>1. ASSUME NEW r \in Requests, Admit(r) PROVE Pools!Next
  <2>1. Holding' = Holding \union {r} /\ r \notin Holding
    BY <1>0, <1>1 DEF Admit, Acquiring, Holding, TypeOK
  <2>2. Cardinality(Holders(IpOf[r])) < MaxConcurrent
    <3>1. IpOf[r] \in Ips
      BY LimiterAssumption
    <3>2. Entry(IpOf[r]).concurrent = states[IpOf[r]].concurrent
      BY <1>0, <3>1, EntryFacts
    <3> QED BY <1>0, <1>1, <3>1, <3>2 DEF Admit, CountIsPermits
  <2>3. Pools!Acquire(r)
    BY <2>1, <2>2, SameCount DEF Pools!Acquire, Pools!InPool, Holders
  <2> QED BY <2>3 DEF Pools!Next
<1>2. ASSUME NEW r \in Requests, Release(r) PROVE Pools!Next
  <2>1. Pools!Release(r)
    BY <1>0, <1>2 DEF Release, Holding, TypeOK, Pools!Release
  <2> QED BY <2>1 DEF Pools!Next
<1>3. ASSUME NEW r \in Requests, Scan(r) \/ RateLimited(r) \/ ConcurrencyLimited(r)
      PROVE  Holding' = Holding
  BY <1>0, <1>3 DEF Scan, RateLimited, ConcurrencyLimited, Acquiring, Holding, TypeOK
<1>4. ASSUME NEW r \in Requests, NEW ip \in Ips, Reap(r, ip) PROVE Holding' = Holding
  BY <1>4 DEF Reap, Holding
<1>5. CASE Tick \/ UNCHANGED vars
  BY <1>5 DEF Tick, vars, Holding
<1> QED
  BY <1>1, <1>2, <1>3, <1>4, <1>5 DEF Next

\* The per-address limit implements PermitPools: at most ip_max_concurrent
\* permits of an address are held at a time, each given back once.
THEOREM LimiterIsPool == Spec => ImplementsPools
<1>1. Init => Pools!Init
  BY DEF Init, Pools!Init, Holding
<1>2. LimiterInv /\ [Next]_vars => [Pools!Next]_Holding
  BY PoolStep
<1> QED
  BY <1>1, <1>2, LimiterInvariant, PTL DEF Spec, ImplementsPools, Pools!Spec

\* Taking and returning a permit keep every pool within its cap.
LEMMA CapNext == Pools!WithinCap /\ (Pools!Next \/ Holding' = Holding) => Pools!WithinCap'
<1> SUFFICES ASSUME Pools!WithinCap, Pools!Next \/ Holding' = Holding
             PROVE  Pools!WithinCap'
  OBVIOUS
<1>0. MaxConcurrent \in Nat /\ IsFiniteSet(Requests)
  BY LimiterAssumption
<1>1. /\ \A r \in Requests : Cardinality(From(Holding, IpOf[r])) <= MaxConcurrent
      /\ Holding \subseteq Requests
  BY SameCount DEF Pools!WithinCap, Pools!InPool, From
<1>2. \A S \in SUBSET Requests : IsFiniteSet(S) /\ Cardinality(S) \in Nat
  BY <1>0, FS_Subset, FS_CardinalityType
<1>3. SUFFICES ASSUME NEW r \in Requests
               PROVE  Cardinality(From(Holding', IpOf[r])) <= MaxConcurrent
  <2>1. Holding' \subseteq Requests
    BY DEF Holding
  <2>2. \A v \in Requests : Pools!InPool(IpOf[v])' = From(Holding', IpOf[v])
    BY DEF Pools!InPool, From
  <2> QED BY <1>3, <2>1, <2>2, SameCount DEF Pools!WithinCap
<1> DEFINE S == From(Holding, IpOf[r])
           T == From(Holding', IpOf[r])
<1>4. S \in SUBSET Requests /\ T \in SUBSET Requests /\ Cardinality(S) <= MaxConcurrent
  BY <1>1 DEF From, Holding
<1>5. ASSUME NEW u \in Requests, Pools!Acquire(u)
      PROVE  Cardinality(T) <= MaxConcurrent
  <2>1. CASE IpOf[u] = IpOf[r]
    <3>1. T = S \union {u}
      BY <1>5, <2>1 DEF Pools!Acquire, From
    <3>2. Cardinality(S) < MaxConcurrent
      BY <1>5, <2>1, SameCount DEF Pools!Acquire, Pools!InPool, From
    <3>3. Cardinality(T) <= Cardinality(S) + 1
      BY <1>2, <1>4, <3>1, FS_AddElement
    <3> HIDE DEF S, T
    <3> QED BY <1>0, <1>2, <1>4, <3>2, <3>3
  <2>2. CASE IpOf[u] # IpOf[r]
    <3>1. T = S
      BY <1>5, <2>2 DEF Pools!Acquire, From
    <3> QED BY <1>4, <3>1
  <2> QED BY <2>1, <2>2
<1>6. ASSUME NEW u \in Requests, Pools!Release(u)
      PROVE  Cardinality(T) <= MaxConcurrent
  <2>1. T \subseteq S
    BY <1>6 DEF Pools!Release, From
  <2>2. Cardinality(T) <= Cardinality(S)
    BY <1>2, <1>4, <2>1, FS_Subset
  <2> HIDE DEF S, T
  <2> QED BY <1>0, <1>2, <1>4, <2>2
<1>7. CASE Holding' = Holding
  BY <1>4, <1>7
<1> QED
  BY <1>5, <1>6, <1>7 DEF Pools!Next

\* An address never holds more than ip_max_concurrent permits, in whatever order
\* its requests are admitted, reap and give back.
THEOREM PoolsKeepCap == Spec => []Pools!WithinCap
<1>1. Init => Pools!WithinCap
  <2> SUFFICES ASSUME Init PROVE Pools!WithinCap
    OBVIOUS
  <2>1. Holding = {}
    BY DEF Init, Holding
  <2>2. \A p : Pools!InPool(p) = {}
    BY <2>1 DEF Pools!InPool
  <2> QED BY <2>1, <2>2, FS_EmptySet, SameCount, LimiterAssumption DEF Pools!WithinCap
<1>2. LimiterInv /\ Pools!WithinCap /\ [Next]_vars => Pools!WithinCap'
  BY PoolStep, CapNext
<1> QED
  BY <1>1, <1>2, LimiterInvariant, PTL DEF Spec

-----------------------------------------------------------------------------
(* The rate of an address.                                                 *)

\* What a bucket may hold at most at time t as far as the window from the i-th
\* passed check onwards goes, and the claim that it does not hold more.
Allowance(times, i, t) == Full + Earned(t - times[i]) - Cost(Len(times) - i + 1)
Bounded(x, times, t)   == \A i \in 1..Len(times) : x <= Allowance(times, i, t)

\* Every window of the passed checks respects the rate.
Windows(times) == \A i, j \in 1..Len(times) : i <= j => Window(times, i, j)

\* Products, which the solver need not look into any further.
LEMMA EarnedType == \A d \in Int : Earned(d) \in Int
<1>1. \A p, d \in Int : p * d \in Int
  OBVIOUS
<1> QED BY <1>1, Sizes DEF Earned

\* What the rate gives in two spans together is what it gives in each.
LEMMA EarnedSum == \A c, d \in Int : Earned(c + d) = Earned(c) + Earned(d)
<1>1. \A p, c, d \in Int : p * (c + d) = p * c + p * d
  OBVIOUS
<1> QED BY <1>1, Sizes DEF Earned

\* More time never gives less.
LEMMA EarnedMore == \A c, d \in Int : c <= d => Earned(c) <= Earned(d)
<1>1. \A p \in Nat : \A c, d \in Int : c <= d => p * c <= p * d
  OBVIOUS
<1> QED BY <1>1, Sizes DEF Earned

\* What checks cost is a number.
LEMMA CostType == \A n \in Int : Cost(n) \in Int
<1>1. \A p, n \in Int : n * p \in Int
  OBVIOUS
<1> QED BY <1>1, Sizes DEF Cost

\* One check more costs one token more.
LEMMA CostNext == \A n \in Int : Cost(n + 1) = Cost(n) + Token
<1>1. \A p, n \in Int : (n + 1) * p = n * p + p
  OBVIOUS
<1> QED BY <1>1, Sizes DEF Cost

\* No time gives nothing, and one check costs one token.
LEMMA Units == Earned(0) = 0 /\ Cost(1) = Token
<1>1. \A p \in Int : p * 0 = 0 /\ 1 * p = p
  OBVIOUS
<1> QED BY <1>1, Sizes DEF Earned, Cost

\* A window respects the rate if it costs no more than a bucket and what the
\* rate gives over its length.
LEMMA WindowCost ==
    ASSUME NEW times, NEW i, NEW j
    PROVE  Window(times, i, j) <=> Cost(j - i + 1) <= Full + Earned(times[j] - times[i])
BY DEF Window, Cost, Full, Earned, Pace

\* An allowance is a number.
LEMMA AllowanceType ==
    ASSUME NEW times \in Seq(Nat), NEW i \in 1..Len(times), NEW t \in Nat
    PROVE  /\ Allowance(times, i, t) \in Int
           /\ times[i] \in Nat
<1>1. times[i] \in Nat /\ t - times[i] \in Int /\ Len(times) - i + 1 \in Int
  OBVIOUS
<1>2. Earned(t - times[i]) \in Int /\ Cost(Len(times) - i + 1) \in Int /\ Full \in Nat
  BY <1>1, EarnedType, CostType, Sizes
<1> QED
  BY <1>1, <1>2 DEF Allowance

\* With time the allowance grows by what the rate gives.
LEMMA Later ==
    ASSUME NEW times \in Seq(Nat), NEW t \in Nat, NEW u \in Nat, t <= u,
           NEW x \in Nat, Bounded(x, times, t),
           NEW y \in Nat, NEW q \in Int, q = Earned(u - t), y <= x + q
    PROVE  Bounded(y, times, u)
<1> SUFFICES ASSUME NEW i \in 1..Len(times) PROVE y <= Allowance(times, i, u)
  BY DEF Bounded
<1> DEFINE k == Cost(Len(times) - i + 1)
           p == Earned(t - times[i])
<1>1. times[i] \in Nat /\ t - times[i] \in Int /\ u - t \in Int /\ Len(times) - i + 1 \in Int
  OBVIOUS
<1>2. k \in Int /\ p \in Int
  BY <1>1, CostType, EarnedType
<1>3. Earned(u - times[i]) = p + q
  <2>1. u - times[i] = (t - times[i]) + (u - t)
    BY <1>1
  <2> QED BY <1>1, <2>1, EarnedSum
<1>4. Allowance(times, i, u) = Full + (p + q) - k
  BY <1>3 DEF Allowance
<1>5. x <= Full + p - k
  BY DEF Bounded, Allowance
<1> HIDE DEF k, p
<1>6. y <= Full + (p + q) - k
  BY <1>2, <1>5, Sizes
<1> QED
  BY <1>4, <1>6

\* A passed check takes a token of the bucket and of every window that it ends.
LEMMA Charges ==
    ASSUME NEW times \in Seq(Nat), NEW t \in Nat, NEW x \in Nat, x <= Full,
           Bounded(x, times, t)
    PROVE  Bounded(x - Token, Append(times, t), t)
<1> DEFINE more == Append(times, t)
<1> SUFFICES ASSUME NEW i \in 1..Len(more) PROVE x - Token <= Allowance(more, i, t)
  BY DEF Bounded
<1>1. more \in Seq(Nat) /\ Len(more) = Len(times) + 1 /\ Len(times) \in Nat
  OBVIOUS
<1>2. CASE i = Len(times) + 1
  <2>1. more[i] = t /\ Len(more) - i + 1 = 1
    BY <1>1, <1>2
  <2>2. t - more[i] = 0 /\ Earned(0) = 0 /\ Cost(1) = Token
    BY <2>1, Units
  <2>3. Allowance(more, i, t) = Full + 0 - Token
    BY <2>1, <2>2 DEF Allowance
  <2> HIDE DEF more
  <2> QED BY <2>3, Sizes
<1>3. CASE i # Len(times) + 1
  <2>1. i \in 1..Len(times) /\ more[i] = times[i]
    BY <1>1, <1>3
  <2> DEFINE k == Cost(Len(times) - i + 1)
             p == Earned(t - times[i])
  <2>2. Len(more) - i + 1 = (Len(times) - i + 1) + 1 /\ Len(times) - i + 1 \in Int
    BY <1>1, <2>1
  <2>3. Cost(Len(more) - i + 1) = k + Token /\ k \in Int
    BY <2>2, CostType, CostNext
  <2>4. p \in Int
    <3>1. t - times[i] \in Int
      BY <2>1
    <3> QED BY <3>1, EarnedType
  <2>5. x <= Full + p - k
    BY <2>1 DEF Bounded, Allowance
  <2>6. Allowance(more, i, t) = Full + p - (k + Token)
    BY <2>1, <2>3 DEF Allowance
  <2> HIDE DEF k, p, more
  <2>7. x - Token <= Full + p - (k + Token)
    BY <2>3, <2>4, <2>5, Sizes
  <2> QED BY <2>6, <2>7
<1> QED
  BY <1>2, <1>3

\* As long as the bucket is not overdrawn, the windows that end now are within
\* the rate.
LEMMA WindowsGrow ==
    ASSUME NEW times \in Seq(Nat), NEW t \in Nat, Windows(times),
           NEW x \in Nat, Bounded(x, Append(times, t), t)
    PROVE  Windows(Append(times, t))
<1> DEFINE more == Append(times, t)
<1>1. more \in Seq(Nat) /\ Len(more) = Len(times) + 1 /\ Len(times) \in Nat
  OBVIOUS
<1> SUFFICES ASSUME NEW i \in 1..Len(more), NEW j \in 1..Len(more), i <= j
             PROVE  Window(more, i, j)
  BY DEF Windows
<1>2. CASE j = Len(more)
  <2> DEFINE k == Cost(Len(more) - i + 1)
             p == Earned(t - more[i])
  <2>1. more[j] = t /\ more[i] \in Nat
    BY <1>1, <1>2
  <2>2. x <= Full + p - k
    BY DEF Bounded, Allowance
  <2>3. k \in Int /\ p \in Int
    <3>1. Len(more) - i + 1 \in Int /\ t - more[i] \in Int
      BY <1>1, <2>1
    <3> QED BY <3>1, CostType, EarnedType
  <2>4. Window(more, i, j) <=> k <= Full + p
    BY <1>2, <2>1, WindowCost
  <2> HIDE DEF k, p, more
  <2>5. k <= Full + p
    BY <2>2, <2>3, Sizes
  <2> QED BY <2>4, <2>5
<1>3. CASE j # Len(more)
  <2>1. /\ i \in 1..Len(times) /\ j \in 1..Len(times)
        /\ more[i] = times[i] /\ more[j] = times[j]
    BY <1>1, <1>3
  <2> QED BY <2>1, WindowCost DEF Windows
<1> QED
  BY <1>2, <1>3

\* An entry that was idle for longer than IDLE_TTL is worth no more than a new
\* one, if the bucket fills in that time.
LEMMA Recovered ==
    ASSUME ReapIsTransparent, NEW times \in Seq(Nat), Windows(times),
           NEW seen \in Nat, \A i \in 1..Len(times) : times[i] <= seen,
           NEW t \in Nat, NEW l \in Nat, l = IdleTtl, t - seen > l
    PROVE  Bounded(Full, times, t)
<1> SUFFICES ASSUME NEW i \in 1..Len(times) PROVE Full <= Allowance(times, i, t)
  BY DEF Bounded
<1> DEFINE n == Len(times)
           k == Cost(n - i + 1)
           p == Earned(times[n] - times[i])
           q == Earned(l + 1)
           w == Earned(t - times[i])
<1>1. /\ n \in 1..Len(times) /\ i <= n /\ times[i] \in Nat /\ times[n] \in Nat
      /\ times[n] <= seen
  OBVIOUS
<1>2. k <= Full + p
  BY <1>1, WindowCost DEF Windows
<1>3. Full <= q
  <2>1. (l + 1) * Pace = Earned(l + 1)
    BY Sizes DEF Earned
  <2> QED BY <2>1 DEF ReapIsTransparent, Full, Pace
<1>4. p + q <= w
  <2>1. /\ l + 1 \in Int /\ times[n] - times[i] \in Int /\ t - times[i] \in Int
        /\ (times[n] - times[i]) + (l + 1) <= t - times[i]
    BY <1>1
  <2>2. Earned((times[n] - times[i]) + (l + 1)) = p + q
    BY <2>1, EarnedSum
  <2>3. Earned((times[n] - times[i]) + (l + 1)) <= w
    BY <2>1, EarnedMore
  <2> QED BY <2>2, <2>3
<1>5. k \in Int /\ p \in Int /\ q \in Int /\ w \in Int
  <2>1. /\ n - i + 1 \in Int /\ times[n] - times[i] \in Int /\ l + 1 \in Int
        /\ t - times[i] \in Int
    BY <1>1
  <2> QED BY <2>1, CostType, EarnedType
<1>6. Allowance(times, i, t) = Full + w - k
  BY DEF Allowance
<1> HIDE DEF n, k, p, q, w
<1>7. Full <= Full + w - k
  BY <1>2, <1>3, <1>4, <1>5, Sizes
<1> QED
  BY <1>6, <1>7

\* An address whose checks passed at `times' and whose entry is `s' at time t.
\* An entry in use covers all windows with the tokens of its bucket; one without
\* permits was seen after the last check; one that is gone could not have been
\* worth more than a new one.
RateOk(times, s, t) ==
    /\ \A i \in 1..Len(times) : times[i] <= t
    /\ Windows(times)
    /\ s # Absent /\ RateConfigured => Bounded(s.bucket.tokens, times, s.bucket.last)
    /\ s # Absent => (s.concurrent = 0 => \A i \in 1..Len(times) : times[i] <= s.seen)
    /\ s = Absent => Bounded(Full, times, t)
    /\ ~RateConfigured => times = <<>>

RateInv == \A ip \in Ips : RateOk(passed[ip], states[ip], now)

\* A step that changes the entry and the history of one address at most.
LEMMA OneAddress ==
    ASSUME LimiterInv, RateInv, NEW a \in Ips, now' = now,
           \A ip \in Ips : ip # a => passed'[ip] = passed[ip] /\ states'[ip] = states[ip],
           RateOk(passed'[a], states'[a], now)
    PROVE  RateInv'
<1> SUFFICES ASSUME NEW ip \in Ips PROVE RateOk(passed'[ip], states'[ip], now')
  BY DEF RateInv, RateOk, Bounded, Allowance, Windows, Window
<1> QED
  BY DEF RateInv

\* What is known of an address before a step.
LEMMA AddressFacts ==
    ASSUME LimiterInv, RateInv, NEW ip \in Ips
    PROVE  /\ RateOk(passed[ip], states[ip], now)
           /\ passed[ip] \in Seq(Nat) /\ now \in Nat
           /\ TypeOK /\ ClockInv
BY DEF LimiterInv, RateInv, TypeOK

\* Before its check, the bucket of the entry covers all windows until now.
LEMMA EntryBounded ==
    ASSUME LimiterInv, RateInv, RateConfigured, NEW ip \in Ips
    PROVE  /\ Refill(Entry(ip).bucket, now).tokens \in Nat
           /\ Refill(Entry(ip).bucket, now).tokens <= Full
           /\ Bounded(Refill(Entry(ip).bucket, now).tokens, passed[ip], now)
<1> DEFINE b == Entry(ip).bucket
           x == b.tokens
           y == Refill(b, now).tokens
           q == Earned(now - b.last)
           times == passed[ip]
<1>1. Sound(b) /\ RateOk(times, states[ip], now) /\ times \in Seq(Nat) /\ now \in Nat
  BY EntryFacts, AddressFacts
<1>2. b.last \in Nat /\ b.last <= now /\ x \in Nat /\ now - b.last \in Int
  BY <1>1 DEF Sound, Buckets
<1>3. Bounded(x, times, b.last)
  <2>1. CASE states[ip] # Absent
    BY <1>1, <2>1 DEF RateOk, Entry
  <2>2. CASE states[ip] = Absent
    <3>1. b = NewBucket(Rate, Burst, now)
      BY <2>2 DEF Entry
    <3>2. x = Full /\ b.last = now
      BY <1>1, <3>1, NewIsSound
    <3> QED BY <1>1, <2>2, <3>2 DEF RateOk
  <2> QED BY <2>1, <2>2
<1>4. y \in Nat /\ y <= Full
  BY <1>1, Refilled DEF Sound, Buckets
<1>5. q \in Int
  BY <1>2, EarnedType
<1>6. y <= x + q
  BY <1>1, <1>5, Refilled
<1> HIDE DEF b, x, y, q, times
<1>7. q = Earned(now - b.last)
  BY DEF q
<1>8. Bounded(y, times, now)
  BY <1>1, <1>2, <1>3, <1>4, <1>5, <1>6, <1>7, Later
<1> QED
  BY <1>4, <1>8 DEF b, y, times

\* Time passes: what an absent entry has recovered stays recovered.
LEMMA TickRate == ASSUME LimiterInv, RateInv, Tick PROVE RateInv'
<1> SUFFICES ASSUME NEW ip \in Ips PROVE RateOk(passed'[ip], states'[ip], now')
  BY DEF RateInv, RateOk, Bounded, Allowance, Windows, Window
<1> DEFINE times == passed[ip]
           t == now + 1
           q == Earned(t - now)
<1>1. RateOk(times, states[ip], now) /\ times \in Seq(Nat) /\ now \in Nat
  BY AddressFacts
<1>2. now' = t /\ passed' = passed /\ states' = states /\ t \in Nat /\ now <= t /\ t - now = 1
  BY <1>1 DEF Tick
<1>3. \A i \in 1..Len(times) : times[i] <= t
  <2>1. \A i \in 1..Len(times) : times[i] \in Nat /\ times[i] <= now
    BY <1>1 DEF RateOk
  <2> QED BY <1>1, <2>1
<1>4. Bounded(Full, times, now) => Bounded(Full, times, t)
  <2>1. q \in Int /\ 0 <= q
    <3>1. q = Earned(1)
      BY <1>2
    <3>2. Earned(1) \in Int /\ Earned(0) <= Earned(1)
      BY EarnedType, EarnedMore
    <3> QED BY <3>1, <3>2, Units
  <2> HIDE DEF t, q, times
  <2>2. Full \in Nat /\ Full <= Full + q
    BY <2>1, Sizes
  <2>3. q = Earned(t - now)
    BY DEF q
  <2> QED BY <1>1, <1>2, <2>1, <2>2, <2>3, Later
<1> QED
  BY <1>1, <1>2, <1>3, <1>4 DEF RateOk

\* A scan reads the map only.
LEMMA ScanRate == ASSUME LimiterInv, RateInv, NEW r \in Requests, Scan(r) PROVE RateInv'
<1>1. UNCHANGED <<now, states, passed>>
  BY DEF Scan
<1> QED
  BY <1>1 DEF RateInv, RateOk, Bounded, Allowance, Windows, Window

\* A reaped entry had been idle for longer than IDLE_TTL when the scan began.
LEMMA ReapRate ==
    ASSUME ReapIsTransparent, LimiterInv, RateInv,
           NEW r \in Requests, NEW ip \in Ips, Reap(r, ip)
    PROVE  RateInv'
<1>1. /\ UNCHANGED <<now, passed>>
      /\ \/ states' = states
         \/ states' = [states EXCEPT ![ip] = Absent] /\ Idle(states[ip], asof[r])
  BY DEF Reap, StillIdle
<1>2. CASE states' = states
  BY <1>1, <1>2 DEF RateInv, RateOk, Bounded, Allowance, Windows, Window
<1>3. CASE states' = [states EXCEPT ![ip] = Absent] /\ Idle(states[ip], asof[r])
  <2> DEFINE times == passed[ip]
             seen == states[ip].seen
  <2>1. /\ RateOk(times, states[ip], now) /\ times \in Seq(Nat) /\ now \in Nat
        /\ TypeOK /\ ClockInv
    BY AddressFacts
  <2>2. states[ip] # Absent /\ states[ip].concurrent = 0 /\ states[ip] \in IpStates
    BY <1>3, <2>1 DEF Idle, TypeOK
  <2>3. seen \in Nat /\ \A i \in 1..Len(times) : times[i] <= seen
    BY <2>1, <2>2 DEF RateOk, IpStates
  <2>4. PICK l \in Nat : l = IdleTtl
    BY LimiterAssumption
  <2>5. now - seen > l
    <3>1. asof[r] \in Nat /\ asof[r] <= now
      BY <2>1 DEF TypeOK, ClockInv
    <3>2. asof[r] - seen > l
      BY <1>3, <2>4 DEF Idle
    <3> QED BY <2>1, <2>3, <2>4, <3>1, <3>2
  <2>6. Windows(times)
    BY <2>1 DEF RateOk
  <2> HIDE DEF seen, times
  <2>7. Bounded(Full, times, now)
    BY <2>1, <2>3, <2>4, <2>5, <2>6, Recovered
  <2>8. RateOk(times, Absent, now)
    BY <2>1, <2>7 DEF RateOk
  <2>9. /\ \A x \in Ips : x # ip => states'[x] = states[x]
        /\ states'[ip] = Absent
    BY <1>3, <2>1 DEF TypeOK
  <2> QED BY <1>1, <2>8, <2>9, OneAddress DEF times
<1> QED
  BY <1>1, <1>2, <1>3

\* A check that the bucket refuses.
LEMMA LimitedRate ==
    ASSUME LimiterInv, RateInv, NEW r \in Requests, RateLimited(r)
    PROVE  RateInv'
<1> DEFINE a == IpOf[r]
           times == passed[a]
<1>1. /\ ~PassesRate(a) /\ states' = [states EXCEPT ![a] = Charged(a)]
      /\ UNCHANGED <<now, passed>>
  BY DEF RateLimited
<1>2. a \in Ips
  BY LimiterAssumption
<1> HIDE DEF a
<1>3. /\ RateOk(times, states[a], now) /\ times \in Seq(Nat) /\ now \in Nat
      /\ TypeOK /\ ClockInv
  BY <1>2, AddressFacts
<1>4. RateConfigured /\ ~Admits(Entry(a).bucket, now)
  BY <1>1 DEF PassesRate
<1>5. /\ Charged(a) \in IpStates /\ Charged(a).concurrent = states[a].concurrent
      /\ Charged(a).seen = Entry(a).seen
      /\ Charged(a).bucket = Consume(Entry(a).bucket, now)
      /\ Sound(Entry(a).bucket)
  BY <1>2, <1>3, <1>4, ChargedFacts, EntryFacts
<1>6. /\ Charged(a).bucket.last = now
      /\ Charged(a).bucket.tokens = Refill(Entry(a).bucket, now).tokens
  BY <1>3, <1>4, <1>5, Consumed
<1>7. Bounded(Charged(a).bucket.tokens, times, Charged(a).bucket.last)
  BY <1>2, <1>4, <1>6, EntryBounded
<1>8. Charged(a).concurrent = 0 => \A i \in 1..Len(times) : times[i] <= Charged(a).seen
  <2>1. CASE states[a] # Absent
    BY <1>3, <1>5, <2>1 DEF RateOk, Entry
  <2>2. CASE states[a] = Absent
    BY <1>3, <1>5, <2>2 DEF RateOk, Entry
  <2> QED BY <2>1, <2>2
<1>9. RateOk(times, Charged(a), now)
  BY <1>3, <1>5, <1>7, <1>8, AbsentFacts DEF RateOk
<1>10. /\ \A x \in Ips : x # a => states'[x] = states[x]
       /\ states'[a] = Charged(a)
  BY <1>1, <1>2, <1>3 DEF TypeOK
<1> QED
  BY <1>1, <1>2, <1>9, <1>10, OneAddress

\* A passed check, whatever becomes of the request: e is the entry afterwards.
LEMMA PassedRate ==
    ASSUME LimiterInv, RateInv, NEW a \in Ips, PassesRate(a), Passes(a), now' = now,
           NEW e \in IpStates, e.bucket = Charged(a).bucket, e.concurrent # 0,
           states' = [states EXCEPT ![a] = e]
    PROVE  RateInv'
<1> DEFINE times == passed[a]
           more == passed'[a]
<1>1. /\ RateOk(times, states[a], now) /\ times \in Seq(Nat) /\ now \in Nat
      /\ TypeOK /\ ClockInv
  BY AddressFacts
<1>2. /\ \A x \in Ips : x # a => states'[x] = states[x] /\ passed'[x] = passed[x]
      /\ states'[a] = e
      /\ more = IF RateConfigured THEN Append(times, now) ELSE times
  BY <1>1 DEF TypeOK, Passes
<1>3. RateOk(more, e, now)
  <2>1. CASE ~RateConfigured
    BY <1>1, <1>2, <2>1, AbsentFacts DEF RateOk
  <2>2. CASE RateConfigured
    <3> DEFINE x == Refill(Entry(a).bucket, now).tokens
    <3>1. /\ Admits(Entry(a).bucket, now) /\ Sound(Entry(a).bucket)
          /\ e.bucket = Consume(Entry(a).bucket, now)
      BY <1>1, <2>2, ChargedFacts, EntryFacts DEF PassesRate
    <3>2. /\ e.bucket.last = now /\ e.bucket.tokens = x - Token
          /\ Sound(e.bucket)
      BY <1>1, <3>1, Consumed
    <3>3. x \in Nat /\ x <= Full /\ Bounded(x, times, now)
      BY <2>2, EntryBounded
    <3>4. x - Token \in Nat
      BY <3>2 DEF Sound, Buckets
    <3>5. more = Append(times, now)
      BY <1>2, <2>2
    <3> HIDE DEF x, times, more
    <3>6. Bounded(x - Token, more, now)
      BY <1>1, <3>3, <3>5, Charges
    <3>7. Windows(more)
      BY <1>1, <3>4, <3>5, <3>6, WindowsGrow DEF RateOk
    <3>8. \A i \in 1..Len(more) : more[i] <= now
      BY <1>1, <3>5 DEF RateOk
    <3> QED BY <2>2, <3>2, <3>6, <3>7, <3>8, AbsentFacts DEF RateOk
  <2> QED BY <2>1, <2>2
<1> QED
  BY <1>2, <1>3, OneAddress

\* A refusal for the number of connections follows a passed check, and leaves
\* the permits that stand in the way.
LEMMA FullRate ==
    ASSUME MaxConcurrent > 0, LimiterInv, RateInv, NEW r \in Requests, ConcurrencyLimited(r)
    PROVE  RateInv'
<1> DEFINE a == IpOf[r]
<1>1. /\ PassesRate(a) /\ Passes(a) /\ states' = [states EXCEPT ![a] = Charged(a)]
      /\ Entry(a).concurrent >= MaxConcurrent /\ now' = now /\ a \in Ips
  BY LimiterAssumption DEF ConcurrencyLimited
<1>2. TypeOK /\ ClockInv
  BY DEF LimiterInv
<1>3. /\ Charged(a) \in IpStates
      /\ Charged(a).concurrent = Entry(a).concurrent /\ Entry(a).concurrent \in Nat
  BY <1>1, <1>2, ChargedFacts, EntryFacts DEF IpStates
<1>4. Charged(a).concurrent # 0
  BY <1>1, <1>3, LimiterAssumption
<1> HIDE DEF a
<1> QED
  BY <1>1, <1>3, <1>4, PassedRate

\* An admission.
LEMMA AdmitRate ==
    ASSUME LimiterInv, RateInv, NEW r \in Requests, Admit(r)
    PROVE  RateInv'
<1> DEFINE a == IpOf[r]
           k == Charged(a).concurrent + 1
           e == [Charged(a) EXCEPT !.concurrent = k, !.seen = now]
<1>1. /\ PassesRate(a) /\ Passes(a) /\ states' = [states EXCEPT ![a] = e]
      /\ now' = now /\ a \in Ips
  BY LimiterAssumption DEF Admit
<1>2. TypeOK /\ ClockInv /\ now \in Nat
  BY DEF LimiterInv, TypeOK
<1>3. Charged(a) \in IpStates
  BY <1>1, <1>2, ChargedFacts
<1>4. k \in Nat /\ k # 0
  BY <1>3 DEF IpStates
<1> HIDE DEF a, k
<1>5. e \in IpStates /\ e.concurrent = k /\ e.bucket = Charged(a).bucket
  BY <1>2, <1>3, <1>4 DEF IpStates
<1> HIDE DEF e
<1> QED
  BY <1>1, <1>4, <1>5, PassedRate

\* A release: the entry was last seen now.
LEMMA ReleaseRate ==
    ASSUME LimiterInv, RateInv, NEW r \in Requests, Release(r)
    PROVE  RateInv'
<1> DEFINE a == IpOf[r]
           times == passed[a]
<1>1. a \in Ips /\ UNCHANGED <<now, passed>>
  BY LimiterAssumption DEF Release
<1>2. /\ RateOk(times, states[a], now) /\ times \in Seq(Nat) /\ now \in Nat
      /\ TypeOK /\ ClockInv
  BY <1>1, AddressFacts
<1>3. CASE states[a] = Absent
  <2>1. states' = states
    BY <1>3 DEF Release
  <2> QED BY <1>1, <2>1 DEF RateInv, RateOk, Bounded, Allowance, Windows, Window
<1>4. CASE states[a] # Absent
  <2> DEFINE n == states[a].concurrent
             k == IF n > 0 THEN n - 1 ELSE 0
             e == [states[a] EXCEPT !.concurrent = k, !.seen = now]
  <2>1. states' = [states EXCEPT ![a] = e]
    BY <1>4 DEF Release
  <2>2. states[a] \in IpStates /\ k \in Nat
    BY <1>1, <1>2, <1>4 DEF TypeOK, IpStates
  <2> HIDE DEF k
  <2>3. e \in IpStates /\ e.seen = now /\ e.bucket = states[a].bucket
    BY <1>2, <2>2 DEF IpStates
  <2>4. /\ \A x \in Ips : x # a => states'[x] = states[x]
        /\ states'[a] = e
    BY <1>1, <1>2, <2>1 DEF TypeOK
  <2> HIDE DEF e
  <2>5. RateOk(times, e, now)
    BY <1>2, <1>4, <2>3, AbsentFacts DEF RateOk
  <2> HIDE DEF a
  <2> QED BY <1>1, <2>4, <2>5, OneAddress
<1> QED
  BY <1>3, <1>4

\* Connections from one address that pass the rate check respect its rate in
\* every window, although the entry that remembers them is reaped while it is
\* idle: IDLE_TTL fills a bucket, and an entry without permits was seen at its
\* last passed check.  The latter needs a limit that admits somebody: with a
\* limit of zero a refused connection passes the check unseen.
THEOREM RateIsKept ==
    ASSUME ReapIsTransparent, MaxConcurrent > 0
    PROVE  Spec => []RateHolds
<1>1. Init => RateInv
  <2> SUFFICES ASSUME Init PROVE RateInv
    OBVIOUS
  <2>1. \A ip \in Ips : passed[ip] = <<>> /\ states[ip] = Absent
    BY DEF Init
  <2> QED BY <2>1 DEF RateInv, RateOk, Windows, Bounded
<1>2. LimiterInv /\ RateInv /\ [Next]_vars => RateInv'
  <2> SUFFICES ASSUME LimiterInv, RateInv, [Next]_vars PROVE RateInv'
    OBVIOUS
  <2>1. CASE UNCHANGED vars
    BY <2>1 DEF vars, RateInv, RateOk, Bounded, Allowance, Windows, Window
  <2> QED
    BY <2>1, TickRate, ScanRate, ReapRate, LimitedRate, FullRate, AdmitRate, ReleaseRate
       DEF Next
<1>3. RateInv => RateHolds
  BY DEF RateInv, RateOk, Windows, RateHolds
<1> QED
  BY <1>1, <1>2, <1>3, LimiterInvariant, PTL DEF Spec
=============================================================================
