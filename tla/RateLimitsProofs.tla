-------------------------- MODULE RateLimitsProofs --------------------------
(***************************************************************************)
(* Proofs about RateLimits, for every set of connections and tenants and   *)
(* every rate, burst and clock.  The first half is about one token bucket  *)
(* of capacity f that gains p parts a tick: it admits a check exactly if   *)
(* the checks it admitted before, together with this one, respect f and p  *)
(* in every window.  The second half is about who asks which bucket.       *)
(***************************************************************************)
EXTENDS RateLimits, TLAPS

\* What p parts a tick give in d ticks, and what n frames cost.
Earned(p, d) == p * d
Cost(n)      == n * Token

\* What a bucket may hold at most at time t as far as the window from the i-th
\* admitted frame onwards goes.
Allowance(times, i, t, f, p) == f + Earned(p, t - times[i]) - Cost(Len(times) - i + 1)

\* The frames admitted at `times' respect the capacity and the rate.
Windows(times, f, p) ==
    \A i, j \in 1..Len(times) :
        i <= j => Cost(j - i + 1) <= f + Earned(p, times[j] - times[i])

\* At time t, x is no more than each window allows, and as much as one of them
\* or the capacity allows: the bucket forgets nothing and charges nothing else.
Bounded(x, times, t, f, p) == \A i \in 1..Len(times) : x <= Allowance(times, i, t, f, p)
Tight(x, times, t, f, p) ==
    x = f \/ \E i \in 1..Len(times) : x = Allowance(times, i, t, f, p)
Measures(x, times, t, f, p) == Bounded(x, times, t, f, p) /\ Tight(x, times, t, f, p)

\* A bucket of this capacity and rate, last asked no later than t.
Sound(b, t, f, p) ==
    /\ b \in Buckets
    /\ b.capacity = f /\ b.rate = p
    /\ b.tokens <= f
    /\ b.last <= t

-----------------------------------------------------------------------------
(* Arithmetic: products that the solver need not look into any further.    *)

\* A token is a positive number of parts.
LEMMA TokenType == Token \in Nat \ {0}
BY TickAssumption DEF Token

\* What a rate gives is a number.
LEMMA EarnedType == \A p \in Nat : \A d \in Int : Earned(p, d) \in Int
<1>1. \A p \in Nat : \A d \in Int : p * d \in Int
  OBVIOUS
<1> QED BY <1>1 DEF Earned

\* It is no less than nothing in a span that is none.
LEMMA EarnedNat == \A p, d \in Nat : Earned(p, d) \in Nat
<1>1. \A p, d \in Nat : p * d \in Nat
  OBVIOUS
<1> QED BY <1>1 DEF Earned

\* What it gives in two spans together is what it gives in each.
LEMMA EarnedSum == \A p \in Nat : \A c, d \in Int : Earned(p, c + d) = Earned(p, c) + Earned(p, d)
<1>1. \A p \in Nat : \A c, d \in Int : p * (c + d) = p * c + p * d
  OBVIOUS
<1> QED BY <1>1 DEF Earned

\* What frames cost is a number.
LEMMA CostType == \A n \in Int : Cost(n) \in Int
<1>1. \A k, n \in Int : n * k \in Int
  OBVIOUS
<1> QED BY <1>1, TokenType DEF Cost

\* One frame more costs one token more.
LEMMA CostNext == \A n \in Int : Cost(n + 1) = Cost(n) + Token
<1>1. \A k, n \in Int : (n + 1) * k = n * k + k
  OBVIOUS
<1> QED BY <1>1, TokenType DEF Cost

\* No time gives nothing, and one frame costs one token.
LEMMA Units == Cost(1) = Token /\ \A p \in Nat : Earned(p, 0) = 0
<1>1. \A p \in Int : p * 0 = 0 /\ 1 * p = p
  OBVIOUS
<1> QED BY <1>1, TokenType DEF Earned, Cost

-----------------------------------------------------------------------------
(* One bucket.                                                             *)

\* An allowance is a number.
LEMMA AllowanceType ==
    ASSUME NEW f \in Nat, NEW p \in Nat, NEW times \in Seq(Nat), NEW i \in 1..Len(times),
           NEW t \in Nat
    PROVE  Allowance(times, i, t, f, p) \in Int
<1>1. t - times[i] \in Int /\ Len(times) - i + 1 \in Int
  OBVIOUS
<1>2. Cost(Len(times) - i + 1) \in Int /\ Earned(p, t - times[i]) \in Int
  BY <1>1, CostType, EarnedType
<1> QED
  BY <1>2 DEF Allowance

\* With time the allowance grows by what the rate gives.
LEMMA AllowanceLater ==
    ASSUME NEW f \in Nat, NEW p \in Nat, NEW times \in Seq(Nat), NEW i \in 1..Len(times),
           NEW t \in Nat, NEW u \in Nat
    PROVE  Allowance(times, i, u, f, p) = Allowance(times, i, t, f, p) + Earned(p, u - t)
<1> DEFINE k == Cost(Len(times) - i + 1)
           e == Earned(p, t - times[i])
           q == Earned(p, u - t)
<1>1. times[i] \in Nat /\ t - times[i] \in Int /\ u - t \in Int /\ Len(times) - i + 1 \in Int
  OBVIOUS
<1>2. k \in Int /\ e \in Int /\ q \in Int
  BY <1>1, CostType, EarnedType
<1>3. Earned(p, u - times[i]) = e + q
  <2>1. u - times[i] = (t - times[i]) + (u - t)
    BY <1>1
  <2>2. Earned(p, (t - times[i]) + (u - t)) = e + q
    BY <1>1, EarnedSum
  <2> QED BY <2>1, <2>2
<1>4. Allowance(times, i, t, f, p) = f + e - k /\ Allowance(times, i, u, f, p) = f + (e + q) - k
  BY <1>3 DEF Allowance
<1> HIDE DEF k, e, q
<1>5. f + (e + q) - k = (f + e - k) + q
  BY <1>2
<1> QED
  BY <1>4, <1>5 DEF q

\* A frame more costs a token of every window it ends; the window of itself
\* alone leaves all but one token.
LEMMA AllowanceNext ==
    ASSUME NEW f \in Nat, NEW p \in Nat, NEW times \in Seq(Nat), NEW t \in Nat
    PROVE  /\ Allowance(Append(times, t), Len(times) + 1, t, f, p) = f - Token
           /\ \A i \in 1..Len(times) :
                Allowance(Append(times, t), i, t, f, p) = Allowance(times, i, t, f, p) - Token
<1> DEFINE more == Append(times, t)
           n == Len(times)
<1>1. more \in Seq(Nat) /\ Len(more) = n + 1 /\ n \in Nat
  OBVIOUS
<1>2. Allowance(more, n + 1, t, f, p) = f - Token
  <2>1. more[n + 1] = t /\ Len(more) - (n + 1) + 1 = 1 /\ t - t = 0
    BY <1>1
  <2>2. Earned(p, 0) = 0 /\ Cost(1) = Token
    BY Units
  <2>3. Allowance(more, n + 1, t, f, p) = f + 0 - Token
    BY <2>1, <2>2 DEF Allowance
  <2> HIDE DEF more, n
  <2> QED BY <2>3, TokenType
<1>3. ASSUME NEW i \in 1..n
      PROVE  Allowance(more, i, t, f, p) = Allowance(times, i, t, f, p) - Token
  <2> DEFINE k == Cost(n - i + 1)
             e == Earned(p, t - times[i])
  <2>1. more[i] = times[i] /\ times[i] \in Nat
    BY <1>1
  <2>2. Len(more) - i + 1 = (n - i + 1) + 1 /\ n - i + 1 \in Int
    BY <1>1
  <2>3. Cost(Len(more) - i + 1) = k + Token /\ k \in Int
    BY <2>2, CostType, CostNext
  <2>4. e \in Int
    <3>1. t - times[i] \in Int
      BY <2>1
    <3> QED BY <3>1, EarnedType
  <2>5. Allowance(more, i, t, f, p) = f + e - (k + Token) /\ Allowance(times, i, t, f, p) = f + e - k
    BY <2>1, <2>3 DEF Allowance
  <2> HIDE DEF k, e, more, n
  <2> QED BY <2>3, <2>4, <2>5, TokenType
<1> QED
  BY <1>2, <1>3

\* Refilling keeps the bucket a measure of the windows.
LEMMA Refills ==
    ASSUME NEW f \in Nat, NEW p \in Nat, NEW times \in Seq(Nat),
           NEW t \in Nat, NEW u \in Nat, NEW x \in Nat, x <= f, Measures(x, times, t, f, p),
           NEW q \in Nat, q = Earned(p, u - t), NEW y, y = Smaller(x + q, f)
    PROVE  y \in Nat /\ y <= f /\ Measures(y, times, u, f, p)
<1>1. y \in Nat /\ y <= f /\ y <= x + q /\ (y = f \/ y = x + q)
  BY DEF Smaller
<1>2. ASSUME NEW i \in 1..Len(times)
      PROVE  /\ Allowance(times, i, t, f, p) \in Int
             /\ Allowance(times, i, u, f, p) = Allowance(times, i, t, f, p) + q
  <2>1. Allowance(times, i, u, f, p) = Allowance(times, i, t, f, p) + Earned(p, u - t)
    BY AllowanceLater
  <2>2. Allowance(times, i, u, f, p) = Allowance(times, i, t, f, p) + q
    BY <2>1
  <2> QED BY <2>2, AllowanceType
<1>3. Bounded(y, times, u, f, p)
  <2> SUFFICES ASSUME NEW i \in 1..Len(times) PROVE y <= Allowance(times, i, u, f, p)
    BY DEF Bounded
  <2>1. x <= Allowance(times, i, t, f, p)
    BY DEF Measures, Bounded
  <2> DEFINE a == Allowance(times, i, t, f, p)
  <2>2. a \in Int /\ x <= a /\ Allowance(times, i, u, f, p) = a + q
    BY <1>2, <2>1
  <2> HIDE DEF a
  <2>3. y <= a + q
    BY <1>1, <2>2
  <2> QED BY <2>2, <2>3
<1>4. Tight(y, times, u, f, p)
  <2>1. CASE x = f
    BY <1>1, <2>1 DEF Tight
  <2>2. CASE x # f
    <3>1. PICK i \in 1..Len(times) : x = Allowance(times, i, t, f, p)
      BY <2>2 DEF Measures, Tight
    <3>2. x + q = Allowance(times, i, u, f, p)
      BY <1>2, <3>1
    <3> QED BY <1>1, <3>2 DEF Tight
  <2> QED BY <2>1, <2>2
<1> QED
  BY <1>1, <1>3, <1>4 DEF Measures

\* So does charging an admitted frame.
LEMMA Charges ==
    ASSUME NEW f \in Nat, NEW p \in Nat, NEW times \in Seq(Nat), NEW t \in Nat,
           NEW x \in Nat, x <= f, Measures(x, times, t, f, p)
    PROVE  Measures(x - Token, Append(times, t), t, f, p)
<1> DEFINE more == Append(times, t)
           n == Len(times)
<1>1. n \in Nat /\ Len(more) = n + 1
  OBVIOUS
<1>2. Allowance(more, n + 1, t, f, p) = f - Token
  BY AllowanceNext
<1>3. ASSUME NEW i \in 1..n
      PROVE  /\ Allowance(times, i, t, f, p) \in Int
             /\ Allowance(more, i, t, f, p) = Allowance(times, i, t, f, p) - Token
  BY AllowanceNext, AllowanceType
<1>4. Bounded(x - Token, more, t, f, p)
  <2> SUFFICES ASSUME NEW i \in 1..Len(more) PROVE x - Token <= Allowance(more, i, t, f, p)
    BY DEF Bounded
  <2>1. CASE i = n + 1
    BY <1>2, <2>1, TokenType
  <2>2. CASE i # n + 1
    <3>1. i \in 1..n
      BY <1>1, <2>2
    <3>2. x <= Allowance(times, i, t, f, p)
      BY <3>1 DEF Measures, Bounded
    <3> HIDE DEF n, more
    <3> QED BY <1>3, <3>1, <3>2, TokenType
  <2> QED BY <2>1, <2>2
<1>5. Tight(x - Token, more, t, f, p)
  <2>1. CASE x = f
    BY <1>1, <1>2, <2>1 DEF Tight
  <2>2. CASE x # f
    <3>1. PICK i \in 1..n : x = Allowance(times, i, t, f, p)
      BY <2>2 DEF Measures, Tight
    <3>2. x - Token = Allowance(more, i, t, f, p) /\ i \in 1..Len(more)
      BY <1>1, <1>3, <3>1
    <3> QED BY <3>2 DEF Tight
  <2> QED BY <2>1, <2>2
<1> QED
  BY <1>4, <1>5 DEF Measures

\* There is a token for a frame exactly if every window stays within the rate.
LEMMA Exact ==
    ASSUME NEW f \in Nat, Token <= f, NEW p \in Nat, NEW times \in Seq(Nat), NEW t \in Nat,
           Windows(times, f, p), NEW x \in Nat, x <= f, Measures(x, times, t, f, p)
    PROVE  x >= Token <=> Windows(Append(times, t), f, p)
<1> DEFINE more == Append(times, t)
           n == Len(times)
<1>1. more \in Seq(Nat) /\ Len(more) = n + 1 /\ n \in Nat /\ more[n + 1] = t
  OBVIOUS
<1>2. \A i \in 1..n : more[i] = times[i]
  OBVIOUS
\* The window that ends with the new frame, in terms of the allowance.
<1>3. ASSUME NEW i \in 1..Len(more)
      PROVE  Cost(Len(more) - i + 1) <= f + Earned(p, t - more[i])
               <=> 0 <= Allowance(more, i, t, f, p)
  <2> DEFINE k == Cost(Len(more) - i + 1)
             e == Earned(p, t - more[i])
  <2>1. k \in Int /\ e \in Int
    <3>1. Len(more) - i + 1 \in Int /\ t - more[i] \in Int
      BY <1>1
    <3> QED BY <3>1, CostType, EarnedType
  <2>2. Allowance(more, i, t, f, p) = f + e - k
    BY DEF Allowance
  <2> HIDE DEF k, e, more
  <2>3. k <= f + e <=> 0 <= f + e - k
    BY <2>1
  <2> QED BY <2>2, <2>3 DEF k, e
<1>4. ASSUME NEW i \in 1..Len(more)
      PROVE  Allowance(more, i, t, f, p) \in Int
  BY <1>1, AllowanceType
<1>5. Measures(x - Token, more, t, f, p)
  BY Charges
<1>6. ASSUME x >= Token PROVE Windows(more, f, p)
  <2> SUFFICES ASSUME NEW i \in 1..Len(more), NEW j \in 1..Len(more), i <= j
               PROVE  Cost(j - i + 1) <= f + Earned(p, more[j] - more[i])
    BY DEF Windows
  <2>1. CASE j = n + 1
    <3>1. x - Token <= Allowance(more, i, t, f, p)
      BY <1>5 DEF Measures, Bounded
    <3>2. 0 <= Allowance(more, i, t, f, p)
      <4> HIDE DEF more
      <4> QED BY <1>4, <1>6, <3>1, TokenType
    <3> QED BY <1>1, <1>3, <2>1, <3>2
  <2>2. CASE j # n + 1
    <3>1. i \in 1..n /\ j \in 1..n
      BY <1>1, <2>2
    <3>2. more[i] = times[i] /\ more[j] = times[j]
      BY <1>2, <3>1
    <3> QED BY <3>1, <3>2 DEF Windows
  <2> QED BY <2>1, <2>2
<1>7. ASSUME Windows(more, f, p), ~(x >= Token) PROVE FALSE
  <2>1. x # f /\ x < Token
    BY <1>7, TokenType
  <2>2. x - Token # f
    BY <2>1, TokenType
  <2>3. PICK i \in 1..Len(more) : x - Token = Allowance(more, i, t, f, p)
    BY <1>5, <2>2 DEF Measures, Tight
  <2>4. n + 1 \in 1..Len(more) /\ i <= n + 1
    BY <1>1
  <2>5. Cost(Len(more) - i + 1) <= f + Earned(p, t - more[i])
    BY <1>1, <1>7, <2>4 DEF Windows
  <2>6. 0 <= x - Token
    BY <1>3, <2>3, <2>5
  <2> QED BY <2>1, <2>6, TokenType
<1> QED
  BY <1>6, <1>7

\* The frames a bucket admitted, up to time t.
Keeps(b, times, t, f, p) ==
    /\ times \in Seq(Nat)
    /\ Sound(b, t, f, p)
    /\ Measures(b.tokens, times, b.last, f, p)
    /\ Windows(times, f, p)

\* A bucket keeps the same frames while nobody asks it.
LEMMA Waits ==
    ASSUME NEW f, NEW p, NEW b, NEW times, NEW t \in Nat, NEW u \in Nat, t <= u,
           Keeps(b, times, t, f, p)
    PROVE  Keeps(b, times, u, f, p)
BY DEF Keeps, Sound, Buckets

\* Asking a bucket: it admits the frame exactly if all windows stay within the
\* rate, and counts it exactly if it admits it.
LEMMA Asked ==
    ASSUME NEW f \in Nat, Token <= f, NEW p \in Nat, NEW t \in Nat,
           NEW b, NEW times, Keeps(b, times, t, f, p)
    PROVE  /\ Admits(b, t) <=> Windows(Append(times, t), f, p)
           /\ Admits(b, t) => Keeps(Consume(b, t), Append(times, t), t, f, p)
           /\ ~Admits(b, t) => Keeps(Consume(b, t), times, t, f, p)
<1> DEFINE d == t - b.last
           q == Earned(p, d)
           r == Refill(b, t)
           y == Smaller(b.tokens + q, f)
<1>1. /\ b \in [capacity : Nat, rate : Nat, tokens : Nat, last : Nat]
      /\ b.capacity = f /\ b.rate = p /\ b.tokens \in Nat /\ b.tokens <= f
      /\ b.last \in Nat /\ d \in Nat /\ times \in Seq(Nat)
      /\ Windows(times, f, p) /\ Measures(b.tokens, times, b.last, f, p)
  BY DEF Keeps, Sound, Buckets
<1>2. q \in Nat /\ q = d * p
  <2>1. \A m, n \in Nat : m * n = n * m
    OBVIOUS
  <2> QED BY <1>1, <2>1, EarnedNat DEF Earned
<1>3. y \in Nat /\ y <= f /\ Measures(y, times, t, f, p)
  <2> DEFINE x == b.tokens
             l == b.last
  <2>1. q = Earned(p, t - l) /\ y = Smaller(x + q, f)
    OBVIOUS
  <2>2. x \in Nat /\ x <= f /\ l \in Nat /\ times \in Seq(Nat) /\ Measures(x, times, l, f, p)
    BY <1>1
  <2>3. q \in Nat
    BY <1>2
  <2> HIDE DEF d, q, y, x, l
  <2> QED BY <2>1, <2>2, <2>3, Refills
<1>4. /\ r \in [capacity : Nat, rate : Nat, tokens : Nat, last : Nat]
      /\ r.capacity = f /\ r.rate = p /\ r.tokens = y /\ r.last = t
  <2>1. r = [b EXCEPT !.tokens = y, !.last = t]
    BY <1>1, <1>2 DEF Refill
  <2> HIDE DEF r, y
  <2> QED BY <1>1, <1>3, <2>1
<1> HIDE DEF d, q, r, y
<1>5. Admits(b, t) <=> y >= Token
  BY <1>4 DEF Admits, r
<1>6. y >= Token <=> Windows(Append(times, t), f, p)
  BY <1>1, <1>3, Exact
<1>7. ASSUME Admits(b, t) PROVE Keeps(Consume(b, t), Append(times, t), t, f, p)
  <2> DEFINE z == y - Token
             c == [r EXCEPT !.tokens = z]
  <2>1. Consume(b, t) = c
    BY <1>4, <1>7 DEF Consume, r
  <2>2. z \in Nat /\ z <= f
    BY <1>3, <1>5, <1>7, TokenType
  <2>3. Measures(z, Append(times, t), t, f, p)
    BY <1>1, <1>3, Charges
  <2> HIDE DEF z
  <2>4. /\ c \in [capacity : Nat, rate : Nat, tokens : Nat, last : Nat]
        /\ c.capacity = f /\ c.rate = p /\ c.tokens = z /\ c.last = t
    BY <1>4, <2>2
  <2> HIDE DEF c
  <2>5. Append(times, t) \in Seq(Nat)
    BY <1>1
  <2> QED BY <1>5, <1>6, <1>7, <2>1, <2>2, <2>3, <2>4, <2>5 DEF Keeps, Sound, Buckets
<1>8. ASSUME ~Admits(b, t) PROVE Keeps(Consume(b, t), times, t, f, p)
  <2>1. Consume(b, t) = r
    BY <1>8 DEF Consume, r
  <2> QED BY <1>1, <1>3, <1>4, <2>1 DEF Keeps, Sound, Buckets
<1> QED
  BY <1>5, <1>6, <1>7, <1>8

-----------------------------------------------------------------------------
(* Who asks which bucket.                                                  *)

\* The capacity and the pace that a burst and a rate make.
Full(burst) == AtLeastOne(burst) * Token
Pace(rate)  == AtLeastOne(rate)

\* Capacities and paces are numbers, and every bucket has room for a token.
LEMMA Sizes ==
    \A n \in Nat : Full(n) \in Nat /\ Token <= Full(n) /\ Pace(n) \in Nat
<1> SUFFICES ASSUME NEW n \in Nat PROVE Full(n) \in Nat /\ Token <= Full(n) /\ Pace(n) \in Nat
  OBVIOUS
<1>1. AtLeastOne(n) \in Nat \ {0}
  BY DEF AtLeastOne
<1>2. \A a, b \in Nat \ {0} : a * b \in Nat /\ b <= a * b
  OBVIOUS
<1> QED BY <1>1, <1>2, TokenType DEF Full, Pace

\* The limits of the configuration are numbers.
LEMMA Limits == Rate \in Nat /\ Burst \in Nat /\ TenantRate \in Nat /\ TenantBurst \in Nat
BY RateAssumption

\* A new bucket has admitted nothing.
LEMMA NewKeeps ==
    ASSUME NEW rate \in Nat, NEW burst \in Nat, NEW t \in Nat
    PROVE  Keeps(NewBucket(rate, burst, t), <<>>, t, Full(burst), Pace(rate))
<1> DEFINE f == Full(burst)
           p == Pace(rate)
           b == NewBucket(rate, burst, t)
<1>1. b = [capacity |-> f, rate |-> p, tokens |-> f, last |-> t]
  BY DEF NewBucket, Full, Pace
<1>2. f \in Nat /\ p \in Nat
  BY Sizes
<1> HIDE DEF f, p, b
<1>3. Sound(b, t, f, p) /\ b.tokens = f
  BY <1>1, <1>2 DEF Sound, Buckets
<1>4. Measures(b.tokens, <<>>, b.last, f, p) /\ Windows(<<>>, f, p)
  BY <1>3 DEF Measures, Bounded, Tight, Windows
<1> QED
  BY <1>3, <1>4 DEF Keeps, f, p, b

\* The windows are the ones that the properties speak of.
LEMMA SameWindows ==
    \A times, rate, burst : Respects(times, rate, burst) <=> Windows(times, Full(burst), Pace(rate))
BY DEF Respects, Window, Windows, Cost, Earned, Full, Pace

\* A connection that is open keeps its frames in its own bucket; one that was
\* limited sent more than that bucket takes.
OwnOk(state, b, times, t) ==
    /\ state = "new" => times = <<>>
    /\ state = "open" => Keeps(b, times, t, Full(Burst), Pace(Rate))
    /\ state = "limited" => ~Windows(times, Full(Burst), Pace(Rate))

\* A tenant's bucket keeps what was handled for it, and is made by its first frame.
SharedOk(b, times, t) ==
    /\ b = NoBucket => times = <<>>
    /\ b # NoBucket => Keeps(b, times, t, Full(TenantBurst), Pace(TenantRate))

OwnInv    == \A c \in Conns : OwnOk(phase[c], own[c], arrived[c], now)
SharedInv == \A t \in Tenants : SharedOk(shared[t], handled[t], now)

RateInv == TypeOK /\ OwnInv /\ SharedInv

\* The bucket a tenant's next frame asks, made or yet to be made.
LEMMA SharedKeeps ==
    ASSUME RateInv, NEW t \in Tenants
    PROVE  Keeps(Shared(t), handled[t], now, Full(TenantBurst), Pace(TenantRate))
<1>1. SharedOk(shared[t], handled[t], now) /\ now \in Nat
  BY DEF RateInv, SharedInv, TypeOK
<1>2. CASE shared[t] = NoBucket
  BY <1>1, <1>2, Limits, NewKeeps DEF SharedOk, Shared
<1>3. CASE shared[t] # NoBucket
  BY <1>1, <1>3 DEF SharedOk, Shared
<1> QED
  BY <1>2, <1>3

\* A bucket that keeps frames has room for a token, and none is NoBucket.
LEMMA KeepsFacts ==
    ASSUME NEW n \in Nat, NEW b, NEW times, NEW t, NEW p, Keeps(b, times, t, Full(n), p)
    PROVE  b \in Buckets /\ times \in Seq(Nat) /\ b # NoBucket
<1>1. b.capacity = Full(n) /\ Full(n) # 0
  BY Sizes, TokenType DEF Keeps, Sound
<1>2. NoBucket.capacity = 0
  BY DEF NoBucket
<1> QED
  BY <1>1, <1>2 DEF Keeps, Sound

\* A frame at the connection's own bucket: admitted if all its frames so far
\* stay within its rate, and otherwise the end of the connection.
LEMMA OwnAsked ==
    ASSUME RateInv, NEW c \in Conns, Arrives(c), now' = now,
           phase' = IF Admits(own[c], now) THEN phase ELSE [phase EXCEPT ![c] = "limited"]
    PROVE  /\ phase' \in [Conns -> Phases]
           /\ own' \in [Conns -> Buckets]
           /\ arrived' \in [Conns -> Seq(Nat)]
           /\ OwnInv'
<1> DEFINE f == Full(Burst)
           p == Pace(Rate)
           b == own[c]
           times == arrived[c]
<1>1. TypeOK /\ now \in Nat /\ Keeps(b, times, now, f, p) /\ phase[c] = "open"
  BY DEF RateInv, OwnInv, OwnOk, TypeOK, Arrives
<1>2. f \in Nat /\ Token <= f /\ p \in Nat
  BY Limits, Sizes
<1> HIDE DEF f, p, b, times
<1>3. /\ Admits(b, now) <=> Windows(Append(times, now), f, p)
      /\ Admits(b, now) => Keeps(Consume(b, now), Append(times, now), now, f, p)
      /\ ~Admits(b, now) => Keeps(Consume(b, now), times, now, f, p)
  BY <1>1, <1>2, Asked
<1>4. /\ own' = [own EXCEPT ![c] = Consume(b, now)]
      /\ arrived' = [arrived EXCEPT ![c] = Append(times, now)]
  BY DEF Arrives, b, times
<1>5. Consume(b, now) \in Buckets /\ Append(times, now) \in Seq(Nat)
  BY <1>1, <1>3 DEF Keeps, Sound
<1>6. phase' \in [Conns -> Phases]
  BY <1>1 DEF TypeOK, Phases
<1>7. own' \in [Conns -> Buckets] /\ arrived' \in [Conns -> Seq(Nat)]
  BY <1>1, <1>4, <1>5 DEF TypeOK
<1>8. /\ own'[c] = Consume(b, now) /\ arrived'[c] = Append(times, now)
      /\ phase'[c] = IF Admits(b, now) THEN "open" ELSE "limited"
      /\ \A d \in Conns : d # c => /\ own'[d] = own[d] /\ arrived'[d] = arrived[d]
                                   /\ phase'[d] = phase[d]
  BY <1>1, <1>4 DEF TypeOK, b
<1>9. OwnOk(phase'[c], own'[c], arrived'[c], now)
  BY <1>3, <1>8 DEF OwnOk, f, p
<1>10. ASSUME NEW d \in Conns PROVE OwnOk(phase'[d], own'[d], arrived'[d], now')
  <2>1. OwnOk(phase[d], own[d], arrived[d], now)
    BY DEF RateInv, OwnInv
  <2> QED BY <1>8, <1>9, <2>1
<1>11. OwnInv'
  BY <1>10 DEF OwnInv
<1> QED
  BY <1>6, <1>7, <1>11

\* A frame at the tenant's bucket: handled if all its handled frames and this
\* one stay within its rate, and forgotten otherwise.
LEMMA SharedAsked ==
    ASSUME RateInv, NEW t \in Tenants, now' = now,
           shared' = [shared EXCEPT ![t] = Consume(Shared(t), now)],
           handled' = IF Admits(Shared(t), now) THEN [handled EXCEPT ![t] = Append(@, now)]
                                                ELSE handled
    PROVE  /\ shared' \in [Tenants -> Buckets]
           /\ handled' \in [Tenants -> Seq(Nat)]
           /\ SharedInv'
<1> DEFINE f == Full(TenantBurst)
           p == Pace(TenantRate)
           b == Shared(t)
           times == handled[t]
<1>1. TypeOK /\ now \in Nat /\ Keeps(b, times, now, f, p)
  BY SharedKeeps DEF RateInv, TypeOK
<1>2. f \in Nat /\ Token <= f /\ p \in Nat
  BY Limits, Sizes
<1> HIDE DEF b, times
<1>3. /\ Admits(b, now) => Keeps(Consume(b, now), Append(times, now), now, f, p)
      /\ ~Admits(b, now) => Keeps(Consume(b, now), times, now, f, p)
  BY <1>1, <1>2, Asked
<1>4. /\ shared'[t] = Consume(b, now)
      /\ handled'[t] = IF Admits(b, now) THEN Append(times, now) ELSE times
      /\ \A u \in Tenants : u # t => shared'[u] = shared[u] /\ handled'[u] = handled[u]
  BY <1>1 DEF TypeOK, b, times
<1>5. Keeps(shared'[t], handled'[t], now, f, p)
  BY <1>3, <1>4
<1>6. shared'[t] \in Buckets /\ handled'[t] \in Seq(Nat) /\ shared'[t] # NoBucket
  BY <1>5, Limits, KeepsFacts
<1>7. shared' \in [Tenants -> Buckets] /\ handled' \in [Tenants -> Seq(Nat)]
  BY <1>1, <1>4, <1>6 DEF TypeOK
<1>8. ASSUME NEW u \in Tenants PROVE SharedOk(shared'[u], handled'[u], now')
  <2>1. SharedOk(shared[u], handled[u], now)
    BY DEF RateInv, SharedInv
  <2> QED BY <1>4, <1>5, <1>6, <2>1 DEF SharedOk
<1>9. SharedInv'
  BY <1>8 DEF SharedInv
<1> QED
  BY <1>7, <1>9

-----------------------------------------------------------------------------
(* The actions.                                                            *)

\* Time passes for every bucket.
LEMMA TickInv == ASSUME RateInv, Tick PROVE RateInv'
<1>1. now \in Nat /\ now' = now + 1 /\ UNCHANGED <<phase, own, shared, arrived, handled>>
  BY DEF RateInv, TypeOK, Tick
<1>2. now' \in Nat /\ now <= now'
  BY <1>1
<1>3. TypeOK'
  BY <1>1, <1>2 DEF RateInv, TypeOK
<1>4. ASSUME NEW c \in Conns PROVE OwnOk(phase[c], own[c], arrived[c], now')
  <2>1. OwnOk(phase[c], own[c], arrived[c], now)
    BY DEF RateInv, OwnInv
  <2> QED BY <1>1, <1>2, <2>1, Waits DEF OwnOk
<1>5. ASSUME NEW t \in Tenants PROVE SharedOk(shared[t], handled[t], now')
  <2>1. SharedOk(shared[t], handled[t], now)
    BY DEF RateInv, SharedInv
  <2> QED BY <1>1, <1>2, <2>1, Waits DEF SharedOk
<1> QED
  BY <1>1, <1>3, <1>4, <1>5 DEF RateInv, OwnInv, SharedInv

\* A connection opens with a full bucket of its own.
LEMMA OpenInv == ASSUME RateInv, NEW c \in Conns, Open(c) PROVE RateInv'
<1> DEFINE b == NewBucket(Rate, Burst, now)
<1>1. /\ TypeOK /\ now \in Nat /\ phase[c] = "new" /\ arrived[c] = <<>>
  BY DEF RateInv, OwnInv, OwnOk, TypeOK, Open
<1>2. Keeps(b, <<>>, now, Full(Burst), Pace(Rate))
  BY <1>1, Limits, NewKeeps
<1>3. b \in Buckets
  BY <1>2, Limits, KeepsFacts
<1>4. /\ phase' = [phase EXCEPT ![c] = "open"] /\ own' = [own EXCEPT ![c] = b]
      /\ UNCHANGED <<now, shared, arrived, handled>>
  BY DEF Open
<1> HIDE DEF b
<1>5. TypeOK'
  BY <1>1, <1>3, <1>4 DEF TypeOK, Phases
<1>6. ASSUME NEW d \in Conns PROVE OwnOk(phase'[d], own'[d], arrived'[d], now')
  <2>1. OwnOk(phase[d], own[d], arrived[d], now)
    BY DEF RateInv, OwnInv
  <2>2. CASE d = c
    BY <1>1, <1>2, <1>4, <2>2 DEF OwnOk, TypeOK
  <2>3. CASE d # c
    BY <1>1, <1>4, <2>1, <2>3 DEF TypeOK
  <2> QED BY <2>2, <2>3
<1>7. OwnInv' /\ SharedInv'
  BY <1>4, <1>6 DEF OwnInv, SharedInv, RateInv
<1> QED
  BY <1>5, <1>7 DEF RateInv

\* A connection leaves; its bucket goes with it.
LEMMA LeavesInv == ASSUME RateInv, NEW c \in Conns, Leaves(c) PROVE RateInv'
<1>1. /\ TypeOK /\ phase' = [phase EXCEPT ![c] = "closed"]
      /\ UNCHANGED <<now, own, shared, arrived, handled>>
  BY DEF RateInv, Leaves
<1>2. TypeOK'
  BY <1>1 DEF TypeOK, Phases
<1>3. ASSUME NEW d \in Conns PROVE OwnOk(phase'[d], own'[d], arrived'[d], now')
  <2>1. OwnOk(phase[d], own[d], arrived[d], now)
    BY DEF RateInv, OwnInv
  <2>2. CASE d = c
    BY <1>1, <2>2 DEF OwnOk, TypeOK
  <2>3. CASE d # c
    BY <1>1, <2>1, <2>3 DEF TypeOK
  <2> QED BY <2>2, <2>3
<1>4. OwnInv' /\ SharedInv'
  BY <1>1, <1>3 DEF OwnInv, SharedInv, RateInv
<1> QED
  BY <1>2, <1>4 DEF RateInv

\* A frame that does not reach the tenant's bucket: it is too many for the
\* connection, or too large.
LEMMA RefusedInv ==
    ASSUME RateInv, NEW c \in Conns, TooMany(c) \/ TooLarge(c)
    PROVE  RateInv'
<1>1. /\ Arrives(c) /\ UNCHANGED <<now, shared, handled>>
      /\ phase' = IF Admits(own[c], now) THEN phase ELSE [phase EXCEPT ![c] = "limited"]
  BY DEF TooMany, TooLarge
<1>2. /\ phase' \in [Conns -> Phases] /\ own' \in [Conns -> Buckets]
      /\ arrived' \in [Conns -> Seq(Nat)] /\ OwnInv'
  BY <1>1, OwnAsked
<1>3. TypeOK' /\ SharedInv'
  BY <1>1, <1>2 DEF RateInv, TypeOK, SharedInv
<1> QED
  BY <1>2, <1>3 DEF RateInv

\* A frame that reaches the tenant's bucket.
LEMMA ReachedInv ==
    ASSUME RateInv, NEW c \in Conns, TenantTooMany(c) \/ Handle(c)
    PROVE  RateInv'
<1> DEFINE t == TenantOf[c]
<1>1. /\ Arrives(c) /\ now' = now /\ phase' = phase /\ Admits(own[c], now)
      /\ shared' = [shared EXCEPT ![t] = Consume(Shared(t), now)]
      /\ handled' = IF Admits(Shared(t), now) THEN [handled EXCEPT ![t] = Append(@, now)]
                                              ELSE handled
      /\ t \in Tenants
  BY RateAssumption DEF TenantTooMany, Handle
<1> HIDE DEF t
<1>2. /\ phase' \in [Conns -> Phases] /\ own' \in [Conns -> Buckets]
      /\ arrived' \in [Conns -> Seq(Nat)] /\ OwnInv'
  BY <1>1, OwnAsked
<1>3. shared' \in [Tenants -> Buckets] /\ handled' \in [Tenants -> Seq(Nat)] /\ SharedInv'
  BY <1>1, SharedAsked
<1>4. TypeOK'
  BY <1>1, <1>2, <1>3 DEF RateInv, TypeOK
<1> QED
  BY <1>2, <1>3, <1>4 DEF RateInv

\* The invariant that the theorems below rest on.
LEMMA RateInvariant == Spec => []RateInv
<1>1. Init => RateInv
  BY RateAssumption
     DEF Init, RateInv, TypeOK, OwnInv, SharedInv, OwnOk, SharedOk, NoBucket, Buckets, Phases
<1>2. RateInv /\ [Next]_vars => RateInv'
  <2> SUFFICES ASSUME RateInv, [Next]_vars PROVE RateInv'
    OBVIOUS
  <2>1. CASE UNCHANGED vars
    BY <2>1 DEF vars, RateInv, TypeOK, OwnInv, SharedInv
  <2> QED
    BY <2>1, TickInv, OpenInv, LeavesInv, RefusedInv, ReachedInv DEF Next
<1> QED
  BY <1>1, <1>2, PTL DEF Spec

\* Every variable keeps its type; no bucket ever holds a negative amount.
THEOREM RateTypes == Spec => []TypeOK
<1>1. RateInv => TypeOK
  BY DEF RateInv
<1> QED BY <1>1, RateInvariant, PTL

\* The frames handled for a tenant respect its aggregate rate in every window,
\* over however many connections they come.
THEOREM TenantRateIsKept == Spec => []TenantRateHolds
<1>1. RateInv => TenantRateHolds
  <2> SUFFICES ASSUME RateInv, NEW t \in Tenants PROVE Respects(handled[t], TenantRate, TenantBurst)
    BY DEF TenantRateHolds
  <2>1. Windows(handled[t], Full(TenantBurst), Pace(TenantRate))
    BY SharedKeeps DEF Keeps
  <2> QED BY <2>1, SameWindows
<1> QED BY <1>1, RateInvariant, PTL

\* The tenant's bucket admits a frame exactly if the frames handled so far and
\* this one respect the rate: the constant state of a bucket is as good as the
\* whole history.
THEOREM TenantIsExact == Spec => []TenantExact
<1>1. RateInv => TenantExact
  <2> SUFFICES ASSUME RateInv, NEW t \in Tenants
               PROVE  Admits(Shared(t), now)
                        <=> Respects(Append(handled[t], now), TenantRate, TenantBurst)
    BY DEF TenantExact
  <2>1. Keeps(Shared(t), handled[t], now, Full(TenantBurst), Pace(TenantRate)) /\ now \in Nat
    BY SharedKeeps DEF RateInv, TypeOK
  <2>2. /\ Full(TenantBurst) \in Nat /\ Token <= Full(TenantBurst) /\ Pace(TenantRate) \in Nat
    BY Limits, Sizes
  <2>3. Admits(Shared(t), now) <=> Windows(Append(handled[t], now), Full(TenantBurst), Pace(TenantRate))
    BY <2>1, <2>2, Asked
  <2> QED BY <2>3, SameWindows
<1> QED BY <1>1, RateInvariant, PTL

\* A connection is closed by its own limit exactly when its frames exceed its
\* own rate in some window.
THEOREM LimitedIsExact == Spec => []LimitedExactly
<1>1. RateInv => LimitedExactly
  <2> SUFFICES ASSUME RateInv, NEW c \in Conns, phase[c] \in {"open", "limited"}
               PROVE  phase[c] = "limited" <=> ~Respects(arrived[c], Rate, Burst)
    BY DEF LimitedExactly
  <2>1. OwnOk(phase[c], own[c], arrived[c], now)
    BY DEF RateInv, OwnInv
  <2>2. phase[c] = "limited" <=> ~Windows(arrived[c], Full(Burst), Pace(Rate))
    BY <2>1 DEF OwnOk, Keeps
  <2> QED BY <2>2, SameWindows
<1> QED BY <1>1, RateInvariant, PTL
=============================================================================
