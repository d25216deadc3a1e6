---------------------------- MODULE TokenBucket ----------------------------
(***************************************************************************)
(* The token bucket behind every rate limit of the server: RateLimiter in  *)
(* src/src/server.rs (one per connection) and TokenBucket in               *)
(* src/src/ip_limiter.rs (one per tenant and one per source address) are   *)
(* the same algorithm.                                                     *)
(*                                                                         *)
(* Time is counted in ticks, TicksPerSecond of them to the second.  The    *)
(* code keeps fractions of tokens in an f64; here a token is TicksPerSecond *)
(* parts, so that a tick refills exactly `rate' parts and all amounts are  *)
(* natural numbers.  Rounding of the f64 is not modelled.                  *)
(***************************************************************************)
EXTENDS Integers

CONSTANT TicksPerSecond

ASSUME TickAssumption == TicksPerSecond \in Nat \ {0}

Token == TicksPerSecond

AtLeastOne(n) == IF n < 1 THEN 1 ELSE n
Smaller(a, b) == IF a < b THEN a ELSE b

Buckets == [capacity : Nat, rate : Nat, tokens : Nat, last : Nat]

\* A rate or burst of zero is raised to one; the bucket starts full.
NewBucket(rate, burst, now) ==
    [capacity |-> AtLeastOne(burst) * Token, rate |-> AtLeastOne(rate),
     tokens |-> AtLeastOne(burst) * Token, last |-> now]

\* Mutant RefillUncapped: the capacity is forgotten.
RefillUncapped(b, now) ==
    [b EXCEPT !.tokens = @ + (now - b.last) * b.rate, !.last = now]
Refill(b, now) ==
    [b EXCEPT !.tokens = Smaller(@ + (now - b.last) * b.rate, b.capacity),
              !.last = now]

\* allow / try_consume: whether a token is there, and the bucket afterwards.
\* Mutant AdmitsFraction: any part of a token will do.
AdmitsFraction(b, now) == Refill(b, now).tokens > 0
Admits(b, now) == Refill(b, now).tokens >= Token
\* Mutant ConsumeAlways: a refused caller is charged as well.
ConsumeAlways(b, now) == [Refill(b, now) EXCEPT !.tokens = @ - Token]
Consume(b, now) ==
    IF Admits(b, now) THEN [Refill(b, now) EXCEPT !.tokens = @ - Token]
                      ELSE Refill(b, now)
=============================================================================
