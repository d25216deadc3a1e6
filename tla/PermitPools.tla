---------------------------- MODULE PermitPools ----------------------------
(***************************************************************************)
(* What every concurrency limit of the server promises.  A user draws on   *)
(* one pool; at most Cap users of a pool hold a permit at a time, a user   *)
(* holds at most one, and a permit given back can be had again.  The       *)
(* global semaphore (one pool), the per-tenant semaphores and the counters *)
(* of IpLimiter implement it.                                              *)
(***************************************************************************)
EXTENDS Integers, FiniteSets

CONSTANTS
    Users,   \* whoever may hold a permit: a finite set
    PoolOf,  \* a function on Users: the pool each of them draws on
    Cap      \* the number of permits of a pool: a natural number

VARIABLE holders  \* the users that hold a permit

FiniteUsers == IsFiniteSet(Users) /\ Cap \in Nat

InPool(p) == {u \in holders : PoolOf[u] = p}

Init == holders = {}

Acquire(u) ==
    /\ u \notin holders
    /\ Cardinality(InPool(PoolOf[u])) < Cap
    /\ holders' = holders \union {u}

Release(u) ==
    /\ u \in holders
    /\ holders' = holders \ {u}

Next == \E u \in Users : Acquire(u) \/ Release(u)

Spec == Init /\ [][Next]_holders

\* The holders are users, and no pool has more of them than permits.
WithinCap ==
    /\ holders \subseteq Users
    /\ \A u \in Users : Cardinality(InPool(PoolOf[u])) <= Cap
=============================================================================
