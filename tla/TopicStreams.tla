---------------------------- MODULE TopicStreams ----------------------------
(***************************************************************************)
(* What a topic promises its subscribers, without queues, rings or tasks:  *)
(* a subscriber reads what is broadcast from the moment it subscribed on,  *)
(* in order, and nothing is left out but what is reported as missed to     *)
(* whoever reads for it.  How a subscription ends is left open.            *)
(***************************************************************************)
EXTENDS Integers

CONSTANTS
    Subscribers,
    Topics,
    TopicOf     \* [Subscribers -> Topics]

VARIABLES
    published,  \* [Topics -> Nat]: broadcasts so far, each named by its position
    phase,      \* [Subscribers -> {"new", "open", "closed"}]
    since,      \* [Subscribers -> Nat]: the position it subscribed at
    got,        \* [Subscribers -> SUBSET Nat]: what it has been sent
    missed      \* [Subscribers -> SUBSET Nat]: what was reported as missed

streamVars == <<published, phase, since, got, missed>>

Init ==
    /\ published = [k \in Topics |-> 0]
    /\ phase = [s \in Subscribers |-> "new"]
    /\ since = [s \in Subscribers |-> 1]
    /\ got = [s \in Subscribers |-> {}]
    /\ missed = [s \in Subscribers |-> {}]

Publish(k) ==
    /\ published' = [published EXCEPT ![k] = @ + 1]
    /\ UNCHANGED <<phase, since, got, missed>>

Open(s) ==
    /\ phase[s] = "new"
    /\ phase' = [phase EXCEPT ![s] = "open"]
    /\ since' = [since EXCEPT ![s] = published[TopicOf[s]] + 1]
    /\ UNCHANGED <<published, got, missed>>

\* The next position there is, past those missed.
Deliver(s, p) ==
    /\ phase[s] = "open"
    /\ p \in since[s]..published[TopicOf[s]]
    /\ \A q \in got[s] : q < p
    /\ since[s]..(p - 1) \subseteq got[s] \union missed[s]
    /\ got' = [got EXCEPT ![s] = @ \union {p}]
    /\ UNCHANGED <<published, phase, since, missed>>

\* Positions from..to, not sent so far, will not be.
Miss(s, from, to) ==
    /\ phase[s] = "open"
    /\ from..to \subseteq (since[s]..published[TopicOf[s]]) \ (got[s] \union missed[s])
    /\ missed' = [missed EXCEPT ![s] = @ \union from..to]
    /\ UNCHANGED <<published, phase, since, got>>

Close(s) ==
    /\ phase[s] = "open"
    /\ phase' = [phase EXCEPT ![s] = "closed"]
    /\ UNCHANGED <<published, since, got, missed>>

Next ==
    \/ \E k \in Topics : Publish(k)
    \/ \E s \in Subscribers :
         \/ Open(s) \/ Close(s)
         \/ \E p \in since[s]..published[TopicOf[s]] :
              Deliver(s, p) \/ \E from \in since[s]..p : Miss(s, from, p)

Spec == Init /\ [][Next]_streamVars
=============================================================================
