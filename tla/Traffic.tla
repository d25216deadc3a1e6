------------------------------ MODULE Traffic ------------------------------
(***************************************************************************)
(* What the server tells the outside about the traffic of the hub: the     *)
(* message counters of src/src/metrics.rs, and the answers of              *)
(* POST /api/publish and POST /api/direct.  Every step of Hub is taken     *)
(* over with what it counts; a step that is not named here counts nothing. *)
(***************************************************************************)
EXTENDS Hub

VARIABLES
    metrics,   \* messages_in, messages_out, dropped_messages, protocol_errors
    reply      \* the last answer of the API

counts      == <<metrics, reply>>
trafficVars == <<vars, counts>>

Counters == {"in", "out", "dropped", "errors"}

TrafficInit ==
    /\ Init
    /\ metrics = [k \in Counters |-> 0]
    /\ reply = [api |-> "none"]

Count(in, out, dropped, errors) ==
    metrics' = [metrics EXCEPT !["in"] = @ + in, !["out"] = @ + out,
                               !["dropped"] = @ + dropped, !["errors"] = @ + errors]

\* send_encoded counts a frame that its queue does not take.
Lost(c) == IF CanPush(c) THEN 0 ELSE 1

\* A publication without receivers is counted as dropped by who publishes it.
Unheard(k) == IF Receivers(k) = {} THEN 1 ELSE 0

\* Mutant UncountedStart: a Ready that the queue does not take is not.
UncountedStart(c) == Start(c) /\ UNCHANGED counts
CountedStart(c)   == Start(c) /\ Count(0, 0, Lost(c), 0) /\ UNCHANGED reply

\* A ping event, or a WebSocket ping, which counts nothing.
CountedPing(c) ==
    /\ Ping(c)
    /\ Count(1, 0, Lost(c), 0) \/ UNCHANGED metrics
    /\ UNCHANGED reply

\* All refusals but the tenant's limit are protocol errors.
CountedReject(c) ==
    /\ Reject(c)
    /\ \E errors \in {0, 1} : Count(1, 0, Lost(c), errors)
    /\ UNCHANGED reply

\* The Close frame after the error is not counted when it is lost.
CountedRateLimited(c) == RateLimited(c) /\ Count(1, 0, Lost(c), 1) /\ UNCHANGED reply

CountedPublish(c, topic) ==
    /\ Publish(c, topic)
    /\ Count(1, 0, Unheard(TenantTopic(TenantOf[c], topic)), 0)
    /\ UNCHANGED reply

CountedDirect(c, to) ==
    /\ Direct(c, to)
    /\ Count(1, 0, IF Reaches(TenantOf[c], to) THEN 0 ELSE 1 + Lost(c), 0)
    /\ UNCHANGED reply

CountedSend(c) == WriterSends(c) /\ Count(0, 1, 0, 0) /\ UNCHANGED reply

CountedOverflow(c) == FanoutOverflows(c) /\ Count(0, 0, 1, 0) /\ UNCHANGED reply

\* A lag counts as one, however many broadcasts it skips.
\* Mutant UncountedLag: it is only logged.
UncountedLag(c) == FanoutLags(c) /\ UNCHANGED counts
CountedLag(c)   == FanoutLags(c) /\ Count(0, 0, 1, 0) /\ UNCHANGED reply

\* One message out is counted for each receiver, before any of them has it.
AnsweredPublish(t, topic) ==
    LET receivers == Cardinality(Receivers(TenantTopic(t, topic))) IN
    /\ ApiPublish(t, topic)
    /\ Count(0, receivers, Unheard(TenantTopic(t, topic)), 0)
    /\ reply' = [api |-> "publish", receivers |-> receivers]

AnsweredDirect(t, to) ==
    /\ ApiDirect(t, to)
    /\ IF Reaches(t, to) THEN Count(0, 1, 0, 0) ELSE Count(0, 0, 1, 0)
    /\ reply' = [api |-> "direct", ok |-> Reaches(t, to)]

Uncounted(Step) == Step /\ UNCHANGED counts

\* The tasks of a connection, and connection_loop from the registration on.
CountedMain(c) ==
    \/ CountedStart(c)
    \/ Uncounted(Register(c)) \/ Uncounted(Select(c))
    \/ Uncounted(UnregisterCheck(c)) \/ Uncounted(UnregisterRemove(c))
CountedReader(c) ==
    \/ CountedPing(c) \/ CountedReject(c) \/ CountedRateLimited(c)
    \/ \E topic \in Topics : CountedPublish(c, topic)
    \/ \E to \in Clients : CountedDirect(c, to)
    \/ Uncounted(PeerCloses(c)) \/ Uncounted(IdleTimeout(c))
CountedWriter(c) ==
    CountedSend(c) \/ Uncounted(WriterTakes(c)) \/ Uncounted(WriterFails(c))
CountedFanout(c) ==
    Uncounted(FanoutForwards(c)) \/ CountedOverflow(c) \/ CountedLag(c)

\* What happens to a connection that has subscribed, and what the API does.
InSession(c) ==
    \/ CountedMain(c) \/ CountedReader(c) \/ CountedWriter(c) \/ CountedFanout(c)
    \/ \E task \in Tasks : Uncounted(Cancel(c, task))
    \/ Uncounted(PeerFallsSilent(c))
AtTheApi ==
    \/ \E t \in Tenants, topic \in Topics : AnsweredPublish(t, topic)
    \/ \E t \in Tenants, to \in Clients : AnsweredDirect(t, to)

TrafficNext ==
    \/ \E c \in Conns : Uncounted(Subscribe(c)) \/ InSession(c)
    \/ AtTheApi
    \/ Uncounted(Finished)

TrafficSpec == TrafficInit /\ [][TrafficNext]_trafficVars

-----------------------------------------------------------------------------
(* Properties.                                                             *)

\* While nothing was counted as dropped, no subscription has lagged, nobody was
\* disconnected for a full queue, and every session whose writer lives was sent,
\* or has queued, its Ready and every broadcast that its subscription has read.
\* What dies in the queue of a writer that ends is not counted, nor are a pong
\* in reply to a WebSocket ping and a Close that find the queue full.
DropsAreVisible ==
    metrics["dropped"] = 0 => \A c \in Conns :
        /\ skipped[c] = {}
        /\ "overflow" \notin ended[c]
        /\ "writer" \in live[c] =>
             /\ \E i \in 1..Len(Sent(c)) : Sent(c)[i].kind = "ready"
             /\ first[c]..(cursor[c] - 1) \subseteq Delivered(c)

\* A 404 to a direct message means that the target is not online, as README.md
\* says of it.
Online(t, id) ==
    \E c \in Conns : Identity(c) = <<t, id>> /\ main[c] = "running" /\ live[c] = Tasks
NotFoundMeansOffline ==
    [][\A t \in Tenants, to \in Clients :
         AnsweredDirect(t, to) /\ ~reply'.ok => ~Online(t, to)]_trafficVars

\* Everything that was to be sent was sent: all sessions run, nothing was dropped,
\* and nothing is queued, being sent or waiting to be read from a topic.
Settled ==
    /\ metrics["dropped"] = 0
    /\ \A c \in Conns :
         /\ main[c] = "running" /\ live[c] = Tasks
         /\ Sent(c) = wire[c]
         /\ cursor[c] = Len(log[KeyOf(c)]) + 1

\* The frames that sockets have taken: whose each one is and which.
Written == UNION {{c} \X (1..Len(wire[c])) : c \in Conns}

\* messages_out counts outbound websocket messages, each of them once
\* (metrics.rs:79; api.rs:101, one outbound message per receiver): when there is
\* nothing left to send and nothing was lost it is the number of frames that the
\* sockets took.
EachMessageOutOnce == Settled => metrics["out"] = Cardinality(Written)
=============================================================================
