-------------------------- MODULE CompositionProofs --------------------------
(***************************************************************************)
(* Theorems about the two modules that are built around Hub.  Traffic      *)
(* counts what the hub does and Server puts Admission in front of it: the  *)
(* server is a Traffic, which is a hub, and it is an Admission.  From the  *)
(* invariants of all three follows what the counters tell, and what a      *)
(* session in the hub owes to its permits.                                 *)
(***************************************************************************)
EXTENDS Server, HubProofs, FiniteSetTheorems

\* The facts about Admission, of the door of this server.
Front == INSTANCE AdmissionProofs WITH Requests <- Conns

-----------------------------------------------------------------------------
(* The server is a hub.                                                    *)

\* What is counted for a connection is a step of the hub.
LEMMA CountedStep ==
    ASSUME NEW c \in Conns, Uncounted(Subscribe(c)) \/ InSession(c)
    PROVE  Next
<1>1. CASE Uncounted(Subscribe(c)) \/ CountedMain(c)
  <2>1. Main(c)
    BY <1>1 DEF Uncounted, CountedMain, CountedStart, Main
  <2> QED BY <2>1 DEF Next
<1>2. CASE CountedReader(c)
  <2>1. Reader(c)
    BY <1>2 DEF Uncounted, CountedReader, CountedPing, CountedReject, CountedRateLimited,
                CountedPublish, CountedDirect, Reader
  <2> QED BY <2>1 DEF Next
<1>3. CASE CountedWriter(c)
  <2>1. Writer(c)
    BY <1>3 DEF Uncounted, CountedWriter, CountedSend, Writer
  <2> QED BY <2>1 DEF Next
<1>4. CASE CountedFanout(c)
  <2>1. Fanout(c)
    BY <1>4 DEF Uncounted, CountedFanout, CountedOverflow, CountedLag, Fanout
  <2> QED BY <2>1 DEF Next
<1>5. CASE Uncounted(PeerFallsSilent(c)) \/ \E task \in Tasks : Uncounted(Cancel(c, task))
  BY <1>5 DEF Uncounted, Next
<1> QED
  BY <1>1, <1>2, <1>3, <1>4, <1>5 DEF InSession

\* So is every step of Traffic.
LEMMA CountedStepIsHubStep == [TrafficNext]_trafficVars => [Next]_vars
<1> SUFFICES ASSUME [TrafficNext]_trafficVars
             PROVE  Next \/ UNCHANGED vars
  OBVIOUS
<1>1. CASE AtTheApi
  BY <1>1 DEF AtTheApi, AnsweredPublish, AnsweredDirect, Next
<1>2. CASE Uncounted(Finished)
  BY <1>2 DEF Uncounted, Next
<1>3. CASE UNCHANGED trafficVars
  BY <1>3 DEF trafficVars
<1> QED
  BY <1>1, <1>2, <1>3, CountedStep DEF TrafficNext

\* Every step of the server is a step of Traffic or leaves it alone.
LEMMA StepIsTrafficStep == [ServerNext]_serverVars => [TrafficNext]_trafficVars
<1> SUFFICES ASSUME [ServerNext]_serverVars
             PROVE  TrafficNext \/ UNCHANGED trafficVars
  OBVIOUS
<1>1. CASE \E c \in Conns : AtTheDoor(c) \/ Returns(c)
  BY <1>1 DEF AtTheDoor, Returns
<1>2. CASE \E c \in Conns : Begins(c)
  BY <1>2 DEF Begins, TrafficNext
<1>3. CASE AtWork
  BY <1>3 DEF AtWork, TrafficNext
<1>4. CASE AllDone
  BY <1>4 DEF AllDone
<1>5. CASE UNCHANGED serverVars
  BY <1>5 DEF serverVars
<1> QED
  BY <1>1, <1>2, <1>3, <1>4, <1>5 DEF ServerNext

\* So whatever the server does, its hub does.
LEMMA ServerIsHub == ServerSpec => Spec
<1>1. ServerInit => Init
  BY DEF ServerInit, TrafficInit
<1> QED
  BY <1>1, StepIsTrafficStep, CountedStepIsHubStep, PTL DEF ServerSpec, Spec

\* The theorems about Hub, of the server with its admission: types and bounded
\* queues, a registry of sessions that exist, no task left behind, and peers that
\* are sent direct messages and replies of their own tenant only, and broadcasts
\* too between tenants whose ids have no colon.
THEOREM ServerHub ==
    ServerSpec => [](TypeOK /\ NoStaleHandle /\ NoOrphanTask /\ TenantIsolation)
BY ServerIsHub, TypeCorrect, RegistryCorrect, NoOrphans, Isolation, PTL

\* A subscriber of the server gets its topic in order, without a silent gap
\* and after Ready, and each stream is one of TopicStreams.
THEOREM ServerStreams ==
    ServerSpec => /\ [](StreamInOrder /\ NoSilentGap /\ ReadyBeforeBroadcasts)
                  /\ ImplementsStreams
BY ServerIsHub, InOrder, NoGap, ReadyIsFirst, StreamsImplemented, PTL

-----------------------------------------------------------------------------
(* The server is an Admission.                                             *)

\* Door and Front are one Admission under two names.
LEMMA SameDoor ==
    ASSUME NEW c \in Conns
    PROVE  /\ Door!Handler(c) => Front!Handler(c)
           /\ Door!UpgradeFails(c) => Front!UpgradeFails(c)
           /\ Door!Upgraded(c) => Front!Upgraded(c)
           /\ Door!SessionEnds(c) => Front!SessionEnds(c)
           /\ Door!Drop(c) => Front!Drop(c)
<1>1. Door!Handler(c) => Front!Handler(c)
  BY DEF Door!Handler, Front!Handler, Door!IpAdmits, Front!IpAdmits, Door!IpHasRoom,
      Front!IpHasRoom, Door!IpRejects, Front!IpRejects, Door!ServerAdmits,
      Front!ServerAdmits, Door!ServerRejects, Front!ServerRejects, Door!Verifies,
      Front!Verifies, Door!Unauthorized, Front!Unauthorized, Door!TenantAdmits,
      Front!TenantAdmits, Door!TenantHasRoom, Front!TenantHasRoom, Door!TenantRejects,
      Front!TenantRejects, Door!Reject, Front!Reject, Door!Goes, Front!Goes, Door!Takes,
      Front!Takes, Door!metrics, Front!metrics
<1>2. Door!UpgradeFails(c) => Front!UpgradeFails(c)
  BY DEF Door!UpgradeFails, Front!UpgradeFails, Door!Goes, Front!Goes, Door!metrics,
      Front!metrics
<1>3. Door!Upgraded(c) => Front!Upgraded(c)
  BY DEF Door!Upgraded, Front!Upgraded, Door!Goes, Front!Goes
<1>4. Door!SessionEnds(c) => Front!SessionEnds(c)
  BY DEF Door!SessionEnds, Front!SessionEnds, Door!Goes, Front!Goes
<1>5. Door!Drop(c) => Front!Drop(c)
  BY DEF Door!Drop, Front!Drop, Door!DropIp, Front!DropIp, Door!DropServer,
      Front!DropServer, Door!DropTenant, Front!DropTenant, Door!Drops, Front!Drops,
      Door!Dropped, Front!Dropped, Door!metrics, Front!metrics
<1> QED
  BY <1>1, <1>2, <1>3, <1>4, <1>5

\* Every step of the server is a step of its admission or leaves it alone.
LEMMA StepIsDoorStep == [ServerNext]_serverVars => [Front!Next]_(Front!vars)
<1> SUFFICES ASSUME [ServerNext]_serverVars
             PROVE  Front!Next \/ UNCHANGED Front!vars
  OBVIOUS
<1>1. ASSUME NEW c \in Conns, AtTheDoor(c) \/ Returns(c)
      PROVE  Front!Next
  BY <1>1, SameDoor DEF AtTheDoor, Returns, Front!Next, Front!Socket
<1>2. ASSUME NEW c \in Conns, Begins(c)
      PROVE  UNCHANGED Front!vars
  BY <1>2 DEF Begins, admissionVars, Front!vars, Front!metrics
<1>3. CASE AtWork
  BY <1>3 DEF AtWork, admissionVars, Front!vars, Front!metrics
<1>4. CASE AllDone
  BY <1>4 DEF AllDone, Door!Finished, Door!vars, Door!metrics, Front!vars, Front!metrics
<1>5. CASE UNCHANGED serverVars
  BY <1>5 DEF serverVars, admissionVars, Front!vars, Front!metrics
<1> QED
  BY <1>1, <1>2, <1>3, <1>4, <1>5 DEF ServerNext

\* The constants of the server are such that Admission assumes of its own.
LEMMA FrontAssumption == Front!AdmissionAssumption
BY DoorAssumption, IdentityAssumption
   DEF Front!AdmissionAssumption, Front!IsFiniteSet, IsFiniteSet

\* So the invariant of Admission holds of the door of the server.
LEMMA ServerIsAdmission == ServerSpec => []Front!AdmissionInv
<1>1. ServerInit => Front!AdmissionInv
  <2>1. ServerInit => Front!Init
    BY DEF ServerInit, Door!Init, Front!Init
  <2> QED BY <2>1, FrontAssumption, Front!AdmissionInit
<1>2. Front!AdmissionInv /\ [ServerNext]_serverVars => Front!AdmissionInv'
  BY StepIsDoorStep, FrontAssumption, Front!AdmissionNext
<1> QED
  BY <1>1, <1>2, PTL DEF ServerSpec

-----------------------------------------------------------------------------
(* What a session owes.                                                    *)

\* connection_loop runs within handle_socket.
Seated == \A c \in Conns : main[c] \notin {"new", "closed"} => pc[c] = "session"

\* Every step of the server leaves those seated who are in the hub.
LEMMA SeatedNext == TypeOK /\ Front!AdmissionInv /\ Seated /\ [ServerNext]_serverVars => Seated'
<1> SUFFICES ASSUME TypeOK, Front!AdmissionInv, Seated, [ServerNext]_serverVars,
                    NEW c \in Conns, main'[c] \notin {"new", "closed"}
             PROVE  pc'[c] = "session"
  BY DEF Seated
<1>0. pc \in [Conns -> Front!Steps]
  BY DEF Front!AdmissionInv, Front!TypeOK
<1>1. ASSUME NEW d \in Conns, AtTheDoor(d)
      PROVE  pc'[c] = "session"
  <2>1. pc[c] = "session"
    BY <1>1 DEF AtTheDoor, trafficVars, vars, sessionVars, Seated
  <2>2. pc[d] # "session" /\ \A e \in Conns : e # d => pc'[e] = pc[e]
    BY <1>0, <1>1 DEF AtTheDoor, Door!Handler, Door!IpAdmits, Door!IpRejects,
        Door!ServerAdmits, Door!ServerRejects, Door!Verifies, Door!Unauthorized,
        Door!TenantAdmits, Door!TenantRejects, Door!Reject, Door!UpgradeFails,
        Door!Upgraded, Door!Drop, Door!DropIp, Door!DropServer, Door!DropTenant,
        Door!Drops, Door!Goes
  <2> QED BY <2>1, <2>2
<1>2. ASSUME NEW d \in Conns, Begins(d)
      PROVE  pc'[c] = "session"
  <2>1. pc[d] = "session" /\ pc' = pc /\ main' = [main EXCEPT ![d] = "subscribed"]
    BY <1>2 DEF Begins, Uncounted, Subscribe, admissionVars
  <2> QED BY <2>1 DEF Seated, TypeOK
<1>3. ASSUME NEW d \in Conns, Returns(d)
      PROVE  pc'[c] = "session"
  <2>1. main[d] = "closed" /\ main' = main /\ pc' = [pc EXCEPT ![d] = "leaving"]
    BY <1>3 DEF Returns, Door!SessionEnds, Door!Goes, trafficVars, vars, sessionVars
  <2> QED BY <1>0, <2>1 DEF Seated
<1>4. ASSUME AtWork
      PROVE  pc'[c] = "session"
  <2>1. pc' = pc
    BY <1>4 DEF AtWork, admissionVars
  <2>2. ASSUME NEW d \in Conns, CountedMain(d)
        PROVE  main[c] \notin {"new", "closed"}
    <3>1. \/ Register(d) \/ Start(d) \/ Select(d)
          \/ UnregisterCheck(d) \/ UnregisterRemove(d)
      BY <2>2 DEF CountedMain, CountedStart, Uncounted
    <3>2. main[d] \notin {"new", "closed"} /\ \A e \in Conns : e # d => main'[e] = main[e]
      BY <3>1 DEF Register, Start, Select, UnregisterCheck, UnregisterRemove, TypeOK
    <3> QED BY <3>2
  <2>3. ASSUME NEW d \in Conns, InSession(d), ~CountedMain(d)
        PROVE  UNCHANGED main
    <3>1. \/ Reader(d) \/ Writer(d) \/ Fanout(d) \/ PeerFallsSilent(d)
          \/ \E task \in Tasks : Cancel(d, task)
      BY <2>3 DEF InSession, CountedReader, CountedWriter, CountedFanout, Uncounted,
          CountedPing, CountedReject, CountedRateLimited, CountedPublish, CountedDirect,
          CountedSend, CountedOverflow, CountedLag, Reader, Writer, Fanout
    <3> QED
      BY <3>1 DEF Reader, Ping, Reject, RateLimited, PeerCloses, IdleTimeout, Publish, Direct,
         Writer, WriterTakes, WriterSends, WriterFails, Fanout, FanoutForwards,
         FanoutOverflows, FanoutLags, PeerFallsSilent, Cancel, sessionVars
  <2>4. CASE AtTheApi
    BY <2>1, <2>4 DEF AtTheApi, AnsweredPublish, AnsweredDirect, ApiPublish, ApiDirect,
       sessionVars, Seated
  <2> QED
    BY <1>4, <2>1, <2>2, <2>3, <2>4 DEF AtWork, Seated
<1>5. ASSUME AllDone \/ UNCHANGED serverVars
      PROVE  pc'[c] = "session"
  BY <1>5 DEF AllDone, Door!Finished, Door!vars, serverVars, admissionVars, trafficVars,
     vars, sessionVars, Seated
<1> QED
  BY <1>1, <1>2, <1>3, <1>4, <1>5 DEF ServerNext

\* What is present in the hub is a session that has not come to its end.
LEMMA PresentIsSeated ==
    ASSUME TypeOK, NoStaleHandle, SessionInv, NEW c \in Conns, Present(c)
    PROVE  main[c] \notin {"new", "closed"}
<1>1. CASE live[c] # {}
  BY <1>1 DEF SessionInv
<1>2. CASE Registered(c)
  BY <1>2, IdentityAssumption DEF Registered, NoStaleHandle
<1>3. CASE Subscribed(c)
  BY <1>3 DEF Subscribed, SessionInv
<1> QED
  BY <1>1, <1>2, <1>3 DEF Present

\* Whatever a session still has in the hub, a task, a handle in the registry or
\* a receiver of its topic, is covered by its three permits and counted by
\* ws_active_connections.
THEOREM PresencePaid == ServerSpec => []PresenceIsPaidFor
<1>1. ServerInit => Seated
  BY DEF ServerInit, TrafficInit, Init, Seated
<1>2. TypeOK /\ NoStaleHandle /\ SessionInv /\ Front!AdmissionInv /\ Seated => PresenceIsPaidFor
  <2> SUFFICES ASSUME TypeOK, NoStaleHandle, SessionInv, Front!AdmissionInv, Seated
               PROVE  PresenceIsPaidFor
    OBVIOUS
  <2> DEFINE P == {c \in Conns : Present(c)}
  <2>1. \A c \in P : pc[c] = "session"
    BY PresentIsSeated DEF Seated
  <2>2. \A c \in Conns : Present(c) => held[c] = Door!Permits
    BY <2>1 DEF Front!AdmissionInv, Front!HeldByStep, Front!Permits, Door!Permits
  <2>3. Cardinality(P) <= active
    <3>1. P \subseteq Front!Sessions /\ Front!Sessions \subseteq Conns
      BY <2>1 DEF Front!Sessions
    <3>2. active = Front!Cardinality(Front!Sessions)
      BY DEF Front!AdmissionInv, Front!GaugeIsSessions
    <3>3. \A S : Front!Cardinality(S) = Cardinality(S)
      BY DEF Front!Cardinality, Cardinality
    <3> HIDE DEF P
    <3>4. Cardinality(P) <= Cardinality(Front!Sessions)
      BY <3>1, DoorAssumption, FS_Subset
    <3> QED BY <3>2, <3>3, <3>4
  <2> QED
    BY <2>2, <2>3 DEF PresenceIsPaidFor
<1>3. ServerSpec => [](TypeOK /\ NoStaleHandle /\ SessionInv)
  BY ServerIsHub, TypeCorrect, RegistryCorrect, StreamsHold, PTL
<1> QED
  BY <1>1, <1>2, <1>3, SeatedNext, ServerIsAdmission, PTL DEF ServerSpec
-----------------------------------------------------------------------------
(* The counters of the hub.                                                *)

\* There is a Ready among the frames.
HasReady(S) == \E i \in 1..Len(S) : S[i].kind = "ready"

\* A session that has missed nothing.
Complete(c) ==
    /\ skipped[c] = {}
    /\ "overflow" \notin ended[c]
    /\ "writer" \in live[c] =>
         /\ HasReady(Sent(c))
         /\ first[c]..(cursor[c] - 1) \subseteq Positions(Sent(c))

\* Losses are counted: without one every session is complete.
Counting ==
    /\ metrics = [k \in Counters |-> metrics[k]]
    /\ metrics["dropped"] \in Nat
LossInv == Counting /\ (metrics["dropped"] = 0 => \A c \in Conns : Complete(c))

\* What is counted as dropped is added to what was counted before.
LEMMA CountAdds ==
    ASSUME Counting, NEW in, NEW out, NEW dropped \in Nat, NEW errors,
           Count(in, out, dropped, errors)
    PROVE  Counting' /\ metrics'["dropped"] = metrics["dropped"] + dropped
<1>1. metrics' = [metrics EXCEPT !["in"] = @ + in, !["out"] = @ + out,
                                 !["dropped"] = @ + dropped, !["errors"] = @ + errors]
  BY DEF Count
<1>2. "dropped" \in Counters /\ DOMAIN metrics = Counters
  BY DEF Counters, Counting
<1>3. metrics'["dropped"] = metrics["dropped"] + dropped
  BY <1>1, <1>2
<1>4. metrics' = [k \in Counters |-> metrics'[k]]
  BY <1>1, <1>2
<1>5. metrics["dropped"] + dropped \in Nat
  BY DEF Counting
<1> QED
  BY <1>3, <1>4, <1>5 DEF Counting

\* More frames do not take anything away.
LEMMA FramesAdded ==
    ASSUME NEW S \in Seq(Frames), NEW q \in Seq(Frames)
    PROVE  /\ HasReady(S) => HasReady(S \o q)
           /\ Positions(S) \subseteq Positions(S \o q)
<1>1. /\ Len(S \o q) = Len(S) + Len(q) /\ Len(S) \in Nat /\ Len(q) \in Nat
      /\ \A i \in 1..Len(S) : (S \o q)[i] = S[i]
  BY ConcatProperties, LenProperties
<1>2. \A i \in 1..Len(S) : i \in 1..Len(S \o q)
  BY <1>1
<1> QED
  BY <1>1, <1>2, CutStream DEF HasReady

\* A step that adds frames to what a session was sent, or ends its writer, and
\* skips nothing, leaves the session complete.
LEMMA AddsKeepComplete ==
    ASSUME TypeOK, NEW c \in Conns, Complete(c),
           skipped'[c] = skipped[c],
           "overflow" \in ended'[c] => "overflow" \in ended[c],
           "writer" \in live'[c] =>
             /\ "writer" \in live[c]
             /\ cursor'[c] = cursor[c] /\ first'[c] = first[c]
             /\ \E q \in Seq(Frames) : Sent(c)' = Sent(c) \o q
    PROVE  Complete(c)'
<1>1. ASSUME "writer" \in live'[c]
      PROVE  /\ HasReady(Sent(c)')
             /\ first'[c]..(cursor'[c] - 1) \subseteq Positions(Sent(c)')
  <2>1. PICK q \in Seq(Frames) : Sent(c)' = Sent(c) \o q
    BY <1>1
  <2>2. Sent(c) \in Seq(Frames)
    BY SentType
  <2>3. HasReady(Sent(c)) /\ first[c]..(cursor[c] - 1) \subseteq Positions(Sent(c))
    BY <1>1 DEF Complete
  <2>4. HasReady(Sent(c) \o q) /\ Positions(Sent(c)) \subseteq Positions(Sent(c) \o q)
    BY <2>2, <2>3, FramesAdded
  <2> QED BY <1>1, <2>1, <2>3, <2>4
<1> QED
  BY <1>1 DEF Complete

\* In particular one that leaves what was sent as it is.
LEMMA SameKeepsComplete ==
    ASSUME TypeOK, NEW c \in Conns, Complete(c),
           skipped'[c] = skipped[c],
           "overflow" \in ended'[c] => "overflow" \in ended[c],
           "writer" \in live'[c] =>
             /\ "writer" \in live[c]
             /\ cursor'[c] = cursor[c] /\ first'[c] = first[c]
             /\ Sent(c)' = Sent(c)
    PROVE  Complete(c)'
<1>1. <<>> \in Seq(Frames) /\ Sent(c) = Sent(c) \o <<>>
  BY SentType, ConcatEmptySeq
<1> QED
  BY <1>1, AddsKeepComplete

\* Main loop: all but Start, which sends Ready.
LEMMA MainComplete ==
    ASSUME TypeOK, SessionInv, NEW c \in Conns, Complete(c), NEW d \in Conns,
           \/ Subscribe(d) \/ Register(d) \/ Select(d)
           \/ UnregisterCheck(d) \/ UnregisterRemove(d)
    PROVE  Complete(c)'
<1> USE DEF history
<1>1. UNCHANGED <<live, queue, holding, wire, skipped, ended>>
  BY DEF Subscribe, Register, Select, UnregisterCheck, UnregisterRemove
<1>2. ASSUME "writer" \in live[c] PROVE cursor'[c] = cursor[c] /\ first'[c] = first[c]
  <2>1. main[c] # "new"
    BY <1>2 DEF SessionInv
  <2>2. cursor \in [Conns -> Nat \ {0}] /\ first \in [Conns -> Nat \ {0}]
    BY DEF TypeOK
  <2> QED BY <2>1, <2>2 DEF Subscribe, Register, Select, UnregisterCheck, UnregisterRemove
<1>3. Sent(c)' = Sent(c)
  BY <1>1 DEF Sent
<1> QED
  BY <1>1, <1>2, <1>3, SameKeepsComplete

\* Whatever the reader handles, and whoever publishes or sends a direct message.
LEMMA CallComplete ==
    ASSUME TypeOK, NEW c \in Conns, Complete(c),
           UNCHANGED <<wire, holding, cursor, first, skipped>>,
           live'[c] \subseteq live[c], PushedPlain(queue[c], queue'[c]),
           "overflow" \in ended'[c] => "overflow" \in ended[c]
    PROVE  Complete(c)'
<1>1. \E q \in Seq(Frames) : Sent(c)' = Sent(c) \o q
  BY PushedSendsPlain DEF SendsPlain
<1> QED
  BY <1>1, AddsKeepComplete

\* The reader's own end is never for an overflow.
LEMMA ReaderComplete ==
    ASSUME TypeOK, NEW c \in Conns, Complete(c), NEW d \in Conns, Reader(d)
    PROVE  Complete(c)'
<1>1. /\ UNCHANGED <<main, wire, holding, cursor, first, skipped>>
      /\ live'[c] \subseteq live[c] /\ PushedPlain(queue[c], queue'[c])
  BY ReaderPushes
<1>2. ended'[c] \subseteq ended[c] \union {"rate_limited", "peer", "idle"}
  <2>1. ended \in [Conns -> SUBSET Ends]
    BY DEF TypeOK
  <2> QED
    BY <2>1 DEF Reader, Ping, Reject, RateLimited, PeerCloses, IdleTimeout, Publish, Direct,
                ReaderEnds, history
<1> QED
  BY <1>1, <1>2, CallComplete

\* The writer moves frames on, or is gone.
LEMMA WriterComplete ==
    ASSUME TypeOK, NEW c \in Conns, Complete(c), NEW d \in Conns, Writer(d)
    PROVE  Complete(c)'
<1>1. /\ UNCHANGED <<main, cursor, first, skipped>> /\ live'[c] \subseteq live[c]
      /\ Sent(c)' = Sent(c) \/ LosesTail(c)
  BY WriterSent
<1>2. ended'[c] \subseteq ended[c] \union {"write_failed"}
  <2>1. ended \in [Conns -> SUBSET Ends]
    BY DEF TypeOK
  <2> QED
    BY <2>1 DEF Writer, WriterTakes, WriterSends, WriterFails, history
<1> QED
  BY <1>1, <1>2, SameKeepsComplete DEF LosesTail

\* An aborted task that is dropped.
LEMMA CancelComplete ==
    ASSUME TypeOK, NEW c \in Conns, Complete(c), NEW d \in Conns, NEW task \in Tasks,
           Cancel(d, task)
    PROVE  Complete(c)'
<1>1. /\ live \in [Conns -> SUBSET Tasks]
      /\ queue \in [Conns -> Seq(Frames)] /\ holding \in [Conns -> Seq(Frames)]
  BY DEF TypeOK
<1>2. UNCHANGED <<cursor, first, skipped, wire, ended>> /\ live'[c] \subseteq live[c]
  BY <1>1 DEF Cancel, WriterGone, history
<1>3. "writer" \in live'[c] => queue'[c] = queue[c] /\ holding'[c] = holding[c]
  BY <1>1 DEF Cancel, WriterGone
<1> QED
  BY <1>2, <1>3, SameKeepsComplete DEF Sent

\* The fanout forwards the broadcast at its cursor.
LEMMA ForwardComplete ==
    ASSUME TypeOK, SessionInv, NEW c \in Conns, Complete(c), Streamed(c), NEW d \in Conns,
           FanoutForwards(d)
    PROVE  Complete(c)'
<1> USE DEF history
<1>0. /\ wire[c] \in Seq(Frames) /\ holding[c] \in Seq(Frames) /\ queue[c] \in Seq(Frames)
      /\ queue \in [Conns -> Seq(Frames)] /\ cursor \in [Conns -> Nat \ {0}]
  BY DEF TypeOK
<1>1. UNCHANGED <<main, live, log, wire, holding, first, skipped, ended>>
  BY DEF FanoutForwards
<1>2. CASE c # d
  <2>1. queue'[c] = queue[c] /\ cursor'[c] = cursor[c]
    BY <1>0, <1>2 DEF FanoutForwards, FanoutReads
  <2>2. Sent(c)' = Sent(c)
    BY <1>1, <2>1 DEF Sent
  <2> QED BY <1>1, <2>1, <2>2, SameKeepsComplete
<1>3. CASE c = d
  <2> DEFINE p == cursor[c]
             m == Broadcast(log[KeyOf(c)][p], p)
             S == Sent(c)
  <2>1. m \in Frames /\ m.kind = "message" /\ m.pos = p
    BY <1>3, FanoutReadsType DEF FanoutForwards, Broadcast, Frames, Kinds
  <2>2. queue'[c] = Append(queue[c], m) /\ cursor'[c] = p + 1
    BY <1>0, <1>3 DEF FanoutForwards, FanoutReads
  <2>3. S \in Seq(Frames) /\ first[c] \in Nat /\ p \in Nat
    BY SentType
  <2>4. \A r \in Positions(S) : r < p
    <3>1. Positions(S) \subseteq first[c]..(p - 1)
      BY DEF Streamed
    <3> QED BY <2>3, <3>1
  <2> HIDE DEF m
  <2>5. <<m>> \in Seq(Frames) /\ queue'[c] = queue[c] \o <<m>>
    BY <1>0, <2>1, <2>2, AppendIsConcat
  <2>6. Sent(c)' = S \o <<m>> /\ Sent(c)' = Append(S, m)
    BY <1>1, <2>1, <2>3, <2>5, PushSends, AppendIsConcat
  <2>7. Positions(Append(S, m)) = Positions(S) \union {p}
    BY <2>1, <2>3, <2>4, NextBroadcast
  <2>8. ASSUME "writer" \in live[c]
        PROVE  HasReady(Sent(c)') /\ first[c]..p \subseteq Positions(Sent(c)')
    <3>1. HasReady(S) /\ first[c]..(p - 1) \subseteq Positions(S)
      BY <2>8 DEF Complete
    <3>2. HasReady(Sent(c)')
      BY <2>3, <2>5, <2>6, <3>1, FramesAdded
    <3> HIDE DEF p, S
    <3>3. first[c]..p \subseteq Positions(S) \union {p}
      BY <2>3, <3>1
    <3> QED BY <2>6, <2>7, <3>2, <3>3
  <2>9. (p + 1) - 1 = p
    BY <2>3
  <2> QED BY <1>1, <2>2, <2>8, <2>9 DEF Complete
<1> QED
  BY <1>2, <1>3

\* Ready is not lost.
LEMMA StartComplete ==
    ASSUME TypeOK, SessionInv, NEW c \in Conns, Complete(c), Streamed(c), NEW d \in Conns,
           Start(d), CanPush(d)
    PROVE  Complete(c)'
<1> USE DEF history
<1>0. /\ wire[c] \in Seq(Frames) /\ holding[c] \in Seq(Frames) /\ queue[c] \in Seq(Frames)
      /\ queue \in [Conns -> Seq(Frames)] /\ live \in [Conns -> SUBSET Tasks]
  BY DEF TypeOK
<1>1. UNCHANGED <<cursor, wire, holding, first, skipped, ended>>
  BY DEF Start
<1>2. CASE c # d
  <2>1. queue'[c] = queue[c] /\ live'[c] = live[c]
    BY <1>0, <1>2 DEF Start, Offered
  <2>2. Sent(c)' = Sent(c)
    BY <1>1, <2>1 DEF Sent
  <2> QED BY <1>1, <2>1, <2>2, SameKeepsComplete
<1>3. CASE c = d
  <2> DEFINE m == Note(c, "ready")
             S == Sent(c)
  <2>1. m \in Frames /\ m.kind = "ready"
    BY NoteType DEF Note, Frame, Kinds
  <2>2. queue'[c] = Append(queue[c], m)
    BY <1>0, <1>3 DEF Start, Offered, Offer, CanPush
  <2>3. S \in Seq(Frames) /\ first[c] \in Nat
    BY SentType
  <2> HIDE DEF m
  <2>4. <<m>> \in Seq(Frames) /\ queue'[c] = queue[c] \o <<m>>
    BY <1>0, <2>1, <2>2, AppendIsConcat
  <2>5. Sent(c)' = Append(S, m)
    BY <1>1, <2>1, <2>3, <2>4, PushSends, AppendIsConcat
  <2>6. HasReady(Append(S, m))
    <3> HIDE DEF S
    <3>1. Len(Append(S, m)) = Len(S) + 1 /\ Len(S) \in Nat /\ Append(S, m)[Len(S) + 1] = m
      BY <2>1, <2>3
    <3>2. Len(S) + 1 \in 1..Len(Append(S, m))
      BY <3>1
    <3> QED BY <2>1, <3>1, <3>2 DEF HasReady
  <2>7. first[c]..(cursor[c] - 1) = {}
    <3>1. cursor[c] = first[c]
      BY <1>3 DEF Streamed, Early, Start
    <3> QED BY <2>3, <3>1
  <2> QED BY <1>1, <2>5, <2>6, <2>7 DEF Complete
<1> QED
  BY <1>2, <1>3

\* The steps that count nothing lose nothing.
LEMMA UncountedComplete ==
    ASSUME TypeOK, SessionInv, NEW c \in Conns, Complete(c), Streamed(c), NEW d \in Conns,
           \/ Subscribe(d) \/ Register(d) \/ Select(d)
           \/ UnregisterCheck(d) \/ UnregisterRemove(d)
           \/ PeerCloses(d) \/ IdleTimeout(d) \/ WriterTakes(d) \/ WriterFails(d)
           \/ FanoutForwards(d) \/ PeerFallsSilent(d)
           \/ \E task \in Tasks : Cancel(d, task)
    PROVE  Complete(c)'
<1>1. CASE \/ Subscribe(d) \/ Register(d) \/ Select(d)
           \/ UnregisterCheck(d) \/ UnregisterRemove(d)
  BY <1>1, MainComplete
<1>2. CASE PeerCloses(d) \/ IdleTimeout(d)
  BY <1>2, ReaderComplete DEF Reader
<1>3. CASE WriterTakes(d) \/ WriterFails(d)
  BY <1>3, WriterComplete DEF Writer
<1>4. CASE FanoutForwards(d)
  BY <1>4, ForwardComplete
<1>5. CASE \E task \in Tasks : Cancel(d, task)
  BY <1>5, CancelComplete
<1>6. CASE PeerFallsSilent(d)
  BY <1>6, SameKeepsComplete DEF PeerFallsSilent, history, Sent
<1> QED
  BY <1>1, <1>2, <1>3, <1>4, <1>5, <1>6

\* Every step keeps the count of losses.
LEMMA LossNext ==
    ASSUME TypeOK, SessionInv, StreamInv, LossInv, [TrafficNext]_trafficVars
    PROVE  LossInv'
<1>0. Counting /\ metrics["dropped"] \in Nat
  BY DEF LossInv, Counting
<1>a. \A c \in Conns : Streamed(c)
  BY DEF StreamInv
\* A loss that was counted is never forgotten, so only steps that count none matter.
<1>b. ASSUME Counting', NEW n \in Nat, metrics'["dropped"] = metrics["dropped"] + n,
             n = 0 => \A c \in Conns : Complete(c) => Complete(c)'
      PROVE  LossInv'
  <2>1. metrics'["dropped"] = 0 => n = 0 /\ metrics["dropped"] = 0
    BY <1>0, <1>b
  <2> QED BY <1>b, <2>1 DEF LossInv
<1>c. ASSUME UNCHANGED metrics, \A c \in Conns : Complete(c) => Complete(c)'
      PROVE  LossInv'
  BY <1>c DEF LossInv, Counting
<1>d. \A c \in Conns : Lost(c) \in Nat /\ (Lost(c) = 0 => CanPush(c))
  BY DEF Lost
<1>e. \A k : Unheard(k) \in Nat
  BY DEF Unheard
<1>1. ASSUME NEW d \in Conns, UNCHANGED metrics,
             \/ Subscribe(d) \/ Register(d) \/ Select(d)
             \/ UnregisterCheck(d) \/ UnregisterRemove(d)
             \/ PeerCloses(d) \/ IdleTimeout(d) \/ WriterTakes(d) \/ WriterFails(d)
             \/ FanoutForwards(d) \/ PeerFallsSilent(d)
             \/ \E task \in Tasks : Cancel(d, task)
      PROVE  LossInv'
  BY <1>1, <1>a, <1>c, UncountedComplete
<1>2. ASSUME NEW d \in Conns, CountedStart(d) PROVE LossInv'
  <2>1. Start(d) /\ Counting' /\ metrics'["dropped"] = metrics["dropped"] + Lost(d)
    BY <1>0, <1>2, <1>d, CountAdds DEF CountedStart
  <2>2. Lost(d) = 0 => \A c \in Conns : Complete(c) => Complete(c)'
    BY <1>a, <1>d, <2>1, StartComplete
  <2> QED BY <1>b, <1>d, <2>1, <2>2
<1>3. ASSUME NEW d \in Conns, Reader(d), NEW n \in Nat,
             UNCHANGED metrics \/ \E in, out, errors : Count(in, out, n, errors)
      PROVE  LossInv'
  <2>1. \A c \in Conns : Complete(c) => Complete(c)'
    BY <1>3, ReaderComplete
  <2>2. CASE UNCHANGED metrics
    BY <1>c, <2>1, <2>2
  <2>3. CASE \E in, out, errors : Count(in, out, n, errors)
    <3>1. Counting' /\ metrics'["dropped"] = metrics["dropped"] + n
      BY <1>0, <2>3, CountAdds
    <3> QED BY <1>b, <2>1, <3>1
  <2> QED BY <1>3, <2>2, <2>3
<1>4. ASSUME NEW d \in Conns, CountedPing(d) \/ CountedReject(d) \/ CountedRateLimited(d)
      PROVE  LossInv'
  <2>1. Reader(d)
    BY <1>4 DEF CountedPing, CountedReject, CountedRateLimited, Reader
  <2>2. UNCHANGED metrics \/ \E in, out, errors : Count(in, out, Lost(d), errors)
    BY <1>4 DEF CountedPing, CountedReject, CountedRateLimited
  <2> QED BY <1>3, <1>d, <2>1, <2>2
<1>5. ASSUME NEW d \in Conns, NEW topic \in Topics, CountedPublish(d, topic)
      PROVE  LossInv'
  <2>1. Reader(d)
    BY <1>5 DEF CountedPublish, Reader
  <2>2. \E in, out, errors : Count(in, out, Unheard(TenantTopic(TenantOf[d], topic)), errors)
    BY <1>5 DEF CountedPublish
  <2> QED BY <1>3, <1>e, <2>1, <2>2
<1>6. ASSUME NEW d \in Conns, NEW to \in Clients, CountedDirect(d, to)
      PROVE  LossInv'
  <2>1. Reader(d)
    BY <1>6 DEF CountedDirect, Reader
  <2> DEFINE n == IF Reaches(TenantOf[d], to) THEN 0 ELSE 1 + Lost(d)
  <2>2. n \in Nat
    BY <1>d
  <2>3. \E in, out, errors : Count(in, out, n, errors)
    BY <1>6 DEF CountedDirect
  <2> HIDE DEF n
  <2> QED BY <1>3, <2>1, <2>2, <2>3
<1>7. ASSUME NEW d \in Conns, CountedSend(d)
      PROVE  LossInv'
  <2>1. Writer(d) /\ Counting' /\ metrics'["dropped"] = metrics["dropped"] + 0
    BY <1>0, <1>7, CountAdds DEF CountedSend, Writer
  <2> QED BY <1>b, <2>1, WriterComplete
<1>8. ASSUME NEW d \in Conns, CountedOverflow(d) \/ CountedLag(d)
      PROVE  LossInv'
  <2>1. Counting' /\ metrics'["dropped"] = metrics["dropped"] + 1
    BY <1>0, <1>8, CountAdds DEF CountedOverflow, CountedLag
  <2> QED BY <1>b, <2>1
<1>9. ASSUME NEW t \in Tenants, NEW topic \in Topics, AnsweredPublish(t, topic)
      PROVE  LossInv'
  <2> DEFINE n == Unheard(TenantTopic(t, topic))
  <2>1. ApiPublish(t, topic) /\ Counting' /\ metrics'["dropped"] = metrics["dropped"] + n
    BY <1>0, <1>9, <1>e, CountAdds DEF AnsweredPublish
  <2>2. \A c \in Conns : Complete(c) => Complete(c)'
    BY <2>1, SameKeepsComplete DEF ApiPublish, sessionVars, history, Sent
  <2> QED BY <1>b, <1>e, <2>1, <2>2
<1>10. ASSUME NEW t \in Tenants, NEW to \in Clients, AnsweredDirect(t, to)
       PROVE  LossInv'
  <2>1. /\ ApiDirect(t, to) /\ Counting'
        /\ \E n \in {0, 1} : metrics'["dropped"] = metrics["dropped"] + n
    BY <1>0, <1>10, CountAdds DEF AnsweredDirect
  <2>2. ASSUME NEW c \in Conns, Complete(c) PROVE Complete(c)'
    <3>1. queue[c] \in Seq(Frames)
      BY DEF TypeOK
    <3>2. PushedPlain(queue[c], queue'[c])
      BY <2>1, <3>1, DirectedPushes, PushNone DEF ApiDirect
    <3>3. UNCHANGED <<wire, holding, cursor, first, skipped, live, ended>>
      BY <2>1 DEF ApiDirect, history
    <3> QED BY <2>2, <3>2, <3>3, CallComplete
  <2> QED BY <1>b, <2>1, <2>2
<1>11. CASE UNCHANGED trafficVars \/ Uncounted(Finished)
  <2>1. UNCHANGED trafficVars
    BY <1>11 DEF Uncounted, Finished, trafficVars
  <2> QED
    BY <2>1, <1>c, SameKeepsComplete DEF trafficVars, counts, vars, sessionVars, history, Sent
<1>12. ASSUME NEW d \in Conns, Uncounted(Subscribe(d)) \/ CountedMain(d) PROVE LossInv'
  BY <1>12, <1>1, <1>2 DEF Uncounted, counts, CountedMain
<1>13. ASSUME NEW d \in Conns, CountedReader(d) PROVE LossInv'
  BY <1>13, <1>1, <1>4, <1>5, <1>6 DEF Uncounted, counts, CountedReader
<1>14. ASSUME NEW d \in Conns, CountedWriter(d) PROVE LossInv'
  BY <1>14, <1>1, <1>7 DEF Uncounted, counts, CountedWriter
<1>15. ASSUME NEW d \in Conns, CountedFanout(d) PROVE LossInv'
  BY <1>15, <1>1, <1>8 DEF Uncounted, counts, CountedFanout
<1>16. ASSUME NEW d \in Conns, InSession(d) PROVE LossInv'
  <2>1. CASE Uncounted(PeerFallsSilent(d)) \/ \E task \in Tasks : Uncounted(Cancel(d, task))
    BY <1>1, <2>1 DEF Uncounted, counts
  <2> QED
    BY <1>12, <1>13, <1>14, <1>15, <1>16, <2>1 DEF InSession
<1>17. CASE AtTheApi
  BY <1>9, <1>10, <1>17 DEF AtTheApi
<1> QED
  BY <1>11, <1>12, <1>16, <1>17 DEF TrafficNext

\* While dropped_messages is zero, every session whose writer lives was sent, or
\* has queued, its Ready and each broadcast it has read, and none has lagged or
\* was disconnected for its full queue.
THEOREM DropsCounted == TrafficSpec => []DropsAreVisible
<1>1. TrafficInit => Init /\ SessionInv /\ LossInv
  <2>1. TrafficInit => Init /\ SessionInv
    BY DEF TrafficInit, Init, SessionInv
  <2>2. TrafficInit => Counting
    BY DEF TrafficInit, Counting, Counters
  <2>3. TrafficInit => \A c \in Conns : Complete(c)
    BY DEF TrafficInit, Init, Complete
  <2> QED BY <2>1, <2>2, <2>3 DEF LossInv
<1>2. LossInv => DropsAreVisible
  <2> SUFFICES ASSUME LossInv, metrics["dropped"] = 0, NEW c \in Conns
               PROVE  /\ skipped[c] = {}
                      /\ "overflow" \notin ended[c]
                      /\ "writer" \in live[c] =>
                           /\ \E i \in 1..Len(Sent(c)) : Sent(c)[i].kind = "ready"
                           /\ first[c]..(cursor[c] - 1) \subseteq Delivered(c)
    BY DEF DropsAreVisible
  <2>1. Complete(c)
    BY DEF LossInv
  <2>2. Delivered(c) = Positions(Sent(c))
    BY DEF Delivered, Positions, Broadcasts
  <2> QED BY <2>1, <2>2 DEF Complete, HasReady
<1> QED
  BY <1>1, <1>2, TypeInit, TypeNext, SessionNext, StreamInit, StreamNext, LossNext,
     CountedStepIsHubStep, PTL DEF TrafficSpec

\* The counters of the server with its admission tell the same.
THEOREM ServerDrops == ServerSpec => []DropsAreVisible
<1>1. ServerInit => TrafficInit
  BY DEF ServerInit
<1> QED
  BY <1>1, StepIsTrafficStep, DropsCounted, PTL DEF ServerSpec, TrafficSpec
=============================================================================
