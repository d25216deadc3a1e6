----------------------------- MODULE HubProofs -----------------------------
(***************************************************************************)
(* Proofs about Hub, for every set of connections, tenants and topics and  *)
(* for queues and rings of every capacity.                                 *)
(***************************************************************************)
EXTENDS Streams, TopicKeysProofs, SequenceTheorems

\* The frames the code builds are frames.
LEMMA NoteType ==
    ASSUME NEW c \in Conns, NEW kind \in Kinds
    PROVE  Note(c, kind) \in Frames
BY IdentityAssumption DEF Note, Frame, Frames

\* try_send keeps a queue a sequence within its capacity.
LEMMA OfferType ==
    ASSUME NEW S, NEW q \in Seq(S), NEW m \in S, Len(q) <= QueueCap
    PROVE  /\ Offer(q, m) \in Seq(S)
           /\ Len(Offer(q, m)) <= QueueCap
BY CapacityAssumption DEF Offer

\* An identity and the topic key of a connection are in their sets.
LEMMA IdentityType ==
    ASSUME NEW c \in Conns
    PROVE  /\ TenantOf[c] \in Tenants
           /\ Identity(c) \in Tenants \X Clients
           /\ KeyOf(c) \in Keys
BY IdentityAssumption DEF Identity, KeyOf, Keys

\* The state before any connection is well typed.
LEMMA TypeInit == Init => TypeOK
BY IdentityAssumption, CapacityAssumption DEF Init, TypeOK, Phases

\* A try_send whose failure is ignored leaves every connection's queue well
\* typed and within its capacity.
LEMMA OfferedType ==
    ASSUME TypeOK, NEW c \in Conns, NEW m \in Frames
    PROVE  /\ Offered(c, m) \in [Conns -> Seq(Frames)]
           /\ \A d \in Conns : Len(Offered(c, m)[d]) <= QueueCap
<1> DEFINE q == Offer(queue[c], m)
<1>1. q \in Seq(Frames) /\ Len(q) <= QueueCap
  BY OfferType DEF TypeOK
<1> QED
  BY <1>1 DEF Offered, TypeOK

\* AppState::publish appends a tenant to the log of one topic, or nothing.
LEMMA PublishedType ==
    ASSUME TypeOK, NEW t \in Tenants, NEW k \in Keys
    PROVE  Published(t, k) \in [Keys -> Seq(Tenants)]
BY DEF Published, TypeOK

\* AppState::send_to_client, where it succeeds, pushes onto a queue with room.
LEMMA DirectedType ==
    ASSUME TypeOK, NEW t \in Tenants, NEW id \in Clients, Reaches(t, id)
    PROVE  /\ Directed(t, id) \in [Conns -> Seq(Frames)]
           /\ \A d \in Conns : Len(Directed(t, id)[d]) <= QueueCap
<1> DEFINE h == clients[<<t, id>>]
           q == Append(queue[h], Frame("direct", t))
<1>1. h \in Conns
  BY DEF TypeOK, Reaches
<1>2. Frame("direct", t) \in Frames
  BY DEF Frame, Frames, Kinds
<1>3. q \in Seq(Frames) /\ Len(q) <= QueueCap
  BY <1>1, <1>2, CapacityAssumption DEF TypeOK, Reaches, CanPush
<1> QED
  BY <1>1, <1>3 DEF Directed, TypeOK

\* A task's end, and the end of the writer in particular, keep the types.
LEMMA WriterGoneType ==
    ASSUME TypeOK, NEW c \in Conns, WriterGone(c)
    PROVE  /\ live' \in [Conns -> SUBSET Tasks]
           /\ queue' \in [Conns -> Seq(Frames)]
           /\ \A d \in Conns : Len(queue'[d]) <= QueueCap
           /\ holding' \in [Conns -> Seq(Frames)]
BY CapacityAssumption DEF TypeOK, WriterGone, Tasks

\* The end of a reader leaves tasks and reasons well typed.
LEMMA ReaderEndsType ==
    ASSUME TypeOK, NEW c \in Conns, NEW why \in Ends, ReaderEnds(c, why)
    PROVE  /\ live' \in [Conns -> SUBSET Tasks]
           /\ ended' \in [Conns -> SUBSET Ends]
BY DEF TypeOK, ReaderEnds, Tasks

\* Counting a frame or an API call leaves a natural number.
LEMMA CallType ==
    ASSUME TypeOK, NEW kind, Call(kind)
    PROVE  calls' \in Nat
BY DEF TypeOK, Call

\* The steps of connection_loop itself keep the types.
LEMMA MainType ==
    ASSUME TypeOK, NEW c \in Conns, Main(c)
    PROVE  TypeOK'
<1> USE IdentityType DEF TypeOK, Phases, history
<1>1. CASE Subscribe(c)
  <2>1. Len(log[KeyOf(c)]) + 1 \in Nat \ {0}
    OBVIOUS
  <2> QED BY <1>1, <2>1 DEF Subscribe
<1>2. CASE Register(c)
  BY <1>2 DEF Register
<1>3. CASE Start(c)
  <2>1. Note(c, "ready") \in Frames
    BY NoteType DEF Kinds
  <2> QED BY <1>3, <2>1, OfferedType DEF Start
<1>4. CASE Select(c)
  BY <1>4 DEF Select
<1>5. CASE UnregisterCheck(c)
  BY <1>5 DEF UnregisterCheck
<1>6. CASE UnregisterRemove(c)
  BY <1>6 DEF UnregisterRemove
<1> QED
  BY <1>1, <1>2, <1>3, <1>4, <1>5, <1>6 DEF Main

\* The steps of the reader task keep the types.
LEMMA ReaderType ==
    ASSUME TypeOK, NEW c \in Conns, Reader(c)
    PROVE  TypeOK'
<1> USE IdentityType DEF FrameArrives, history, sessionVars
<1>1. CASE Ping(c)
  <2>1. Note(c, "pong") \in Frames
    BY NoteType DEF Kinds
  <2> QED BY <1>1, <2>1, OfferedType, CallType DEF Ping, TypeOK
<1>2. CASE Reject(c)
  <2>1. Note(c, "error") \in Frames
    BY NoteType DEF Kinds
  <2> QED BY <1>2, <2>1, OfferedType, CallType DEF Reject, TypeOK
<1>3. CASE RateLimited(c)
  <2> DEFINE q == Offer(queue[c], Note(c, "rate_limited"))
             r == Offer(q, Note(c, "close"))
  <2>1. Note(c, "rate_limited") \in Frames /\ Note(c, "close") \in Frames
    BY NoteType DEF Kinds
  <2>2. q \in Seq(Frames) /\ Len(q) <= QueueCap
    BY <2>1, OfferType DEF TypeOK
  <2>3. r \in Seq(Frames) /\ Len(r) <= QueueCap
    BY <2>1, <2>2, OfferType
  <2>4. queue' \in {queue, [queue EXCEPT ![c] = r]}
    BY <1>3 DEF RateLimited
  <2> HIDE DEF r
  <2>5. /\ queue' \in [Conns -> Seq(Frames)]
        /\ \A d \in Conns : Len(queue'[d]) <= QueueCap
    <3>1. CASE queue' = queue
      BY <3>1 DEF TypeOK
    <3>2. CASE queue' = [queue EXCEPT ![c] = r]
      BY <2>3, <3>2 DEF TypeOK
    <3> QED BY <2>4, <3>1, <3>2
  <2>6. live' \in [Conns -> SUBSET Tasks] /\ ended' \in [Conns -> SUBSET Ends]
    BY <1>3, ReaderEndsType DEF RateLimited, Ends
  <2>7. calls' \in Nat
    BY <1>3, CallType DEF RateLimited
  <2> QED BY <1>3, <2>5, <2>6, <2>7 DEF RateLimited, TypeOK
<1>4. CASE PeerCloses(c)
  BY <1>4, ReaderEndsType DEF PeerCloses, TypeOK, Ends
<1>5. CASE IdleTimeout(c)
  <2>1. Note(c, "close") \in Frames
    BY NoteType DEF Kinds
  <2>2. /\ queue' \in [Conns -> Seq(Frames)]
        /\ \A d \in Conns : Len(queue'[d]) <= QueueCap
    BY <1>5, <2>1, OfferedType DEF IdleTimeout
  <2>3. live' \in [Conns -> SUBSET Tasks] /\ ended' \in [Conns -> SUBSET Ends]
    BY <1>5, ReaderEndsType DEF IdleTimeout, Ends
  <2> QED BY <1>5, <2>2, <2>3 DEF IdleTimeout, TypeOK
<1>6. ASSUME NEW topic \in Topics, Publish(c, topic)
      PROVE  TypeOK'
  <2>1. TenantTopic(TenantOf[c], topic) \in Keys
    BY IdentityAssumption DEF Keys
  <2> QED BY <1>6, <2>1, PublishedType, CallType DEF Publish, TypeOK
<1>7. ASSUME NEW to \in Clients, Direct(c, to)
      PROVE  TypeOK'
  <2>1. Note(c, "client_not_found") \in Frames
    BY NoteType DEF Kinds
  <2>2. /\ queue' \in [Conns -> Seq(Frames)]
        /\ \A d \in Conns : Len(queue'[d]) <= QueueCap
    <3>1. CASE Reaches(TenantOf[c], to)
      BY <1>7, <3>1, DirectedType DEF Direct
    <3>2. CASE ~Reaches(TenantOf[c], to)
      BY <1>7, <2>1, <3>2, OfferedType DEF Direct
    <3> QED BY <3>1, <3>2
  <2>3. calls' \in Nat
    BY <1>7, CallType DEF Direct
  <2> QED BY <1>7, <2>2, <2>3 DEF Direct, TypeOK
<1> QED
  BY <1>1, <1>2, <1>3, <1>4, <1>5, <1>6, <1>7 DEF Reader

\* The steps of the writer task keep the types.
LEMMA WriterType ==
    ASSUME TypeOK, NEW c \in Conns, Writer(c)
    PROVE  TypeOK'
<1> USE DEF TypeOK, history
<1>1. CASE WriterTakes(c)
  <2>1. Head(queue[c]) \in Frames /\ Tail(queue[c]) \in Seq(Frames)
    BY <1>1 DEF WriterTakes
  <2>2. Len(Tail(queue[c])) <= QueueCap
    BY <1>1, CapacityAssumption DEF WriterTakes
  <2> QED BY <1>1, <2>1, <2>2 DEF WriterTakes
<1>2. CASE WriterSends(c)
  <2>1. wire[c] \o holding[c] \in Seq(Frames)
    OBVIOUS
  <2> QED BY <1>2, <2>1 DEF WriterSends
<1>3. CASE WriterFails(c)
  BY <1>3, WriterGoneType DEF WriterFails, Ends
<1> QED
  BY <1>1, <1>2, <1>3 DEF Writer

\* What the fanout task reads was published on its topic.
LEMMA FanoutReadsType ==
    ASSUME TypeOK, NEW c \in Conns, FanoutReads(c)
    PROVE  /\ cursor[c] \in 1..Len(log[KeyOf(c)])
           /\ log[KeyOf(c)][cursor[c]] \in Tenants
           /\ cursor' \in [Conns -> Nat \ {0}]
<1>1. KeyOf(c) \in Keys
  BY IdentityType
<1>2. cursor[c] \in 1..Len(log[KeyOf(c)])
  BY <1>1 DEF TypeOK, FanoutReads, Oldest
<1> QED
  BY <1>1, <1>2 DEF TypeOK, FanoutReads

\* The steps of the fanout task keep the types.
LEMMA FanoutType ==
    ASSUME TypeOK, NEW c \in Conns, Fanout(c)
    PROVE  TypeOK'
<1> DEFINE k == KeyOf(c)
<1>0. k \in Keys
  BY IdentityType
<1>1. CASE FanoutForwards(c)
  <2> DEFINE m == Broadcast(log[k][cursor[c]], cursor[c])
  <2>1. m \in Frames
    BY <1>1, FanoutReadsType DEF FanoutForwards, Broadcast, Frames, Kinds
  <2>2. Append(queue[c], m) \in Seq(Frames) /\ Len(Append(queue[c], m)) <= QueueCap
    BY <1>1, <2>1, CapacityAssumption DEF FanoutForwards, CanPush, TypeOK
  <2> QED BY <1>1, <2>2, FanoutReadsType DEF FanoutForwards, TypeOK, history
<1>2. CASE FanoutOverflows(c)
  <2>1. live' \in [Conns -> SUBSET Tasks] /\ ended' \in [Conns -> SUBSET Ends]
    BY <1>2 DEF FanoutOverflows, TypeOK, Tasks, Ends
  <2>2. cursor' \in [Conns -> Nat \ {0}]
    BY <1>2, FanoutReadsType DEF FanoutOverflows
  <2> QED BY <1>2, <2>1, <2>2 DEF FanoutOverflows, TypeOK
<1>3. CASE FanoutLags(c)
  <2>1. Oldest(k) \in Nat \ {0}
    BY <1>0, CapacityAssumption DEF Oldest, TypeOK
  <2>2. cursor[c]..(Oldest(k) - 1) \subseteq Nat
    BY <2>1 DEF TypeOK
  <2> QED BY <1>3, <2>1, <2>2 DEF FanoutLags, TypeOK
<1> QED
  BY <1>1, <1>2, <1>3 DEF Fanout

\* Every step keeps the types: one step of the proof per action of Next.
LEMMA TypeNext == TypeOK /\ [Next]_vars => TypeOK'
<1> SUFFICES ASSUME TypeOK, [Next]_vars PROVE TypeOK'
  OBVIOUS
<1> USE DEF history, sessionVars
<1>1. ASSUME NEW c \in Conns, Main(c) \/ Reader(c) \/ Writer(c) \/ Fanout(c)
      PROVE  TypeOK'
  BY <1>1, MainType, ReaderType, WriterType, FanoutType
<1>2. ASSUME NEW c \in Conns, NEW task \in Tasks, Cancel(c, task)
      PROVE  TypeOK'
  <2>1. CASE task = "writer"
    BY <1>2, <2>1, WriterGoneType DEF Cancel, TypeOK
  <2>2. CASE task # "writer"
    <3>1. live' \in [Conns -> SUBSET Tasks]
      BY <1>2, <2>2, live[c] \ {task} \in SUBSET Tasks DEF Cancel, TypeOK
    <3> QED BY <1>2, <2>2, <3>1 DEF Cancel, TypeOK
  <2> QED BY <2>1, <2>2
<1>3. ASSUME NEW c \in Conns, PeerFallsSilent(c)
      PROVE  TypeOK'
  BY <1>3 DEF PeerFallsSilent, TypeOK
<1>4. ASSUME NEW t \in Tenants, NEW topic \in Topics, ApiPublish(t, topic)
      PROVE  TypeOK'
  <2>1. TenantTopic(t, topic) \in Keys
    BY DEF Keys
  <2> QED BY <1>4, <2>1, PublishedType, CallType DEF ApiPublish, TypeOK
<1>5. ASSUME NEW t \in Tenants, NEW to \in Clients, ApiDirect(t, to)
      PROVE  TypeOK'
  BY <1>5, DirectedType, CallType DEF ApiDirect, TypeOK
<1>6. CASE UNCHANGED vars
  BY <1>6 DEF vars, TypeOK
<1> QED
  BY <1>1, <1>2, <1>3, <1>4, <1>5, <1>6 DEF Next, Finished

\* The variables keep their types and no write queue ever holds more than
\* client_queue_capacity frames, whoever offers to it.
THEOREM TypeCorrect == Spec => []TypeOK
<1> QED
  BY TypeInit, TypeNext, PTL DEF Spec

-----------------------------------------------------------------------------
(* The client registry.                                                    *)

\* Only connection_loop itself moves a connection on or touches the registry.
LEMMA OthersKeepRegistry ==
    ASSUME [Next]_vars, ~\E c \in Conns : Main(c)
    PROVE  UNCHANGED <<main, clients>>
<1> USE DEF history, sessionVars
<1>1. ASSUME NEW c \in Conns, Reader(c)
      PROVE  UNCHANGED <<main, clients>>
  BY <1>1 DEF Reader, Ping, Reject, RateLimited, PeerCloses, IdleTimeout,
              Publish, Direct
<1>2. ASSUME NEW c \in Conns, Writer(c)
      PROVE  UNCHANGED <<main, clients>>
  BY <1>2 DEF Writer, WriterTakes, WriterSends, WriterFails
<1>3. ASSUME NEW c \in Conns, Fanout(c)
      PROVE  UNCHANGED <<main, clients>>
  BY <1>3 DEF Fanout, FanoutForwards, FanoutOverflows, FanoutLags
<1>4. ASSUME NEW c \in Conns, NEW task \in Tasks, Cancel(c, task)
      PROVE  UNCHANGED <<main, clients>>
  BY <1>4 DEF Cancel
<1>5. ASSUME NEW c \in Conns, PeerFallsSilent(c)
      PROVE  UNCHANGED <<main, clients>>
  BY <1>5 DEF PeerFallsSilent
<1>6. ASSUME NEW t \in Tenants, NEW topic \in Topics, ApiPublish(t, topic)
      PROVE  UNCHANGED <<main, clients>>
  BY <1>6 DEF ApiPublish
<1>7. ASSUME NEW t \in Tenants, NEW to \in Clients, ApiDirect(t, to)
      PROVE  UNCHANGED <<main, clients>>
  BY <1>7 DEF ApiDirect
<1>8. CASE UNCHANGED vars
  BY <1>8 DEF vars
<1> QED
  BY <1>1, <1>2, <1>3, <1>4, <1>5, <1>6, <1>7, <1>8 DEF Next, Finished

\* The registry stays free of stale handles.  Only Register, which files a
\* connection under its own identity, and UnregisterRemove, which empties the
\* entry of a connection as it closes, touch it.
LEMMA RegistryNext ==
    TypeOK /\ NoStaleHandle /\ [Next]_vars => NoStaleHandle'
<1> SUFFICES ASSUME TypeOK, NoStaleHandle, [Next]_vars PROVE NoStaleHandle'
  OBVIOUS
<1>1. CASE ~\E c \in Conns : Main(c)
  BY <1>1, OthersKeepRegistry DEF NoStaleHandle
<1>2. ASSUME NEW c \in Conns, Main(c)
      PROVE  NoStaleHandle'
  <2> SUFFICES ASSUME NEW k \in DOMAIN clients', clients'[k] # NoConn
               PROVE  /\ Identity(clients'[k]) = k
                      /\ main'[clients'[k]] \notin {"new", "subscribed", "closed"}
    BY DEF NoStaleHandle, Identity
  <2>1. k \in Tenants \X Clients /\ Identity(c) \in Tenants \X Clients
    <3>1. TypeOK'
      BY TypeNext
    <3> QED BY <3>1, IdentityType DEF TypeOK
  <2>2. clients[k] # NoConn =>
          /\ Identity(clients[k]) = k
          /\ clients[k] \in Conns
          /\ main[clients[k]] \notin {"new", "subscribed", "closed"}
    BY <2>1 DEF NoStaleHandle, TypeOK
  <2>3. CASE Subscribe(c)
    BY <2>1, <2>2, <2>3 DEF Subscribe, TypeOK
  <2>4. CASE Register(c)
    BY <2>1, <2>2, <2>4 DEF Register, TypeOK
  <2>5. CASE Start(c)
    BY <2>1, <2>2, <2>5 DEF Start, TypeOK
  <2>6. CASE Select(c)
    BY <2>1, <2>2, <2>6 DEF Select, TypeOK
  <2>7. CASE UnregisterCheck(c)
    BY <2>1, <2>2, <2>7 DEF UnregisterCheck, OwnsHandle, TypeOK
  <2>8. CASE UnregisterRemove(c)
    BY <2>1, <2>2, <2>8 DEF UnregisterRemove, TypeOK
  <2> QED
    BY <1>2, <2>3, <2>4, <2>5, <2>6, <2>7, <2>8 DEF Main
<1> QED
  BY <1>1, <1>2

\* A registry entry always names a connection of that very identity whose
\* session is not over, although the get and the remove of unregister_client
\* are two accesses that other connections' inserts and removes fall between.
THEOREM RegistryCorrect == Spec => []NoStaleHandle
<1>1. Init => NoStaleHandle
  BY DEF Init, NoStaleHandle
<1> QED
  BY <1>1, RegistryNext, TypeCorrect, PTL DEF Spec

-----------------------------------------------------------------------------
(* The end of a session.                                                   *)

\* Tasks run only between Start and the end of the join, and a channel whose
\* receiver is gone holds nothing.
SessionInv ==
    \A c \in Conns :
        /\ main[c] \notin {"running", "joining"} => live[c] = {}
        /\ ~ChannelOpen(c) => queue[c] = <<>> /\ holding[c] = <<>>

\* Every step keeps SessionInv, whichever task ends and in whichever order the
\* aborted ones are dropped.
LEMMA SessionNext ==
    TypeOK /\ SessionInv /\ [Next]_vars => SessionInv'
<1> SUFFICES ASSUME TypeOK, SessionInv, [Next]_vars,
                    NEW c \in Conns
             PROVE  /\ main'[c] \notin {"running", "joining"} => live'[c] = {}
                    /\ ~ChannelOpen(c)' => queue'[c] = <<>> /\ holding'[c] = <<>>
  BY DEF SessionInv
<1> USE DEF TypeOK, SessionInv, ChannelOpen, Tasks, history, sessionVars
\* Offering and directing frames leave a closed channel as it is.
<1>a. \A d \in Conns, m \in Frames : ~ChannelOpen(c) => Offered(d, m)[c] = queue[c]
  BY DEF Offered
<1>b. \A t \in Tenants, id \in Clients :
        Reaches(t, id) /\ ~ChannelOpen(c) => Directed(t, id)[c] = queue[c]
  BY DEF Directed, Reaches, CanPush
<1>1. ASSUME NEW d \in Conns, Main(d)
      PROVE  /\ main'[c] \notin {"running", "joining"} => live'[c] = {}
             /\ ~ChannelOpen(c)' => queue'[c] = <<>> /\ holding'[c] = <<>>
  <2>1. CASE Subscribe(d)
    BY <2>1 DEF Subscribe
  <2>2. CASE Register(d)
    BY <2>2 DEF Register
  <2>3. CASE Start(d)
    <3>1. Note(d, "ready") \in Frames
      BY NoteType DEF Kinds
    <3> QED BY <1>a, <2>3, <3>1 DEF Start
  <2>4. CASE Select(d)
    BY <2>4 DEF Select
  <2>5. CASE UnregisterCheck(d)
    BY <2>5 DEF UnregisterCheck, Joined
  <2>6. CASE UnregisterRemove(d)
    BY <2>6 DEF UnregisterRemove
  <2> QED
    BY <1>1, <2>1, <2>2, <2>3, <2>4, <2>5, <2>6 DEF Main
<1>2. ASSUME NEW d \in Conns, Reader(d)
      PROVE  /\ main'[c] \notin {"running", "joining"} => live'[c] = {}
             /\ ~ChannelOpen(c)' => queue'[c] = <<>> /\ holding'[c] = <<>>
  <2> USE DEF FrameArrives, ReaderEnds
  <2>0. \A kind \in Kinds : Note(d, kind) \in Frames
    BY NoteType
  <2>1. CASE Ping(d)
    BY <1>a, <2>0, <2>1 DEF Ping, Kinds
  <2>2. CASE Reject(d)
    BY <1>a, <2>0, <2>2 DEF Reject, Kinds
  <2>3. CASE RateLimited(d)
    BY <2>3 DEF RateLimited
  <2>4. CASE PeerCloses(d)
    BY <2>4 DEF PeerCloses
  <2>5. CASE IdleTimeout(d)
    BY <1>a, <2>0, <2>5 DEF IdleTimeout, Kinds
  <2>6. ASSUME NEW topic \in Topics, Publish(d, topic)
        PROVE  UNCHANGED <<main, live, queue, holding>>
    BY <2>6 DEF Publish
  <2>7. ASSUME NEW to \in Clients, Direct(d, to)
        PROVE  /\ UNCHANGED <<main, live, holding>>
               /\ ~ChannelOpen(c) => queue'[c] = queue[c]
    <3>1. CASE Reaches(TenantOf[d], to)
      BY <1>b, <2>7, <3>1, IdentityType DEF Direct
    <3>2. CASE ~Reaches(TenantOf[d], to)
      BY <1>a, <2>0, <2>7, <3>2 DEF Direct, Kinds
    <3> QED BY <3>1, <3>2
  <2> QED
    BY <1>2, <2>1, <2>2, <2>3, <2>4, <2>5, <2>6, <2>7 DEF Reader
<1>3. ASSUME NEW d \in Conns, Writer(d)
      PROVE  /\ main'[c] \notin {"running", "joining"} => live'[c] = {}
             /\ ~ChannelOpen(c)' => queue'[c] = <<>> /\ holding'[c] = <<>>
  BY <1>3 DEF Writer, WriterTakes, WriterSends, WriterFails, WriterGone
<1>4. ASSUME NEW d \in Conns, Fanout(d)
      PROVE  /\ main'[c] \notin {"running", "joining"} => live'[c] = {}
             /\ ~ChannelOpen(c)' => queue'[c] = <<>> /\ holding'[c] = <<>>
  <2>1. CASE FanoutForwards(d)
    BY <1>4, <2>1 DEF FanoutForwards, CanPush
  <2>2. CASE FanoutOverflows(d)
    BY <1>4, <2>2 DEF FanoutOverflows, FanoutReads
  <2>3. CASE FanoutLags(d)
    BY <1>4, <2>3 DEF FanoutLags
  <2> QED BY <1>4, <2>1, <2>2, <2>3 DEF Fanout
<1>5. ASSUME NEW d \in Conns, NEW task \in Tasks, Cancel(d, task)
      PROVE  /\ main'[c] \notin {"running", "joining"} => live'[c] = {}
             /\ ~ChannelOpen(c)' => queue'[c] = <<>> /\ holding'[c] = <<>>
  <2>1. main[d] = "joining"
    BY <1>5 DEF Cancel, Aborted
  <2>2. CASE task = "writer"
    BY <1>5, <2>1, <2>2 DEF Cancel, WriterGone
  <2>3. CASE task # "writer"
    <3>1. UNCHANGED <<main, queue, holding>>
      BY <1>5, <2>3 DEF Cancel
    <3>2. live'[c] = live[c] \/ (c = d /\ live'[c] = live[c] \ {task})
      BY <1>5, <2>3 DEF Cancel
    <3> QED BY <2>1, <2>3, <3>1, <3>2
  <2> QED BY <2>2, <2>3
<1>6. ASSUME NEW d \in Conns, PeerFallsSilent(d)
      PROVE  UNCHANGED <<main, live, queue, holding>>
  BY <1>6 DEF PeerFallsSilent
<1>7. ASSUME NEW t \in Tenants, NEW topic \in Topics, ApiPublish(t, topic)
      PROVE  UNCHANGED <<main, live, queue, holding>>
  BY <1>7 DEF ApiPublish
<1>8. ASSUME NEW t \in Tenants, NEW to \in Clients, ApiDirect(t, to)
      PROVE  /\ UNCHANGED <<main, live, holding>>
             /\ ~ChannelOpen(c) => queue'[c] = queue[c]
  BY <1>8, <1>b DEF ApiDirect
<1>9. CASE UNCHANGED vars
  BY <1>9 DEF vars
<1> QED
  BY <1>1, <1>2, <1>3, <1>4, <1>5, <1>6, <1>7, <1>8, <1>9 DEF Next, Finished

\* When a session is unregistered none of its tasks runs and nothing is
\* queued, whichever task ended first and whatever the aborted ones still did.
THEOREM NoOrphans == Spec => []NoOrphanTask
<1>1. Init => SessionInv
  BY DEF Init, SessionInv, ChannelOpen
<1>2. TypeOK /\ SessionInv => NoOrphanTask
  BY DEF SessionInv, NoOrphanTask, ChannelOpen
<1> QED
  BY <1>1, <1>2, SessionNext, TypeCorrect, PTL DEF Spec

-----------------------------------------------------------------------------
(* Tenant isolation.                                                       *)

\* The tenants that may publish under a topic key, and the claim that nobody
\* else's message is in its log.
Owners(k) == {t \in Tenants : \E topic \in Topics : TenantTopic(t, topic) = k}
LogOwned  == \A k \in Keys : log[k] \in Seq(Owners(k))

\* A broadcast in the log of a connection's topic may be sent to its peer: two
\* tenants have a key in common only if the id of one of them has a colon.
LEMMA BroadcastOwn ==
    ASSUME NEW c \in Conns, NEW t \in Owners(KeyOf(c)), NEW pos \in Nat
    PROVE  Broadcast(t, pos) \in OwnFrames(c)
<1>1. /\ TenantOf[c] \in Tenants /\ TopicOf[c] \in Topics
      /\ TenantOf[c] \in Strings /\ TopicOf[c] \in Strings
  BY IdentityAssumption, StringAssumption
<1>2. PICK topic \in Topics : TenantTopic(t, topic) = KeyOf(c)
  BY DEF Owners
<1>3. t \in Tenants /\ t \in Strings /\ topic \in Strings
  BY <1>2, StringAssumption DEF Owners
<1>4. SeparatorFree(t) /\ SeparatorFree(TenantOf[c]) => t = TenantOf[c]
  BY <1>1, <1>2, <1>3, KeysApart DEF KeyOf
<1>5. QED
  BY <1>3, <1>4 DEF Broadcast, Frames, Kinds, OwnFrames

\* A step publishes on one topic, for the tenant the topic is named for, or on
\* none.
LEMMA LogStep ==
    ASSUME [Next]_vars
    PROVE  \/ log' = log
           \/ \E t \in Tenants, topic \in Topics :
                log' = Published(t, TenantTopic(t, topic))
<1> USE DEF history, sessionVars
<1>1. ASSUME NEW c \in Conns, Main(c) \/ Writer(c) \/ Fanout(c)
      PROVE  log' = log
  BY <1>1 DEF Main, Subscribe, Register, Start, Select, UnregisterCheck,
              UnregisterRemove, Writer, WriterTakes, WriterSends, WriterFails,
              Fanout, FanoutForwards, FanoutOverflows, FanoutLags
<1>2. ASSUME NEW c \in Conns, Reader(c)
      PROVE  \/ log' = log
             \/ \E topic \in Topics :
                  log' = Published(TenantOf[c], TenantTopic(TenantOf[c], topic))
  BY <1>2 DEF Reader, Ping, Reject, RateLimited, PeerCloses, IdleTimeout,
              Publish, Direct
<1>3. ASSUME NEW c \in Conns, NEW task \in Tasks, Cancel(c, task)
      PROVE  log' = log
  BY <1>3 DEF Cancel
<1>4. ASSUME NEW c \in Conns, PeerFallsSilent(c)
      PROVE  log' = log
  BY <1>4 DEF PeerFallsSilent
<1>5. ASSUME NEW t \in Tenants, NEW topic \in Topics, ApiPublish(t, topic)
      PROVE  log' = Published(t, TenantTopic(t, topic))
  BY <1>5 DEF ApiPublish
<1>6. ASSUME NEW t \in Tenants, NEW to \in Clients, ApiDirect(t, to)
      PROVE  log' = log
  BY <1>6 DEF ApiDirect
<1>7. CASE UNCHANGED vars
  BY <1>7 DEF vars
<1> QED
  BY <1>1, <1>2, <1>3, <1>4, <1>5, <1>6, <1>7, IdentityType DEF Next, Finished

\* Every step keeps LogOwned: both publish handlers build the key from the
\* tenant they publish for.
LEMMA LogNext == TypeOK /\ LogOwned /\ [Next]_vars => LogOwned'
<1> SUFFICES ASSUME TypeOK, LogOwned, [Next]_vars PROVE LogOwned'
  OBVIOUS
<1>1. ASSUME NEW t \in Tenants, NEW topic \in Topics,
             log' = Published(t, TenantTopic(t, topic))
      PROVE  LogOwned'
  <2> DEFINE k == TenantTopic(t, topic)
  <2>1. k \in Keys /\ t \in Owners(k)
    BY DEF Keys, Owners
  <2>2. Append(log[k], t) \in Seq(Owners(k))
    BY <2>1 DEF LogOwned
  <2> QED BY <1>1, <2>1, <2>2 DEF Published, LogOwned, TypeOK
<1>2. ASSUME log' = log
      PROVE  LogOwned'
  BY <1>2 DEF LogOwned
<1> QED
  BY <1>1, <1>2, LogStep

\* What a connection sends itself is of its own tenant.
LEMMA OwnNote ==
    ASSUME NEW c \in Conns, NEW kind \in Kinds
    PROVE  Note(c, kind) \in OwnFrames(c)
BY IdentityType DEF Note, Frame, Frames, OwnFrames

\* The three places where a frame is added to a queue add one that may be sent
\* to its receiver.
LEMMA OfferedOwn ==
    ASSUME TypeOK, TenantIsolation, NEW c \in Conns, NEW m \in OwnFrames(c)
    PROVE  \A d \in Conns : Offered(c, m)[d] \in Seq(OwnFrames(d))
<1>1. Offer(queue[c], m) \in Seq(OwnFrames(c))
  BY OfferType DEF TypeOK, TenantIsolation
<1> QED
  BY <1>1 DEF Offered, TypeOK, TenantIsolation

\* A direct message goes to a handle filed under the sender's tenant, which by
\* NoStaleHandle is a connection of that tenant.
LEMMA DirectedOwn ==
    ASSUME TypeOK, TenantIsolation, NoStaleHandle,
           NEW t \in Tenants, NEW id \in Clients, Reaches(t, id)
    PROVE  \A d \in Conns : Directed(t, id)[d] \in Seq(OwnFrames(d))
<1> DEFINE h == clients[<<t, id>>]
<1>1. h \in Conns /\ TenantOf[h] = t
  BY DEF Reaches, TypeOK, NoStaleHandle, Identity
<1>2. Frame("direct", t) \in OwnFrames(h)
  BY <1>1 DEF Frame, Frames, Kinds, OwnFrames
<1>3. Append(queue[h], Frame("direct", t)) \in Seq(OwnFrames(h))
  BY <1>1, <1>2 DEF TenantIsolation
<1> QED
  BY <1>1, <1>3 DEF Directed, TypeOK, TenantIsolation

\* A broadcast that the fanout forwards was published by a tenant that has the
\* connection's key.
LEMMA ForwardedOwn ==
    ASSUME TypeOK, TenantIsolation, LogOwned, NEW c \in Conns, FanoutForwards(c)
    PROVE  \A d \in Conns : queue'[d] \in Seq(OwnFrames(d))
<1> DEFINE k == KeyOf(c)
           m == Broadcast(log[k][cursor[c]], cursor[c])
<1>1. k \in Keys /\ cursor[c] \in 1..Len(log[k])
  BY IdentityType, FanoutReadsType DEF FanoutForwards
<1>2. log[k][cursor[c]] \in Owners(k)
  <2>1. log[k] \in Seq(Owners(k))
    BY <1>1 DEF LogOwned
  <2> QED BY <1>1, <2>1
<1>3. m \in OwnFrames(c)
  BY <1>1, <1>2, BroadcastOwn DEF TypeOK
<1>4. Append(queue[c], m) \in Seq(OwnFrames(c))
  BY <1>3 DEF TenantIsolation
<1> QED
  BY <1>4 DEF FanoutForwards, TypeOK, TenantIsolation

\* Every step keeps TenantIsolation.
LEMMA IsolationNext ==
    TypeOK /\ NoStaleHandle /\ LogOwned /\ TenantIsolation /\ [Next]_vars
        => TenantIsolation'
<1> SUFFICES ASSUME TypeOK, NoStaleHandle, LogOwned, TenantIsolation,
                    [Next]_vars, NEW c \in Conns
             PROVE  /\ wire'[c] \in Seq(OwnFrames(c))
                    /\ holding'[c] \in Seq(OwnFrames(c))
                    /\ queue'[c] \in Seq(OwnFrames(c))
  BY DEF TenantIsolation, OwnFrames
<1> USE DEF history, sessionVars
<1>0. /\ wire[c] \in Seq(OwnFrames(c))
      /\ holding[c] \in Seq(OwnFrames(c))
      /\ queue[c] \in Seq(OwnFrames(c))
  BY DEF TenantIsolation
\* Everything but the writer and a cancellation touches the queues alone.
<1>1. ASSUME NEW d \in Conns, Main(d)
      PROVE  /\ UNCHANGED <<wire, holding>>
             /\ queue'[c] \in Seq(OwnFrames(c))
  <2>1. CASE Start(d)
    BY <2>1, OwnNote, OfferedOwn DEF Start, Kinds
  <2>2. CASE ~Start(d)
    BY <1>0, <1>1, <2>2 DEF Main, Subscribe, Register, Select, UnregisterCheck,
                            UnregisterRemove
  <2> QED BY <2>1, <2>2
<1>2. ASSUME NEW d \in Conns, Reader(d)
      PROVE  /\ UNCHANGED <<wire, holding>>
             /\ queue'[c] \in Seq(OwnFrames(c))
  <2>0. \A kind \in Kinds : Note(d, kind) \in OwnFrames(d)
    BY OwnNote
  <2>1. CASE Ping(d)
    BY <2>0, <2>1, OfferedOwn DEF Ping, Kinds
  <2>2. CASE Reject(d)
    BY <2>0, <2>2, OfferedOwn DEF Reject, Kinds
  <2>3. CASE RateLimited(d)
    <3> DEFINE q == Offer(queue[d], Note(d, "rate_limited"))
               r == Offer(q, Note(d, "close"))
    <3>0. queue[d] \in Seq(OwnFrames(d)) /\ Len(queue[d]) <= QueueCap
      BY DEF TypeOK, TenantIsolation
    <3>1. q \in Seq(OwnFrames(d)) /\ Len(q) <= QueueCap
      BY <2>0, <3>0, OfferType DEF Kinds
    <3>2. r \in Seq(OwnFrames(d))
      BY <2>0, <3>1, OfferType DEF Kinds
    <3>3. queue' \in {queue, [queue EXCEPT ![d] = r]}
      BY <2>3 DEF RateLimited
    <3> HIDE DEF r
    <3>4. CASE queue' = queue
      BY <1>0, <3>4, <2>3 DEF RateLimited
    <3>5. CASE queue' = [queue EXCEPT ![d] = r]
      BY <1>0, <2>3, <3>2, <3>5 DEF RateLimited, TypeOK
    <3> QED BY <3>3, <3>4, <3>5
  <2>4. CASE PeerCloses(d)
    BY <1>0, <2>4 DEF PeerCloses
  <2>5. CASE IdleTimeout(d)
    BY <2>0, <2>5, OfferedOwn DEF IdleTimeout, Kinds
  <2>6. ASSUME NEW topic \in Topics, Publish(d, topic)
        PROVE  UNCHANGED <<wire, holding, queue>>
    BY <2>6 DEF Publish
  <2>7. ASSUME NEW to \in Clients, Direct(d, to)
        PROVE  /\ UNCHANGED <<wire, holding>>
               /\ queue'[c] \in Seq(OwnFrames(c))
    <3>1. CASE Reaches(TenantOf[d], to)
      BY <2>7, <3>1, DirectedOwn, IdentityType DEF Direct
    <3>2. CASE ~Reaches(TenantOf[d], to)
      BY <2>0, <2>7, <3>2, OfferedOwn DEF Direct, Kinds
    <3> QED BY <3>1, <3>2
  <2> QED
    BY <1>0, <1>2, <2>1, <2>2, <2>3, <2>4, <2>5, <2>6, <2>7 DEF Reader
<1>3. ASSUME NEW d \in Conns, Writer(d)
      PROVE  /\ wire'[c] \in Seq(OwnFrames(c))
             /\ holding'[c] \in Seq(OwnFrames(c))
             /\ queue'[c] \in Seq(OwnFrames(c))
  <2>1. CASE WriterTakes(d)
    <3>1. /\ Head(queue[d]) \in OwnFrames(d)
          /\ Tail(queue[d]) \in Seq(OwnFrames(d))
      BY <2>1 DEF WriterTakes, TenantIsolation
    <3> QED BY <1>0, <2>1, <3>1 DEF WriterTakes, TypeOK
  <2>2. CASE WriterSends(d)
    <3>1. wire[d] \o holding[d] \in Seq(OwnFrames(d))
      BY DEF TenantIsolation
    <3> QED BY <1>0, <2>2, <3>1 DEF WriterSends, TypeOK
  <2>3. CASE WriterFails(d)
    BY <1>0, <2>3 DEF WriterFails, WriterGone, TypeOK
  <2> QED BY <1>3, <2>1, <2>2, <2>3 DEF Writer
<1>4. ASSUME NEW d \in Conns, Fanout(d)
      PROVE  /\ UNCHANGED <<wire, holding>>
             /\ queue'[c] \in Seq(OwnFrames(c))
  <2>1. CASE FanoutForwards(d)
    BY <2>1, ForwardedOwn DEF FanoutForwards
  <2>2. CASE ~FanoutForwards(d)
    BY <1>0, <1>4, <2>2 DEF Fanout, FanoutOverflows, FanoutLags
  <2> QED BY <2>1, <2>2
<1>5. ASSUME NEW d \in Conns, NEW task \in Tasks, Cancel(d, task)
      PROVE  /\ wire' = wire
             /\ holding'[c] \in Seq(OwnFrames(c))
             /\ queue'[c] \in Seq(OwnFrames(c))
  <2>1. CASE task = "writer"
    <3>1. WriterGone(d) /\ wire' = wire
      BY <1>5, <2>1 DEF Cancel
    <3> QED BY <1>0, <3>1 DEF WriterGone, TypeOK
  <2>2. CASE task # "writer"
    BY <1>0, <1>5, <2>2 DEF Cancel
  <2> QED BY <2>1, <2>2
<1>6. ASSUME NEW d \in Conns, PeerFallsSilent(d)
      PROVE  UNCHANGED <<wire, holding, queue>>
  BY <1>6 DEF PeerFallsSilent
<1>7. ASSUME NEW t \in Tenants, NEW topic \in Topics, ApiPublish(t, topic)
      PROVE  UNCHANGED <<wire, holding, queue>>
  BY <1>7 DEF ApiPublish
<1>8. ASSUME NEW t \in Tenants, NEW to \in Clients, ApiDirect(t, to)
      PROVE  /\ UNCHANGED <<wire, holding>>
             /\ queue'[c] \in Seq(OwnFrames(c))
  BY <1>0, <1>8, DirectedOwn DEF ApiDirect
<1>9. CASE UNCHANGED vars
  BY <1>0, <1>9 DEF vars
<1> QED
  BY <1>0, <1>1, <1>2, <1>3, <1>4, <1>5, <1>6, <1>7, <1>8, <1>9
  DEF Next, Finished

\* Direct messages and replies that are queued for a peer, being sent or sent are
\* of its own tenant: they look their target up under the sender's tenant, and the
\* registry holds no stale entry.  Broadcasts are so between tenants whose ids
\* have no colon: their topics have no key in common (KeysApart).
THEOREM Isolation == Spec => []TenantIsolation
<1>1. Init => LogOwned /\ TenantIsolation
  BY DEF Init, LogOwned, TenantIsolation
<1> QED
  BY <1>1, LogNext, IsolationNext, TypeCorrect, RegistryCorrect, PTL DEF Spec

-----------------------------------------------------------------------------
(* The streams of the topics.                                              *)

\* The broadcasts in a sequence of frames and their positions; that they are in
\* order; that no Ready follows one; that there is none, and no Ready either.
Broadcasts(S) == {i \in 1..Len(S) : S[i].kind = "message"}
Positions(S)  == {S[i].pos : i \in Broadcasts(S)}
Ordered(S)    == \A i, j \in Broadcasts(S) : i < j => S[i].pos < S[j].pos
ReadyFirst(S) == \A i \in Broadcasts(S) : \A j \in 1..Len(S) :
                   i < j => S[j].kind # "ready"
NoBroadcast(S) == \A i \in 1..Len(S) : S[i].kind # "message"
Plain(S)      == \A i \in 1..Len(S) : S[i].kind \notin {"message", "ready"}

\* Frames of other kinds at the end change nothing of the stream.
LEMMA OtherFrames ==
    ASSUME NEW S \in Seq(Frames), NEW q \in Seq(Frames), NoBroadcast(q)
    PROVE  /\ S \o q \in Seq(Frames)
           /\ Positions(S \o q) = Positions(S)
           /\ Ordered(S) => Ordered(S \o q)
           /\ Plain(q) /\ ReadyFirst(S) => ReadyFirst(S \o q)
           /\ Positions(S) = {} => ReadyFirst(S \o q)
<1> DEFINE T == S \o q
<1>1. /\ T \in Seq(Frames)
      /\ Len(T) = Len(S) + Len(q)
      /\ Len(S) \in Nat /\ Len(q) \in Nat
      /\ \A i \in 1..Len(S) : T[i] = S[i]
      /\ \A i \in 1..Len(T) : i > Len(S) => i - Len(S) \in 1..Len(q) /\ T[i] = q[i - Len(S)]
  BY ConcatProperties, LenProperties
<1> HIDE DEF T
<1>2. Broadcasts(T) = Broadcasts(S)
  <2>1. \A i \in 1..Len(T) : i > Len(S) => T[i].kind # "message"
    BY <1>1 DEF NoBroadcast
  <2>2. \A i : i \in 1..Len(S) <=> i \in 1..Len(T) /\ ~(i > Len(S))
    BY <1>1
  <2>3. \A i : i \in Broadcasts(T) <=> i \in Broadcasts(S)
    BY <1>1, <2>1, <2>2 DEF Broadcasts
  <2> QED BY <2>3
<1>3. \A i \in Broadcasts(S) : i \in 1..Len(S) /\ T[i] = S[i]
  BY <1>1 DEF Broadcasts
<1>4. Positions(T) = Positions(S)
  BY <1>2, <1>3 DEF Positions
<1>5. Ordered(S) => Ordered(T)
  BY <1>2, <1>3 DEF Ordered
<1>6. ASSUME Plain(q), ReadyFirst(S)
      PROVE  ReadyFirst(T)
  <2>1. \A i \in 1..Len(T) : i > Len(S) => T[i].kind # "ready"
    BY <1>1, <1>6 DEF Plain
  <2>2. \A i \in 1..Len(T) : ~(i > Len(S)) => i \in 1..Len(S)
    BY <1>1
  <2> QED BY <1>1, <1>2, <1>6, <2>1, <2>2 DEF ReadyFirst
<1>7. ASSUME Positions(S) = {}
      PROVE  ReadyFirst(T)
  BY <1>2, <1>7 DEF ReadyFirst, Positions
<1> QED
  BY <1>1, <1>4, <1>5, <1>6, <1>7 DEF T

\* The next broadcast at the end of what was sent.
LEMMA NextBroadcast ==
    ASSUME NEW S \in Seq(Frames), NEW m \in Frames, m.kind = "message",
           \A p \in Positions(S) : p < m.pos
    PROVE  /\ Append(S, m) \in Seq(Frames)
           /\ Positions(Append(S, m)) = Positions(S) \union {m.pos}
           /\ Ordered(S) => Ordered(Append(S, m))
           /\ ReadyFirst(S) => ReadyFirst(Append(S, m))
<1> DEFINE T == Append(S, m)
           n == Len(S) + 1
<1>1. /\ T \in Seq(Frames)
      /\ Len(T) = n
      /\ Len(S) \in Nat
      /\ \A i \in 1..Len(S) : T[i] = S[i]
      /\ T[n] = m
  OBVIOUS
<1> HIDE DEF T
<1>2. Broadcasts(T) = Broadcasts(S) \union {n}
  BY <1>1 DEF Broadcasts
<1>3. \A i \in Broadcasts(S) : i \in 1..Len(S) /\ i < n /\ T[i] = S[i] /\ S[i].pos \in Positions(S)
  BY <1>1 DEF Broadcasts, Positions
<1>4. Positions(T) = Positions(S) \union {m.pos}
  BY <1>1, <1>2, <1>3 DEF Positions
<1>5. Ordered(S) => Ordered(T)
  BY <1>1, <1>2, <1>3 DEF Ordered
<1>6. ReadyFirst(S) => ReadyFirst(T)
  BY <1>1, <1>2, <1>3 DEF ReadyFirst
<1> QED
  BY <1>1, <1>4, <1>5, <1>6 DEF T

\* What is cut off at the end of an ordered stream comes after what is left.
LEMMA CutStream ==
    ASSUME NEW S \in Seq(Frames), NEW q \in Seq(Frames)
    PROVE  /\ Positions(S) \subseteq Positions(S \o q)
           /\ Ordered(S \o q) => Ordered(S)
           /\ Ordered(S \o q) =>
                \A p \in Positions(S) : \A r \in Positions(S \o q) :
                   r < p => r \in Positions(S)
           /\ ReadyFirst(S \o q) => ReadyFirst(S)
<1> DEFINE T == S \o q
<1>1. /\ T \in Seq(Frames)
      /\ Len(T) = Len(S) + Len(q)
      /\ Len(S) \in Nat /\ Len(q) \in Nat
      /\ \A i \in 1..Len(S) : T[i] = S[i]
  BY ConcatProperties, LenProperties
<1> HIDE DEF T
<1>2. \A i \in Broadcasts(S) : i \in Broadcasts(T) /\ i \in 1..Len(S) /\ T[i] = S[i]
  BY <1>1 DEF Broadcasts
<1>3. \A i \in Broadcasts(T) : i \in 1..Len(T) /\ T[i].pos \in Nat
  <2>1. \A i \in 1..Len(T) : T[i] \in Frames
    BY <1>1, ElementOfSeq
  <2> QED BY <2>1 DEF Broadcasts, Frames
<1>4. Positions(S) \subseteq Positions(T)
  BY <1>2 DEF Positions
<1>5. Ordered(T) => Ordered(S)
  BY <1>2 DEF Ordered
<1>6. ASSUME Ordered(T), NEW p \in Positions(S), NEW r \in Positions(T), r < p
      PROVE  r \in Positions(S)
  <2>1. PICK i \in Broadcasts(S) : p = S[i].pos
    BY DEF Positions
  <2>2. PICK j \in Broadcasts(T) : r = T[j].pos
    BY DEF Positions
  <2>3. j \in Nat /\ i \in Nat /\ i <= Len(S) /\ j >= 1
    BY <1>2, <1>3
  <2>4. ~(i < j)
    BY <1>2, <1>3, <1>6, <2>1, <2>2 DEF Ordered
  <2>5. j \in 1..Len(S)
    BY <1>1, <2>3, <2>4
  <2>6. T[j] = S[j] /\ j \in Broadcasts(S)
    BY <1>1, <2>5 DEF Broadcasts
  <2> QED BY <2>2, <2>6 DEF Positions
<1>7. ReadyFirst(T) => ReadyFirst(S)
  BY <1>1, <1>2 DEF ReadyFirst
<1> QED
  BY <1>4, <1>5, <1>6, <1>7 DEF T

\* The fanout of the session has not been spawned.
Early(c) == main[c] \in {"new", "subscribed", "registered"}

\* Where a stream stands: what was sent and what was skipped lie between the
\* subscription and the cursor, and as long as forwarding goes on they are all
\* there is between them.
Streamed(c) ==
    /\ first[c] <= cursor[c]
    /\ cursor[c] <= Len(log[KeyOf(c)]) + 1
    /\ Early(c) => cursor[c] = first[c]
    /\ Positions(Sent(c)) \subseteq first[c]..(cursor[c] - 1)
    /\ skipped[c] \subseteq first[c]..(cursor[c] - 1)
    /\ Ordered(Sent(c))
    /\ ReadyFirst(Sent(c))
    /\ \A p \in Positions(Sent(c)) :
         first[c]..(p - 1) \subseteq Positions(Sent(c)) \union skipped[c]
    /\ {"writer", "fanout"} \subseteq live[c] =>
         first[c]..(cursor[c] - 1) \subseteq Positions(Sent(c)) \union skipped[c]

\* What a step that does not read the topic leaves of it.
Still(c) ==
    /\ Early(c)' => Early(c)
    /\ live'[c] \subseteq live[c]
    /\ cursor'[c] = cursor[c] /\ first'[c] = first[c] /\ skipped'[c] = skipped[c]
    /\ Len(log'[KeyOf(c)]) >= Len(log[KeyOf(c)])

\* A step that sends frames other than broadcasts and Ready, or none, and a step
\* with which the frames not yet on the wire are lost.
SendsPlain(c) == \E q \in Seq(Frames) : Plain(q) /\ Sent(c)' = Sent(c) \o q
LosesTail(c)  == Sent(c)' = wire[c] /\ "writer" \notin live'[c]

\* Sequences of frames may be regrouped.
LEMMA Regroup ==
    ASSUME NEW s \in Seq(Frames), NEW t \in Seq(Frames), NEW u \in Seq(Frames)
    PROVE  (s \o t) \o u = s \o (t \o u)
BY ConcatAssociative

\* The sequences and positions a stream is made of, and what was sent as the wire
\* and the rest.
LEMMA SentType ==
    ASSUME TypeOK, NEW c \in Conns
    PROVE  /\ Sent(c) \in Seq(Frames)
           /\ wire[c] \in Seq(Frames) /\ holding[c] \o queue[c] \in Seq(Frames)
           /\ Sent(c) = wire[c] \o (holding[c] \o queue[c])
           /\ cursor[c] \in Nat /\ first[c] \in Nat /\ Len(log[KeyOf(c)]) \in Nat
           /\ Positions(Sent(c)) \subseteq Nat /\ skipped[c] \subseteq Nat
<1>1. /\ wire[c] \in Seq(Frames) /\ holding[c] \in Seq(Frames) /\ queue[c] \in Seq(Frames)
      /\ cursor[c] \in Nat /\ first[c] \in Nat /\ log[KeyOf(c)] \in Seq(Tenants)
      /\ skipped[c] \subseteq Nat
  BY IdentityType DEF TypeOK
<1>2. Sent(c) = wire[c] \o (holding[c] \o queue[c])
  BY <1>1, Regroup DEF Sent
<1>3. holding[c] \o queue[c] \in Seq(Frames)
  BY <1>1, ConcatProperties
<1>4. Sent(c) \in Seq(Frames)
  BY <1>1, <1>2, <1>3, ConcatProperties
<1>5. \A i \in 1..Len(Sent(c)) : Sent(c)[i].pos \in Nat
  <2>1. \A i \in 1..Len(Sent(c)) : Sent(c)[i] \in Frames
    BY <1>4, ElementOfSeq
  <2> QED BY <2>1 DEF Frames
<1>6. Positions(Sent(c)) \subseteq Nat
  BY <1>5 DEF Positions, Broadcasts
<1> QED
  BY <1>1, <1>2, <1>3, <1>4, <1>6, LenProperties

\* Frames of other kinds leave the stream where it stands.
LEMMA PlainKeeps ==
    ASSUME TypeOK, NEW c \in Conns, Streamed(c), Still(c), SendsPlain(c)
    PROVE  Streamed(c)'
<1>1. PICK q \in Seq(Frames) : Plain(q) /\ Sent(c)' = Sent(c) \o q
  BY DEF SendsPlain
<1>2. Sent(c) \in Seq(Frames)
  BY SentType
<1>3. NoBroadcast(q)
  BY <1>1 DEF Plain, NoBroadcast
<1> DEFINE S == Sent(c)
           T == Sent(c)'
<1>4. Positions(T) = Positions(S) /\ (Ordered(S) => Ordered(T))
      /\ (ReadyFirst(S) => ReadyFirst(T))
  BY <1>1, <1>2, <1>3, OtherFrames
<1>5. cursor[c] \in Nat /\ Len(log[KeyOf(c)]) \in Nat /\ Len(log'[KeyOf(c)]) >= Len(log[KeyOf(c)])
  BY SentType DEF Still
<1> HIDE DEF S, T
<1> QED
  BY <1>4, <1>5 DEF Streamed, Still, S, T

\* Losing what is not on the wire yet leaves a stream that ends earlier.
LEMMA CutKeeps ==
    ASSUME TypeOK, NEW c \in Conns, Streamed(c), Still(c), LosesTail(c)
    PROVE  Streamed(c)'
<1> DEFINE S == Sent(c)
           T == Sent(c)'
<1>1. /\ Positions(T) \subseteq Positions(S)
      /\ Ordered(S) => Ordered(T)
      /\ Ordered(S) => \A p \in Positions(T) : \A r \in Positions(S) :
                          r < p => r \in Positions(T)
      /\ ReadyFirst(S) => ReadyFirst(T)
  BY SentType, CutStream DEF LosesTail
<1>2. /\ Positions(S) \subseteq Nat /\ cursor[c] \in Nat /\ first[c] \in Nat
      /\ Len(log[KeyOf(c)]) \in Nat /\ Len(log'[KeyOf(c)]) >= Len(log[KeyOf(c)])
  BY SentType DEF Still
<1>3. /\ Ordered(S) /\ ReadyFirst(S)
      /\ Positions(S) \subseteq first[c]..(cursor[c] - 1)
      /\ \A p \in Positions(S) : first[c]..(p - 1) \subseteq Positions(S) \union skipped[c]
  BY DEF Streamed
<1>4. "writer" \notin live'[c]
  BY DEF LosesTail
<1> HIDE DEF S, T
<1>5. ASSUME NEW p \in Positions(T)
      PROVE  first[c]..(p - 1) \subseteq Positions(T) \union skipped[c]
  BY <1>1, <1>2, <1>3
<1> QED
  BY <1>1, <1>2, <1>3, <1>4, <1>5 DEF Streamed, Still, S, T

\* What is pushed onto the queue comes at the end of what is sent.
LEMMA PushSends ==
    ASSUME TypeOK, NEW c \in Conns, NEW q \in Seq(Frames),
           wire'[c] = wire[c], holding'[c] = holding[c],
           queue'[c] = queue[c] \o q
    PROVE  Sent(c)' = Sent(c) \o q
<1>1. /\ wire[c] \in Seq(Frames) /\ holding[c] \in Seq(Frames) /\ queue[c] \in Seq(Frames)
      /\ wire[c] \o holding[c] \in Seq(Frames)
  BY ConcatProperties DEF TypeOK
<1>2. (wire[c] \o holding[c]) \o (queue[c] \o q) = ((wire[c] \o holding[c]) \o queue[c]) \o q
  BY <1>1, Regroup
<1> QED
  BY <1>2 DEF Sent

\* The kinds of frames a session is sent besides Ready and broadcasts.
PlainFrames == {m \in Frames : m.kind \notin {"message", "ready"}}

\* A queue after plain frames were pushed onto it, or none.
PushedPlain(s, t) == \E q \in Seq(Frames) : Plain(q) /\ t = s \o q

\* Pushing nothing, one plain frame, or some after some, pushes plain frames.
LEMMA PushNone ==
    ASSUME NEW s \in Seq(Frames)
    PROVE  PushedPlain(s, s)
<1>1. <<>> \in Seq(Frames) /\ Plain(<<>>) /\ s = s \o <<>>
  BY ConcatEmptySeq DEF Plain
<1> QED
  BY <1>1 DEF PushedPlain

\* An Append, and a try_send that may fail, push one plain frame at most.
LEMMA PushOne ==
    ASSUME NEW s \in Seq(Frames), NEW m \in PlainFrames
    PROVE  PushedPlain(s, Append(s, m)) /\ PushedPlain(s, Offer(s, m))
<1>1. m \in Frames /\ <<m>> \in Seq(Frames) /\ Plain(<<m>>)
  BY DEF PlainFrames, Plain
<1>2. Append(s, m) = s \o <<m>>
  BY <1>1, AppendIsConcat
<1>3. PushedPlain(s, Append(s, m))
  BY <1>1, <1>2 DEF PushedPlain
<1> QED
  BY <1>3, PushNone DEF Offer

\* Pushes of plain frames add up.
LEMMA PushTwice ==
    ASSUME NEW s \in Seq(Frames), NEW t \in Seq(Frames), NEW u \in Seq(Frames),
           PushedPlain(s, t), PushedPlain(t, u)
    PROVE  PushedPlain(s, u)
<1>1. PICK q \in Seq(Frames) : Plain(q) /\ t = s \o q
  BY DEF PushedPlain
<1>2. PICK r \in Seq(Frames) : Plain(r) /\ u = t \o r
  BY DEF PushedPlain
<1>3. u = s \o (q \o r)
  BY <1>1, <1>2, Regroup
<1>4. /\ q \o r \in Seq(Frames)
      /\ Len(q) \in Nat /\ Len(r) \in Nat /\ Len(q \o r) = Len(q) + Len(r)
      /\ \A i \in 1..Len(q) + Len(r) : (q \o r)[i] = IF i <= Len(q) THEN q[i] ELSE r[i - Len(q)]
  BY ConcatProperties, LenProperties
<1>5. Plain(q \o r)
  <2> SUFFICES ASSUME NEW i \in 1..Len(q \o r)
               PROVE  (q \o r)[i].kind \notin {"message", "ready"}
    BY DEF Plain
  <2>1. CASE i <= Len(q)
    BY <1>1, <1>4, <2>1 DEF Plain
  <2>2. CASE ~(i <= Len(q))
    <3>1. i - Len(q) \in 1..Len(r)
      BY <1>4, <2>2
    <3> QED BY <1>2, <1>4, <2>2, <3>1 DEF Plain
  <2> QED BY <2>1, <2>2
<1> QED
  BY <1>3, <1>4, <1>5 DEF PushedPlain

\* Plain frames that are queued are sent.
LEMMA PushedSendsPlain ==
    ASSUME TypeOK, NEW c \in Conns, UNCHANGED <<wire, holding>>,
           PushedPlain(queue[c], queue'[c])
    PROVE  SendsPlain(c)
<1>1. PICK q \in Seq(Frames) : Plain(q) /\ queue'[c] = queue[c] \o q
  BY DEF PushedPlain
<1> QED
  BY <1>1, PushSends DEF SendsPlain

\* A push by a step that leaves the rest of the stream alone.
LEMMA PushKeeps ==
    ASSUME TypeOK, NEW c \in Conns, Streamed(c),
           UNCHANGED <<wire, holding, cursor, first, skipped>>,
           Early(c)' => Early(c), live'[c] \subseteq live[c],
           Len(log'[KeyOf(c)]) >= Len(log[KeyOf(c)]),
           PushedPlain(queue[c], queue'[c])
    PROVE  Streamed(c)'
BY PushedSendsPlain, PlainKeeps DEF Still

\* Published messages are never taken back.
LEMMA LogGrows ==
    ASSUME TypeOK, [Next]_vars, NEW c \in Conns
    PROVE  Len(log'[KeyOf(c)]) >= Len(log[KeyOf(c)])
<1> DEFINE k == KeyOf(c)
<1>1. k \in Keys /\ log[k] \in Seq(Tenants) /\ Len(log[k]) \in Nat
  BY IdentityType DEF TypeOK
<1>2. CASE log' = log
  BY <1>1, <1>2
<1>3. ASSUME NEW t \in Tenants, NEW topic \in Topics,
             log' = Published(t, TenantTopic(t, topic))
      PROVE  Len(log'[k]) >= Len(log[k])
  <2>1. log'[k] \in {log[k], Append(log[k], t)}
    BY <1>1, <1>3 DEF Published, TypeOK
  <2>2. Len(Append(log[k], t)) = Len(log[k]) + 1
    BY <1>1, <1>3
  <2> QED BY <1>1, <2>1, <2>2
<1> QED
  BY <1>2, <1>3, LogStep

\* What a session sends itself besides Ready, and what others send it.
LEMMA PlainNote ==
    ASSUME NEW c \in Conns, NEW kind \in Kinds \ {"message", "ready"}
    PROVE  Note(c, kind) \in PlainFrames
BY NoteType DEF PlainFrames, Note, Frame

\* A session's try_send to itself pushes plain frames onto its queue alone.
LEMMA OfferedPushes ==
    ASSUME TypeOK, NEW c \in Conns, NEW d \in Conns, NEW m \in PlainFrames
    PROVE  PushedPlain(queue[c], Offered(d, m)[c])
<1>1. queue[c] \in Seq(Frames) /\ queue \in [Conns -> Seq(Frames)]
  BY DEF TypeOK
<1>2. Offered(d, m)[c] \in {queue[c], Offer(queue[c], m)}
  BY <1>1 DEF Offered
<1> QED
  BY <1>1, <1>2, PushNone, PushOne

\* AppState::send_to_client pushes a plain frame onto its target's queue alone.
LEMMA DirectedPushes ==
    ASSUME TypeOK, NEW c \in Conns, NEW t \in Tenants, NEW id \in Clients
    PROVE  PushedPlain(queue[c], Directed(t, id)[c])
<1>1. queue[c] \in Seq(Frames) /\ queue \in [Conns -> Seq(Frames)]
  BY DEF TypeOK
<1>2. Frame("direct", t) \in PlainFrames
  BY DEF PlainFrames, Frame, Frames, Kinds
<1>3. Directed(t, id)[c] \in {queue[c], Append(queue[c], Frame("direct", t))}
  BY <1>1 DEF Directed
<1> QED
  BY <1>1, <1>2, <1>3, PushNone, PushOne

\* Whatever the reader handles, broadcasts are none of what it sends.
LEMMA ReaderPushes ==
    ASSUME TypeOK, NEW c \in Conns, NEW d \in Conns, Reader(d)
    PROVE  /\ UNCHANGED <<main, wire, holding, cursor, first, skipped>>
           /\ live'[c] \subseteq live[c]
           /\ PushedPlain(queue[c], queue'[c])
<1> USE DEF history, sessionVars
<1>0. /\ queue[c] \in Seq(Frames) /\ live \in [Conns -> SUBSET Tasks]
      /\ queue \in [Conns -> Seq(Frames)]
  BY DEF TypeOK
<1>1. \A kind \in Kinds \ {"message", "ready"} : Note(d, kind) \in PlainFrames
  BY PlainNote
<1>2. PushedPlain(queue[c], queue[c])
  BY <1>0, PushNone
<1>3. CASE Ping(d)
  <2>1. Note(d, "pong") \in PlainFrames
    BY <1>1 DEF Kinds
  <2> QED BY <1>3, <2>1, OfferedPushes DEF Ping
<1>4. CASE Reject(d)
  <2>1. Note(d, "error") \in PlainFrames
    BY <1>1 DEF Kinds
  <2> QED BY <1>4, <2>1, OfferedPushes DEF Reject
<1>5. CASE RateLimited(d)
  <2> DEFINE q == Offer(queue[d], Note(d, "rate_limited"))
             r == Offer(q, Note(d, "close"))
  <2>1. Note(d, "rate_limited") \in PlainFrames /\ Note(d, "close") \in PlainFrames
    BY <1>1 DEF Kinds
  <2>2. queue[d] \in Seq(Frames) /\ Len(queue[d]) <= QueueCap
    BY DEF TypeOK
  <2>3. q \in Seq(Frames) /\ r \in Seq(Frames)
    BY <2>1, <2>2, OfferType DEF PlainFrames
  <2>4. PushedPlain(queue[d], r)
    <3>1. PushedPlain(queue[d], q)
      BY <2>1, <2>2, PushOne
    <3>2. PushedPlain(q, r)
      BY <2>1, <2>3, PushOne
    <3> QED BY <2>2, <2>3, <3>1, <3>2, PushTwice
  <2>5. queue' \in {queue, [queue EXCEPT ![d] = r]}
    BY <1>5 DEF RateLimited
  <2>6. UNCHANGED <<main, wire, holding, cursor, first, skipped>> /\ live'[c] \subseteq live[c]
    BY <1>0, <1>5 DEF RateLimited, ReaderEnds
  <2> HIDE DEF r
  <2>7. queue'[c] = queue[c] \/ (c = d /\ queue'[c] = r)
    BY <1>0, <2>5
  <2> QED BY <1>2, <2>4, <2>6, <2>7
<1>6. CASE PeerCloses(d)
  BY <1>0, <1>2, <1>6 DEF PeerCloses, ReaderEnds
<1>7. CASE IdleTimeout(d)
  <2>1. Note(d, "close") \in PlainFrames
    BY <1>1 DEF Kinds
  <2> QED BY <1>0, <1>7, <2>1, OfferedPushes DEF IdleTimeout, ReaderEnds
<1>8. ASSUME NEW topic \in Topics, Publish(d, topic)
      PROVE  UNCHANGED <<main, live, wire, holding, queue, cursor, first, skipped>>
  BY <1>8 DEF Publish
<1>9. ASSUME NEW to \in Clients, Direct(d, to)
      PROVE  /\ UNCHANGED <<main, live, wire, holding, cursor, first, skipped>>
             /\ PushedPlain(queue[c], queue'[c])
  <2>1. Note(d, "client_not_found") \in PlainFrames
    BY <1>1 DEF Kinds
  <2>2. CASE Reaches(TenantOf[d], to)
    BY <1>9, <2>2, DirectedPushes, IdentityType DEF Direct
  <2>3. CASE ~Reaches(TenantOf[d], to)
    BY <1>9, <2>1, <2>3, OfferedPushes DEF Direct
  <2> QED BY <2>2, <2>3, <1>9 DEF Direct
<1> QED
  BY <1>2, <1>3, <1>4, <1>5, <1>6, <1>7, <1>8, <1>9 DEF Reader

\* The writer moves frames from the queue to its hands and on to the wire, which
\* changes nothing of what was sent, or ends and loses what it had not written.
LEMMA WriterSent ==
    ASSUME TypeOK, NEW c \in Conns, NEW d \in Conns, Writer(d)
    PROVE  /\ UNCHANGED <<main, cursor, first, skipped>>
           /\ live'[c] \subseteq live[c]
           /\ Sent(c)' = Sent(c) \/ LosesTail(c)
<1> USE DEF history
<1>0. /\ wire[c] \in Seq(Frames) /\ holding[c] \in Seq(Frames) /\ queue[c] \in Seq(Frames)
      /\ holding \in [Conns -> Seq(Frames)] /\ queue \in [Conns -> Seq(Frames)]
      /\ wire \in [Conns -> Seq(Frames)] /\ live \in [Conns -> SUBSET Tasks]
  BY DEF TypeOK
<1>1. CASE WriterTakes(d)
  <2>1. CASE c = d
    <3> DEFINE m == Head(queue[c])
               q == Tail(queue[c])
    <3>1. queue[c] # <<>> /\ holding[c] = <<>> /\ wire'[c] = wire[c]
          /\ holding'[c] = <<m>> /\ queue'[c] = q
      BY <1>0, <1>1, <2>1 DEF WriterTakes
    <3>2. m \in Frames /\ q \in Seq(Frames) /\ <<m>> \in Seq(Frames) /\ queue[c] = <<m>> \o q
      <4>1. m \in Frames /\ q \in Seq(Frames) /\ Len(q) = Len(queue[c]) - 1
            /\ Len(queue[c]) \in Nat \ {0}
            /\ \A i \in 1..Len(q) : q[i] = queue[c][i + 1]
        BY <1>0, <3>1, HeadTailProperties, EmptySeq
      <4>2. m = queue[c][1] /\ <<m>> \in Seq(Frames)
        BY <1>0, <3>1, <4>1
      <4> HIDE DEF m, q
      <4>3. /\ <<m>> \o q \in Seq(Frames)
            /\ Len(<<m>> \o q) = Len(queue[c])
            /\ \A i \in 1..Len(queue[c]) : (<<m>> \o q)[i] = queue[c][i]
        BY <1>0, <4>1, <4>2
      <4> QED BY <1>0, <4>1, <4>2, <4>3, SeqEqual
    <3> HIDE DEF m, q
    <3>3. Sent(c) = wire[c] \o queue[c]
      BY <1>0, <3>1, ConcatEmptySeq DEF Sent
    <3>4. Sent(c)' = (wire[c] \o <<m>>) \o q
      BY <3>1 DEF Sent
    <3>5. (wire[c] \o <<m>>) \o q = wire[c] \o (<<m>> \o q)
      BY <1>0, <3>2, Regroup
    <3>6. Sent(c)' = Sent(c)
      BY <3>2, <3>3, <3>4, <3>5
    <3> QED BY <1>1, <3>6 DEF WriterTakes
  <2>2. CASE c # d
    BY <1>0, <1>1, <2>2 DEF WriterTakes, Sent
  <2> QED BY <2>1, <2>2
<1>2. CASE WriterSends(d)
  <2>1. CASE c = d
    <3>1. wire'[c] = wire[c] \o holding[c] /\ holding'[c] = <<>> /\ queue'[c] = queue[c]
      BY <1>0, <1>2, <2>1 DEF WriterSends
    <3>2. (wire[c] \o holding[c]) \o <<>> = wire[c] \o holding[c]
      BY <1>0, ConcatProperties, ConcatEmptySeq
    <3>3. Sent(c)' = Sent(c)
      BY <3>1, <3>2 DEF Sent
    <3> QED BY <1>2, <3>3 DEF WriterSends
  <2>2. CASE c # d
    BY <1>0, <1>2, <2>2 DEF WriterSends, Sent
  <2> QED BY <2>1, <2>2
<1>3. CASE WriterFails(d)
  <2>1. UNCHANGED <<main, cursor, first, skipped, wire>> /\ WriterGone(d)
    BY <1>3 DEF WriterFails
  <2>2. CASE c = d
    <3>1. wire'[c] = wire[c] /\ holding'[c] = <<>> /\ queue'[c] = <<>>
          /\ live'[c] = live[c] \ {"writer"}
      BY <1>0, <2>1, <2>2 DEF WriterGone
    <3>2. (wire[c] \o <<>>) \o <<>> = wire[c]
      BY <1>0, ConcatEmptySeq
    <3> QED BY <2>1, <3>1, <3>2 DEF LosesTail, Sent
  <2>3. CASE c # d
    BY <1>0, <2>1, <2>3 DEF WriterGone, Sent
  <2> QED BY <2>2, <2>3
<1> QED
  BY <1>1, <1>2, <1>3 DEF Writer

\* Steps that only move a session on, end a task or touch other parts of the
\* state keep every stream as it is.
LEMMA SentKeeps ==
    ASSUME TypeOK, NEW c \in Conns, Streamed(c), Sent(c)' = Sent(c),
           cursor'[c] = cursor[c], first'[c] = first[c], skipped'[c] = skipped[c],
           Early(c)' => Early(c), live'[c] \subseteq live[c],
           Len(log'[KeyOf(c)]) >= Len(log[KeyOf(c)])
    PROVE  Streamed(c)'
<1>1. SendsPlain(c)
  BY SentType, PushNone DEF SendsPlain, PushedPlain
<1> QED
  BY <1>1, PlainKeeps DEF Still

\* The fanout reads on where it is, and forwards what it reads or ends.
LEMMA FanoutStreamed ==
    ASSUME TypeOK, SessionInv, NEW c \in Conns, Streamed(c), NEW d \in Conns, Fanout(d)
    PROVE  Streamed(c)'
<1> USE DEF history
<1>0. /\ wire[c] \in Seq(Frames) /\ holding[c] \in Seq(Frames) /\ queue[c] \in Seq(Frames)
      /\ queue \in [Conns -> Seq(Frames)] /\ live \in [Conns -> SUBSET Tasks]
      /\ cursor \in [Conns -> Nat \ {0}] /\ skipped \in [Conns -> SUBSET Nat]
  BY DEF TypeOK
<1>1. UNCHANGED <<main, log, wire, holding, first>>
  BY DEF Fanout, FanoutForwards, FanoutOverflows, FanoutLags, FanoutReads
<1>2. /\ Sent(c) \in Seq(Frames) /\ first[c] \in Nat /\ cursor[c] \in Nat
      /\ Len(log[KeyOf(c)]) \in Nat /\ Positions(Sent(c)) \subseteq Nat
      /\ skipped[c] \subseteq Nat
  BY SentType
<1>3. CASE c # d
  <2>1. queue'[c] = queue[c] /\ live'[c] = live[c] /\ cursor'[c] = cursor[c]
        /\ skipped'[c] = skipped[c]
    BY <1>0, <1>3 DEF Fanout, FanoutForwards, FanoutOverflows, FanoutLags, FanoutReads
  <2>2. Sent(c)' = Sent(c)
    BY <1>1, <2>1 DEF Sent
  <2> QED
    BY <1>1, <2>1, <2>2 DEF Streamed, Early
<1>4. CASE c = d /\ FanoutForwards(c)
  <2> DEFINE p == cursor[c]
             m == Broadcast(log[KeyOf(c)][p], p)
             S == Sent(c)
  <2>1. /\ "fanout" \in live[c] /\ "writer" \in live[c] /\ ~Early(c)
        /\ p <= Len(log[KeyOf(c)])
        /\ cursor'[c] = p + 1 /\ live' = live /\ skipped' = skipped
    <3>1. "fanout" \in live[c] /\ p <= Len(log[KeyOf(c)])
      BY <1>4, FanoutReadsType DEF FanoutForwards, FanoutReads
    <3>2. main[c] \in {"running", "joining"}
      BY <3>1 DEF SessionInv
    <3> QED BY <1>0, <1>4, <3>1, <3>2 DEF FanoutForwards, FanoutReads, CanPush, ChannelOpen, Early
  <2>2. m \in Frames /\ m.kind = "message" /\ m.pos = p
    BY <1>4, FanoutReadsType DEF FanoutForwards, Broadcast, Frames, Kinds
  <2>3. queue'[c] = queue[c] \o <<m>>
    <3>1. queue'[c] = Append(queue[c], m)
      BY <1>0, <1>4 DEF FanoutForwards
    <3> HIDE DEF m
    <3> QED BY <1>0, <2>2, <3>1, AppendIsConcat
  <2> HIDE DEF m
  <2>4. Sent(c)' = Append(S, m)
    <3>1. <<m>> \in Seq(Frames)
      BY <2>2
    <3>2. Sent(c)' = S \o <<m>>
      BY <1>1, <2>3, <3>1, PushSends
    <3> QED BY <1>2, <2>2, <3>2, AppendIsConcat
  <2>5. Positions(S) \subseteq first[c]..(p - 1)
    BY DEF Streamed
  <2>6. /\ Positions(Append(S, m)) = Positions(S) \union {p}
        /\ Ordered(Append(S, m)) /\ ReadyFirst(Append(S, m))
    BY <1>2, <2>2, <2>5, NextBroadcast DEF Streamed
  <2> HIDE DEF S
  <2>7. first[c]..(p - 1) \subseteq Positions(S) \union skipped[c]
    BY <2>1 DEF Streamed, S
  <2>8. first[c]..p \subseteq (Positions(S) \union {p}) \union skipped[c]
    BY <1>2, <2>7
  <2>9. /\ first[c] <= p /\ p + 1 <= Len(log[KeyOf(c)]) + 1
        /\ skipped[c] \subseteq first[c]..(p - 1)
        /\ \A r \in Positions(S) : first[c]..(r - 1) \subseteq Positions(S) \union skipped[c]
    BY <1>2, <2>1 DEF Streamed, S
  <2>10. \A r \in Positions(S) \union {p} :
            first[c]..(r - 1) \subseteq (Positions(S) \union {p}) \union skipped[c]
    BY <2>7, <2>9
  <2>11. /\ Positions(S) \union {p} \subseteq first[c]..p
         /\ skipped[c] \subseteq first[c]..p
    BY <1>2, <2>5, <2>9 DEF S
  <2>12. ~Early(c)'
    BY <1>1, <2>1 DEF Early
  <2>13. (p + 1) - 1 = p
    BY <1>2
  <2> QED
    BY <1>1, <1>2, <2>1, <2>4, <2>6, <2>8, <2>9, <2>10, <2>11, <2>12, <2>13 DEF Streamed
<1>5. CASE c = d /\ FanoutOverflows(c)
  <2>1. /\ cursor[c] <= Len(log[KeyOf(c)])
        /\ cursor'[c] = cursor[c] + 1 /\ "fanout" \notin live'[c]
        /\ skipped' = skipped /\ queue' = queue
    BY <1>0, <1>5, FanoutReadsType DEF FanoutOverflows, FanoutReads
  <2>2. ~Early(c)'
    BY <1>1, <1>5 DEF SessionInv, FanoutOverflows, FanoutReads, Early
  <2>3. Sent(c)' = Sent(c)
    BY <1>1, <2>1 DEF Sent
  <2> DEFINE P == Positions(Sent(c))
  <2> HIDE DEF P
  <2>4. /\ first[c] <= cursor[c] /\ P \subseteq first[c]..(cursor[c] - 1)
        /\ skipped[c] \subseteq first[c]..(cursor[c] - 1)
        /\ \A p \in P : first[c]..(p - 1) \subseteq P \union skipped[c]
        /\ Ordered(Sent(c)) /\ ReadyFirst(Sent(c))
    BY DEF Streamed, P
  <2>5. /\ first[c] <= cursor'[c] /\ cursor'[c] <= Len(log[KeyOf(c)]) + 1
        /\ P \subseteq first[c]..(cursor'[c] - 1)
        /\ skipped[c] \subseteq first[c]..(cursor'[c] - 1)
    BY <1>2, <2>1, <2>4
  <2> QED
    BY <1>1, <2>1, <2>2, <2>3, <2>4, <2>5 DEF Streamed, P
<1>6. CASE c = d /\ FanoutLags(c)
  <2> DEFINE o == Oldest(KeyOf(c))
             P == Positions(Sent(c))
  <2>1. /\ o \in Nat /\ cursor[c] < o /\ o <= Len(log[KeyOf(c)]) + 1
        /\ cursor'[c] = o /\ skipped'[c] = skipped[c] \union cursor[c]..(o - 1)
        /\ live' = live /\ queue' = queue
    <3>1. o \in Nat /\ o <= Len(log[KeyOf(c)]) + 1
      BY <1>2, CapacityAssumption DEF Oldest
    <3> HIDE DEF o
    <3>2. /\ cursor[c] < o /\ cursor' = [cursor EXCEPT ![c] = o]
          /\ skipped' = [skipped EXCEPT ![c] = @ \union cursor[c]..(o - 1)]
          /\ live' = live /\ queue' = queue
      BY <1>6 DEF FanoutLags, o
    <3> QED BY <1>0, <3>1, <3>2
  <2>2. ~Early(c)'
    BY <1>1, <1>6 DEF SessionInv, FanoutLags, Early
  <2>3. Sent(c)' = Sent(c)
    BY <1>1, <2>1 DEF Sent
  <2> HIDE DEF o, P
  <2>4. /\ first[c] <= cursor[c] /\ P \subseteq first[c]..(cursor[c] - 1)
        /\ skipped[c] \subseteq first[c]..(cursor[c] - 1)
        /\ \A p \in P : first[c]..(p - 1) \subseteq P \union skipped[c]
        /\ Ordered(Sent(c)) /\ ReadyFirst(Sent(c))
        /\ {"writer", "fanout"} \subseteq live[c] =>
             first[c]..(cursor[c] - 1) \subseteq P \union skipped[c]
    BY DEF Streamed, P
  <2>5. /\ first[c] <= o /\ P \subseteq first[c]..(o - 1)
        /\ skipped'[c] \subseteq first[c]..(o - 1)
    BY <1>2, <2>1, <2>4
  <2>6. \A p \in P : first[c]..(p - 1) \subseteq P \union skipped'[c]
    BY <2>1, <2>4
  <2>7. {"writer", "fanout"} \subseteq live[c] =>
             first[c]..(o - 1) \subseteq P \union skipped'[c]
    BY <1>2, <2>1, <2>4
  <2> QED
    BY <1>1, <2>1, <2>2, <2>3, <2>4, <2>5, <2>6, <2>7 DEF Streamed, P
<1> QED
  BY <1>3, <1>4, <1>5, <1>6 DEF Fanout

\* connection_loop subscribes at the end of the log, and offers Ready before the
\* fanout runs.
LEMMA MainStreamed ==
    ASSUME TypeOK, NEW c \in Conns, Streamed(c), NEW d \in Conns, Main(d)
    PROVE  Streamed(c)'
<1> USE DEF history
<1>0. /\ main \in [Conns -> Phases] /\ queue \in [Conns -> Seq(Frames)]
      /\ cursor \in [Conns -> Nat \ {0}] /\ first \in [Conns -> Nat \ {0}]
      /\ live \in [Conns -> SUBSET Tasks] /\ queue[c] \in Seq(Frames)
  BY DEF TypeOK
<1>1. /\ Sent(c) \in Seq(Frames) /\ first[c] \in Nat /\ cursor[c] \in Nat
      /\ Len(log[KeyOf(c)]) \in Nat /\ skipped[c] \subseteq Nat
  BY SentType
<1>2. UNCHANGED <<log, wire, holding, skipped>>
  BY DEF Main, Subscribe, Register, Start, Select, UnregisterCheck, UnregisterRemove
\* Before a session runs it has been sent nothing of its topic.
<1>3. ASSUME Early(c)
      PROVE  Positions(Sent(c)) = {} /\ skipped[c] = {}
  BY <1>1, <1>3 DEF Streamed
<1>4. CASE c = d /\ Subscribe(c)
  <2>1. /\ cursor'[c] = Len(log[KeyOf(c)]) + 1 /\ first'[c] = Len(log[KeyOf(c)]) + 1
        /\ queue' = queue /\ live' = live /\ Early(c)
    BY <1>0, <1>4 DEF Subscribe, Early
  <2>2. Sent(c)' = Sent(c)
    BY <1>2, <2>1 DEF Sent
  <2>3. Positions(Sent(c)) = {} /\ skipped[c] = {} /\ Ordered(Sent(c)) /\ ReadyFirst(Sent(c))
    BY <1>3, <2>1 DEF Streamed
  <2> QED
    BY <1>1, <1>2, <2>1, <2>2, <2>3 DEF Streamed
<1>5. CASE c = d /\ Start(c)
  <2> DEFINE m == Note(c, "ready")
  <2>1. m \in Frames /\ NoBroadcast(<<m>>)
    <3>1. m \in Frames /\ m.kind = "ready"
      BY NoteType DEF Note, Frame, Kinds
    <3> HIDE DEF m
    <3>2. \A i \in 1..Len(<<m>>) : <<m>>[i] = m
      OBVIOUS
    <3> QED BY <3>1, <3>2 DEF NoBroadcast
  <2> HIDE DEF m
  <2>2. Early(c) /\ ~Early(c)' /\ cursor' = cursor /\ first' = first
    BY <1>0, <1>5 DEF Start, Early
  <2>3. queue'[c] = queue[c] \/ queue'[c] = queue[c] \o <<m>>
    <3>1. queue'[c] \in {queue[c], Append(queue[c], m)}
      BY <1>0, <1>5 DEF Start, Offered, Offer, m
    <3> QED BY <1>0, <2>1, <3>1, AppendIsConcat
  <2>4. Sent(c)' = Sent(c) \/ Sent(c)' = Sent(c) \o <<m>>
    <3>1. <<m>> \in Seq(Frames)
      BY <2>1
    <3>2. CASE queue'[c] = queue[c]
      BY <1>2, <3>2 DEF Sent
    <3>3. CASE queue'[c] = queue[c] \o <<m>>
      BY <1>2, <3>1, <3>3, PushSends
    <3> QED BY <2>3, <3>2, <3>3
  <2>5. /\ Positions(Sent(c)) = {} /\ skipped[c] = {} /\ Ordered(Sent(c)) /\ ReadyFirst(Sent(c))
        /\ cursor[c] = first[c] /\ cursor[c] <= Len(log[KeyOf(c)]) + 1
    BY <1>3, <2>2 DEF Streamed
  <2>6. Positions(Sent(c)') = {} /\ Ordered(Sent(c)') /\ ReadyFirst(Sent(c)')
    <3>1. <<m>> \in Seq(Frames)
      BY <2>1
    <3>2. CASE Sent(c)' = Sent(c)
      BY <2>5, <3>2
    <3>3. CASE Sent(c)' = Sent(c) \o <<m>>
      BY <1>1, <2>1, <2>5, <3>1, <3>3, OtherFrames
    <3> QED BY <2>4, <3>2, <3>3
  <2> QED
    BY <1>1, <1>2, <2>2, <2>5, <2>6 DEF Streamed
<1>6. CASE ~(c = d /\ (Subscribe(c) \/ Start(c)))
  <2>1. /\ queue'[c] = queue[c] /\ live'[c] = live[c] /\ cursor'[c] = cursor[c]
        /\ first'[c] = first[c]
        /\ Early(c)' => Early(c)
    <3>1. CASE c = d
      BY <1>0, <1>6, <3>1 DEF Main, Register, Select, UnregisterCheck, UnregisterRemove, Early
    <3>2. CASE c # d
      BY <1>0, <3>2 DEF Main, Subscribe, Register, Start, Select, UnregisterCheck,
                        UnregisterRemove, Early, Offered
    <3> QED BY <3>1, <3>2
  <2>2. Sent(c)' = Sent(c)
    BY <1>2, <2>1 DEF Sent
  <2> QED
    <3>1. skipped'[c] = skipped[c] /\ live'[c] \subseteq live[c]
          /\ Len(log'[KeyOf(c)]) >= Len(log[KeyOf(c)])
      BY <1>1, <1>2, <2>1
    <3> QED BY <2>1, <2>2, <3>1, SentKeeps
<1> QED
  BY <1>4, <1>5, <1>6

\* The streams of all connections stand as they should.
StreamInv == \A c \in Conns : Streamed(c)

\* Every step keeps every stream.
LEMMA StreamNext == TypeOK /\ SessionInv /\ StreamInv /\ [Next]_vars => StreamInv'
<1> SUFFICES ASSUME TypeOK, SessionInv, StreamInv, [Next]_vars, NEW c \in Conns
             PROVE  Streamed(c)'
  BY DEF StreamInv
<1> USE DEF history, sessionVars
<1>0. Streamed(c) /\ queue[c] \in Seq(Frames) /\ Len(log'[KeyOf(c)]) >= Len(log[KeyOf(c)])
  BY LogGrows DEF StreamInv, TypeOK
<1>1. ASSUME NEW d \in Conns, Main(d) \/ Fanout(d)
      PROVE  Streamed(c)'
  BY <1>0, <1>1, MainStreamed, FanoutStreamed
<1>2. ASSUME NEW d \in Conns, Reader(d)
      PROVE  Streamed(c)'
  BY <1>0, <1>2, ReaderPushes, PushKeeps DEF Early
<1>3. ASSUME NEW d \in Conns, Writer(d)
      PROVE  Streamed(c)'
  <2>1. /\ UNCHANGED <<main, cursor, first, skipped>> /\ live'[c] \subseteq live[c]
        /\ Sent(c)' = Sent(c) \/ LosesTail(c)
    BY <1>3, WriterSent
  <2> QED BY <1>0, <2>1, SentKeeps, CutKeeps DEF Still, Early
<1>4. ASSUME NEW d \in Conns, NEW task \in Tasks, Cancel(d, task)
      PROVE  Streamed(c)'
  <2>0. /\ wire[c] \in Seq(Frames) /\ live \in [Conns -> SUBSET Tasks]
        /\ queue \in [Conns -> Seq(Frames)] /\ holding \in [Conns -> Seq(Frames)]
    BY DEF TypeOK
  <2>1. UNCHANGED <<main, cursor, first, skipped, wire>> /\ live'[c] \subseteq live[c]
    BY <1>4, <2>0 DEF Cancel, WriterGone
  <2>2. CASE task = "writer" /\ c = d
    <3>1. holding'[c] = <<>> /\ queue'[c] = <<>> /\ "writer" \notin live'[c]
      BY <1>4, <2>0, <2>2 DEF Cancel, WriterGone
    <3>2. (wire[c] \o <<>>) \o <<>> = wire[c]
      BY <2>0, ConcatEmptySeq
    <3>3. LosesTail(c)
      BY <2>1, <3>1, <3>2 DEF LosesTail, Sent
    <3> QED BY <1>0, <2>1, <3>3, CutKeeps DEF Still, Early
  <2>3. CASE ~(task = "writer" /\ c = d)
    <3>1. queue'[c] = queue[c] /\ holding'[c] = holding[c]
      BY <1>4, <2>0, <2>3 DEF Cancel, WriterGone
    <3>2. Sent(c)' = Sent(c)
      BY <2>1, <3>1 DEF Sent
    <3> QED BY <1>0, <2>1, <3>2, SentKeeps DEF Early
  <2> QED BY <2>2, <2>3
<1>5. ASSUME NEW d \in Conns, PeerFallsSilent(d)
      PROVE  Streamed(c)'
  BY <1>0, <1>5, PushNone, PushKeeps DEF PeerFallsSilent, Early
<1>6. ASSUME NEW t \in Tenants, NEW topic \in Topics, ApiPublish(t, topic)
      PROVE  Streamed(c)'
  BY <1>0, <1>6, PushNone, PushKeeps DEF ApiPublish, Early
<1>7. ASSUME NEW t \in Tenants, NEW to \in Clients, ApiDirect(t, to)
      PROVE  Streamed(c)'
  <2>1. PushedPlain(queue[c], queue'[c])
    BY <1>0, <1>7, DirectedPushes, PushNone DEF ApiDirect
  <2> QED BY <1>0, <1>7, <2>1, PushKeeps DEF ApiDirect, Early
<1>8. CASE UNCHANGED vars
  BY <1>0, <1>8, PushNone, PushKeeps DEF vars, Early
<1> QED
  BY <1>1, <1>2, <1>3, <1>4, <1>5, <1>6, <1>7, <1>8 DEF Next, Finished

\* No stream has begun.
LEMMA StreamInit == Init => StreamInv
<1> SUFFICES ASSUME Init, NEW c \in Conns PROVE Streamed(c)
  BY DEF StreamInv
<1>1. /\ cursor[c] = 1 /\ first[c] = 1 /\ skipped[c] = {} /\ live[c] = {}
      /\ KeyOf(c) \in Keys /\ log[KeyOf(c)] = <<>>
  BY IdentityType DEF Init
<1>2. Sent(c) = <<>>
  <2>1. wire[c] = <<>> /\ holding[c] = <<>> /\ queue[c] = <<>>
    BY DEF Init
  <2> QED BY <2>1, ConcatEmptySeq DEF Sent
<1>3. Len(Sent(c)) = 0 /\ Len(log[KeyOf(c)]) = 0
  BY <1>1, <1>2
<1>4. Broadcasts(Sent(c)) = {}
  BY <1>3 DEF Broadcasts
<1>5. Positions(Sent(c)) = {} /\ Ordered(Sent(c)) /\ ReadyFirst(Sent(c))
  BY <1>4 DEF Positions, Ordered, ReadyFirst
<1> QED
  BY <1>1, <1>3, <1>5 DEF Streamed

\* The invariant along the behaviours of the hub.
LEMMA StreamsHold == Spec => [](TypeOK /\ SessionInv /\ StreamInv)
<1>1. Init => SessionInv
  BY DEF Init, SessionInv, ChannelOpen
<1> QED
  BY <1>1, TypeInit, TypeNext, SessionNext, StreamInit, StreamNext, PTL DEF Spec

\* A subscriber gets the broadcasts of its topic in the order they were
\* published and none twice: FanoutForwards takes them by increasing cursor and
\* queue, writer and wire keep their order.
THEOREM InOrder == Spec => []StreamInOrder
<1>1. StreamInv => StreamInOrder
  BY DEF StreamInv, Streamed, Ordered, Broadcasts, StreamInOrder
<1> QED
  BY <1>1, StreamsHold, PTL

\* A broadcast that is queued for a peer or was sent leaves no hole before it but
\* what recv reported to the fanout as Lagged, also when the writer ends with
\* frames in the queue.
THEOREM NoGap == Spec => []NoSilentGap
<1>1. StreamInv => NoSilentGap
  BY DEF StreamInv, Streamed, Positions, Broadcasts, NoSilentGap, Delivered
<1> QED
  BY <1>1, StreamsHold, PTL

\* Ready precedes every broadcast, although the subscription is older: the
\* fanout is spawned after Ready was offered.
THEOREM ReadyIsFirst == Spec => []ReadyBeforeBroadcasts
<1>1. StreamInv => ReadyBeforeBroadcasts
  BY DEF StreamInv, Streamed, ReadyFirst, Broadcasts, ReadyBeforeBroadcasts
<1> QED
  BY <1>1, StreamsHold, PTL

-----------------------------------------------------------------------------
(* The hub as an implementation of TopicStreams.                           *)

\* The steps that a subscriber notices: connection_loop moves on, a frame is
\* written, the fanout lags; all others publish at most.
LEMMA QuietStep ==
    ASSUME [Next]_vars
    PROVE  \/ UNCHANGED <<main, first, skipped, wire>>
           \/ \E d \in Conns : Main(d) \/ WriterSends(d) \/ FanoutLags(d)
<1> USE DEF history, sessionVars
<1>1. ASSUME NEW d \in Conns, Reader(d)
      PROVE  UNCHANGED <<main, first, skipped, wire>>
  BY <1>1 DEF Reader, Ping, Reject, RateLimited, PeerCloses, IdleTimeout,
              Publish, Direct
<1>2. ASSUME NEW d \in Conns, Writer(d), ~WriterSends(d)
      PROVE  UNCHANGED <<main, first, skipped, wire>>
  BY <1>2 DEF Writer, WriterTakes, WriterFails
<1>3. ASSUME NEW d \in Conns, Fanout(d), ~FanoutLags(d)
      PROVE  UNCHANGED <<main, first, skipped, wire>>
  BY <1>3 DEF Fanout, FanoutForwards, FanoutOverflows
<1>4. ASSUME NEW d \in Conns, NEW task \in Tasks, Cancel(d, task)
      PROVE  UNCHANGED <<main, first, skipped, wire>>
  BY <1>4 DEF Cancel
<1>5. ASSUME NEW d \in Conns, PeerFallsSilent(d)
      PROVE  UNCHANGED <<main, first, skipped, wire>>
  BY <1>5 DEF PeerFallsSilent
<1>6. ASSUME NEW t \in Tenants, NEW topic \in Topics, ApiPublish(t, topic)
      PROVE  UNCHANGED <<main, first, skipped, wire>>
  BY <1>6 DEF ApiPublish
<1>7. ASSUME NEW t \in Tenants, NEW to \in Clients, ApiDirect(t, to)
      PROVE  UNCHANGED <<main, first, skipped, wire>>
  BY <1>7 DEF ApiDirect
<1>8. CASE UNCHANGED vars
  BY <1>8 DEF vars
<1> QED
  BY <1>1, <1>2, <1>3, <1>4, <1>5, <1>6, <1>7, <1>8 DEF Next, Finished

\* The writer has at most one frame in its hands.
OneHeld == \A c \in Conns : Len(holding[c]) <= 1

\* Every step keeps OneHeld: the writer takes a frame only with empty hands.
LEMMA HeldNext == TypeOK /\ OneHeld /\ [Next]_vars => OneHeld'
<1> SUFFICES ASSUME TypeOK, OneHeld, [Next]_vars PROVE OneHeld'
  OBVIOUS
<1> USE DEF history, sessionVars
<1>0. holding \in [Conns -> Seq(Frames)]
  BY DEF TypeOK
<1>1. CASE holding' = holding
  BY <1>1 DEF OneHeld
<1>2. ASSUME NEW d \in Conns, NEW h \in Seq(Frames), Len(h) <= 1,
             holding' = [holding EXCEPT ![d] = h]
      PROVE  OneHeld'
  BY <1>0, <1>2 DEF OneHeld
<1>a. ASSUME NEW d \in Conns, holding' = [holding EXCEPT ![d] = <<>>]
      PROVE  OneHeld'
  <2>1. <<>> \in Seq(Frames) /\ Len(<<>>) <= 1
    OBVIOUS
  <2> QED BY <1>2, <1>a, <2>1
<1>3. ASSUME NEW d \in Conns, Main(d) \/ Fanout(d) \/ PeerFallsSilent(d)
      PROVE  holding' = holding
  BY <1>3 DEF Main, Subscribe, Register, Start, Select, UnregisterCheck,
              UnregisterRemove, Fanout, FanoutForwards, FanoutOverflows,
              FanoutLags, PeerFallsSilent
<1>4. ASSUME NEW d \in Conns, Reader(d)
      PROVE  holding' = holding
  BY <1>4 DEF Reader, Ping, Reject, RateLimited, PeerCloses, IdleTimeout,
              Publish, Direct
<1>5. ASSUME NEW d \in Conns, Writer(d)
      PROVE  OneHeld'
  <2>1. CASE WriterTakes(d)
    <3>1. Head(queue[d]) \in Frames
      BY <2>1 DEF WriterTakes, TypeOK
    <3>2. <<Head(queue[d])>> \in Seq(Frames) /\ Len(<<Head(queue[d])>>) <= 1
      BY <3>1
    <3> QED BY <1>2, <2>1, <3>2 DEF WriterTakes
  <2>2. CASE WriterSends(d) \/ WriterFails(d)
    <3>1. holding' = [holding EXCEPT ![d] = <<>>]
      BY <2>2 DEF WriterSends, WriterFails, WriterGone
    <3> QED BY <1>a, <3>1
  <2> QED BY <1>5, <2>1, <2>2 DEF Writer
<1>6. ASSUME NEW d \in Conns, NEW task \in Tasks, Cancel(d, task)
      PROVE  OneHeld'
  <2>1. holding' = holding \/ holding' = [holding EXCEPT ![d] = <<>>]
    BY <1>6 DEF Cancel, WriterGone
  <2> QED BY <1>1, <1>a, <2>1
<1>7. ASSUME NEW t \in Tenants, NEW topic \in Topics, ApiPublish(t, topic)
      PROVE  holding' = holding
  BY <1>7 DEF ApiPublish
<1>8. ASSUME NEW t \in Tenants, NEW to \in Clients, ApiDirect(t, to)
      PROVE  holding' = holding
  BY <1>8 DEF ApiDirect
<1>9. CASE UNCHANGED vars
  BY <1>1, <1>9 DEF vars
<1> QED
  BY <1>1, <1>3, <1>4, <1>5, <1>6, <1>7, <1>8, <1>9 DEF Next, Finished

\* What the writing of one frame adds to the stream.
LEMMA OneFrame ==
    ASSUME NEW S \in Seq(Frames), NEW m \in Frames, Ordered(S \o <<m>>)
    PROVE  /\ m.kind # "message" => Positions(S \o <<m>>) = Positions(S)
           /\ m.kind = "message" =>
                /\ Positions(S \o <<m>>) = Positions(S) \union {m.pos}
                /\ \A p \in Positions(S) : p < m.pos
<1> DEFINE T == S \o <<m>>
           n == Len(S) + 1
<1>0. T = Append(S, m)
  BY AppendIsConcat
<1>1. /\ Len(T) = n
      /\ Len(S) \in Nat
      /\ \A i \in 1..Len(S) : T[i] = S[i]
      /\ T[n] = m
  BY <1>0, AppendProperties, LenProperties
<1>2. Ordered(T)
  OBVIOUS
<1> HIDE DEF T
<1>3. CASE m.kind # "message"
  <2>1. Broadcasts(T) = Broadcasts(S)
    BY <1>1, <1>3 DEF Broadcasts
  <2>2. \A i \in Broadcasts(S) : T[i] = S[i]
    BY <1>1 DEF Broadcasts
  <2>3. Positions(T) = Positions(S)
    BY <2>1, <2>2 DEF Positions
  <2> QED BY <1>3, <2>3 DEF T
<1>4. CASE m.kind = "message"
  <2>1. Broadcasts(T) = Broadcasts(S) \union {n}
    BY <1>1, <1>4 DEF Broadcasts
  <2>2. \A i \in Broadcasts(S) : T[i] = S[i] /\ i < n
    BY <1>1 DEF Broadcasts
  <2>3. Positions(T) = Positions(S) \union {m.pos}
    BY <1>1, <2>1, <2>2 DEF Positions
  <2>4. \A p \in Positions(S) : p < m.pos
    BY <1>1, <1>2, <2>1, <2>2 DEF Positions, Ordered
  <2> QED BY <1>4, <2>3, <2>4 DEF T
<1> QED
  BY <1>3, <1>4

\* What a subscriber of the abstract specification has got is what the socket
\* took, and its variables change only with those of the hub they are made of.
LEMMA StreamsUnchanged ==
    ASSUME UNCHANGED <<log, first, skipped, wire>>,
           \A c \in Conns : Phase(c)' = Phase(c)
    PROVE  UNCHANGED TopicStream!streamVars
BY DEF TopicStream!streamVars, Messages

\* A publication, or none, is all a subscriber sees of a step of this kind.
LEMMA PublishStep ==
    ASSUME TypeOK, [Next]_vars, UNCHANGED <<main, first, skipped, wire>>
    PROVE  TopicStream!Next \/ UNCHANGED TopicStream!streamVars
<1>0. \A c \in Conns : Phase(c)' = Phase(c)
  BY DEF Phase
<1>1. CASE log' = log
  BY <1>0, <1>1, StreamsUnchanged
<1>2. ASSUME NEW t \in Tenants, NEW topic \in Topics,
             log' = Published(t, TenantTopic(t, topic)), log' # log
      PROVE  TopicStream!Next
  <2> DEFINE k == TenantTopic(t, topic)
  <2>1. k \in Keys
    BY DEF Keys
  <2>2. log' = [log EXCEPT ![k] = Append(@, t)]
    BY <1>2 DEF Published
  <2> HIDE DEF k
  <2>3. log \in [Keys -> Seq(Tenants)] /\ Len(Append(log[k], t)) = Len(log[k]) + 1
    BY <2>1 DEF TypeOK
  <2>4. [j \in Keys |-> Len(log[j])]' = [[j \in Keys |-> Len(log[j])] EXCEPT ![k] = @ + 1]
    BY <2>1, <2>2, <2>3
  <2>5. [c \in Conns |-> Phase(c)]' = [c \in Conns |-> Phase(c)]
    BY <1>0
  <2>6. [c \in Conns |-> {wire[c][i].pos : i \in Messages(c)}]'
          = [c \in Conns |-> {wire[c][i].pos : i \in Messages(c)}]
    BY DEF Messages
  <2>7. TopicStream!Publish(k)
    BY <2>4, <2>5, <2>6 DEF TopicStream!Publish
  <2> QED BY <2>1, <2>7 DEF TopicStream!Next
<1> QED
  BY <1>1, <1>2, LogStep

\* connection_loop opens the stream with the subscription and closes it when the
\* client is unregistered.
LEMMA MainStep ==
    ASSUME TypeOK, NEW d \in Conns, Main(d)
    PROVE  TopicStream!Next \/ UNCHANGED TopicStream!streamVars
<1> USE DEF history
<1>0. /\ main \in [Conns -> Phases] /\ first \in [Conns -> Nat \ {0}] /\ KeyOf(d) \in Keys
  BY IdentityType DEF TypeOK
<1>1. UNCHANGED <<log, skipped, wire>>
  BY DEF Main, Subscribe, Register, Start, Select, UnregisterCheck, UnregisterRemove
<1>2. /\ [j \in Keys |-> Len(log[j])]' = [j \in Keys |-> Len(log[j])]
      /\ [c \in Conns |-> {wire[c][i].pos : i \in Messages(c)}]'
          = [c \in Conns |-> {wire[c][i].pos : i \in Messages(c)}]
  BY <1>1 DEF Messages
<1>3. \A c \in Conns : c # d => Phase(c)' = Phase(c)
  BY <1>0 DEF Main, Subscribe, Register, Start, Select, UnregisterCheck, UnregisterRemove, Phase
<1>4. CASE Subscribe(d)
  <2>1. Phase(d) = "new" /\ Phase(d)' = "open"
    BY <1>0, <1>4 DEF Subscribe, Phase
  <2>2. [c \in Conns |-> Phase(c)]' = [[c \in Conns |-> Phase(c)] EXCEPT ![d] = "open"]
    BY <1>3, <2>1
  <2>3. first' = [first EXCEPT ![d] = Len(log[KeyOf(d)]) + 1]
    BY <1>4 DEF Subscribe
  <2>4. TopicStream!Open(d)
    BY <1>0, <1>1, <1>2, <2>1, <2>2, <2>3 DEF TopicStream!Open
  <2> QED BY <2>4 DEF TopicStream!Next
<1>5. CASE ~Subscribe(d)
  <2>1. first' = first /\ Phase(d) = "open" /\ Phase(d)' \in {"open", "closed"}
    BY <1>0, <1>5 DEF Main, Register, Start, Select, UnregisterCheck, UnregisterRemove, Phase
  <2>2. CASE Phase(d)' = "open"
    BY <1>1, <1>3, <2>1, <2>2, StreamsUnchanged
  <2>3. CASE Phase(d)' = "closed"
    <3>1. [c \in Conns |-> Phase(c)]' = [[c \in Conns |-> Phase(c)] EXCEPT ![d] = "closed"]
      BY <1>3, <2>3
    <3>2. TopicStream!Close(d)
      BY <1>1, <1>2, <2>1, <3>1 DEF TopicStream!Close
    <3> QED BY <3>2 DEF TopicStream!Next
  <2> QED BY <2>1, <2>2, <2>3
<1> QED
  BY <1>4, <1>5

\* A broadcast on the wire is the next one there is for its subscriber.
LEMMA WriteStep ==
    ASSUME TypeOK, SessionInv, StreamInv, OneHeld, NEW d \in Conns, WriterSends(d)
    PROVE  TopicStream!Next \/ UNCHANGED TopicStream!streamVars
<1> USE DEF history
<1>0. /\ wire \in [Conns -> Seq(Frames)] /\ wire[d] \in Seq(Frames)
      /\ holding[d] \in Seq(Frames) /\ queue[d] \in Seq(Frames) /\ KeyOf(d) \in Keys
      /\ cursor[d] \in Nat /\ first[d] \in Nat /\ Len(log[KeyOf(d)]) \in Nat
  BY SentType, IdentityType DEF TypeOK
<1>1. PICK m \in Frames : holding[d] = <<m>>
  <2>1. holding[d] # <<>> /\ Len(holding[d]) <= 1
    BY DEF WriterSends, OneHeld
  <2>2. Len(holding[d]) = 1 /\ holding[d][1] \in Frames
    <3>1. Len(holding[d]) \in Nat \ {0}
      BY <1>0, <2>1, EmptySeq
    <3>2. Len(holding[d]) = 1
      <4> DEFINE n == Len(holding[d])
      <4>1. n \in Nat \ {0} /\ n <= 1
        BY <2>1, <3>1
      <4> HIDE DEF n
      <4>2. n = 1
        BY <4>1
      <4> QED BY <4>2 DEF n
    <3> QED BY <1>0, <3>2, ElementOfSeq
  <2>3. <<holding[d][1]>> = holding[d]
    BY <1>0, <2>2
  <2> QED BY <2>2, <2>3
<1>2. /\ UNCHANGED <<main, log, first, skipped>>
      /\ wire' = [wire EXCEPT ![d] = wire[d] \o <<m>>]
      /\ "writer" \in live[d]
  BY <1>1 DEF WriterSends
<1> DEFINE S == wire[d]
           T == S \o <<m>>
<1>3. T \in Seq(Frames) /\ wire'[d] = T
  BY <1>0, <1>1, <1>2, ConcatProperties
<1>4. \A c \in Conns : Phase(c)' = Phase(c)
  BY <1>2 DEF Phase
<1>5. Phase(d) = "open"
  BY <1>2 DEF SessionInv, Phase
<1>6. Sent(d) = T \o queue[d] /\ Streamed(d)
  BY <1>1 DEF Sent, StreamInv
<1>7. /\ Ordered(T) /\ Positions(T) \subseteq Positions(Sent(d))
      /\ \A p \in Positions(T) : \A r \in Positions(Sent(d)) : r < p => r \in Positions(T)
  <2>1. Ordered(T \o queue[d])
    BY <1>6 DEF Streamed
  <2> HIDE DEF T
  <2> QED BY <1>0, <1>3, <1>6, <2>1, CutStream
<1>8. /\ m.kind # "message" => Positions(T) = Positions(S)
      /\ m.kind = "message" => /\ Positions(T) = Positions(S) \union {m.pos}
                               /\ \A p \in Positions(S) : p < m.pos
  BY <1>0, <1>7, OneFrame
<1> DEFINE got == [c \in Conns |-> {wire[c][i].pos : i \in Messages(c)}]
<1>9. \A c \in Conns : got[c] = Positions(wire[c]) /\ got'[c] = Positions(wire'[c])
  BY DEF Messages, Positions, Broadcasts
<1>10. \A c \in Conns : c # d => got'[c] = got[c]
  BY <1>0, <1>2, <1>9
<1>11. got[d] = Positions(S) /\ got'[d] = Positions(T)
  BY <1>3, <1>9
<1> HIDE DEF got, T, S
<1>12. CASE m.kind # "message"
  <2>1. got' = got
    BY <1>8, <1>10, <1>11, <1>12 DEF got
  <2> QED BY <1>2, <1>4, <2>1 DEF TopicStream!streamVars, got
<1>13. CASE m.kind = "message"
  <2> DEFINE p == m.pos
  <2>1. got' = [got EXCEPT ![d] = @ \union {p}]
    BY <1>8, <1>10, <1>11, <1>13 DEF got
  <2>2. \A q \in got[d] : q < p
    BY <1>8, <1>11, <1>13
  <2>3. p \in Positions(Sent(d)) /\ p \in first[d]..Len(log[KeyOf(d)]) /\ p \in Nat
    <3>1. p \in Positions(Sent(d))
      BY <1>7, <1>8, <1>13
    <3>2. p \in first[d]..(cursor[d] - 1) /\ cursor[d] <= Len(log[KeyOf(d)]) + 1
      BY <1>6, <3>1 DEF Streamed
    <3> QED BY <1>0, <3>1, <3>2
  <2> HIDE DEF p
  <2>4. first[d]..(p - 1) \subseteq got[d] \union skipped[d]
    <3>1. first[d]..(p - 1) \subseteq Positions(Sent(d)) \union skipped[d]
      BY <1>6, <2>3 DEF Streamed
    <3>2. Positions(T) = got[d] \union {p}
      BY <1>8, <1>11, <1>13 DEF p
    <3>3. \A r \in Positions(Sent(d)) : r < p => r \in got[d]
      BY <1>0, <1>7, <2>3, <3>2
    <3> QED BY <1>0, <2>3, <3>1, <3>3
  <2>5. [c \in Conns |-> Phase(c)]' = [c \in Conns |-> Phase(c)]
    BY <1>4
  <2>6. TopicStream!Deliver(d, p)
    BY <1>0, <1>2, <1>5, <2>1, <2>2, <2>3, <2>4, <2>5 DEF TopicStream!Deliver, got
  <2> QED BY <1>0, <2>3, <2>6 DEF TopicStream!Next
<1> QED
  BY <1>12, <1>13

\* A lag leaves out the positions from the cursor up to the oldest retained one,
\* which were neither sent nor left out before.
LEMMA LagStep ==
    ASSUME TypeOK, SessionInv, StreamInv, NEW d \in Conns, FanoutLags(d)
    PROVE  TopicStream!Next
<1> USE DEF history
<1> DEFINE o == Oldest(KeyOf(d))
<1>0. /\ wire[d] \in Seq(Frames) /\ KeyOf(d) \in Keys
      /\ cursor[d] \in Nat /\ first[d] \in Nat /\ Len(log[KeyOf(d)]) \in Nat
      /\ skipped \in [Conns -> SUBSET Nat]
  BY SentType, IdentityType DEF TypeOK
<1>1. o \in Nat /\ o <= Len(log[KeyOf(d)]) + 1
  BY <1>0, CapacityAssumption DEF Oldest
<1> HIDE DEF o
<1>2. /\ cursor[d] < o /\ "fanout" \in live[d]
      /\ skipped' = [skipped EXCEPT ![d] = @ \union cursor[d]..(o - 1)]
      /\ UNCHANGED <<main, log, first, wire>>
  BY DEF FanoutLags, o
<1>3. Phase(d) = "open"
  BY <1>2 DEF SessionInv, Phase
<1>4. /\ first[d] <= cursor[d] /\ skipped[d] \subseteq first[d]..(cursor[d] - 1)
      /\ Positions(Sent(d)) \subseteq first[d]..(cursor[d] - 1)
  BY DEF StreamInv, Streamed
<1>5. Positions(wire[d]) \subseteq Positions(Sent(d))
  BY SentType, CutStream
<1> DEFINE got == [c \in Conns |-> {wire[c][i].pos : i \in Messages(c)}]
<1>6. got[d] = Positions(wire[d]) /\ got' = got
  BY <1>2 DEF Messages, Positions, Broadcasts
<1>7. [c \in Conns |-> Phase(c)]' = [c \in Conns |-> Phase(c)]
  BY <1>2 DEF Phase
<1> HIDE DEF got
<1>8. cursor[d]..(o - 1) \subseteq (first[d]..Len(log[KeyOf(d)])) \ (got[d] \union skipped[d])
  BY <1>0, <1>1, <1>2, <1>4, <1>5, <1>6
<1>9. o - 1 \in first[d]..Len(log[KeyOf(d)]) /\ cursor[d] \in first[d]..(o - 1)
  BY <1>0, <1>1, <1>2, <1>4
<1>10. TopicStream!Miss(d, cursor[d], o - 1)
  BY <1>0, <1>2, <1>3, <1>6, <1>7, <1>8 DEF TopicStream!Miss, got
<1> QED
  BY <1>0, <1>9, <1>10 DEF TopicStream!Next

\* The hub is a set of topic streams: whatever its queues, rings and tasks do, a
\* step of it is a step of TopicStreams or leaves it alone.
THEOREM StreamsImplemented == Spec => ImplementsStreams
<1>1. Init => TopicStream!Init
  <2> SUFFICES ASSUME Init PROVE TopicStream!Init
    OBVIOUS
  <2>1. \A c \in Conns : Messages(c) = {}
    BY DEF Init, Messages
  <2> QED BY <2>1 DEF Init, TopicStream!Init, Phase
<1>2. Init => OneHeld
  BY DEF Init, OneHeld
<1>3. TypeOK /\ SessionInv /\ StreamInv /\ OneHeld /\ [Next]_vars
        => [TopicStream!Next]_TopicStream!streamVars
  BY QuietStep, PublishStep, MainStep, WriteStep, LagStep
<1> QED
  BY <1>1, <1>2, <1>3, HeldNext, StreamsHold, PTL DEF Spec, ImplementsStreams, TopicStream!Spec
=============================================================================
