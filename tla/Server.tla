------------------------------- MODULE Server -------------------------------
(***************************************************************************)
(* The server as a whole: every upgrade request of Admission that is       *)
(* admitted becomes a connection of Hub, as handle_socket calls            *)
(* connection_loop (src/src/server.rs), with what Traffic counts of it.  A *)
(* connection and the request it comes from have one name.                 *)
(***************************************************************************)
EXTENDS Traffic

CONSTANTS
    Ips, IpOf, Authentic, MaxConnections, IpCap, TenantCap, IpRateLimited

\* What Admission assumes of its constants.
ASSUME DoorAssumption ==
    /\ IsFiniteSet(Conns)
    /\ IpOf \in [Conns -> Ips]
    /\ Authentic \subseteq Conns
    /\ {MaxConnections, IpCap, TenantCap} \subseteq Nat
    /\ IpRateLimited \in BOOLEAN

VARIABLES pc, held, ipCount, free, tenantFree, accepted, rejected, active

admissionVars == <<pc, held, ipCount, free, tenantFree, accepted, rejected, active>>
serverVars    == <<trafficVars, admissionVars>>

Door == INSTANCE Admission WITH Requests <- Conns

ServerInit == TrafficInit /\ Door!Init

\* ws_handler, its early returns, an upgrade that fails or completes, and the
\* drop of permits.
AtTheDoor(c) ==
    /\ Door!Handler(c) \/ Door!UpgradeFails(c) \/ Door!Upgraded(c) \/ Door!Drop(c)
    /\ UNCHANGED trafficVars

\* handle_socket calls connection_loop ...
Begins(c) == pc[c] = "session" /\ Uncounted(Subscribe(c)) /\ UNCHANGED admissionVars

\* ... and goes on when it has returned.
\* Mutant ReturnsEarly: it does not wait for the other tasks and unregistering.
ReturnsEarly(c) ==
    /\ main[c] \in {"joining", "removing", "closed"}
    /\ Door!SessionEnds(c)
    /\ UNCHANGED trafficVars
Returns(c) ==
    /\ main[c] = "closed"
    /\ Door!SessionEnds(c)
    /\ UNCHANGED trafficVars

\* Everything else, with which admission has nothing to do.
AtWork == (AtTheApi \/ \E c \in Conns : InSession(c)) /\ UNCHANGED admissionVars

\* Every request was answered and every session is over.
AllDone == Door!Finished /\ UNCHANGED trafficVars

ServerNext ==
    \/ \E c \in Conns : AtTheDoor(c) \/ Begins(c) \/ Returns(c)
    \/ AtWork
    \/ AllDone

ServerSpec == ServerInit /\ [][ServerNext]_serverVars

\* tokio runs every runnable task: handlers run to their end, as do
\* connection_loop and what follows it, the fanout keeps going and an aborted
\* task is dropped.  Nothing is assumed of the peer, of the reader before its
\* timer or of the socket under the writer.
ServerFairness ==
    \A c \in Conns :
        /\ WF_serverVars(AtTheDoor(c) /\ pc[c] # "upgrading")
        /\ WF_serverVars(Begins(c))
        /\ WF_serverVars(Returns(c))
        /\ WF_serverVars(CountedMain(c) /\ UNCHANGED admissionVars)
        /\ WF_serverVars(CountedFanout(c) /\ UNCHANGED admissionVars)
        /\ WF_serverVars(silent[c] /\ Uncounted(IdleTimeout(c)) /\ UNCHANGED admissionVars)
        /\ \A task \in Tasks :
             WF_serverVars(Uncounted(Cancel(c, task)) /\ UNCHANGED admissionVars)

ServerFairSpec == ServerSpec /\ ServerFairness

-----------------------------------------------------------------------------
(* Properties.                                                             *)

\* What is left of a session in the hub: a task, a handle in the registry, a
\* receiver of its topic.
Registered(c) == \E k \in DOMAIN clients : clients[k] = c
Present(c)    == live[c] # {} \/ Registered(c) \/ Subscribed(c)

\* Whatever a session still has in the hub is covered by its permits and
\* counted by the gauge: permits are moved into handle_socket and dropped after
\* connection_loop has joined its tasks and unregistered the client.
PresenceIsPaidFor ==
    /\ \A c \in Conns : Present(c) => held[c] = Door!Permits
    /\ Cardinality({c \in Conns : Present(c)}) <= active

\* A connection whose peer has fallen silent gives back every permit it holds,
\* also when the writer is stuck on its socket (README.md:12, zombies are
\* cleaned up): a vanished peer cannot hold a slot for ever.
SlotsComeBack == \A c \in Conns : silent[c] ~> held[c] = {}
=============================================================================
