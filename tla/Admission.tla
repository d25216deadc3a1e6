----------------------------- MODULE Admission -----------------------------
(***************************************************************************)
(* How a WebSocket upgrade request becomes a session and what it holds on  *)
(* the way: ws_handler and handle_socket of src/src/server.rs.  A request  *)
(* takes up to three permits, of its address, of the server and of its     *)
(* tenant, each with a try_acquire that never waits; whatever it holds is  *)
(* dropped when the handler returns early, when the upgrade fails or when  *)
(* the session is over.  Requests run concurrently and nothing but the     *)
(* counters orders them.                                                   *)
(*                                                                         *)
(* The address limit is taken as IpLimiter shows it to be: a pool of       *)
(* permits per address that may also refuse for its rate.                  *)
(***************************************************************************)
EXTENDS Integers, FiniteSets

CONSTANTS
    Requests,        \* upgrade requests
    Ips,             \* source addresses
    Tenants,         \* tenant ids
    IpOf,            \* [Requests -> Ips]: resolve_client_ip
    TenantOf,        \* [Requests -> Tenants]: of the verified identity
    Authentic,       \* the requests whose token verifies, all if auth is off
    MaxConnections,  \* max_connections
    IpCap,           \* ip_max_concurrent
    TenantCap,       \* tenant_max_connections
    IpRateLimited    \* whether the address limit may refuse for its rate

ASSUME AdmissionAssumption ==
    /\ IsFiniteSet(Requests)
    /\ IpOf \in [Requests -> Ips]
    /\ TenantOf \in [Requests -> Tenants]
    /\ Authentic \subseteq Requests
    /\ {MaxConnections, IpCap, TenantCap} \subseteq Nat
    /\ IpRateLimited \in BOOLEAN

VARIABLES
    pc,        \* [Requests -> Steps]: where the request stands
    held,      \* [Requests -> SUBSET Permits]: the permits it owns
    ipCount,   \* [Ips -> Nat]: live permits of an address
    free,      \* permits left in connection_limit
    tenantFree,\* [Tenants -> Nat]: permits left in the tenant's semaphore
    accepted,  \* ws_accepted_connections_total
    rejected,  \* ws_rejected_connections_total
    active     \* ws_active_connections

metrics == <<accepted, rejected, active>>
vars    == <<pc, held, ipCount, free, tenantFree, metrics>>

Permits == {"ip", "global", "tenant"}
Steps   == {"arrived", "ip_admitted", "admitted", "verified", "upgrading",
            "session", "leaving"}

Init ==
    /\ pc = [r \in Requests |-> "arrived"]
    /\ held = [r \in Requests |-> {}]
    /\ ipCount = [ip \in Ips |-> 0]
    /\ free = MaxConnections
    /\ tenantFree = [t \in Tenants |-> TenantCap]
    /\ accepted = 0
    /\ rejected = 0
    /\ active = 0

Goes(r, step)   == pc' = [pc EXCEPT ![r] = step]
Takes(r, p)     == held' = [held EXCEPT ![r] = @ \union {p}]

\* An early return: counted as rejected, and what is held will be dropped.
Reject(r) ==
    /\ Goes(r, "leaving")
    /\ rejected' = rejected + 1
    /\ UNCHANGED <<held, ipCount, free, tenantFree, accepted, active>>

-----------------------------------------------------------------------------
(* ws_handler.                                                             *)

IpHasRoom(r) == ipCount[IpOf[r]] < IpCap

IpAdmits(r) ==
    /\ pc[r] = "arrived"
    /\ IpHasRoom(r)
    /\ ipCount' = [ipCount EXCEPT ![IpOf[r]] = @ + 1]
    /\ Takes(r, "ip")
    /\ Goes(r, "ip_admitted")
    /\ UNCHANGED <<free, tenantFree, metrics>>

IpRejects(r) ==
    /\ pc[r] = "arrived"
    /\ ~IpHasRoom(r) \/ IpRateLimited
    /\ Reject(r)

ServerAdmits(r) ==
    /\ pc[r] = "ip_admitted"
    /\ free > 0
    /\ free' = free - 1
    /\ Takes(r, "global")
    /\ Goes(r, "admitted")
    /\ UNCHANGED <<ipCount, tenantFree, metrics>>

\* Mutant ServerWaits: acquire instead of try_acquire.
ServerWaits(r) ==
    /\ pc[r] = "ip_admitted"
    /\ free = 0
    /\ UNCHANGED vars
ServerRejects(r) ==
    /\ pc[r] = "ip_admitted"
    /\ free = 0
    /\ Reject(r)

Verifies(r) ==
    /\ pc[r] = "admitted"
    /\ r \in Authentic
    /\ Goes(r, "verified")
    /\ UNCHANGED <<held, ipCount, free, tenantFree, metrics>>

Unauthorized(r) ==
    /\ pc[r] = "admitted"
    /\ r \notin Authentic
    /\ Reject(r)

\* A tenant's semaphore is made by its first request.
\* Mutant TenantSemaphoreFresh: every request makes a new one.
TenantSemaphoreFresh(r) == TenantCap > 0
TenantHasRoom(r)        == tenantFree[TenantOf[r]] > 0

TenantAdmits(r) ==
    /\ pc[r] = "verified"
    /\ TenantHasRoom(r)
    /\ tenantFree' = [tenantFree EXCEPT ![TenantOf[r]] = @ - 1]
    /\ Takes(r, "tenant")
    /\ Goes(r, "upgrading")
    /\ UNCHANGED <<ipCount, free, metrics>>

TenantRejects(r) ==
    /\ pc[r] = "verified"
    /\ ~TenantHasRoom(r)
    /\ Reject(r)

-----------------------------------------------------------------------------
(* on_upgrade and handle_socket.                                           *)

\* The peer is gone before the upgrade completes: the callback is dropped with
\* the permits it captured.
\* Mutant UpgradeFailsLeaking: the permits are forgotten with it.
UpgradeFailsLeaking(r) ==
    /\ pc[r] = "upgrading"
    /\ Goes(r, "leaving")
    /\ held' = [held EXCEPT ![r] = {}]
    /\ UNCHANGED <<ipCount, free, tenantFree, metrics>>
UpgradeFails(r) ==
    /\ pc[r] = "upgrading"
    /\ Goes(r, "leaving")
    /\ UNCHANGED <<held, ipCount, free, tenantFree, metrics>>

Upgraded(r) ==
    /\ pc[r] = "upgrading"
    /\ Goes(r, "session")
    /\ accepted' = accepted + 1
    /\ active' = active + 1
    /\ UNCHANGED <<held, ipCount, free, tenantFree, rejected>>

\* connection_loop returned: the gauge goes down before the permits do.
\* Mutant SessionEndsUncounted: the gauge is forgotten.
SessionEndsUncounted(r) ==
    /\ pc[r] = "session"
    /\ Goes(r, "leaving")
    /\ UNCHANGED <<held, ipCount, free, tenantFree, metrics>>
SessionEnds(r) ==
    /\ pc[r] = "session"
    /\ Goes(r, "leaving")
    /\ active' = active - 1
    /\ UNCHANGED <<held, ipCount, free, tenantFree, accepted, rejected>>

\* Permits are dropped one after the other, in an order that depends on the
\* path; any order is allowed.
\* Mutants DroppedAgain: a permit can be dropped twice; DropsWithHandler: the
\* permits are dropped when the handler returns and not moved to the session.
DroppedAgain(r, p) == p \in held[r] /\ UNCHANGED held
Dropped(r, p)      == p \in held[r] /\ held' = [held EXCEPT ![r] = @ \ {p}]

DropsWithHandler(r) == pc[r] \in {"upgrading", "session", "leaving"}
Drops(r)            == pc[r] = "leaving"

DropIp(r) ==
    /\ Drops(r)
    /\ Dropped(r, "ip")
    /\ ipCount' = [ipCount EXCEPT ![IpOf[r]] = @ - 1]
    /\ UNCHANGED <<pc, free, tenantFree, metrics>>

DropServer(r) ==
    /\ Drops(r)
    /\ Dropped(r, "global")
    /\ free' = free + 1
    /\ UNCHANGED <<pc, ipCount, tenantFree, metrics>>

DropTenant(r) ==
    /\ Drops(r)
    /\ Dropped(r, "tenant")
    /\ tenantFree' = [tenantFree EXCEPT ![TenantOf[r]] = @ + 1]
    /\ UNCHANGED <<pc, ipCount, free, metrics>>

\* Every request has come and gone.
Finished ==
    /\ \A r \in Requests : pc[r] = "leaving" /\ held[r] = {}
    /\ UNCHANGED vars

Handler(r) == \/ IpAdmits(r) \/ IpRejects(r) \/ ServerAdmits(r) \/ ServerRejects(r)
              \/ Verifies(r) \/ Unauthorized(r) \/ TenantAdmits(r) \/ TenantRejects(r)
Socket(r)  == UpgradeFails(r) \/ Upgraded(r) \/ SessionEnds(r)
Drop(r)    == DropIp(r) \/ DropServer(r) \/ DropTenant(r)

Next == (\E r \in Requests : Handler(r) \/ Socket(r) \/ Drop(r)) \/ Finished

Spec == Init /\ [][Next]_vars

\* Handlers and drops run to their end; a session may last.
FairSpec == Spec /\ \A r \in Requests : WF_vars(Handler(r)) /\ WF_vars(Drop(r))

-----------------------------------------------------------------------------
(* Properties.                                                             *)

\* Every variable has its type: no counter goes below zero, and in particular
\* no semaphore or gauge is decremented more often than it was incremented.
TypeOK ==
    /\ pc \in [Requests -> Steps]
    /\ held \in [Requests -> SUBSET Permits]
    /\ ipCount \in [Ips -> Nat]
    /\ free \in Nat
    /\ tenantFree \in [Tenants -> Nat]
    /\ {accepted, rejected, active} \subseteq Nat

Having(p) == {r \in Requests : p \in held[r]}
Sessions  == {r \in Requests : pc[r] = "session"}

\* No permit is lost or made up on any path, early returns and failed upgrades
\* included: each counter and the permits held add up at every moment.
PermitsAccounted ==
    /\ \A ip \in Ips : ipCount[ip] = Cardinality({r \in Having("ip") : IpOf[r] = ip})
    /\ free + Cardinality(Having("global")) = MaxConnections
    /\ \A t \in Tenants :
         tenantFree[t] + Cardinality({r \in Having("tenant") : TenantOf[r] = t}) = TenantCap

\* The sessions that exist, and not only the handlers that admit them, stay
\* within every configured limit.
SessionsWithinCaps ==
    /\ Cardinality(Sessions) <= MaxConnections
    /\ \A r \in Requests :
         /\ Cardinality({s \in Sessions : IpOf[s] = IpOf[r]}) <= IpCap
         /\ Cardinality({s \in Sessions : TenantOf[s] = TenantOf[r]}) <= TenantCap

\* ws_active_connections is the number of sessions, and no rejected or failed
\* upgrade was counted as accepted.
GaugeIsSessions ==
    /\ active = Cardinality(Sessions)
    /\ accepted + rejected <= Cardinality({r \in Requests : pc[r] \in {"session", "leaving"}})

\* Each limit implements a pool of permits: the server's single one, and one
\* for each address and for each tenant.
ServerPool == INSTANCE PermitPools WITH
    Users <- Requests, PoolOf <- [r \in Requests |-> 0],
    Cap <- MaxConnections, holders <- Having("global")
IpPools == INSTANCE PermitPools WITH
    Users <- Requests, PoolOf <- IpOf, Cap <- IpCap, holders <- Having("ip")
TenantPools == INSTANCE PermitPools WITH
    Users <- Requests, PoolOf <- TenantOf, Cap <- TenantCap, holders <- Having("tenant")
ImplementsPools == ServerPool!Spec /\ IpPools!Spec /\ TenantPools!Spec

\* No request waits for a permit: one that holds something on its way through
\* the handler is admitted or gives everything back, also while every session
\* lasts (a rejected tenant does not hold the global slot).
EveryRequestAnswered ==
    \A r \in Requests : held[r] # {} ~> pc[r] \in {"upgrading", "session"} \/ held[r] = {}
=============================================================================
