-------------------------- MODULE AdmissionProofs --------------------------
(***************************************************************************)
(* Proofs about Admission, for every finite set of requests, every         *)
(* address and tenant they come with and limits of every size.             *)
(***************************************************************************)
EXTENDS Admission, FiniteSetTheorems, TLAPS

\* Sets of requests are finite, and grow and shrink by one.
LEMMA RequestSets ==
    ASSUME NEW S \in SUBSET Requests
    PROVE  /\ IsFiniteSet(S)
           /\ Cardinality(S) \in Nat
           /\ \A r \in Requests \ S : Cardinality(S \union {r}) = Cardinality(S) + 1
           /\ \A r \in S : Cardinality(S \ {r}) = Cardinality(S) - 1
<1>1. IsFiniteSet(S)
  BY AdmissionAssumption, FS_Subset
<1> QED
  BY <1>1, FS_CardinalityType, FS_AddElement, FS_RemoveElement

\* Of two sets of requests the larger one has no fewer of them.
LEMMA FewerRequests ==
    ASSUME NEW S \in SUBSET Requests, NEW T \in SUBSET S
    PROVE  Cardinality(T) <= Cardinality(S)
BY RequestSets, FS_Subset

\* The members of pool x under F, and those of them that hold permit p.
Members(H, F, x) == {s \in H : F[s] = x}
Drawing(p, F, x) == Members(Having(p), F, x)

\* The steps that move permits: one request takes one it did not have, gives one
\* back, or none moves.
TookPermit(r, p) == p \notin held[r] /\ held' = [held EXCEPT ![r] = @ \union {p}]
GavePermit(r, p) == p \in held[r] /\ held' = [held EXCEPT ![r] = @ \ {p}]

\* Taking a permit adds the request to the holders of that permit alone.
LEMMA Taking ==
    ASSUME NEW r \in Requests, NEW p, TookPermit(r, p), held \in [Requests -> SUBSET Permits]
    PROVE  /\ r \notin Having(p)
           /\ Having(p)' = Having(p) \union {r}
           /\ \A q : q # p => Having(q)' = Having(q)
<1>1. \A s \in Requests : held'[s] = IF s = r THEN held[s] \union {p} ELSE held[s]
  BY DEF TookPermit
<1> QED
  BY <1>1 DEF Having, TookPermit

\* Giving one back removes it from them.
LEMMA Giving ==
    ASSUME NEW r \in Requests, NEW p, GavePermit(r, p), held \in [Requests -> SUBSET Permits]
    PROVE  /\ r \in Having(p)
           /\ Having(p)' = Having(p) \ {r}
           /\ \A q : q # p => Having(q)' = Having(q)
<1>1. \A s \in Requests : held'[s] = IF s = r THEN held[s] \ {p} ELSE held[s]
  BY DEF GavePermit
<1> QED
  BY <1>1 DEF Having, GavePermit

\* One more or one fewer holder of a permit is one more or fewer in its pool.
LEMMA PoolGrows ==
    ASSUME NEW H \in SUBSET Requests, NEW r \in Requests \ H, NEW F, NEW x
    PROVE  Cardinality(Members(H \union {r}, F, x))
             = Cardinality(Members(H, F, x)) + (IF F[r] = x THEN 1 ELSE 0)
<1> DEFINE S == {s \in H : F[s] = x}
           T == {s \in H \union {r} : F[s] = x}
<1>1. S \in SUBSET Requests /\ r \notin S
  OBVIOUS
<1>2. T = IF F[r] = x THEN S \union {r} ELSE S
  OBVIOUS
<1> HIDE DEF S, T
<1>3. Cardinality(T) = Cardinality(S) + (IF F[r] = x THEN 1 ELSE 0)
  BY <1>1, <1>2, RequestSets
<1> QED
  BY <1>3 DEF S, T, Members

\* One fewer holder is one fewer in its own pool only.
LEMMA PoolShrinks ==
    ASSUME NEW H \in SUBSET Requests, NEW r \in H, NEW F, NEW x
    PROVE  Cardinality(Members(H \ {r}, F, x))
             = Cardinality(Members(H, F, x)) - (IF F[r] = x THEN 1 ELSE 0)
<1> DEFINE S == {s \in H : F[s] = x}
           T == {s \in H \ {r} : F[s] = x}
<1>1. S \in SUBSET Requests /\ (F[r] = x => r \in S)
  OBVIOUS
<1>2. T = IF F[r] = x THEN S \ {r} ELSE S
  OBVIOUS
<1> HIDE DEF S, T
<1>3. Cardinality(T) = Cardinality(S) - (IF F[r] = x THEN 1 ELSE 0)
  BY <1>1, <1>2, RequestSets
<1> QED
  BY <1>3 DEF S, T, Members

-----------------------------------------------------------------------------
(* The invariant.                                                          *)

\* What a request owns at each step of ws_handler and handle_socket.
HeldByStep ==
    \A r \in Requests :
        /\ pc[r] = "arrived" => held[r] = {}
        /\ pc[r] = "ip_admitted" => held[r] = {"ip"}
        /\ pc[r] \in {"admitted", "verified"} => held[r] = {"ip", "global"}
        /\ pc[r] \in {"upgrading", "session"} => held[r] = Permits

\* No address is over its limit.
IpWithinCap == \A ip \in Ips : ipCount[ip] <= IpCap

AdmissionInv == TypeOK /\ HeldByStep /\ PermitsAccounted /\ IpWithinCap /\ GaugeIsSessions

\* The requests that the counters of the metrics have counted.
Answered == {r \in Requests : pc[r] \in {"session", "leaving"}}

\* A request that moves from one step to another changes the sets of sessions and
\* of answered requests by itself alone.
LEMMA Going ==
    ASSUME TypeOK, NEW r \in Requests, NEW step \in Steps, Goes(r, step)
    PROVE  /\ pc' \in [Requests -> Steps]
           /\ \A s \in Requests : pc'[s] = IF s = r THEN step ELSE pc[s]
           /\ Sessions' = IF step = "session" THEN Sessions \union {r} ELSE Sessions \ {r}
           /\ Answered' = IF step \in {"session", "leaving"}
                          THEN Answered \union {r} ELSE Answered \ {r}
<1>1. pc' \in [Requests -> Steps] /\ \A s \in Requests : pc'[s] = IF s = r THEN step ELSE pc[s]
  BY DEF TypeOK, Goes
<1> QED
  BY <1>1 DEF Sessions, Answered

\* Sessions, answered requests and holders of a permit are requests.
LEMMA SessionSets ==
    /\ Sessions \in SUBSET Requests
    /\ Answered \in SUBSET Requests
    /\ \A p : Having(p) \in SUBSET Requests
BY DEF Sessions, Answered, Having

\* An early return, from a step before the upgrade.
LEMMA RejectInv ==
    ASSUME AdmissionInv, NEW r \in Requests, Reject(r), pc[r] \notin {"session", "leaving"}
    PROVE  AdmissionInv'
<1>0. TypeOK /\ Goes(r, "leaving")
  BY DEF AdmissionInv, Reject
<1>1. /\ pc' \in [Requests -> Steps]
      /\ \A s \in Requests : pc'[s] = IF s = r THEN "leaving" ELSE pc[s]
      /\ Sessions' = Sessions \ {r}
      /\ Answered' = Answered \union {r}
  BY <1>0, Going DEF Steps
<1>2. Sessions' = Sessions /\ r \in Requests \ Answered
  BY <1>1 DEF Sessions, Answered
<1>3. TypeOK'
  BY <1>0, <1>1 DEF Reject, TypeOK
<1>4. HeldByStep'
  BY <1>1 DEF AdmissionInv, HeldByStep, Reject
<1>5. PermitsAccounted' /\ IpWithinCap'
  BY DEF AdmissionInv, PermitsAccounted, IpWithinCap, Reject, Having
<1>6. GaugeIsSessions'
  <2>1. Cardinality(Answered \union {r}) = Cardinality(Answered) + 1
        /\ Cardinality(Answered) \in Nat
    BY <1>2, SessionSets, RequestSets
  <2>2. accepted \in Nat /\ rejected \in Nat /\ accepted + rejected <= Cardinality(Answered)
        /\ active = Cardinality(Sessions)
    BY <1>0 DEF AdmissionInv, TypeOK, GaugeIsSessions, Answered
  <2>3. accepted' = accepted /\ rejected' = rejected + 1 /\ active' = active
    BY DEF Reject
  <2>4. accepted' + rejected' <= Cardinality(Answered') /\ active' = Cardinality(Sessions')
    <3> DEFINE n == Cardinality(Answered)
    <3>1. n \in Nat /\ Cardinality(Answered') = n + 1 /\ accepted + rejected <= n
      BY <1>1, <2>1, <2>2
    <3> HIDE DEF n
    <3>2. accepted' + rejected' <= n + 1
      BY <2>2, <2>3, <3>1
    <3> QED BY <1>2, <2>2, <2>3, <3>1, <3>2
  <2> QED BY <2>4 DEF GaugeIsSessions, Answered
<1> QED
  BY <1>3, <1>4, <1>5, <1>6 DEF AdmissionInv

-----------------------------------------------------------------------------
(* The accounts, one by one.                                               *)

IpAccount(ip) == ipCount[ip] = Cardinality(Drawing("ip", IpOf, ip))
TenantAccount(t) == tenantFree[t] + Cardinality(Drawing("tenant", TenantOf, t)) = TenantCap
ServerAccount == free + Cardinality(Having("global")) = MaxConnections

\* The accounts together are PermitsAccounted, and the same a step later.
LEMMA Accounts ==
    PermitsAccounted <=> /\ \A ip \in Ips : IpAccount(ip)
                         /\ ServerAccount
                         /\ \A t \in Tenants : TenantAccount(t)
BY DEF PermitsAccounted, IpAccount, ServerAccount, TenantAccount, Drawing, Members

\* PermitsAccounted after a step from the accounts after it.
LEMMA AccountsNext ==
    ASSUME \A ip \in Ips : IpAccount(ip)', ServerAccount', \A t \in Tenants : TenantAccount(t)'
    PROVE  PermitsAccounted'
BY DEF PermitsAccounted, IpAccount, ServerAccount, TenantAccount, Drawing, Members

\* A counter is kept by the permits of its own kind alone.
LEMMA OtherAccounts ==
    /\ Having("ip")' = Having("ip") /\ ipCount' = ipCount
         => \A ip \in Ips : IpAccount(ip) => IpAccount(ip)'
    /\ Having("global")' = Having("global") /\ free' = free
         => (ServerAccount => ServerAccount')
    /\ Having("tenant")' = Having("tenant") /\ tenantFree' = tenantFree
         => \A t \in Tenants : TenantAccount(t) => TenantAccount(t)'
BY DEF IpAccount, ServerAccount, TenantAccount, Drawing

\* An admission by the address's counter, the server's semaphore or the tenant's,
\* and the drop of each permit, move the counter by as much as the holders.
LEMMA IpTaken ==
    ASSUME TypeOK, \A ip \in Ips : IpAccount(ip), NEW r \in Requests, TookPermit(r, "ip"),
           ipCount' = [ipCount EXCEPT ![IpOf[r]] = @ + 1]
    PROVE  \A ip \in Ips : IpAccount(ip)'
<1> SUFFICES ASSUME NEW ip \in Ips PROVE IpAccount(ip)'
  OBVIOUS
<1>1. r \in Requests \ Having("ip") /\ Having("ip")' = Having("ip") \union {r}
  BY Taking DEF TypeOK
<1>2. Cardinality(Drawing("ip", IpOf, ip)')
        = Cardinality(Drawing("ip", IpOf, ip)) + (IF IpOf[r] = ip THEN 1 ELSE 0)
  <2>1. Having("ip") \in SUBSET Requests
    BY SessionSets
  <2>2. Cardinality(Members(Having("ip") \union {r}, IpOf, ip))
          = Cardinality(Members(Having("ip"), IpOf, ip)) + (IF IpOf[r] = ip THEN 1 ELSE 0)
    BY <1>1, <2>1, PoolGrows
  <2> QED BY <1>1, <2>2 DEF Drawing
<1>3. ipCount'[ip] = ipCount[ip] + (IF IpOf[r] = ip THEN 1 ELSE 0) /\ ipCount[ip] \in Nat
  BY AdmissionAssumption DEF TypeOK
<1> QED
  BY <1>2, <1>3 DEF IpAccount

\* Dropping an address's permit.
LEMMA IpGiven ==
    ASSUME TypeOK, \A ip \in Ips : IpAccount(ip), NEW r \in Requests, GavePermit(r, "ip"),
           ipCount' = [ipCount EXCEPT ![IpOf[r]] = @ - 1]
    PROVE  \A ip \in Ips : IpAccount(ip)'
<1> SUFFICES ASSUME NEW ip \in Ips PROVE IpAccount(ip)'
  OBVIOUS
<1>1. r \in Having("ip") /\ Having("ip")' = Having("ip") \ {r}
  BY Giving DEF TypeOK
<1>2. Cardinality(Drawing("ip", IpOf, ip)')
        = Cardinality(Drawing("ip", IpOf, ip)) - (IF IpOf[r] = ip THEN 1 ELSE 0)
  <2>1. Having("ip") \in SUBSET Requests
    BY SessionSets
  <2>2. Cardinality(Members(Having("ip") \ {r}, IpOf, ip))
          = Cardinality(Members(Having("ip"), IpOf, ip)) - (IF IpOf[r] = ip THEN 1 ELSE 0)
    BY <1>1, <2>1, PoolShrinks
  <2> QED BY <1>1, <2>2 DEF Drawing
<1>3. ipCount'[ip] = ipCount[ip] - (IF IpOf[r] = ip THEN 1 ELSE 0) /\ ipCount[ip] \in Nat
  BY AdmissionAssumption DEF TypeOK
<1> QED
  BY <1>2, <1>3 DEF IpAccount

\* Admission by connection_limit.
LEMMA ServerTaken ==
    ASSUME TypeOK, ServerAccount, NEW r \in Requests, TookPermit(r, "global"), free' = free - 1
    PROVE  ServerAccount'
<1> DEFINE n == Cardinality(Having("global"))
<1>1. n \in Nat /\ Cardinality(Having("global")') = n + 1
  BY Taking, SessionSets, RequestSets DEF TypeOK
<1>2. free \in Nat /\ MaxConnections \in Nat /\ free + n = MaxConnections
  BY AdmissionAssumption DEF TypeOK, ServerAccount
<1> HIDE DEF n
<1>3. (free - 1) + (n + 1) = MaxConnections
  BY <1>1, <1>2
<1> QED
  BY <1>1, <1>3 DEF ServerAccount

\* Dropping the server's permit.
LEMMA ServerGiven ==
    ASSUME TypeOK, ServerAccount, NEW r \in Requests, GavePermit(r, "global"), free' = free + 1
    PROVE  ServerAccount'
<1> DEFINE n == Cardinality(Having("global"))
<1>1. n \in Nat /\ Cardinality(Having("global")') = n - 1
  BY Giving, SessionSets, RequestSets DEF TypeOK
<1>2. free \in Nat /\ MaxConnections \in Nat /\ free + n = MaxConnections
  BY AdmissionAssumption DEF TypeOK, ServerAccount
<1> HIDE DEF n
<1>3. (free + 1) + (n - 1) = MaxConnections
  BY <1>1, <1>2
<1> QED
  BY <1>1, <1>3 DEF ServerAccount

\* Admission by the tenant's semaphore.
LEMMA TenantTaken ==
    ASSUME TypeOK, \A t \in Tenants : TenantAccount(t), NEW r \in Requests,
           TookPermit(r, "tenant"),
           tenantFree' = [tenantFree EXCEPT ![TenantOf[r]] = @ - 1]
    PROVE  \A t \in Tenants : TenantAccount(t)'
<1> SUFFICES ASSUME NEW t \in Tenants PROVE TenantAccount(t)'
  OBVIOUS
<1> DEFINE n == Cardinality(Drawing("tenant", TenantOf, t))
           k == IF TenantOf[r] = t THEN 1 ELSE 0
<1>1. r \in Requests \ Having("tenant") /\ Having("tenant")' = Having("tenant") \union {r}
  BY Taking DEF TypeOK
<1>2. Cardinality(Drawing("tenant", TenantOf, t)') = n + k
  <2>1. Having("tenant") \in SUBSET Requests
    BY SessionSets
  <2>2. Cardinality(Members(Having("tenant") \union {r}, TenantOf, t))
          = Cardinality(Members(Having("tenant"), TenantOf, t)) + (IF TenantOf[r] = t THEN 1 ELSE 0)
    BY <1>1, <2>1, PoolGrows
  <2> QED BY <1>1, <2>2 DEF Drawing
<1>3. tenantFree'[t] = tenantFree[t] - k /\ tenantFree[t] \in Nat /\ k \in Nat
  BY AdmissionAssumption DEF TypeOK
<1>4. n \in Nat /\ tenantFree[t] + n = TenantCap
  BY SessionSets, RequestSets DEF Drawing, Members, TenantAccount, Having
<1> HIDE DEF n, k
<1>5. (tenantFree[t] - k) + (n + k) = TenantCap
  BY <1>3, <1>4
<1> QED
  BY <1>2, <1>3, <1>5 DEF TenantAccount

\* Dropping the tenant's permit.
LEMMA TenantGiven ==
    ASSUME TypeOK, \A t \in Tenants : TenantAccount(t), NEW r \in Requests,
           GavePermit(r, "tenant"),
           tenantFree' = [tenantFree EXCEPT ![TenantOf[r]] = @ + 1]
    PROVE  \A t \in Tenants : TenantAccount(t)'
<1> SUFFICES ASSUME NEW t \in Tenants PROVE TenantAccount(t)'
  OBVIOUS
<1> DEFINE n == Cardinality(Drawing("tenant", TenantOf, t))
           k == IF TenantOf[r] = t THEN 1 ELSE 0
<1>1. r \in Having("tenant") /\ Having("tenant")' = Having("tenant") \ {r}
  BY Giving DEF TypeOK
<1>2. Cardinality(Drawing("tenant", TenantOf, t)') = n - k
  <2>1. Having("tenant") \in SUBSET Requests
    BY SessionSets
  <2>2. Cardinality(Members(Having("tenant") \ {r}, TenantOf, t))
          = Cardinality(Members(Having("tenant"), TenantOf, t)) - (IF TenantOf[r] = t THEN 1 ELSE 0)
    BY <1>1, <2>1, PoolShrinks
  <2> QED BY <1>1, <2>2 DEF Drawing
<1>3. tenantFree'[t] = tenantFree[t] + k /\ tenantFree[t] \in Nat /\ k \in Nat
  BY AdmissionAssumption DEF TypeOK
<1>4. n \in Nat /\ tenantFree[t] + n = TenantCap
  BY SessionSets, RequestSets DEF Drawing, Members, TenantAccount, Having
<1> HIDE DEF n, k
<1>5. (tenantFree[t] + k) + (n - k) = TenantCap
  BY <1>3, <1>4
<1> QED
  BY <1>2, <1>3, <1>5 DEF TenantAccount

-----------------------------------------------------------------------------
(* One step of the proof per action.                                       *)

\* A step that moves a request on without a session beginning or ending, and
\* without an answer, leaves the metrics and what they count alone.
LEMMA GaugeKept ==
    ASSUME AdmissionInv, NEW r \in Requests, NEW step \in {"ip_admitted", "admitted", "verified", "upgrading"},
           Goes(r, step), pc[r] \notin {"session", "leaving"}, UNCHANGED metrics
    PROVE  GaugeIsSessions'
<1>1. Sessions' = Sessions \ {r} /\ Answered' = Answered \ {r}
  BY Going DEF AdmissionInv, Steps
<1>2. Sessions' = Sessions /\ Answered' = Answered
  BY <1>1 DEF Sessions, Answered
<1> QED
  BY <1>2 DEF AdmissionInv, GaugeIsSessions, Answered, metrics

\* The address admits: IpAdmits looks at the counter and raises it in one step.
LEMMA IpAdmitsInv ==
    ASSUME AdmissionInv, NEW r \in Requests, IpAdmits(r)
    PROVE  AdmissionInv'
<1>0. TypeOK /\ PermitsAccounted /\ Goes(r, "ip_admitted") /\ IpOf[r] \in Ips
  BY AdmissionAssumption DEF AdmissionInv, IpAdmits
<1>1. /\ pc' \in [Requests -> Steps]
      /\ \A s \in Requests : pc'[s] = IF s = r THEN "ip_admitted" ELSE pc[s]
  BY <1>0, Going DEF Steps
<1>2. held[r] = {} /\ held' = [held EXCEPT ![r] = {"ip"}] /\ TookPermit(r, "ip")
  BY DEF AdmissionInv, HeldByStep, IpAdmits, Takes, TookPermit
<1>3. PermitsAccounted'
  <2>1. UNCHANGED <<free, tenantFree>> /\ ipCount' = [ipCount EXCEPT ![IpOf[r]] = @ + 1]
    BY DEF IpAdmits
  <2>2. Having("global")' = Having("global") /\ Having("tenant")' = Having("tenant")
    BY <1>0, <1>2, Taking DEF TypeOK
  <2>3. /\ \A ip \in Ips : IpAccount(ip)
        /\ ServerAccount
        /\ \A t \in Tenants : TenantAccount(t)
    BY <1>0, Accounts
  <2>4. \A ip \in Ips : IpAccount(ip)'
    BY <1>0, <1>2, <2>1, <2>3, IpTaken
  <2>5. ServerAccount'
    BY <2>1, <2>2, <2>3, OtherAccounts
  <2>6. \A t \in Tenants : TenantAccount(t)'
    BY <2>1, <2>2, <2>3, OtherAccounts
  <2> QED BY <2>4, <2>5, <2>6, AccountsNext
<1>4. TypeOK' /\ IpWithinCap'
  <2>1. /\ \A ip \in Ips : ipCount[ip] \in Nat /\ ipCount[ip] <= IpCap
        /\ ipCount[IpOf[r]] < IpCap /\ IpCap \in Nat
    BY <1>0, AdmissionAssumption DEF AdmissionInv, IpWithinCap, TypeOK, IpAdmits, IpHasRoom
  <2>2. IpWithinCap'
    BY <1>0, <2>1 DEF IpAdmits, IpWithinCap, TypeOK
  <2>3. TypeOK'
    BY <1>0, <1>1, <1>2 DEF IpAdmits, TypeOK, Permits, metrics
  <2> QED BY <2>2, <2>3
<1>5. HeldByStep'
  BY <1>0, <1>1, <1>2 DEF AdmissionInv, HeldByStep, TypeOK
<1>6. GaugeIsSessions'
  BY <1>0, GaugeKept DEF IpAdmits
<1> QED
  BY <1>3, <1>4, <1>5, <1>6 DEF AdmissionInv

\* The server admits: a permit of connection_limit joins the address's.
LEMMA ServerAdmitsInv ==
    ASSUME AdmissionInv, NEW r \in Requests, ServerAdmits(r)
    PROVE  AdmissionInv'
<1>0. TypeOK /\ PermitsAccounted /\ Goes(r, "admitted")
  BY DEF AdmissionInv, ServerAdmits
<1>1. /\ pc' \in [Requests -> Steps]
      /\ \A s \in Requests : pc'[s] = IF s = r THEN "admitted" ELSE pc[s]
  BY <1>0, Going DEF Steps
<1>2. held[r] = {"ip"} /\ held' = [held EXCEPT ![r] = {"ip", "global"}] /\ TookPermit(r, "global")
  <2>1. held[r] = {"ip"} /\ held' = [held EXCEPT ![r] = held[r] \union {"global"}]
    BY DEF AdmissionInv, HeldByStep, ServerAdmits, Takes
  <2>2. held[r] \union {"global"} = {"ip", "global"}
    BY <2>1
  <2> QED BY <2>1, <2>2 DEF TookPermit
<1>3. PermitsAccounted'
  <2>1. UNCHANGED <<ipCount, tenantFree>> /\ free' = free - 1
    BY DEF ServerAdmits
  <2>2. Having("ip")' = Having("ip") /\ Having("tenant")' = Having("tenant")
    BY <1>0, <1>2, Taking DEF TypeOK
  <2>3. /\ \A ip \in Ips : IpAccount(ip)
        /\ ServerAccount
        /\ \A t \in Tenants : TenantAccount(t)
    BY <1>0, Accounts
  <2>4. \A ip \in Ips : IpAccount(ip)'
    BY <2>1, <2>2, <2>3, OtherAccounts
  <2>5. ServerAccount'
    BY <1>0, <1>2, <2>1, <2>3, ServerTaken
  <2>6. \A t \in Tenants : TenantAccount(t)'
    BY <2>1, <2>2, <2>3, OtherAccounts
  <2> QED BY <2>4, <2>5, <2>6, AccountsNext
<1>4. TypeOK' /\ IpWithinCap'
  BY <1>0, <1>1, <1>2 DEF AdmissionInv, ServerAdmits, TypeOK, Permits, metrics, IpWithinCap
<1>5. HeldByStep'
  BY <1>0, <1>1, <1>2 DEF AdmissionInv, HeldByStep, TypeOK
<1>6. GaugeIsSessions'
  BY <1>0, GaugeKept DEF ServerAdmits
<1> QED
  BY <1>3, <1>4, <1>5, <1>6 DEF AdmissionInv

\* The tenant admits: the request now holds all three.
LEMMA TenantAdmitsInv ==
    ASSUME AdmissionInv, NEW r \in Requests, TenantAdmits(r)
    PROVE  AdmissionInv'
<1>0. TypeOK /\ PermitsAccounted /\ Goes(r, "upgrading") /\ TenantOf[r] \in Tenants
  BY AdmissionAssumption DEF AdmissionInv, TenantAdmits
<1>1. /\ pc' \in [Requests -> Steps]
      /\ \A s \in Requests : pc'[s] = IF s = r THEN "upgrading" ELSE pc[s]
  BY <1>0, Going DEF Steps
<1>2. held[r] = {"ip", "global"} /\ held' = [held EXCEPT ![r] = Permits] /\ TookPermit(r, "tenant")
  <2>1. held[r] = {"ip", "global"} /\ held' = [held EXCEPT ![r] = held[r] \union {"tenant"}]
    BY DEF AdmissionInv, HeldByStep, TenantAdmits, Takes
  <2>2. held[r] \union {"tenant"} = Permits
    BY <2>1 DEF Permits
  <2> QED BY <2>1, <2>2 DEF TookPermit
<1>3. PermitsAccounted'
  <2>1. UNCHANGED <<ipCount, free>> /\ tenantFree' = [tenantFree EXCEPT ![TenantOf[r]] = @ - 1]
    BY DEF TenantAdmits
  <2>2. Having("ip")' = Having("ip") /\ Having("global")' = Having("global")
    BY <1>0, <1>2, Taking DEF TypeOK
  <2>3. /\ \A ip \in Ips : IpAccount(ip)
        /\ ServerAccount
        /\ \A t \in Tenants : TenantAccount(t)
    BY <1>0, Accounts
  <2>4. \A ip \in Ips : IpAccount(ip)'
    BY <2>1, <2>2, <2>3, OtherAccounts
  <2>5. ServerAccount'
    BY <2>1, <2>2, <2>3, OtherAccounts
  <2>6. \A t \in Tenants : TenantAccount(t)'
    BY <1>0, <1>2, <2>1, <2>3, TenantTaken
  <2> QED BY <2>4, <2>5, <2>6, AccountsNext
<1>4. TypeOK' /\ IpWithinCap'
  BY <1>0, <1>1, <1>2 DEF AdmissionInv, TenantAdmits, TenantHasRoom, TypeOK, Permits, metrics, IpWithinCap
<1>5. HeldByStep'
  BY <1>0, <1>1, <1>2 DEF AdmissionInv, HeldByStep, TypeOK
<1>6. GaugeIsSessions'
  BY <1>0, GaugeKept DEF TenantAdmits
<1> QED
  BY <1>3, <1>4, <1>5, <1>6 DEF AdmissionInv

\* Verification moves no permit.
LEMMA VerifiesInv ==
    ASSUME AdmissionInv, NEW r \in Requests, Verifies(r)
    PROVE  AdmissionInv'
<1>0. TypeOK /\ Goes(r, "verified")
  BY DEF AdmissionInv, Verifies
<1>1. /\ pc' \in [Requests -> Steps]
      /\ \A s \in Requests : pc'[s] = IF s = r THEN "verified" ELSE pc[s]
  BY <1>0, Going DEF Steps
<1>2. TypeOK' /\ IpWithinCap' /\ HeldByStep'
  BY <1>0, <1>1 DEF AdmissionInv, Verifies, TypeOK, metrics, IpWithinCap, HeldByStep
<1>3. PermitsAccounted'
  BY DEF AdmissionInv, Verifies, PermitsAccounted, Having
<1>4. GaugeIsSessions'
  BY <1>0, GaugeKept DEF Verifies
<1> QED
  BY <1>2, <1>3, <1>4 DEF AdmissionInv

\* A failed upgrade is answered and not counted, and its permits wait to be
\* dropped.
LEMMA UpgradeFailsInv ==
    ASSUME AdmissionInv, NEW r \in Requests, UpgradeFails(r)
    PROVE  AdmissionInv'
<1>0. TypeOK /\ Goes(r, "leaving") /\ pc[r] = "upgrading"
  BY DEF AdmissionInv, UpgradeFails
<1>1. /\ pc' \in [Requests -> Steps]
      /\ \A s \in Requests : pc'[s] = IF s = r THEN "leaving" ELSE pc[s]
      /\ Sessions' = Sessions \ {r}
      /\ Answered' = Answered \union {r}
  BY <1>0, Going DEF Steps
<1>2. Sessions' = Sessions /\ r \in Requests \ Answered
  BY <1>0, <1>1 DEF Sessions, Answered
<1>3. TypeOK' /\ IpWithinCap' /\ HeldByStep'
  BY <1>0, <1>1 DEF AdmissionInv, UpgradeFails, TypeOK, metrics, IpWithinCap, HeldByStep
<1>4. PermitsAccounted'
  BY DEF AdmissionInv, UpgradeFails, PermitsAccounted, Having
<1>5. GaugeIsSessions'
  <2> DEFINE n == Cardinality(Answered)
  <2>1. n \in Nat /\ Cardinality(Answered') = n + 1
    BY <1>1, <1>2, SessionSets, RequestSets
  <2>2. accepted + rejected <= n /\ accepted \in Nat /\ rejected \in Nat
    BY <1>0 DEF AdmissionInv, GaugeIsSessions, Answered, TypeOK
  <2> HIDE DEF n
  <2>3. accepted + rejected <= n + 1
    BY <2>1, <2>2
  <2> QED
    BY <1>2, <2>1, <2>3 DEF AdmissionInv, GaugeIsSessions, Answered, UpgradeFails, metrics
<1> QED
  BY <1>3, <1>4, <1>5 DEF AdmissionInv

\* A session begins: the permits are with it, and it is counted once.
LEMMA UpgradedInv ==
    ASSUME AdmissionInv, NEW r \in Requests, Upgraded(r)
    PROVE  AdmissionInv'
<1>0. TypeOK /\ Goes(r, "session") /\ pc[r] = "upgrading"
  BY DEF AdmissionInv, Upgraded
<1>1. /\ pc' \in [Requests -> Steps]
      /\ \A s \in Requests : pc'[s] = IF s = r THEN "session" ELSE pc[s]
      /\ Sessions' = Sessions \union {r}
      /\ Answered' = Answered \union {r}
  BY <1>0, Going DEF Steps
<1>2. r \in Requests \ Sessions /\ r \in Requests \ Answered
  BY <1>0 DEF Sessions, Answered
<1>3. TypeOK' /\ IpWithinCap' /\ HeldByStep'
  BY <1>0, <1>1 DEF AdmissionInv, Upgraded, TypeOK, IpWithinCap, HeldByStep
<1>4. PermitsAccounted'
  BY DEF AdmissionInv, Upgraded, PermitsAccounted, Having
<1>5. GaugeIsSessions'
  <2> DEFINE n == Cardinality(Answered)
             k == Cardinality(Sessions)
  <2>1. n \in Nat /\ Cardinality(Answered') = n + 1 /\ Cardinality(Sessions') = k + 1
    BY <1>1, <1>2, SessionSets, RequestSets
  <2>2. accepted + rejected <= n /\ accepted \in Nat /\ rejected \in Nat /\ active = k
    BY <1>0 DEF AdmissionInv, GaugeIsSessions, Answered, TypeOK
  <2>3. accepted' = accepted + 1 /\ rejected' = rejected /\ active' = active + 1
    BY DEF Upgraded
  <2> HIDE DEF n, k
  <2>4. accepted' + rejected' <= n + 1
    BY <2>1, <2>2, <2>3
  <2>5. accepted' + rejected' <= Cardinality(Answered') /\ active' = Cardinality(Sessions')
    BY <2>1, <2>2, <2>3, <2>4
  <2> QED
    BY <2>5 DEF GaugeIsSessions, Answered
<1> QED
  BY <1>3, <1>4, <1>5 DEF AdmissionInv

\* A session ends: the gauge goes down, which it can, and nothing else moves.
LEMMA SessionEndsInv ==
    ASSUME AdmissionInv, NEW r \in Requests, SessionEnds(r)
    PROVE  AdmissionInv'
<1>0. TypeOK /\ Goes(r, "leaving") /\ pc[r] = "session"
  BY DEF AdmissionInv, SessionEnds
<1>1. /\ pc' \in [Requests -> Steps]
      /\ \A s \in Requests : pc'[s] = IF s = r THEN "leaving" ELSE pc[s]
      /\ Sessions' = Sessions \ {r}
      /\ Answered' = Answered \union {r}
  BY <1>0, Going DEF Steps
<1>2. r \in Sessions /\ Answered' = Answered
  BY <1>0, <1>1 DEF Sessions, Answered
<1>3. active' = Cardinality(Sessions') /\ active' \in Nat
  <2>1. Sessions' \in SUBSET Requests
    BY <1>1, SessionSets
  <2>2. Cardinality(Sessions') = Cardinality(Sessions) - 1 /\ Cardinality(Sessions') \in Nat
    BY <1>1, <1>2, <2>1, SessionSets, RequestSets
  <2> QED BY <2>2 DEF SessionEnds, AdmissionInv, GaugeIsSessions
<1>4. TypeOK' /\ IpWithinCap' /\ HeldByStep'
  BY <1>0, <1>1, <1>3 DEF AdmissionInv, SessionEnds, TypeOK, IpWithinCap, HeldByStep
<1>5. PermitsAccounted'
  BY DEF AdmissionInv, SessionEnds, PermitsAccounted, Having
<1>6. GaugeIsSessions'
  BY <1>2, <1>3 DEF AdmissionInv, GaugeIsSessions, Answered, SessionEnds
<1> QED
  BY <1>4, <1>5, <1>6 DEF AdmissionInv

\* Dropping a permit leaves the steps, and with them sessions and gauge, alone.
LEMMA DropKept ==
    ASSUME AdmissionInv, NEW r \in Requests, NEW p, Drops(r), Dropped(r, p),
           UNCHANGED <<pc, metrics>>
    PROVE  /\ HeldByStep' /\ GaugeIsSessions'
           /\ held' \in [Requests -> SUBSET Permits]
           /\ GavePermit(r, p)
<1>1. /\ GavePermit(r, p) /\ pc[r] = "leaving"
      /\ \A s \in Requests : s # r => held'[s] = held[s]
      /\ held' \in [Requests -> SUBSET Permits]
  BY DEF AdmissionInv, TypeOK, Drops, Dropped, GavePermit
<1>2. HeldByStep'
  BY <1>1 DEF AdmissionInv, HeldByStep
<1>3. GaugeIsSessions'
  BY DEF AdmissionInv, GaugeIsSessions, Sessions, metrics
<1> QED
  BY <1>1, <1>2, <1>3

\* The address's permit is dropped: its counter is above zero, for the request
\* is one of its holders.
LEMMA DropIpInv ==
    ASSUME AdmissionInv, NEW r \in Requests, DropIp(r)
    PROVE  AdmissionInv'
<1>0. TypeOK /\ PermitsAccounted /\ IpOf[r] \in Ips
  BY AdmissionAssumption DEF AdmissionInv
<1>1. /\ Drops(r) /\ Dropped(r, "ip") /\ UNCHANGED <<pc, free, tenantFree, metrics>>
      /\ ipCount' = [ipCount EXCEPT ![IpOf[r]] = @ - 1]
  BY DEF DropIp
<1>2. /\ HeldByStep' /\ GaugeIsSessions'
      /\ held' \in [Requests -> SUBSET Permits]
      /\ GavePermit(r, "ip")
  BY <1>1, DropKept
<1>3. /\ \A ip \in Ips : IpAccount(ip)
      /\ ServerAccount
      /\ \A t \in Tenants : TenantAccount(t)
  BY <1>0, Accounts
<1>4. Having("global")' = Having("global") /\ Having("tenant")' = Having("tenant")
  BY <1>0, <1>2, Giving DEF TypeOK
<1>5. \A ip \in Ips : IpAccount(ip)'
  BY <1>0, <1>1, <1>2, <1>3, IpGiven
<1>6. PermitsAccounted'
  <2>1. ServerAccount'
    BY <1>1, <1>3, <1>4, OtherAccounts
  <2>2. \A t \in Tenants : TenantAccount(t)'
    BY <1>1, <1>3, <1>4, OtherAccounts
  <2> QED BY <1>5, <2>1, <2>2, AccountsNext
<1>7. TypeOK' /\ IpWithinCap'
  <2>1. \A ip \in Ips : Cardinality(Drawing("ip", IpOf, ip)') \in Nat
    <3> SUFFICES ASSUME NEW ip \in Ips PROVE Cardinality(Drawing("ip", IpOf, ip)') \in Nat
      OBVIOUS
    <3>1. Drawing("ip", IpOf, ip)' \in SUBSET Requests
      BY DEF Drawing, Members, Having
    <3> QED BY <3>1, RequestSets
  <2>2. \A ip \in Ips : ipCount'[ip] \in Nat
    BY <1>5, <2>1 DEF IpAccount
  <2>3. ipCount' \in [Ips -> Nat]
    BY <1>0, <1>1, <2>2 DEF TypeOK
  <2>4. TypeOK'
    BY <1>0, <1>1, <1>2, <2>3 DEF TypeOK, metrics
  <2>5. \A ip \in Ips : ipCount'[ip] <= ipCount[ip] /\ ipCount[ip] \in Nat
    BY <1>0, <1>1 DEF TypeOK
  <2>6. IpWithinCap'
    BY <2>2, <2>5, AdmissionAssumption DEF AdmissionInv, IpWithinCap
  <2> QED BY <2>4, <2>6
<1> QED
  BY <1>2, <1>6, <1>7 DEF AdmissionInv

\* The server's permit is dropped.
LEMMA DropServerInv ==
    ASSUME AdmissionInv, NEW r \in Requests, DropServer(r)
    PROVE  AdmissionInv'
<1>0. TypeOK /\ PermitsAccounted
  BY DEF AdmissionInv
<1>1. /\ Drops(r) /\ Dropped(r, "global") /\ UNCHANGED <<pc, ipCount, tenantFree, metrics>>
      /\ free' = free + 1
  BY DEF DropServer
<1>2. /\ HeldByStep' /\ GaugeIsSessions'
      /\ held' \in [Requests -> SUBSET Permits]
      /\ GavePermit(r, "global")
  BY <1>1, DropKept
<1>3. /\ \A ip \in Ips : IpAccount(ip)
      /\ ServerAccount
      /\ \A t \in Tenants : TenantAccount(t)
  BY <1>0, Accounts
<1>4. Having("ip")' = Having("ip") /\ Having("tenant")' = Having("tenant")
  BY <1>0, <1>2, Giving DEF TypeOK
<1>5. PermitsAccounted'
  <2>1. \A ip \in Ips : IpAccount(ip)'
    BY <1>1, <1>3, <1>4, OtherAccounts
  <2>2. ServerAccount'
    BY <1>0, <1>1, <1>2, <1>3, ServerGiven
  <2>3. \A t \in Tenants : TenantAccount(t)'
    BY <1>1, <1>3, <1>4, OtherAccounts
  <2> QED BY <2>1, <2>2, <2>3, AccountsNext
<1>6. TypeOK' /\ IpWithinCap'
  BY <1>0, <1>1, <1>2 DEF TypeOK, metrics, AdmissionInv, IpWithinCap
<1> QED
  BY <1>2, <1>5, <1>6 DEF AdmissionInv

\* The tenant's permit is dropped.
LEMMA DropTenantInv ==
    ASSUME AdmissionInv, NEW r \in Requests, DropTenant(r)
    PROVE  AdmissionInv'
<1>0. TypeOK /\ PermitsAccounted
  BY DEF AdmissionInv
<1>1. /\ Drops(r) /\ Dropped(r, "tenant") /\ UNCHANGED <<pc, ipCount, free, metrics>>
      /\ tenantFree' = [tenantFree EXCEPT ![TenantOf[r]] = @ + 1]
  BY DEF DropTenant
<1>2. /\ HeldByStep' /\ GaugeIsSessions'
      /\ held' \in [Requests -> SUBSET Permits]
      /\ GavePermit(r, "tenant")
  BY <1>1, DropKept
<1>3. /\ \A ip \in Ips : IpAccount(ip)
      /\ ServerAccount
      /\ \A t \in Tenants : TenantAccount(t)
  BY <1>0, Accounts
<1>4. Having("ip")' = Having("ip") /\ Having("global")' = Having("global")
  BY <1>0, <1>2, Giving DEF TypeOK
<1>5. PermitsAccounted'
  <2>1. \A ip \in Ips : IpAccount(ip)'
    BY <1>1, <1>3, <1>4, OtherAccounts
  <2>2. ServerAccount'
    BY <1>1, <1>3, <1>4, OtherAccounts
  <2>3. \A t \in Tenants : TenantAccount(t)'
    BY <1>0, <1>1, <1>2, <1>3, TenantGiven
  <2> QED BY <2>1, <2>2, <2>3, AccountsNext
<1>6. TypeOK' /\ IpWithinCap'
  BY <1>0, <1>1, <1>2, AdmissionAssumption DEF TypeOK, metrics, AdmissionInv, IpWithinCap
<1> QED
  BY <1>2, <1>5, <1>6 DEF AdmissionInv

\* Nothing is held at the start.
LEMMA AdmissionInit == Init => AdmissionInv
<1> SUFFICES ASSUME Init PROVE AdmissionInv
  OBVIOUS
<1>1. TypeOK /\ HeldByStep /\ IpWithinCap
  BY AdmissionAssumption DEF Init, TypeOK, HeldByStep, IpWithinCap, Steps
<1>2. /\ \A p : Having(p) = {}
      /\ \A p, F, x : Drawing(p, F, x) = {}
      /\ Sessions = {} /\ Answered = {}
  BY DEF Init, Having, Drawing, Members, Sessions, Answered
<1>3. PermitsAccounted
  <2>1. \A ip \in Ips : IpAccount(ip)
    BY <1>2, FS_EmptySet DEF Init, IpAccount
  <2>2. ServerAccount
    <3>1. free = MaxConnections /\ Cardinality(Having("global")) = 0
      BY <1>2, FS_EmptySet DEF Init
    <3> QED BY <3>1, AdmissionAssumption DEF ServerAccount
  <2>3. \A t \in Tenants : TenantAccount(t)
    <3>1. ASSUME NEW t \in Tenants
          PROVE  tenantFree[t] = TenantCap /\ Cardinality(Drawing("tenant", TenantOf, t)) = 0
      BY <1>2, FS_EmptySet DEF Init
    <3> QED BY <3>1, AdmissionAssumption DEF TenantAccount
  <2> QED BY <2>1, <2>2, <2>3, Accounts
<1>4. GaugeIsSessions
  BY <1>2, FS_EmptySet DEF Init, GaugeIsSessions, Answered
<1> QED
  BY <1>1, <1>3, <1>4 DEF AdmissionInv

\* Every step keeps the invariant.
LEMMA AdmissionNext == AdmissionInv /\ [Next]_vars => AdmissionInv'
<1> SUFFICES ASSUME AdmissionInv, [Next]_vars PROVE AdmissionInv'
  OBVIOUS
<1>1. ASSUME NEW r \in Requests, Handler(r) PROVE AdmissionInv'
  <2>1. CASE IpAdmits(r)
    BY <2>1, IpAdmitsInv
  <2>2. CASE ServerAdmits(r)
    BY <2>2, ServerAdmitsInv
  <2>3. CASE Verifies(r)
    BY <2>3, VerifiesInv
  <2>4. CASE TenantAdmits(r)
    BY <2>4, TenantAdmitsInv
  <2>5. CASE IpRejects(r) \/ ServerRejects(r) \/ Unauthorized(r) \/ TenantRejects(r)
    BY <2>5, RejectInv DEF IpRejects, ServerRejects, Unauthorized, TenantRejects
  <2> QED BY <1>1, <2>1, <2>2, <2>3, <2>4, <2>5 DEF Handler
<1>2. ASSUME NEW r \in Requests, Socket(r) PROVE AdmissionInv'
  BY <1>2, UpgradeFailsInv, UpgradedInv, SessionEndsInv DEF Socket
<1>3. ASSUME NEW r \in Requests, Drop(r) PROVE AdmissionInv'
  BY <1>3, DropIpInv, DropServerInv, DropTenantInv DEF Drop
<1>4. CASE UNCHANGED vars
  BY <1>4 DEF vars, metrics, AdmissionInv, TypeOK, HeldByStep, PermitsAccounted, Having,
     IpWithinCap, GaugeIsSessions, Sessions
<1> QED
  BY <1>1, <1>2, <1>3, <1>4 DEF Next, Finished

-----------------------------------------------------------------------------
(* The theorems.                                                           *)

\* The invariant holds of every reachable state.
LEMMA AdmissionInvariant == Spec => []AdmissionInv
BY AdmissionInit, AdmissionNext, PTL DEF Spec

\* Every variable of Admission has its type in every reachable state: no
\* semaphore and no gauge is decremented more often than it was incremented.
THEOREM AdmissionTypes == Spec => []TypeOK
<1>1. AdmissionInv => TypeOK
  BY DEF AdmissionInv
<1> QED BY <1>1, AdmissionInvariant, PTL

\* No path through ws_handler and handle_socket, early returns and failed
\* upgrades included, loses a permit or makes one up.
THEOREM NoPermitLost == Spec => []PermitsAccounted
<1>1. AdmissionInv => PermitsAccounted
  BY DEF AdmissionInv
<1> QED BY <1>1, AdmissionInvariant, PTL

\* The gauge of the metrics is the number of sessions at every moment, and no
\* rejected or failed upgrade was counted as accepted.
THEOREM GaugeIsExact == Spec => []GaugeIsSessions
<1>1. AdmissionInv => GaugeIsSessions
  BY DEF AdmissionInv
<1> QED BY <1>1, AdmissionInvariant, PTL

\* A session holds all three permits, so that there are no more sessions of the
\* server, of an address or of a tenant than its limit.
THEOREM CapsHold == Spec => []SessionsWithinCaps
<1>1. AdmissionInv => SessionsWithinCaps
  <2> SUFFICES ASSUME AdmissionInv PROVE SessionsWithinCaps
    OBVIOUS
  <2>1. Sessions \subseteq Having("ip") /\ Sessions \subseteq Having("global")
        /\ Sessions \subseteq Having("tenant")
    BY DEF AdmissionInv, HeldByStep, Sessions, Having, Permits
  <2>2. Cardinality(Sessions) <= MaxConnections
    <3> DEFINE n == Cardinality(Having("global"))
               k == Cardinality(Sessions)
    <3>1. n \in Nat /\ k \in Nat /\ k <= n
      BY <2>1, SessionSets, RequestSets, FewerRequests
    <3>2. free \in Nat /\ free + n = MaxConnections
      BY DEF AdmissionInv, TypeOK, PermitsAccounted
    <3> HIDE DEF n, k
    <3>3. k <= MaxConnections
      BY <3>1, <3>2
    <3> QED BY <3>3 DEF k
  <2>3. ASSUME NEW r \in Requests
        PROVE  Cardinality({s \in Sessions : IpOf[s] = IpOf[r]}) <= IpCap
    <3> DEFINE S == {s \in Sessions : IpOf[s] = IpOf[r]}
               D == {s \in Having("ip") : IpOf[s] = IpOf[r]}
    <3>1. S \in SUBSET D /\ D \in SUBSET Requests /\ S \in SUBSET Requests
      BY <2>1, SessionSets
    <3>2. Cardinality(D) = ipCount[IpOf[r]] /\ ipCount[IpOf[r]] <= IpCap /\ IpCap \in Nat
      BY AdmissionAssumption DEF AdmissionInv, PermitsAccounted, IpWithinCap
    <3> HIDE DEF S, D
    <3>3. Cardinality(S) <= Cardinality(D) /\ Cardinality(S) \in Nat /\ Cardinality(D) \in Nat
      BY <3>1, RequestSets, FewerRequests
    <3>4. Cardinality(S) <= IpCap
      BY <3>2, <3>3
    <3> QED BY <3>4 DEF S
  <2>4. ASSUME NEW r \in Requests
        PROVE  Cardinality({s \in Sessions : TenantOf[s] = TenantOf[r]}) <= TenantCap
    <3> DEFINE S == {s \in Sessions : TenantOf[s] = TenantOf[r]}
               D == {s \in Having("tenant") : TenantOf[s] = TenantOf[r]}
               f == tenantFree[TenantOf[r]]
    <3>1. S \in SUBSET D /\ D \in SUBSET Requests /\ S \in SUBSET Requests
      BY <2>1, SessionSets
    <3>2. f + Cardinality(D) = TenantCap /\ f \in Nat
      BY AdmissionAssumption DEF AdmissionInv, PermitsAccounted, TypeOK
    <3> HIDE DEF S, D, f
    <3>3. Cardinality(S) <= Cardinality(D) /\ Cardinality(S) \in Nat /\ Cardinality(D) \in Nat
      BY <3>1, RequestSets, FewerRequests
    <3>4. Cardinality(S) <= TenantCap
      BY <3>2, <3>3
    <3> QED BY <3>4 DEF S
  <2> QED BY <2>2, <2>3, <2>4 DEF SessionsWithinCaps
<1> QED BY <1>1, AdmissionInvariant, PTL

-----------------------------------------------------------------------------
(* The limits are pools of permits.                                        *)

\* Of the three kinds of permit a step moves one, of one request, and it takes
\* one only if the counter had room; all other steps move none.
MovesPermits ==
    \/ \E r \in Requests : TookPermit(r, "ip")
         /\ Cardinality(Drawing("ip", IpOf, IpOf[r])) < IpCap
    \/ \E r \in Requests : TookPermit(r, "global")
         /\ Cardinality(Having("global")) < MaxConnections
    \/ \E r \in Requests : TookPermit(r, "tenant")
         /\ Cardinality(Drawing("tenant", TenantOf, TenantOf[r])) < TenantCap
    \/ \E r \in Requests, p \in Permits : GavePermit(r, p)
    \/ UNCHANGED held

\* Every step of Admission is such a move; a permit is taken with room to
\* spare.
LEMMA PermitSteps == AdmissionInv /\ [Next]_vars => MovesPermits
<1> SUFFICES ASSUME AdmissionInv, [Next]_vars PROVE MovesPermits
  OBVIOUS
<1>1. ASSUME NEW r \in Requests, IpAdmits(r) PROVE MovesPermits
  <2>1. TookPermit(r, "ip")
    BY <1>1 DEF AdmissionInv, HeldByStep, IpAdmits, Takes, TookPermit
  <2>2. Cardinality(Drawing("ip", IpOf, IpOf[r])) < IpCap
    BY <1>1, AdmissionAssumption, Accounts DEF AdmissionInv, IpAdmits, IpHasRoom, IpAccount
  <2> QED BY <2>1, <2>2 DEF MovesPermits
<1>2. ASSUME NEW r \in Requests, ServerAdmits(r) PROVE MovesPermits
  <2>1. TookPermit(r, "global")
    BY <1>2 DEF AdmissionInv, HeldByStep, ServerAdmits, Takes, TookPermit
  <2>2. Cardinality(Having("global")) < MaxConnections
    <3> DEFINE n == Cardinality(Having("global"))
    <3>1. n \in Nat /\ free \in Nat /\ free > 0 /\ free + n = MaxConnections
      BY <1>2, SessionSets, RequestSets DEF AdmissionInv, TypeOK, PermitsAccounted, ServerAdmits
    <3> HIDE DEF n
    <3>2. n < MaxConnections
      BY <3>1
    <3> QED BY <3>2 DEF n
  <2> QED BY <2>1, <2>2 DEF MovesPermits
<1>3. ASSUME NEW r \in Requests, TenantAdmits(r) PROVE MovesPermits
  <2>1. TookPermit(r, "tenant")
    BY <1>3 DEF AdmissionInv, HeldByStep, TenantAdmits, Takes, TookPermit
  <2>2. Cardinality(Drawing("tenant", TenantOf, TenantOf[r])) < TenantCap
    <3> DEFINE n == Cardinality(Drawing("tenant", TenantOf, TenantOf[r]))
               f == tenantFree[TenantOf[r]]
    <3>1. TenantAccount(TenantOf[r]) /\ TenantOf[r] \in Tenants
      BY AdmissionAssumption, Accounts DEF AdmissionInv
    <3>2. f \in Nat /\ f > 0 /\ f + n = TenantCap
      BY <1>3, <3>1 DEF AdmissionInv, TypeOK, TenantAccount, TenantAdmits, TenantHasRoom
    <3>3. n \in Nat
      BY SessionSets, RequestSets DEF Drawing, Members, Having
    <3> HIDE DEF n, f
    <3>4. n < TenantCap
      BY <3>2, <3>3
    <3> QED BY <3>4 DEF n
  <2> QED BY <2>1, <2>2 DEF MovesPermits
<1>4. ASSUME NEW r \in Requests, NEW p, Dropped(r, p), p \in Permits PROVE MovesPermits
  BY <1>4 DEF MovesPermits, GavePermit, Dropped
<1>5. CASE UNCHANGED held
  BY <1>5 DEF MovesPermits
<1>6. ASSUME NEW r \in Requests, Handler(r) PROVE MovesPermits
  BY <1>1, <1>2, <1>3, <1>5, <1>6
     DEF Handler, IpRejects, ServerRejects, Unauthorized, TenantRejects, Verifies, Reject
<1>7. ASSUME NEW r \in Requests, Socket(r) \/ Drop(r) PROVE MovesPermits
  BY <1>4, <1>5, <1>7
     DEF Socket, Drop, UpgradeFails, Upgraded, SessionEnds, DropIp, DropServer, DropTenant, Permits
<1> QED
  BY <1>5, <1>6, <1>7 DEF Next, Finished, vars

\* What such a step is to the pool of permit p: a user of the pool takes or
\* returns a permit, or nothing happens.
PoolStep(p, F, cap) ==
    \/ \E r \in Requests :
         /\ r \notin Having(p)
         /\ Cardinality(Drawing(p, F, F[r])) < cap
         /\ Having(p)' = Having(p) \union {r}
    \/ \E r \in Requests : r \in Having(p) /\ Having(p)' = Having(p) \ {r}
    \/ Having(p)' = Having(p)

\* Such a move is a step of each of the three kinds of pool.
LEMMA PoolSteps ==
    ASSUME TypeOK, MovesPermits
    PROVE  /\ PoolStep("ip", IpOf, IpCap)
           /\ PoolStep("global", [r \in Requests |-> 0], MaxConnections)
           /\ PoolStep("tenant", TenantOf, TenantCap)
<1> DEFINE One == [r \in Requests |-> 0]
<1>0. held \in [Requests -> SUBSET Permits]
  BY DEF TypeOK
<1>1. \A r \in Requests : Drawing("global", One, One[r]) = Having("global")
  BY DEF Drawing, Members, Having
<1> HIDE DEF One
<1>2. ASSUME NEW r \in Requests, TookPermit(r, "ip"),
             Cardinality(Drawing("ip", IpOf, IpOf[r])) < IpCap
      PROVE  /\ PoolStep("ip", IpOf, IpCap)
             /\ PoolStep("global", One, MaxConnections)
             /\ PoolStep("tenant", TenantOf, TenantCap)
  BY <1>0, <1>2, Taking DEF PoolStep
<1>3. ASSUME NEW r \in Requests, TookPermit(r, "global"),
             Cardinality(Having("global")) < MaxConnections
      PROVE  /\ PoolStep("ip", IpOf, IpCap)
             /\ PoolStep("global", One, MaxConnections)
             /\ PoolStep("tenant", TenantOf, TenantCap)
  BY <1>0, <1>1, <1>3, Taking DEF PoolStep
<1>4. ASSUME NEW r \in Requests, TookPermit(r, "tenant"),
             Cardinality(Drawing("tenant", TenantOf, TenantOf[r])) < TenantCap
      PROVE  /\ PoolStep("ip", IpOf, IpCap)
             /\ PoolStep("global", One, MaxConnections)
             /\ PoolStep("tenant", TenantOf, TenantCap)
  BY <1>0, <1>4, Taking DEF PoolStep
<1>5. ASSUME NEW r \in Requests, NEW p \in Permits, GavePermit(r, p)
      PROVE  /\ PoolStep("ip", IpOf, IpCap)
             /\ PoolStep("global", One, MaxConnections)
             /\ PoolStep("tenant", TenantOf, TenantCap)
  <2>1. r \in Having(p) /\ Having(p)' = Having(p) \ {r} /\ \A q : q # p => Having(q)' = Having(q)
    BY <1>0, <1>5, Giving
  <2> QED BY <2>1 DEF PoolStep
<1>6. ASSUME UNCHANGED held
      PROVE  /\ PoolStep("ip", IpOf, IpCap)
             /\ PoolStep("global", One, MaxConnections)
             /\ PoolStep("tenant", TenantOf, TenantCap)
  BY <1>6 DEF PoolStep, Having
<1>7. /\ PoolStep("ip", IpOf, IpCap)
      /\ PoolStep("global", One, MaxConnections)
      /\ PoolStep("tenant", TenantOf, TenantCap)
  BY <1>2, <1>3, <1>4, <1>5, <1>6 DEF MovesPermits
<1> QED
  BY <1>7 DEF One

\* The pools count their users as the counters do.
LEMMA SameCount ==
    \A S : /\ ServerPool!Cardinality(S) = Cardinality(S)
           /\ IpPools!Cardinality(S) = Cardinality(S)
           /\ TenantPools!Cardinality(S) = Cardinality(S)
BY DEF Cardinality, ServerPool!Cardinality, IpPools!Cardinality, TenantPools!Cardinality

\* The semaphores and the addresses' counters each implement a pool of permits:
\* a request that a limit admits takes a permit of a pool with room, and every
\* way out of a request gives it back once.
THEOREM LimitsArePools == Spec => ImplementsPools
<1>1. Init => ServerPool!Init /\ IpPools!Init /\ TenantPools!Init
  BY DEF Init, Having, ServerPool!Init, IpPools!Init, TenantPools!Init
<1>2. AdmissionInv /\ [Next]_vars => [ServerPool!Next]_(Having("global"))
  <2> SUFFICES ASSUME AdmissionInv, [Next]_vars
               PROVE  ServerPool!Next \/ Having("global")' = Having("global")
    OBVIOUS
  <2>1. PoolStep("global", [r \in Requests |-> 0], MaxConnections)
    BY PermitSteps, PoolSteps DEF AdmissionInv
  <2>2. ASSUME NEW r \in Requests, r \notin Having("global"),
               Cardinality(Drawing("global", [q \in Requests |-> 0], 0)) < MaxConnections,
               Having("global")' = Having("global") \union {r}
        PROVE  ServerPool!Next
    <3>1. ServerPool!Acquire(r)
      BY <2>2, SameCount DEF Drawing, Members, ServerPool!Acquire, ServerPool!InPool
    <3> QED BY <3>1 DEF ServerPool!Next
  <2>3. ASSUME NEW r \in Requests, r \in Having("global"), Having("global")' = Having("global") \ {r}
        PROVE  ServerPool!Next
    BY <2>3 DEF ServerPool!Next, ServerPool!Release
  <2> QED
    BY <2>1, <2>2, <2>3 DEF PoolStep
<1>3. AdmissionInv /\ [Next]_vars => [IpPools!Next]_(Having("ip"))
  <2> SUFFICES ASSUME AdmissionInv, [Next]_vars
               PROVE  IpPools!Next \/ Having("ip")' = Having("ip")
    OBVIOUS
  <2>1. PoolStep("ip", IpOf, IpCap)
    BY PermitSteps, PoolSteps DEF AdmissionInv
  <2>2. ASSUME NEW r \in Requests, r \notin Having("ip"),
               Cardinality(Drawing("ip", IpOf, IpOf[r])) < IpCap,
               Having("ip")' = Having("ip") \union {r}
        PROVE  IpPools!Next
    <3>1. IpPools!Acquire(r)
      BY <2>2, SameCount DEF Drawing, Members, IpPools!Acquire, IpPools!InPool
    <3> QED BY <3>1 DEF IpPools!Next
  <2>3. ASSUME NEW r \in Requests, r \in Having("ip"), Having("ip")' = Having("ip") \ {r}
        PROVE  IpPools!Next
    BY <2>3 DEF IpPools!Next, IpPools!Release
  <2> QED
    BY <2>1, <2>2, <2>3 DEF PoolStep
<1>4. AdmissionInv /\ [Next]_vars => [TenantPools!Next]_(Having("tenant"))
  <2> SUFFICES ASSUME AdmissionInv, [Next]_vars
               PROVE  TenantPools!Next \/ Having("tenant")' = Having("tenant")
    OBVIOUS
  <2>1. PoolStep("tenant", TenantOf, TenantCap)
    BY PermitSteps, PoolSteps DEF AdmissionInv
  <2>2. ASSUME NEW r \in Requests, r \notin Having("tenant"),
               Cardinality(Drawing("tenant", TenantOf, TenantOf[r])) < TenantCap,
               Having("tenant")' = Having("tenant") \union {r}
        PROVE  TenantPools!Next
    <3>1. TenantPools!Acquire(r)
      BY <2>2, SameCount DEF Drawing, Members, TenantPools!Acquire, TenantPools!InPool
    <3> QED BY <3>1 DEF TenantPools!Next
  <2>3. ASSUME NEW r \in Requests, r \in Having("tenant"), Having("tenant")' = Having("tenant") \ {r}
        PROVE  TenantPools!Next
    BY <2>3 DEF TenantPools!Next, TenantPools!Release
  <2> QED
    BY <2>1, <2>2, <2>3 DEF PoolStep
<1> QED
  BY <1>1, <1>2, <1>3, <1>4, AdmissionInvariant, PTL
     DEF Spec, ImplementsPools, ServerPool!Spec, IpPools!Spec, TenantPools!Spec
=============================================================================
