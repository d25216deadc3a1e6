-------------------------- MODULE AddressingProofs --------------------------
(***************************************************************************)
(* Theorems about Addressing: broadcasts reach the sessions of their own   *)
(* tenant and topic, for every set of characters, names, tokens, queries   *)
(* and settings.                                                           *)
(***************************************************************************)
EXTENDS Addressing, TopicKeysProofs, FiniteSetTheorems, NaturalsInduction,
        WellFoundedInduction

-----------------------------------------------------------------------------
(* Types of the operators.                                                 *)

\* Stripping a string of characters leaves a string.
LEMMA StripType ==
    ASSUME NEW s \in Strings, NEW S
    PROVE  StripStart(s, S) \in Strings /\ StripEnd(s, S) \in Strings
<1> DEFINE leading == {i \in 1..Len(s) : \A j \in 1..i : s[j] \in S}
           trailing == {i \in 1..Len(s) : \A j \in i..Len(s) : s[j] \in S}
<1>1. Len(s) \in Nat /\ s \in Seq(Chars)
  BY DEF Strings
<1>2. IsFiniteSet(1..Len(s))
  BY <1>1, FS_Interval
<1>3. Cardinality(leading) \in Nat
  <2>1. leading \subseteq 1..Len(s)
    OBVIOUS
  <2>2. QED
    BY <1>2, <2>1, FS_Subset, FS_CardinalityType
<1>4. Cardinality(trailing) \in Nat
  <2>1. trailing \subseteq 1..Len(s)
    OBVIOUS
  <2>2. QED
    BY <1>2, <2>1, FS_Subset, FS_CardinalityType
<1>5. \A n \in Nat : SubSeq(s, n + 1, Len(s)) \in Seq(Chars)
  BY <1>1
<1>6. \A n \in Nat : SubSeq(s, 1, Len(s) - n) \in Seq(Chars)
  BY <1>1
<1> HIDE DEF leading, trailing
<1>7. SubSeq(s, Cardinality(leading) + 1, Len(s)) \in Seq(Chars)
  BY <1>3, <1>5
<1>8. SubSeq(s, 1, Len(s) - Cardinality(trailing)) \in Seq(Chars)
  BY <1>4, <1>6
<1>9. QED
  BY <1>7, <1>8 DEF StripStart, StripEnd, Strings, leading, trailing

\* normalize_topic turns a string into a string.
LEMMA NormalizeType ==
    ASSUME NEW topic \in Strings
    PROVE  NormalizeTopic(topic) \in Strings
<1> DEFINE name == StripStart(Trim(topic), {Slash})
<1>1. name \in Strings
  BY StripType DEF Trim
<1>2. Public \in Strings
  BY NameAssumption DEF Strings
<1>3. MaxLen \in Nat
  BY NameAssumption
<1> HIDE DEF name
<1>4. Take(name) \in Strings
  BY <1>1, <1>3 DEF Take, Strings
<1>5. QED
  BY <1>2, <1>4 DEF NormalizeTopic, name

\* Whoever is accepted, at either door, has a string for a tenant.
LEMMA VerifiedTenant ==
    ASSUME NEW token \in Tokens, NEW expired, Accepted(Verify(Auth, token, expired))
    PROVE  Verify(Auth, token, expired).tenant \in Strings
<1>1. DefaultTenant \in Strings /\ token.tenant \in Strings \union {Nothing}
  BY AddressingAssumption
<1>2. \A why : ~Accepted(Refused(why))
  BY DEF Accepted, Refused
<1>3. QED
  BY <1>1, <1>2 DEF Verify

\* Whoever is accepted at the socket door has a string for a tenant.
LEMMA WsTenant ==
    ASSUME NEW token \in Tokens \union {Nothing}, NEW expired, NEW query \in Queries,
           Accepted(WsIdentity(Auth, token, expired, query))
    PROVE  WsIdentity(Auth, token, expired, query).tenant \in Strings
<1>1. DefaultTenant \in Strings /\ query.tenant \in Strings \union {Nothing}
  BY AddressingAssumption
<1>2. \A why : ~Accepted(Refused(why))
  BY DEF Accepted, Refused
<1>3. QED
  BY <1>1, <1>2, VerifiedTenant DEF WsIdentity, OrElse

\* So has whoever is accepted at the API.
LEMMA ApiTenant ==
    ASSUME NEW token \in Tokens \union {Nothing}, NEW expired,
           Accepted(ApiIdentity(Auth, token, expired))
    PROVE  ApiIdentity(Auth, token, expired).tenant \in Strings
<1>1. DefaultTenant \in Strings
  BY AddressingAssumption
<1>2. \A why : ~Accepted(Refused(why))
  BY DEF Accepted, Refused
<1>3. QED
  BY <1>1, <1>2, VerifiedTenant DEF ApiIdentity

-----------------------------------------------------------------------------
(* The invariant: a session is filed under the key of its tenant and of    *)
(* the topic it asked for, and the latest publication reached whom that    *)
(* key has.                                                                *)

KeyFor(tenant, asked) == TenantTopic(tenant, NormalizeTopic(asked))

SessionFiled(s) ==
    /\ s.who.tenant \in Strings
    /\ s.asked \in Strings
    /\ s.key = KeyFor(s.who.tenant, s.asked)
    /\ s.ready = ExtractTopic(s.key)

LastFiled ==
    /\ last.tenant \in Strings
    /\ last.asked \in Strings
    /\ last.receivers =
         {q \in Online : session[q].key = KeyFor(last.tenant, last.asked)}
    /\ last.door = "ws" =>
         last.topic = ExtractTopic(KeyFor(last.tenant, last.asked))

Filed ==
    /\ session = [p \in Peers |-> session[p]]
    /\ \A p \in Peers : session[p] # Nothing => SessionFiled(session[p])
    /\ last # Nothing => LastFiled

\* The invariant holds at the start: there is no session and no publication.
LEMMA InitFiled == Init => Filed
BY DEF Init, Filed

\* A new session is filed under the key that its handshake computes.
LEMMA ConnectFiled ==
    ASSUME Filed, NEW p \in Peers, NEW token \in Tokens \union {Nothing},
           NEW expired \in BOOLEAN, NEW query \in Queries, NEW asked \in Names,
           Connect(p, token, expired, query, asked)
    PROVE  Filed'
<1> DEFINE who == WsIdentity(Auth, token, expired, query)
           key == TenantTopic(who.tenant, NormalizeTopic(asked))
           new == [who |-> who, token |-> IF Auth = Nothing THEN Nothing ELSE token,
                   asked |-> asked, key |-> key, ready |-> ExtractTopic(key)]
<1>1. Accepted(who) /\ session' = [session EXCEPT ![p] = new] /\ last' = Nothing
  BY DEF Connect
<1>2. who.tenant \in Strings
  BY <1>1, WsTenant
<1>3. asked \in Strings
  BY AddressingAssumption
<1>4. SessionFiled(new)
  BY <1>2, <1>3 DEF SessionFiled, KeyFor
<1> HIDE DEF new
<1>5. QED
  BY <1>1, <1>4 DEF Filed

\* A session that leaves takes the latest publication out of account.
LEMMA DisconnectFiled ==
    ASSUME Filed, NEW p \in Peers, Disconnect(p)
    PROVE  Filed'
BY DEF Filed, Disconnect

\* A publication under the key of a tenant and a topic reaches whom that key has.
LEMMA PublishedFiled ==
    ASSUME Filed, NEW door, NEW who, NEW asked \in Strings, NEW topic,
           who.tenant \in Strings,
           door = "ws" => topic = ExtractTopic(KeyFor(who.tenant, asked)),
           Published(door, who, asked, KeyFor(who.tenant, asked), topic)
    PROVE  Filed'
<1>1. last' = [door |-> door, tenant |-> who.tenant, asked |-> asked, topic |-> topic,
               receivers |-> {q \in Online : session[q].key = KeyFor(who.tenant, asked)}]
  BY DEF Published
<1>2. session' = session /\ Online' = Online
  BY DEF Published, Online
<1>3. LastFiled'
  BY <1>1, <1>2 DEF LastFiled
<1>4. QED
  BY <1>2, <1>3 DEF Filed, SessionFiled

\* A session publishes under the key of the topic it names, or of its own.
LEMMA WsPublishFiled ==
    ASSUME Filed, NEW p \in Peers, NEW asked \in Names \union {Nothing},
           WsPublish(p, asked)
    PROVE  Filed'
<1> DEFINE mine == session[p]
           named == OrElse(asked, mine.asked)
<1>1. SessionFiled(mine)
  BY DEF WsPublish, Filed
<1>2. named \in Strings
  BY <1>1, AddressingAssumption DEF OrElse, SessionFiled
<1>3. (IF asked = Nothing THEN mine.key
       ELSE TenantTopic(mine.who.tenant, NormalizeTopic(asked)))
        = KeyFor(mine.who.tenant, named)
  BY <1>1 DEF KeyFor, OrElse, SessionFiled
<1>4. Published("ws", mine.who, named, KeyFor(mine.who.tenant, named),
                ExtractTopic(KeyFor(mine.who.tenant, named)))
  BY <1>3 DEF WsPublish
<1>5. mine.who.tenant \in Strings
  BY <1>1 DEF SessionFiled
<1> HIDE DEF mine, named
<1>6. QED
  BY <1>2, <1>4, <1>5, PublishedFiled

\* The API publishes under the key of the topic that its caller names.
LEMMA ApiPublishFiled ==
    ASSUME Filed, NEW token \in Tokens \union {Nothing}, NEW expired \in BOOLEAN,
           NEW asked \in Names \union {Nothing},
           ApiPublish(token, expired, asked)
    PROVE  Filed'
<1> DEFINE who == ApiIdentity(Auth, token, expired)
           topic == OrElse(asked, Public)
<1>1. Accepted(who) /\ Published("api", who, topic, KeyFor(who.tenant, topic), topic)
  BY DEF ApiPublish, KeyFor
<1>2. who.tenant \in Strings
  BY <1>1, ApiTenant
<1>3. topic \in Strings
  BY NameAssumption, AddressingAssumption DEF OrElse, Strings
<1> HIDE DEF who, topic
<1>4. "api" # "ws"
  OBVIOUS
<1>5. QED
  BY <1>1, <1>2, <1>3, <1>4, PublishedFiled

\* Every step preserves the invariant.
LEMMA StepFiled == Filed /\ [Next]_addressVars => Filed'
<1> SUFFICES ASSUME Filed, [Next]_addressVars
             PROVE  Filed'
  OBVIOUS
<1>1. CASE \E p \in Peers, token \in Tokens \union {Nothing}, expired \in BOOLEAN :
             \E query \in Queries, asked \in Names :
               Connect(p, token, expired, query, asked)
  BY <1>1, ConnectFiled
<1>2. CASE \E p \in Peers : Disconnect(p)
  BY <1>2, DisconnectFiled
<1>3. CASE \E p \in Peers, asked \in Names \union {Nothing} : WsPublish(p, asked)
  BY <1>3, WsPublishFiled
<1>4. CASE \E token \in Tokens \union {Nothing}, expired \in BOOLEAN :
             \E asked \in Names \union {Nothing} : ApiPublish(token, expired, asked)
  BY <1>4, ApiPublishFiled
<1>5. CASE UNCHANGED addressVars
  BY <1>5 DEF addressVars, Filed, SessionFiled, LastFiled, Online
<1>6. QED
  BY <1>1, <1>2, <1>3, <1>4, <1>5 DEF Next

\* So it always holds.
LEMMA AlwaysFiled == Spec => []Filed
BY InitFiled, StepFiled, PTL DEF Spec

-----------------------------------------------------------------------------
(* The theorems.                                                           *)

\* What the invariant says of receivers, with keys that are told apart.
LEMMA FiledDelivers == Filed => DeliveredToOwnTopic
<1> SUFFICES ASSUME Filed, last # Nothing, NEW p \in Online
             PROVE  /\ SameRoom(session[p]) => p \in last.receivers
                    /\ p \in last.receivers /\ SeparatorFree(session[p].who.tenant)
                         /\ SeparatorFree(last.tenant) => SameRoom(session[p])
  BY DEF DeliveredToOwnTopic
<1>1. SessionFiled(session[p]) /\ LastFiled
  BY DEF Filed, Online
<1>2. p \in last.receivers <=>
        KeyFor(session[p].who.tenant, session[p].asked) = KeyFor(last.tenant, last.asked)
  BY <1>1 DEF SessionFiled, LastFiled
<1>3. /\ NormalizeTopic(session[p].asked) \in Strings
      /\ NormalizeTopic(last.asked) \in Strings
  BY <1>1, NormalizeType DEF SessionFiled, LastFiled
<1>4. SameRoom(session[p]) => p \in last.receivers
  BY <1>2 DEF SameRoom, KeyFor
<1>5. ASSUME p \in last.receivers, SeparatorFree(session[p].who.tenant),
             SeparatorFree(last.tenant)
      PROVE  SameRoom(session[p])
  BY <1>1, <1>2, <1>3, <1>5, KeysApart DEF SameRoom, KeyFor, SessionFiled, LastFiled
<1>6. QED
  BY <1>4, <1>5

\* A broadcast reaches every session of its tenant that asked for its topic, and
\* between tenants without a colon no other one.
THEOREM OwnTopic == Spec => []DeliveredToOwnTopic
BY AlwaysFiled, FiledDelivers, PTL

\* What it says of names, with extract_topic undoing tenant_topic.
LEMMA FiledNames == Filed => NamesRoundTrip
<1> SUFFICES ASSUME Filed
             PROVE  NamesRoundTrip
  OBVIOUS
<1>1. ASSUME NEW p \in Online, SeparatorFree(session[p].who.tenant)
      PROVE  session[p].ready = NormalizeTopic(session[p].asked)
  <2>1. SessionFiled(session[p])
    BY DEF Filed, Online
  <2>2. NormalizeTopic(session[p].asked) \in Strings
    BY <2>1, NormalizeType DEF SessionFiled
  <2>3. QED
    BY <1>1, <2>1, <2>2, RoundTrip DEF SessionFiled, KeyFor
<1>2. ASSUME last # Nothing, SeparatorFree(last.tenant), last.door = "ws"
      PROVE  last.topic = NormalizeTopic(last.asked)
  <2>1. LastFiled
    BY <1>2 DEF Filed
  <2>2. NormalizeTopic(last.asked) \in Strings
    BY <2>1, NormalizeType DEF LastFiled
  <2>3. QED
    BY <1>2, <2>1, <2>2, RoundTrip DEF LastFiled, KeyFor
<1>3. QED
  BY <1>1, <1>2 DEF NamesRoundTrip

\* Ready and the messages of sessions name the topic that was asked for.
THEOREM TopicNames == Spec => []NamesRoundTrip
BY AlwaysFiled, FiledNames, PTL

-----------------------------------------------------------------------------
(* Identities.                                                             *)

\* A session acts for the identity that the API gives its token.
SessionAgrees(s) == Auth # Nothing => s.who = ApiIdentity(Auth, s.token, FALSE)

Agreed ==
    /\ session = [p \in Peers |-> session[p]]
    /\ \A p \in Peers : session[p] # Nothing => SessionAgrees(session[p])

\* An accepted token has not expired, and the query adds nothing to it.
LEMMA SameIdentity ==
    ASSUME NEW token, NEW expired \in BOOLEAN, NEW query, Auth # Nothing,
           Accepted(WsIdentity(Auth, token, expired, query))
    PROVE  WsIdentity(Auth, token, expired, query) = ApiIdentity(Auth, token, FALSE)
<1>1. \A why : ~Accepted(Refused(why))
  BY DEF Accepted, Refused
<1>2. QED
  BY <1>1 DEF WsIdentity, ApiIdentity, Verify

\* Every step preserves the agreement: a handshake alone gives identities.
LEMMA StepAgreed == Agreed /\ [Next]_addressVars => Agreed'
<1> SUFFICES ASSUME Agreed, [Next]_addressVars
             PROVE  Agreed'
  OBVIOUS
<1>1. ASSUME NEW p \in Peers, NEW token \in Tokens \union {Nothing},
             NEW expired \in BOOLEAN, NEW query \in Queries, NEW asked \in Names,
             Connect(p, token, expired, query, asked)
      PROVE  Agreed'
  <2> DEFINE who == WsIdentity(Auth, token, expired, query)
             key == TenantTopic(who.tenant, NormalizeTopic(asked))
             new == [who |-> who, token |-> IF Auth = Nothing THEN Nothing ELSE token,
                     asked |-> asked, key |-> key, ready |-> ExtractTopic(key)]
  <2>1. Accepted(who) /\ session' = [session EXCEPT ![p] = new] /\ config' = config
    BY <1>1 DEF Connect
  <2>2. SessionAgrees(new)
    BY <2>1, SameIdentity DEF SessionAgrees
  <2>3. \A s : SessionAgrees(s)' <=> SessionAgrees(s)
    BY <2>1 DEF SessionAgrees, Auth
  <2> HIDE DEF new
  <2>4. QED
    BY <2>1, <2>2, <2>3 DEF Agreed
<1>2. CASE \E p \in Peers : Disconnect(p)
  BY <1>2 DEF Disconnect, Agreed, SessionAgrees, Auth
<1>3. CASE \E p \in Peers, asked \in Names \union {Nothing} : WsPublish(p, asked)
  BY <1>3 DEF WsPublish, Published, Agreed, SessionAgrees, Auth
<1>4. CASE \E token \in Tokens \union {Nothing}, expired \in BOOLEAN :
             \E asked \in Names \union {Nothing} : ApiPublish(token, expired, asked)
  BY <1>4 DEF ApiPublish, Published, Agreed, SessionAgrees, Auth
<1>5. CASE UNCHANGED addressVars
  BY <1>5 DEF addressVars, Agreed, SessionAgrees, Auth
<1>6. QED
  BY <1>1, <1>2, <1>3, <1>4, <1>5 DEF Next

\* With authentication on, a session acts for the identity that the API gives its
\* token, whatever the query of its upgrade request says.
THEOREM DoorsAgree == Spec => []BothDoorsAgree
<1>1. Init => Agreed
  BY DEF Init, Agreed
<1>2. Agreed => BothDoorsAgree
  BY DEF Agreed, SessionAgrees, BothDoorsAgree, Online
<1>3. QED
  BY <1>1, <1>2, StepAgreed, PTL DEF Spec

-----------------------------------------------------------------------------
(* Spellings: what trim, the stripping of slashes and truncation leave.    *)

\* A set of numbers that is not empty has a least and, if bounded, a greatest
\* element.
LEMMA Least ==
    ASSUME NEW T \in SUBSET Nat, T # {}
    PROVE  \E m \in T : \A n \in T : m <= n
<1> DEFINE R == {ss \in Nat \X Nat : ss[1] < ss[2]}
<1>1. IsWellFoundedOn(R, Nat)
  BY NatLessThanWellFounded DEF OpToRel
<1>2. PICK m \in T : \A n \in T : ~(<<n, m>> \in R)
  <2> HIDE DEF R
  <2> QED BY <1>1, WFMin
<1>3. \A n \in T : ~(n < m)
  <2> SUFFICES ASSUME NEW n \in T, n < m PROVE FALSE
    OBVIOUS
  <2>1. <<n, m>> \in R
    OBVIOUS
  <2> QED BY <1>2, <2>1
<1> QED
  BY <1>3

\* A piece of a string, by its length and its characters.
LEMMA Piece ==
    ASSUME NEW s \in Strings, NEW m \in 1..(Len(s) + 1), NEW n \in 0..Len(s), m <= n + 1
    PROVE  /\ SubSeq(s, m, n) \in Strings
           /\ Len(SubSeq(s, m, n)) = n - m + 1
           /\ \A i \in 1..(n - m + 1) : SubSeq(s, m, n)[i] = s[m + i - 1]
<1>1. s \in Seq(Chars) /\ Len(s) \in Nat /\ m \in Nat /\ n \in Nat
  BY DEF Strings
<1>2. \A i \in m..n : s[i] \in Chars
  BY <1>1
<1> QED
  BY <1>1, <1>2 DEF Strings

\* Strings are equal if their characters are.
LEMMA SameString ==
    ASSUME NEW s \in Strings, NEW t \in Strings, Len(s) = Len(t),
           \A i \in 1..Len(s) : s[i] = t[i]
    PROVE  s = t
BY DEF Strings

\* What a string becomes with a character in front of it or after it.
LEMMA Longer ==
    ASSUME NEW s \in Strings, NEW c \in Chars
    PROVE  /\ Len(s) \in Nat
           /\ <<c>> \o s \in Strings /\ s \o <<c>> \in Strings
           /\ Len(<<c>> \o s) = Len(s) + 1 /\ Len(s \o <<c>>) = Len(s) + 1
           /\ (<<c>> \o s)[1] = c /\ \A i \in 1..Len(s) : (<<c>> \o s)[i + 1] = s[i]
           /\ (s \o <<c>>)[Len(s) + 1] = c /\ \A i \in 1..Len(s) : (s \o <<c>>)[i] = s[i]
BY DEF Strings

\* The first n characters are those that are stripped from the start, or the
\* characters after the n-th are those that are stripped from the end.
Leads(s, S, n) ==
    /\ n \in 0..Len(s)
    /\ \A j \in 1..n : s[j] \in S
    /\ n < Len(s) => s[n + 1] \notin S
Trails(s, S, n) ==
    /\ n \in 0..Len(s)
    /\ \A j \in (n + 1)..Len(s) : s[j] \in S
    /\ n > 0 => s[n] \notin S

\* There is such a number.
LEMMA CutExists ==
    ASSUME NEW s \in Strings, NEW S
    PROVE  (\E n \in Nat : Leads(s, S, n)) /\ (\E n \in Nat : Trails(s, S, n))
<1>0. Len(s) \in Nat
  BY DEF Strings
<1>1. \E n \in Nat : Leads(s, S, n)
  <2> DEFINE T == {k \in 1..(Len(s) + 1) : k = Len(s) + 1 \/ s[k] \notin S}
  <2>1. T \in SUBSET Nat /\ Len(s) + 1 \in T
    BY <1>0
  <2>2. PICK m \in T : \A k \in T : m <= k
    <3> HIDE DEF T
    <3> QED BY <2>1, Least
  <2>3. m \in 1..(Len(s) + 1) /\ m - 1 \in Nat
    BY <1>0
  <2>4. \A j \in 1..(m - 1) : s[j] \in S
    BY <1>0, <2>2, <2>3
  <2>5. m - 1 < Len(s) => s[(m - 1) + 1] \notin S
    BY <1>0, <2>3
  <2>6. m - 1 \in 0..Len(s)
    BY <1>0, <2>3
  <2>7. Leads(s, S, m - 1)
    BY <2>4, <2>5, <2>6 DEF Leads
  <2> HIDE DEF T
  <2> QED BY <2>3, <2>7
<1>2. \E n \in Nat : Trails(s, S, n)
  <2> DEFINE T == {k \in 0..Len(s) : k = Len(s) \/ s[Len(s) - k] \notin S}
  <2>1. T \in SUBSET Nat /\ Len(s) \in T
    BY <1>0
  <2>2. PICK m \in T : \A k \in T : m <= k
    <3> HIDE DEF T
    <3> QED BY <2>1, Least
  <2> DEFINE n == Len(s) - m
  <2>3. m \in 0..Len(s) /\ n \in 0..Len(s) /\ n \in Nat
    BY <1>0
  <2>4. ASSUME NEW j \in (n + 1)..Len(s) PROVE s[j] \in S
    <3>1. Len(s) - j \in 0..Len(s) /\ Len(s) - j < m /\ Len(s) - (Len(s) - j) = j
      BY <1>0, <2>3
    <3>2. Len(s) - j \notin T
      BY <1>0, <2>2, <2>3, <3>1
    <3> QED BY <1>0, <2>3, <3>1, <3>2
  <2>5. n > 0 => s[n] \notin S
    BY <1>0, <2>3
  <2> QED BY <2>3, <2>4, <2>5 DEF Trails
<1> QED
  BY <1>1, <1>2

\* It says what is left.
LEMMA CutStart ==
    ASSUME NEW s \in Strings, NEW S, NEW n \in Nat, Leads(s, S, n)
    PROVE  StripStart(s, S) = SubSeq(s, n + 1, Len(s))
<1>1. Len(s) \in Nat /\ n \in 0..Len(s)
  BY DEF Strings, Leads
<1>2. {i \in 1..Len(s) : \A j \in 1..i : s[j] \in S} = 1..n
  <2>1. ASSUME NEW i \in 1..Len(s), \A j \in 1..i : s[j] \in S PROVE i \in 1..n
    <3>1. n < i => n < Len(s) /\ n + 1 \in 1..i
      BY <1>1
    <3> QED BY <1>1, <2>1, <3>1 DEF Leads
  <2>2. ASSUME NEW i \in 1..n PROVE i \in 1..Len(s) /\ \A j \in 1..i : s[j] \in S
    BY <1>1 DEF Leads
  <2> QED BY <2>1, <2>2
<1>3. Cardinality(1..n) = n
  BY <1>1, FS_Interval
<1> QED
  BY <1>2, <1>3 DEF StripStart

\* The same at the end of the string.
LEMMA CutEnd ==
    ASSUME NEW s \in Strings, NEW S, NEW n \in Nat, Trails(s, S, n)
    PROVE  StripEnd(s, S) = SubSeq(s, 1, n)
<1>1. Len(s) \in Nat /\ n \in 0..Len(s)
  BY DEF Strings, Trails
<1>2. {i \in 1..Len(s) : \A j \in i..Len(s) : s[j] \in S} = (n + 1)..Len(s)
  <2>1. ASSUME NEW i \in 1..Len(s), \A j \in i..Len(s) : s[j] \in S PROVE i \in (n + 1)..Len(s)
    <3>1. i <= n => n > 0 /\ n \in i..Len(s)
      BY <1>1
    <3> QED BY <1>1, <2>1, <3>1 DEF Trails
  <2>2. ASSUME NEW i \in (n + 1)..Len(s) PROVE i \in 1..Len(s) /\ \A j \in i..Len(s) : s[j] \in S
    BY <1>1 DEF Trails
  <2> QED BY <2>1, <2>2
<1>3. Cardinality((n + 1)..Len(s)) = Len(s) - n
  <2>1. Cardinality((n + 1)..Len(s)) = IF n + 1 > Len(s) THEN 0 ELSE Len(s) - (n + 1) + 1
    <3>1. n + 1 \in Int /\ Len(s) \in Int
      BY <1>1
    <3> QED BY <3>1, FS_Interval
  <2> QED BY <1>1, <2>1
<1>4. Len(s) - (Len(s) - n) = n
  BY <1>1
<1> QED
  BY <1>2, <1>3, <1>4 DEF StripEnd

\* A character that is stripped, in front of a string.
LEMMA StrippedInFront ==
    ASSUME NEW s \in Strings, NEW S, NEW c \in Chars, c \in S
    PROVE  StripStart(<<c>> \o s, S) = StripStart(s, S)
<1> DEFINE t == <<c>> \o s
<1>1. PICK n \in Nat : Leads(s, S, n)
  BY CutExists
<1>2. /\ Len(s) \in Nat /\ t \in Strings /\ Len(t) = Len(s) + 1
      /\ t[1] = c /\ \A i \in 1..Len(s) : t[i + 1] = s[i]
  BY Longer
<1>3. n \in 0..Len(s)
  BY <1>1 DEF Leads
<1> HIDE DEF t
<1>4. Leads(t, S, n + 1)
  <2>1. ASSUME NEW j \in 1..(n + 1) PROVE t[j] \in S
    <3>1. CASE j = 1
      BY <1>2, <3>1
    <3>2. CASE j # 1
      <4>1. j - 1 \in 1..n /\ j - 1 \in 1..Len(s) /\ (j - 1) + 1 = j
        BY <1>2, <1>3, <3>2
      <4> QED BY <1>1, <1>2, <4>1 DEF Leads
    <3> QED BY <3>1, <3>2
  <2>2. n + 1 < Len(t) => t[(n + 1) + 1] \notin S
    <3>1. n + 1 < Len(t) => n < Len(s) /\ n + 1 \in 1..Len(s)
      BY <1>2, <1>3
    <3> QED BY <1>1, <1>2, <3>1 DEF Leads
  <2> QED BY <1>2, <1>3, <2>1, <2>2 DEF Leads
<1>5. StripStart(s, S) = SubSeq(s, n + 1, Len(s)) /\ StripStart(t, S) = SubSeq(t, n + 2, Len(t))
  <2>1. StripStart(t, S) = SubSeq(t, (n + 1) + 1, Len(t))
    BY <1>2, <1>4, CutStart
  <2>2. (n + 1) + 1 = n + 2
    OBVIOUS
  <2> QED BY <1>1, <2>1, <2>2, CutStart
<1>6. SubSeq(t, n + 2, Len(t)) = SubSeq(s, n + 1, Len(s))
  <2> DEFINE x == SubSeq(s, n + 1, Len(s))
             y == SubSeq(t, n + 2, Len(t))
             k == Len(s) - n
  <2>1. x \in Strings /\ Len(x) = k /\ \A i \in 1..k : x[i] = s[(n + 1) + i - 1]
    <3>1. n + 1 \in 1..(Len(s) + 1) /\ Len(s) \in 0..Len(s) /\ n + 1 <= Len(s) + 1
          /\ Len(s) - (n + 1) + 1 = k
      BY <1>2, <1>3
    <3> HIDE DEF k
    <3> QED BY <3>1, Piece
  <2>2. y \in Strings /\ Len(y) = k /\ \A i \in 1..k : y[i] = t[(n + 2) + i - 1]
    <3>1. n + 2 \in 1..(Len(t) + 1) /\ Len(t) \in 0..Len(t) /\ n + 2 <= Len(t) + 1
          /\ Len(t) - (n + 2) + 1 = k
      BY <1>2, <1>3
    <3> HIDE DEF k
    <3> QED BY <1>2, <3>1, Piece
  <2>3. ASSUME NEW i \in 1..k PROVE x[i] = y[i]
    <3>1. n + i \in 1..Len(s) /\ (n + 1) + i - 1 = n + i /\ (n + 2) + i - 1 = (n + i) + 1
      BY <1>2, <1>3
    <3> HIDE DEF x, y, k
    <3> QED BY <1>2, <2>1, <2>2, <3>1
  <2> HIDE DEF x, y, k
  <2>4. x = y
    BY <2>1, <2>2, <2>3, SameString
  <2> QED BY <2>4 DEF x, y
<1> QED
  BY <1>5, <1>6 DEF t

\* A string that does not begin with a character that is stripped.
LEMMA NothingInFront ==
    ASSUME NEW s \in Strings, NEW S, s # <<>> => s[1] \notin S
    PROVE  StripStart(s, S) = s
<1>1. Len(s) \in Nat /\ (Len(s) > 0 => s # <<>>)
  BY DEF Strings
<1>2. Leads(s, S, 0)
  BY <1>1 DEF Leads
<1>3. StripStart(s, S) = SubSeq(s, 0 + 1, Len(s))
  BY <1>2, CutStart
<1>4. SubSeq(s, 1, Len(s)) = s
  BY DEF Strings
<1> QED
  BY <1>3, <1>4

\* A character that is stripped, after a string.
LEMMA StrippedAfter ==
    ASSUME NEW s \in Strings, NEW S, NEW c \in Chars, c \in S
    PROVE  StripEnd(s \o <<c>>, S) = StripEnd(s, S)
<1> DEFINE t == s \o <<c>>
<1>1. PICK n \in Nat : Trails(s, S, n)
  BY CutExists
<1>2. /\ Len(s) \in Nat /\ t \in Strings /\ Len(t) = Len(s) + 1
      /\ t[Len(s) + 1] = c /\ \A i \in 1..Len(s) : t[i] = s[i]
  BY Longer
<1>3. n \in 0..Len(s)
  BY <1>1 DEF Trails
<1> HIDE DEF t
<1>4. Trails(t, S, n)
  <2>1. ASSUME NEW j \in (n + 1)..Len(t) PROVE t[j] \in S
    <3>1. CASE j = Len(s) + 1
      BY <1>2, <3>1
    <3>2. CASE j # Len(s) + 1
      <4>1. j \in (n + 1)..Len(s) /\ j \in 1..Len(s)
        BY <1>2, <1>3, <3>2
      <4> QED BY <1>1, <1>2, <4>1 DEF Trails
    <3> QED BY <3>1, <3>2
  <2>2. n > 0 => t[n] \notin S
    <3>1. n > 0 => n \in 1..Len(s)
      BY <1>2, <1>3
    <3> QED BY <1>1, <1>2, <3>1 DEF Trails
  <2>3. n \in 0..Len(t)
    BY <1>2, <1>3
  <2> QED BY <2>1, <2>2, <2>3 DEF Trails
<1>5. StripEnd(s, S) = SubSeq(s, 1, n) /\ StripEnd(t, S) = SubSeq(t, 1, n)
  BY <1>1, <1>2, <1>4, CutEnd
<1>6. SubSeq(t, 1, n) = SubSeq(s, 1, n)
  <2> DEFINE x == SubSeq(s, 1, n)
             y == SubSeq(t, 1, n)
  <2>1. n - 1 + 1 = n /\ 1 <= n + 1 /\ \A i \in 1..n : 1 + i - 1 = i
    BY <1>3
  <2>2. x \in Strings /\ Len(x) = n /\ \A i \in 1..n : x[i] = s[i]
    <3>1. 1 \in 1..(Len(s) + 1) /\ n \in 0..Len(s)
      BY <1>2, <1>3
    <3> QED BY <2>1, <3>1, Piece
  <2>3. y \in Strings /\ Len(y) = n /\ \A i \in 1..n : y[i] = t[i]
    <3>1. 1 \in 1..(Len(t) + 1) /\ n \in 0..Len(t)
      BY <1>2, <1>3
    <3> QED BY <1>2, <2>1, <3>1, Piece
  <2>4. \A i \in 1..n : i \in 1..Len(s)
    BY <1>2, <1>3
  <2> HIDE DEF x, y
  <2>5. x = y
    BY <1>2, <2>2, <2>3, <2>4, SameString
  <2> QED BY <2>5 DEF x, y
<1> QED
  BY <1>5, <1>6 DEF t

\* A character that is not stripped, in front of a string, stays there.
LEMMA KeptInFront ==
    ASSUME NEW s \in Strings, NEW S, NEW c \in Chars, c \notin S
    PROVE  StripEnd(<<c>> \o s, S) = <<c>> \o StripEnd(s, S)
<1> DEFINE t == <<c>> \o s
<1>1. PICK n \in Nat : Trails(s, S, n)
  BY CutExists
<1>2. /\ Len(s) \in Nat /\ t \in Strings /\ Len(t) = Len(s) + 1
      /\ t[1] = c /\ \A i \in 1..Len(s) : t[i + 1] = s[i]
  BY Longer
<1>3. n \in 0..Len(s)
  BY <1>1 DEF Trails
<1> HIDE DEF t
<1>4. Trails(t, S, n + 1)
  <2>1. ASSUME NEW j \in ((n + 1) + 1)..Len(t) PROVE t[j] \in S
    <3>1. j - 1 \in (n + 1)..Len(s) /\ j - 1 \in 1..Len(s) /\ (j - 1) + 1 = j
      BY <1>2, <1>3
    <3> QED BY <1>1, <1>2, <3>1 DEF Trails
  <2>2. t[n + 1] \notin S
    <3>1. n = 0 \/ (n > 0 /\ n \in 1..Len(s))
      BY <1>2, <1>3
    <3> QED BY <1>1, <1>2, <3>1 DEF Trails
  <2>3. n + 1 \in 0..Len(t)
    BY <1>2, <1>3
  <2> QED BY <2>1, <2>2, <2>3 DEF Trails
<1>5. StripEnd(s, S) = SubSeq(s, 1, n) /\ StripEnd(t, S) = SubSeq(t, 1, n + 1)
  BY <1>1, <1>2, <1>4, CutEnd
<1>6. SubSeq(t, 1, n + 1) = <<c>> \o SubSeq(s, 1, n)
  <2> DEFINE x == SubSeq(s, 1, n)
             y == SubSeq(t, 1, n + 1)
             z == <<c>> \o x
  <2>1. x \in Strings /\ Len(x) = n /\ \A i \in 1..n : x[i] = s[i]
    <3>1. n - 1 + 1 = n /\ 1 <= n + 1 /\ \A i \in 1..n : 1 + i - 1 = i
      BY <1>3
    <3>2. 1 \in 1..(Len(s) + 1) /\ n \in 0..Len(s)
      BY <1>2, <1>3
    <3> QED BY <3>1, <3>2, Piece
  <2>2. y \in Strings /\ Len(y) = n + 1 /\ \A i \in 1..(n + 1) : y[i] = t[i]
    <3> DEFINE m == n + 1
    <3>1. m - 1 + 1 = m /\ 1 <= m + 1 /\ \A i \in 1..m : 1 + i - 1 = i
      BY <1>3
    <3>2. 1 \in 1..(Len(t) + 1) /\ m \in 0..Len(t)
      BY <1>2, <1>3
    <3> HIDE DEF m
    <3>3. SubSeq(t, 1, m) \in Strings /\ Len(SubSeq(t, 1, m)) = m
          /\ \A i \in 1..m : SubSeq(t, 1, m)[i] = t[i]
      BY <1>2, <3>1, <3>2, Piece
    <3> QED BY <3>3 DEF m
  <2> HIDE DEF x, y
  <2>3. z \in Strings /\ Len(z) = n + 1 /\ z[1] = c /\ \A i \in 1..n : z[i + 1] = x[i]
    BY <2>1, Longer
  <2> HIDE DEF z
  <2>4. ASSUME NEW i \in 1..(n + 1) PROVE z[i] = y[i]
    <3>1. CASE i = 1
      BY <1>2, <2>2, <2>3, <3>1
    <3>2. CASE i # 1
      <4>1. i - 1 \in 1..n /\ i - 1 \in 1..Len(s) /\ (i - 1) + 1 = i
        BY <1>2, <1>3, <3>2
      <4>2. z[i] = x[i - 1] /\ t[i] = s[i - 1]
        BY <1>2, <2>3, <4>1
      <4> QED BY <2>1, <2>2, <4>1, <4>2
    <3> QED BY <3>1, <3>2
  <2>5. z = y
    BY <2>2, <2>3, <2>4, SameString
  <2> QED BY <2>5 DEF x, y, z
<1> QED
  BY <1>5, <1>6 DEF t

\* What is left of a string has, at its start, no character that is stripped.
LEMMA StartStripped ==
    ASSUME NEW s \in Strings, NEW S, StripStart(s, S) # <<>>
    PROVE  Len(StripStart(s, S)) \in Nat \ {0} /\ StripStart(s, S)[1] \notin S
<1>1. PICK n \in Nat : Leads(s, S, n)
  BY CutExists
<1>2. Len(s) \in Nat /\ n \in 0..Len(s)
  BY <1>1 DEF Strings, Leads
<1>3. StripStart(s, S) = SubSeq(s, n + 1, Len(s))
  BY <1>1, CutStart
<1> DEFINE x == StripStart(s, S)
           k == Len(s) - n
<1>4. x \in Strings /\ Len(x) = k /\ \A i \in 1..k : x[i] = s[(n + 1) + i - 1]
  <2>1. n + 1 \in 1..(Len(s) + 1) /\ Len(s) \in 0..Len(s) /\ n + 1 <= Len(s) + 1
        /\ Len(s) - (n + 1) + 1 = k
    BY <1>2
  <2> HIDE DEF k
  <2> QED BY <1>3, <2>1, Piece
<1>5. Len(x) # 0
  BY <1>4 DEF Strings
<1>6. n < Len(s) /\ 1 \in 1..k /\ (n + 1) + 1 - 1 = n + 1 /\ k \in Nat \ {0}
  BY <1>2, <1>4, <1>5
<1> QED
  BY <1>1, <1>4, <1>6 DEF Leads

-----------------------------------------------------------------------------
(* normalize_topic.                                                        *)

\* Whitespace in front of a topic or after it is not part of its name.
LEMMA TrimFront ==
    ASSUME NEW s \in Strings, NEW b \in Blanks
    PROVE  Trim(<<b>> \o s) = Trim(s)
BY NameAssumption, StrippedInFront DEF Trim

\* The same after it; a blank string is a case of its own.
LEMMA TrimAfter ==
    ASSUME NEW s \in Strings, NEW b \in Blanks
    PROVE  Trim(s \o <<b>>) = Trim(s)
<1> DEFINE t == s \o <<b>>
<1>1. PICK n \in Nat : Leads(s, Blanks, n)
  BY CutExists
<1>2. b \in Chars
  BY NameAssumption
<1>3. /\ Len(s) \in Nat /\ t \in Strings /\ Len(t) = Len(s) + 1
      /\ t[Len(s) + 1] = b /\ \A i \in 1..Len(s) : t[i] = s[i]
  BY <1>2, Longer
<1>4. n \in 0..Len(s)
  BY <1>1 DEF Leads
<1> HIDE DEF t
<1>5. StripStart(s, Blanks) = SubSeq(s, n + 1, Len(s))
  BY <1>1, CutStart
<1>6. CASE n = Len(s)
  <2>1. Leads(t, Blanks, n + 1)
    <3>1. ASSUME NEW j \in 1..(n + 1) PROVE t[j] \in Blanks
      BY <1>1, <1>3, <1>6 DEF Leads
    <3>2. n + 1 \in 0..Len(t) /\ ~(n + 1 < Len(t))
      BY <1>3, <1>4, <1>6
    <3> QED BY <3>1, <3>2 DEF Leads
  <2>2. StripStart(t, Blanks) = SubSeq(t, (n + 1) + 1, Len(t))
    BY <1>3, <2>1, CutStart
  <2>3. SubSeq(t, (n + 1) + 1, Len(t)) = <<>> /\ SubSeq(s, n + 1, Len(s)) = <<>>
    BY <1>3, <1>4, <1>6 DEF Strings
  <2> QED BY <1>5, <2>2, <2>3 DEF Trim, t
<1>7. CASE n < Len(s)
  <2> DEFINE x == SubSeq(s, n + 1, Len(s))
             y == SubSeq(t, n + 1, Len(t))
             z == x \o <<b>>
             k == Len(s) - n
  <2>1. Leads(t, Blanks, n)
    <3>1. ASSUME NEW j \in 1..n PROVE t[j] \in Blanks
      BY <1>1, <1>3, <1>7 DEF Leads
    <3>2. n \in 0..Len(t) /\ n + 1 \in 1..Len(s)
      BY <1>3, <1>4, <1>7
    <3> QED BY <1>1, <1>3, <1>7, <3>1, <3>2 DEF Leads
  <2>2. StripStart(t, Blanks) = y
    BY <1>3, <2>1, CutStart
  <2>3. x \in Strings /\ Len(x) = k /\ \A i \in 1..k : x[i] = s[(n + 1) + i - 1]
    <3>1. n + 1 \in 1..(Len(s) + 1) /\ Len(s) \in 0..Len(s) /\ n + 1 <= Len(s) + 1
          /\ Len(s) - (n + 1) + 1 = k
      BY <1>3, <1>4
    <3> HIDE DEF k
    <3> QED BY <3>1, Piece
  <2>4. y \in Strings /\ Len(y) = k + 1 /\ \A i \in 1..(k + 1) : y[i] = t[(n + 1) + i - 1]
    <3> DEFINE m == k + 1
    <3>1. n + 1 \in 1..(Len(t) + 1) /\ Len(t) \in 0..Len(t) /\ n + 1 <= Len(t) + 1
          /\ Len(t) - (n + 1) + 1 = m
      BY <1>3, <1>4
    <3> HIDE DEF m
    <3>2. y \in Strings /\ Len(y) = m /\ \A i \in 1..m : y[i] = t[(n + 1) + i - 1]
      BY <1>3, <3>1, Piece
    <3> QED BY <3>2 DEF m
  <2>5. k \in Nat \ {0} /\ n + k = Len(s)
    BY <1>3, <1>4, <1>7
  <2> HIDE DEF x, y, k
  <2>6. z \in Strings /\ Len(z) = k + 1 /\ z[k + 1] = b /\ \A i \in 1..k : z[i] = x[i]
    BY <1>2, <2>3, Longer
  <2> HIDE DEF z
  <2>7. ASSUME NEW i \in 1..(k + 1) PROVE z[i] = y[i]
    <3>0. y[i] = t[(n + 1) + i - 1]
      BY <2>4
    <3>1. CASE i = k + 1
      <4>1. (n + 1) + i - 1 = Len(s) + 1
        BY <1>3, <1>4, <2>5, <3>1
      <4> QED BY <1>3, <2>6, <3>0, <3>1, <4>1
    <3>2. CASE i # k + 1
      <4>1. i \in 1..k /\ (n + 1) + i - 1 \in 1..Len(s)
        BY <1>3, <1>4, <2>5, <3>2
      <4> QED BY <1>3, <2>3, <2>6, <3>0, <4>1
    <3> QED BY <3>1, <3>2
  <2>8. z = y
    BY <2>4, <2>6, <2>7, SameString
  <2>9. StripEnd(z, Blanks) = StripEnd(x, Blanks)
    BY <1>2, <2>3, StrippedAfter DEF z
  <2> QED BY <1>5, <2>2, <2>8, <2>9 DEF Trim, t, x
<1> QED
  BY <1>4, <1>3, <1>6, <1>7

\* Nor is a slash in front of it.
LEMMA SlashFront ==
    ASSUME NEW s \in Strings, s # <<>> => s[1] \notin Blanks
    PROVE  StripStart(Trim(<<Slash>> \o s), {Slash}) = StripStart(Trim(s), {Slash})
<1>1. Slash \in Chars /\ Slash \notin Blanks
  BY NameAssumption
<1>2. <<Slash>> \o s \in Strings /\ (<<Slash>> \o s)[1] = Slash
  BY <1>1, Longer
<1>3. StripStart(<<Slash>> \o s, Blanks) = <<Slash>> \o s
  BY <1>1, <1>2, NothingInFront
<1>4. StripStart(s, Blanks) = s
  BY NothingInFront
<1>5. Trim(<<Slash>> \o s) = <<Slash>> \o Trim(s)
  BY <1>1, <1>3, <1>4, KeptInFront DEF Trim
<1>6. Trim(s) \in Strings
  BY StripType DEF Trim
<1> QED
  BY <1>1, <1>5, <1>6, StrippedInFront

\* Spellings of a topic have one name.
LEMMA OneName ==
    ASSUME NEW asked \in Strings, NEW other \in Strings, Respelled(asked, other)
    PROVE  NormalizeTopic(asked) = NormalizeTopic(other)
<1>1. CASE \E blank \in Blanks : other \in {<<blank>> \o asked, asked \o <<blank>>}
  <2>1. Trim(other) = Trim(asked)
    BY <1>1, TrimFront, TrimAfter
  <2> QED BY <2>1 DEF NormalizeTopic
<1>2. CASE other = <<Slash>> \o asked /\ (asked # <<>> => asked[1] \notin Blanks)
  <2>1. StripStart(Trim(other), {Slash}) = StripStart(Trim(asked), {Slash})
    BY <1>2, SlashFront
  <2> QED BY <2>1 DEF NormalizeTopic
<1> QED
  BY <1>1, <1>2 DEF Respelled

\* A name is neither empty nor too long, and does not begin with a slash.
LEMMA GoodName ==
    ASSUME NEW asked \in Strings
    PROVE  Len(NormalizeTopic(asked)) \in 1..MaxLen /\ NormalizeTopic(asked)[1] # Slash
<1> DEFINE name == StripStart(Trim(asked), {Slash})
<1>1. MaxLen \in Nat \ {0}
  BY NameAssumption
<1>2. Trim(asked) \in Strings
  BY StripType DEF Trim
<1>3. name \in Strings
  BY <1>2, StripType
<1>4. name # <<>> => Len(name) \in Nat \ {0} /\ name[1] \notin {Slash}
  BY <1>2, StartStripped
<1> HIDE DEF name
<1>5. CASE name = <<>>
  <2>1. Len(Public) \in 1..MaxLen /\ Public \in Seq(Chars \ {Slash})
    BY NameAssumption
  <2>2. Public[1] # Slash
    BY <1>1, <2>1
  <2> QED BY <1>5, <2>1, <2>2 DEF NormalizeTopic, name
<1>6. CASE name # <<>>
  <2>1. NormalizeTopic(asked) = Take(name)
    BY <1>6 DEF NormalizeTopic, name
  <2>2. CASE Len(name) > MaxLen
    <3>1. 1 \in 1..(Len(name) + 1) /\ MaxLen \in 0..Len(name) /\ 1 <= MaxLen + 1
          /\ MaxLen - 1 + 1 = MaxLen /\ 1 \in 1..MaxLen /\ 1 + 1 - 1 = 1
      BY <1>1, <1>4, <1>6, <2>2
    <3>2. Len(SubSeq(name, 1, MaxLen)) = MaxLen /\ SubSeq(name, 1, MaxLen)[1] = name[1]
      BY <1>3, <3>1, Piece
    <3> QED BY <1>1, <1>4, <1>6, <2>1, <2>2, <3>2 DEF Take
  <2>3. CASE ~(Len(name) > MaxLen)
    BY <1>1, <1>4, <1>6, <2>1, <2>3 DEF Take
  <2> QED BY <2>2, <2>3
<1> QED
  BY <1>5, <1>6

\* What the invariant says of spellings, with what normalize_topic does to them.
LEMMA FiledSpelling == Filed => SpellingDoesNotMatter
<1> SUFFICES ASSUME Filed, NEW p \in Online, NEW q \in Online
             PROVE  /\ session[p].who.tenant = session[q].who.tenant
                         /\ Respelled(session[p].asked, session[q].asked)
                         => session[p].key = session[q].key
                    /\ Len(NormalizeTopic(session[p].asked)) \in 1..MaxLen
                    /\ NormalizeTopic(session[p].asked)[1] # Slash
  BY DEF SpellingDoesNotMatter
<1>1. SessionFiled(session[p]) /\ SessionFiled(session[q])
  BY DEF Filed, Online
<1>2. session[p].asked \in Strings /\ session[q].asked \in Strings
  BY <1>1 DEF SessionFiled
<1>3. Respelled(session[p].asked, session[q].asked) =>
        NormalizeTopic(session[p].asked) = NormalizeTopic(session[q].asked)
  BY <1>2, OneName
<1>4. QED
  BY <1>1, <1>2, <1>3, GoodName DEF SessionFiled, KeyFor

\* Sessions of one tenant that spell a topic differently share it, and a name is
\* never empty, never too long and never begins with a slash.
THEOREM SpellingsMeet == Spec => []SpellingDoesNotMatter
BY AlwaysFiled, FiledSpelling, PTL
=============================================================================
