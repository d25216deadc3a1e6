----------------------------- MODULE Addressing -----------------------------
(***************************************************************************)
(* Who gets a broadcast: the identity a request is given (Identity), the   *)
(* key its topic is stored under (TopicNames, TopicKeys) and the sessions  *)
(* that subscribed to it, for publications of a session and of the API.    *)
(* Queues and failures are the business of Hub: here a broadcast reaches   *)
(* every receiver of its key at once.                                      *)
(***************************************************************************)
EXTENDS TopicNames, Identity

CONSTANTS
    Peers,     \* sockets
    Names,     \* topic names that are asked for
    Tokens,    \* tokens that are presented
    Queries,   \* [client, tenant] of an upgrade request, each may be Nothing
    Configs    \* the settings of AuthVerifier::from_config

ASSUME AddressingAssumption ==
    /\ Names \subseteq Strings
    /\ \A token \in Tokens : token.tenant \in Strings \union {Nothing}
    /\ \A query \in Queries : query.tenant \in Strings \union {Nothing}
    /\ DefaultTenant \in Strings
    /\ Nothing \notin Strings

VARIABLES
    config,    \* as the server was started
    session,   \* [Peers -> a session, or Nothing]
    last       \* history: the latest publication to the sessions of now, or Nothing

addressVars == <<config, session, last>>

Auth == Verifier(config)

Online == {p \in Peers : session[p] # Nothing}

Init ==
    /\ config \in Configs
    /\ session = [p \in Peers |-> Nothing]
    /\ last = Nothing

\* The rest of the handshake is Admission's; handle_socket names the topic.
Connect(p, token, expired, query, asked) ==
    LET who == WsIdentity(Auth, token, expired, query)
        key == TenantTopic(who.tenant, NormalizeTopic(asked))
    IN  /\ session[p] = Nothing
        /\ Accepted(who)
        /\ session' = [session EXCEPT ![p] =
               [who |-> who, token |-> IF Auth = Nothing THEN Nothing ELSE token,
                asked |-> asked, key |-> key, ready |-> ExtractTopic(key)]]
        /\ last' = Nothing
        /\ UNCHANGED config

Disconnect(p) ==
    /\ session[p] # Nothing
    /\ session' = [session EXCEPT ![p] = Nothing]
    /\ last' = Nothing
    /\ UNCHANGED config

\* A publication of who under a key: those it reaches, and the topic it names.
Published(door, who, asked, key, topic) ==
    /\ last' = [door |-> door, tenant |-> who.tenant, asked |-> asked, topic |-> topic,
                receivers |-> {q \in Online : session[q].key = key}]
    /\ UNCHANGED <<config, session>>

\* A session publishes to the topic it names, or else to its own.
WsPublish(p, asked) ==
    LET mine == session[p]
        key  == IF asked = Nothing THEN mine.key
                ELSE TenantTopic(mine.who.tenant, NormalizeTopic(asked))
    IN  /\ session[p] # Nothing
        /\ Published("ws", mine.who, OrElse(asked, mine.asked), key, ExtractTopic(key))

\* The API names the topic in the message as the caller spelled it.
\* Mutant ApiTopicVerbatim: it is not normalised for the key either.
ApiTopicVerbatim(token, expired, asked) ==
    LET who   == ApiIdentity(Auth, token, expired)
        topic == OrElse(asked, Public)
    IN  /\ Accepted(who)
        /\ Published("api", who, topic, TenantTopic(who.tenant, topic), topic)
ApiPublish(token, expired, asked) ==
    LET who   == ApiIdentity(Auth, token, expired)
        topic == OrElse(asked, Public)
    IN  /\ Accepted(who)
        /\ Published("api", who, topic, TenantTopic(who.tenant, NormalizeTopic(topic)), topic)

Next ==
    \/ \E p \in Peers :
         \/ \E token \in Tokens \union {Nothing}, expired \in BOOLEAN :
              \E query \in Queries, asked \in Names :
                Connect(p, token, expired, query, asked)
         \/ Disconnect(p)
         \/ \E asked \in Names \union {Nothing} : WsPublish(p, asked)
    \/ \E token \in Tokens \union {Nothing}, expired \in BOOLEAN :
         \E asked \in Names \union {Nothing} : ApiPublish(token, expired, asked)

Spec == Init /\ [][Next]_addressVars

-----------------------------------------------------------------------------
(* Properties.                                                             *)

\* A broadcast reaches the sessions of its own tenant that asked for the same
\* topic, however either spelled it and whichever door it came through, and no
\* others: "<tenant>:<topic>" tells tenants apart whose ids have no colon, which
\* nothing in the code enforces.
SameRoom(s) ==
    s.who.tenant = last.tenant /\ NormalizeTopic(s.asked) = NormalizeTopic(last.asked)
DeliveredToOwnTopic ==
    last # Nothing => \A p \in Online :
        /\ SameRoom(session[p]) => p \in last.receivers
        /\ p \in last.receivers /\ SeparatorFree(session[p].who.tenant)
              /\ SeparatorFree(last.tenant) => SameRoom(session[p])

\* The Ready event names the topic the session asked for and a message of a
\* session names the one it was sent to: extract_topic undoes tenant_topic, and
\* what a topic contains does not confuse it.
NamesRoundTrip ==
    /\ \A p \in Online : SeparatorFree(session[p].who.tenant) =>
         session[p].ready = NormalizeTopic(session[p].asked)
    /\ last # Nothing /\ SeparatorFree(last.tenant) /\ last.door = "ws" =>
         last.topic = NormalizeTopic(last.asked)

\* asked and other differ in whitespace around them or in slashes in front.
Respelled(asked, other) ==
    \/ \E blank \in Blanks : other \in {<<blank>> \o asked, asked \o <<blank>>}
    \/ other = <<Slash>> \o asked /\ (asked # <<>> => asked[1] \notin Blanks)

\* Sessions of one tenant that spell a topic differently share it, and a topic
\* is never empty, never too long and never begins with a slash.
SpellingDoesNotMatter ==
    \A p, q \in Online :
        /\ session[p].who.tenant = session[q].who.tenant
              /\ Respelled(session[p].asked, session[q].asked)
              => session[p].key = session[q].key
        /\ LET topic == NormalizeTopic(session[p].asked)
           IN  Len(topic) \in 1..MaxLen /\ topic[1] # Slash

\* With authentication on, a session acts for the identity that the API gives
\* the same token: the query of the upgrade request adds nothing to it
\* (README.md:203, the claim is authoritative; README.md:428, one logic for both).
BothDoorsAgree ==
    Auth # Nothing => \A p \in Online :
        session[p].who = ApiIdentity(Auth, session[p].token, FALSE)

\* A token that was signed with the configured key, has not expired and comes
\* from the configured issuer is accepted, whichever kind of key it is
\* (README.md:135, RS256 and EdDSA PEMs).
SignedFor(token) ==
    /\ token.key = IF config.secret THEN "secret" ELSE config.pem.key
    /\ config.issuer \in {Nothing, token.issuer}
GoodTokenAccepted ==
    Auth # Nothing => \A token \in Tokens :
        SignedFor(token) => Accepted(ApiIdentity(Auth, token, FALSE))
=============================================================================
