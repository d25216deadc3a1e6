----------------------------- MODULE TopicKeys -----------------------------
(***************************************************************************)
(* The keys topics are stored under: tenant_topic of src/src/state.rs and  *)
(* extract_topic of src/src/server.rs.  A string is the sequence of its    *)
(* characters.  Any string may be a tenant id or a topic: the code joins   *)
(* them as they are, so that the ids a:a and a have a key in common.       *)
(***************************************************************************)
EXTENDS Integers, Sequences, FiniteSets

CONSTANTS
    Chars,      \* the characters there are
    Colon

ASSUME CharAssumption == Colon \in Chars

Strings == Seq(Chars)

\* Mutant KeyWithoutTenant: the topic alone is the key.
KeyWithoutTenant(tenant, topic) == topic
TenantTopic(tenant, topic)      == tenant \o <<Colon>> \o topic

\* What follows the first colon of a key, or all of it.
Colons(key) == {i \in 1..Len(key) : key[i] = Colon}

\* Mutant SplitAtLast: rsplit_once.
SplitAtLast(key) ==
    IF Colons(key) = {} THEN key
    ELSE LET i == CHOOSE i \in Colons(key) : \A j \in Colons(key) : j <= i
         IN  SubSeq(key, i + 1, Len(key))
ExtractTopic(key) ==
    IF Colons(key) = {} THEN key
    ELSE LET i == CHOOSE i \in Colons(key) : \A j \in Colons(key) : i <= j
         IN  SubSeq(key, i + 1, Len(key))

\* A tenant id in which no colon occurs.
SeparatorFree(tenant) == Colons(tenant) = {}
=============================================================================
