-------------------------- MODULE TopicKeysProofs --------------------------
(***************************************************************************)
(* Facts about the keys of topics, for every set of characters.  The key   *)
(* of a topic determines its tenant and its name, for tenants without a    *)
(* colon: the tenant ends where the first colon is.                        *)
(***************************************************************************)
EXTENDS TopicKeys, TLAPS

\* The characters of a key, one by one.
Joins(key, tenant, topic) ==
    /\ key \in Strings
    /\ Len(key) = Len(tenant) + 1 + Len(topic)
    /\ \A i \in 1..Len(tenant) : key[i] = tenant[i]
    /\ key[Len(tenant) + 1] = Colon
    /\ \A i \in 1..Len(topic) : key[Len(tenant) + 1 + i] = topic[i]

\* tenant_topic joins a tenant and a topic with a colon.
LEMMA KeyShape ==
    ASSUME NEW tenant \in Strings, NEW topic \in Strings
    PROVE  Joins(TenantTopic(tenant, topic), tenant, topic)
<1>1. Colon \in Chars /\ <<Colon>> \in Strings
  BY CharAssumption DEF Strings
<1>2. QED
  BY <1>1 DEF TenantTopic, Strings, Joins

\* tenant_topic: keys of tenants without a colon are equal only if tenant and
\* topic are.
THEOREM KeysApart ==
    ASSUME NEW s \in Strings, NEW t \in Strings,
           NEW x \in Strings, NEW y \in Strings,
           SeparatorFree(s), SeparatorFree(t),
           TenantTopic(s, x) = TenantTopic(t, y)
    PROVE  s = t /\ x = y
<1> DEFINE key == TenantTopic(s, x)
<1>1. /\ Len(key) = Len(s) + 1 + Len(x)
      /\ \A i \in 1..Len(s) : key[i] = s[i]
      /\ key[Len(s) + 1] = Colon
      /\ \A i \in 1..Len(x) : key[Len(s) + 1 + i] = x[i]
  BY KeyShape DEF Joins
<1>2. /\ Len(key) = Len(t) + 1 + Len(y)
      /\ \A i \in 1..Len(t) : key[i] = t[i]
      /\ key[Len(t) + 1] = Colon
      /\ \A i \in 1..Len(y) : key[Len(t) + 1 + i] = y[i]
  <2>1. Joins(TenantTopic(t, y), t, y)
    BY KeyShape
  <2>2. Joins(key, t, y)
    BY <2>1
  <2> HIDE DEF key
  <2>3. QED
    BY <2>2 DEF Joins
<1>3. /\ \A i \in 1..Len(s) : s[i] # Colon
      /\ \A i \in 1..Len(t) : t[i] # Colon
  BY DEF SeparatorFree, Colons
<1>4. Len(s) \in Nat /\ Len(t) \in Nat /\ Len(x) \in Nat /\ Len(y) \in Nat
  BY DEF Strings
<1> HIDE DEF key
<1>5. ~(Len(s) < Len(t))
  <2> SUFFICES ASSUME Len(s) < Len(t)
               PROVE  FALSE
    OBVIOUS
  <2>1. Len(s) + 1 \in 1..Len(t)
    BY <1>4
  <2>2. key[Len(s) + 1] = Colon /\ key[Len(s) + 1] = t[Len(s) + 1]
    BY <1>1, <1>2, <2>1
  <2>3. QED
    BY <1>3, <2>1, <2>2
<1>6. ~(Len(t) < Len(s))
  <2> SUFFICES ASSUME Len(t) < Len(s)
               PROVE  FALSE
    OBVIOUS
  <2>1. Len(t) + 1 \in 1..Len(s)
    BY <1>4
  <2>2. key[Len(t) + 1] = Colon /\ key[Len(t) + 1] = s[Len(t) + 1]
    BY <1>2, <1>1, <2>1
  <2>3. QED
    BY <1>3, <2>1, <2>2
<1>7. Len(s) = Len(t) /\ Len(x) = Len(y)
  BY <1>1, <1>2, <1>4, <1>5, <1>6
<1>8. \A i \in 1..Len(s) : s[i] = t[i]
  BY <1>1, <1>2, <1>7
<1>9. \A i \in 1..Len(x) : x[i] = y[i]
  BY <1>1, <1>2, <1>7
<1>10. s = t
  BY <1>7, <1>8 DEF Strings
<1>11. x = y
  BY <1>7, <1>9 DEF Strings
<1>12. QED
  BY <1>10, <1>11

\* extract_topic undoes tenant_topic, whatever the topic contains.
THEOREM RoundTrip ==
    ASSUME NEW tenant \in Strings, NEW topic \in Strings, SeparatorFree(tenant)
    PROVE  ExtractTopic(TenantTopic(tenant, topic)) = topic
<1> DEFINE key == TenantTopic(tenant, topic)
           n   == Len(tenant) + 1
           First(i) == i \in Colons(key) /\ \A j \in Colons(key) : i <= j
<1>1. /\ key \in Strings
      /\ Len(key) = n + Len(topic)
      /\ \A i \in 1..Len(tenant) : key[i] = tenant[i]
      /\ key[n] = Colon
      /\ \A i \in 1..Len(topic) : key[n + i] = topic[i]
  BY KeyShape DEF Joins
<1>2. \A i \in 1..Len(tenant) : tenant[i] # Colon
  BY DEF SeparatorFree, Colons
<1>3. Len(tenant) \in Nat /\ Len(topic) \in Nat
  BY DEF Strings
<1> HIDE DEF key
<1>4. n \in Colons(key)
  BY <1>1, <1>3 DEF Colons
<1>5. \A j \in Colons(key) : n <= j
  BY <1>1, <1>2, <1>3 DEF Colons
<1>6. \A i : First(i) => i = n
  <2>1. \A j \in Colons(key) : j \in Nat
    BY <1>1 DEF Colons, Strings
  <2>2. QED
    BY <1>4, <1>5, <2>1, <1>3
<1>7. (CHOOSE i \in Colons(key) : \A j \in Colons(key) : i <= j) = n
  BY <1>4, <1>5, <1>6
<1>8. ExtractTopic(key) = SubSeq(key, n + 1, Len(key))
  BY <1>4, <1>7 DEF ExtractTopic
<1>9. SubSeq(key, n + 1, n + Len(topic)) = topic
  <2>1. key \in Seq(Chars) /\ topic \in Seq(Chars) /\ n \in Nat
    BY <1>1, <1>3 DEF Strings
  <2>2. Len(SubSeq(key, n + 1, n + Len(topic))) = Len(topic)
    BY <1>1, <1>3, <2>1
  <2>3. \A i \in 1..Len(topic) : SubSeq(key, n + 1, n + Len(topic))[i] = topic[i]
    BY <1>1, <1>3, <2>1
  <2>4. SubSeq(key, n + 1, n + Len(topic)) \in Seq(Chars)
    BY <1>1, <1>3, <2>1
  <2>5. QED
    BY <2>1, <2>2, <2>3, <2>4
<1>10. QED
  BY <1>1, <1>8, <1>9 DEF key
=============================================================================
