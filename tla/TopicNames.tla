---------------------------- MODULE TopicNames ----------------------------
(***************************************************************************)
(* The topic names that peers and API callers write: normalize_topic of    *)
(* src/src/server.rs.                                                      *)
(***************************************************************************)
EXTENDS TopicKeys

CONSTANTS
    Blanks,     \* the characters that trim takes for whitespace
    Slash,
    Public,     \* the default topic, "public"
    MaxLen      \* characters of a name that are kept, 128

ASSUME NameAssumption ==
    /\ Blanks \subseteq Chars
    /\ {Slash, Colon} \subseteq Chars \ Blanks
    /\ Slash # Colon
    /\ MaxLen \in Nat \ {0}
    /\ Public \in Seq(Chars \ {Slash})
    /\ Len(Public) \in 1..MaxLen

\* s without the characters of S that it begins, or ends, with.
StripStart(s, S) ==
    LET first == {i \in 1..Len(s) : \A j \in 1..i : s[j] \in S}
    IN  SubSeq(s, Cardinality(first) + 1, Len(s))
StripEnd(s, S) ==
    LET last == {i \in 1..Len(s) : \A j \in i..Len(s) : s[j] \in S}
    IN  SubSeq(s, 1, Len(s) - Cardinality(last))

Trim(s) == StripEnd(StripStart(s, Blanks), Blanks)
Take(s) == IF Len(s) > MaxLen THEN SubSeq(s, 1, MaxLen) ELSE s

\* Mutant SlashesFirst: the slashes are stripped before the whitespace.
SlashesFirst(topic) ==
    LET name == Trim(StripStart(topic, {Slash}))
    IN  IF name = <<>> THEN Public ELSE Take(name)
NormalizeTopic(topic) ==
    LET name == StripStart(Trim(topic), {Slash})
    IN  IF name = <<>> THEN Public ELSE Take(name)
=============================================================================
