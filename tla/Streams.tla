------------------------------ MODULE Streams ------------------------------
(***************************************************************************)
(* The hub's connections as subscribers of TopicStreams: what a peer has   *)
(* been sent is what its socket took, and what it missed is what recv      *)
(* reported to its fanout as Lagged, of which the peer itself learns       *)
(* nothing.                                                                *)
(***************************************************************************)
EXTENDS Hub

\* The part of connection_loop in which the subscription may deliver.
Phase(c) == CASE main[c] = "new"    -> "new"
              [] main[c] = "closed" -> "closed"
              [] OTHER              -> "open"

Messages(c) == {i \in 1..Len(wire[c]) : wire[c][i].kind = "message"}

TopicStream == INSTANCE TopicStreams WITH
    Subscribers <- Conns,
    Topics      <- Keys,
    TopicOf     <- [c \in Conns |-> KeyOf(c)],
    published   <- [k \in Keys |-> Len(log[k])],
    phase       <- [c \in Conns |-> Phase(c)],
    since       <- first,
    got         <- [c \in Conns |-> {wire[c][i].pos : i \in Messages(c)}],
    missed      <- skipped

\* Whatever happens to its queue, its ring and its tasks, a connection reads its
\* topic as TopicStreams says: in order, from its subscription on, and with no
\* other holes than those that recv reported to the server's fanout.
ImplementsStreams == TopicStream!Spec
=============================================================================
