------------------------------ MODULE MCServer ------------------------------
(***************************************************************************)
(* Instances of Server for TLC: a client of Acme that is connected any     *)
(* number of times from one address, while other tenants use the API.      *)
(***************************************************************************)
EXTENDS Server, Streams, MCHub

ThreeTenants == {Acme, Bmce, Branch}
TwoTopics    == {News, BranchNews}

OneIdentityTenant == [c \in Conns |-> Acme]
OneIdentityClient == [c \in Conns |-> "ann"]
OneIdentityTopic  == [c \in Conns |-> BranchNews]
OneAddress        == [c \in Conns |-> "ip1"]

\* Connections of one identity are interchangeable.
Interchangeable == Permutations(Conns)
=============================================================================
