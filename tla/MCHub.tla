------------------------------- MODULE MCHub -------------------------------
(***************************************************************************)
(* Instances of Hub for TLC.  Connections and clients are strings or model *)
(* values; tenant ids and topics are sequences of characters.              *)
(***************************************************************************)
EXTENDS Hub, TLC

MCChars == {"a", "b", "n", ":"}

\* Two tenants, and one whose id is the first with a colon and more.
Acme   == <<"a">>
Bmce   == <<"b">>
Branch == <<"a", ":", "b">>

\* The key of the second topic of Acme is that of the first topic of Branch.
News       == <<"n">>
BranchNews == <<"b", ":", "n">>

JustAcme == {Acme}
JustNews == {News}

\* One subscriber.
OneTenant == ("c1" :> Acme)
OneClient == ("c1" :> "ann")
OneTopic  == ("c1" :> News)

\* A client that reconnects: two connections with one identity.
SameTenant == ("c1" :> Acme)  @@ ("c2" :> Acme)
SameClient == ("c1" :> "ann") @@ ("c2" :> "ann")
SameTopic  == ("c1" :> News)  @@ ("c2" :> News)
=============================================================================
