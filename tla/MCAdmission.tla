---------------------------- MODULE MCAdmission ----------------------------
(* Instances of Admission for TLC: four requests of two addresses and two    *)
(* tenants, one of which has no valid token.                                 *)
EXTENDS Admission, TLC

MCIpOf     == ("r1" :> "ip1") @@ ("r2" :> "ip1") @@ ("r3" :> "ip2") @@ ("r4" :> "ip1")
MCTenantOf == ("r1" :> "acme") @@ ("r2" :> "acme") @@ ("r3" :> "bmce") @@ ("r4" :> "bmce")
=============================================================================
