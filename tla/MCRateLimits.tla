---------------------------- MODULE MCRateLimits ----------------------------
(* Instance of RateLimits for TLC: two connections of one tenant, and times  *)
(* fine enough that a tick refills a fraction of a token.                    *)
EXTENDS RateLimits, TLC

MCTenantOf == ("c1" :> "acme") @@ ("c2" :> "acme")
=============================================================================
