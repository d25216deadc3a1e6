---------------------------- MODULE MCIpLimiter ----------------------------
(* Instance of IpLimiter for TLC: three requests of two addresses.         *)
EXTENDS IpLimiter, TLC

TwoAddresses == ("r1" :> "ip1") @@ ("r2" :> "ip1") @@ ("r3" :> "ip2")
=============================================================================
