----------------------------- MODULE MCTraffic -----------------------------
(* Instances of Traffic for TLC, with the identities of MCHub.             *)
EXTENDS Traffic, MCHub
=============================================================================
