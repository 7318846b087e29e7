----------------------------- MODULE MCPricer -----------------------------
(* Pricer.sol with three prices, so that a later one can fall before,      *)
(* between or on the timestamps of the others.                             *)
EXTENDS Pricer
===========================================================================
