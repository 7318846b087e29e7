-------------------------- MODULE MCPricerWithOracle --------------------------
(* The pricer and an oracle with a setter of its own, over four blocks of  *)
(* which two can carry a new price of the oracle.                          *)
EXTENDS PricerWithOracle
===============================================================================
