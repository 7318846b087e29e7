------------------------ MODULE MCRWAOracleRateCheck ------------------------
(* The oracle with changes of at most 1 in 4 and windows of three ticks.   *)
EXTENDS RWAOracleRateCheck

mcOraclePrices == -1 .. 30
mcTimes == 1 .. 14
=============================================================================
