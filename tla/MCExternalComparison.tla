------------------------ MODULE MCExternalComparison ------------------------
(* One price in ten may change by two, one more or less than the feed.     *)
EXTENDS RWAOracleExternalComparisonCheck

mcOraclePrices == 0 .. 36
mcAnswers      == {-1, 0, 15, 17, 19, 21, 23}
=============================================================================
