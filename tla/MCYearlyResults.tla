--------------------------- MODULE MCYearlyResults ---------------------------
(* An instance of YearlyResults for TLC.                                   *)
EXTENDS YearlyResults

\* The marginal price the solver gives is negative (its naming convention).
MCPrices == {-1}
=============================================================================
