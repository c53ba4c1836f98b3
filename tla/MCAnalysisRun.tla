--------------------------- MODULE MCAnalysisRun ----------------------------
(* Instances of AnalysisRun for TLC.                                       *)
EXTENDS AnalysisRun

\* One instrument sold at a loss, and an asset class with a single name.
TwoClasses == [t \in Tickers |-> IF t = "wash" THEN "bond" ELSE "equity"]

\* The second version of the policy rules out what the first allowed.
Tightening == [v \in 1..MaxVersion |-> IF v = 1 THEN {} ELSE {"a"}]
=============================================================================
