----------------------------- MODULE MCModelSpend -----------------------------
(* Small instances of the model's spend. *)
EXTENDS ModelSpend, TLC

CONSTANTS c1, c2

\* The clients of a firm are alike; no liveness is checked here.
Alike == Permutations(Clients)
===============================================================================
