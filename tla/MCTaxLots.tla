------------------------------ MODULE MCTaxLots ------------------------------
(* Small instances of the tax lots. *)
EXTENDS TaxLots, TLC

CONSTANTS joint, ira, other, c1, c2

TwoAccounts == (joint :> c1) @@ (ira :> c1)
TwoClients == (joint :> c1) @@ (other :> c2)

Holding(a, q, cost, acquired) == [account |-> a, quantity |-> q, cost |-> cost, acquired |-> acquired]

\* Bought long ago at a low price and lately at a high one.
Opened == {<<Holding(joint, 2, 48, -2), Holding(joint, 1, 96, 0)>>}
OtherOpened == {<<Holding(joint, 2, 96, 0), Holding(other, 1, 96, 0)>>}
===============================================================================
