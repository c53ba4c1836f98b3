----------------------------- MODULE MCTrading ------------------------------
(* Instances of Trading for TLC.                                           *)
EXTENDS Trading

CONSTANTS r1, r2

\* A plan that sells one share and buys two with the proceeds.
SellThenBuy == [p \in Proposals |-> IF p = 1 THEN "SELL" ELSE "BUY"]
OneThenTwo == [p \in Proposals |-> p]
=============================================================================
