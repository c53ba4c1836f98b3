----------------------------- MODULE MCRebalance -----------------------------
(* Small instances of the rebalancer. *)
EXTENDS Rebalance, TLC

CONSTANTS joint, ira, tech, chips, drug, fund

Sector == (tech :> "technology") @@ (chips :> "technology") @@ (drug :> "health") @@ (fund :> NoSector)
Class == (tech :> "equity") @@ (chips :> "equity") @@ (drug :> "equity") @@ (fund :> "bonds")
Price == (tech :> 100) @@ (chips :> 300) @@ (drug :> 100) @@ (fund :> 200)
Screen == [equity |-> <<drug, chips, tech>>, bonds |-> <<fund>>, cash |-> <<>>]
Target == [equity |-> 60, bonds |-> 30, cash |-> 10]
\* An equity sleeve for which the screen finds only health.
HealthOnly == [equity |-> <<drug>>, bonds |-> <<fund>>, cash |-> <<>>]
MostlyEquity == [equity |-> 90, bonds |-> 5, cash |-> 5]
Band == [equity |-> 5, bonds |-> 5, cash |-> 5]

Value(t, u, c, d, f) ==
    [h \in Holdings |-> 100 *
        CASE h = <<joint, tech>> -> t [] h = <<ira, tech>> -> u [] h = <<joint, chips>> -> c
          [] h = <<joint, drug>> -> d [] h = <<ira, fund>> -> f [] OTHER -> 0]

\* A concentration in one symbol or one sector, or none; in one account or both.
Values == {Value(t, u, c, d, f) : t \in {0, 10, 20, 40}, u \in {0, 12, 30}, c \in {0, 15}, d \in {0, 8, 20}, f \in {0, 20}}

\* Half of what is held of tech is gain.
Gains(value) == [h \in Holdings |-> IF h[2] = tech THEN value[h] \div 2 ELSE value[h] \div 5]

\* Cash in one account, in both, or in none, or overdrawn by a fee; some of it held.
Views == {[value |-> v, gain |-> Gains(v),
           cash |-> (joint :> 100 * c) @@ (ira :> 100 * k),
           hold |-> (joint :> IF c <= 0 THEN 0 ELSE 200) @@ (ira :> 0)] :
            v \in Values, c \in {-3, 0, 5, 30}, k \in {0, 9}}
===============================================================================
