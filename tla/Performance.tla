---------------------------- MODULE Performance ----------------------------
(***************************************************************************)
(* What a client is shown of the past (services/performance.py): the       *)
(* valuations with their returns, and the outcomes of recommendations.     *)
(* The two are written by different callers and share no row.              *)
(***************************************************************************)
EXTENDS Valuation, Outcomes

performanceVars == <<valueVars, outcomeVars>>

PerformanceInit == ValueInit /\ OutcomeInit

PerformanceNext ==
    \/ ValueNext /\ UNCHANGED outcomeVars
    \/ OutcomeNext /\ UNCHANGED valueVars

PerformanceSpec == PerformanceInit /\ [][PerformanceNext]_performanceVars

\* What a client is shown of the past is what happened: returns are what prices
\* earned (performance.py:148-177, 252-257), and advice is scored at its horizon
\* (performance.py:742-757).
TrackRecord == ReturnIsGain /\ ScoredAtHorizon
===============================================================================
