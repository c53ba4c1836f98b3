------------------------------- MODULE Outcomes -------------------------------
(***************************************************************************)
(* What became of recommendations (services/performance.py): a run opens a *)
(* row for each horizon with the price of the day; a job scores the rows   *)
(* whose horizon has elapsed, at the close the horizon fell on, on         *)
(* whichever day it comes round to them.                                   *)
(*                                                                         *)
(* One symbol.  Closes exist for trading days only.  The benchmark is      *)
(* scored alike and left out.                                              *)
(***************************************************************************)
EXTENDS Integers, FiniteSets, Rows

CONSTANTS OutcomeRuns,     \* runs of the client whose advice stood
          horizons,        \* in days
          OutcomePrices,
          EvaluationLimit, \* open rows that one evaluation takes
          _HORIZON_PRICE_TOLERANCE_DAYS,
          EndOfCalendar

ASSUME OutcomeAssumption ==
    /\ horizons \subseteq Nat /\ EvaluationLimit \in Nat /\ EndOfCalendar \in Nat
    /\ _HORIZON_PRICE_TOLERANCE_DAYS \in Nat /\ OutcomePrices \subseteq Nat \ {0}

Calendar == 0..EndOfCalendar
OutcomeKeys == OutcomeRuns \X horizons

VARIABLES
    date,
    price,       \* of each day: what it trades at, None on a day without a close
    outcomes     \* RecommendationOutcome by run and horizon, None before the run

outcomeVars == <<date, price, outcomes>>

Unopened(prices) == date = 0 /\ price = prices /\ outcomes = [k \in OutcomeKeys |-> None]

OutcomeInit == \E prices \in [Calendar -> OutcomePrices \cup {None}] : Unopened(prices)

Recommended == {k \in OutcomeKeys : outcomes[k] # None}
Open == {k \in Recommended : outcomes[k].status = "open"}
Target(k) == outcomes[k].recommended_at + k[2]

\* A run that is stored again, as after a second decision, finds its rows there;
\* a symbol without a quote opens none.
record_recommendations(run) ==
    \E quote \in OutcomePrices :
        /\ outcomes' = [k \in OutcomeKeys |->
                IF k[1] = run /\ outcomes[k] = None
                THEN [recommended_at |-> date, entry_price |-> quote, status |-> "open", exit_price |-> None]
                ELSE outcomes[k]]
        /\ UNCHANGED <<date, price>>

\* The latest day up to `target` with a close, unless it is too long ago; of the
\* history as it is fetched on day `now`.
CloseDays(target, now) == {d \in Calendar : d <= target /\ d <= now /\ price[d] # None}
LatestOf(days) == CHOOSE d \in days : \A e \in days : e <= d

\* Mutant: the latest close there is.
_close_at_Latest(target, now) ==
    IF CloseDays(now, now) = {} THEN None ELSE price[LatestOf(CloseDays(now, now))]

_close_at(target, now) ==
    LET days == CloseDays(target, now)
    IN  IF days = {} \/ target - LatestOf(days) > _HORIZON_PRICE_TOLERANCE_DAYS THEN None ELSE price[LatestOf(days)]

Scored(k) ==
    LET exit == _close_at(Target(k), date)
    IN  [outcomes[k] EXCEPT !.status = IF exit = None THEN "void" ELSE "evaluated", !.exit_price = exit]

\* The oldest open rows are taken first; those of them that are due are scored.
evaluate_outcomes ==
    \E taken \in SUBSET Open :
        /\ Cardinality(taken) = EvaluationLimit \/ (taken = Open /\ Cardinality(Open) < EvaluationLimit)
        /\ \A k \in taken, l \in Open \ taken : outcomes[k].recommended_at <= outcomes[l].recommended_at
        /\ outcomes' = [k \in OutcomeKeys |-> IF k \in taken /\ Target(k) <= date THEN Scored(k) ELSE outcomes[k]]
        /\ UNCHANGED <<date, price>>

NextDate ==
    /\ date < EndOfCalendar /\ date' = date + 1
    /\ UNCHANGED <<price, outcomes>>

OutcomeNext ==
    \/ \E run \in OutcomeRuns : record_recommendations(run)
    \/ evaluate_outcomes
    \/ NextDate

----------------------------------------------------------------------------
\* What an outcome says does not depend on the day it was evaluated: the return
\* of a horizon is between the day of the advice and the last close on or before
\* the day it elapses; without one near that day there is no return
\* (performance.py:742-757, 788-800).
ScoredAtHorizon ==
    \A k \in Recommended \ Open :
        LET near == {d \in Calendar : /\ Target(k) - _HORIZON_PRICE_TOLERANCE_DAYS <= d
                                      /\ d <= Target(k) /\ price[d] # None}
        IN  /\ Target(k) <= date
            /\ (outcomes[k].status = "void") = (near = {})
            /\ \A d \in near : (\A e \in near : e <= d) => outcomes[k].exit_price = price[d]

\* performance.py:746: "Score recommendations whose horizon has elapsed": after
\* an evaluation none is left.
ElapsedIsScored ==
    [][outcomes' # outcomes /\ Recommended' = Recommended
        => \A k \in Open' : Target(k)' > date]_outcomeVars
===============================================================================
