------------------------------ MODULE Valuation ------------------------------
(***************************************************************************)
(* The valuations of one client and the returns computed from them         *)
(* (services/performance.py): a run ends by recording what the portfolio   *)
(* is worth and what was paid in or out that day; the return of the time   *)
(* between two rows is the growth that those flows do not explain.         *)
(*                                                                         *)
(* The portfolio is cash and shares of one symbol.  Amounts are whole; the *)
(* benchmark, the annualized figures and the money-weighted return are     *)
(* left out.                                                               *)
(***************************************************************************)
EXTENDS Integers, Sequences, FiniteSets, Rows

CONSTANTS Writers,      \* sessions that end a run of the client: jobs and decisions
          Closes,       \* possible prices of the symbol
          Amounts,      \* what is paid in or out at once
          InitCash, InitShares,
          LastDay, MaxFlows

ASSUME ValuationAssumption ==
    /\ LastDay \in Nat /\ MaxFlows \in Nat /\ Closes \subseteq Nat \ {0}
    /\ Amounts \subseteq Nat /\ InitCash \in Nat /\ InitShares \in Nat

Days == 0..LastDay

VARIABLES
    today,      \* the calendar day
    close,      \* the price of the symbol on every day
    cash,       \* Account.cash_balance, over the client's accounts
    shares,     \* Position.quantity
    flows,      \* DEPOSIT and WITHDRAWAL rows of CashTransaction, per day
    snapshots,  \* PortfolioSnapshot: as_of, market_value, net_flow, is_reconstructed
    capture,    \* what each writer has read so far
    paid,       \* bound: how often money came in or went out
    \* ghosts
    gained,     \* what price changes earned the client
    late,       \* money moved that no snapshot of its day counts
    crossed     \* a capture met another one, money moving or a missing quote

valueVars == <<today, close, cash, shares, flows, snapshots, capture, paid, gained, late, crossed>>

Opening(prices) ==
    /\ today = 0 /\ close = prices
    /\ cash = InitCash /\ shares = InitShares /\ flows = [d \in Days |-> 0]
    /\ snapshots = <<>> /\ capture = [w \in Writers |-> None]
    /\ paid = 0 /\ gained = 0 /\ late = FALSE /\ crossed = FALSE

ValueInit == \E prices \in [Days -> Closes] : Opening(prices)

InProgress == {w \in Writers : capture[w] # None}
RowsOf(day) == {i \in DOMAIN snapshots : snapshots[i].as_of = day}
Snapshot(day, value, flow, reconstructed, gain) ==
    [as_of |-> day, market_value |-> value, net_flow |-> flow,
     is_reconstructed |-> reconstructed, gain |-> gain]

----------------------------------------------------------------------------
(* What happens to the portfolio *)

\* A payment with its transaction row.
Pay(amount) ==
    /\ paid < MaxFlows /\ cash + amount >= 0
    /\ cash' = cash + amount /\ flows' = [flows EXCEPT ![today] = @ + amount]
    /\ paid' = paid + 1
    /\ crossed' = (crossed \/ InProgress # {})
    /\ UNCHANGED <<today, close, shares, snapshots, capture, gained, late>>

\* An account is added with the cash it holds, of which no transaction tells.
add_account(amount) ==
    /\ paid < MaxFlows
    /\ cash' = cash + amount /\ paid' = paid + 1
    /\ late' = (late \/ snapshots # <<>>)
    /\ crossed' = (crossed \/ InProgress # {})
    /\ UNCHANGED <<today, close, shares, flows, snapshots, capture, gained>>

\* A fill at the price of the day; fees are left out.
Trade(quantity) ==
    /\ shares + quantity >= 0 /\ cash - quantity * close[today] >= 0
    /\ shares' = shares + quantity /\ cash' = cash - quantity * close[today]
    /\ UNCHANGED <<today, close, flows, snapshots, capture, paid, gained, late, crossed>>

\* compute_performance takes no reconstructed row unless asked to.
Measured == {i \in DOMAIN snapshots : ~snapshots[i].is_reconstructed}

Missed(day) ==
    IF Measured \cap RowsOf(day) = {} THEN Measured # {} /\ flows[day] # 0
    ELSE \E i \in Measured \cap RowsOf(day) : snapshots[i].net_flow # flows[day]

DayEnds ==
    /\ today < LastDay
    /\ today' = today + 1
    /\ gained' = gained + shares * (close[today + 1] - close[today])
    /\ late' = (late \/ Missed(today))
    /\ UNCHANGED <<close, cash, shares, flows, snapshots, capture, paid, crossed>>

----------------------------------------------------------------------------
(* capture_snapshot, in the transaction of a run that ends *)

At(w, stage) == capture[w] # None /\ capture[w].stage = stage

\* The portfolio is priced by live quotes; what has no quote is left out.
CaptureView(w) ==
    \E quoted \in BOOLEAN :
        LET value == cash + (IF quoted THEN shares * close[today] ELSE 0)
        IN  /\ capture[w] = None
            /\ value > 0 \/ (quoted /\ shares > 0)
            /\ capture' = [capture EXCEPT ![w] =
                    [stage |-> "flows", row |-> Snapshot(today, value, 0, FALSE, gained), at |-> 0]]
            /\ crossed' = (crossed \/ InProgress # {} \/ (shares > 0 /\ ~quoted))
            /\ UNCHANGED <<today, close, cash, shares, flows, snapshots, paid, gained, late>>

\* Mutant: the day's payments are taken to be in the value already.
FlowsOn_None(day) == 0

FlowsOn(day) == flows[day]

CaptureFlows(w) ==
    /\ At(w, "flows")
    /\ capture' = [capture EXCEPT ![w].row.net_flow = FlowsOn(capture[w].row.as_of), ![w].stage = "row"]
    /\ UNCHANGED <<today, close, cash, shares, flows, snapshots, paid, gained, late, crossed>>

\* The look for a row of the day, which any of several answers.
CaptureRow(w) ==
    LET found == RowsOf(capture[w].row.as_of)
    IN  /\ At(w, "row")
        /\ \/ \E i \in found : capture' = [capture EXCEPT ![w].at = i, ![w].stage = "commit"]
           \/ found = {} /\ capture' = [capture EXCEPT ![w].stage = "commit"]
        /\ UNCHANGED <<today, close, cash, shares, flows, snapshots, paid, gained, late, crossed>>

\* A row that was found is updated, also when a backfill had made it; without one
\* a row is inserted, and no constraint knows the day of a whole household.
CaptureCommit(w) ==
    LET i == capture[w].at  row == capture[w].row
    IN  /\ At(w, "commit")
        /\ snapshots' = IF i = 0 THEN Append(snapshots, row) ELSE [snapshots EXCEPT ![i] = row]
        /\ capture' = [capture EXCEPT ![w] = None]
        /\ UNCHANGED <<today, close, cash, shares, flows, paid, gained, late, crossed>>

\* The transaction of the run fails, or the process dies.
CaptureLost(w) ==
    /\ capture[w] # None
    /\ capture' = [capture EXCEPT ![w] = None]
    /\ UNCHANGED <<today, close, cash, shares, flows, snapshots, paid, gained, late, crossed>>

----------------------------------------------------------------------------
(* backfill_snapshots: today's shares and cash at the prices of the past.  *)
(* What such a row is worth is left out, as no return is computed from it. *)

Unrecorded == {d \in Days : d <= today /\ RowsOf(d) = {}}

backfill_snapshots ==
    LET days == Unrecorded
        n == Len(snapshots)
        DayOf(i) == CHOOSE d \in days : Cardinality({e \in days : e <= d}) = i - n
    IN  /\ shares > 0 /\ days # {}
        /\ snapshots' = [i \in 1..n + Cardinality(days) |->
                IF i <= n THEN snapshots[i]
                ELSE Snapshot(DayOf(i), 0, 0, TRUE, 0)]
        /\ crossed' = (crossed \/ InProgress # {})
        /\ UNCHANGED <<today, close, cash, shares, flows, capture, paid, gained, late>>

ValueNext ==
    \/ \E amount \in Amounts : Pay(amount) \/ Pay(-amount) \/ add_account(amount)
    \/ \E quantity \in {-1, 1} : Trade(quantity)
    \/ DayEnds
    \/ \E w \in Writers :
        \/ CaptureView(w) \/ CaptureFlows(w) \/ CaptureRow(w)
        \/ CaptureCommit(w) \/ CaptureLost(w)
    \/ backfill_snapshots

----------------------------------------------------------------------------
(* compute_performance and time_weighted_return *)

\* Of a series in the order of its days: each row with the next one.
Periods == {p \in Measured \X Measured :
    /\ snapshots[p[1]].as_of < snapshots[p[2]].as_of
    /\ \A k \in Measured : ~(/\ snapshots[p[1]].as_of < snapshots[k].as_of
                             /\ snapshots[k].as_of < snapshots[p[2]].as_of)}

\* What the return of a period is measured against, and what it gained.
AdjustedBegin(p) == snapshots[p[1]].market_value + snapshots[p[2]].net_flow
PeriodGain(p) == snapshots[p[2]].market_value - AdjustedBegin(p)

EarnedIn(p) == snapshots[p[2]].gain - snapshots[p[1]].gain

\* Between two measured valuations the gain of the return series is what prices
\* earned the client, whatever was bought, sold, paid in, backfilled, retried
\* or recomputed between them, if each day's payments are counted by its row
\* and captures met nothing (performance.py:148-177, 252-257).
ReturnIsGain == ~crossed /\ ~late => \A p \in Periods : PeriodGain(p) = EarnedIn(p)

\* db.py:450: "performance measurement must distinguish a return from a deposit":
\* the gain of the return series is what prices earned, whenever the money came.
DepositIsNoReturn == ~crossed => \A p \in Periods : PeriodGain(p) = EarnedIn(p)

\* performance.py:138: "a retried job cannot double-count a day in the return
\* series": a day has one row.
OneRowPerDay == \A i, j \in DOMAIN snapshots : snapshots[i].as_of = snapshots[j].as_of => i = j
===============================================================================
