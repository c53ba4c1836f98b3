------------------------------ MODULE Rebalance ------------------------------
(***************************************************************************)
(* The rebalancer (services/rebalance.plan_rebalance) over one portfolio:  *)
(* position and sector breaches are trimmed, then cash is deployed into    *)
(* the asset classes below target.  The plan is built one breach and one   *)
(* pick at a time, each sized against what was planned before it.          *)
(*                                                                         *)
(* Money is counted in cents and shares are whole.  Whether the tax on a   *)
(* taxable trim is above a quarter of it, which withholds it, depends on   *)
(* tax lots that are not modelled here: it may or may not be.              *)
(***************************************************************************)
EXTENDS Integers, Sequences, FiniteSetsExt, Functions

CONSTANTS
    Accounts, Taxable,    \* the active accounts, those that are taxed
    Symbols, Sectors, Classes,
    NoSector,             \* of a broad fund, and where none is on file
    SectorOf, ClassOf, PriceOf,
    Candidates,           \* of a class: the screened symbols, best first
    Portfolios,           \* [value, gain, cash, hold] of holdings and accounts
    max_position_pct, max_sector_pct, min_cash_pct,
    target, band,         \* of a class, cash among them, in percent
    min_position_notional,
    CostPct,              \* slippage and commission
    max_proposals

Holdings == Accounts \X Symbols
Sleeves == Classes \cup {"cash"}

\* A security has one row, from which the screen reads its class: it is a
\* candidate of that class only, and once.
ASSUME RebalanceAssumption ==
    /\ IsFiniteSet(Accounts) /\ IsFiniteSet(Symbols)
    /\ Taxable \subseteq Accounts /\ "cash" \notin Classes /\ NoSector \notin Sectors
    /\ SectorOf \in [Symbols -> Sectors \cup {NoSector}] /\ ClassOf \in [Symbols -> Classes]
    /\ PriceOf \in [Symbols -> Nat \ {0}] /\ Candidates \in [Sleeves -> Seq(Symbols)]
    /\ \A c \in Sleeves : \A i, j \in DOMAIN Candidates[c] :
        ClassOf[Candidates[c][i]] = c /\ (Candidates[c][i] = Candidates[c][j] => i = j)
    /\ Portfolios \subseteq [value : [Holdings -> Nat], gain : [Holdings -> Int],
                             cash : [Accounts -> Int], hold : [Accounts -> Nat]]
    /\ {max_position_pct, max_sector_pct, min_cash_pct, CostPct} \subseteq 0..100
    /\ target \in [Sleeves -> 0..100] /\ band \in [Sleeves -> 0..100]
    /\ min_position_notional \in Nat \ {0} /\ max_proposals \in Nat \ {0}

VARIABLES
    view,       \* the portfolio as it was priced
    phase,      \* "trim", "entries", "picks" or "done"
    breaches,   \* the positions and sectors still to be trimmed
    planned,    \* of each holding: what is to be sold
    deferred,   \* holdings whose trim is withheld for its tax
    entries,    \* the underweight classes still to be filled
    queue,      \* the picks of the class in hand
    per_pick,   \* what each of them is to have
    bought,     \* of each holding: what is to be bought
    left,       \* of each account: cash_by_account
    remaining,
    count       \* proposals, before duplicates are merged

planVars == <<view, phase, breaches, planned, deferred, entries, queue, per_pick, bought, left, remaining, count>>

Total(f, S) == SumFunctionOnSet(f, S)
AtLeast0(n) == IF n < 0 THEN 0 ELSE n

----------------------------------------------------------------------------
(* The portfolio, and what trading costs *)

cash == Total(view.cash, Accounts)
invested_value == Total(view.value, Holdings)
total_value == invested_value + cash
Covered(S) == Accounts \X S   \* the holdings of these symbols
OfSector(sector) == {s \in Symbols : SectorOf[s] = sector}
OfClass(class) == {s \in Symbols : ClassOf[s] = class}
floor == (min_cash_pct * total_value) \div 100

available_cash(a) == AtLeast0(view.cash[a] - view.hold[a])

estimate_trading_cost(notional) == (CostPct * notional) \div 100
net_sale_proceeds(notional) == notional - estimate_trading_cost(notional)
gross_purchase_cost(notional) == notional + estimate_trading_cost(notional)

\* Whole shares, never rounded up.
_round_quantity(notional, price) == notional \div price

----------------------------------------------------------------------------
(* Trims *)

PositionExcess(s) == (100 * Total(view.value, Covered({s})) - max_position_pct * total_value) \div 100
SectorExcess(k) == (100 * Total(view.value, Covered(OfSector(k))) - max_sector_pct * invested_value) \div 100

Breaches == ({"position"} \X Symbols) \cup ({"sector"} \X Sectors)
excess_value(b) == IF b[1] = "position" THEN PositionExcess(b[2]) ELSE SectorExcess(b[2])
concentration_breaches == {b \in Breaches : excess_value(b) > 0}

_holdings_for_breach(b) == Covered(IF b[1] = "position" THEN {b[2]} ELSE OfSector(b[2]))

PlanInit ==
    /\ view \in Portfolios /\ total_value > 0
    /\ phase = "trim" /\ breaches = concentration_breaches
    /\ planned = [h \in Holdings |-> 0] /\ deferred = {} /\ bought = [h \in Holdings |-> 0]
    /\ entries = {} /\ queue = <<>> /\ per_pick = 0
    /\ left = [a \in Accounts |-> 0] /\ remaining = 0 /\ count = 0

\* Positions before sectors, and of those alike the largest excess first.
Foremost(b) ==
    \A c \in breaches :
        \/ b[1] = "position" /\ c[1] = "sector"
        \/ b[1] = c[1] /\ excess_value(c) <= excess_value(b)

\* What earlier trims of the same holdings leave of it.
Excess(b) == excess_value(b) - Total(planned, _holdings_for_breach(b))

\* What earlier breaches leave of a holding.
Kept(h) == view.value[h] - planned[h]
sellable(h) == AtLeast0(Kept(h))

MoreGain(h, g) == view.gain[h] > view.gain[g]

\* Mutant: taxable accounts are trimmed as readily as the sheltered ones.
SellsBefore_AnyAccount(h, g) == MoreGain(h, g)

\* The sheltered holdings first, and of those alike the most unrealized gain.
SellsBefore(h, g) ==
    \/ h[1] \notin Taxable /\ g[1] \in Taxable
    \/ (h[1] \in Taxable <=> g[1] \in Taxable) /\ MoreGain(h, g)

\* The places a sort may give holdings: ties stay in the order of the rows.
Sorted(H) ==
    {place \in Injection(H, 1..Cardinality(H)) : \A h, g \in H : SellsBefore(h, g) => place[h] < place[g]}

\* What is asked of a holding, when those before it give all they have.
_trim_targets(H, place, excess, h) ==
    LET before == Total([g \in H |-> sellable(g)], {g \in H : place[g] < place[h]})
    IN  Min({AtLeast0(excess - before), sellable(h)})

\* A trade too small to make is not made.
Sale(amount, h) ==
    IF amount < min_position_notional THEN 0 ELSE PriceOf[h[2]] * _round_quantity(amount, PriceOf[h[2]])

Trim ==
    \E b \in breaches :
        LET H == _holdings_for_breach(b)
            excess == Excess(b)
        IN  /\ phase = "trim" /\ Foremost(b)
            /\ breaches' = breaches \ {b}
            /\ \/ /\ excess < min_position_notional
                  /\ UNCHANGED <<planned, deferred, count>>
               \/ \E place \in Sorted(H) :
                  LET amount == [h \in H |-> _trim_targets(H, place, excess, h)]
                      sales == {h \in H : amount[h] >= min_position_notional}
                  IN  \E withheld \in SUBSET {h \in sales : h[1] \in Taxable} :
                      /\ excess >= min_position_notional
                      /\ planned' = [h \in Holdings |->
                            planned[h] + IF h \in sales \ withheld THEN Sale(amount[h], h) ELSE 0]
                      /\ deferred' = deferred \cup withheld
                      /\ count' = count + Cardinality({h \in sales \ withheld : Sale(amount[h], h) > 0})
            /\ UNCHANGED <<view, phase, entries, queue, per_pick, bought, left, remaining>>

----------------------------------------------------------------------------
(* Purchases *)

Funds == [a \in Accounts |-> available_cash(a) + Total([s \in Symbols |-> net_sale_proceeds(planned[<<a, s>>])], Symbols)]

\* Mutant: the floor is not held back.
Deployable_All(largest) == Funds

\* The floor comes out of the largest balance, as far as that goes.
Deployable(largest) == [Funds EXCEPT ![largest] = AtLeast0(@ - floor)]

\* What a class falls short of its target once the trims are done.
Held(class) ==
    IF class = "cash" THEN cash + Total(planned, Holdings)
    ELSE Total([h \in Holdings |-> Kept(h)], Covered(OfClass(class)))
Gap(class) == (target[class] * total_value - 100 * Held(class)) \div 100
Out(class) == IF Gap(class) < 0 THEN -Gap(class) ELSE Gap(class)
Breached(class) == 100 * Out(class) > band[class] * total_value

\* The classes to fill: those below target and outside their band; where there
\* are none, of those below target the four that are furthest from it.
_projected_drift ==
    LET short == {c \in Sleeves : Gap(c) > 0}
        breached == {c \in short : Breached(c)}
    IN  IF breached # {} THEN {breached}
        ELSE {four \in kSubset(Min({4, Cardinality(short)}), short) :
                \A c \in four, d \in short \ four : Out(d) <= Out(c)}

BeginBuys ==
    \E largest \in Accounts :
        LET investable == Total(Deployable(largest), Accounts)
        IN  /\ phase = "trim" /\ breaches = {}
            /\ \A a \in Accounts : Funds[a] <= Funds[largest]
            /\ left' = Deployable(largest) /\ remaining' = investable
            /\ entries' \in IF investable < min_position_notional THEN {{}} ELSE _projected_drift
            /\ phase' = "entries"
            /\ UNCHANGED <<view, breaches, planned, deferred, queue, per_pick, bought, count>>

Share(allocation, n) == allocation \div n

\* The class furthest from its target is next.  One without a candidate stays
\* as it is.
NextEntry ==
    \E class \in entries :
        LET allocation == Min({Gap(class), remaining})
            picks == Min({Len(Candidates[class]), 3, allocation \div min_position_notional})
        IN  /\ phase = "entries" /\ remaining >= min_position_notional
            /\ \A c \in entries : Out(c) <= Out(class)
            /\ entries' = entries \ {class}
            /\ IF picks = 0
               THEN UNCHANGED <<phase, queue, per_pick>>
               ELSE /\ phase' = "picks"
                    /\ queue' = SubSeq(Candidates[class], 1, picks)
                    /\ per_pick' = Share(allocation, picks)
            /\ UNCHANGED <<view, breaches, planned, deferred, bought, left, remaining, count>>

EndPlan ==
    /\ phase = "entries" /\ (entries = {} \/ remaining < min_position_notional)
    /\ phase' = "done"
    /\ UNCHANGED <<view, breaches, planned, deferred, entries, queue, per_pick, bought, left, remaining, count>>

\* The account with the most cash that can fund a share; failing that, a trade.
_account_for_buy ==
    LET whole == {a \in Accounts : left[a] >= per_pick}
        part == {a \in Accounts : left[a] >= min_position_notional}
        able == IF whole # {} THEN whole ELSE part
    IN  {a \in able : \A b \in able : left[b] <= left[a]}

\* The trims are not credited.
_position_headroom(s) ==
    AtLeast0((max_position_pct * total_value) \div 100 - Total(view.value, Covered({s})) - Total(bought, Covered({s})))

Exposure(k) == Total([h \in Holdings |-> Kept(h) + bought[h]], Covered(OfSector(k)))

\* Mutant: the limit is taken of everything the client owns.
_sector_headroom_OfTotal(s) ==
    IF SectorOf[s] = NoSector THEN {}
    ELSE {AtLeast0((max_sector_pct * total_value - 100 * Exposure(SectorOf[s])) \div 100)}

\* The room in the sector of a symbol; without a sector there is no limit.
\* Only the trims of the sector itself leave what is taken to be invested.
_sector_headroom(s) ==
    LET k == SectorOf[s]
        invested == invested_value - Total(planned, Covered(OfSector(k))) + Total(bought, Holdings)
    IN  IF k = NoSector THEN {}
        ELSE IF invested <= 0 THEN {0}
        ELSE IF max_sector_pct = 100 THEN {}
        ELSE {AtLeast0((max_sector_pct * invested - 100 * Exposure(k)) \div (100 - max_sector_pct))}

spendable(a) == left[a] - estimate_trading_cost(left[a])

Pick ==
    LET s == Head(queue)
        Amount(a) == Min({per_pick, _position_headroom(s), remaining, spendable(a)} \cup _sector_headroom(s))
        Notional(a) == PriceOf[s] * _round_quantity(Amount(a), PriceOf[s])
        Buys(a) == Amount(a) >= min_position_notional /\ Notional(a) > 0
    IN  /\ phase = "picks" /\ queue # <<>>
        /\ queue' = Tail(queue)
        /\ \/ \E a \in _account_for_buy :
              /\ Buys(a)
              /\ bought' = [bought EXCEPT ![<<a, s>>] = @ + Notional(a)]
              /\ left' = [left EXCEPT ![a] = @ - gross_purchase_cost(Notional(a))]
              /\ remaining' = remaining - Notional(a)
              /\ count' = count + 1
           \/ /\ \E a \in _account_for_buy : ~Buys(a)
              /\ UNCHANGED <<bought, left, remaining, count>>
           \/ /\ _account_for_buy = {}
              /\ UNCHANGED <<bought, left, remaining, count>>
        /\ UNCHANGED <<view, phase, breaches, planned, deferred, entries, per_pick>>

EndEntry ==
    /\ phase = "picks" /\ queue = <<>>
    /\ phase' = IF count >= max_proposals THEN "done" ELSE "entries"
    /\ UNCHANGED <<view, breaches, planned, deferred, entries, queue, per_pick, bought, left, remaining, count>>

PlanNext == Trim \/ BeginBuys \/ NextEntry \/ Pick \/ EndEntry \/ EndPlan

PlanSpec == PlanInit /\ [][PlanNext]_planVars

----------------------------------------------------------------------------
PlanTypeOK ==
    /\ view \in Portfolios /\ phase \in {"trim", "entries", "picks", "done"}
    /\ breaches \subseteq Breaches /\ entries \subseteq Sleeves
    /\ planned \in [Holdings -> Nat] /\ bought \in [Holdings -> Nat]
    /\ deferred \subseteq Taxable \X Symbols
    /\ queue \in Seq(Symbols) /\ per_pick \in Nat
    /\ left \in [Accounts -> Nat] /\ remaining \in Nat /\ count \in Nat

\* No account spends more than its settled cash and what its own sales bring
\* after costs: an IRA funds nothing in a taxable account (rebalance.py:374,
\* 489-492).
SelfFunded ==
    \A a \in Accounts :
        Total([s \in Symbols |-> gross_purchase_cost(bought[<<a, s>>])], Symbols) <= Funds[a]

\* Overlapping breaches never sell the same shares twice (rebalance.py:230-242).
NeverOversold == \A h \in Holdings : planned[h] <= view.value[h]

\* What is sold of a symbol or of a sector is no more than the larger of the
\* breaches it cures: trims go to the limit, not through it (rebalance.py:16,
\* 252-258).
TrimToLimit ==
    /\ \A s \in Symbols :
        LET k == SectorOf[s] IN
        (k = NoSector \/ SectorExcess(k) <= 0) => Total(planned, Covered({s})) <= AtLeast0(PositionExcess(s))
    /\ \A k \in Sectors :
        LET positions == Total([s \in Symbols |-> AtLeast0(PositionExcess(s))], OfSector(k))
        IN  Total(planned, Covered(OfSector(k))) <= positions \/ Total(planned, Covered(OfSector(k))) <= SectorExcess(k)

\* A symbol is sold from a taxable account only once the sheltered ones have no
\* more than a share, or a trade too small to make, of it (rebalance.py:683).
ShelterFirst ==
    \A a \in Taxable, b \in Accounts \ Taxable, s \in Symbols :
        planned[<<a, s>>] > 0 => \/ Kept(<<b, s>>) < PriceOf[s]
                                 \/ Kept(<<b, s>>) < min_position_notional

\* What the plan buys is within its position limit when the plan is done, over
\* all the accounts and classes that bought it (rebalance.py:704-718).
BuysKeepPositionLimit ==
    \A s \in Symbols : Total(bought, Covered({s})) > 0
        => 100 * (Total(view.value, Covered({s})) + Total(bought, Covered({s}))) <= max_position_pct * total_value

Invested == Total([h \in Holdings |-> Kept(h) + bought[h]], Holdings)
BoughtWithin(k) == Total(bought, Covered(OfSector(k))) > 0 => 100 * Exposure(k) <= max_sector_pct * Invested

\* Where nothing is trimmed outside a sector, what the plan buys of it keeps
\* it within its limit (rebalance.py:756-770).
BuysKeepSectorLimitUntrimmed ==
    \A k \in Sectors : Total(planned, Holdings \ Covered(OfSector(k))) = 0 => BoughtWithin(k)

\* rebalance.py:739: the room is "Dollars addable to `sector` before it
\* breaches the sector limit", which "Accounts for the trims this plan already
\* proposes".
BuysKeepSectorLimit == \A k \in Sectors : BoughtWithin(k)

CashAfter ==
    cash + Total([h \in Holdings |-> net_sale_proceeds(planned[h]) - gross_purchase_cost(bought[h])], Holdings)

\* The plan leaves the cash floor whole, wherever one account could hold it and
\* none is overdrawn (rebalance.py:385-389).
CoveredFloorKept ==
    phase # "trim" /\ (\E a \in Accounts : Funds[a] >= floor) /\ (\A a \in Accounts : view.cash[a] >= 0)
        => CashAfter >= floor

\* Purchases never lift a class above its target (rebalance.py:429-442).
NoOvershoot ==
    \A c \in Classes :
        Total(bought, Covered(OfClass(c))) > 0
            => 100 * (Held(c) + Total(bought, Covered(OfClass(c)))) <= target[c] * total_value

\* Money comes from where it is and the floor stays.
CashKept == SelfFunded /\ CoveredFloorKept

\* Sales cure the breaches, each once and from where it costs least.
TrimsCure == NeverOversold /\ TrimToLimit /\ ShelterFirst

\* Purchases stay within every limit that the plan was made to restore.
BuysFit == BuysKeepPositionLimit /\ BuysKeepSectorLimitUntrimmed /\ NoOvershoot

\* rebalance.py:684: of the holdings alike in shelter "then the least gain" is
\* sold first: where no position limit asks for a symbol, it is sold only when
\* a taxable holding of its sector with less gain is sold out or withheld.
LeastGainFirst ==
    \A h, g \in Taxable \X Symbols :
        planned[h] > 0 /\ PositionExcess(h[2]) <= 0 /\ SectorOf[g[2]] = SectorOf[h[2]]
            /\ view.gain[g] < view.gain[h] /\ g \notin deferred
            => Kept(g) < PriceOf[g[2]] \/ Kept(g) < min_position_notional

\* rebalance.py:24: "The cash floor is respected."
FloorKept == bought # [h \in Holdings |-> 0] => CashAfter >= floor

\* rebalance.py:343: selling "brings it back to the limit", of a sector too,
\* give or take a trade too small to make.
TrimCuresSector ==
    phase = "done" /\ deferred = {} /\ bought = [h \in Holdings |-> 0] => \A k \in Sectors :
        100 * (Exposure(k) - min_position_notional) <= max_sector_pct * Invested

\* rebalance.py:188: the cap on proposals "exists to bound a runaway plan".
PlanCapped == count <= max_proposals
===============================================================================
