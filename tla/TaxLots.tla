------------------------------- MODULE TaxLots -------------------------------
(***************************************************************************)
(* Tax lots of one symbol (services/tax_lots.py): purchases open lots and  *)
(* inherit losses the wash-sale rule disallows, sales consume lots by a    *)
(* method and realize gains.  Amounts are whole; the code rounds to six    *)
(* decimals.                                                               *)
(***************************************************************************)
EXTENDS Integers, SequencesExt, FiniteSetsExt, Functions

CONSTANTS
    None, Accounts,
    ClientOf,      \* of an account: whose it is
    Taxable,
    Seeds,         \* sequences of opening lots
    Prices, Quantities,
    WASH_SALE_WINDOW_DAYS, LONG_TERM_DAYS,
    ShortRate, LongRate,   \* percent
    MaxDay, MaxLots, MaxTrades   \* bounds

LOT_METHODS == {"HIFO", "FIFO", "LIFO", "MINTAX"}

ASSUME LotsAssumption ==
    /\ Taxable \subseteq Accounts /\ Quantities \subseteq Nat \ {0} /\ Prices \subseteq Nat
    /\ {WASH_SALE_WINDOW_DAYS, LONG_TERM_DAYS, ShortRate, LongRate, MaxDay, MaxLots, MaxTrades} \subseteq Nat
    /\ Seeds \subseteq Seq([account : Accounts, quantity : Nat \ {0}, cost : Nat, acquired : Int])
    /\ None \notin Int \cup {"long", "short"}

VARIABLES
    lots,       \* the table, in the order of its ids
    position,   \* of each account: shares and what they cost
    day,
    book,       \* of each account: shares and money that came and went
    trades,     \* how many there were
    record      \* of each lot: the day it last lost on a sale, and whether it ever won

vars == <<lots, position, day, book, trades, record>>

Ids == DOMAIN lots
Total(f, S) == SumFunctionOnSet(f, S)
Least(S) == CHOOSE a \in S : \A b \in S : a <= b
Of(a) == {i \in Ids : lots[i].account = a}
open_lots(a) == {i \in Of(a) : lots[i].remaining > 0}

----------------------------------------------------------------------------
(* Which lots a sale consumes *)

term_for(acquired) == IF day - acquired > LONG_TERM_DAYS THEN "long" ELSE "short"

TaxGroup(i, price) ==
    IF lots[i].cost > price THEN 0 ELSE IF term_for(lots[i].acquired) = "long" THEN 1 ELSE 2

Older(i, j) == lots[i].acquired < lots[j].acquired \/ (lots[i].acquired = lots[j].acquired /\ i < j)

\* Mutant: HIFO starts with the cheapest.
Dearer_Cheaper(i, j) == lots[i].cost < lots[j].cost \/ (lots[i].cost = lots[j].cost /\ Older(i, j))

Dearer(i, j) == lots[i].cost > lots[j].cost \/ (lots[i].cost = lots[j].cost /\ Older(i, j))

\* Lot i is sold before lot j.  Ties stay in the order in which lots are read.
SoldBefore(method, price, i, j) ==
    \/ method = "FIFO" /\ Older(i, j)
    \/ method = "LIFO" /\ lots[i].acquired > lots[j].acquired
    \/ method = "LIFO" /\ lots[i].acquired = lots[j].acquired /\ i < j
    \/ method = "HIFO" /\ Dearer(i, j)
    \/ method = "MINTAX" /\ TaxGroup(i, price) < TaxGroup(j, price)
    \/ method = "MINTAX" /\ TaxGroup(i, price) = TaxGroup(j, price) /\ Dearer(i, j)

Remaining(S) == Total([i \in Ids |-> lots[i].remaining], S)
Shares(a) == Remaining(open_lots(a))

\* A lot gives what it has, or what those before it leave to sell.
Given(a, quantity, price, method, i) ==
    LET rest == quantity - Remaining({j \in open_lots(a) : SoldBefore(method, price, j, i)})
    IN  IF rest <= 0 THEN 0 ELSE Least({rest, lots[i].remaining})

select_lots(a, quantity, price, method) ==
    {x \in {[lot |-> i, shares |-> Given(a, quantity, price, method, i)] : i \in open_lots(a)} : x.shares > 0}

Basis(selections) == Total([x \in selections |-> x.shares * lots[x.lot].cost], selections)

\* SaleEstimate.estimated_tax, in hundredths.
estimated_tax(selections, price) ==
    FoldSet(LAMBDA x, n : n + x.shares * (price - lots[x.lot].cost)
                            * IF term_for(lots[x.lot].acquired) = "long" THEN LongRate ELSE ShortRate, 0, selections)

----------------------------------------------------------------------------
(* Wash sales *)

InWindow(disposed) == disposed # None /\ disposed >= day - WASH_SALE_WINDOW_DAYS

\* The losses of the client that a purchase now would wash.
check_wash_sale(client) ==
    {i \in Ids : /\ lots[i].account \in Taxable /\ ClientOf[lots[i].account] = client
                 /\ InWindow(lots[i].disposed) /\ lots[i].gain < 0}

\* The loss a purchase replaces is looked for among the lots of everybody.
ReplacedLots == {i \in Ids : InWindow(lots[i].disposed) /\ lots[i].gain < 0}

\* A purchase outside a taxable account loses the loss for good.
Deferrable(a) == check_wash_sale(ClientOf[a]) # {} /\ a \in Taxable

\* Mutant: a purchase of any size inherits the whole loss.
Disallowed_Whole(i, quantity) == -lots[i].gain

Disallowed(i, quantity) == (-lots[i].gain * Least({quantity, lots[i].quantity})) \div lots[i].quantity

Replaced(lot, amount, new) == [lot EXCEPT !.disallowed = amount, !.replacement = new]

----------------------------------------------------------------------------
Rollup(table, a) ==
    LET mine == {i \in DOMAIN table : table[i].account = a}
    IN  [quantity |-> Total([i \in DOMAIN table |-> table[i].remaining], mine),
         cost |-> Total([i \in DOMAIN table |-> table[i].remaining * table[i].cost], mine)]

_rebuild_position(a) == position' = [position EXCEPT ![a] = Rollup(lots', a)]

Lot(a, quantity, cost, price, acquired) ==
    [account |-> a, quantity |-> quantity, remaining |-> quantity, cost |-> cost, price |-> price,
     acquired |-> acquired, gain |-> 0, proceeds |-> 0, disposed |-> None, term |-> None,
     disallowed |-> None, replacement |-> None]

\* seed_lots_from_positions
Init ==
    /\ \E opening \in Seeds :
        lots = [i \in DOMAIN opening |->
            Lot(opening[i].account, opening[i].quantity, opening[i].cost, opening[i].cost, opening[i].acquired)]
    /\ position = [a \in Accounts |-> Rollup(lots, a)]
    /\ day = 0
    /\ book = [a \in Accounts |->
        [bought |-> position[a].quantity, sold |-> 0, paid |-> position[a].cost, received |-> 0, deferred |-> 0]]
    /\ trades = 0
    /\ record = [i \in Ids |-> [lost |-> None, won |-> FALSE]]

record_purchase(a, quantity, price) ==
    \E i \in IF Deferrable(a) THEN ReplacedLots ELSE {None} :
        LET new == Len(lots) + 1
            amount == IF i = None THEN 0 ELSE Disallowed(i, quantity)
            lot == Lot(a, quantity, price + amount \div quantity, price, day)
            replaced == [j \in Ids |-> IF j = i THEN Replaced(lots[j], amount, new) ELSE lots[j]]
        IN  /\ Len(lots) < MaxLots /\ trades < MaxTrades /\ trades' = trades + 1
            \* the one disposed of last
            /\ i # None => \A j \in ReplacedLots : lots[j].disposed <= lots[i].disposed
            /\ lots' = Append(replaced, lot)
            /\ _rebuild_position(a)
            /\ book' = [book EXCEPT ![a].bought = @ + quantity, ![a].paid = @ + price * quantity, ![a].deferred = @ + amount]
            /\ record' = Append(record, [lost |-> None, won |-> FALSE])
            /\ UNCHANGED day

\* Mutant: a second sale of a lot overwrites what the first realized.
Accumulated_Overwritten(prior, gain) == gain

Accumulated(prior, gain) == prior + gain

\* Mutant: only a lot that is sold out has been disposed of.
DisposedAt_SoldOut(lot, remaining) == IF remaining = 0 THEN day ELSE lot.disposed

DisposedAt(lot, remaining) == day

\* A sale of more than the account holds raises and changes nothing.
record_sale(a, quantity, price, method) ==
    LET selections == select_lots(a, quantity, price, method)
        from == {x.lot : x \in selections}
        taken(i) == (CHOOSE x \in selections : x.lot = i).shares
        gain(i) == taken(i) * (price - lots[i].cost)
    IN  /\ Shares(a) >= quantity /\ trades < MaxTrades /\ trades' = trades + 1
        /\ lots' = [i \in Ids |-> IF i \notin from THEN lots[i] ELSE
            [lots[i] EXCEPT !.remaining = @ - taken(i),
                            !.gain = Accumulated(@, gain(i)),
                            !.proceeds = @ + taken(i) * price,
                            !.term = term_for(lots[i].acquired),
                            !.disposed = DisposedAt(lots[i], lots[i].remaining - taken(i))]]
        /\ _rebuild_position(a)
        /\ book' = [book EXCEPT ![a].sold = @ + quantity, ![a].received = @ + quantity * price]
        /\ record' = [i \in Ids |->
            [lost |-> IF i \in from /\ gain(i) < 0 THEN day ELSE record[i].lost,
             won |-> record[i].won \/ (i \in from /\ gain(i) > 0)]]
        /\ UNCHANGED day

DayPasses == day < MaxDay /\ day' = day + 1 /\ UNCHANGED <<lots, position, book, trades, record>>

Next ==
    \/ \E a \in Accounts, quantity \in Quantities, price \in Prices :
        \/ record_purchase(a, quantity, price)
        \/ \E method \in LOT_METHODS : record_sale(a, quantity, price, method)
    \/ DayPasses

Spec == Init /\ [][Next]_vars

----------------------------------------------------------------------------
\* Every lot is well formed; a loss is disallowed exactly where a lot replaces it.
TypeOK ==
    /\ day \in 0..MaxDay
    /\ \A i \in Ids :
        /\ lots[i].account \in Accounts /\ lots[i].remaining \in 0..lots[i].quantity
        /\ (lots[i].disposed = None) = (lots[i].remaining = lots[i].quantity)
        /\ (lots[i].disposed = None) = (lots[i].term = None)
        /\ (lots[i].disallowed = None) = (lots[i].replacement = None)
        /\ lots[i].replacement # None => lots[i].replacement \in Ids

\* In every account what was paid, with the losses its lots inherited, is the
\* cost of what it holds and of what it sold, and what was received is that
\* cost with the gain realized, over any number of partial sales
\* (tax_lots.py:519-526, 554-591).
BooksBalance ==
    \A a \in Accounts :
        LET proceeds == Total([i \in Ids |-> lots[i].proceeds], Of(a))
            gain == Total([i \in Ids |-> lots[i].gain], Of(a))
        IN  /\ position[a].quantity = book[a].bought - book[a].sold
            /\ book[a].paid + book[a].deferred = position[a].cost + proceeds - gain
            /\ proceeds = book[a].received

\* A loss realized within the window on any part of a lot that never won is
\* found by the lookback of every account of the client (tax_lots.py:529-534).
LookbackFindsLoss ==
    \A i \in Ids : lots[i].account \in Taxable /\ InWindow(record[i].lost) /\ ~record[i].won
        => i \in check_wash_sale(ClientOf[lots[i].account])

\* Every way to take as many shares from the lots of an account.
Allocations(a, quantity) ==
    {f \in [open_lots(a) -> 0..quantity] :
        /\ \A i \in open_lots(a) : f[i] <= lots[i].remaining
        /\ Total(f, open_lots(a)) = quantity}

\* No other choice of lots realizes less gain than HIFO does (tax_lots.py:174).
HIFOLeastGain ==
    \A a \in Accounts, quantity \in Quantities, price \in Prices : Shares(a) >= quantity =>
        LET basis == Basis(select_lots(a, quantity, price, "HIFO"))
        IN  \A f \in Allocations(a, quantity) :
                Total([i \in open_lots(a) |-> f[i] * lots[i].cost], open_lots(a)) <= basis

\* A loss is never deferred into an account that could not recover it: what an
\* IRA bought costs what was paid (tax_lots.py:20-23, 439).
IraKeepsPrice == \A i \in Ids : lots[i].account \notin Taxable => lots[i].cost = lots[i].price

\* One purchase inherits no more than its share, by shares, of the loss it
\* replaces (tax_lots.py:440-456).
OneDeferralWithinLoss ==
    [][\A i \in Ids : lots'[i].replacement # lots[i].replacement =>
        LET new == lots'[lots'[i].replacement]
        IN  /\ (new.cost - new.price) * new.quantity <= -lots[i].gain
            /\ (new.cost - new.price) * new.quantity * lots[i].quantity <= -lots[i].gain * new.quantity]_vars

----------------------------------------------------------------------------
\* db.py:210: an organization is "The tenancy boundary: no query may cross
\* it": the loss a purchase defers is one of its own client.
OwnLossDeferred ==
    \A i \in Ids : lots[i].replacement # None =>
        ClientOf[lots[lots[i].replacement].account] = ClientOf[lots[i].account]

\* tax_lots.py:348: the check looks for "a *loss* disposal of the same symbol
\* within the trailing 30 days": every loss in the window is found.
LookbackFindsEveryLoss ==
    \A i \in Ids : lots[i].account \in Taxable /\ InWindow(record[i].lost)
        => check_wash_sale(ClientOf[lots[i].account]) # {}

\* tax_lots.py:13: "The wash-sale rule applies only to losses": no profitable
\* sale blocks a purchase.
ProfitNeverBlocks ==
    \A a \in Accounts : check_wash_sale(ClientOf[a]) # {} =>
        \E i \in Ids : ClientOf[lots[i].account] = ClientOf[a] /\ InWindow(record[i].lost)

\* tax_lots.py:30: "A disallowed loss is deferred, not destroyed", and one loss
\* only once.
DeferredOnce ==
    Total([i \in Ids |-> (lots[i].cost - lots[i].price) * lots[i].quantity], Ids)
        <= Total([i \in Ids |-> IF lots[i].gain < 0 THEN -lots[i].gain ELSE 0], Ids)

\* tax_lots.py:440: "Only the replaced shares carry the adjustment": buying back
\* all that was sold of a lot defers all of its loss.
WholeLossDeferred ==
    [][\A i \in Ids : lots'[i].replacement # lots[i].replacement
            /\ lots'[lots'[i].replacement].quantity >= lots[i].quantity - lots[i].remaining
        => lots'[i].disallowed = -lots[i].gain]_vars

\* tax_lots.py:23: "A purchase in the 30 days *before* a loss sale triggers the
\* rule just as surely".
WindowBothWays ==
    [][\A i \in Ids : lots'[i].gain < lots[i].gain /\ lots[i].account \in Taxable
            /\ (\E j \in Ids \ {i} : lots[j].price = lots[j].cost /\ lots[j].acquired = day
                                        /\ ClientOf[lots[j].account] = ClientOf[lots[i].account])
        => lots'[i].disallowed # None]_vars

\* tax_lots.py:745: realized gains are "split short versus long".
TermsKeptApart == [][\A i \in Ids : lots[i].term # None => lots'[i].term = lots[i].term]_vars

\* tax_lots.py:179: "MINTAX goes further than HIFO": it never costs more tax.
MintaxNoWorse ==
    \A a \in Accounts, quantity \in Quantities, price \in Prices : Shares(a) >= quantity =>
        estimated_tax(select_lots(a, quantity, price, "MINTAX"), price)
            <= estimated_tax(select_lots(a, quantity, price, "HIFO"), price)
===============================================================================
