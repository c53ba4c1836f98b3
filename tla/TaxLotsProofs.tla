--------------------------- MODULE TaxLotsProofs ----------------------------
(***************************************************************************)
(* Theorems about TaxLots, for any clients, accounts, prices and rates and *)
(* any number of lots, sales and days.                                     *)
(***************************************************************************)
EXTENDS TaxLots, Sums

LEMMA LeastOfTwo ==
    ASSUME NEW a \in Int, NEW b \in Int
    PROVE  Least({a, b}) = IF a <= b THEN a ELSE b
<1>1. PICK m \in {a, b} : \A c \in {a, b} : m <= c
    OBVIOUS
<1>2. Least({a, b}) \in {a, b} /\ \A c \in {a, b} : Least({a, b}) <= c
    BY <1>1 DEF Least
<1>. QED BY <1>2

-----------------------------------------------------------------------------
(* The inductive invariant.                                                 *)

LotRows ==
    [account : Accounts, quantity : Nat \ {0}, remaining : Nat, cost : Int, price : Nat,
     acquired : Int, gain : Int, proceeds : Int, disposed : Nat \cup {None},
     term : {"long", "short", None}, disallowed : Int \cup {None}, replacement : Nat \cup {None}]

Records == [lost : Nat \cup {None}, won : BOOLEAN]

\* A lot and its history on a given day, in a table of n lots.  Its last
\* disposal is no earlier than its last loss, and a lot that never won and
\* lost once has a loss left; outside taxable accounts no loss is inherited.
LotInv(lot, past, today, n) ==
    /\ lot.remaining <= lot.quantity
    /\ lot.disposed = None <=> lot.remaining = lot.quantity
    /\ lot.disposed = None <=> lot.term = None
    /\ lot.disposed # None => lot.disposed <= today
    /\ lot.disallowed = None <=> lot.replacement = None
    /\ lot.replacement # None => lot.replacement \in 1..n
    /\ past.lost # None => lot.disposed # None /\ past.lost <= lot.disposed
    /\ ~past.won => lot.gain <= 0
    /\ ~past.won /\ past.lost # None => lot.gain < 0
    /\ lot.account \notin Taxable => lot.cost = lot.price

LotsInv ==
    /\ lots \in Seq(LotRows) /\ record \in Seq(Records) /\ Len(record) = Len(lots)
    /\ day \in 0..MaxDay
    /\ \A i \in Ids : LotInv(lots[i], record[i], day, Len(lots))

LEMMA FreshLot ==
    ASSUME NEW a \in Accounts, NEW q \in Nat \ {0}, NEW cost \in Int, NEW price \in Nat,
           NEW acquired \in Int, NEW n \in Nat, NEW past, past = [lost |-> None, won |-> FALSE],
           NEW today, a \notin Taxable => cost = price
    PROVE  Lot(a, q, cost, price, acquired) \in LotRows
           /\ past \in Records /\ LotInv(Lot(a, q, cost, price, acquired), past, today, n)
<1>1. None \notin Int \cup {"long", "short"}
    BY LotsAssumption
<1>2. PICK lot : lot = Lot(a, q, cost, price, acquired)
    OBVIOUS
<1>3. lot \in LotRows
    BY <1>2 DEF Lot, LotRows
<1>4. past \in Records
    BY DEF Records
<1>5. /\ lot.remaining = q /\ lot.quantity = q /\ lot.disposed = None /\ lot.term = None
      /\ lot.disallowed = None /\ lot.replacement = None /\ lot.gain = 0
      /\ past.lost = None /\ lot.account = a /\ lot.cost = cost /\ lot.price = price
    BY <1>2 DEF Lot
<1>6. LotInv(lot, past, today, n)
    BY <1>5 DEF LotInv
<1>. QED BY <1>2, <1>3, <1>4, <1>6

LEMMA LotsInit ==
    ASSUME Init
    PROVE  LotsInv
<1>1. PICK opening \in Seeds :
        lots = [i \in DOMAIN opening |->
            Lot(opening[i].account, opening[i].quantity, opening[i].cost, opening[i].cost,
                opening[i].acquired)]
    BY DEF Init
<1>2. PICK n \in Nat : n = Len(opening) /\ DOMAIN opening = 1..n
    BY LotsAssumption
<1>3. \A i \in 1..n : opening[i] \in [account : Accounts, quantity : Nat \ {0}, cost : Nat, acquired : Int]
    <2>1. opening \in Seq([account : Accounts, quantity : Nat \ {0}, cost : Nat, acquired : Int])
        BY LotsAssumption
    <2>2. \A i \in 1..Len(opening) :
            opening[i] \in [account : Accounts, quantity : Nat \ {0}, cost : Nat, acquired : Int]
        <3>1. PICK R : R = [account : Accounts, quantity : Nat \ {0}, cost : Nat, acquired : Int]
            OBVIOUS
        <3>2. opening \in Seq(R)
            BY <2>1, <3>1
        <3>3. \A i \in 1..Len(opening) : opening[i] \in R
            BY <3>2
        <3>. QED BY <3>1, <3>3
    <2>. QED BY <1>2, <2>2
<1>4. DOMAIN lots = 1..n /\ record = [i \in 1..n |-> [lost |-> None, won |-> FALSE]] /\ day = 0
    BY <1>1, <1>2 DEF Init, Ids
<1>5. ASSUME NEW i \in 1..n
      PROVE  lots[i] \in LotRows /\ record[i] \in Records /\ LotInv(lots[i], record[i], day, n)
    <2>1. /\ opening[i].account \in Accounts /\ opening[i].quantity \in Nat \ {0}
          /\ opening[i].cost \in Nat /\ opening[i].cost \in Int /\ opening[i].acquired \in Int
        BY <1>3
    <2>2. lots[i] = Lot(opening[i].account, opening[i].quantity, opening[i].cost, opening[i].cost,
                        opening[i].acquired)
        BY <1>1, <1>2
    <2>3. record[i] = [lost |-> None, won |-> FALSE]
        BY <1>4
    <2>4. PICK past : past = [lost |-> None, won |-> FALSE]
        OBVIOUS
    <2>5. /\ lots[i] \in LotRows /\ past \in Records
          /\ LotInv(lots[i], past, day, n)
        BY <2>1, <2>2, <2>4, FreshLot
    <2>. QED BY <2>3, <2>4, <2>5
<1>6. lots \in [1..n -> LotRows] /\ record \in [1..n -> Records]
    BY <1>1, <1>2, <1>4, <1>5
<1>7. lots \in Seq(LotRows) /\ record \in Seq(Records) /\ Len(lots) = n /\ Len(record) = n
    BY <1>6
<1>8. day \in 0..MaxDay
    BY <1>4, LotsAssumption
<1>. QED BY <1>4, <1>5, <1>7, <1>8 DEF LotsInv, Ids

-----------------------------------------------------------------------------
(* A sale.                                                                  *)

LEMMA LotFacts ==
    ASSUME LotsInv, NEW i \in Ids
    PROVE  /\ i \in Int /\ lots[i] \in LotRows
           /\ lots[i].acquired \in Int /\ lots[i].cost \in Int /\ lots[i].remaining \in Nat
<1>1. i \in 1..Len(lots) /\ lots \in Seq(LotRows)
    BY DEF LotsInv, Ids
<1>2. lots[i] \in LotRows /\ i \in Int
    BY <1>1
<1>. QED BY <1>2 DEF LotRows

\* What the lots sold before lot i leave to sell.
Rest(a, q, price, method, i) == q - Remaining({j \in open_lots(a) : SoldBefore(method, price, j, i)})

LEMMA SharesGiven ==
    ASSUME LotsInv, NEW a \in Accounts, NEW q \in Nat \ {0}, NEW price \in Nat, NEW method
    PROVE  /\ IsFiniteSet(Ids) /\ open_lots(a) \in SUBSET Ids
           /\ \A S \in SUBSET Ids : IsFiniteSet(S) /\ Remaining(S) \in Nat
           /\ \A i \in open_lots(a) :
                /\ Given(a, q, price, method, i) \in 0..lots[i].remaining
                /\ Given(a, q, price, method, i) =
                    IF Rest(a, q, price, method, i) <= 0 THEN 0
                    ELSE IF Rest(a, q, price, method, i) <= lots[i].remaining
                         THEN Rest(a, q, price, method, i) ELSE lots[i].remaining
<1>1. PICK n \in Nat : Ids = 1..n /\ \A i \in 1..n : lots[i] \in LotRows
    BY DEF LotsInv, Ids
<1>2. IsFiniteSet(Ids) /\ open_lots(a) \in SUBSET Ids
    BY <1>1, FS_Interval DEF open_lots, Of
<1>3. PICK f : f = [i \in Ids |-> lots[i].remaining]
    OBVIOUS
<1>4. ASSUME NEW S \in SUBSET Ids PROVE IsFiniteSet(S) /\ Remaining(S) \in Nat
    <2>1. IsFiniteSet(S)
        BY <1>2, FS_Subset
    <2>2. \A i \in S : f[i] \in Nat
        BY <1>1, <1>3 DEF LotRows
    <2>3. Remaining(S) = Sum(f, S)
        BY <1>3 DEF Remaining, Total, Sum
    <2>. QED BY <2>1, <2>2, <2>3, SumNat
<1>5. ASSUME NEW i \in open_lots(a)
      PROVE  /\ Given(a, q, price, method, i) \in 0..lots[i].remaining
             /\ Given(a, q, price, method, i) =
                    IF Rest(a, q, price, method, i) <= 0 THEN 0
                    ELSE IF Rest(a, q, price, method, i) <= lots[i].remaining
                         THEN Rest(a, q, price, method, i) ELSE lots[i].remaining
    <2>1. PICK rest : /\ rest = q - Remaining({j \in open_lots(a) : SoldBefore(method, price, j, i)})
                      /\ rest = Rest(a, q, price, method, i)
        BY DEF Rest
    <2>2. rest \in Int
        <3>1. {j \in open_lots(a) : SoldBefore(method, price, j, i)} \in SUBSET Ids
            BY <1>2
        <3>2. Remaining({j \in open_lots(a) : SoldBefore(method, price, j, i)}) \in Nat
            BY <1>4, <3>1
        <3>. QED BY <2>1, <3>2
    <2>3. lots[i].remaining \in Nat
        BY <1>1, <1>2 DEF LotRows
    <2>4. Least({rest, lots[i].remaining}) = IF rest <= lots[i].remaining THEN rest
                                                                         ELSE lots[i].remaining
        BY <2>2, <2>3, LeastOfTwo
    <2>5. Given(a, q, price, method, i) = IF rest <= 0 THEN 0 ELSE Least({rest, lots[i].remaining})
        BY <2>1 DEF Given
    <2>. QED BY <2>1, <2>2, <2>3, <2>4, <2>5
<1>. QED BY <1>2, <1>4, <1>5

LEMMA SaleOfRow ==
    ASSUME NEW lot \in LotRows, NEW x \in Nat, NEW y \in Int, NEW z \in Int,
           NEW t \in {"long", "short"}, NEW d \in Nat
    PROVE  [lot EXCEPT !.remaining = x, !.gain = y, !.proceeds = z, !.term = t, !.disposed = d]
            \in LotRows
BY DEF LotRows

\* What a lot gives is what its selection says.
LEMMA Taken ==
    ASSUME LotsInv, NEW a \in Accounts, NEW q \in Nat \ {0}, NEW price \in Nat,
           NEW method, NEW selections, selections = select_lots(a, q, price, method)
    PROVE  /\ \A i \in {x.lot : x \in selections} :
                /\ i \in Ids /\ i \in open_lots(a)
                /\ (CHOOSE x \in selections : x.lot = i).shares \in 1..lots[i].remaining
                /\ (CHOOSE x \in selections : x.lot = i).shares = Given(a, q, price, method, i)
           /\ \A i \in open_lots(a) : i \notin {x.lot : x \in selections}
                => Given(a, q, price, method, i) = 0
<1>0. /\ open_lots(a) \in SUBSET Ids
      /\ \A j \in open_lots(a) : Given(a, q, price, method, j) \in 0..lots[j].remaining
    BY SharesGiven
<1>1. \A i \in open_lots(a) : lots[i].remaining \in Nat
    BY <1>0, LotFacts
<1>2. ASSUME NEW i \in {x.lot : x \in selections}
      PROVE  /\ i \in Ids /\ i \in open_lots(a)
             /\ (CHOOSE x \in selections : x.lot = i).shares \in 1..lots[i].remaining
             /\ (CHOOSE x \in selections : x.lot = i).shares = Given(a, q, price, method, i)
    <2>1. PICK x \in selections : x.lot = i
        OBVIOUS
    <2>2. \A y \in selections : /\ y.lot \in open_lots(a) /\ y.shares > 0
                                /\ y.shares = Given(a, q, price, method, y.lot)
        BY DEF select_lots
    <2>3. PICK y : y = CHOOSE z \in selections : z.lot = i
        OBVIOUS
    <2>4. y \in selections /\ y.lot = i
        BY <2>1, <2>3
    <2>5. i \in open_lots(a) /\ y.shares > 0 /\ y.shares = Given(a, q, price, method, i)
        BY <2>2, <2>4
    <2>6. y.shares \in 1..lots[i].remaining
        BY <1>0, <1>1, <2>5
    <2>. QED BY <1>0, <2>3, <2>5, <2>6
<1>3. ASSUME NEW i \in open_lots(a), i \notin {x.lot : x \in selections}
      PROVE  Given(a, q, price, method, i) = 0
    <2>1. PICK x : x = [lot |-> i, shares |-> Given(a, q, price, method, i)]
        OBVIOUS
    <2>2. x.lot = i /\ x.shares = Given(a, q, price, method, i)
        BY <2>1
    <2>3. x \notin selections
        BY <1>3, <2>2
    <2>4. ~(Given(a, q, price, method, i) > 0)
        BY <2>1, <2>2, <2>3 DEF select_lots
    <2>. QED BY <1>0, <1>1, <2>4
<1>. QED BY <1>2, <1>3

LEMMA SaleKeeps ==
    ASSUME LotsInv, NEW a \in Accounts, NEW q \in Quantities, NEW price \in Prices,
           NEW method \in LOT_METHODS, record_sale(a, q, price, method)
    PROVE  LotsInv' /\ \A i \in Ids : lots'[i].replacement = lots[i].replacement
<1>. DEFINE selections == select_lots(a, q, price, method)
            from == {x.lot : x \in selections}
            taken(i) == (CHOOSE x \in selections : x.lot = i).shares
            gain(i) == taken(i) * (price - lots[i].cost)
<1>0. /\ q \in Nat \ {0} /\ price \in Nat /\ day \in Nat /\ None \notin Int \cup {"long", "short"}
    BY LotsAssumption DEF LotsInv
<1>1. PICK n \in Nat : /\ Ids = 1..n /\ Len(lots) = n /\ DOMAIN record = 1..n
                       /\ \A i \in 1..n : lots[i] \in LotRows /\ record[i] \in Records
                                          /\ LotInv(lots[i], record[i], day, n)
    BY DEF LotsInv, Ids
<1>2. \A i \in from : /\ i \in Ids /\ taken(i) \in 1..lots[i].remaining
                      /\ taken(i) = Given(a, q, price, method, i)
    <2>1. PICK sel : sel = selections
        OBVIOUS
    <2>2. \A i \in {x.lot : x \in sel} :
                /\ i \in Ids /\ i \in open_lots(a)
                /\ (CHOOSE x \in sel : x.lot = i).shares \in 1..lots[i].remaining
                /\ (CHOOSE x \in sel : x.lot = i).shares = Given(a, q, price, method, i)
        <3>1. sel = select_lots(a, q, price, method)
            BY <2>1
        <3>. QED BY ONLY LotsInv, <1>0, <3>1, Taken
    <2>. QED BY <2>1, <2>2, Zenon
<1>3. /\ lots' = [i \in Ids |-> IF i \notin from THEN lots[i] ELSE
            [lots[i] EXCEPT !.remaining = @ - taken(i),
                            !.gain = @ + gain(i),
                            !.proceeds = @ + taken(i) * price,
                            !.term = term_for(lots[i].acquired),
                            !.disposed = day]]
      /\ record' = [i \in Ids |->
            [lost |-> IF i \in from /\ gain(i) < 0 THEN day ELSE record[i].lost,
             won |-> record[i].won \/ (i \in from /\ gain(i) > 0)]]
      /\ day' = day
    BY Zenon DEF record_sale, Accumulated, DisposedAt
<1>. HIDE DEF selections, from, taken, gain
<1>4. \A i \in from : gain(i) \in Int /\ taken(i) * price \in Int /\ taken(i) \in Nat
    <2>. SUFFICES ASSUME NEW i \in from
                  PROVE  gain(i) \in Int /\ taken(i) * price \in Int /\ taken(i) \in Nat
        OBVIOUS
    <2>1. i \in 1..n /\ taken(i) \in 1..lots[i].remaining /\ lots[i] \in LotRows
        BY <1>1, <1>2
    <2>2. lots[i].remaining \in Nat /\ lots[i].cost \in Int
        BY <2>1 DEF LotRows
    <2>3. PICK t : t = taken(i)
        OBVIOUS
    <2>4. t \in Nat
        BY <2>1, <2>2, <2>3
    <2>5. PICK c : c = lots[i].cost /\ c \in Int
        BY <2>2
    <2>6. t * (price - c) \in Int /\ t * price \in Int
        BY <1>0, <2>4, <2>5
    <2>. QED BY <2>3, <2>4, <2>5, <2>6 DEF gain
<1>5. ASSUME NEW i \in 1..n
      PROVE  /\ lots'[i] \in LotRows /\ record'[i] \in Records
             /\ LotInv(lots'[i], record'[i], day, n)
             /\ lots'[i].replacement = lots[i].replacement
    <2>0. lots[i] \in LotRows /\ record[i] \in Records /\ LotInv(lots[i], record[i], day, n)
        BY <1>1
    <2>1. CASE i \notin from
        <3>1. lots'[i] = lots[i]
            BY <1>1, <1>3, <2>1
        <3>2. record'[i].lost = record[i].lost /\ record'[i].won = (record[i].won \/ FALSE)
            BY <1>1, <1>3, <2>1
        <3>3. record'[i] \in Records
            BY <1>1, <1>3, <2>0, <2>1 DEF Records
        <3>4. record'[i].won <=> record[i].won
            BY <3>2, Zenon
        <3>. QED BY <2>0, <3>1, <3>2, <3>3, <3>4 DEF LotInv
    <2>2. CASE i \in from
        <3>1. lots'[i] = [lots[i] EXCEPT !.remaining = @ - taken(i),
                            !.gain = @ + gain(i),
                            !.proceeds = @ + taken(i) * price,
                            !.term = term_for(lots[i].acquired),
                            !.disposed = day]
            BY <1>1, <1>3, <2>2
        <3>2. /\ taken(i) \in 1..lots[i].remaining /\ gain(i) \in Int /\ taken(i) * price \in Int
              /\ term_for(lots[i].acquired) \in {"long", "short"}
            BY <1>2, <1>4, <2>2 DEF term_for
        <3>8. lots[i].remaining \in Nat /\ lots[i].gain \in Int /\ lots[i].proceeds \in Int
            BY <2>0 DEF LotRows
        <3>9. /\ DOMAIN lots'[i] = DOMAIN lots[i]
              /\ lots'[i].account = lots[i].account /\ lots'[i].quantity = lots[i].quantity
              /\ lots'[i].cost = lots[i].cost /\ lots'[i].price = lots[i].price
              /\ lots'[i].acquired = lots[i].acquired
              /\ lots'[i].remaining = lots[i].remaining - taken(i)
              /\ lots'[i].gain = lots[i].gain + gain(i)
              /\ lots'[i].proceeds = lots[i].proceeds + taken(i) * price
              /\ lots'[i].term = term_for(lots[i].acquired) /\ lots'[i].disposed = day
              /\ lots'[i].replacement = lots[i].replacement /\ lots'[i].disallowed = lots[i].disallowed
            BY <2>0, <3>1 DEF LotRows
        <3>10. /\ lots[i].remaining - taken(i) \in Nat /\ lots[i].gain + gain(i) \in Int
               /\ lots[i].proceeds + taken(i) * price \in Int
            BY <3>2, <3>8
        <3>11. lots'[i] \in LotRows
            <4>1. PICK row : row = lots'[i]
                OBVIOUS
            <4>2. row = [lots[i] EXCEPT !.remaining = lots[i].remaining - taken(i),
                            !.gain = lots[i].gain + gain(i),
                            !.proceeds = lots[i].proceeds + taken(i) * price,
                            !.term = term_for(lots[i].acquired),
                            !.disposed = day]
                BY <3>1, <4>1
            <4>3. PICK x \in Nat, y \in Int, z \in Int, t \in {"long", "short"} :
                    row = [lots[i] EXCEPT !.remaining = x, !.gain = y, !.proceeds = z, !.term = t,
                                          !.disposed = day]
                BY <3>2, <3>10, <4>2
            <4>4. row \in LotRows
                BY <1>0, <2>0, <4>3, SaleOfRow
            <4>. QED BY <4>1, <4>4
        <3>3. /\ lots'[i] \in LotRows
              /\ lots'[i].remaining = lots[i].remaining - taken(i) /\ lots'[i].quantity = lots[i].quantity
              /\ lots'[i].gain = lots[i].gain + gain(i) /\ lots'[i].term \in {"long", "short"}
              /\ lots'[i].disposed = day
              /\ lots'[i].replacement = lots[i].replacement /\ lots'[i].disallowed = lots[i].disallowed
              /\ lots'[i].account = lots[i].account /\ lots'[i].cost = lots[i].cost
              /\ lots'[i].price = lots[i].price
            BY <3>2, <3>9, <3>11
        <3>4. /\ record'[i] \in Records
              /\ record'[i].lost = IF gain(i) < 0 THEN day ELSE record[i].lost
              /\ record'[i].won = (record[i].won \/ gain(i) > 0)
            BY <1>0, <1>1, <1>3, <2>0, <2>2 DEF Records
        <3>5. record'[i].won <=> record[i].won \/ gain(i) > 0
            BY <3>4, Zenon
        <3>6. lots[i].remaining \in Nat /\ lots[i].quantity \in Nat /\ lots[i].gain \in Int
              /\ record[i].lost \in Nat \cup {None} /\ lots[i].disposed \in Nat \cup {None}
            BY <2>0 DEF LotRows, Records
        <3>7. LotInv(lots'[i], record'[i], day, n)
            BY <1>0, <2>0, <3>2, <3>3, <3>4, <3>5, <3>6 DEF LotInv
        <3>. QED BY <3>3, <3>4, <3>7
    <2>. QED BY <2>1, <2>2
<1>6. /\ lots' \in Seq(LotRows) /\ record' \in Seq(Records) /\ Len(lots') = n /\ Len(record') = n
      /\ Ids' = 1..n
    <2>1. lots' \in [1..n -> LotRows] /\ record' \in [1..n -> Records]
        BY <1>1, <1>3, <1>5
    <2>. QED BY <2>1 DEF Ids
<1>7. LotsInv'
    BY <1>3, <1>5, <1>6 DEF LotsInv
<1>. QED BY <1>1, <1>5, <1>7

-----------------------------------------------------------------------------
(* A purchase.                                                              *)

LEMMA DivFloor ==
    ASSUME NEW a \in Int, NEW b \in Nat \ {0}
    PROVE  a \div b \in Int /\ (a \div b) * b <= a
OBVIOUS

\* The loss a purchase inherits.
LEMMA DisallowedWithin ==
    ASSUME NEW i, lots[i] \in LotRows, lots[i].gain < 0, NEW q \in Nat \ {0}
    PROVE  /\ Disallowed(i, q) \in Int
           /\ Disallowed(i, q) <= -lots[i].gain
           /\ Disallowed(i, q) * lots[i].quantity <= -lots[i].gain * q
<1>1. PICK loss \in Nat \ {0} : loss = -lots[i].gain
    BY DEF LotRows
<1>2. PICK b \in Nat \ {0} : b = lots[i].quantity
    BY DEF LotRows
<1>3. PICK m \in Nat : m = Least({q, b}) /\ m <= q /\ m <= b
    <2>1. Least({q, b}) = IF q <= b THEN q ELSE b
        BY LeastOfTwo
    <2>. QED BY <2>1
<1>4. PICK d \in Int : d = Disallowed(i, q) /\ d * b <= loss * m
    <2>1. loss * m \in Int
        OBVIOUS
    <2>2. Disallowed(i, q) = (loss * m) \div b
        <3>1. PICK g \in Int : g = lots[i].gain
            BY DEF LotRows
        <3>2. Disallowed(i, q) = (-g * m) \div b
            BY <1>2, <1>3, <3>1 DEF Disallowed
        <3>3. loss = -g
            BY <1>1, <3>1
        <3>4. -g * m = loss * m
            BY <3>3
        <3>. QED BY <3>2, <3>4
    <2>3. PICK p \in Int : p = loss * m
        BY <2>1
    <2>4. p \div b \in Int /\ (p \div b) * b <= p
        BY DivFloor
    <2>. QED BY <2>2, <2>3, <2>4
<1>5. loss * m <= loss * b /\ loss * m <= loss * q
    <2>1. (b - m) \in Nat /\ loss * (b - m) \in Nat /\ (q - m) \in Nat /\ loss * (q - m) \in Nat
        BY <1>3
    <2>2. loss * b = loss * m + loss * (b - m) /\ loss * q = loss * m + loss * (q - m)
        OBVIOUS
    <2>. QED BY <2>1, <2>2
<1>6. d * b <= loss * b /\ d * b <= loss * q
    BY <1>4, <1>5
<1>7. d <= loss
    <2>. SUFFICES ASSUME d > loss PROVE FALSE
        OBVIOUS
    <2>1. (d - loss) \in Nat \ {0} /\ (d - loss) * b \in Nat \ {0}
        OBVIOUS
    <2>2. d * b = loss * b + (d - loss) * b
        OBVIOUS
    <2>. QED BY <1>6, <2>1, <2>2
<1>8. PICK g \in Int : g = lots[i].gain /\ loss = -g
    BY <1>1 DEF LotRows
<1>9. -g * q = loss * q
    BY <1>8
<1>. QED BY <1>2, <1>4, <1>6, <1>7, <1>8, <1>9

\* What OneDeferralWithinLoss says of a step.
DeferralWithinLoss ==
    \A i \in Ids : lots'[i].replacement # lots[i].replacement =>
        LET new == lots'[lots'[i].replacement]
        IN  /\ (new.cost - new.price) * new.quantity <= -lots[i].gain
            /\ (new.cost - new.price) * new.quantity * lots[i].quantity <= -lots[i].gain * new.quantity

LEMMA ReplacedRow ==
    ASSUME NEW lot \in LotRows, NEW amount \in Int, NEW new \in Nat
    PROVE  /\ Replaced(lot, amount, new) \in LotRows
           /\ \A past, today : \A n \in Nat :
                LotInv(lot, past, today, n) /\ new = n + 1 => LotInv(Replaced(lot, amount, new), past, today, n + 1)
<1>1. PICK row : row = Replaced(lot, amount, new)
    OBVIOUS
<1>2. row \in LotRows
    BY <1>1 DEF Replaced, LotRows
<1>3. /\ row.remaining = lot.remaining /\ row.quantity = lot.quantity /\ row.disposed = lot.disposed
      /\ row.term = lot.term /\ row.gain = lot.gain
      /\ row.disallowed = amount /\ row.replacement = new
      /\ row.account = lot.account /\ row.cost = lot.cost /\ row.price = lot.price
    BY <1>1 DEF Replaced, LotRows
<1>4. None # amount /\ None # new
    BY LotsAssumption
<1>5. ASSUME NEW past, NEW today, NEW n \in Nat, LotInv(lot, past, today, n), new = n + 1
      PROVE  LotInv(row, past, today, n + 1)
    <2>1. new \in 1..(n + 1)
        BY <1>5
    <2>. QED BY <1>3, <1>4, <1>5, <2>1 DEF LotInv
<1>. QED BY <1>1, <1>2, <1>5

LEMMA PurchaseKeeps ==
    ASSUME LotsInv, NEW a \in Accounts, NEW q \in Quantities, NEW price \in Prices,
           record_purchase(a, q, price)
    PROVE  LotsInv' /\ DeferralWithinLoss
<1>0. /\ q \in Nat \ {0} /\ price \in Nat /\ day \in Nat /\ day \in Int
      /\ None \notin Int \cup {"long", "short"}
    BY LotsAssumption DEF LotsInv
<1>1. PICK n \in Nat : /\ Ids = 1..n /\ Len(lots) = n /\ Len(record) = n
                       /\ lots \in Seq(LotRows) /\ record \in Seq(Records)
                       /\ \A i \in 1..n : lots[i] \in LotRows /\ record[i] \in Records
                                          /\ LotInv(lots[i], record[i], day, n)
    BY DEF LotsInv, Ids
<1>2. PICK i, amount, lot, replaced :
        /\ i \in (IF Deferrable(a) THEN ReplacedLots ELSE {None})
        /\ amount = IF i = None THEN 0 ELSE Disallowed(i, q)
        /\ lot = Lot(a, q, price + amount \div q, price, day)
        /\ replaced = [j \in Ids |-> IF j = i THEN Replaced(lots[j], amount, Len(lots) + 1) ELSE lots[j]]
        /\ lots' = Append(replaced, lot)
        /\ record' = Append(record, [lost |-> None, won |-> FALSE])
        /\ day' = day
    BY DEF record_purchase
<1>3. i # None => /\ i \in 1..n /\ amount \in Int /\ lots[i].gain < 0
                  /\ amount <= -lots[i].gain
                  /\ amount * lots[i].quantity <= -lots[i].gain * q
    <2>. SUFFICES ASSUME i # None
                  PROVE  /\ i \in 1..n /\ amount \in Int /\ lots[i].gain < 0
                         /\ amount <= -lots[i].gain
                         /\ amount * lots[i].quantity <= -lots[i].gain * q
        OBVIOUS
    <2>1. i \in ReplacedLots
        BY <1>2
    <2>2. i \in 1..n /\ lots[i].gain < 0
        BY <1>1, <2>1 DEF ReplacedLots
    <2>3. lots[i] \in LotRows
        BY <1>1, <2>2
    <2>4. amount = Disallowed(i, q)
        BY <1>2
    <2>. QED BY <1>0, <2>2, <2>3, <2>4, DisallowedWithin
<1>4. amount \in Int
    BY <1>2, <1>3
<1>5. PICK fresh : fresh = [lost |-> None, won |-> FALSE]
    OBVIOUS
<1>6. amount \div q \in Int /\ (amount \div q) * q <= amount /\ price + amount \div q \in Int
    BY <1>0, <1>4, DivFloor
<1>7. lot \in LotRows /\ fresh \in Records /\ LotInv(lot, fresh, day, n + 1)
    <2>1. PICK cost \in Int : cost = price + amount \div q
        BY <1>6
    <2>2. n + 1 \in Nat
        OBVIOUS
    <2>4. a \notin Taxable => cost = price
        <3>. SUFFICES ASSUME a \notin Taxable PROVE cost = price
            OBVIOUS
        <3>1. i = None /\ amount = 0
            BY <1>2 DEF Deferrable
        <3>2. 0 \div q = 0
            BY <1>0
        <3>. QED BY <1>0, <2>1, <3>1, <3>2
    <2>3. /\ Lot(a, q, cost, price, day) \in LotRows /\ fresh \in Records
          /\ LotInv(Lot(a, q, cost, price, day), fresh, day, n + 1)
        BY <1>0, <1>5, <2>2, <2>4, FreshLot
    <2>. QED BY <1>2, <2>1, <2>3
<1>8. ASSUME NEW j \in 1..n
      PROVE  /\ replaced[j] = IF j = i THEN Replaced(lots[j], amount, n + 1) ELSE lots[j]
             /\ replaced[j] \in LotRows /\ LotInv(replaced[j], record[j], day, n + 1)
    <2>1. replaced[j] = IF j = i THEN Replaced(lots[j], amount, n + 1) ELSE lots[j]
        BY <1>1, <1>2
    <2>2. lots[j] \in LotRows /\ LotInv(lots[j], record[j], day, n)
        BY <1>1
    <2>3. CASE j = i
        <3>1. n + 1 \in Nat
            OBVIOUS
        <3>2. /\ Replaced(lots[j], amount, n + 1) \in LotRows
              /\ LotInv(Replaced(lots[j], amount, n + 1), record[j], day, n + 1)
            <4>1. PICK new \in Nat : new = n + 1
                BY <3>1
            <4>2. /\ Replaced(lots[j], amount, new) \in LotRows
                  /\ \A past, today : \A k \in Nat :
                        LotInv(lots[j], past, today, k) /\ new = k + 1
                            => LotInv(Replaced(lots[j], amount, new), past, today, k + 1)
                BY <1>4, <2>2, ReplacedRow
            <4>3. LotInv(lots[j], record[j], day, n) /\ new = n + 1
                BY <2>2, <4>1
            <4>4. LotInv(Replaced(lots[j], amount, new), record[j], day, n + 1)
                BY <4>2, <4>3
            <4>. QED BY <4>1, <4>2, <4>4
        <3>. QED BY <2>1, <2>3, <3>2
    <2>4. CASE j # i
        <3>1. LotInv(lots[j], record[j], day, n + 1)
            BY <2>2 DEF LotInv
        <3>. QED BY <2>1, <2>2, <2>4, <3>1
    <2>. QED BY <2>1, <2>3, <2>4
<1>9. replaced \in Seq(LotRows) /\ Len(replaced) = n
    <2>1. replaced \in [1..n -> LotRows]
        BY <1>1, <1>2, <1>8
    <2>. QED BY <2>1
<1>10. /\ lots' \in Seq(LotRows) /\ Len(lots') = n + 1 /\ Ids' = 1..(n + 1)
       /\ \A j \in 1..n : lots'[j] = replaced[j]
       /\ lots'[n + 1] = lot
    BY <1>2, <1>7, <1>9 DEF Ids
<1>11. /\ record' \in Seq(Records) /\ Len(record') = n + 1
       /\ \A j \in 1..n : record'[j] = record[j]
       /\ record'[n + 1] = fresh
    BY <1>1, <1>2, <1>5, <1>7
<1>12. ASSUME NEW j \in 1..(n + 1) PROVE LotInv(lots'[j], record'[j], day, n + 1)
    <2>1. CASE j = n + 1
        BY <1>7, <1>10, <1>11, <2>1
    <2>2. CASE j \in 1..n
        BY <1>8, <1>10, <1>11, <2>2
    <2>. QED BY <2>1, <2>2
<1>13. LotsInv'
    BY <1>2, <1>10, <1>11, <1>12 DEF LotsInv
<1>14. ASSUME NEW j \in Ids, lots'[j].replacement # lots[j].replacement
       PROVE  LET new == lots'[lots'[j].replacement]
              IN  /\ (new.cost - new.price) * new.quantity <= -lots[j].gain
                  /\ (new.cost - new.price) * new.quantity * lots[j].quantity <= -lots[j].gain * new.quantity
    <2>1. j \in 1..n /\ lots[j] \in LotRows
        BY <1>1
    <2>2. j = i /\ i # None
        <3>1. lots'[j] = IF j = i THEN Replaced(lots[j], amount, n + 1) ELSE lots[j]
            BY <1>8, <1>10, <2>1
        <3>. QED BY <1>0, <1>14, <2>1, <3>1
    <2>3. lots'[j].replacement = n + 1
        <3>1. lots'[j] = Replaced(lots[j], amount, n + 1)
            BY <1>8, <1>10, <2>1, <2>2
        <3>. QED BY <2>1, <3>1 DEF Replaced, LotRows
    <2>4. /\ lot.cost = price + amount \div q /\ lot.price = price /\ lot.quantity = q
        BY <1>2 DEF Lot
    <2>5. PICK c \in Int : c = amount \div q /\ c * q <= amount
        BY <1>6
    <2>6. lot.cost - lot.price = c
        BY <1>0, <2>4, <2>5
    <2>7. PICK b \in Nat \ {0}, g \in Int : b = lots[j].quantity /\ g = lots[j].gain
        BY <2>1 DEF LotRows
    <2>8. amount <= -g /\ amount * b <= -g * q
        BY <1>3, <2>2, <2>7
    <2>9. c * q * b <= amount * b
        <3>1. PICK k \in Nat : amount = c * q + k
            <4>1. c * q \in Int
                BY <1>0, <2>5
            <4>2. PICK p \in Int : p = c * q /\ p <= amount
                BY <2>5, <4>1
            <4>3. amount - p \in Nat /\ amount = p + (amount - p)
                BY <1>4, <4>2
            <4>. QED BY <4>2, <4>3
        <3>2. amount * b = c * q * b + k * b
            BY <1>0, <3>1
        <3>3. k * b \in Nat /\ c * q * b \in Int
            BY <1>0
        <3>. QED BY <3>2, <3>3
    <2>10. c * q <= -g /\ c * q * b <= -g * q
        <3>1. c * q \in Int /\ c * q * b \in Int /\ amount * b \in Int /\ -g * q \in Int
            BY <1>0, <1>4
        <3>. QED BY <1>4, <2>5, <2>8, <2>9, <3>1
    <2>. QED BY <1>10, <2>3, <2>4, <2>6, <2>7, <2>10
<1>15. DeferralWithinLoss
    BY <1>14 DEF DeferralWithinLoss
<1>. QED BY <1>13, <1>15

LEMMA DayKeeps ==
    ASSUME LotsInv, DayPasses
    PROVE  LotsInv' /\ DeferralWithinLoss
<1>1. /\ lots' = lots /\ record' = record /\ day' = day + 1 /\ day' \in 0..MaxDay /\ day \in Nat
    BY LotsAssumption DEF LotsInv, DayPasses
<1>2. ASSUME NEW i \in Ids PROVE LotInv(lots[i], record[i], day + 1, Len(lots))
    <2>1. LotInv(lots[i], record[i], day, Len(lots)) /\ lots[i] \in LotRows
        BY DEF LotsInv, Ids
    <2>2. lots[i].disposed \in Nat \cup {None}
        BY <2>1 DEF LotRows
    <2>. QED BY <1>1, <2>1, <2>2 DEF LotInv
<1>3. Ids' = Ids
    BY <1>1 DEF Ids
<1>4. LotsInv'
    BY <1>1, <1>2, <1>3 DEF LotsInv
<1>5. DeferralWithinLoss
    BY <1>1 DEF DeferralWithinLoss
<1>. QED BY <1>4, <1>5

LEMMA LotsStep ==
    ASSUME LotsInv, [Next]_vars
    PROVE  LotsInv' /\ (DeferralWithinLoss \/ UNCHANGED vars)
<1>1. ASSUME NEW a \in Accounts, NEW q \in Quantities, NEW price \in Prices,
             record_purchase(a, q, price)
      PROVE  LotsInv' /\ DeferralWithinLoss
    BY <1>1, PurchaseKeeps
<1>2. ASSUME NEW a \in Accounts, NEW q \in Quantities, NEW price \in Prices,
             NEW method \in LOT_METHODS, record_sale(a, q, price, method)
      PROVE  LotsInv' /\ DeferralWithinLoss
    <2>1. LotsInv' /\ \A i \in Ids : lots'[i].replacement = lots[i].replacement
        BY <1>2, SaleKeeps
    <2>. QED BY <2>1 DEF DeferralWithinLoss
<1>3. CASE DayPasses
    BY <1>3, DayKeeps
<1>4. CASE UNCHANGED vars
    BY <1>4 DEF vars, LotsInv, Ids
<1>. QED BY <1>1, <1>2, <1>3, <1>4 DEF Next

LEMMA LotsHold == Spec => []LotsInv
<1>1. Init => LotsInv
    BY LotsInit
<1>2. LotsInv /\ [Next]_vars => LotsInv'
    BY LotsStep
<1>. QED BY <1>1, <1>2, PTL DEF Spec

-----------------------------------------------------------------------------
\* TypeOK holds: every lot is well formed.
THEOREM LotsTypeCorrect == Spec => []TypeOK
<1>1. LotsInv => TypeOK
    <2>. SUFFICES ASSUME LotsInv PROVE TypeOK
        OBVIOUS
    <2>1. ASSUME NEW i \in Ids
          PROVE  /\ lots[i].account \in Accounts /\ lots[i].remaining \in 0..lots[i].quantity
                 /\ (lots[i].disposed = None) = (lots[i].remaining = lots[i].quantity)
                 /\ (lots[i].disposed = None) = (lots[i].term = None)
                 /\ (lots[i].disallowed = None) = (lots[i].replacement = None)
                 /\ lots[i].replacement # None => lots[i].replacement \in Ids
        <3>1. LotInv(lots[i], record[i], day, Len(lots)) /\ lots[i] \in LotRows /\ Ids = 1..Len(lots)
            BY DEF LotsInv, Ids
        <3>2. lots[i].account \in Accounts /\ lots[i].remaining \in Nat /\ lots[i].quantity \in Nat
            BY <3>1 DEF LotRows
        <3>. QED BY <3>1, <3>2 DEF LotInv
    <2>2. day \in 0..MaxDay
        BY DEF LotsInv
    <2>. QED BY <2>1, <2>2 DEF TypeOK
<1>. QED BY <1>1, LotsHold, PTL

\* IraKeepsPrice holds: what an IRA bought costs what was paid.
THEOREM IraInheritsNoLoss == Spec => []IraKeepsPrice
<1>1. LotsInv => IraKeepsPrice
    BY DEF LotsInv, LotInv, IraKeepsPrice
<1>. QED BY <1>1, LotsHold, PTL

\* LookbackFindsLoss holds: a loss realized within the window on any part of a
\* lot that never won is found by the lookback of every account of the client.
THEOREM LossesAreFound == Spec => []LookbackFindsLoss
<1>1. LotsInv => LookbackFindsLoss
    <2>. SUFFICES ASSUME LotsInv, NEW i \in Ids, lots[i].account \in Taxable,
                         InWindow(record[i].lost), ~record[i].won
                  PROVE  i \in check_wash_sale(ClientOf[lots[i].account])
        BY DEF LookbackFindsLoss
    <2>1. /\ LotInv(lots[i], record[i], day, Len(lots)) /\ lots[i] \in LotRows
          /\ record[i] \in Records /\ day \in Nat /\ WASH_SALE_WINDOW_DAYS \in Nat
        BY LotsAssumption DEF LotsInv, Ids
    <2>2. record[i].lost \in Nat \cup {None} /\ lots[i].disposed \in Nat \cup {None}
          /\ lots[i].gain \in Int
        BY <2>1 DEF LotRows, Records
    <2>3. lots[i].disposed # None /\ record[i].lost <= lots[i].disposed /\ lots[i].gain < 0
        BY <2>1 DEF LotInv, InWindow
    <2>4. InWindow(lots[i].disposed)
        BY <2>1, <2>2, <2>3 DEF InWindow
    <2>. QED BY <2>3, <2>4 DEF check_wash_sale
<1>. QED BY <1>1, LotsHold, PTL

\* OneDeferralWithinLoss holds: one purchase inherits no more than its share,
\* by shares, of the loss it replaces, rounding included.
THEOREM DeferralsAreBounded == Spec => OneDeferralWithinLoss
<1>1. LotsInv /\ [Next]_vars =>
        [\A i \in Ids : lots'[i].replacement # lots[i].replacement =>
            LET new == lots'[lots'[i].replacement]
            IN  /\ (new.cost - new.price) * new.quantity <= -lots[i].gain
                /\ (new.cost - new.price) * new.quantity * lots[i].quantity <= -lots[i].gain * new.quantity]_vars
    BY LotsStep DEF DeferralWithinLoss
<1>. QED BY <1>1, LotsHold, PTL DEF Spec, OneDeferralWithinLoss

-----------------------------------------------------------------------------
(* Which lots a sale takes.                                                 *)

LEMMA SellingOrder ==
    ASSUME LotsInv, NEW method \in LOT_METHODS, NEW price \in Nat
    PROVE  /\ \A i \in Ids : ~SoldBefore(method, price, i, i)
           /\ \A i, j, k \in Ids : SoldBefore(method, price, i, j) /\ SoldBefore(method, price, j, k)
                                        => SoldBefore(method, price, i, k)
           /\ \A i, j \in Ids : i # j => SoldBefore(method, price, i, j) \/ SoldBefore(method, price, j, i)
<1>1. \A i \in Ids : i \in Int /\ lots[i].acquired \in Int /\ lots[i].cost \in Int
    BY LotFacts
<1>2. \A i \in Ids : TaxGroup(i, price) \in Int
    BY DEF TaxGroup
<1>5. CASE method = "FIFO"
    <2>1. \A i, j : SoldBefore(method, price, i, j) <=> Older(i, j)
        BY <1>5 DEF SoldBefore
    <2>. QED BY <1>1, <2>1 DEF Older
<1>6. CASE method = "LIFO"
    <2>1. \A i, j : SoldBefore(method, price, i, j) <=>
                        \/ lots[i].acquired > lots[j].acquired
                        \/ lots[i].acquired = lots[j].acquired /\ i < j
        BY <1>6 DEF SoldBefore
    <2>. QED BY <1>1, <2>1
<1>7. CASE method = "HIFO"
    <2>1. \A i, j : SoldBefore(method, price, i, j) <=> Dearer(i, j)
        BY <1>7 DEF SoldBefore
    <2>2. \A i, j : SoldBefore(method, price, i, j) <=>
                        \/ lots[i].cost > lots[j].cost
                        \/ /\ lots[i].cost = lots[j].cost
                           /\ \/ lots[i].acquired < lots[j].acquired
                              \/ lots[i].acquired = lots[j].acquired /\ i < j
        BY <2>1 DEF Dearer, Older
    <2>3. \A i \in Ids : ~SoldBefore(method, price, i, i)
        BY <1>1, <2>2
    <2>4. \A i, j, k \in Ids : SoldBefore(method, price, i, j) /\ SoldBefore(method, price, j, k)
                                => SoldBefore(method, price, i, k)
        <3>. SUFFICES ASSUME NEW i \in Ids, NEW j \in Ids, NEW k \in Ids,
                             SoldBefore(method, price, i, j), SoldBefore(method, price, j, k)
                      PROVE  SoldBefore(method, price, i, k)
            OBVIOUS
        <3>1. /\ i \in Int /\ lots[i].cost \in Int /\ lots[i].acquired \in Int
              /\ j \in Int /\ lots[j].cost \in Int /\ lots[j].acquired \in Int
              /\ k \in Int /\ lots[k].cost \in Int /\ lots[k].acquired \in Int
            BY <1>1
        <3>. QED BY <2>2, <3>1
    <2>5. \A i, j \in Ids : i # j => SoldBefore(method, price, i, j) \/ SoldBefore(method, price, j, i)
        <3>. SUFFICES ASSUME NEW i \in Ids, NEW j \in Ids, i # j
                      PROVE  SoldBefore(method, price, i, j) \/ SoldBefore(method, price, j, i)
            OBVIOUS
        <3>1. /\ i \in Int /\ lots[i].cost \in Int /\ lots[i].acquired \in Int
              /\ j \in Int /\ lots[j].cost \in Int /\ lots[j].acquired \in Int
            BY <1>1
        <3>2. \/ lots[i].cost > lots[j].cost
              \/ lots[j].cost > lots[i].cost
              \/ /\ lots[i].cost = lots[j].cost /\ lots[j].cost = lots[i].cost
                 /\ \/ lots[i].acquired < lots[j].acquired
                    \/ lots[j].acquired < lots[i].acquired
                    \/ lots[i].acquired = lots[j].acquired /\ i < j
                    \/ lots[j].acquired = lots[i].acquired /\ j < i
            BY <3>1
        <3>. QED BY <2>2, <3>2, Zenon
    <2>. QED BY <2>3, <2>4, <2>5
<1>8. CASE method = "MINTAX"
    <2>1. \A i, j : SoldBefore(method, price, i, j) <=>
                        \/ TaxGroup(i, price) < TaxGroup(j, price)
                        \/ TaxGroup(i, price) = TaxGroup(j, price) /\ Dearer(i, j)
        BY <1>8 DEF SoldBefore
    <2>. QED BY <1>1, <1>2, <2>1 DEF Dearer, Older
<1>. QED BY <1>5, <1>6, <1>7, <1>8 DEF LOT_METHODS

\* Some lots, if any, have one that is sold first and one that is sold last.
LEMMA FirstAndLast ==
    ASSUME LotsInv, NEW method \in LOT_METHODS, NEW price \in Nat, NEW S \in SUBSET Ids, S # {},
           IsFiniteSet(S)
    PROVE  /\ \E m \in S : \A x \in S : x # m => SoldBefore(method, price, m, x)
           /\ \E m \in S : \A x \in S : x # m => SoldBefore(method, price, x, m)
<1>. DEFINE SoldFirst(s) == \E m \in s : \A x \in s : x # m => SoldBefore(method, price, m, x)
            SoldLast(s) == \E m \in s : \A x \in s : x # m => SoldBefore(method, price, x, m)
<1>0. /\ \A i, j, k \in Ids : SoldBefore(method, price, i, j) /\ SoldBefore(method, price, j, k)
                                => SoldBefore(method, price, i, k)
      /\ \A i, j \in Ids : i # j => SoldBefore(method, price, i, j) \/ SoldBefore(method, price, j, i)
    BY SellingOrder
<1>1. PICK T : T = {s \in SUBSET S : s # {} => SoldFirst(s) /\ SoldLast(s)}
    OBVIOUS
<1>2. ASSUME NEW s \in SUBSET S, \A x \in s : s \ {x} \in T PROVE s \in T
    <2>. SUFFICES ASSUME s # {} PROVE SoldFirst(s) /\ SoldLast(s)
        BY <1>1
    <2>1. PICK x : x \in s
        OBVIOUS
    <2>2. CASE s = {x}
        BY <2>1, <2>2
    <2>3. CASE s # {x}
        <3>1. s \ {x} # {} /\ s \ {x} \in T
            BY <1>2, <2>1, <2>3
        <3>2. PICK m \in s \ {x} : \A y \in s \ {x} : y # m => SoldBefore(method, price, m, y)
            BY <1>1, <3>1
        <3>3. PICK l \in s \ {x} : \A y \in s \ {x} : y # l => SoldBefore(method, price, y, l)
            BY <1>1, <3>1
        <3>4. SoldFirst(s)
            <4>1. CASE SoldBefore(method, price, m, x)
                BY <2>1, <3>2, <4>1
            <4>2. CASE SoldBefore(method, price, x, m)
                <5>1. \A y \in s : y # x => SoldBefore(method, price, x, y)
                    BY <1>0, <2>1, <3>2, <4>2
                <5>. QED BY <2>1, <5>1
            <4>. QED BY <1>0, <2>1, <3>2, <4>1, <4>2
        <3>5. SoldLast(s)
            <4>1. CASE SoldBefore(method, price, x, l)
                BY <2>1, <3>3, <4>1
            <4>2. CASE SoldBefore(method, price, l, x)
                <5>1. \A y \in s : y # x => SoldBefore(method, price, y, x)
                    BY <1>0, <2>1, <3>3, <4>2
                <5>. QED BY <2>1, <5>1
            <4>. QED BY <1>0, <2>1, <3>3, <4>1, <4>2
        <3>. QED BY <3>4, <3>5
    <2>. QED BY <2>2, <2>3
<1>3. S \in T
    BY <1>2, SubsetInduction
<1>. QED BY <1>1, <1>3

LEMMA RemainingOf ==
    ASSUME LotsInv, NEW S \in SUBSET Ids
    PROVE  /\ IsFiniteSet(S) /\ Remaining(S) \in Nat /\ Remaining({}) = 0
           /\ \A x \in S : Remaining(S) = lots[x].remaining + Remaining(S \ {x})
           /\ \A R \in SUBSET S : Remaining(R) <= Remaining(S)
<1>1. PICK f : f = [i \in Ids |-> lots[i].remaining]
    OBVIOUS
<1>2. \A R : Remaining(R) = Sum(f, R)
    BY <1>1 DEF Remaining, Total, Sum
<1>3. IsFiniteSet(S)
    <2>1. Ids = 1..Len(lots) /\ Len(lots) \in Nat
        BY DEF LotsInv, Ids
    <2>2. IsFiniteSet(Ids)
        BY <2>1, FS_Interval
    <2>. QED BY <2>2, FS_Subset
<1>4. (\A x \in S : f[x] \in Nat) /\ (\A x \in S : f[x] \in Int) /\ \A x \in S : f[x] = lots[x].remaining
    <2>1. \A x \in S : lots[x].remaining \in Nat /\ f[x] = lots[x].remaining
        BY <1>1, LotFacts
    <2>. QED BY <2>1
<1>5. Remaining(S) \in Nat
    BY <1>2, <1>3, <1>4, SumNat
<1>6. Remaining({}) = 0
    BY <1>2, SumEmpty
<1>7. ASSUME NEW x \in S PROVE Remaining(S) = lots[x].remaining + Remaining(S \ {x})
    <2>1. Sum(f, S) = f[x] + Sum(f, S \ {x})
        BY <1>3, <1>4, SumTake
    <2>. QED BY <1>2, <1>4, <2>1
<1>8. ASSUME NEW R \in SUBSET S PROVE Remaining(R) <= Remaining(S)
    BY <1>2, <1>3, <1>4, SumOfPart
<1>. QED BY <1>3, <1>5, <1>6, <1>7, <1>8

\* The lots before p are sold out, those after it are not touched, and p gives
\* what is left to sell.
Splits(p, a, q, price, method) ==
    /\ p \in open_lots(a)
    /\ \A i \in open_lots(a) : SoldBefore(method, price, i, p)
            => Given(a, q, price, method, i) = lots[i].remaining
    /\ \A i \in open_lots(a) : SoldBefore(method, price, p, i) => Given(a, q, price, method, i) = 0
    /\ Given(a, q, price, method, p)
            + Remaining({i \in open_lots(a) : SoldBefore(method, price, i, p)}) = q

LEMMA SomeLotSplits ==
    ASSUME LotsInv, NEW a \in Accounts, NEW q \in Nat \ {0}, NEW price \in Nat,
           NEW method \in LOT_METHODS, q <= Shares(a)
    PROVE  \E p : Splits(p, a, q, price, method)
<1>. DEFINE O == open_lots(a)
            Before(i) == {j \in O : SoldBefore(method, price, j, i)}
            left(i) == lots[i].remaining
<1>0. /\ \A i \in Ids : ~SoldBefore(method, price, i, i)
      /\ \A i, j, k \in Ids : SoldBefore(method, price, i, j) /\ SoldBefore(method, price, j, k)
                                => SoldBefore(method, price, i, k)
      /\ \A i, j \in Ids : i # j => SoldBefore(method, price, i, j) \/ SoldBefore(method, price, j, i)
    BY SellingOrder
<1>1. O \in SUBSET Ids /\ \A i \in O : left(i) \in Nat
    <2>1. O \in SUBSET Ids
        BY DEF open_lots, Of
    <2>. QED BY <2>1, LotFacts
<1>2. \A i : Before(i) \in SUBSET Ids /\ Before(i) \in SUBSET O
    BY <1>1
<1>3. /\ \A S \in SUBSET Ids : Remaining(S) \in Nat /\ IsFiniteSet(S) /\ Remaining({}) = 0
      /\ \A S \in SUBSET Ids : \A x \in S : Remaining(S) = left(x) + Remaining(S \ {x})
      /\ \A S \in SUBSET Ids : \A R \in SUBSET S : Remaining(R) <= Remaining(S)
    BY RemainingOf
<1>4. q <= Remaining(O)
    BY DEF Shares
<1>5. \A i \in O : Given(a, q, price, method, i) =
            IF q - Remaining(Before(i)) <= 0 THEN 0
            ELSE IF q - Remaining(Before(i)) <= left(i) THEN q - Remaining(Before(i)) ELSE left(i)
    <2>. SUFFICES ASSUME NEW i \in open_lots(a)
                  PROVE  Given(a, q, price, method, i) =
                            IF q - Remaining(Before(i)) <= 0 THEN 0
                            ELSE IF q - Remaining(Before(i)) <= left(i) THEN q - Remaining(Before(i)) ELSE left(i)
        OBVIOUS
    <2>1. Given(a, q, price, method, i) =
            IF Rest(a, q, price, method, i) <= 0 THEN 0
            ELSE IF Rest(a, q, price, method, i) <= lots[i].remaining
                 THEN Rest(a, q, price, method, i) ELSE lots[i].remaining
        BY SharesGiven
    <2>. QED BY <2>1 DEF Rest
<1>6. PICK P : P = {i \in O : q <= Remaining(Before(i)) + left(i)}
    OBVIOUS
<1>. HIDE DEF O, Before, left
<1>7. P # {}
    <2>1. O # {}
        BY <1>3, <1>4
    <2>2. PICK l \in O : \A x \in O : x # l => SoldBefore(method, price, x, l)
        <3>1. O \in SUBSET Ids /\ IsFiniteSet(O)
            BY <1>1, <1>3
        <3>. QED BY <2>1, <3>1, FirstAndLast
    <2>3. Before(l) = O \ {l}
        BY <1>0, <1>1, <2>2 DEF Before
    <2>4. Remaining(O) = left(l) + Remaining(Before(l))
        BY <1>1, <1>3, <2>2, <2>3
    <2>5. left(l) \in Nat /\ Remaining(Before(l)) \in Nat
        BY <1>1, <1>2, <1>3, <2>2
    <2>6. l \in P
        BY <1>4, <1>6, <2>2, <2>4, <2>5
    <2>. QED BY <2>6
<1>8. PICK p \in P : \A x \in P : x # p => SoldBefore(method, price, p, x)
    <2>1. P \in SUBSET Ids /\ IsFiniteSet(P)
        BY <1>1, <1>3, <1>6
    <2>. QED BY <1>7, <2>1, FirstAndLast
<1>9. p \in O /\ p \in Ids /\ q <= Remaining(Before(p)) + left(p)
    BY <1>1, <1>6, <1>8
<1>10. Remaining(Before(p)) < q
    <2>1. CASE Before(p) = {}
        BY <1>3, <2>1
    <2>2. CASE Before(p) # {}
        <3>1. PICK l \in Before(p) : \A x \in Before(p) : x # l => SoldBefore(method, price, x, l)
            BY <1>2, <1>3, <2>2, FirstAndLast
        <3>2. l \in O /\ l \in Ids /\ SoldBefore(method, price, l, p)
            BY <1>1, <3>1 DEF Before
        <3>3. Before(l) = Before(p) \ {l}
            <4>1. \A x \in O : SoldBefore(method, price, x, l) => SoldBefore(method, price, x, p) /\ x # l
                BY <1>0, <1>1, <1>9, <3>2
            <4>2. \A x \in Before(p) \ {l} : x \in O /\ SoldBefore(method, price, x, l)
                BY <3>1 DEF Before
            <4>. QED BY <4>1, <4>2 DEF Before
        <3>4. Remaining(Before(p)) = left(l) + Remaining(Before(l))
            BY <1>2, <1>3, <3>1, <3>3
        <3>5. l \notin P
            BY <1>0, <1>8, <1>9, <3>2
        <3>6. ~(q <= Remaining(Before(l)) + left(l))
            BY <1>6, <3>2, <3>5
        <3>7. Remaining(Before(l)) \in Nat /\ left(l) \in Nat
            BY <1>1, <1>2, <1>3, <3>2
        <3>. QED BY <3>4, <3>6, <3>7
    <2>. QED BY <2>1, <2>2
<1>11. ASSUME NEW i \in O, SoldBefore(method, price, i, p)
       PROVE  Given(a, q, price, method, i) = left(i)
    <2>0. i \in Ids
        BY <1>1
    <2>1. i \in Before(p) /\ Before(i) \in SUBSET (Before(p) \ {i})
        <3>1. i \in Before(p)
            BY <1>11 DEF Before
        <3>2. \A x \in O : SoldBefore(method, price, x, i) => SoldBefore(method, price, x, p) /\ x # i
            BY <1>0, <1>1, <1>9, <1>11, <2>0
        <3>. QED BY <3>1, <3>2 DEF Before
    <2>2. Remaining(Before(p)) = left(i) + Remaining(Before(p) \ {i})
        BY <1>2, <1>3, <2>1
    <2>3. Before(p) \ {i} \in SUBSET Ids
        BY <1>2
    <2>4. Remaining(Before(i)) <= Remaining(Before(p) \ {i})
        BY <1>3, <2>1, <2>3
    <2>5. /\ Remaining(Before(i)) \in Nat /\ Remaining(Before(p) \ {i}) \in Nat /\ left(i) \in Nat
          /\ Remaining(Before(p)) \in Nat
        BY <1>1, <1>2, <1>3, <2>3
    <2>6. ~(q - Remaining(Before(i)) <= 0) /\ q - Remaining(Before(i)) > left(i)
        BY <1>10, <2>2, <2>4, <2>5
    <2>. QED BY <1>5, <2>5, <2>6
<1>12. ASSUME NEW i \in O, SoldBefore(method, price, p, i)
       PROVE  Given(a, q, price, method, i) = 0
    <2>0. i \in Ids
        BY <1>1
    <2>1. p \in Before(i) /\ Before(p) \in SUBSET (Before(i) \ {p})
        <3>1. p \in Before(i)
            BY <1>9, <1>12 DEF Before
        <3>2. \A x \in O : SoldBefore(method, price, x, p) => SoldBefore(method, price, x, i) /\ x # p
            BY <1>0, <1>1, <1>9, <1>12, <2>0
        <3>. QED BY <3>1, <3>2 DEF Before
    <2>2. Remaining(Before(i)) = left(p) + Remaining(Before(i) \ {p})
        BY <1>2, <1>3, <2>1
    <2>3. Before(i) \ {p} \in SUBSET Ids
        BY <1>2
    <2>4. Remaining(Before(p)) <= Remaining(Before(i) \ {p})
        BY <1>3, <2>1, <2>3
    <2>5. /\ Remaining(Before(i)) \in Nat /\ Remaining(Before(i) \ {p}) \in Nat /\ left(p) \in Nat
          /\ Remaining(Before(p)) \in Nat
        BY <1>1, <1>2, <1>3, <1>9, <2>3
    <2>6. q - Remaining(Before(i)) <= 0
        BY <1>9, <2>2, <2>4, <2>5
    <2>. QED BY <1>5, <2>6
<1>13. Given(a, q, price, method, p) + Remaining(Before(p)) = q
    <2>1. Remaining(Before(p)) \in Nat /\ left(p) \in Nat
        BY <1>1, <1>2, <1>3, <1>9
    <2>2. Given(a, q, price, method, p) = q - Remaining(Before(p))
        BY <1>5, <1>9, <1>10, <2>1
    <2>. QED BY <2>1, <2>2
<1>14. Splits(p, a, q, price, method)
    BY <1>9, <1>11, <1>12, <1>13 DEF Splits, O, Before, left
<1>. QED BY <1>14

\* What the lots of an account give adds up to what is sold.
LEMMA GivenAddsUp ==
    ASSUME LotsInv, NEW a \in Accounts, NEW q \in Nat \ {0}, NEW price \in Nat,
           NEW method \in LOT_METHODS, q <= Shares(a),
           NEW g, g = [i \in open_lots(a) |-> Given(a, q, price, method, i)]
    PROVE  Sum(g, open_lots(a)) = q
<1>1. PICK p : Splits(p, a, q, price, method)
    BY SomeLotSplits
<1>2. PICK O : O = open_lots(a)
    OBVIOUS
<1>3. PICK B : B = {i \in O : SoldBefore(method, price, i, p)}
    OBVIOUS
<1>4. /\ O \in SUBSET Ids /\ B \in SUBSET O /\ B \in SUBSET Ids /\ p \in O /\ p \notin B
      /\ \A i \in O \ B : i # p => SoldBefore(method, price, p, i)
    <2>1. O \in SUBSET Ids /\ p \in O
        BY <1>1, <1>2 DEF open_lots, Of, Splits
    <2>2. p \notin B
        BY <1>3, <2>1, SellingOrder
    <2>3. \A i \in O \ B : i # p => SoldBefore(method, price, p, i)
        BY <1>3, <2>1, SellingOrder
    <2>. QED BY <1>3, <2>1, <2>2, <2>3
<1>5. /\ \A i \in B : g[i] = lots[i].remaining
      /\ \A i \in O \ B : i # p => g[i] = 0
      /\ g[p] + Remaining(B) = q
    BY <1>1, <1>2, <1>3, <1>4 DEF Splits
<1>6. /\ IsFiniteSet(O) /\ IsFiniteSet(B) /\ Remaining(B) \in Nat
    BY <1>4, RemainingOf
<1>7. (\A i \in O : g[i] \in Int) /\ g[p] \in Int
    <2>1. \A i \in O : lots[i].remaining \in Nat /\ Given(a, q, price, method, i) \in 0..lots[i].remaining
        BY <1>2, <1>4, LotFacts, SharesGiven
    <2>2. \A i \in O : g[i] \in Int
        BY <1>2, <2>1
    <2>. QED BY <1>4, <2>2
<1>8. Sum(g, O) = g[p] + Sum(g, O \ {p})
    BY <1>4, <1>6, <1>7, SumTake
<1>9. Sum(g, O \ {p}) = Sum(g, B)
    <2>1. IsFiniteSet(O \ {p}) /\ B \in SUBSET (O \ {p})
        BY <1>4, <1>6, FS_Subset
    <2>2. (\A i \in O \ {p} : g[i] \in Int) /\ \A i \in (O \ {p}) \ B : g[i] = 0
        BY <1>5, <1>7
    <2>. QED BY <2>1, <2>2, SumOfSome
<1>10. Sum(g, B) = Remaining(B)
    <2>1. PICK f : f = [i \in Ids |-> lots[i].remaining]
        OBVIOUS
    <2>2. \A i \in B : g[i] \in Int /\ g[i] = f[i]
        BY <1>4, <1>5, <1>7, <2>1
    <2>3. Sum(g, B) = Sum(f, B)
        BY <1>6, <2>2, SumSame
    <2>. QED BY <2>1, <2>3 DEF Remaining, Total, Sum
<1>. QED BY <1>2, <1>5, <1>6, <1>7, <1>8, <1>9, <1>10

\* What a choice of lots costs is what the shares each lot gives cost.
LEMMA BasisOfGiven ==
    ASSUME LotsInv, NEW a \in Accounts, NEW q \in Nat \ {0}, NEW price \in Nat,
           NEW method \in LOT_METHODS,
           NEW w, w = [i \in open_lots(a) |-> Given(a, q, price, method, i) * lots[i].cost]
    PROVE  Basis(select_lots(a, q, price, method)) = Sum(w, open_lots(a))
<1>1. PICK O : O = open_lots(a)
    OBVIOUS
<1>2. PICK selections : selections = select_lots(a, q, price, method)
    OBVIOUS
<1>3. PICK sold : sold = {i \in O : Given(a, q, price, method, i) > 0}
    OBVIOUS
<1>4. /\ O \in SUBSET Ids /\ IsFiniteSet(O) /\ sold \in SUBSET O /\ IsFiniteSet(sold)
    <2>1. O \in SUBSET Ids
        BY <1>1 DEF open_lots, Of
    <2>2. IsFiniteSet(O)
        BY <2>1, RemainingOf
    <2>. QED BY <1>3, <2>1, <2>2, FS_Subset
<1>5. \A i \in O : Given(a, q, price, method, i) \in Nat /\ lots[i].cost \in Int /\ w[i] \in Int
    <2>. SUFFICES ASSUME NEW i \in O
                  PROVE  Given(a, q, price, method, i) \in Nat /\ lots[i].cost \in Int /\ w[i] \in Int
        OBVIOUS
    <2>1. lots[i].remaining \in Nat /\ lots[i].cost \in Int
        BY <1>4, LotFacts
    <2>2. Given(a, q, price, method, i) \in 0..lots[i].remaining
        BY <1>1, SharesGiven
    <2>3. PICK n \in Nat, c \in Int : n = Given(a, q, price, method, i) /\ c = lots[i].cost
        BY <2>1, <2>2
    <2>4. w[i] = n * c
        BY <1>1, <2>3
    <2>. QED BY <2>1, <2>3, <2>4
<1>6. /\ \A x \in selections : /\ x.lot \in sold /\ x.shares = Given(a, q, price, method, x.lot)
                                /\ x = [lot |-> x.lot, shares |-> x.shares]
      /\ \A i \in sold : \E x \in selections : x.lot = i
    <2>1. selections =
            {x \in {[lot |-> i, shares |-> Given(a, q, price, method, i)] : i \in O} : x.shares > 0}
        BY <1>1, <1>2 DEF select_lots
    <2>2. ASSUME NEW x \in selections
          PROVE  /\ x.lot \in sold /\ x.shares = Given(a, q, price, method, x.lot)
                 /\ x = [lot |-> x.lot, shares |-> x.shares]
        <3>1. PICK i \in O : x = [lot |-> i, shares |-> Given(a, q, price, method, i)] /\ x.shares > 0
            BY <2>1
        <3>. QED BY <1>3, <3>1
    <2>3. ASSUME NEW i \in sold PROVE \E x \in selections : x.lot = i
        <3>1. PICK x : x = [lot |-> i, shares |-> Given(a, q, price, method, i)]
            OBVIOUS
        <3>2. x.lot = i /\ x.shares > 0 /\ i \in O
            BY <1>3, <3>1
        <3>. QED BY <2>1, <3>1, <3>2
    <2>. QED BY <2>2, <2>3
<1>7. PICK name : name = [x \in selections |-> x.lot]
    OBVIOUS
<1>8. /\ \A x \in selections : \A y \in selections : name[x] = name[y] => x = y
      /\ {name[x] : x \in selections} = sold
    <2>1. ASSUME NEW x \in selections, NEW y \in selections, name[x] = name[y] PROVE x = y
        <3>1. x.lot = y.lot
            BY <1>7, <2>1
        <3>2. x.shares = y.shares
            BY <1>6, <3>1
        <3>3. /\ x = [lot |-> x.lot, shares |-> x.shares]
              /\ y = [lot |-> y.lot, shares |-> y.shares]
            BY <1>6
        <3>. QED BY <3>1, <3>2, <3>3
    <2>2. {name[x] : x \in selections} = sold
        BY <1>6, <1>7
    <2>. QED BY <2>1, <2>2
<1>9. IsFiniteSet(selections)
    <2>1. PICK h : h = [i \in sold |-> CHOOSE x \in selections : x.lot = i]
        OBVIOUS
    <2>2. \A i \in sold : h[i] \in selections /\ h[i].lot = i
        BY <1>6, <2>1
    <2>3. \A x \in selections : \E i \in sold : h[i] = x
        <3>1. ASSUME NEW x \in selections PROVE h[x.lot] = x
            <4>1. h[x.lot] \in selections /\ h[x.lot].lot = x.lot
                BY <1>6, <2>2
            <4>. QED BY <1>7, <1>8, <4>1
        <3>. QED BY <1>6, <3>1
    <2>4. h \in Surjection(sold, selections)
        BY <2>1, <2>2, <2>3 DEF Surjection
    <2>. QED BY <1>4, <2>4, FS_Surjection
<1>10. PICK v : v = [x \in selections |-> x.shares * lots[x.lot].cost]
    OBVIOUS
<1>11. \A x \in selections : v[x] \in Int /\ w[name[x]] = v[x]
    <2>. SUFFICES ASSUME NEW x \in selections PROVE v[x] \in Int /\ w[name[x]] = v[x]
        OBVIOUS
    <2>1. PICK i \in O : i = x.lot /\ name[x] = i /\ x.shares = Given(a, q, price, method, i)
        BY <1>4, <1>6, <1>7
    <2>2. v[x] = Given(a, q, price, method, i) * lots[i].cost
        BY <1>10, <2>1
    <2>3. w[i] = Given(a, q, price, method, i) * lots[i].cost
        BY <1>1
    <2>. QED BY <1>5, <2>1, <2>2, <2>3
<1>12. Sum(v, selections) = Sum(w, sold)
    <2>1. Sum(v, selections) = Sum(w, {name[x] : x \in selections})
        BY <1>8, <1>9, <1>11, SumOfNamed
    <2>. QED BY <1>8, <2>1
<1>13. Sum(w, O) = Sum(w, sold)
    <2>1. \A i \in O \ sold : w[i] = 0
        <3>. SUFFICES ASSUME NEW i \in O, i \notin sold PROVE w[i] = 0
            OBVIOUS
        <3>1. PICK c \in Int : c = lots[i].cost
            BY <1>5
        <3>2. Given(a, q, price, method, i) = 0
            BY <1>3, <1>5
        <3>3. w[i] = 0 * c
            BY <1>1, <3>1, <3>2
        <3>. QED BY <3>3
    <2>2. \A i \in O : w[i] \in Int
        BY <1>5
    <2>. QED BY <1>4, <2>1, <2>2, SumOfSome
<1>14. Basis(selections) = Sum(v, selections)
    BY <1>10 DEF Basis, Total, Sum
<1>. QED BY <1>1, <1>2, <1>12, <1>13, <1>14

\* Shares moved from any choice of lots to the one HIFO makes move from cheaper
\* lots to dearer ones, seen from the lot that splits.
LEMMA DearerIsWorthMore ==
    ASSUME NEW given \in Nat, NEW other \in Nat, NEW c \in Int, NEW threshold \in Int,
           (given >= other /\ c >= threshold) \/ (given <= other /\ c <= threshold)
    PROVE  other * c + threshold * given <= given * c + threshold * other
<1>1. PICK x \in Int, y \in Int : x = given - other /\ y = c - threshold
    OBVIOUS
<1>2. x * y >= 0
    <2>1. CASE given >= other /\ c >= threshold
        <3>1. x \in Nat /\ y \in Nat
            BY <1>1, <2>1
        <3>. QED BY <3>1
    <2>2. CASE given <= other /\ c <= threshold
        <3>1. PICK k \in Nat, m \in Nat : x = -k /\ y = -m
            BY <1>1, <2>2
        <3>2. x * y = k * m /\ k * m \in Nat
            BY <3>1
        <3>. QED BY <3>2
    <2>. QED BY <2>1, <2>2
<1>3. given * c + threshold * other = other * c + threshold * given + x * y
    <2>1. given = other + x /\ c = threshold + y
        BY <1>1
    <2>. QED BY <2>1
<1>4. /\ other * c + threshold * given \in Int /\ x * y \in Int
      /\ given * c + threshold * other \in Int
    OBVIOUS
<1>. QED BY <1>2, <1>3, <1>4

LEMMA HIFOIsLeast ==
    ASSUME LotsInv, NEW a \in Accounts, NEW q \in Quantities, NEW price \in Prices, Shares(a) >= q,
           NEW f \in Allocations(a, q)
    PROVE  Total([i \in open_lots(a) |-> f[i] * lots[i].cost], open_lots(a))
                <= Basis(select_lots(a, q, price, "HIFO"))
<1>1. PICK O : O = open_lots(a)
    OBVIOUS
<1>2. /\ q \in Nat \ {0} /\ price \in Nat /\ "HIFO" \in LOT_METHODS
    BY LotsAssumption DEF LOT_METHODS
<1>3. O \in SUBSET Ids /\ IsFiniteSet(O) /\ Shares(a) \in Nat
    <2>1. O \in SUBSET Ids
        BY <1>1 DEF open_lots, Of
    <2>. QED BY <1>1, <2>1, RemainingOf DEF Shares
<1>4. PICK g : g = [i \in O |-> Given(a, q, price, "HIFO", i)]
    OBVIOUS
<1>5. Sum(g, O) = q
    BY <1>1, <1>2, <1>3, <1>4, GivenAddsUp
<1>6. /\ Sum(f, O) = q
      /\ \A i \in O : f[i] \in Nat /\ f[i] <= lots[i].remaining
    BY <1>1, <1>2 DEF Allocations, Total, Sum
<1>7. PICK p : Splits(p, a, q, price, "HIFO")
    BY <1>2, <1>3, SomeLotSplits
<1>8. p \in O
    BY <1>1, <1>7 DEF Splits
<1>9. PICK t \in Int : t = lots[p].cost
    BY <1>3, <1>8, LotFacts
<1>10. ASSUME NEW i \in O
       PROVE  /\ g[i] \in Nat /\ lots[i].cost \in Int
              /\ f[i] * lots[i].cost + t * g[i] <= g[i] * lots[i].cost + t * f[i]
    <2>1. lots[i].remaining \in Nat /\ lots[i].cost \in Int /\ i \in Ids /\ p \in Ids
        BY <1>3, <1>8, LotFacts
    <2>2. Given(a, q, price, "HIFO", i) \in 0..lots[i].remaining
        BY <1>1, <1>2, SharesGiven
    <2>3. PICK n \in Nat, m \in Nat, c \in Int : n = g[i] /\ m = f[i] /\ c = lots[i].cost
        BY <1>4, <1>6, <2>1, <2>2
    <2>4. (n >= m /\ c >= t) \/ (n <= m /\ c <= t)
        <3>1. CASE i = p
            BY <1>9, <2>3, <3>1
        <3>2. CASE SoldBefore("HIFO", price, i, p)
            <4>1. n = lots[i].remaining
                BY <1>1, <1>4, <1>7, <2>3, <3>2 DEF Splits
            <4>2. c >= t
                <5>1. Dearer(i, p)
                    BY <3>2 DEF SoldBefore
                <5>. QED BY <1>9, <2>3, <5>1 DEF Dearer
            <4>. QED BY <1>6, <2>3, <4>1, <4>2
        <3>3. CASE SoldBefore("HIFO", price, p, i)
            <4>1. n = 0
                BY <1>1, <1>4, <1>7, <2>3, <3>3 DEF Splits
            <4>2. c <= t
                <5>1. Dearer(p, i)
                    BY <3>3 DEF SoldBefore
                <5>. QED BY <1>9, <2>3, <5>1 DEF Dearer
            <4>. QED BY <4>1, <4>2
        <3>. QED BY <1>2, <2>1, <3>1, <3>2, <3>3, SellingOrder
    <2>5. m * c + t * n <= n * c + t * m
        BY <2>4, DearerIsWorthMore
    <2>. QED BY <2>1, <2>3, <2>5
<1>11. PICK fc, gc, tf, tg, left, right :
        /\ fc = [i \in O |-> f[i] * lots[i].cost] /\ gc = [i \in O |-> g[i] * lots[i].cost]
        /\ tf = [i \in O |-> t * f[i]] /\ tg = [i \in O |-> t * g[i]]
        /\ left = [i \in O |-> f[i] * lots[i].cost + t * g[i]]
        /\ right = [i \in O |-> g[i] * lots[i].cost + t * f[i]]
    OBVIOUS
<1>12. \A i \in O : /\ fc[i] \in Int /\ gc[i] \in Int /\ tf[i] \in Int /\ tg[i] \in Int
                     /\ left[i] = fc[i] + tg[i] /\ right[i] = gc[i] + tf[i]
                     /\ left[i] \in Int /\ right[i] \in Int /\ left[i] <= right[i]
    <2>. SUFFICES ASSUME NEW i \in O
                  PROVE  /\ fc[i] \in Int /\ gc[i] \in Int /\ tf[i] \in Int /\ tg[i] \in Int
                         /\ left[i] = fc[i] + tg[i] /\ right[i] = gc[i] + tf[i]
                         /\ left[i] \in Int /\ right[i] \in Int /\ left[i] <= right[i]
        OBVIOUS
    <2>1. PICK n \in Nat, m \in Nat, c \in Int : n = g[i] /\ m = f[i] /\ c = lots[i].cost
        BY <1>6, <1>10
    <2>2. m * c \in Int /\ n * c \in Int /\ t * m \in Int /\ t * n \in Int
        OBVIOUS
    <2>3. /\ fc[i] = m * c /\ gc[i] = n * c /\ tf[i] = t * m /\ tg[i] = t * n
          /\ left[i] = m * c + t * n /\ right[i] = n * c + t * m
        BY <1>11, <2>1
    <2>4. m * c + t * n <= n * c + t * m
        BY <1>10, <2>1
    <2>. QED BY <2>2, <2>3, <2>4
<1>13. Sum(left, O) <= Sum(right, O)
    BY <1>3, <1>12, SumAtMost
<1>14. Sum(left, O) = Sum(fc, O) + Sum(tg, O)
    BY <1>3, <1>12, SumPlus
<1>15. Sum(right, O) = Sum(gc, O) + Sum(tf, O)
    BY <1>3, <1>12, SumPlus
<1>16. Sum(tg, O) = t * q
    <2>1. \A i \in O : g[i] \in Int /\ tg[i] = t * g[i]
        BY <1>10, <1>11
    <2>. QED BY <1>3, <1>5, <2>1, SumTimes
<1>17. Sum(tf, O) = t * q
    <2>1. \A i \in O : f[i] \in Int /\ tf[i] = t * f[i]
        BY <1>6, <1>11
    <2>. QED BY <1>3, <1>6, <2>1, SumTimes
<1>18. Sum(fc, O) \in Int /\ Sum(gc, O) \in Int /\ t * q \in Int
    <2>1. (\A i \in O : fc[i] \in Int) /\ \A i \in O : gc[i] \in Int
        BY <1>12
    <2>2. t * q \in Int
        BY <1>2
    <2>. QED BY <1>3, <2>1, <2>2, SumInt
<1>19. Sum(fc, O) <= Sum(gc, O)
    BY <1>13, <1>14, <1>15, <1>16, <1>17, <1>18
<1>20. Sum(gc, O) = Basis(select_lots(a, q, price, "HIFO"))
    <2>1. gc = [i \in open_lots(a) |-> Given(a, q, price, "HIFO", i) * lots[i].cost]
        <3>1. \A i \in O : gc[i] = Given(a, q, price, "HIFO", i) * lots[i].cost
            BY <1>4, <1>11
        <3>. QED BY <1>1, <1>11, <3>1
    <2>. QED BY <1>1, <1>2, <2>1, BasisOfGiven
<1>21. Sum(fc, O) = Total([i \in open_lots(a) |-> f[i] * lots[i].cost], open_lots(a))
    BY <1>1, <1>11 DEF Total, Sum
<1>. QED BY <1>19, <1>20, <1>21

\* HIFOLeastGain holds: no other choice of lots realizes less gain than HIFO.
THEOREM HIFORealizesLeast == Spec => []HIFOLeastGain
<1>1. LotsInv => HIFOLeastGain
    <2>. SUFFICES ASSUME LotsInv, NEW a \in Accounts, NEW q \in Quantities, NEW price \in Prices,
                         Shares(a) >= q, NEW f \in Allocations(a, q)
                  PROVE  Total([i \in open_lots(a) |-> f[i] * lots[i].cost], open_lots(a))
                            <= Basis(select_lots(a, q, price, "HIFO"))
        BY DEF HIFOLeastGain
    <2>. QED BY HIFOIsLeast
<1>. QED BY <1>1, LotsHold, PTL

-----------------------------------------------------------------------------
(* The books.                                                               *)

\* What BooksBalance says, for amounts whose division leaves a remainder: what
\* the books of an account are out by is less than a unit for every share bought.
BooksWithinRounding ==
    \A a \in Accounts :
        LET proceeds == Total([i \in Ids |-> lots[i].proceeds], Of(a))
            gain == Total([i \in Ids |-> lots[i].gain], Of(a))
        IN  /\ position[a].quantity = book[a].bought - book[a].sold
            /\ (book[a].paid + book[a].deferred) - ((position[a].cost + proceeds) - gain) \in 0..book[a].bought
            /\ proceeds = book[a].received

Mine(table, a) == {i \in DOMAIN table : table[i].account = a}
Column(table, field) == [i \in DOMAIN table |-> table[i][field]]

\* What a lot has cost: what it still holds and what it sold, at cost.
Worth(lot) == lot.remaining * lot.cost + lot.proceeds - lot.gain
Worths(table) == [i \in DOMAIN table |-> Worth(table[i])]

Ledgers == [bought : Nat, sold : Int, paid : Int, received : Int, deferred : Int]

\* A purchase inherits all that it defers: a loss that is spread over its shares
\* leaves no remainder.
EvenDeferrals ==
    Len(lots') > Len(lots) =>
        LET new == lots'[Len(lots')]
        IN  book'[new.account].deferred - book[new.account].deferred = (new.cost - new.price) * new.quantity

\* What the books of an account may be out by.
Off(ledger, mode) == IF mode = "exact" THEN {0} ELSE 0..ledger.bought

\* The ledger of an account agrees with its lots.
LedgerInv(ledger, table, a, mode) ==
    /\ ledger \in Ledgers
    /\ Sum(Column(table, "remaining"), Mine(table, a)) = ledger.bought - ledger.sold
    /\ Sum(Column(table, "proceeds"), Mine(table, a)) = ledger.received
    /\ ledger.paid + ledger.deferred - Sum(Worths(table), Mine(table, a)) \in Off(ledger, mode)

BooksInv(mode) ==
    /\ DOMAIN position = Accounts /\ DOMAIN book = Accounts
    /\ \A a \in Accounts : position[a] = Rollup(lots, a) /\ LedgerInv(book[a], lots, a, mode)

LEMMA RowSums ==
    ASSUME NEW table \in Seq(LotRows), NEW a
    PROVE  /\ IsFiniteSet(Mine(table, a)) /\ Mine(table, a) \in SUBSET DOMAIN table
           /\ \A i \in DOMAIN table :
                /\ table[i] \in LotRows
                /\ Column(table, "remaining")[i] = table[i].remaining /\ table[i].remaining \in Nat
                /\ Column(table, "proceeds")[i] = table[i].proceeds /\ table[i].proceeds \in Int
                /\ Worths(table)[i] = Worth(table[i]) /\ Worth(table[i]) \in Int
                /\ table[i].cost \in Int /\ table[i].gain \in Int
           /\ Sum(Column(table, "remaining"), Mine(table, a)) \in Nat
           /\ Sum(Column(table, "proceeds"), Mine(table, a)) \in Int
           /\ Sum(Worths(table), Mine(table, a)) \in Int
<1>1. DOMAIN table = 1..Len(table) /\ Len(table) \in Nat
    OBVIOUS
<1>2. \A i \in DOMAIN table : table[i] \in LotRows
    BY <1>1
<1>3. Mine(table, a) \in SUBSET DOMAIN table
    BY DEF Mine
<1>4. IsFiniteSet(Mine(table, a))
    <2>1. IsFiniteSet(DOMAIN table)
        BY <1>1, FS_Interval
    <2>. QED BY <1>3, <2>1, FS_Subset
<1>5. ASSUME NEW i \in DOMAIN table
      PROVE  /\ Column(table, "remaining")[i] = table[i].remaining /\ table[i].remaining \in Nat
             /\ Column(table, "proceeds")[i] = table[i].proceeds /\ table[i].proceeds \in Int
             /\ Worths(table)[i] = Worth(table[i]) /\ Worth(table[i]) \in Int
             /\ table[i].cost \in Int /\ table[i].gain \in Int
    <2>1. /\ table[i].remaining \in Nat /\ table[i].proceeds \in Int
          /\ table[i].cost \in Int /\ table[i].gain \in Int
        BY <1>2 DEF LotRows
    <2>2. PICK r \in Nat, c \in Int : r = table[i].remaining /\ c = table[i].cost /\ r * c \in Int
        BY <2>1
    <2>3. Worth(table[i]) \in Int
        BY <2>1, <2>2 DEF Worth
    <2>. QED BY <2>1, <2>3 DEF Column, Worths
<1>6. Sum(Column(table, "remaining"), Mine(table, a)) \in Nat
    <2>1. \A i \in Mine(table, a) : Column(table, "remaining")[i] \in Nat
        BY <1>3, <1>5
    <2>. QED BY <1>4, <2>1, SumNat
<1>7. Sum(Column(table, "proceeds"), Mine(table, a)) \in Int
    <2>1. \A i \in Mine(table, a) : Column(table, "proceeds")[i] \in Int
        BY <1>3, <1>5
    <2>. QED BY <1>4, <2>1, SumInt
<1>8. Sum(Worths(table), Mine(table, a)) \in Int
    <2>1. \A i \in Mine(table, a) : Worths(table)[i] \in Int
        BY <1>3, <1>5
    <2>. QED BY <1>4, <2>1, SumInt
<1>. QED BY <1>2, <1>3, <1>4, <1>5, <1>6, <1>7, <1>8

\* The ledger of an account agrees with any table that has the same lots of it.
LEMMA SameRowsSameBooks ==
    ASSUME NEW old \in Seq(LotRows), NEW new \in Seq(LotRows), NEW a, NEW mode,
           Mine(new, a) = Mine(old, a),
           \A i \in Mine(old, a) :
                /\ new[i].remaining = old[i].remaining /\ new[i].cost = old[i].cost
                /\ new[i].gain = old[i].gain /\ new[i].proceeds = old[i].proceeds
    PROVE  /\ \A ledger : LedgerInv(ledger, old, a, mode) => LedgerInv(ledger, new, a, mode)
           /\ Rollup(new, a) = Rollup(old, a)
<1>1. PICK M : M = Mine(old, a) /\ M = Mine(new, a)
    OBVIOUS
<1>2. /\ IsFiniteSet(M) /\ M \in SUBSET DOMAIN old /\ M \in SUBSET DOMAIN new
    BY <1>1, RowSums
<1>3. \A i \in M : /\ Column(new, "remaining")[i] \in Int
                   /\ Column(new, "remaining")[i] = Column(old, "remaining")[i]
                   /\ Column(new, "proceeds")[i] \in Int
                   /\ Column(new, "proceeds")[i] = Column(old, "proceeds")[i]
                   /\ Worths(new)[i] \in Int
                   /\ Worths(new)[i] = Worths(old)[i]
    <2>. SUFFICES ASSUME NEW i \in M
                  PROVE  /\ Column(new, "remaining")[i] \in Int
                         /\ Column(new, "remaining")[i] = Column(old, "remaining")[i]
                         /\ Column(new, "proceeds")[i] \in Int
                         /\ Column(new, "proceeds")[i] = Column(old, "proceeds")[i]
                         /\ Worths(new)[i] \in Int
                         /\ Worths(new)[i] = Worths(old)[i]
        OBVIOUS
    <2>1. i \in DOMAIN old /\ i \in DOMAIN new
        BY <1>2
    <2>2. /\ Column(old, "remaining")[i] = old[i].remaining
          /\ Column(old, "proceeds")[i] = old[i].proceeds /\ Worths(old)[i] = Worth(old[i])
        BY <2>1, RowSums
    <2>3. /\ Column(new, "remaining")[i] = new[i].remaining /\ new[i].remaining \in Nat
          /\ Column(new, "proceeds")[i] = new[i].proceeds /\ new[i].proceeds \in Int
          /\ Worths(new)[i] = Worth(new[i]) /\ Worth(new[i]) \in Int
        BY <2>1, RowSums
    <2>4. Worth(new[i]) = Worth(old[i])
        BY <1>1 DEF Worth
    <2>. QED BY <1>1, <2>2, <2>3, <2>4
<1>4. /\ Sum(Column(new, "remaining"), M) = Sum(Column(old, "remaining"), M)
      /\ Sum(Column(new, "proceeds"), M) = Sum(Column(old, "proceeds"), M)
      /\ Sum(Worths(new), M) = Sum(Worths(old), M)
    BY <1>2, <1>3, SumSame
<1>5. PICK c, d : /\ c = [i \in DOMAIN old |-> old[i].remaining * old[i].cost]
                  /\ d = [i \in DOMAIN new |-> new[i].remaining * new[i].cost]
    OBVIOUS
<1>6. Sum(d, M) = Sum(c, M)
    <2>1. ASSUME NEW i \in M PROVE d[i] \in Int /\ d[i] = c[i]
        <3>1. d[i] = new[i].remaining * new[i].cost /\ c[i] = old[i].remaining * old[i].cost
            BY <1>2, <1>5
        <3>2. PICK r \in Nat, k \in Int : r = new[i].remaining /\ k = new[i].cost
            BY <1>2, RowSums
        <3>3. old[i].remaining = r /\ old[i].cost = k
            BY <1>1, <3>2
        <3>. QED BY <3>1, <3>2, <3>3
    <2>. QED BY <1>2, <2>1, SumSame
<1>7. \A table, R : R = {i \in DOMAIN table : table[i].account = a} =>
        Rollup(table, a) = [quantity |-> Sum(Column(table, "remaining"), R),
                            cost |-> Sum([i \in DOMAIN table |-> table[i].remaining * table[i].cost], R)]
    BY DEF Rollup, Total, Sum, Column
<1>8. Rollup(new, a) = Rollup(old, a)
    BY <1>1, <1>4, <1>5, <1>6, <1>7 DEF Mine
<1>9. \A ledger : LedgerInv(ledger, old, a, mode) => LedgerInv(ledger, new, a, mode)
    BY <1>1, <1>4 DEF LedgerInv
<1>. QED BY <1>8, <1>9

\* A sale takes what each lot gives and leaves what every lot was worth.
LEMMA SaleRows ==
    ASSUME LotsInv, NEW a \in Accounts, NEW q \in Quantities, NEW price \in Prices,
           NEW method \in LOT_METHODS, record_sale(a, q, price, method),
           NEW take, take = [i \in Ids |-> IF i \in open_lots(a) THEN Given(a, q, price, method, i) ELSE 0]
    PROVE  /\ Ids' = Ids
           /\ \A i \in Ids :
                /\ take[i] \in Nat
                /\ lots'[i].account = lots[i].account /\ lots'[i].cost = lots[i].cost
                /\ lots'[i].remaining = lots[i].remaining - take[i]
                /\ lots'[i].gain = lots[i].gain + take[i] * (price - lots[i].cost)
                /\ lots'[i].proceeds = lots[i].proceeds + take[i] * price
<1>1. PICK selections, from :
        /\ selections = select_lots(a, q, price, method) /\ from = {x.lot : x \in selections}
    OBVIOUS
<1>2. PICK taken : taken = [i \in Ids |-> (CHOOSE x \in selections : x.lot = i).shares]
    OBVIOUS
<1>3. q \in Nat \ {0} /\ price \in Nat
    BY LotsAssumption
<1>4. /\ \A i \in from : i \in Ids /\ i \in open_lots(a)
                          /\ (CHOOSE x \in selections : x.lot = i).shares = Given(a, q, price, method, i)
      /\ \A i \in open_lots(a) : i \notin from => Given(a, q, price, method, i) = 0
    BY <1>1, <1>3, Taken
<1>5. /\ \A i \in from : i \in Ids /\ taken[i] = take[i]
      /\ \A i \in Ids \ from : take[i] = 0
    BY <1>2, <1>4
<1>6. lots' = [i \in Ids |-> IF i \notin from THEN lots[i] ELSE
            [lots[i] EXCEPT !.remaining = @ - (CHOOSE x \in selections : x.lot = i).shares,
                            !.gain = @ + (CHOOSE x \in selections : x.lot = i).shares * (price - lots[i].cost),
                            !.proceeds = @ + (CHOOSE x \in selections : x.lot = i).shares * price,
                            !.term = term_for(lots[i].acquired),
                            !.disposed = day]]
    BY <1>1, Zenon DEF record_sale, Accumulated, DisposedAt
<1>7. ASSUME NEW i \in Ids
      PROVE  /\ take[i] \in Nat
             /\ lots'[i].account = lots[i].account /\ lots'[i].cost = lots[i].cost
             /\ lots'[i].remaining = lots[i].remaining - take[i]
             /\ lots'[i].gain = lots[i].gain + take[i] * (price - lots[i].cost)
             /\ lots'[i].proceeds = lots[i].proceeds + take[i] * price
    <2>1. lots[i] \in LotRows /\ lots[i].remaining \in Nat /\ lots[i].cost \in Int
        BY LotFacts
    <2>2. lots[i].gain \in Int /\ lots[i].proceeds \in Int
        BY <2>1 DEF LotRows
    <2>3. take[i] \in Nat
        <3>1. i \in open_lots(a) => Given(a, q, price, method, i) \in 0..lots[i].remaining
            BY <1>3, SharesGiven
        <3>. QED BY <2>1, <3>1
    <2>4. CASE i \notin from
        <3>1. lots'[i] = lots[i] /\ take[i] = 0
            BY <1>5, <1>6, <2>4
        <3>2. /\ lots[i].remaining = lots[i].remaining - 0
              /\ lots[i].gain = lots[i].gain + 0 * (price - lots[i].cost)
              /\ lots[i].proceeds = lots[i].proceeds + 0 * price
            BY <1>3, <2>1, <2>2
        <3>. QED BY <2>3, <3>1, <3>2
    <2>5. CASE i \in from
        <3>1. PICK t : t = (CHOOSE x \in selections : x.lot = i).shares /\ t = take[i]
            BY <1>2, <1>5, <2>5
        <3>2. lots'[i] = [lots[i] EXCEPT !.remaining = @ - t, !.gain = @ + t * (price - lots[i].cost),
                                         !.proceeds = @ + t * price,
                                         !.term = term_for(lots[i].acquired), !.disposed = day]
            BY <1>6, <2>5, <3>1
        <3>3. /\ lots'[i].account = lots[i].account /\ lots'[i].cost = lots[i].cost
              /\ lots'[i].remaining = lots[i].remaining - t
              /\ lots'[i].gain = lots[i].gain + t * (price - lots[i].cost)
              /\ lots'[i].proceeds = lots[i].proceeds + t * price
            BY <2>1, <3>2 DEF LotRows
        <3>. QED BY <2>3, <3>1, <3>3
    <2>. QED BY <2>4, <2>5
<1>8. Ids' = Ids
    <2>1. DOMAIN lots' = Ids
        BY <1>6
    <2>. QED BY <2>1 DEF Ids
<1>. QED BY <1>7, <1>8

LEMMA SaleBooks ==
    ASSUME LotsInv, LotsInv', NEW mode, BooksInv(mode), NEW a \in Accounts, NEW q \in Quantities,
           NEW price \in Prices, NEW method \in LOT_METHODS, record_sale(a, q, price, method)
    PROVE  BooksInv(mode)'
<1>0. q \in Nat \ {0} /\ price \in Nat /\ method \in LOT_METHODS
    BY LotsAssumption
<1>1. PICK old \in Seq(LotRows), new \in Seq(LotRows) : old = lots /\ new = lots'
    BY DEF LotsInv
<1>2. PICK take : take = [i \in Ids |-> IF i \in open_lots(a) THEN Given(a, q, price, method, i) ELSE 0]
    OBVIOUS
<1>3. /\ DOMAIN new = Ids /\ DOMAIN old = Ids
      /\ \A i \in Ids :
            /\ take[i] \in Nat
            /\ new[i].account = old[i].account /\ new[i].cost = old[i].cost
            /\ new[i].remaining = old[i].remaining - take[i]
            /\ new[i].gain = old[i].gain + take[i] * (price - old[i].cost)
            /\ new[i].proceeds = old[i].proceeds + take[i] * price
    BY <1>1, <1>2, SaleRows DEF Ids
<1>4. \A b : Mine(new, b) = Mine(old, b)
    BY <1>3 DEF Mine
<1>5. /\ position' = [position EXCEPT ![a] = Rollup(new, a)]
      /\ book' = [book EXCEPT ![a].sold = @ + q, ![a].received = @ + q * price]
      /\ Shares(a) >= q
    BY <1>1 DEF record_sale, _rebuild_position
<1>6. PICK M : M = Mine(old, a) /\ M = Mine(new, a)
    BY <1>4
<1>7. /\ IsFiniteSet(M) /\ M \in SUBSET Ids /\ M = Of(a) /\ open_lots(a) \in SUBSET M
    <2>1. IsFiniteSet(M) /\ M \in SUBSET DOMAIN old
        BY <1>6, RowSums
    <2>2. M = Of(a)
        BY <1>1, <1>6 DEF Mine, Of, Ids
    <2>3. open_lots(a) \in SUBSET Of(a)
        BY DEF open_lots
    <2>. QED BY <1>3, <2>1, <2>2, <2>3
<1>8. Sum(take, M) = q
    <2>1. PICK g : g = [i \in open_lots(a) |-> Given(a, q, price, method, i)]
        OBVIOUS
    <2>2. q <= Shares(a)
        <3>1. Shares(a) \in Nat
            BY <1>0, SharesGiven DEF Shares
        <3>. QED BY <1>0, <1>5, <3>1
    <2>3. Sum(g, open_lots(a)) = q
        BY <1>0, <2>1, <2>2, GivenAddsUp
    <2>4. /\ \A i \in open_lots(a) : g[i] \in Int /\ g[i] = take[i]
          /\ \A i \in M : take[i] \in Int
          /\ \A i \in M \ open_lots(a) : take[i] = 0
        BY <1>2, <1>3, <1>7, <2>1
    <2>5. IsFiniteSet(open_lots(a))
        BY <1>7, FS_Subset
    <2>6. Sum(g, open_lots(a)) = Sum(take, open_lots(a))
        BY <2>4, <2>5, SumSame
    <2>7. Sum(take, M) = Sum(take, open_lots(a))
        BY <1>7, <2>4, SumOfSome
    <2>. QED BY <2>3, <2>6, <2>7
<1>9. PICK ledger \in Ledgers : ledger = book[a] /\ LedgerInv(ledger, old, a, mode)
    BY <1>1 DEF BooksInv, LedgerInv
<1>10. /\ Sum(Column(new, "remaining"), M) \in Int /\ Sum(Column(old, "proceeds"), M) \in Int
       /\ Sum(take, M) \in Int
    <2>1. /\ Sum(Column(new, "remaining"), Mine(new, a)) \in Nat
          /\ Sum(Column(old, "proceeds"), Mine(old, a)) \in Int
        BY RowSums
    <2>2. PICK n \in Nat : n = Sum(Column(new, "remaining"), M)
        BY <1>6, <2>1
    <2>3. Sum(Column(new, "remaining"), M) \in Int
        BY <2>2
    <2>4. Sum(take, M) \in Int
        BY <1>0, <1>8
    <2>. QED BY <1>6, <2>1, <2>3, <2>4
<1>11. Sum(Column(old, "remaining"), M) = Sum(Column(new, "remaining"), M) + q
    <2>1. \A i \in M : /\ Column(new, "remaining")[i] \in Int /\ take[i] \in Int
                       /\ Column(old, "remaining")[i] = Column(new, "remaining")[i] + take[i]
        <3>. SUFFICES ASSUME NEW i \in M
                      PROVE  /\ Column(new, "remaining")[i] \in Int /\ take[i] \in Int
                             /\ Column(old, "remaining")[i] = Column(new, "remaining")[i] + take[i]
            OBVIOUS
        <3>1. i \in Ids /\ i \in DOMAIN old /\ i \in DOMAIN new
            BY <1>3, <1>7
        <3>2. Column(old, "remaining")[i] = old[i].remaining /\ old[i].remaining \in Nat
              /\ Column(new, "remaining")[i] = new[i].remaining /\ new[i].remaining \in Nat
            BY <3>1, RowSums
        <3>. QED BY <1>3, <3>1, <3>2
    <2>2. Sum(Column(old, "remaining"), M) = Sum(Column(new, "remaining"), M) + Sum(take, M)
        BY <1>7, <2>1, SumPlus
    <2>. QED BY <1>8, <2>2
<1>12. Sum(Column(new, "proceeds"), M) = Sum(Column(old, "proceeds"), M) + q * price
    <2>1. PICK paid : paid = [i \in Ids |-> price * take[i]]
        OBVIOUS
    <2>2. \A i \in M : take[i] \in Int /\ paid[i] = price * take[i]
        BY <1>3, <1>7, <2>1
    <2>3. Sum(paid, M) = price * q
        <3>1. price \in Int
            BY <1>0
        <3>2. Sum(paid, M) = price * Sum(take, M)
            BY <1>7, <2>2, <3>1, SumTimes
        <3>. QED BY <1>8, <3>2
    <2>4. \A i \in M : /\ Column(old, "proceeds")[i] \in Int /\ paid[i] \in Int
                       /\ Column(new, "proceeds")[i] = Column(old, "proceeds")[i] + paid[i]
        <3>. SUFFICES ASSUME NEW i \in M
                      PROVE  /\ Column(old, "proceeds")[i] \in Int /\ paid[i] \in Int
                             /\ Column(new, "proceeds")[i] = Column(old, "proceeds")[i] + paid[i]
            OBVIOUS
        <3>1. i \in Ids /\ i \in DOMAIN old /\ i \in DOMAIN new
            BY <1>3, <1>7
        <3>2. Column(old, "proceeds")[i] = old[i].proceeds /\ old[i].proceeds \in Int
              /\ Column(new, "proceeds")[i] = new[i].proceeds
            BY <3>1, RowSums
        <3>3. PICK t \in Nat : t = take[i] /\ t * price \in Int /\ t * price = price * t
            <4>1. PICK t \in Nat : t = take[i]
                BY <1>3, <3>1
            <4>. QED BY <1>0, <4>1
        <3>. QED BY <1>3, <2>2, <3>1, <3>2, <3>3
    <2>5. Sum(Column(new, "proceeds"), M) = Sum(Column(old, "proceeds"), M) + Sum(paid, M)
        BY <1>7, <2>4, SumPlus
    <2>. QED BY <1>0, <2>3, <2>5
<1>13. Sum(Worths(new), M) = Sum(Worths(old), M)
    <2>1. ASSUME NEW i \in M PROVE Worths(old)[i] \in Int /\ Worths(old)[i] = Worths(new)[i]
        <3>1. i \in Ids /\ i \in DOMAIN old /\ i \in DOMAIN new
            BY <1>3, <1>7
        <3>2. /\ Worths(old)[i] = Worth(old[i]) /\ Worth(old[i]) \in Int
              /\ Worths(new)[i] = Worth(new[i])
              /\ old[i].remaining \in Nat /\ old[i].proceeds \in Int
              /\ old[i].cost \in Int /\ old[i].gain \in Int
            BY <3>1, RowSums
        <3>3. PICK t \in Nat, r \in Nat, c \in Int, g \in Int, m \in Int :
                /\ t = take[i] /\ r = old[i].remaining /\ c = old[i].cost /\ g = old[i].gain
                /\ m = old[i].proceeds
            BY <1>3, <3>1, <3>2
        <3>4. Worth(old[i]) = r * c + m - g
            BY <3>3 DEF Worth
        <3>5. Worth(new[i]) = (r - t) * c + (m + t * price) - (g + t * (price - c))
            BY <1>3, <3>1, <3>3 DEF Worth
        <3>6. (r - t) * c + (m + t * price) - (g + t * (price - c)) = r * c + m - g
            BY <1>0
        <3>. QED BY <3>2, <3>4, <3>5, <3>6
    <2>2. Sum(Worths(old), M) = Sum(Worths(new), M)
        BY <1>7, <2>1, SumSame
    <2>. QED BY <2>2
<1>14. /\ ledger.bought \in Nat /\ ledger.sold \in Int /\ ledger.paid \in Int
       /\ ledger.received \in Int /\ ledger.deferred \in Int
    BY DEF Ledgers
<1>15. PICK entry : entry = [ledger EXCEPT !.sold = @ + q, !.received = @ + q * price]
    OBVIOUS
<1>16. /\ entry.bought = ledger.bought /\ entry.sold = ledger.sold + q /\ entry.paid = ledger.paid
       /\ entry.received = ledger.received + q * price /\ entry.deferred = ledger.deferred
       /\ entry \in Ledgers
    <2>1. q * price \in Int
        BY <1>0
    <2>2. PICK x \in Int, y \in Int : /\ x = ledger.sold + q /\ y = ledger.received + q * price
                                      /\ entry = [ledger EXCEPT !.sold = x, !.received = y]
        <3>1. ledger.sold + q \in Int /\ ledger.received + q * price \in Int
            BY <1>0, <1>14, <2>1
        <3>2. entry = [ledger EXCEPT !.sold = ledger.sold + q, !.received = ledger.received + q * price]
            BY <1>15
        <3>. QED BY <3>1, <3>2
    <2>. QED BY <2>2 DEF Ledgers
<1>17. LedgerInv(entry, new, a, mode)
    <2>1. Sum(Column(new, "remaining"), M) = entry.bought - entry.sold
        <3>1. Sum(Column(old, "remaining"), M) = ledger.bought - ledger.sold
            BY <1>6, <1>9 DEF LedgerInv
        <3>2. PICK n \in Int : n = Sum(Column(new, "remaining"), M)
            BY <1>10
        <3>3. n + q = ledger.bought - ledger.sold
            BY <1>11, <3>1, <3>2
        <3>4. PICK b \in Int, s \in Int, x \in Int : b = ledger.bought /\ s = ledger.sold /\ x = q
            BY <1>0, <1>14
        <3>5. n + x = b - s
            BY <3>3, <3>4
        <3>6. n = b - (s + x)
            BY <3>5
        <3>. QED BY <1>16, <3>2, <3>4, <3>6
    <2>2. Sum(Column(new, "proceeds"), M) = entry.received
        BY <1>6, <1>9, <1>12, <1>16 DEF LedgerInv
    <2>3. entry.paid + entry.deferred - Sum(Worths(new), M) \in Off(entry, mode)
        BY <1>6, <1>9, <1>13, <1>16 DEF LedgerInv, Off
    <2>. QED BY <1>6, <1>16, <2>1, <2>2, <2>3 DEF LedgerInv
<1>18. /\ DOMAIN position' = Accounts /\ DOMAIN book' = Accounts
       /\ position'[a] = Rollup(new, a) /\ book'[a] = entry
       /\ \A b \in Accounts \ {a} : position'[b] = position[b] /\ book'[b] = book[b]
    BY <1>5, <1>9, <1>15 DEF BooksInv
<1>19. ASSUME NEW b \in Accounts \ {a}
       PROVE  position'[b] = Rollup(new, b) /\ LedgerInv(book'[b], new, b, mode)
    <2>1. position[b] = Rollup(old, b) /\ LedgerInv(book[b], old, b, mode)
        BY <1>1 DEF BooksInv
    <2>2. \A i \in Mine(old, b) :
                /\ new[i].remaining = old[i].remaining /\ new[i].cost = old[i].cost
                /\ new[i].gain = old[i].gain /\ new[i].proceeds = old[i].proceeds
        <3>. SUFFICES ASSUME NEW i \in Mine(old, b)
                      PROVE  /\ new[i].remaining = old[i].remaining /\ new[i].cost = old[i].cost
                             /\ new[i].gain = old[i].gain /\ new[i].proceeds = old[i].proceeds
            OBVIOUS
        <3>1. i \in Ids /\ i \in DOMAIN old /\ old[i].account = b
            BY <1>3 DEF Mine
        <3>2. i \notin open_lots(a)
            BY <1>1, <3>1 DEF open_lots, Of
        <3>3. take[i] = 0
            BY <1>2, <3>1, <3>2
        <3>4. /\ old[i].remaining \in Nat /\ old[i].proceeds \in Int
              /\ old[i].cost \in Int /\ old[i].gain \in Int
            BY <3>1, RowSums
        <3>5. /\ new[i].remaining = old[i].remaining - 0
              /\ new[i].gain = old[i].gain + 0 * (price - old[i].cost)
              /\ new[i].proceeds = old[i].proceeds + 0 * price /\ new[i].cost = old[i].cost
            BY <1>3, <3>1, <3>3
        <3>6. 0 * (price - old[i].cost) = 0 /\ 0 * price = 0
            BY <1>0, <3>4
        <3>. QED BY <3>4, <3>5, <3>6
    <2>3. LedgerInv(book[b], new, b, mode) /\ Rollup(new, b) = Rollup(old, b)
        BY <1>4, <2>1, <2>2, SameRowsSameBooks
    <2>. QED BY <1>18, <2>1, <2>3
<1>. QED BY <1>1, <1>17, <1>18, <1>19 DEF BooksInv

LEMMA PurchaseBooks ==
    ASSUME LotsInv, LotsInv', NEW mode, BooksInv(mode), NEW a \in Accounts, NEW q \in Quantities,
           NEW price \in Prices, record_purchase(a, q, price),
           mode = "exact" => EvenDeferrals
    PROVE  BooksInv(mode)'
<1>0. q \in Nat \ {0} /\ price \in Nat /\ None \notin Int
    BY LotsAssumption
<1>1. PICK old \in Seq(LotRows), new \in Seq(LotRows), n \in Nat :
        old = lots /\ new = lots' /\ n = Len(old) /\ DOMAIN old = 1..n
    BY DEF LotsInv
<1>2. PICK i, amount, lot, replaced :
        /\ i \in (IF Deferrable(a) THEN ReplacedLots ELSE {None})
        /\ amount = IF i = None THEN 0 ELSE Disallowed(i, q)
        /\ lot = Lot(a, q, price + amount \div q, price, day)
        /\ replaced = [j \in Ids |-> IF j = i THEN Replaced(lots[j], amount, Len(lots) + 1) ELSE lots[j]]
        /\ lots' = Append(replaced, lot)
        /\ position' = [position EXCEPT ![a] = Rollup(lots', a)]
        /\ book' = [book EXCEPT ![a].bought = @ + q, ![a].paid = @ + price * q, ![a].deferred = @ + amount]
    <2>1. PICK i \in (IF Deferrable(a) THEN ReplacedLots ELSE {None}) :
            /\ lots' = Append([j \in Ids |-> IF j = i THEN Replaced(lots[j], IF i = None THEN 0 ELSE Disallowed(i, q),
                                                                  Len(lots) + 1) ELSE lots[j]],
                              Lot(a, q, price + (IF i = None THEN 0 ELSE Disallowed(i, q)) \div q, price, day))
            /\ position' = [position EXCEPT ![a] = Rollup(lots', a)]
            /\ book' = [book EXCEPT ![a].bought = @ + q, ![a].paid = @ + price * q,
                                    ![a].deferred = @ + (IF i = None THEN 0 ELSE Disallowed(i, q))]
        BY Zenon DEF record_purchase, _rebuild_position
    <2>2. PICK amount : amount = IF i = None THEN 0 ELSE Disallowed(i, q)
        OBVIOUS
    <2>3. PICK lot, replaced :
            /\ lot = Lot(a, q, price + amount \div q, price, day)
            /\ replaced = [j \in Ids |-> IF j = i THEN Replaced(lots[j], amount, Len(lots) + 1) ELSE lots[j]]
        OBVIOUS
    <2>4. lots' = Append(replaced, lot)
        BY <2>1, <2>2, <2>3
    <2>5. book' = [book EXCEPT ![a].bought = @ + q, ![a].paid = @ + price * q, ![a].deferred = @ + amount]
        BY <2>1, <2>2
    <2>6. position' = [position EXCEPT ![a] = Rollup(lots', a)]
        BY <2>1
    <2>. QED BY ONLY <2>2, <2>3, <2>4, <2>5, <2>6, Zenon
<1>3. amount \in Int
    <2>1. CASE i = None
        BY <1>2, <2>1
    <2>2. CASE i # None
        <3>1. i \in Ids /\ lots[i].gain < 0 /\ amount = Disallowed(i, q)
            BY <1>2, <2>2 DEF ReplacedLots
        <3>2. lots[i] \in LotRows
            BY <3>1, LotFacts
        <3>. QED BY <1>0, <3>1, <3>2, DisallowedWithin
    <2>. QED BY <2>1, <2>2
<1>4. PICK c \in Int : c = amount \div q /\ amount - c * q \in 0..(q - 1)
    BY <1>0, <1>3
<1>5. /\ DOMAIN replaced = 1..n
      /\ \A j \in 1..n :
            /\ replaced[j].account = old[j].account
            /\ replaced[j].remaining = old[j].remaining /\ replaced[j].cost = old[j].cost
            /\ replaced[j].gain = old[j].gain /\ replaced[j].proceeds = old[j].proceeds
    <2>1. Ids = 1..n
        BY <1>1 DEF Ids
    <2>2. ASSUME NEW j \in 1..n
          PROVE  /\ replaced[j].account = old[j].account
                 /\ replaced[j].remaining = old[j].remaining /\ replaced[j].cost = old[j].cost
                 /\ replaced[j].gain = old[j].gain /\ replaced[j].proceeds = old[j].proceeds
        <3>1. old[j] \in LotRows
            BY <1>1
        <3>2. replaced[j] = IF j = i THEN Replaced(old[j], amount, n + 1) ELSE old[j]
            BY <1>1, <1>2, <2>1
        <3>. QED BY <3>1, <3>2 DEF Replaced, LotRows
    <2>. QED BY <1>2, <2>1, <2>2
<1>6. /\ DOMAIN new = 1..(n + 1) /\ new[n + 1] = lot
      /\ \A j \in 1..n : new[j] = replaced[j]
    <2>1. replaced \in Seq({replaced[j] : j \in 1..n}) /\ Len(replaced) = n
        <3>1. replaced = [j \in 1..n |-> replaced[j]]
            BY <1>1, <1>2 DEF Ids
        <3>2. replaced \in [1..n -> {replaced[j] : j \in 1..n}]
            BY <3>1
        <3>3. PICK S : S = {replaced[j] : j \in 1..n}
            OBVIOUS
        <3>4. replaced \in [1..n -> S] /\ n \in Nat
            BY <3>2, <3>3
        <3>5. replaced \in Seq(S)
            BY <3>4
        <3>6. Len(replaced) = n
            BY <3>4, <3>5
        <3>. QED BY <3>3, <3>5, <3>6
    <2>. QED BY <1>1, <1>2, <2>1
<1>7. /\ lot.account = a /\ lot.remaining = q /\ lot.cost = price + c /\ lot.gain = 0 /\ lot.proceeds = 0
    BY <1>2, <1>4 DEF Lot
<1>8. /\ Mine(new, a) = Mine(old, a) \cup {n + 1} /\ n + 1 \notin Mine(old, a)
      /\ \A b \in Accounts \ {a} : Mine(new, b) = Mine(old, b)
    BY <1>1, <1>5, <1>6, <1>7 DEF Mine
<1>9. PICK M, N : M = Mine(old, a) /\ N = Mine(new, a) /\ M = N \ {n + 1} /\ n + 1 \in N
    BY <1>8
<1>10. /\ IsFiniteSet(M) /\ IsFiniteSet(N) /\ M \in SUBSET (1..n) /\ N \in SUBSET (1..(n + 1))
    <2>1. IsFiniteSet(Mine(old, a)) /\ Mine(old, a) \in SUBSET DOMAIN old
        BY RowSums
    <2>2. IsFiniteSet(Mine(new, a)) /\ Mine(new, a) \in SUBSET DOMAIN new
        BY RowSums
    <2>. QED BY <1>1, <1>6, <1>9, <2>1, <2>2
<1>11. ASSUME NEW f, NEW g, \A j \in N : f[j] \in Int, \A j \in M : f[j] = g[j]
       PROVE  Sum(f, N) = f[n + 1] + Sum(g, M)
    <2>1. Sum(f, N) = f[n + 1] + Sum(f, N \ {n + 1})
        BY <1>9, <1>10, <1>11, SumTake
    <2>2. \A j \in M : f[j] \in Int /\ f[j] = g[j]
        BY <1>9, <1>11
    <2>3. Sum(f, M) = Sum(g, M)
        BY <1>10, <2>2, SumSame
    <2>. QED BY <1>9, <2>1, <2>3
<1>12. /\ \A j \in N : /\ Column(new, "remaining")[j] \in Int /\ Column(new, "proceeds")[j] \in Int
                        /\ Worths(new)[j] \in Int
       /\ \A j \in M : /\ Column(new, "remaining")[j] = Column(old, "remaining")[j]
                        /\ Column(new, "proceeds")[j] = Column(old, "proceeds")[j]
                        /\ Worths(new)[j] = Worths(old)[j]
       /\ Column(new, "remaining")[n + 1] = q /\ Column(new, "proceeds")[n + 1] = 0
       /\ Worths(new)[n + 1] = q * (price + c)
    <2>1. ASSUME NEW j \in N
          PROVE  /\ Column(new, "remaining")[j] \in Int /\ Column(new, "proceeds")[j] \in Int
                 /\ Worths(new)[j] \in Int
        <3>1. j \in DOMAIN new
            BY <1>6, <1>10
        <3>2. /\ Column(new, "remaining")[j] = new[j].remaining /\ new[j].remaining \in Nat
              /\ Column(new, "proceeds")[j] = new[j].proceeds /\ new[j].proceeds \in Int
              /\ Worths(new)[j] = Worth(new[j]) /\ Worth(new[j]) \in Int
            BY <3>1, RowSums
        <3>. QED BY <3>2
    <2>2. ASSUME NEW j \in M
          PROVE  /\ Column(new, "remaining")[j] = Column(old, "remaining")[j]
                 /\ Column(new, "proceeds")[j] = Column(old, "proceeds")[j]
                 /\ Worths(new)[j] = Worths(old)[j]
        <3>1. j \in DOMAIN new /\ j \in DOMAIN old /\ j \in 1..n
            BY <1>1, <1>6, <1>10
        <3>2. /\ new[j].remaining = old[j].remaining /\ new[j].cost = old[j].cost
              /\ new[j].gain = old[j].gain /\ new[j].proceeds = old[j].proceeds
            BY <1>5, <1>6, <3>1
        <3>. QED BY <3>1, <3>2 DEF Column, Worths, Worth
    <2>3. n + 1 \in DOMAIN new
        BY <1>6
    <2>4. Column(new, "remaining")[n + 1] = q /\ Column(new, "proceeds")[n + 1] = 0
        BY <1>6, <1>7, <2>3 DEF Column
    <2>5. Worths(new)[n + 1] = q * (price + c)
        <3>1. Worths(new)[n + 1] = q * (price + c) + 0 - 0
            BY <1>6, <1>7, <2>3 DEF Worths, Worth
        <3>2. q * (price + c) \in Int
            BY <1>0
        <3>. QED BY <3>1, <3>2
    <2>. QED BY <2>1, <2>2, <2>4, <2>5
<1>13. /\ Sum(Column(new, "remaining"), N) = q + Sum(Column(old, "remaining"), M)
       /\ Sum(Column(new, "proceeds"), N) = 0 + Sum(Column(old, "proceeds"), M)
       /\ Sum(Worths(new), N) = q * (price + c) + Sum(Worths(old), M)
    BY <1>11, <1>12
<1>14. PICK ledger \in Ledgers : ledger = book[a] /\ LedgerInv(ledger, old, a, mode)
    BY <1>1 DEF BooksInv, LedgerInv
<1>15. /\ ledger.bought \in Nat /\ ledger.sold \in Int /\ ledger.paid \in Int
       /\ ledger.received \in Int /\ ledger.deferred \in Int
    BY DEF Ledgers
<1>16. PICK entry : entry = [ledger EXCEPT !.bought = @ + q, !.paid = @ + price * q, !.deferred = @ + amount]
    OBVIOUS
<1>17. /\ entry.bought = ledger.bought + q /\ entry.sold = ledger.sold
       /\ entry.paid = ledger.paid + price * q
       /\ entry.received = ledger.received /\ entry.deferred = ledger.deferred + amount
       /\ entry \in Ledgers
    <2>1. ledger.bought + q \in Nat /\ ledger.paid + price * q \in Int /\ ledger.deferred + amount \in Int
        <3>1. PICK s \in Int : s = price * q
            BY <1>0
        <3>2. ledger.paid + s \in Int
            BY <1>15, <3>1
        <3>3. ledger.bought + q \in Nat
            BY <1>0, <1>15
        <3>4. ledger.deferred + amount \in Int
            BY <1>3, <1>15
        <3>. QED BY <3>1, <3>2, <3>3, <3>4
    <2>2. entry = [ledger EXCEPT !.bought = ledger.bought + q, !.paid = ledger.paid + price * q,
                                 !.deferred = ledger.deferred + amount]
        BY <1>16
    <2>3. PICK x \in Nat, y \in Int, z \in Int :
            /\ x = ledger.bought + q /\ y = ledger.paid + price * q /\ z = ledger.deferred + amount
            /\ entry = [ledger EXCEPT !.bought = x, !.paid = y, !.deferred = z]
        BY <2>1, <2>2
    <2>. QED BY <2>3 DEF Ledgers
<1>21. mode = "exact" => amount = c * q
    <2>1. ASSUME EvenDeferrals PROVE amount = c * q
        <3>1. lots' = new /\ Len(new) = n + 1 /\ Len(lots) = n
            BY <1>1, <1>6
        <3>2. book'[lot.account].deferred - book[lot.account].deferred = (lot.cost - lot.price) * lot.quantity
            BY <2>1, <3>1, <1>6 DEF EvenDeferrals
        <3>3. /\ lot.account = a /\ lot.quantity = q /\ lot.price = price
              /\ lot.cost = price + amount \div q
            BY <1>2 DEF Lot
        <3>4. book'[a].deferred = ledger.deferred + amount /\ book[a].deferred = ledger.deferred
            <4>1. DOMAIN book = Accounts
                BY DEF BooksInv
            <4>2. book'[a] = [book[a] EXCEPT !.bought = @ + q, !.paid = @ + price * q, !.deferred = @ + amount]
                BY <1>2, <4>1
            <4>3. book'[a] = entry
                BY <1>14, <1>16, <4>2
            <4>. QED BY <1>14, <1>17, <4>3
        <3>5. (price + c) - price = c
            BY <1>0
        <3>6. (ledger.deferred + amount) - ledger.deferred = amount
            BY <1>3, <1>15
        <3>. QED BY <1>4, <3>2, <3>3, <3>4, <3>5, <3>6
    <2>. QED BY <2>1
<1>18. LedgerInv(entry, new, a, mode)
    <2>1. /\ Sum(Column(old, "remaining"), M) = ledger.bought - ledger.sold
          /\ Sum(Column(old, "proceeds"), M) = ledger.received
          /\ ledger.paid + ledger.deferred - Sum(Worths(old), M) \in Off(ledger, mode)
        BY <1>9, <1>14 DEF LedgerInv
    <2>2. PICK w \in Int : w = Sum(Worths(old), M)
        BY <1>9, RowSums
    <2>3. Sum(Column(new, "remaining"), N) = entry.bought - entry.sold
        BY <1>0, <1>13, <1>15, <1>17, <2>1
    <2>4. Sum(Column(new, "proceeds"), N) = entry.received
        BY <1>13, <1>15, <1>17, <2>1
    <2>5. entry.paid + entry.deferred - Sum(Worths(new), N) \in Off(entry, mode)
        <3>1. q * (price + c) = price * q + c * q /\ price * q \in Int /\ c * q \in Int
            BY <1>0
        <3>2. PICK d \in Int : d = ledger.paid + ledger.deferred - w /\ d \in Off(ledger, mode)
            BY <1>15, <2>1, <2>2
        <3>3. PICK x \in Int, y \in Int, z \in Int, m \in Int :
                x = price * q /\ y = c * q /\ z = q * (price + c) /\ z = x + y /\ m = amount
            BY <1>0, <1>3, <3>1
        <3>4. Sum(Worths(new), N) = z + w
            BY <1>13, <2>2, <3>3
        <3>5. entry.paid + entry.deferred - Sum(Worths(new), N)
                    = ledger.paid + x + (ledger.deferred + m) - (z + w)
            BY <1>17, <3>3, <3>4
        <3>6. ledger.paid + x + (ledger.deferred + m) - (z + w) = d + (m - y)
            <4>1. PICK pd \in Int, df \in Int : pd = ledger.paid /\ df = ledger.deferred
                BY <1>15
            <4>2. d = pd + df - w
                BY <3>2, <4>1
            <4>3. z = x + y
                BY <3>3
            <4>4. pd + x + (df + m) - (z + w) = d + (m - y)
                BY <4>2, <4>3
            <4>. QED BY <4>1, <4>4
        <3>7. m - y \in 0..(q - 1)
            BY <1>4, <3>3
        <3>8. CASE mode = "exact"
            <4>1. m = y
                BY <1>21, <3>3, <3>8
            <4>2. d = 0
                BY <3>2, <3>8 DEF Off
            <4>3. d + (m - y) = 0
                BY <3>3, <4>1, <4>2
            <4>. QED BY <3>5, <3>6, <3>8, <4>3 DEF Off
        <3>9. CASE mode # "exact"
            <4>1. PICK b \in Nat, s \in Nat : b = ledger.bought /\ s = q
                BY <1>0, <1>15
            <4>2. PICK e \in Int : e = m - y /\ e \in 0..(s - 1)
                BY <3>7, <4>1
            <4>3. d \in 0..b
                BY <3>2, <3>9, <4>1 DEF Off
            <4>4. d + e \in 0..(b + s)
                BY <4>2, <4>3
            <4>. QED BY <1>17, <3>5, <3>6, <3>9, <4>1, <4>2, <4>4 DEF Off
        <3>. QED BY <3>8, <3>9
    <2>. QED BY <1>9, <1>17, <2>3, <2>4, <2>5 DEF LedgerInv
<1>19. /\ DOMAIN position' = Accounts /\ DOMAIN book' = Accounts
       /\ position'[a] = Rollup(new, a) /\ book'[a] = entry
       /\ \A b \in Accounts \ {a} : position'[b] = position[b] /\ book'[b] = book[b]
    <2>1. DOMAIN position = Accounts /\ DOMAIN book = Accounts
        BY DEF BooksInv
    <2>2. /\ position' = [position EXCEPT ![a] = Rollup(new, a)]
          /\ book' = [book EXCEPT ![a].bought = @ + q, ![a].paid = @ + price * q, ![a].deferred = @ + amount]
        BY <1>1, <1>2
    <2>3. DOMAIN book' = Accounts /\ \A b \in Accounts \ {a} : book'[b] = book[b]
        BY <2>1, <2>2
    <2>4. book'[a] = [book[a] EXCEPT !.bought = @ + q, !.paid = @ + price * q, !.deferred = @ + amount]
        BY <2>1, <2>2
    <2>. QED BY <1>14, <1>16, <2>1, <2>2, <2>3, <2>4
<1>20. ASSUME NEW b \in Accounts \ {a}
       PROVE  position'[b] = Rollup(new, b) /\ LedgerInv(book'[b], new, b, mode)
    <2>1. position[b] = Rollup(old, b) /\ LedgerInv(book[b], old, b, mode)
        BY <1>1 DEF BooksInv
    <2>2. \A j \in Mine(old, b) :
                /\ new[j].remaining = old[j].remaining /\ new[j].cost = old[j].cost
                /\ new[j].gain = old[j].gain /\ new[j].proceeds = old[j].proceeds
        BY <1>1, <1>5, <1>6 DEF Mine
    <2>3. LedgerInv(book[b], new, b, mode) /\ Rollup(new, b) = Rollup(old, b)
        BY <1>8, <2>1, <2>2, SameRowsSameBooks
    <2>. QED BY <1>19, <2>1, <2>3
<1>. QED BY <1>1, <1>18, <1>19, <1>20 DEF BooksInv

LEMMA BooksInit ==
    ASSUME Init, LotsInv, NEW mode
    PROVE  BooksInv(mode)
<1>1. PICK table \in Seq(LotRows) : table = lots
    BY DEF LotsInv
<1>2. /\ position = [a \in Accounts |-> Rollup(table, a)]
      /\ book = [a \in Accounts |->
            [bought |-> position[a].quantity, sold |-> 0, paid |-> position[a].cost, received |-> 0,
             deferred |-> 0]]
    BY <1>1 DEF Init
<1>3. \A i \in DOMAIN table : table[i].proceeds = 0 /\ table[i].gain = 0
    BY <1>1 DEF Init, Lot
<1>4. ASSUME NEW a \in Accounts PROVE LedgerInv(book[a], table, a, mode)
    <2>1. PICK M : M = Mine(table, a) /\ IsFiniteSet(M) /\ M \in SUBSET DOMAIN table
        BY RowSums
    <2>2. PICK costs : costs = [i \in DOMAIN table |-> table[i].remaining * table[i].cost]
        OBVIOUS
    <2>3. /\ position[a].quantity = Sum(Column(table, "remaining"), M)
          /\ position[a].cost = Sum(costs, M)
        BY <1>2, <2>1, <2>2 DEF Rollup, Total, Sum, Column, Mine
    <2>4. Sum(Column(table, "remaining"), M) \in Nat /\ Sum(Worths(table), M) \in Int
        BY <2>1, RowSums
    <2>5. \A i \in M : Worths(table)[i] \in Int /\ Worths(table)[i] = costs[i]
        <3>. SUFFICES ASSUME NEW i \in M PROVE Worths(table)[i] \in Int /\ Worths(table)[i] = costs[i]
            OBVIOUS
        <3>1. /\ Worths(table)[i] = Worth(table[i]) /\ Worth(table[i]) \in Int
              /\ table[i].remaining \in Nat /\ table[i].cost \in Int
            BY <2>1, RowSums
        <3>2. Worth(table[i]) = table[i].remaining * table[i].cost + 0 - 0
            BY <1>3, <2>1 DEF Worth
        <3>3. PICK k \in Int : k = table[i].remaining * table[i].cost
            BY <3>1
        <3>. QED BY <2>1, <2>2, <3>1, <3>2, <3>3
    <2>6. Sum(Worths(table), M) = Sum(costs, M)
        BY <2>1, <2>5, SumSame
    <2>7. Sum(Column(table, "proceeds"), M) = 0
        <3>1. \A i \in M : Column(table, "proceeds")[i] = 0
            BY <1>3, <2>1 DEF Column
        <3>2. Sum(Column(table, "proceeds"), M) = Sum(Column(table, "proceeds"), {})
            <4>1. {} \in SUBSET M /\ (\A i \in M : Column(table, "proceeds")[i] \in Int)
                  /\ \A i \in M \ {} : Column(table, "proceeds")[i] = 0
                BY <3>1
            <4>. QED BY <2>1, <4>1, SumOfSome
        <3>. QED BY <3>2, SumEmpty
    <2>8. PICK n \in Nat, w \in Int : n = Sum(Column(table, "remaining"), M) /\ w = Sum(Worths(table), M)
        BY <2>4
    <2>9. book[a] = [bought |-> n, sold |-> 0, paid |-> w, received |-> 0, deferred |-> 0]
        BY <1>2, <2>3, <2>6, <2>8
    <2>. QED BY <2>1, <2>7, <2>8, <2>9 DEF LedgerInv, Ledgers, Off
<1>5. DOMAIN position = Accounts /\ DOMAIN book = Accounts
    BY <1>2
<1>. QED BY <1>1, <1>2, <1>4, <1>5 DEF BooksInv

\* A step that leaves everything alone buys nothing.
LEMMA StillEven ==
    ASSUME LotsInv, UNCHANGED vars
    PROVE  EvenDeferrals
<1>1. lots' = lots /\ Len(lots) \in Nat
    BY DEF vars, LotsInv
<1>2. ~(Len(lots') > Len(lots))
    BY <1>1
<1>. QED BY <1>2 DEF EvenDeferrals

LEMMA BooksStep ==
    ASSUME LotsInv, LotsInv', NEW mode, BooksInv(mode), [Next]_vars, mode = "exact" => EvenDeferrals
    PROVE  BooksInv(mode)'
<1>1. ASSUME NEW a \in Accounts, NEW q \in Quantities, NEW price \in Prices,
             record_purchase(a, q, price)
      PROVE  BooksInv(mode)'
    BY <1>1, PurchaseBooks
<1>2. ASSUME NEW a \in Accounts, NEW q \in Quantities, NEW price \in Prices,
             NEW method \in LOT_METHODS, record_sale(a, q, price, method)
      PROVE  BooksInv(mode)'
    BY <1>2, SaleBooks
<1>3. CASE DayPasses
    BY <1>3 DEF DayPasses, BooksInv
<1>4. CASE UNCHANGED vars
    BY <1>4 DEF vars, BooksInv
<1>. QED BY <1>1, <1>2, <1>3, <1>4 DEF Next

LEMMA BooksMean ==
    ASSUME LotsInv, NEW mode, BooksInv(mode), NEW a \in Accounts
    PROVE  LET proceeds == Total([i \in Ids |-> lots[i].proceeds], Of(a))
               gain == Total([i \in Ids |-> lots[i].gain], Of(a))
           IN  /\ position[a].quantity = book[a].bought - book[a].sold
               /\ position[a].cost \in Int /\ proceeds \in Int /\ gain \in Int
               /\ (book[a].paid + book[a].deferred) - ((position[a].cost + proceeds) - gain)
                        \in Off(book[a], mode)
               /\ proceeds = book[a].received
<1>1. PICK table \in Seq(LotRows) : table = lots
    BY DEF LotsInv
<1>2. PICK M : M = Mine(table, a) /\ IsFiniteSet(M) /\ M \in SUBSET DOMAIN table
    BY RowSums
<1>3. PICK costs, gains, both :
        /\ costs = [i \in DOMAIN table |-> table[i].remaining * table[i].cost]
        /\ gains = [i \in DOMAIN table |-> table[i].gain]
        /\ both = [i \in DOMAIN table |-> table[i].remaining * table[i].cost + table[i].proceeds]
    OBVIOUS
<1>4. /\ Total([i \in Ids |-> lots[i].proceeds], Of(a)) = Sum(Column(table, "proceeds"), M)
      /\ Total([i \in Ids |-> lots[i].gain], Of(a)) = Sum(gains, M)
    BY <1>1, <1>2, <1>3 DEF Total, Sum, Column, Mine, Of, Ids
<1>5. /\ position[a].quantity = Sum(Column(table, "remaining"), M)
      /\ position[a].cost = Sum(costs, M)
    <2>1. position[a] = Rollup(table, a)
        BY <1>1 DEF BooksInv
    <2>2. M = {i \in DOMAIN table : table[i].account = a}
        BY <1>2 DEF Mine
    <2>3. Rollup(table, a) = [quantity |-> Sum(Column(table, "remaining"), M), cost |-> Sum(costs, M)]
        BY <1>3, <2>2 DEF Rollup, Total, Sum, Column
    <2>. QED BY <2>1, <2>3
<1>6. \A i \in M : /\ costs[i] \in Int /\ gains[i] \in Int /\ both[i] \in Int
                   /\ Column(table, "proceeds")[i] \in Int /\ Worths(table)[i] \in Int
                   /\ both[i] = costs[i] + Column(table, "proceeds")[i]
                   /\ both[i] = Worths(table)[i] + gains[i]
    <2>. SUFFICES ASSUME NEW i \in M
                  PROVE  /\ costs[i] \in Int /\ gains[i] \in Int /\ both[i] \in Int
                         /\ Column(table, "proceeds")[i] \in Int /\ Worths(table)[i] \in Int
                         /\ both[i] = costs[i] + Column(table, "proceeds")[i]
                         /\ both[i] = Worths(table)[i] + gains[i]
        OBVIOUS
    <2>1. /\ Column(table, "proceeds")[i] = table[i].proceeds /\ table[i].proceeds \in Int
          /\ Worths(table)[i] = Worth(table[i]) /\ Worth(table[i]) \in Int
          /\ table[i].remaining \in Nat /\ table[i].cost \in Int /\ table[i].gain \in Int
        BY <1>2, RowSums
    <2>2. PICK k \in Int, m \in Int, g \in Int :
            k = table[i].remaining * table[i].cost /\ m = table[i].proceeds /\ g = table[i].gain
        <3>1. PICK r \in Nat, c \in Int : r = table[i].remaining /\ c = table[i].cost
            BY <2>1
        <3>2. r * c \in Int
            OBVIOUS
        <3>. QED BY <2>1, <3>1, <3>2
    <2>3. costs[i] = k /\ gains[i] = g /\ both[i] = k + m
        BY <1>2, <1>3, <2>2
    <2>4. Worths(table)[i] = k + m - g
        BY <2>1, <2>2 DEF Worth
    <2>5. Column(table, "proceeds")[i] = m
        BY <2>1, <2>2
    <2>6. k + m \in Int /\ k + m - g \in Int /\ k + m = (k + m - g) + g
        OBVIOUS
    <2>. QED BY <2>3, <2>4, <2>5, <2>6
<1>7. Sum(both, M) = Sum(costs, M) + Sum(Column(table, "proceeds"), M)
    BY <1>2, <1>6, SumPlus
<1>8. Sum(both, M) = Sum(Worths(table), M) + Sum(gains, M)
    BY <1>2, <1>6, SumPlus
<1>9. PICK c \in Int, m \in Int, g \in Int, w \in Int :
        /\ c = Sum(costs, M) /\ m = Sum(Column(table, "proceeds"), M) /\ g = Sum(gains, M)
        /\ w = Sum(Worths(table), M)
    <2>1. /\ \A i \in M : costs[i] \in Int
          /\ \A i \in M : gains[i] \in Int
        BY <1>6
    <2>2. Sum(costs, M) \in Int /\ Sum(gains, M) \in Int
        BY <1>2, <2>1, SumInt
    <2>3. Sum(Column(table, "proceeds"), M) \in Int /\ Sum(Worths(table), M) \in Int
        BY <1>2, RowSums
    <2>. QED BY <2>2, <2>3
<1>10. c + m - g = w
    <2>1. PICK total : total = Sum(both, M)
        OBVIOUS
    <2>2. total = c + m /\ total = w + g
        BY <1>7, <1>8, <1>9, <2>1
    <2>. QED BY <2>2
<1>11. LedgerInv(book[a], table, a, mode)
    BY <1>1 DEF BooksInv
<1>12. /\ position[a].quantity = book[a].bought - book[a].sold
       /\ m = book[a].received
       /\ book[a].paid + book[a].deferred - w \in Off(book[a], mode)
    BY <1>2, <1>5, <1>9, <1>11 DEF LedgerInv
<1>13. (book[a].paid + book[a].deferred) - ((position[a].cost + m) - g) \in Off(book[a], mode)
    <2>1. PICK p \in Int, d \in Int : p = book[a].paid /\ d = book[a].deferred
        BY <1>11 DEF LedgerInv, Ledgers
    <2>2. (p + d) - ((c + m) - g) = p + d - w
        BY <1>10
    <2>3. p + d - w \in Off(book[a], mode) /\ position[a].cost = c
        BY <1>5, <1>2, <1>9, <1>12, <2>1
    <2>. QED BY <2>1, <2>2, <2>3
<1>14. position[a].cost \in Int
    BY <1>5, <1>9
<1>. QED BY <1>4, <1>9, <1>12, <1>13, <1>14

\* Over any number of partial sales the shares and the proceeds of an account's
\* books balance exactly, and its costs within a unit for every share bought:
\* a share inherits a whole number of units (tax_lots.py:519-526, 554-591).
THEOREM BooksBalanceRounded == Spec => []BooksWithinRounding
<1>1. Init => LotsInv /\ BooksInv("rounded")
    BY LotsInit, BooksInit
<1>2. LotsInv /\ BooksInv("rounded") /\ [Next]_vars => LotsInv' /\ BooksInv("rounded")'
    BY LotsStep, BooksStep
<1>3. LotsInv /\ BooksInv("rounded") => BooksWithinRounding
    <2>. SUFFICES ASSUME LotsInv, BooksInv("rounded"), NEW a \in Accounts
                  PROVE  LET proceeds == Total([i \in Ids |-> lots[i].proceeds], Of(a))
                             gain == Total([i \in Ids |-> lots[i].gain], Of(a))
                         IN  /\ position[a].quantity = book[a].bought - book[a].sold
                             /\ (book[a].paid + book[a].deferred) - ((position[a].cost + proceeds) - gain)
                                    \in 0..book[a].bought
                             /\ proceeds = book[a].received
        BY DEF BooksWithinRounding
    <2>1. Off(book[a], "rounded") = 0..book[a].bought
        BY DEF Off
    <2>. QED BY <2>1, BooksMean
<1>. QED BY <1>1, <1>2, <1>3, PTL DEF Spec

\* Where every purchase inherits all that it defers, the books of every account
\* balance to the unit, over any number of partial sales (tax_lots.py:519-526,
\* 554-591).
THEOREM BooksBalanceExactly == Spec /\ [][EvenDeferrals]_vars => []BooksBalance
<1>1. Init => LotsInv /\ BooksInv("exact")
    BY LotsInit, BooksInit
<1>2. LotsInv /\ BooksInv("exact") /\ [Next]_vars /\ [EvenDeferrals]_vars
        => LotsInv' /\ BooksInv("exact")'
    <2>. SUFFICES ASSUME LotsInv, BooksInv("exact"), [Next]_vars, [EvenDeferrals]_vars
                  PROVE  LotsInv' /\ BooksInv("exact")'
        OBVIOUS
    <2>1. LotsInv'
        BY LotsStep
    <2>2. CASE EvenDeferrals
        BY <2>1, <2>2, BooksStep
    <2>3. CASE UNCHANGED vars
        <3>1. EvenDeferrals
            BY <2>3, StillEven
        <3>. QED BY <2>1, <3>1, BooksStep
    <2>. QED BY <2>2, <2>3
<1>3. LotsInv /\ BooksInv("exact") => BooksBalance
    <2>. SUFFICES ASSUME LotsInv, BooksInv("exact"), NEW a \in Accounts
                  PROVE  LET proceeds == Total([i \in Ids |-> lots[i].proceeds], Of(a))
                             gain == Total([i \in Ids |-> lots[i].gain], Of(a))
                         IN  /\ position[a].quantity = book[a].bought - book[a].sold
                             /\ book[a].paid + book[a].deferred = position[a].cost + proceeds - gain
                             /\ proceeds = book[a].received
        BY DEF BooksBalance
    <2>1. PICK proceeds, gain :
            /\ proceeds = Total([i \in Ids |-> lots[i].proceeds], Of(a))
            /\ gain = Total([i \in Ids |-> lots[i].gain], Of(a))
        OBVIOUS
    <2>2. /\ position[a].quantity = book[a].bought - book[a].sold
          /\ position[a].cost \in Int /\ proceeds \in Int /\ gain \in Int
          /\ (book[a].paid + book[a].deferred) - ((position[a].cost + proceeds) - gain) \in {0}
          /\ proceeds = book[a].received
        BY <2>1, BooksMean DEF Off
    <2>3. book[a].paid \in Int /\ book[a].deferred \in Int
        BY DEF BooksInv, LedgerInv, Ledgers
    <2>4. book[a].paid + book[a].deferred = position[a].cost + proceeds - gain
        BY <2>2, <2>3
    <2>. QED BY <2>1, <2>2, <2>4
<1>. QED BY <1>1, <1>2, <1>3, PTL DEF Spec
=============================================================================
