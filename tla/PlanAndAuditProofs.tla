------------------------- MODULE PlanAndAuditProofs -------------------------
(***************************************************************************)
(* Proofs about Rebalance, for any portfolios, catalogues and limits, and  *)
(* about AuditChain, for any firms, sessions, processes and bounds.  The   *)
(* two share nothing; each theorem is of one of them.                      *)
(***************************************************************************)
EXTENDS Rebalance, AuditChain, Sums

-----------------------------------------------------------------------------
(* Numbers.                                                                 *)

\* Whole units of a price within an amount.
LEMMA WholeUnits ==
    ASSUME NEW n \in Nat, NEW p \in Nat \ {0}
    PROVE  p * (n \div p) \in Nat /\ p * (n \div p) <= n /\ n < p * (n \div p) + p
OBVIOUS

\* A percentage of an amount is no more than the amount, and grows with it.
LEMMA Percentage ==
    ASSUME NEW c \in 0..100, NEW n \in Nat, NEW m \in Nat, m <= n
    PROVE  /\ (c * n) \div 100 \in Nat /\ (c * n) \div 100 <= n
           /\ (c * m) \div 100 <= (c * n) \div 100
<1>1. c * n \in Nat /\ c * m \in Nat /\ c * n <= 100 * n /\ c * m <= c * n
    OBVIOUS
<1>. QED BY <1>1

\* What is within a part of a limit, rounded down.
LEMMA WithinPart ==
    ASSUME NEW a \in Int, NEW x \in Int, x <= a \div 100
    PROVE  100 * x <= a
OBVIOUS

\* What is within a quotient, rounded down, times the divisor.
LEMMA WithinQuotient ==
    ASSUME NEW a \in Int, NEW d \in Nat \ {0}, NEW x \in Int, x <= a \div d
    PROVE  d * x <= a
<1>1. d * (a \div d) <= a /\ a \div d \in Int
    OBVIOUS
<1>2. d * x <= d * (a \div d)
    BY <1>1
<1>. QED BY <1>1, <1>2

-----------------------------------------------------------------------------
(* Sums over parts.                                                         *)

\* The sum over two sets without a common element.
LEMMA SumOfTwo ==
    ASSUME NEW R, NEW Q, IsFiniteSet(R), IsFiniteSet(Q), R \cap Q = {},
           NEW f, \A x \in R \cup Q : f[x] \in Int
    PROVE  Sum(f, R \cup Q) = Sum(f, R) + Sum(f, Q)
<1>. DEFINE S == R \cup Q
            g == [x \in S |-> IF x \in R THEN f[x] ELSE 0]
            h == [x \in S |-> IF x \in R THEN 0 ELSE f[x]]
<1>1. IsFiniteSet(S)
    BY FS_Union
<1>2. \A x \in S : g[x] \in Int /\ h[x] \in Int /\ f[x] = g[x] + h[x]
    OBVIOUS
<1>3. Sum(f, S) = Sum(g, S) + Sum(h, S)
    <2>. HIDE DEF S, g, h
    <2>. QED BY <1>1, <1>2, SumPlus
<1>4. Sum(g, S) = Sum(g, R)
    <2>1. \A x \in S \ R : g[x] = 0
        OBVIOUS
    <2>2. R \in SUBSET S
        OBVIOUS
    <2>. HIDE DEF S, g, h
    <2>. QED BY <1>1, <1>2, <2>1, <2>2, SumOfSome
<1>5. Sum(h, S) = Sum(h, Q)
    <2>1. \A x \in S \ Q : h[x] = 0
        OBVIOUS
    <2>2. Q \in SUBSET S
        OBVIOUS
    <2>. HIDE DEF S, g, h
    <2>. QED BY <1>1, <1>2, <2>1, <2>2, SumOfSome
<1>6. Sum(g, R) = Sum(f, R)
    <2>1. \A x \in R : g[x] \in Int /\ g[x] = f[x]
        OBVIOUS
    <2>. HIDE DEF g
    <2>. QED BY <2>1, SumSame
<1>7. Sum(h, Q) = Sum(f, Q)
    <2>1. \A x \in Q : h[x] \in Int /\ h[x] = f[x]
        OBVIOUS
    <2>. HIDE DEF h
    <2>. QED BY <2>1, SumSame
<1>. QED BY <1>3, <1>4, <1>5, <1>6, <1>7

\* A sum over a set that is divided into parts is the sum of their sums.
LEMMA SumOfParts ==
    ASSUME NEW I, IsFiniteSet(I), NEW U, IsFiniteSet(U), NEW part,
           \A i \in I : part[i] \in SUBSET U,
           \A i, j \in I : i # j => part[i] \cap part[j] = {},
           NEW f, \A x \in U : f[x] \in Int,
           NEW g, \A i \in I : g[i] = Sum(f, part[i])
    PROVE  Sum(f, UNION {part[i] : i \in I}) = Sum(g, I)
<1>. DEFINE Whole(J) == UNION {part[i] : i \in J}
            T == {J \in SUBSET I : Sum(f, Whole(J)) = Sum(g, J)}
<1>1. \A i \in I : IsFiniteSet(part[i]) /\ g[i] \in Int
    <2>. SUFFICES ASSUME NEW i \in I PROVE IsFiniteSet(part[i]) /\ g[i] \in Int
        OBVIOUS
    <2>1. IsFiniteSet(part[i])
        BY FS_Subset
    <2>2. Sum(f, part[i]) \in Int
        <3>1. \A x \in part[i] : f[x] \in Int
            OBVIOUS
        <3>. QED BY <2>1, <3>1, SumInt
    <2>. QED BY <2>1, <2>2
<1>2. ASSUME NEW J \in SUBSET I, \A i \in J : J \ {i} \in T
      PROVE  J \in T
    <2>1. CASE J = {}
        <3>1. Whole(J) = {}
            BY <2>1
        <3>2. Sum(f, {}) = 0 /\ Sum(g, {}) = 0
            BY SumEmpty
        <3>. QED BY <2>1, <3>1, <3>2
    <2>2. CASE J # {}
        <3>1. PICK i \in J : TRUE
            BY <2>2
        <3>2. PICK K \in SUBSET I : K = J \ {i}
            OBVIOUS
        <3>3. Sum(f, Whole(K)) = Sum(g, K)
            BY <1>2, <3>2
        <3>4. Whole(J) = Whole(K) \cup part[i]
            BY <3>2
        <3>5. Whole(K) \cap part[i] = {}
            BY <3>2
        <3>6. Whole(K) \in SUBSET U
            BY <3>2
        <3>7. IsFiniteSet(Whole(K)) /\ IsFiniteSet(part[i]) /\ IsFiniteSet(J)
            BY <1>1, <3>6, FS_Subset
        <3>8. \A x \in Whole(K) \cup part[i] : f[x] \in Int
            BY <3>6
        <3>9. Sum(f, Whole(J)) = Sum(f, Whole(K)) + Sum(f, part[i])
            <4>. HIDE DEF Whole
            <4>. QED BY <3>4, <3>5, <3>7, <3>8, SumOfTwo
        <3>10. Sum(g, J) = g[i] + Sum(g, K)
            BY <1>1, <3>2, <3>7, SumTake
        <3>11. g[i] \in Int /\ Sum(g, K) \in Int
            <4>1. IsFiniteSet(K)
                BY <3>2, <3>7, FS_Subset
            <4>. QED BY <1>1, <4>1, SumInt
        <3>. QED BY <3>3, <3>9, <3>10, <3>11
    <2>. QED BY <2>1, <2>2
<1>3. I \in T
    <2>. HIDE DEF T
    <2>. QED BY <1>2, SubsetInduction
<1>. QED BY <1>3

-----------------------------------------------------------------------------
(* What the portfolio is made of.                                           *)

\* The limits are percentages.
LEMMA Limits ==
    /\ max_position_pct \in 0..100 /\ max_sector_pct \in 0..100
    /\ min_cash_pct \in 0..100 /\ CostPct \in 0..100
    /\ min_position_notional \in Nat \ {0} /\ min_position_notional \in Nat
BY RebalanceAssumption

\* The holdings of some symbols are finitely many.
LEMMA HoldingSets ==
    ASSUME NEW S \in SUBSET Symbols
    PROVE  /\ Covered(S) \in SUBSET Holdings /\ IsFiniteSet(Covered(S))
           /\ IsFiniteSet(Holdings) /\ IsFiniteSet(S)
<1>1. IsFiniteSet(Accounts) /\ IsFiniteSet(Symbols)
    BY RebalanceAssumption
<1>2. IsFiniteSet(S)
    BY <1>1, FS_Subset
<1>3. IsFiniteSet(Accounts \X S) /\ IsFiniteSet(Accounts \X Symbols)
    BY <1>1, <1>2, FS_Product
<1>4. Accounts \X S \in SUBSET (Accounts \X Symbols)
    OBVIOUS
<1>. QED BY <1>2, <1>3, <1>4 DEF Covered, Holdings

\* The sum over some holdings, of amounts that are numbers.
LEMMA TotalType ==
    ASSUME NEW H \in SUBSET Holdings, NEW f
    PROVE  /\ (\A h \in H : f[h] \in Int) => Total(f, H) \in Int
           /\ (\A h \in H : f[h] \in Nat) => Total(f, H) \in Nat
<1>1. IsFiniteSet(H)
    BY HoldingSets, FS_Subset
<1>2. (\A h \in H : f[h] \in Int) => Sum(f, H) \in Int
    BY <1>1, SumInt
<1>3. (\A h \in H : f[h] \in Nat) => Sum(f, H) \in Nat
    BY <1>1, SumNat
<1>. QED BY <1>2, <1>3 DEF Total, Sum

\* The symbols of a sector and of a class, and the holdings of a breach.
LEMMA SymbolSets ==
    /\ \A k : OfSector(k) \in SUBSET Symbols
    /\ \A c : OfClass(c) \in SUBSET Symbols
    /\ \A b \in Breaches :
        /\ b[1] = "position" => b[2] \in Symbols /\ _holdings_for_breach(b) = Covered({b[2]})
        /\ b[1] # "position" => b[1] = "sector" /\ b[2] \in Sectors
                                /\ _holdings_for_breach(b) = Covered(OfSector(b[2]))
        /\ _holdings_for_breach(b) \in SUBSET Holdings /\ IsFiniteSet(_holdings_for_breach(b))
<1>1. \A k : OfSector(k) \in SUBSET Symbols
    BY DEF OfSector
<1>2. ASSUME NEW b \in Breaches
      PROVE  /\ b[1] = "position" => b[2] \in Symbols /\ _holdings_for_breach(b) = Covered({b[2]})
             /\ b[1] # "position" => b[1] = "sector" /\ b[2] \in Sectors
                                     /\ _holdings_for_breach(b) = Covered(OfSector(b[2]))
             /\ _holdings_for_breach(b) \in SUBSET Holdings /\ IsFiniteSet(_holdings_for_breach(b))
    <2>1. \/ b[1] = "position" /\ b[2] \in Symbols
          \/ b[1] = "sector" /\ b[2] \in Sectors
        BY DEF Breaches
    <2>2. b[1] = "position" => _holdings_for_breach(b) = Covered({b[2]})
        BY DEF _holdings_for_breach
    <2>3. b[1] # "position" => _holdings_for_breach(b) = Covered(OfSector(b[2]))
        BY DEF _holdings_for_breach
    <2>4. CASE b[1] = "position"
        <3>1. {b[2]} \in SUBSET Symbols
            BY <2>1, <2>4
        <3>. QED BY <2>1, <2>2, <2>4, <3>1, HoldingSets
    <2>5. CASE b[1] # "position"
        BY <1>1, <2>1, <2>3, <2>5, HoldingSets
    <2>. QED BY <2>4, <2>5
<1>3. \A c : OfClass(c) \in SUBSET Symbols
    BY DEF OfClass
<1>. QED BY <1>1, <1>2, <1>3

\* What is computed of a portfolio are numbers.
LEMMA ViewTypes ==
    ASSUME view \in Portfolios
    PROVE  /\ view.value \in [Holdings -> Nat] /\ view.cash \in [Accounts -> Int]
           /\ view.hold \in [Accounts -> Nat] /\ view.gain \in [Holdings -> Int]
           /\ cash \in Int /\ invested_value \in Nat /\ total_value \in Int /\ floor \in Int
           /\ \A s \in Symbols : Total(view.value, Covered({s})) \in Nat /\ PositionExcess(s) \in Int
           /\ \A k : Total(view.value, Covered(OfSector(k))) \in Nat /\ SectorExcess(k) \in Int
           /\ \A b \in Breaches : excess_value(b) \in Int
           /\ \A a \in Accounts : available_cash(a) \in Nat
<1>1. /\ view.value \in [Holdings -> Nat] /\ view.cash \in [Accounts -> Int]
      /\ view.hold \in [Accounts -> Nat] /\ view.gain \in [Holdings -> Int]
    <2>1. view \in [value : [Holdings -> Nat], gain : [Holdings -> Int],
                    cash : [Accounts -> Int], hold : [Accounts -> Nat]]
        BY RebalanceAssumption
    <2>. QED BY <2>1
<1>2. cash \in Int
    <2>1. IsFiniteSet(Accounts) /\ \A a \in Accounts : view.cash[a] \in Int
        BY <1>1, RebalanceAssumption
    <2>2. Sum(view.cash, Accounts) \in Int
        BY <2>1, SumInt
    <2>. QED BY <2>2 DEF cash, Total, Sum
<1>3. \A H \in SUBSET Holdings : Total(view.value, H) \in Nat
    <2>. SUFFICES ASSUME NEW H \in SUBSET Holdings PROVE Total(view.value, H) \in Nat
        OBVIOUS
    <2>1. \A h \in H : view.value[h] \in Nat
        BY <1>1
    <2>. QED BY <2>1, TotalType
<1>4. invested_value \in Nat
    BY <1>3 DEF invested_value
<1>5. total_value \in Int
    BY <1>2, <1>4 DEF total_value
<1>6. floor \in Int
    BY <1>5, Limits DEF floor
<1>7. ASSUME NEW s \in Symbols PROVE Total(view.value, Covered({s})) \in Nat /\ PositionExcess(s) \in Int
    <2>1. Total(view.value, Covered({s})) \in Nat
        BY <1>3, HoldingSets
    <2>2. max_position_pct * total_value \in Int
        BY <1>5, Limits
    <2>. QED BY <2>1, <2>2 DEF PositionExcess
<1>8. ASSUME NEW k PROVE Total(view.value, Covered(OfSector(k))) \in Nat /\ SectorExcess(k) \in Int
    <2>1. Total(view.value, Covered(OfSector(k))) \in Nat
        BY <1>3, HoldingSets, SymbolSets
    <2>2. max_sector_pct * invested_value \in Int
        BY <1>4, Limits
    <2>. QED BY <2>1, <2>2 DEF SectorExcess
<1>9. \A b \in Breaches : excess_value(b) \in Int
    BY <1>7, <1>8 DEF excess_value, Breaches
<1>10. ASSUME NEW a \in Accounts PROVE available_cash(a) \in Nat
    BY <1>1 DEF available_cash, AtLeast0
<1>. QED BY <1>1, <1>2, <1>4, <1>5, <1>6, <1>7, <1>8, <1>9, <1>10

-----------------------------------------------------------------------------
(* What a breach asks of its holdings.                                      *)

\* The smaller of two numbers is one of them and above neither.
LEMMA MinOfTwo ==
    ASSUME NEW a \in Nat, NEW b \in Nat
    PROVE  Min({a, b}) = IF a <= b THEN a ELSE b
<1>1. {a, b} \in SUBSET Nat /\ {a, b} # {}
    OBVIOUS
<1>2. Min({a, b}) \in {a, b} /\ \A x \in {a, b} : Min({a, b}) <= x
    BY <1>1, MinExists
<1>. QED BY <1>2

\* A holding is asked for no more than it has, and all of it where a later one
\* is asked at all; together they are asked for no more than the excess.
LEMMA Targets ==
    ASSUME PlanTypeOK, NEW H \in SUBSET Holdings, NEW excess \in Int,
           NEW place \in Injection(H, 1..Cardinality(H)),
           NEW amount, amount = [h \in H |-> _trim_targets(H, place, excess, h)]
    PROVE  /\ \A h \in H : amount[h] \in Nat /\ amount[h] <= sellable(h)
           /\ \A h, g \in H : place[h] < place[g] /\ amount[g] > 0 => amount[h] = sellable(h)
           /\ Total(amount, H) <= AtLeast0(excess)
<1>. DEFINE give == [g \in H |-> sellable(g)]
            Before(h) == {g \in H : place[g] < place[h]}
            before(h) == Sum(give, Before(h))
<1>1. IsFiniteSet(H) /\ \A S \in SUBSET H : IsFiniteSet(S)
    BY HoldingSets, FS_Subset
<1>2. \A h \in H : give[h] = sellable(h) /\ sellable(h) \in Nat
    <2>1. view.value \in [Holdings -> Nat] /\ planned \in [Holdings -> Nat]
        BY ViewTypes DEF PlanTypeOK
    <2>. QED BY <2>1 DEF sellable, Kept, AtLeast0
<1>3. \A h \in H : place[h] \in Nat
    <2>1. Cardinality(H) \in Nat
        BY <1>1, FS_CardinalityType
    <2>. QED BY <2>1 DEF Injection
<1>4. \A h, g \in H : place[h] = place[g] => h = g
    BY DEF Injection, IsInjective
<1>. HIDE DEF give
<1>5. \A S \in SUBSET H : Sum(give, S) \in Nat
    BY <1>1, <1>2, SumNat
<1>6. \A h \in H : amount[h] = IF AtLeast0(excess - before(h)) <= sellable(h)
                               THEN AtLeast0(excess - before(h)) ELSE sellable(h)
    <2>. SUFFICES ASSUME NEW h \in H
                  PROVE  amount[h] = IF AtLeast0(excess - before(h)) <= sellable(h)
                                     THEN AtLeast0(excess - before(h)) ELSE sellable(h)
        OBVIOUS
    <2>1. before(h) \in Nat
        BY <1>5
    <2>2. amount[h] = Min({AtLeast0(excess - before(h)), sellable(h)})
        BY DEF _trim_targets, Total, Sum, give
    <2>3. AtLeast0(excess - before(h)) \in Nat
        BY <2>1 DEF AtLeast0
    <2>. HIDE DEF before
    <2>. QED BY <1>2, <2>2, <2>3, MinOfTwo
<1>7. \A h \in H : amount[h] \in Nat /\ amount[h] <= sellable(h)
    <2>. SUFFICES ASSUME NEW h \in H PROVE amount[h] \in Nat /\ amount[h] <= sellable(h)
        OBVIOUS
    <2>1. before(h) \in Nat
        BY <1>5
    <2>. HIDE DEF before
    <2>. QED BY <1>2, <1>6, <2>1 DEF AtLeast0
<1>8. ASSUME NEW h \in H, NEW g \in H, place[h] < place[g], amount[g] > 0
      PROVE  amount[h] = sellable(h)
    <2>1. before(h) \in Nat /\ before(g) \in Nat
        BY <1>5
    <2>2. before(g) < excess
        <3>. HIDE DEF before
        <3>. QED BY <1>2, <1>6, <1>8, <2>1 DEF AtLeast0
    <2>3. PICK S : S = Before(h) \cup {h}
        OBVIOUS
    <2>4. S \in SUBSET Before(g) /\ Before(g) \in SUBSET H /\ h \notin Before(h)
        BY <1>3, <1>8, <2>3
    <2>5. Sum(give, S) <= before(g)
        <3>1. IsFiniteSet(Before(g)) /\ \A x \in Before(g) : give[x] \in Nat
            BY <1>1, <1>2, <2>4
        <3>. HIDE DEF Before
        <3>. QED BY <2>4, <3>1, SumOfPart
    <2>6. Sum(give, S) = give[h] + before(h)
        <3>1. IsFiniteSet(S) /\ h \in S /\ S \ {h} = Before(h) /\ \A x \in S : give[x] \in Int
            BY <1>1, <1>2, <2>3, <2>4
        <3>. HIDE DEF Before
        <3>2. Sum(give, S) = give[h] + Sum(give, S \ {h})
            BY <3>1, SumTake
        <3>. QED BY <3>1, <3>2
    <2>. HIDE DEF before
    <2>7. sellable(h) + before(h) < excess
        BY <1>2, <2>1, <2>2, <2>5, <2>6
    <2>. QED BY <1>2, <1>6, <2>1, <2>7 DEF AtLeast0
<1>9. Sum(amount, H) <= AtLeast0(excess)
    <2>. DEFINE P == {h \in H : amount[h] > 0}
    <2>1. Sum(amount, H) = Sum(amount, P)
        <3>1. P \in SUBSET H /\ (\A x \in H : amount[x] \in Int) /\ \A x \in H \ P : amount[x] = 0
            BY <1>7
        <3>. HIDE DEF P
        <3>. QED BY <1>1, <3>1, SumOfSome
    <2>2. CASE P = {}
        <3>1. Sum(amount, P) = 0
            BY <2>2, SumEmpty
        <3>. QED BY <2>1, <3>1 DEF AtLeast0
    <2>3. CASE P # {}
        <3>. DEFINE N == {place[h] : h \in P}
        <3>1. N \in SUBSET Nat /\ N # {}
            BY <1>3, <2>3
        <3>2. IsFiniteSet(N)
            <4>1. Cardinality(H) \in Nat
                BY <1>1, FS_CardinalityType
            <4>2. IsFiniteSet(1..Cardinality(H))
                BY <4>1, FS_Interval
            <4>3. N \in SUBSET (1..Cardinality(H))
                BY DEF Injection
            <4>. QED BY <4>2, <4>3, FS_Subset
        <3>3. PICK m \in P : \A h \in P : place[h] <= place[m]
            <4>1. Max(N) \in N /\ \A x \in N : x <= Max(N)
                <5>. HIDE DEF N
                <5>. QED BY <3>1, <3>2, MaxExists
            <4>. QED BY <4>1
        <3>4. PICK Q : Q = P \ {m}
            OBVIOUS
        <3>5. Q \in SUBSET Before(m) /\ Before(m) \in SUBSET H /\ m \in H /\ amount[m] > 0
            <4>1. \A h \in Q : place[h] <= place[m] /\ place[h] # place[m] /\ place[h] \in Nat /\ place[m] \in Nat
                BY <1>3, <1>4, <3>3, <3>4
            <4>. QED BY <3>4, <4>1
        <3>6. Sum(amount, P) = amount[m] + Sum(amount, Q)
            <4>1. IsFiniteSet(P) /\ \A x \in P : amount[x] \in Int
                BY <1>1, <1>7
            <4>. HIDE DEF P
            <4>. QED BY <3>4, <4>1, SumTake
        <3>7. Sum(amount, Q) <= Sum(give, Q)
            <4>1. IsFiniteSet(Q) /\ \A x \in Q : amount[x] \in Int /\ give[x] \in Int /\ amount[x] <= give[x]
                BY <1>1, <1>2, <1>7, <3>5
            <4>. QED BY <4>1, SumAtMost
        <3>8. Sum(give, Q) <= before(m)
            <4>1. IsFiniteSet(Before(m)) /\ \A x \in Before(m) : give[x] \in Nat
                BY <1>1, <1>2, <3>5
            <4>. HIDE DEF Before
            <4>. QED BY <3>5, <4>1, SumOfPart
        <3>9. before(m) \in Nat /\ Sum(give, Q) \in Nat /\ Sum(amount, Q) \in Int
            <4>1. before(m) \in Nat /\ Sum(give, Q) \in Nat
                BY <1>5, <3>5
            <4>2. Sum(amount, Q) \in Int
                <5>1. IsFiniteSet(Q) /\ \A x \in Q : amount[x] \in Int
                    BY <1>1, <1>7, <3>5
                <5>. QED BY <5>1, SumInt
            <4>. QED BY <4>1, <4>2
        <3>10. amount[m] <= AtLeast0(excess - before(m)) /\ amount[m] \in Nat
            <4>. HIDE DEF before
            <4>. QED BY <1>2, <1>6, <1>7, <3>5, <3>9 DEF AtLeast0
        <3>. HIDE DEF before, P
        <3>. QED BY <2>1, <3>5, <3>6, <3>7, <3>8, <3>9, <3>10 DEF AtLeast0
    <2>. QED BY <2>2, <2>3
<1>. QED BY <1>7, <1>8, <1>9 DEF Total, Sum

\* A sale is of whole shares within what is asked; where all that is left of a
\* holding is asked for, less than a share or than a trade stays.
LEMMA SaleWithin ==
    ASSUME NEW h \in Holdings, NEW amount \in Nat
    PROVE  /\ Sale(amount, h) \in Nat /\ Sale(amount, h) <= amount
           /\ \/ amount - Sale(amount, h) < PriceOf[h[2]]
              \/ amount - Sale(amount, h) < min_position_notional
<1>1. PICK p \in Nat \ {0} : p = PriceOf[h[2]]
    BY RebalanceAssumption DEF Holdings
<1>2. p * (amount \div p) \in Nat /\ p * (amount \div p) <= amount /\ amount < p * (amount \div p) + p
    BY WholeUnits
<1>3. Sale(amount, h) = IF amount < min_position_notional THEN 0 ELSE p * (amount \div p)
    BY <1>1 DEF Sale, _round_quantity
<1>. QED BY <1>1, <1>2, <1>3, Limits

\* What a trim does: it sells of the holdings of its breach, up to the excess
\* and never more than is there, and of a taxable one only when the sheltered
\* ones are sold out.
LEMMA TrimEffect ==
    ASSUME PlanTypeOK, NeverOversold, Trim
    PROVE  \E b \in breaches :
            /\ phase = "trim" /\ Foremost(b) /\ breaches' = breaches \ {b}
            /\ UNCHANGED <<view, phase, entries, queue, per_pick, bought, left, remaining>>
            /\ planned' \in [Holdings -> Nat] /\ deferred' \subseteq Taxable \X Symbols /\ count' \in Nat
            /\ \A h \in Holdings :
                /\ planned[h] <= planned'[h] /\ planned'[h] <= view.value[h]
                /\ h \notin _holdings_for_breach(b) => planned'[h] = planned[h]
            /\ planned' = planned \/ Total(planned', _holdings_for_breach(b)) <= excess_value(b)
            /\ \A h, g \in _holdings_for_breach(b) :
                h[1] \notin Taxable /\ g[1] \in Taxable /\ planned'[g] > planned[g]
                => \/ view.value[h] - planned'[h] < PriceOf[h[2]]
                   \/ view.value[h] - planned'[h] < min_position_notional
<1>1. PICK b \in breaches :
        LET H == _holdings_for_breach(b)
            excess == Excess(b)
        IN  /\ phase = "trim" /\ Foremost(b)
            /\ breaches' = breaches \ {b}
            /\ \/ /\ excess < min_position_notional
                  /\ UNCHANGED <<planned, deferred, count>>
               \/ \E place \in Sorted(H) :
                  LET amount == [h \in H |-> _trim_targets(H, place, excess, h)]
                      sales == {h \in H : amount[h] >= min_position_notional}
                  IN  \E withheld \in SUBSET {h \in sales : h[1] \in Taxable} :
                      /\ excess >= min_position_notional
                      /\ planned' = [h \in Holdings |->
                            planned[h] + IF h \in sales \ withheld THEN Sale(amount[h], h) ELSE 0]
                      /\ deferred' = deferred \cup withheld
                      /\ count' = count + Cardinality({h \in sales \ withheld : Sale(amount[h], h) > 0})
            /\ UNCHANGED <<view, phase, entries, queue, per_pick, bought, left, remaining>>
    BY DEF Trim
<1>. DEFINE H == _holdings_for_breach(b)
            excess == Excess(b)
<1>0. ASSUME ~UNCHANGED <<planned, deferred, count>>
      PROVE  \E place \in Sorted(H) :
            LET amount == [h \in H |-> _trim_targets(H, place, excess, h)]
                sales == {h \in H : amount[h] >= min_position_notional}
            IN  \E withheld \in SUBSET {h \in sales : h[1] \in Taxable} :
                /\ excess >= min_position_notional
                /\ planned' = [h \in Holdings |->
                      planned[h] + IF h \in sales \ withheld THEN Sale(amount[h], h) ELSE 0]
                /\ deferred' = deferred \cup withheld
                /\ count' = count + Cardinality({h \in sales \ withheld : Sale(amount[h], h) > 0})
    BY <1>0, <1>1, Zenon
<1>2. H = _holdings_for_breach(b) /\ H \in SUBSET Holdings /\ IsFiniteSet(H) /\ IsFiniteSet(Holdings)
    BY SymbolSets, HoldingSets DEF PlanTypeOK
<1>3. excess \in Int /\ excess = excess_value(b) - Total(planned, H)
    <2>1. excess_value(b) \in Int
        BY ViewTypes DEF PlanTypeOK
    <2>2. Total(planned, H) \in Int
        BY <1>2, TotalType DEF PlanTypeOK
    <2>. QED BY <2>1, <2>2 DEF Excess
<1>. HIDE DEF H, excess
<1>. USE <1>2, <1>3
<1>4. /\ view.value \in [Holdings -> Nat] /\ planned \in [Holdings -> Nat] /\ count \in Nat
      /\ deferred \subseteq Taxable \X Symbols
      /\ \A h \in Holdings : planned[h] <= view.value[h]
    BY ViewTypes DEF PlanTypeOK, NeverOversold
<1>5. CASE UNCHANGED <<planned, deferred, count>>
    <2>1. planned' = planned /\ deferred' = deferred /\ count' = count
        BY <1>5
    <2>2. \A h \in Holdings : planned[h] \in Nat /\ ~(planned[h] > planned[h]) /\ planned[h] <= planned[h]
        BY <1>4
    <2>3. \A h, g \in _holdings_for_breach(b) : ~(planned'[g] > planned[g])
        BY <1>2, <2>1, <2>2
    <2>. QED BY <1>1, <1>4, <2>1, <2>2, <2>3
<1>6. CASE ~UNCHANGED <<planned, deferred, count>>
    <2>0. PICK place \in Sorted(H) :
            LET amount == [h \in H |-> _trim_targets(H, place, excess, h)]
                sales == {h \in H : amount[h] >= min_position_notional}
            IN  \E withheld \in SUBSET {h \in sales : h[1] \in Taxable} :
                /\ excess >= min_position_notional
                /\ planned' = [h \in Holdings |->
                      planned[h] + IF h \in sales \ withheld THEN Sale(amount[h], h) ELSE 0]
                /\ deferred' = deferred \cup withheld
                /\ count' = count + Cardinality({h \in sales \ withheld : Sale(amount[h], h) > 0})
        BY <1>0, <1>6, Zenon
    <2>. DEFINE amount == [h \in H |-> _trim_targets(H, place, excess, h)]
                sales == {h \in H : amount[h] >= min_position_notional}
    <2>1. PICK withheld \in SUBSET {h \in sales : h[1] \in Taxable} :
            /\ excess >= min_position_notional
            /\ planned' = [h \in Holdings |->
                  planned[h] + IF h \in sales \ withheld THEN Sale(amount[h], h) ELSE 0]
            /\ deferred' = deferred \cup withheld
            /\ count' = count + Cardinality({h \in sales \ withheld : Sale(amount[h], h) > 0})
        BY <2>0
    <2>2. /\ \A h \in H : amount[h] \in Nat /\ amount[h] <= sellable(h)
          /\ \A h, g \in H : place[h] < place[g] /\ amount[g] > 0 => amount[h] = sellable(h)
          /\ Total(amount, H) <= AtLeast0(excess)
        <3>1. place \in Injection(H, 1..Cardinality(H))
            BY DEF Sorted
        <3>2. \A f : f = amount =>
                /\ \A h \in H : f[h] \in Nat /\ f[h] <= sellable(h)
                /\ \A h, g \in H : place[h] < place[g] /\ f[g] > 0 => f[h] = sellable(h)
                /\ Total(f, H) <= AtLeast0(excess)
            BY <3>1, Targets
        <3>. HIDE DEF amount
        <3>. QED BY <3>2
    <2>2a. sales = {h \in H : amount[h] >= min_position_notional}
        OBVIOUS
    <2>. HIDE DEF amount, sales
    <2>3. \A h \in H : sellable(h) = view.value[h] - planned[h]
        BY <1>4 DEF sellable, Kept, AtLeast0
    <2>4. \A h \in H : /\ Sale(amount[h], h) \in Nat /\ Sale(amount[h], h) <= amount[h]
                       /\ \/ amount[h] - Sale(amount[h], h) < PriceOf[h[2]]
                          \/ amount[h] - Sale(amount[h], h) < min_position_notional
        BY <2>2, SaleWithin
    <2>5. \A h \in Holdings : planned'[h] = planned[h] + IF h \in sales \ withheld THEN Sale(amount[h], h) ELSE 0
        BY <2>1
    <2>6. sales \in SUBSET H /\ withheld \in SUBSET H
        BY <2>1, <2>2a
    <2>7. planned' \in [Holdings -> Nat]
        BY <1>4, <2>1, <2>4, <2>6
    <2>8. deferred' \subseteq Taxable \X Symbols
        <3>1. \A h \in withheld : h[1] \in Taxable /\ h \in Accounts \X Symbols
            BY <2>1, <2>6 DEF Holdings
        <3>2. \A h \in withheld : h \in Taxable \X Symbols
            BY <3>1
        <3>. QED BY <1>4, <2>1, <3>2
    <2>9. count' \in Nat
        <3>1. IsFiniteSet({h \in sales \ withheld : Sale(amount[h], h) > 0})
            BY <1>2, <2>6, FS_Subset
        <3>. QED BY <1>4, <2>1, <3>1, FS_CardinalityType
    <2>10. \A h \in Holdings :
                /\ planned[h] <= planned'[h] /\ planned'[h] <= view.value[h]
                /\ h \notin H => planned'[h] = planned[h]
        <3>. SUFFICES ASSUME NEW h \in Holdings
                      PROVE  /\ planned[h] <= planned'[h] /\ planned'[h] <= view.value[h]
                             /\ h \notin H => planned'[h] = planned[h]
            OBVIOUS
        <3>1. CASE h \in sales \ withheld
            BY <1>4, <2>2, <2>3, <2>4, <2>5, <2>6, <3>1
        <3>2. CASE h \notin sales \ withheld
            BY <1>4, <2>5, <3>2
        <3>. QED BY <3>1, <3>2
    <2>11. Total(planned', H) <= excess_value(b)
        <3>. DEFINE more == [h \in H |-> planned[h] + amount[h]]
        <3>1. \A h \in H : /\ planned[h] \in Int /\ amount[h] \in Int /\ more[h] = planned[h] + amount[h]
                           /\ planned'[h] \in Int /\ more[h] \in Int /\ planned'[h] <= more[h]
            <4>. SUFFICES ASSUME NEW h \in H
                          PROVE  /\ planned[h] \in Int /\ amount[h] \in Int /\ more[h] = planned[h] + amount[h]
                                 /\ planned'[h] \in Int /\ more[h] \in Int /\ planned'[h] <= more[h]
                OBVIOUS
            <4>1. planned[h] \in Nat /\ amount[h] \in Nat /\ planned'[h] \in Nat
                BY <1>4, <2>2, <2>7
            <4>2. planned'[h] <= planned[h] + amount[h]
                BY <2>4, <2>5, <4>1
            <4>. QED BY <4>1, <4>2
        <3>. HIDE DEF more
        <3>2. Sum(planned', H) <= Sum(more, H)
            BY <1>2, <3>1, SumAtMost
        <3>3. Sum(more, H) = Sum(planned, H) + Sum(amount, H)
            BY <1>2, <3>1, SumPlus
        <3>4. Sum(planned, H) \in Int /\ Sum(amount, H) \in Int /\ Sum(planned', H) \in Int
            BY <1>2, <3>1, SumInt
        <3>5. Total(planned', H) <= Total(planned, H) + Total(amount, H)
            BY <3>2, <3>3 DEF Total, Sum
        <3>6. Total(planned, H) \in Int /\ Total(amount, H) \in Int /\ Total(planned', H) \in Int
            BY <3>4 DEF Total, Sum
        <3>7. excess_value(b) \in Int
            BY ViewTypes DEF PlanTypeOK
        <3>8. AtLeast0(excess) = excess
            BY <2>1, Limits DEF AtLeast0
        <3>. QED BY <1>3, <2>2, <3>5, <3>6, <3>7, <3>8
    <2>12. \A h, g \in H :
                h[1] \notin Taxable /\ g[1] \in Taxable /\ planned'[g] > planned[g]
                => \/ view.value[h] - planned'[h] < PriceOf[h[2]]
                   \/ view.value[h] - planned'[h] < min_position_notional
        <3>. SUFFICES ASSUME NEW h \in H, NEW g \in H,
                             h[1] \notin Taxable, g[1] \in Taxable, planned'[g] > planned[g]
                      PROVE  \/ view.value[h] - planned'[h] < PriceOf[h[2]]
                             \/ view.value[h] - planned'[h] < min_position_notional
            OBVIOUS
        <3>1. place[h] < place[g]
            BY DEF Sorted, SellsBefore
        <3>2. amount[g] > 0
            <4>1. g \in sales
                BY <1>4, <2>5
            <4>. QED BY <2>2, <2>2a, <4>1, Limits
        <3>3. amount[h] = view.value[h] - planned[h]
            BY <2>2, <2>3, <3>1, <3>2
        <3>4. h \notin withheld
            BY <2>1
        <3>5. CASE h \in sales
            <4>1. planned'[h] = planned[h] + Sale(amount[h], h)
                BY <2>5, <3>4, <3>5
            <4>2. view.value[h] - planned'[h] = amount[h] - Sale(amount[h], h)
                BY <1>4, <2>2, <2>4, <3>3, <4>1
            <4>. QED BY <2>4, <4>2
        <3>6. CASE h \notin sales
            <4>1. planned'[h] = planned[h] /\ ~(amount[h] >= min_position_notional)
                BY <1>4, <2>2a, <2>5, <3>6
            <4>. QED BY <1>4, <2>2, <3>3, <4>1, Limits
        <3>. QED BY <3>5, <3>6
    <2>. QED BY <1>1, <1>2, <2>7, <2>8, <2>9, <2>10, <2>11, <2>12
<1>. QED BY <1>5, <1>6

-----------------------------------------------------------------------------
(* What a purchase takes.                                                   *)

\* What a sale brings and what a purchase costs are amounts.
LEMMA Costs ==
    ASSUME NEW n \in Nat
    PROVE  /\ estimate_trading_cost(n) \in Nat /\ net_sale_proceeds(n) \in Nat
           /\ gross_purchase_cost(n) \in Nat /\ gross_purchase_cost(0) = 0
           /\ net_sale_proceeds(n) <= n
<1>1. (CostPct * n) \div 100 \in Nat /\ (CostPct * n) \div 100 <= n
    BY Limits, Percentage
<1>2. CostPct * 0 = 0 /\ 0 \div 100 = 0
    BY Limits
<1>. QED BY <1>1, <1>2 DEF estimate_trading_cost, net_sale_proceeds, gross_purchase_cost

\* What is within the spendable part of a balance is within it with its cost.
LEMMA SpendableCovers ==
    ASSUME NEW n \in Nat, NEW a \in Accounts, left[a] \in Nat, n <= spendable(a)
    PROVE  gross_purchase_cost(n) <= left[a]
<1>1. PICK l \in Nat : l = left[a]
    OBVIOUS
<1>2. (CostPct * l) \div 100 \in Nat /\ n <= l - (CostPct * l) \div 100
    BY <1>1, Limits, Percentage DEF spendable, estimate_trading_cost
<1>3. n <= l
    BY <1>2
<1>4. (CostPct * n) \div 100 \in Nat /\ (CostPct * n) \div 100 <= (CostPct * l) \div 100
    BY <1>3, Limits, Percentage
<1>. QED BY <1>1, <1>2, <1>4 DEF gross_purchase_cost, estimate_trading_cost

\* The rooms are amounts.
LEMMA Rooms ==
    ASSUME PlanTypeOK, NEW s \in Symbols
    PROVE  /\ _position_headroom(s) \in Nat /\ _sector_headroom(s) \in SUBSET Nat
           /\ \A k : Exposure(k) \in Int
           /\ \A S \in SUBSET Symbols : Total(bought, Covered(S)) \in Nat /\ Total(planned, Covered(S)) \in Nat
           /\ Total(bought, Holdings) \in Nat /\ Total(planned, Holdings) \in Nat
           /\ \A a \in Accounts : spendable(a) \in Nat
<1>1. /\ view.value \in [Holdings -> Nat] /\ planned \in [Holdings -> Nat] /\ bought \in [Holdings -> Nat]
      /\ left \in [Accounts -> Nat] /\ total_value \in Int /\ invested_value \in Nat
      /\ Total(view.value, Covered({s})) \in Nat
    BY ViewTypes DEF PlanTypeOK
<1>2. /\ \A S \in SUBSET Symbols : Total(bought, Covered(S)) \in Nat /\ Total(planned, Covered(S)) \in Nat
      /\ Total(bought, Holdings) \in Nat /\ Total(planned, Holdings) \in Nat
    <2>1. \A H \in SUBSET Holdings : Total(bought, H) \in Nat /\ Total(planned, H) \in Nat
        <3>. SUFFICES ASSUME NEW H \in SUBSET Holdings PROVE Total(bought, H) \in Nat /\ Total(planned, H) \in Nat
            OBVIOUS
        <3>1. \A h \in H : bought[h] \in Nat /\ planned[h] \in Nat
            BY <1>1
        <3>. QED BY <3>1, TotalType
    <2>. QED BY <2>1, HoldingSets
<1>3. _position_headroom(s) \in Nat
    <2>1. (max_position_pct * total_value) \div 100 \in Int
        BY <1>1, Limits
    <2>2. Total(bought, Covered({s})) \in Nat
        BY <1>2
    <2>. QED BY <1>1, <2>1, <2>2 DEF _position_headroom, AtLeast0
<1>4. ASSUME NEW k PROVE Exposure(k) \in Int
    <2>. DEFINE e == [h \in Holdings |-> Kept(h) + bought[h]]
    <2>1. \A h \in Holdings : e[h] \in Int
        BY <1>1 DEF Kept
    <2>2. Covered(OfSector(k)) \in SUBSET Holdings
        BY HoldingSets, SymbolSets
    <2>3. Total(e, Covered(OfSector(k))) \in Int
        <3>. HIDE DEF e
        <3>. QED BY <2>1, <2>2, TotalType
    <2>. QED BY <2>3 DEF Exposure
<1>5. _sector_headroom(s) \in SUBSET Nat
    <2>1. PICK k : k = SectorOf[s]
        OBVIOUS
    <2>2. PICK invested \in Int : invested = invested_value - Total(planned, Covered(OfSector(k))) + Total(bought, Holdings)
        <3>1. Total(planned, Covered(OfSector(k))) \in Nat
            BY <1>2, SymbolSets
        <3>. QED BY <1>1, <1>2, <3>1
    <2>3. max_sector_pct # 100 =>
            AtLeast0((max_sector_pct * invested - 100 * Exposure(k)) \div (100 - max_sector_pct)) \in Nat
        <3>1. max_sector_pct * invested - 100 * Exposure(k) \in Int
            BY <1>4, Limits
        <3>2. max_sector_pct # 100 => 100 - max_sector_pct \in Nat \ {0}
            BY Limits
        <3>. QED BY <3>1, <3>2 DEF AtLeast0
    <2>4. _sector_headroom(s) =
            IF k = NoSector THEN {}
            ELSE IF invested <= 0 THEN {0}
            ELSE IF max_sector_pct = 100 THEN {}
            ELSE {AtLeast0((max_sector_pct * invested - 100 * Exposure(k)) \div (100 - max_sector_pct))}
        BY <2>1, <2>2 DEF _sector_headroom
    <2>. QED BY <2>3, <2>4
<1>6. ASSUME NEW a \in Accounts PROVE spendable(a) \in Nat
    <2>1. left[a] \in Nat
        BY <1>1
    <2>2. (CostPct * left[a]) \div 100 \in Nat /\ (CostPct * left[a]) \div 100 <= left[a]
        BY <2>1, Limits, Percentage
    <2>. QED BY <2>1, <2>2 DEF spendable, estimate_trading_cost
<1>. QED BY <1>2, <1>3, <1>4, <1>5, <1>6

\* What a pick does: it buys a positive amount within every room there is, out
\* of one account that can pay it with its cost, or nothing.
LEMMA PickEffect ==
    ASSUME PlanTypeOK, Pick
    PROVE  /\ phase = "picks" /\ queue # <<>> /\ Head(queue) \in Symbols /\ queue' = Tail(queue)
           /\ UNCHANGED <<view, phase, breaches, planned, deferred, entries, per_pick>>
           /\ \/ UNCHANGED <<bought, left, remaining, count>>
              \/ \E a \in Accounts, n \in Nat \ {0} :
                  /\ n <= per_pick /\ n <= remaining /\ gross_purchase_cost(n) <= left[a]
                  /\ n <= _position_headroom(Head(queue))
                  /\ \A m \in _sector_headroom(Head(queue)) : n <= m
                  /\ bought' = [bought EXCEPT ![<<a, Head(queue)>>] = @ + n]
                  /\ left' = [left EXCEPT ![a] = @ - gross_purchase_cost(n)]
                  /\ remaining' = remaining - n
                  /\ count' = count + 1
<1>. DEFINE s == Head(queue)
            Room(a) == {per_pick, _position_headroom(s), remaining, spendable(a)} \cup _sector_headroom(s)
            Amount(a) == Min(Room(a))
            Notional(a) == PriceOf[s] * _round_quantity(Amount(a), PriceOf[s])
<1>1. /\ phase = "picks" /\ queue # <<>> /\ queue' = Tail(queue)
      /\ \/ \E a \in _account_for_buy :
            /\ Amount(a) >= min_position_notional /\ Notional(a) > 0
            /\ bought' = [bought EXCEPT ![<<a, s>>] = @ + Notional(a)]
            /\ left' = [left EXCEPT ![a] = @ - gross_purchase_cost(Notional(a))]
            /\ remaining' = remaining - Notional(a)
            /\ count' = count + 1
         \/ UNCHANGED <<bought, left, remaining, count>>
      /\ UNCHANGED <<view, phase, breaches, planned, deferred, entries, per_pick>>
    BY DEF Pick
<1>2. s \in Symbols
    BY <1>1 DEF PlanTypeOK
<1>3. ASSUME NEW a \in Accounts
      PROVE  Amount(a) \in Nat /\ \A m \in Room(a) : Amount(a) <= m
    <2>1. Room(a) \in SUBSET Nat /\ Room(a) # {}
        BY <1>2, Rooms DEF PlanTypeOK
    <2>. HIDE DEF Room
    <2>. QED BY <2>1, MinExists
<1>4. ASSUME NEW a \in Accounts
      PROVE  Notional(a) \in Nat /\ Notional(a) <= Amount(a)
    <2>1. PriceOf[s] \in Nat \ {0}
        BY <1>2, RebalanceAssumption
    <2>. HIDE DEF Amount, s
    <2>. QED BY <1>3, <2>1, WholeUnits DEF _round_quantity
<1>5. _account_for_buy \subseteq Accounts
    BY DEF _account_for_buy
<1>6. CASE UNCHANGED <<bought, left, remaining, count>>
    BY <1>1, <1>2, <1>6
<1>7. CASE \E a \in _account_for_buy :
            /\ Amount(a) >= min_position_notional /\ Notional(a) > 0
            /\ bought' = [bought EXCEPT ![<<a, s>>] = @ + Notional(a)]
            /\ left' = [left EXCEPT ![a] = @ - gross_purchase_cost(Notional(a))]
            /\ remaining' = remaining - Notional(a)
            /\ count' = count + 1
    <2>1. PICK a \in Accounts :
            /\ Notional(a) > 0
            /\ bought' = [bought EXCEPT ![<<a, s>>] = @ + Notional(a)]
            /\ left' = [left EXCEPT ![a] = @ - gross_purchase_cost(Notional(a))]
            /\ remaining' = remaining - Notional(a)
            /\ count' = count + 1
        BY <1>5, <1>7
    <2>2. PICK n \in Nat \ {0} : n = Notional(a)
        BY <1>4, <2>1
    <2>3. \A m \in Room(a) : n <= m
        <3>1. \A m \in Room(a) : m \in Nat
            BY <1>2, Rooms DEF PlanTypeOK
        <3>2. n <= Amount(a) /\ Amount(a) \in Nat /\ \A m \in Room(a) : Amount(a) <= m
            BY <1>3, <1>4, <2>2
        <3>. HIDE DEF Room, Amount
        <3>. QED BY <3>1, <3>2
    <2>4. /\ n <= per_pick /\ n <= remaining /\ n <= _position_headroom(s) /\ n <= spendable(a)
          /\ \A m \in _sector_headroom(s) : n <= m
        BY <2>3
    <2>5. gross_purchase_cost(n) <= left[a]
        <3>1. left[a] \in Nat
            BY DEF PlanTypeOK
        <3>. QED BY <2>4, <3>1, SpendableCovers
    <2>. HIDE DEF Notional
    <2>. QED BY <1>1, <1>2, <2>1, <2>2, <2>4, <2>5
<1>. QED BY <1>1, <1>6, <1>7

-----------------------------------------------------------------------------
(* What the plan keeps to itself, and what stays the same.                  *)

\* Where a plan is in its course: nothing is bought before the trims are done,
\* picks are waiting only while a class is in hand, and the classes to fill are
\* below their target.
Stages ==
    /\ phase = "trim" => entries = {} /\ bought = [h \in Holdings |-> 0]
    /\ phase # "picks" => queue = <<>>
    /\ \A c \in entries : Gap(c) > 0

\* What every proof about the plan rests on.
BaseInv == PlanTypeOK /\ NeverOversold /\ Stages

\* What is read of the portfolio does not change with it.
LEMMA SameView ==
    ASSUME UNCHANGED view
    PROVE  /\ cash' = cash /\ invested_value' = invested_value /\ total_value' = total_value /\ floor' = floor
           /\ \A s : PositionExcess(s)' = PositionExcess(s)
           /\ \A k : SectorExcess(k)' = SectorExcess(k)
           /\ \A b : excess_value(b)' = excess_value(b)
           /\ \A a : available_cash(a)' = available_cash(a)
<1>1. cash' = cash /\ invested_value' = invested_value
    BY DEF cash, invested_value
<1>2. total_value' = total_value
    BY <1>1 DEF total_value
<1>3. floor' = floor
    BY <1>2 DEF floor
<1>4. /\ \A s : PositionExcess(s)' = PositionExcess(s)
      /\ \A k : SectorExcess(k)' = SectorExcess(k)
    BY <1>1, <1>2 DEF PositionExcess, SectorExcess
<1>5. \A b : excess_value(b)' = excess_value(b)
    BY <1>4 DEF excess_value
<1>6. \A a : available_cash(a)' = available_cash(a)
    BY DEF available_cash
<1>. QED BY <1>1, <1>2, <1>3, <1>4, <1>5, <1>6

\* Nor what the trims leave, once they are done.
LEMMA SameTrims ==
    ASSUME UNCHANGED <<view, planned>>
    PROVE  /\ Funds' = Funds
           /\ \A c : Held(c)' = Held(c) /\ Gap(c)' = Gap(c)
           /\ \A h : Kept(h)' = Kept(h)
<1>0. view' = view /\ planned' = planned
    OBVIOUS
<1>1. Funds' = Funds
    BY <1>0, SameView DEF Funds
<1>2. \A h : Kept(h)' = Kept(h)
    BY <1>0 DEF Kept
<1>3. \A c : Held(c)' = Held(c)
    BY <1>0, <1>2, SameView DEF Held
<1>4. \A c : Gap(c)' = Gap(c)
    BY <1>3, SameView DEF Gap
<1>. QED BY <1>1, <1>2, <1>3, <1>4

\* What is held of a class, and what it falls short of, are numbers.
LEMMA GapTypes ==
    ASSUME PlanTypeOK
    PROVE  \A c \in Sleeves : Held(c) \in Int /\ Gap(c) \in Int /\ target[c] * total_value \in Int
<1>1. /\ view.value \in [Holdings -> Nat] /\ planned \in [Holdings -> Nat]
      /\ cash \in Int /\ total_value \in Int
    BY ViewTypes DEF PlanTypeOK
<1>. DEFINE kept == [h \in Holdings |-> Kept(h)]
<1>2. \A h \in Holdings : kept[h] \in Int /\ planned[h] \in Int
    BY <1>1 DEF Kept
<1>3. \A H \in SUBSET Holdings : Total(kept, H) \in Int /\ Total(planned, H) \in Int
    <2>. HIDE DEF kept
    <2>. QED BY <1>2, TotalType
<1>4. ASSUME NEW c \in Sleeves PROVE Held(c) \in Int
    <2>1. Covered(OfClass(c)) \in SUBSET Holdings
        BY HoldingSets, SymbolSets
    <2>2. Total(kept, Covered(OfClass(c))) \in Int /\ Total(planned, Holdings) \in Int
        <3>. HIDE DEF kept
        <3>. QED BY <1>3, <2>1
    <2>3. Held(c) = IF c = "cash" THEN cash + Total(planned, Holdings) ELSE Total(kept, Covered(OfClass(c)))
        BY DEF Held
    <2>. HIDE DEF kept
    <2>. QED BY <1>1, <2>2, <2>3
<1>5. ASSUME NEW c \in Sleeves PROVE Gap(c) \in Int /\ target[c] * total_value \in Int
    <2>1. target[c] \in 0..100
        BY RebalanceAssumption
    <2>2. target[c] * total_value \in Int
        BY <1>1, <2>1
    <2>. QED BY <1>4, <2>2 DEF Gap
<1>. QED BY <1>4, <1>5

\* What an account can pay with is an amount.
LEMMA FundsTypes ==
    ASSUME PlanTypeOK
    PROVE  /\ Funds \in [Accounts -> Nat]
           /\ \A a \in Accounts : Deployable(a) \in [Accounts -> Nat]
<1>1. ASSUME NEW a \in Accounts PROVE Funds[a] \in Nat
    <2>. DEFINE f == [s \in Symbols |-> net_sale_proceeds(planned[<<a, s>>])]
    <2>1. \A s \in Symbols : f[s] \in Nat
        <3>. SUFFICES ASSUME NEW s \in Symbols PROVE f[s] \in Nat
            OBVIOUS
        <3>1. planned[<<a, s>>] \in Nat
            BY DEF PlanTypeOK, Holdings
        <3>. QED BY <3>1, Costs
    <2>2. Sum(f, Symbols) \in Nat
        <3>1. IsFiniteSet(Symbols)
            BY RebalanceAssumption
        <3>. HIDE DEF f
        <3>. QED BY <2>1, <3>1, SumNat
    <2>3. available_cash(a) \in Nat
        BY ViewTypes DEF PlanTypeOK
    <2>. QED BY <2>2, <2>3 DEF Funds, Total, Sum
<1>2. Funds \in [Accounts -> Nat]
    BY <1>1 DEF Funds
<1>3. ASSUME NEW a \in Accounts PROVE Deployable(a) \in [Accounts -> Nat]
    <2>1. floor \in Int
        BY ViewTypes DEF PlanTypeOK
    <2>2. AtLeast0(Funds[a] - floor) \in Nat
        BY <1>2, <2>1 DEF AtLeast0
    <2>. QED BY <1>2, <2>2 DEF Deployable
<1>. QED BY <1>2, <1>3

\* What the start of the purchases does: it takes the floor from an account
\* with the most, and lists classes below their target.
LEMMA BeginEffect ==
    ASSUME PlanTypeOK, BeginBuys
    PROVE  /\ phase = "trim" /\ breaches = {} /\ phase' = "entries"
           /\ entries' \subseteq Sleeves /\ \A c \in entries' : Gap(c) > 0
           /\ left' \in [Accounts -> Nat] /\ remaining' \in Nat
           /\ \E largest \in Accounts :
                (\A a \in Accounts : Funds[a] <= Funds[largest]) /\ left' = Deployable(largest)
           /\ UNCHANGED <<view, breaches, planned, deferred, queue, per_pick, bought, count>>
<1>1. PICK largest \in Accounts :
        LET investable == Total(Deployable(largest), Accounts)
        IN  /\ phase = "trim" /\ breaches = {}
            /\ \A a \in Accounts : Funds[a] <= Funds[largest]
            /\ left' = Deployable(largest) /\ remaining' = investable
            /\ entries' \in IF investable < min_position_notional THEN {{}} ELSE _projected_drift
            /\ phase' = "entries"
            /\ UNCHANGED <<view, breaches, planned, deferred, queue, per_pick, bought, count>>
    BY DEF BeginBuys
<1>2. left' \in [Accounts -> Nat]
    BY <1>1, FundsTypes
<1>3. remaining' \in Nat
    <2>1. \A a \in Accounts : Deployable(largest)[a] \in Nat
        BY FundsTypes
    <2>2. Sum(Deployable(largest), Accounts) \in Nat
        BY <2>1, SumNat, RebalanceAssumption
    <2>. QED BY <1>1, <2>2 DEF Total, Sum
<1>4. entries' \subseteq {c \in Sleeves : Gap(c) > 0}
    <2>. DEFINE short == {c \in Sleeves : Gap(c) > 0}
    <2>1. entries' = {} \/ entries' \in _projected_drift
        BY <1>1
    <2>2. \A E \in _projected_drift : E \subseteq short
        BY DEF _projected_drift, kSubset
    <2>. QED BY <2>1, <2>2
<1>. QED BY <1>1, <1>2, <1>3, <1>4

\* What a class that is taken in hand does: it queues the best of its
\* candidates, whose shares together are within what it falls short of.
LEMMA EntryEffect ==
    ASSUME BaseInv, NextEntry
    PROVE  \E class \in entries :
            /\ phase = "entries" /\ entries' = entries \ {class}
            /\ UNCHANGED <<view, breaches, planned, deferred, bought, left, remaining, count>>
            /\ \/ UNCHANGED <<phase, queue, per_pick>>
               \/ \E n \in 1..Len(Candidates[class]) :
                    /\ phase' = "picks" /\ queue' = SubSeq(Candidates[class], 1, n)
                    /\ per_pick' \in Nat /\ n * per_pick' <= Gap(class)
<1>1. PICK class \in entries :
        LET allocation == Min({Gap(class), remaining})
            picks == Min({Len(Candidates[class]), 3, allocation \div min_position_notional})
        IN  /\ phase = "entries" /\ remaining >= min_position_notional
            /\ entries' = entries \ {class}
            /\ IF picks = 0
               THEN UNCHANGED <<phase, queue, per_pick>>
               ELSE /\ phase' = "picks"
                    /\ queue' = SubSeq(Candidates[class], 1, picks)
                    /\ per_pick' = Share(allocation, picks)
            /\ UNCHANGED <<view, breaches, planned, deferred, bought, left, remaining, count>>
    BY DEF NextEntry
<1>2. class \in Sleeves /\ Gap(class) \in Nat /\ remaining \in Nat
    BY GapTypes DEF BaseInv, PlanTypeOK, Stages
<1>3. PICK allocation \in Nat : allocation = Min({Gap(class), remaining}) /\ allocation <= Gap(class)
    <2>1. Min({Gap(class), remaining}) \in Nat /\ Min({Gap(class), remaining}) <= Gap(class)
        BY <1>2, MinOfTwo
    <2>. QED BY <2>1
<1>4. PICK L \in Nat : L = Len(Candidates[class])
    BY <1>2, RebalanceAssumption
<1>5. PICK picks \in Nat : picks = Min({L, 3, allocation \div min_position_notional}) /\ picks <= L
    <2>1. allocation \div min_position_notional \in Nat
        BY Limits
    <2>2. {L, 3, allocation \div min_position_notional} \in SUBSET Nat
        BY <2>1
    <2>3. PICK S \in SUBSET Nat : S = {L, 3, allocation \div min_position_notional}
        BY <2>2
    <2>4. Min(S) \in S /\ \A x \in S : Min(S) <= x
        BY <2>3, MinExists
    <2>. QED BY <2>3, <2>4
<1>6. CASE picks = 0
    BY <1>1, <1>3, <1>4, <1>5, <1>6
<1>7. CASE picks # 0
    <2>1. phase' = "picks" /\ queue' = SubSeq(Candidates[class], 1, picks) /\ per_pick' = Share(allocation, picks)
        BY <1>1, <1>3, <1>4, <1>5, <1>7
    <2>2. picks \in 1..Len(Candidates[class])
        BY <1>4, <1>5, <1>7
    <2>3. per_pick' \in Nat /\ picks * per_pick' <= allocation
        BY <1>7, <2>1, WholeUnits DEF Share
    <2>4. picks * per_pick' <= Gap(class)
        BY <1>2, <1>3, <2>3
    <2>. QED BY <1>1, <2>1, <2>2, <2>3, <2>4
<1>. QED BY <1>6, <1>7

\* The plan keeps its types, oversells nothing and goes through its stages.
LEMMA BaseStep ==
    ASSUME BaseInv, [PlanNext]_planVars
    PROVE  BaseInv'
<1>. USE DEF BaseInv
<1>1. CASE Trim
    <2>1. PICK b \in breaches :
            /\ phase = "trim" /\ breaches' = breaches \ {b}
            /\ UNCHANGED <<view, phase, entries, queue, per_pick, bought, left, remaining>>
            /\ planned' \in [Holdings -> Nat] /\ deferred' \subseteq Taxable \X Symbols /\ count' \in Nat
            /\ \A h \in Holdings : planned'[h] <= view.value[h]
        BY <1>1, TrimEffect
    <2>2. PlanTypeOK'
        BY <2>1 DEF PlanTypeOK
    <2>3. NeverOversold'
        BY <2>1 DEF NeverOversold
    <2>4. Stages'
        BY <2>1 DEF Stages
    <2>. QED BY <2>2, <2>3, <2>4
<1>2. CASE BeginBuys
    <2>1. /\ phase = "trim" /\ phase' = "entries"
          /\ entries' \subseteq Sleeves /\ \A c \in entries' : Gap(c) > 0
          /\ left' \in [Accounts -> Nat] /\ remaining' \in Nat
          /\ UNCHANGED <<view, breaches, planned, deferred, queue, per_pick, bought, count>>
        BY <1>2, BeginEffect
    <2>2. PlanTypeOK'
        BY <2>1 DEF PlanTypeOK
    <2>3. NeverOversold'
        BY <2>1 DEF NeverOversold
    <2>4. Stages'
        <3>1. \A c : Gap(c)' = Gap(c)
            BY <2>1, SameTrims
        <3>. QED BY <2>1, <3>1 DEF Stages
    <2>. QED BY <2>2, <2>3, <2>4
<1>3. CASE NextEntry
    <2>1. PICK class \in entries :
            /\ phase = "entries" /\ entries' = entries \ {class}
            /\ UNCHANGED <<view, breaches, planned, deferred, bought, left, remaining, count>>
            /\ \/ UNCHANGED <<phase, queue, per_pick>>
               \/ \E n \in 1..Len(Candidates[class]) :
                    /\ phase' = "picks" /\ queue' = SubSeq(Candidates[class], 1, n)
                    /\ per_pick' \in Nat
        BY <1>3, EntryEffect
    <2>2. queue' \in Seq(Symbols) /\ per_pick' \in Nat /\ phase' \in {"entries", "picks"}
          /\ (phase' = "entries" => queue' = <<>>)
        <3>1. Candidates[class] \in Seq(Symbols)
            BY RebalanceAssumption DEF PlanTypeOK
        <3>2. \A n \in 1..Len(Candidates[class]) : SubSeq(Candidates[class], 1, n) \in Seq(Symbols)
            BY <3>1
        <3>. QED BY <2>1, <3>2 DEF PlanTypeOK, Stages
    <2>3. PlanTypeOK'
        BY <2>1, <2>2 DEF PlanTypeOK
    <2>4. NeverOversold'
        BY <2>1 DEF NeverOversold
    <2>5. Stages'
        <3>1. \A c : Gap(c)' = Gap(c)
            BY <2>1, SameTrims
        <3>. QED BY <2>1, <2>2, <3>1 DEF Stages
    <2>. QED BY <2>3, <2>4, <2>5
<1>4. CASE Pick
    <2>1. /\ phase = "picks" /\ queue # <<>> /\ Head(queue) \in Symbols /\ queue' = Tail(queue)
          /\ UNCHANGED <<view, phase, breaches, planned, deferred, entries, per_pick>>
          /\ \/ UNCHANGED <<bought, left, remaining, count>>
             \/ \E a \in Accounts, n \in Nat \ {0} :
                  /\ n <= remaining /\ gross_purchase_cost(n) <= left[a]
                  /\ bought' = [bought EXCEPT ![<<a, Head(queue)>>] = @ + n]
                  /\ left' = [left EXCEPT ![a] = @ - gross_purchase_cost(n)]
                  /\ remaining' = remaining - n
                  /\ count' = count + 1
        BY <1>4, PickEffect
    <2>2. bought' \in [Holdings -> Nat] /\ left' \in [Accounts -> Nat] /\ remaining' \in Nat /\ count' \in Nat
        <3>1. CASE UNCHANGED <<bought, left, remaining, count>>
            BY <3>1 DEF PlanTypeOK
        <3>2. ASSUME NEW a \in Accounts, NEW n \in Nat \ {0},
                     /\ n <= remaining /\ gross_purchase_cost(n) <= left[a]
                     /\ bought' = [bought EXCEPT ![<<a, Head(queue)>>] = @ + n]
                     /\ left' = [left EXCEPT ![a] = @ - gross_purchase_cost(n)]
                     /\ remaining' = remaining - n
                     /\ count' = count + 1
              PROVE  bought' \in [Holdings -> Nat] /\ left' \in [Accounts -> Nat]
                     /\ remaining' \in Nat /\ count' \in Nat
            <4>1. PICK g \in Nat : g = gross_purchase_cost(n)
                BY Costs
            <4>2. bought \in [Holdings -> Nat] /\ left \in [Accounts -> Nat] /\ remaining \in Nat /\ count \in Nat
                BY DEF PlanTypeOK
            <4>3. left[a] - g \in Nat
                BY <3>2, <4>1, <4>2
            <4>4. bought' \in [Holdings -> Nat]
                <5>1. \A h \in Holdings : bought[h] + n \in Nat
                    BY <4>2
                <5>. QED BY <3>2, <4>2, <5>1
            <4>5. left' \in [Accounts -> Nat]
                BY <3>2, <4>1, <4>2, <4>3
            <4>6. remaining' \in Nat /\ count' \in Nat
                BY <3>2, <4>2
            <4>. QED BY <4>4, <4>5, <4>6
        <3>. QED BY <2>1, <3>1, <3>2
    <2>3. queue' \in Seq(Symbols)
        BY <2>1 DEF PlanTypeOK
    <2>4. PlanTypeOK'
        BY <2>1, <2>2, <2>3 DEF PlanTypeOK
    <2>5. NeverOversold'
        BY <2>1 DEF NeverOversold
    <2>6. Stages'
        <3>1. \A c : Gap(c)' = Gap(c)
            BY <2>1, SameTrims
        <3>. QED BY <2>1, <3>1 DEF Stages
    <2>. QED BY <2>4, <2>5, <2>6
<1>5. CASE EndEntry \/ EndPlan
    <2>1. /\ phase # "trim" /\ phase' \in {"entries", "done"} /\ queue = <<>>
          /\ UNCHANGED <<view, breaches, planned, deferred, entries, queue, per_pick, bought, left, remaining, count>>
        BY <1>5 DEF EndEntry, EndPlan, Stages
    <2>2. PlanTypeOK'
        BY <2>1 DEF PlanTypeOK
    <2>3. NeverOversold'
        BY <2>1 DEF NeverOversold
    <2>4. Stages'
        <3>1. \A c : Gap(c)' = Gap(c)
            BY <2>1, SameTrims
        <3>. QED BY <2>1, <3>1 DEF Stages
    <2>. QED BY <2>2, <2>3, <2>4
<1>6. CASE UNCHANGED planVars
    <2>1. UNCHANGED <<view, phase, breaches, planned, deferred, entries, queue, per_pick, bought, left, remaining, count>>
        BY <1>6 DEF planVars
    <2>2. PlanTypeOK' /\ NeverOversold'
        BY <2>1 DEF PlanTypeOK, NeverOversold
    <2>3. Stages'
        <3>1. \A c : Gap(c)' = Gap(c)
            BY <2>1, SameTrims
        <3>. QED BY <2>1, <3>1 DEF Stages
    <2>. QED BY <2>2, <2>3
<1>. QED BY <1>1, <1>2, <1>3, <1>4, <1>5, <1>6 DEF PlanNext

\* A plan starts with nothing sold and nothing bought.
LEMMA BaseInit == PlanInit => BaseInv
<1>. SUFFICES ASSUME PlanInit PROVE BaseInv
    OBVIOUS
<1>1. PlanTypeOK
    BY DEF PlanInit, PlanTypeOK, concentration_breaches
<1>2. NeverOversold
    <2>1. view.value \in [Holdings -> Nat]
        BY ViewTypes DEF PlanInit
    <2>. QED BY <2>1 DEF PlanInit, NeverOversold
<1>3. Stages
    BY DEF PlanInit, Stages
<1>. QED BY <1>1, <1>2, <1>3 DEF BaseInv

-----------------------------------------------------------------------------
(* Trims go to the limit.                                                   *)

\* No more of a symbol is sold than it is above its limit.
WithinPosition(s) == Total(planned, Covered({s})) <= AtLeast0(PositionExcess(s))

\* A sector that was over its limit and has had its trim.
Handled(k) == SectorExcess(k) > 0 /\ <<"sector", k>> \notin breaches

\* What the positions of a sector are above their limits, together.
Positions(k) == Total([s \in Symbols |-> AtLeast0(PositionExcess(s))], OfSector(k))

\* What holds of the trims: until its sector has its own, a symbol is sold up
\* to its position's excess; from then on no position is trimmed any more, and
\* what is sold of the sector stays within what its positions or it asked for.
TrimInv ==
    /\ \A b \in breaches : excess_value(b) > 0
    /\ \A s \in Symbols : (SectorOf[s] \in Sectors => ~Handled(SectorOf[s])) => WithinPosition(s)
    /\ \A k \in Sectors : Handled(k) =>
        /\ \A s \in Symbols : <<"position", s>> \notin breaches
        /\ \/ Total(planned, Covered(OfSector(k))) <= Positions(k)
           \/ Total(planned, Covered(OfSector(k))) <= SectorExcess(k)
    /\ ShelterFirst

\* The symbols of a sector together, where each is within its own excess.
LEMMA SectorWithin ==
    ASSUME PlanTypeOK, NEW k, \A s \in OfSector(k) : WithinPosition(s)
    PROVE  Total(planned, Covered(OfSector(k))) <= Positions(k)
<1>. DEFINE I == OfSector(k)
            U == Covered(OfSector(k))
            part == [s \in I |-> Covered({s})]
            sold == [s \in I |-> Total(planned, Covered({s}))]
            excess == [s \in Symbols |-> AtLeast0(PositionExcess(s))]
<1>1. I \in SUBSET Symbols /\ IsFiniteSet(I) /\ U \in SUBSET Holdings /\ IsFiniteSet(U)
    BY SymbolSets, HoldingSets
<1>2. \A s \in I : part[s] \in SUBSET U
    BY DEF Covered
<1>3. \A s, t \in I : s # t => part[s] \cap part[t] = {}
    BY DEF Covered
<1>4. UNION {part[s] : s \in I} = U
    BY DEF Covered
<1>5. \A h \in U : planned[h] \in Int
    BY <1>1 DEF PlanTypeOK
<1>6. \A s \in I : sold[s] = Sum(planned, part[s])
    BY DEF Total, Sum
<1>7. Sum(planned, UNION {part[s] : s \in I}) = Sum(sold, I)
    <2>. HIDE DEF I, U, part, sold
    <2>. QED BY <1>1, <1>2, <1>3, <1>5, <1>6, SumOfParts
<1>8. \A s \in I : sold[s] \in Int /\ excess[s] \in Int /\ sold[s] <= excess[s]
    <2>. SUFFICES ASSUME NEW s \in I PROVE sold[s] \in Int /\ excess[s] \in Int /\ sold[s] <= excess[s]
        OBVIOUS
    <2>1. s \in Symbols /\ WithinPosition(s)
        BY <1>1
    <2>2. Total(planned, Covered({s})) \in Nat
        BY <2>1, Rooms
    <2>3. AtLeast0(PositionExcess(s)) \in Int
        <3>1. PositionExcess(s) \in Int
            BY <2>1, ViewTypes DEF PlanTypeOK
        <3>. QED BY <3>1 DEF AtLeast0
    <2>. QED BY <2>1, <2>2, <2>3 DEF WithinPosition
<1>9. Sum(sold, I) <= Sum(excess, I)
    <2>. HIDE DEF I, U, part, sold, excess
    <2>. QED BY <1>1, <1>8, SumAtMost
<1>10. Total(planned, U) = Sum(sold, I)
    <2>. HIDE DEF I, U, part, sold, excess
    <2>. QED BY <1>4, <1>7 DEF Total, Sum
<1>11. Positions(k) = Sum(excess, I)
    BY DEF Positions, Total, Sum
<1>. QED BY <1>9, <1>10, <1>11

\* Nothing of a holding that is not covered is sold by the trim.
LEMMA SameTotal ==
    ASSUME NEW H \in SUBSET Holdings, NEW f, NEW g, \A h \in H : f[h] \in Int /\ f[h] = g[h]
    PROVE  Total(f, H) = Total(g, H)
<1>1. IsFiniteSet(H)
    BY HoldingSets, FS_Subset
<1>2. Sum(f, H) = Sum(g, H)
    BY <1>1, SumSame
<1>. QED BY <1>2 DEF Total, Sum

\* A trim takes of its breach's holdings no more than earlier trims left of the
\* excess, and of the taxable ones after the sheltered.
LEMMA TrimKeeps ==
    ASSUME BaseInv, TrimInv, Trim
    PROVE  TrimInv'
<1>. USE DEF BaseInv
<1>1. PICK b \in breaches :
        /\ phase = "trim" /\ Foremost(b) /\ breaches' = breaches \ {b}
        /\ UNCHANGED <<view, phase, entries, queue, per_pick, bought, left, remaining>>
        /\ planned' \in [Holdings -> Nat]
        /\ \A h \in Holdings :
            /\ planned[h] <= planned'[h] /\ planned'[h] <= view.value[h]
            /\ h \notin _holdings_for_breach(b) => planned'[h] = planned[h]
        /\ planned' = planned \/ Total(planned', _holdings_for_breach(b)) <= excess_value(b)
        /\ \A h, g \in _holdings_for_breach(b) :
            h[1] \notin Taxable /\ g[1] \in Taxable /\ planned'[g] > planned[g]
            => \/ view.value[h] - planned'[h] < PriceOf[h[2]]
               \/ view.value[h] - planned'[h] < min_position_notional
    BY TrimEffect
<1>2. b \in Breaches /\ planned \in [Holdings -> Nat] /\ view.value \in [Holdings -> Nat]
    BY ViewTypes DEF PlanTypeOK
<1>3. /\ \A s : PositionExcess(s)' = PositionExcess(s)
      /\ \A k : SectorExcess(k)' = SectorExcess(k)
      /\ \A c : excess_value(c)' = excess_value(c)
    BY <1>1, SameView
<1>4. /\ \/ b[1] = "position" /\ b[2] \in Symbols /\ b = <<"position", b[2]>>
            /\ _holdings_for_breach(b) = Covered({b[2]}) /\ excess_value(b) = PositionExcess(b[2])
         \/ b[1] = "sector" /\ b[2] \in Sectors /\ b = <<"sector", b[2]>>
            /\ _holdings_for_breach(b) = Covered(OfSector(b[2])) /\ excess_value(b) = SectorExcess(b[2])
      /\ excess_value(b) > 0
    <2>1. \/ b[1] = "position" /\ b[2] \in Symbols /\ b = <<"position", b[2]>>
          \/ b[1] = "sector" /\ b[2] \in Sectors /\ b = <<"sector", b[2]>>
        BY <1>2 DEF Breaches
    <2>2. excess_value(b) > 0
        BY DEF TrimInv
    <2>3. "position" # "sector"
        OBVIOUS
    <2>. QED BY <1>2, <2>1, <2>2, <2>3, SymbolSets DEF excess_value
\* Symbols the breach does not cover keep what is sold of them.
<1>5. ASSUME NEW S \in SUBSET Symbols, Covered(S) \cap _holdings_for_breach(b) = {}
      PROVE  Total(planned', Covered(S)) = Total(planned, Covered(S))
    <2>1. Covered(S) \in SUBSET Holdings
        BY HoldingSets
    <2>2. \A h \in Covered(S) : planned'[h] \in Int /\ planned'[h] = planned[h]
        BY <1>1, <1>2, <1>5, <2>1
    <2>. QED BY <2>1, <2>2, SameTotal
<1>6. \A k : Handled(k) => Handled(k)'
    BY <1>1, <1>3 DEF Handled
<1>7. \A c \in breaches' : excess_value(c)' > 0
    BY <1>1, <1>3 DEF TrimInv
<1>8. ASSUME NEW s \in Symbols, SectorOf[s] \in Sectors => ~Handled(SectorOf[s])'
      PROVE  WithinPosition(s)'
    <2>1. WithinPosition(s)
        BY <1>6, <1>8 DEF TrimInv
    <2>2. CASE Covered({s}) \cap _holdings_for_breach(b) = {}
        <3>1. {s} \in SUBSET Symbols
            OBVIOUS
        <3>2. Total(planned', Covered({s})) = Total(planned, Covered({s}))
            BY <1>5, <2>2, <3>1
        <3>. QED BY <1>3, <2>1, <3>2 DEF WithinPosition, Covered, AtLeast0
    <2>3. CASE b[1] = "position" /\ b[2] = s
        <3>1. _holdings_for_breach(b) = Covered({s}) /\ excess_value(b) = PositionExcess(s)
            BY <1>4, <2>3
        <3>2. planned' = planned \/ Total(planned', Covered({s})) <= PositionExcess(s)
            BY <1>1, <3>1
        <3>3. PositionExcess(s) \in Int /\ Total(planned', Covered({s})) \in Int
            <4>1. Covered({s}) \in SUBSET Holdings
                BY HoldingSets
            <4>2. \A h \in Covered({s}) : planned'[h] \in Int
                BY <1>1, <4>1
            <4>3. Total(planned', Covered({s})) \in Int
                BY <4>1, <4>2, TotalType
            <4>. QED BY <4>3, ViewTypes DEF PlanTypeOK
        <3>4. Total(planned', Covered({s})) <= AtLeast0(PositionExcess(s))
            BY <2>1, <3>2, <3>3 DEF WithinPosition, AtLeast0
        <3>. QED BY <1>3, <3>4 DEF WithinPosition, Covered, AtLeast0
    <2>4. CASE b[1] = "sector" /\ b[2] = SectorOf[s]
        <3>1. Handled(SectorOf[s])' /\ SectorOf[s] \in Sectors
            BY <1>1, <1>3, <1>4, <2>4 DEF Handled
        <3>. QED BY <1>8, <3>1
    <2>5. \/ Covered({s}) \cap _holdings_for_breach(b) = {}
          \/ b[1] = "position" /\ b[2] = s
          \/ b[1] = "sector" /\ b[2] = SectorOf[s]
        BY <1>4 DEF Covered, OfSector
    <2>. QED BY <2>2, <2>3, <2>4, <2>5
<1>9. ASSUME NEW k \in Sectors, Handled(k)'
      PROVE  /\ \A s \in Symbols : <<"position", s>> \notin breaches'
             /\ \/ Total(planned', Covered(OfSector(k))) <= Positions(k)
                \/ Total(planned', Covered(OfSector(k))) <= SectorExcess(k)
    <2>1. CASE Handled(k)
        <3>1. /\ \A s \in Symbols : <<"position", s>> \notin breaches
              /\ \/ Total(planned, Covered(OfSector(k))) <= Positions(k)
                 \/ Total(planned, Covered(OfSector(k))) <= SectorExcess(k)
            BY <2>1 DEF TrimInv
        <3>2. b[1] = "sector" /\ b[2] # k /\ _holdings_for_breach(b) = Covered(OfSector(b[2]))
            BY <1>4, <2>1, <3>1 DEF Handled
        <3>3. Covered(OfSector(k)) \cap _holdings_for_breach(b) = {}
            BY <3>2 DEF Covered, OfSector
        <3>4. Total(planned', Covered(OfSector(k))) = Total(planned, Covered(OfSector(k)))
            BY <1>5, <3>3, SymbolSets
        <3>. QED BY <1>1, <3>1, <3>4
    <2>2. CASE ~Handled(k)
        <3>1. b = <<"sector", k>> /\ b[1] = "sector" /\ b[2] = k
            BY <1>1, <1>3, <1>9, <2>2 DEF Handled
        <3>2. \A s \in Symbols : <<"position", s>> \notin breaches
            BY <1>1, <3>1 DEF Foremost
        <3>3. _holdings_for_breach(b) = Covered(OfSector(k)) /\ excess_value(b) = SectorExcess(k)
            BY <1>4, <3>1
        <3>4. Total(planned, Covered(OfSector(k))) <= Positions(k)
            <4>1. \A s \in OfSector(k) : WithinPosition(s)
                BY <2>2 DEF TrimInv, OfSector
            <4>. QED BY <4>1, SectorWithin
        <3>. QED BY <1>1, <3>2, <3>3, <3>4
    <2>. QED BY <2>1, <2>2
<1>10. \A k : Positions(k)' = Positions(k)
    BY <1>1 DEF Positions, PositionExcess, total_value, invested_value, cash
<1>11. ShelterFirst'
    <2>. SUFFICES ASSUME NEW a \in Taxable, NEW c \in Accounts \ Taxable, NEW s \in Symbols,
                         planned'[<<a, s>>] > 0
                  PROVE  \/ view.value[<<c, s>>] - planned'[<<c, s>>] < PriceOf[s]
                         \/ view.value[<<c, s>>] - planned'[<<c, s>>] < min_position_notional
        BY <1>1 DEF ShelterFirst, Kept
    <2>1. PICK g \in Holdings : g = <<a, s>>
        BY RebalanceAssumption DEF Holdings
    <2>2. PICK h \in Holdings : h = <<c, s>>
        BY DEF Holdings
    <2>3. CASE planned'[g] > planned[g]
        <3>1. g \in _holdings_for_breach(b)
            BY <1>1, <1>2, <2>3
        <3>2. h \in _holdings_for_breach(b)
            BY <1>4, <2>1, <2>2, <3>1 DEF Covered
        <3>. QED BY <1>1, <2>1, <2>2, <2>3, <3>1, <3>2
    <2>4. CASE ~(planned'[g] > planned[g])
        <3>1. planned[g] > 0
            BY <1>1, <1>2, <2>1, <2>4
        <3>2. view.value[h] - planned[h] < PriceOf[s] \/ view.value[h] - planned[h] < min_position_notional
            BY <2>1, <2>2, <3>1 DEF TrimInv, ShelterFirst, Kept
        <3>3. view.value[h] - planned'[h] <= view.value[h] - planned[h]
            BY <1>1, <1>2
        <3>4. view.value[h] - planned'[h] \in Int /\ view.value[h] - planned[h] \in Int /\ PriceOf[s] \in Int
            BY <1>1, <1>2, RebalanceAssumption
        <3>. QED BY <2>2, <3>2, <3>3, <3>4, Limits
    <2>. QED BY <2>3, <2>4
<1>12. \A s \in Symbols : (SectorOf[s] \in Sectors => ~Handled(SectorOf[s])') => WithinPosition(s)'
    BY <1>8
<1>13. \A k \in Sectors : Handled(k)' =>
        /\ \A s \in Symbols : <<"position", s>> \notin breaches'
        /\ \/ Total(planned', Covered(OfSector(k))) <= Positions(k)'
           \/ Total(planned', Covered(OfSector(k))) <= SectorExcess(k)'
    BY <1>3, <1>9, <1>10
<1>. QED BY <1>7, <1>11, <1>12, <1>13 DEF TrimInv, Covered, OfSector

\* Nothing else touches the trims.
LEMMA TrimsKept ==
    ASSUME BaseInv, TrimInv, [PlanNext]_planVars, ~Trim
    PROVE  TrimInv' /\ UNCHANGED <<view, breaches, planned>>
<1>1. UNCHANGED <<view, breaches, planned>>
    <2>1. BeginBuys => UNCHANGED <<view, breaches, planned>>
        BY DEF BeginBuys
    <2>2. NextEntry => UNCHANGED <<view, breaches, planned>>
        BY DEF NextEntry
    <2>3. Pick \/ EndEntry \/ EndPlan => UNCHANGED <<view, breaches, planned>>
        BY DEF Pick, EndEntry, EndPlan
    <2>4. UNCHANGED planVars => UNCHANGED <<view, breaches, planned>>
        BY DEF planVars
    <2>. QED BY <2>1, <2>2, <2>3, <2>4 DEF PlanNext
<1>2. /\ \A s : PositionExcess(s)' = PositionExcess(s)
      /\ \A k : SectorExcess(k)' = SectorExcess(k)
      /\ \A c : excess_value(c)' = excess_value(c)
    BY <1>1, SameView
<1>3. /\ \A s : WithinPosition(s)' = WithinPosition(s)
      /\ \A k : Handled(k)' = Handled(k)
    BY <1>1, <1>2 DEF WithinPosition, Handled, Covered, AtLeast0
<1>4. \A k : Positions(k)' = Positions(k)
    BY <1>1 DEF Positions, PositionExcess, total_value, invested_value, cash
<1>5. \A k : Total(planned, Covered(OfSector(k)))' = Total(planned, Covered(OfSector(k)))
    BY <1>1
<1>6. ShelterFirst'
    BY <1>1 DEF TrimInv, ShelterFirst, Kept
<1>7. \A b \in breaches' : excess_value(b)' > 0
    BY <1>1, <1>2 DEF TrimInv
<1>8. \A s \in Symbols : (SectorOf[s] \in Sectors => ~Handled(SectorOf[s])') => WithinPosition(s)'
    BY <1>3 DEF TrimInv
<1>9. \A k \in Sectors : Handled(k)' =>
        /\ \A s \in Symbols : <<"position", s>> \notin breaches'
        /\ \/ Total(planned, Covered(OfSector(k)))' <= Positions(k)'
           \/ Total(planned, Covered(OfSector(k)))' <= SectorExcess(k)'
    BY <1>1, <1>2, <1>3, <1>4, <1>5 DEF TrimInv
<1>. QED BY <1>1, <1>6, <1>7, <1>8, <1>9 DEF TrimInv

\* Sums of nothing.
LEMMA TotalZero ==
    ASSUME NEW H \in SUBSET Holdings, NEW f, \A h \in H : f[h] = 0
    PROVE  Total(f, H) = 0
<1>1. IsFiniteSet(H)
    BY HoldingSets, FS_Subset
<1>2. {} \in SUBSET H /\ (\A h \in H : f[h] \in Int) /\ \A h \in H \ {} : f[h] = 0
    OBVIOUS
<1>3. Sum(f, H) = Sum(f, {})
    BY <1>1, <1>2, SumOfSome
<1>. QED BY <1>3, SumEmpty DEF Total, Sum

\* Nothing is sold before the first trim.
LEMMA TrimInit == PlanInit => TrimInv
<1>. SUFFICES ASSUME PlanInit PROVE TrimInv
    OBVIOUS
<1>1. breaches = {b \in Breaches : excess_value(b) > 0} /\ \A h \in Holdings : planned[h] = 0
    BY DEF PlanInit, concentration_breaches
<1>2. \A s \in Symbols : WithinPosition(s)
    <2>. SUFFICES ASSUME NEW s \in Symbols PROVE WithinPosition(s)
        OBVIOUS
    <2>1. Covered({s}) \in SUBSET Holdings
        BY HoldingSets
    <2>2. Total(planned, Covered({s})) = 0
        BY <1>1, <2>1, TotalZero
    <2>3. PositionExcess(s) \in Int
        BY ViewTypes DEF PlanInit
    <2>. QED BY <2>2, <2>3 DEF WithinPosition, AtLeast0
<1>3. \A k \in Sectors : ~Handled(k)
    BY <1>1 DEF Handled, Breaches, excess_value
<1>4. ShelterFirst
    BY <1>1, RebalanceAssumption DEF ShelterFirst, Holdings
<1>. QED BY <1>1, <1>2, <1>3, <1>4 DEF TrimInv

\* The trims cure what they are for.
LEMMA TrimInvSuffices ==
    ASSUME BaseInv, TrimInv
    PROVE  TrimsCure
<1>. USE DEF BaseInv
<1>1. ASSUME NEW s \in Symbols, SectorOf[s] = NoSector \/ SectorExcess(SectorOf[s]) <= 0
      PROVE  Total(planned, Covered({s})) <= AtLeast0(PositionExcess(s))
    <2>1. SectorExcess(SectorOf[s]) \in Int
        BY ViewTypes DEF PlanTypeOK
    <2>2. SectorOf[s] \in Sectors => ~Handled(SectorOf[s])
        BY <1>1, <2>1, RebalanceAssumption DEF Handled
    <2>. QED BY <2>2 DEF TrimInv, WithinPosition
<1>2. ASSUME NEW k \in Sectors
      PROVE  \/ Total(planned, Covered(OfSector(k))) <= Positions(k)
             \/ Total(planned, Covered(OfSector(k))) <= SectorExcess(k)
    <2>1. CASE Handled(k)
        BY <2>1 DEF TrimInv
    <2>2. CASE ~Handled(k)
        <3>1. \A s \in OfSector(k) : WithinPosition(s)
            BY <2>2 DEF TrimInv, OfSector
        <3>. QED BY <3>1, SectorWithin
    <2>. QED BY <2>1, <2>2
<1>3. TrimToLimit
    BY <1>1, <1>2 DEF TrimToLimit, Positions
<1>. QED BY <1>3 DEF TrimInv, TrimsCure

\* Every plan there is trims no more than cures its breaches, each share once
\* and the sheltered ones first: TrimsCure of Rebalance.
THEOREM TrimsAlwaysCure == PlanSpec => []TrimsCure
<1>1. PlanInit => BaseInv /\ TrimInv
    BY BaseInit, TrimInit
<1>2. BaseInv /\ TrimInv /\ [PlanNext]_planVars => (BaseInv /\ TrimInv)'
    BY BaseStep, TrimKeeps, TrimsKept
<1>3. BaseInv /\ TrimInv => TrimsCure
    BY TrimInvSuffices
<1>. QED BY <1>1, <1>2, <1>3, PTL DEF PlanSpec

\* The plan keeps its types: PlanTypeOK of Rebalance.
THEOREM PlanTypeCorrect == PlanSpec => []PlanTypeOK
<1>1. PlanInit => BaseInv
    BY BaseInit
<1>2. BaseInv /\ [PlanNext]_planVars => BaseInv'
    BY BaseStep
<1>3. BaseInv => PlanTypeOK
    BY DEF BaseInv
<1>. QED BY <1>1, <1>2, <1>3, PTL DEF PlanSpec

-----------------------------------------------------------------------------
(* Money comes from where it is.                                            *)

\* What an account pays for its purchases, with their costs.
Spent(a) == Total([s \in Symbols |-> gross_purchase_cost(bought[<<a, s>>])], Symbols)

\* Symbols that are still to be picked.
Waiting == {s \in Symbols : ClassOf[s] \in entries \/ \E i \in DOMAIN queue : queue[i] = s}

\* What holds of the picks: those that wait are of one class, which is in hand
\* no more, each once, and none of what waits is bought yet.
PickInv ==
    /\ \A i, j \in DOMAIN queue :
        ClassOf[queue[i]] = ClassOf[queue[j]] /\ (queue[i] = queue[j] => i = j)
    /\ \A i \in DOMAIN queue : ClassOf[queue[i]] \notin entries
    /\ \A a \in Accounts, s \in Waiting : bought[<<a, s>>] = 0

\* What holds of the money: what an account has left and has spent is what it
\* had, and together they have left the floor.
CashInv ==
    /\ floor >= 0
    /\ phase # "trim" => \A a \in Accounts : left[a] + Spent(a) <= Funds[a]
    /\ phase # "trim" /\ (\E a \in Accounts : Funds[a] >= floor) =>
        Total([a \in Accounts |-> left[a] + Spent(a)], Accounts) <= Total(Funds, Accounts) - floor

\* What purchases cost is a number.
LEMMA SpentTypes ==
    ASSUME PlanTypeOK
    PROVE  \A a \in Accounts : Spent(a) \in Nat
<1>. SUFFICES ASSUME NEW a \in Accounts PROVE Spent(a) \in Nat
    OBVIOUS
<1>. DEFINE f == [s \in Symbols |-> gross_purchase_cost(bought[<<a, s>>])]
<1>1. \A s \in Symbols : f[s] \in Nat
    <2>. SUFFICES ASSUME NEW s \in Symbols PROVE f[s] \in Nat
        OBVIOUS
    <2>1. bought[<<a, s>>] \in Nat
        BY DEF PlanTypeOK, Holdings
    <2>. QED BY <2>1, Costs
<1>2. IsFiniteSet(Symbols)
    BY RebalanceAssumption
<1>3. Sum(f, Symbols) \in Nat
    <2>. HIDE DEF f
    <2>. QED BY <1>1, <1>2, SumNat
<1>. QED BY <1>3 DEF Spent, Total, Sum

\* Before anything is bought nothing is spent.
LEMMA NothingSpent ==
    ASSUME bought = [h \in Holdings |-> 0]
    PROVE  \A a \in Accounts : Spent(a) = 0
<1>. SUFFICES ASSUME NEW a \in Accounts PROVE Spent(a) = 0
    OBVIOUS
<1>. DEFINE f == [s \in Symbols |-> gross_purchase_cost(bought[<<a, s>>])]
<1>1. \A s \in Symbols : f[s] = 0
    <2>1. \A s \in Symbols : bought[<<a, s>>] = 0
        BY DEF Holdings
    <2>. QED BY <2>1, Costs
<1>2. IsFiniteSet(Symbols) /\ {} \in SUBSET Symbols
    BY RebalanceAssumption
<1>3. Sum(f, Symbols) = Sum(f, {})
    <2>1. (\A s \in Symbols : f[s] \in Int) /\ \A s \in Symbols \ {} : f[s] = 0
        BY <1>1
    <2>. HIDE DEF f
    <2>. QED BY <1>2, <2>1, SumOfSome
<1>. QED BY <1>3, SumEmpty DEF Spent, Total, Sum

\* A first purchase of a symbol for an account costs it what it costs, and the
\* others nothing.
LEMMA SpentByPick ==
    ASSUME PlanTypeOK, NEW a \in Accounts, NEW s \in Symbols, NEW n \in Nat, bought[<<a, s>>] = 0,
           bought' = [bought EXCEPT ![<<a, s>>] = @ + n]
    PROVE  /\ Spent(a)' = Spent(a) + gross_purchase_cost(n)
           /\ \A c \in Accounts : c # a => Spent(c)' = Spent(c)
<1>. DEFINE f(c) == [t \in Symbols |-> gross_purchase_cost(bought[<<c, t>>])]
            g(c) == [t \in Symbols |-> gross_purchase_cost(bought'[<<c, t>>])]
<1>1. IsFiniteSet(Symbols)
    BY RebalanceAssumption
<1>2. bought \in [Holdings -> Nat]
    BY DEF PlanTypeOK
<1>3. \A c \in Accounts, t \in Symbols : bought'[<<c, t>>] \in Nat /\ bought[<<c, t>>] \in Nat
        /\ (<<c, t>> # <<a, s>> => bought'[<<c, t>>] = bought[<<c, t>>])
    BY <1>2 DEF Holdings
<1>4. bought'[<<a, s>>] = n
    <2>1. <<a, s>> \in Holdings
        BY DEF Holdings
    <2>2. bought'[<<a, s>>] = bought[<<a, s>>] + n
        BY <1>2, <2>1
    <2>. QED BY <2>2
<1>5. \A c \in Accounts, t \in Symbols : f(c)[t] \in Int /\ g(c)[t] \in Int
    <2>. SUFFICES ASSUME NEW c \in Accounts, NEW t \in Symbols PROVE f(c)[t] \in Int /\ g(c)[t] \in Int
        OBVIOUS
    <2>1. gross_purchase_cost(bought[<<c, t>>]) \in Nat /\ gross_purchase_cost(bought'[<<c, t>>]) \in Nat
        BY <1>3, Costs
    <2>. QED BY <2>1
<1>6. Sum(f(a), Symbols) = f(a)[s] + Sum(f(a), Symbols \ {s})
    <2>1. \A t \in Symbols : f(a)[t] \in Int
        BY <1>5
    <2>. HIDE DEF f
    <2>. QED BY <1>1, <2>1, SumTake
<1>7. Sum(g(a), Symbols) = g(a)[s] + Sum(g(a), Symbols \ {s})
    <2>1. \A t \in Symbols : g(a)[t] \in Int
        BY <1>5
    <2>. HIDE DEF g
    <2>. QED BY <1>1, <2>1, SumTake
<1>8. Sum(f(a), Symbols \ {s}) = Sum(g(a), Symbols \ {s}) /\ Sum(f(a), Symbols \ {s}) \in Int
    <2>1. IsFiniteSet(Symbols \ {s})
        BY <1>1, FS_Subset
    <2>2. \A t \in Symbols \ {s} : f(a)[t] \in Int /\ f(a)[t] = g(a)[t]
        BY <1>3, <1>5
    <2>. HIDE DEF f, g
    <2>. QED BY <2>1, <2>2, SumSame, SumInt
<1>9. f(a)[s] = 0 /\ g(a)[s] = gross_purchase_cost(n)
    BY <1>4, Costs
<1>10. Sum(g(a), Symbols) = Sum(f(a), Symbols) + gross_purchase_cost(n)
    <2>1. gross_purchase_cost(n) \in Nat
        BY Costs
    <2>. HIDE DEF f, g
    <2>. QED BY <1>6, <1>7, <1>8, <1>9, <2>1
<1>11. ASSUME NEW c \in Accounts, c # a
       PROVE  Sum(g(c), Symbols) = Sum(f(c), Symbols)
    <2>1. \A t \in Symbols : f(c)[t] \in Int /\ f(c)[t] = g(c)[t]
        BY <1>3, <1>5, <1>11
    <2>. HIDE DEF f, g
    <2>. QED BY <1>1, <2>1, SumSame
<1>12. \A c : Spent(c) = Sum(f(c), Symbols) /\ Spent(c)' = Sum(g(c), Symbols)
    BY DEF Spent, Total, Sum, gross_purchase_cost, estimate_trading_cost
<1>. QED BY <1>10, <1>11, <1>12

\* Once the purchases have started the picks stay as they are said to be.
LEMMA PickInvKept ==
    ASSUME BaseInv, PickInv, [PlanNext]_planVars
    PROVE  PickInv'
<1>. USE DEF BaseInv
<1>1. CASE Trim
    <2>1. UNCHANGED <<entries, queue, bought>>
        BY <1>1 DEF Trim
    <2>. QED BY <2>1 DEF PickInv, Waiting
<1>2. CASE BeginBuys
    <2>1. queue' = <<>> /\ bought' = [h \in Holdings |-> 0]
        BY <1>2 DEF BeginBuys, Stages
    <2>. QED BY <2>1 DEF PickInv, Waiting, Holdings
<1>3. CASE NextEntry
    <2>1. PICK class \in entries :
            /\ phase = "entries" /\ entries' = entries \ {class}
            /\ UNCHANGED <<view, breaches, planned, deferred, bought, left, remaining, count>>
            /\ \/ UNCHANGED <<phase, queue, per_pick>>
               \/ \E n \in 1..Len(Candidates[class]) :
                    phase' = "picks" /\ queue' = SubSeq(Candidates[class], 1, n)
        BY <1>3, EntryEffect
    <2>2. CASE UNCHANGED <<phase, queue, per_pick>>
        BY <2>1, <2>2 DEF PickInv, Waiting
    <2>3. ASSUME NEW n \in 1..Len(Candidates[class]), queue' = SubSeq(Candidates[class], 1, n)
          PROVE  PickInv'
        <3>1. Candidates[class] \in Seq(Symbols) /\ class \in Sleeves
            BY RebalanceAssumption DEF PlanTypeOK
        <3>2. \A i, j \in DOMAIN Candidates[class] :
                ClassOf[Candidates[class][i]] = class /\ (Candidates[class][i] = Candidates[class][j] => i = j)
            BY <3>1, RebalanceAssumption
        <3>3. /\ DOMAIN queue' = 1..n /\ 1..n \subseteq DOMAIN Candidates[class]
              /\ \A i \in 1..n : queue'[i] = Candidates[class][i]
            BY <2>3, <3>1
        <3>4. \A s \in Waiting' : s \in Symbols /\ ClassOf[s] \in entries
            BY <2>1, <3>2, <3>3 DEF Waiting
        <3>5. \A s \in Waiting' : s \in Waiting
            BY <3>4 DEF Waiting
        <3>. QED BY <2>1, <3>2, <3>3, <3>5 DEF PickInv
    <2>. QED BY <2>1, <2>2, <2>3
<1>4. CASE Pick
    <2>. DEFINE s == Head(queue)
    <2>1. /\ queue # <<>> /\ s \in Symbols /\ queue' = Tail(queue)
          /\ UNCHANGED entries
          /\ \/ UNCHANGED bought
             \/ \E a \in Accounts, n \in Nat \ {0} : bought' = [bought EXCEPT ![<<a, s>>] = @ + n]
        BY <1>4, PickEffect
    <2>2. queue \in Seq(Symbols)
        BY DEF PlanTypeOK
    <2>3. /\ DOMAIN queue' = 1..(Len(queue) - 1) /\ DOMAIN queue = 1..Len(queue)
          /\ \A i \in DOMAIN queue' : i + 1 \in DOMAIN queue /\ queue'[i] = queue[i + 1]
          /\ Len(queue) \in Nat \ {0} /\ s = queue[1]
        BY <2>1, <2>2
    <2>4. \A t \in Waiting' : t \in Waiting /\ t # s
        <3>. SUFFICES ASSUME NEW t \in Waiting' PROVE t \in Waiting /\ t # s
            OBVIOUS
        <3>1. CASE ClassOf[t] \in entries'
            BY <2>1, <2>3, <3>1 DEF PickInv, Waiting
        <3>2. ASSUME NEW i \in DOMAIN queue', queue'[i] = t
              PROVE  t \in Waiting /\ t # s
            <4>1. queue[i + 1] = t /\ i + 1 \in DOMAIN queue /\ 1 \in DOMAIN queue /\ i + 1 # 1
                BY <2>3, <3>2
            <4>. QED BY <2>3, <4>1 DEF PickInv, Waiting
        <3>. QED BY <3>1, <3>2 DEF Waiting
    <2>5. ASSUME NEW c \in Accounts, NEW t \in Waiting' PROVE bought'[<<c, t>>] = 0
        <3>1. bought[<<c, t>>] = 0 /\ t # s /\ t \in Symbols
            BY <2>4 DEF PickInv, Waiting
        <3>2. bought \in [Holdings -> Nat] /\ <<c, t>> \in Holdings
            BY <3>1 DEF PlanTypeOK, Holdings
        <3>. HIDE DEF s
        <3>. QED BY <2>1, <3>1, <3>2
    <2>6. \A i, j \in DOMAIN queue' :
            ClassOf[queue'[i]] = ClassOf[queue'[j]] /\ (queue'[i] = queue'[j] => i = j)
        <3>. SUFFICES ASSUME NEW i \in DOMAIN queue', NEW j \in DOMAIN queue'
                      PROVE  ClassOf[queue'[i]] = ClassOf[queue'[j]] /\ (queue'[i] = queue'[j] => i = j)
            OBVIOUS
        <3>1. i + 1 \in DOMAIN queue /\ j + 1 \in DOMAIN queue /\ queue'[i] = queue[i + 1] /\ queue'[j] = queue[j + 1]
            BY <2>3
        <3>2. i \in Int /\ j \in Int
            BY <2>3
        <3>3. ClassOf[queue[i + 1]] = ClassOf[queue[j + 1]] /\ (queue[i + 1] = queue[j + 1] => i + 1 = j + 1)
            BY <3>1 DEF PickInv
        <3>. QED BY <3>1, <3>2, <3>3
    <2>7. \A i \in DOMAIN queue' : ClassOf[queue'[i]] \notin entries'
        BY <2>1, <2>3 DEF PickInv
    <2>. QED BY <2>5, <2>6, <2>7 DEF PickInv
<1>5. CASE EndEntry \/ EndPlan \/ UNCHANGED planVars
    <2>1. UNCHANGED <<entries, queue, bought>>
        BY <1>5 DEF EndEntry, EndPlan, planVars
    <2>. QED BY <2>1 DEF PickInv, Waiting
<1>. QED BY <1>1, <1>2, <1>3, <1>4, <1>5 DEF PlanNext

\* What each account had to spend: what it has left and what it spent.
Purses == [a \in Accounts |-> left[a] + Spent(a)]

\* The floor comes out of one account, and nothing of it is spent before.
LEMMA CashAtStart ==
    ASSUME BaseInv, CashInv, BeginBuys
    PROVE  CashInv'
<1>. USE DEF BaseInv
<1>1. PICK largest \in Accounts :
        (\A a \in Accounts : Funds[a] <= Funds[largest]) /\ left' = Deployable(largest)
    BY BeginEffect
<1>2. /\ phase = "trim" /\ UNCHANGED <<view, planned, bought>>
      /\ bought = [h \in Holdings |-> 0]
    BY BeginEffect DEF Stages
<1>3. floor \in Int /\ floor >= 0 /\ floor' = floor /\ Funds' = Funds /\ Funds \in [Accounts -> Nat]
    BY <1>2, SameView, SameTrims, FundsTypes, ViewTypes DEF CashInv, PlanTypeOK
<1>4. \A a \in Accounts : Spent(a)' = 0
    <2>1. \A a \in Accounts : Spent(a)' = Spent(a)
        BY <1>2 DEF Spent, gross_purchase_cost, estimate_trading_cost
    <2>. QED BY <1>2, <2>1, NothingSpent
<1>5. \A a \in Accounts :
        /\ left'[a] \in Int /\ (a # largest => left'[a] = Funds[a])
        /\ left'[a] <= Funds[a]
        /\ a = largest => left'[a] = AtLeast0(Funds[a] - floor)
    BY <1>1, <1>3 DEF Deployable, AtLeast0
<1>6. \A a \in Accounts : left'[a] + Spent(a)' <= Funds'[a]
    BY <1>3, <1>4, <1>5
<1>7. Purses' = left'
    <2>1. \A a \in Accounts : left'[a] + Spent(a)' = left'[a]
        BY <1>4, <1>5
    <2>2. left' = [a \in Accounts |-> left'[a]]
        BY <1>1, <1>3 DEF Deployable
    <2>. QED BY <2>1, <2>2 DEF Purses
<1>8. ASSUME \E a \in Accounts : Funds[a] >= floor
      PROVE  Sum(left', Accounts) = Sum(Funds, Accounts) - floor
    <2>1. IsFiniteSet(Accounts) /\ IsFiniteSet(Accounts \ {largest})
        BY RebalanceAssumption, FS_Subset
    <2>2. left'[largest] = Funds[largest] - floor
        BY <1>1, <1>3, <1>5, <1>8 DEF AtLeast0
    <2>3. Sum(left', Accounts) = left'[largest] + Sum(left', Accounts \ {largest})
        BY <1>5, <2>1, SumTake
    <2>4. Sum(Funds, Accounts) = Funds[largest] + Sum(Funds, Accounts \ {largest})
        <3>1. \A a \in Accounts : Funds[a] \in Int
            BY <1>3
        <3>. QED BY <2>1, <3>1, SumTake
    <2>5. Sum(left', Accounts \ {largest}) = Sum(Funds, Accounts \ {largest})
          /\ Sum(left', Accounts \ {largest}) \in Int
        <3>1. \A a \in Accounts \ {largest} : left'[a] \in Int /\ left'[a] = Funds[a]
            BY <1>5
        <3>. QED BY <2>1, <3>1, SumSame, SumInt
    <2>. QED BY <1>3, <2>2, <2>3, <2>4, <2>5
<1>9. phase' # "trim" /\ (\E a \in Accounts : Funds'[a] >= floor') =>
        Total(Purses, Accounts)' <= Total(Funds, Accounts)' - floor'
    <2>. SUFFICES ASSUME \E a \in Accounts : Funds[a] >= floor
                  PROVE  Total(Purses', Accounts) <= Total(Funds, Accounts) - floor
        BY <1>3
    <2>1. Total(Purses', Accounts) = Total(Funds, Accounts) - floor
        BY <1>7, <1>8 DEF Total, Sum
    <2>2. Sum(Funds, Accounts) \in Int
        BY <1>3, SumInt, RebalanceAssumption
    <2>3. Total(Funds, Accounts) \in Int
        BY <2>2 DEF Total, Sum
    <2>. QED BY <1>3, <2>1, <2>3
<1>. QED BY <1>3, <1>6, <1>9 DEF CashInv, Purses

\* A pick moves what it costs from what is left to what is spent.
LEMMA PursesKept ==
    ASSUME BaseInv, PickInv, Pick
    PROVE  Purses' = Purses
<1>. USE DEF BaseInv
<1>. DEFINE s == Head(queue)
<1>1. /\ queue # <<>> /\ s \in Symbols
      /\ \/ UNCHANGED <<bought, left, remaining, count>>
         \/ \E a \in Accounts, n \in Nat \ {0} :
              /\ gross_purchase_cost(n) <= left[a]
              /\ bought' = [bought EXCEPT ![<<a, s>>] = @ + n]
              /\ left' = [left EXCEPT ![a] = @ - gross_purchase_cost(n)]
    BY PickEffect
<1>2. s \in Waiting
    <2>1. queue \in Seq(Symbols)
        BY DEF PlanTypeOK
    <2>2. 1 \in DOMAIN queue /\ queue[1] = s
        BY <1>1, <2>1
    <2>. QED BY <1>1, <2>2 DEF Waiting
<1>. HIDE DEF s
<1>3. CASE UNCHANGED <<bought, left, remaining, count>>
    BY <1>3 DEF Purses, Spent, gross_purchase_cost, estimate_trading_cost
<1>4. ASSUME NEW a \in Accounts, NEW n \in Nat \ {0},
             bought' = [bought EXCEPT ![<<a, s>>] = @ + n],
             left' = [left EXCEPT ![a] = @ - gross_purchase_cost(n)]
      PROVE  Purses' = Purses
    <2>1. bought[<<a, s>>] = 0
        BY <1>2 DEF PickInv
    <2>2. /\ Spent(a)' = Spent(a) + gross_purchase_cost(n)
          /\ \A c \in Accounts : c # a => Spent(c)' = Spent(c)
        BY <1>1, <1>4, <2>1, SpentByPick
    <2>3. left \in [Accounts -> Nat]
        BY DEF PlanTypeOK
    <2>4. gross_purchase_cost(n) \in Nat /\ \A c \in Accounts : Spent(c) \in Nat
        BY Costs, SpentTypes
    <2>5. \A c \in Accounts : left'[c] + Spent(c)' = left[c] + Spent(c)
        <3>. SUFFICES ASSUME NEW c \in Accounts PROVE left'[c] + Spent(c)' = left[c] + Spent(c)
            OBVIOUS
        <3>1. CASE c = a
            <4>1. left'[a] = left[a] - gross_purchase_cost(n)
                BY <1>4, <2>3
            <4>. QED BY <2>2, <2>3, <2>4, <3>1, <4>1
        <3>2. CASE c # a
            <4>1. left'[c] = left[c]
                BY <1>4, <2>3, <3>2
            <4>. QED BY <2>2, <3>2, <4>1
        <3>. QED BY <3>1, <3>2
    <2>. QED BY <2>5 DEF Purses
<1>. QED BY <1>1, <1>3, <1>4

\* Every step keeps what holds of the money.
LEMMA CashInvKept ==
    ASSUME BaseInv, PickInv, CashInv, [PlanNext]_planVars
    PROVE  CashInv'
<1>. USE DEF BaseInv
<1>1. CASE Trim
    <2>1. phase' = "trim" /\ UNCHANGED view
        BY <1>1 DEF Trim
    <2>. QED BY <2>1, SameView DEF CashInv
<1>2. CASE BeginBuys
    BY <1>2, CashAtStart
<1>3. CASE ~Trim /\ ~BeginBuys
    <2>1. UNCHANGED <<view, planned>> /\ (phase = "trim" => phase' = "trim")
        <3>1. NextEntry => UNCHANGED <<view, planned>> /\ phase = "entries"
            BY DEF NextEntry
        <3>2. Pick \/ EndEntry \/ EndPlan => UNCHANGED <<view, planned>> /\ phase # "trim"
            BY DEF Pick, EndEntry, EndPlan
        <3>3. UNCHANGED planVars => UNCHANGED <<view, planned, phase>>
            BY DEF planVars
        <3>. QED BY <1>3, <3>1, <3>2, <3>3 DEF PlanNext
    <2>2. Purses' = Purses
        <3>1. CASE Pick
            BY <3>1, PursesKept
        <3>2. CASE ~Pick
            <4>1. UNCHANGED <<left, bought>>
                <5>1. NextEntry => UNCHANGED <<left, bought>>
                    BY DEF NextEntry
                <5>2. EndEntry \/ EndPlan \/ UNCHANGED planVars => UNCHANGED <<left, bought>>
                    BY DEF EndEntry, EndPlan, planVars
                <5>. QED BY <1>3, <3>2, <5>1, <5>2 DEF PlanNext
            <4>. QED BY <4>1 DEF Purses, Spent, gross_purchase_cost, estimate_trading_cost
        <3>. QED BY <3>1, <3>2
    <2>3. floor' = floor /\ Funds' = Funds
        BY <2>1, SameView, SameTrims
    <2>4. (\A a \in Accounts : left[a] + Spent(a) <= Funds[a]) => \A a \in Accounts : left'[a] + Spent(a)' <= Funds[a]
        <3>1. \A a \in Accounts : left'[a] + Spent(a)' = left[a] + Spent(a)
            <4>1. \A a \in Accounts : Purses'[a] = Purses[a]
                BY <2>2
            <4>. QED BY <4>1 DEF Purses
        <3>. QED BY <3>1
    <2>5. Total(Purses, Accounts)' = Total(Purses, Accounts) /\ Total(Funds, Accounts)' = Total(Funds, Accounts)
        BY <2>2, <2>3
    <2>. QED BY <2>1, <2>3, <2>4, <2>5 DEF CashInv, Purses
<1>. QED BY <1>1, <1>2, <1>3

\* Nothing is spent before the first pick.
LEMMA MoneyInit == PlanInit => PickInv /\ CashInv
<1>. SUFFICES ASSUME PlanInit PROVE PickInv /\ CashInv
    OBVIOUS
<1>1. PickInv
    BY DEF PlanInit, PickInv, Waiting, Holdings
<1>2. floor >= 0
    <2>1. total_value \in Nat
        BY ViewTypes DEF PlanInit
    <2>2. min_cash_pct * total_value \in Nat
        BY <2>1, Limits
    <2>. QED BY <2>2 DEF floor
<1>3. phase = "trim"
    BY DEF PlanInit
<1>. QED BY <1>1, <1>2, <1>3 DEF CashInv

\* What is summed over the holdings is summed account by account.
LEMMA ByAccount ==
    ASSUME NEW f, \A h \in Holdings : f[h] \in Int,
           NEW g, \A a \in Accounts : g[a] = Total([s \in Symbols |-> f[<<a, s>>]], Symbols)
    PROVE  Total(f, Holdings) = Total(g, Accounts)
<1>. DEFINE part == [a \in Accounts |-> {a} \X Symbols]
<1>1. IsFiniteSet(Accounts) /\ IsFiniteSet(Symbols) /\ IsFiniteSet(Holdings)
    <2>1. Symbols \in SUBSET Symbols
        OBVIOUS
    <2>. QED BY <2>1, HoldingSets, RebalanceAssumption
<1>2. \A a \in Accounts : part[a] \in SUBSET Holdings
    BY DEF Holdings
<1>3. \A a, c \in Accounts : a # c => part[a] \cap part[c] = {}
    OBVIOUS
<1>4. UNION {part[a] : a \in Accounts} = Holdings
    BY DEF Holdings
<1>5. ASSUME NEW a \in Accounts PROVE g[a] = Sum(f, part[a])
    <2>. DEFINE name == [s \in Symbols |-> <<a, s>>]
                h == [s \in Symbols |-> f[<<a, s>>]]
    <2>1. \A s \in Symbols : h[s] \in Int /\ f[name[s]] = h[s]
        BY DEF Holdings
    <2>2. \A s \in Symbols : \A t \in Symbols : name[s] = name[t] => s = t
        OBVIOUS
    <2>3. {name[s] : s \in Symbols} = part[a]
        OBVIOUS
    <2>4. Sum(h, Symbols) = Sum(f, {name[s] : s \in Symbols})
        <3>. HIDE DEF name, h
        <3>. QED BY <1>1, <2>1, <2>2, SumOfNamed
    <2>5. g[a] = Sum(h, Symbols)
        BY DEF Total, Sum
    <2>. QED BY <2>3, <2>4, <2>5
<1>6. Sum(f, UNION {part[a] : a \in Accounts}) = Sum(g, Accounts)
    <2>. HIDE DEF part
    <2>. QED BY <1>1, <1>2, <1>3, <1>5, SumOfParts
<1>. QED BY <1>4, <1>6 DEF Total, Sum

\* What the sales bring and what the purchases cost, over all accounts.
Proceeds(a) == Total([s \in Symbols |-> net_sale_proceeds(planned[<<a, s>>])], Symbols)

\* What the accounts may not spend together holds the floor.
LEMMA FloorHeld ==
    ASSUME BaseInv, CashInv
    PROVE  CoveredFloorKept
<1>. USE DEF BaseInv
<1>. SUFFICES ASSUME phase # "trim", \E a \in Accounts : Funds[a] >= floor,
                     \A a \in Accounts : view.cash[a] >= 0
              PROVE  CashAfter >= floor
    BY DEF CoveredFloorKept
<1>. DEFINE in == [h \in Holdings |-> net_sale_proceeds(planned[h])]
            out == [h \in Holdings |-> gross_purchase_cost(bought[h])]
            net == [h \in Holdings |-> net_sale_proceeds(planned[h]) - gross_purchase_cost(bought[h])]
            proceeds == [a \in Accounts |-> Proceeds(a)]
            spent == [a \in Accounts |-> Spent(a)]
            free == [a \in Accounts |-> available_cash(a)]
<1>1. IsFiniteSet(Accounts) /\ IsFiniteSet(Holdings) /\ Holdings \in SUBSET Holdings
    <2>1. Symbols \in SUBSET Symbols
        OBVIOUS
    <2>. QED BY <2>1, HoldingSets, RebalanceAssumption
<1>2. \A h \in Holdings : in[h] \in Int /\ out[h] \in Int /\ net[h] \in Int /\ in[h] = net[h] + out[h]
    <2>. SUFFICES ASSUME NEW h \in Holdings
                  PROVE  in[h] \in Int /\ out[h] \in Int /\ net[h] \in Int /\ in[h] = net[h] + out[h]
        OBVIOUS
    <2>1. planned[h] \in Nat /\ bought[h] \in Nat
        BY DEF PlanTypeOK
    <2>2. net_sale_proceeds(planned[h]) \in Nat /\ gross_purchase_cost(bought[h]) \in Nat
        BY <2>1, Costs
    <2>. QED BY <2>2
<1>3. Total(in, Holdings) = Total(net, Holdings) + Total(out, Holdings)
    <2>1. Sum(in, Holdings) = Sum(net, Holdings) + Sum(out, Holdings)
        <3>. HIDE DEF in, out, net
        <3>. QED BY <1>1, <1>2, SumPlus
    <2>. QED BY <2>1 DEF Total, Sum
<1>4. Total(in, Holdings) = Total(proceeds, Accounts)
    <2>1. \A a \in Accounts : proceeds[a] = Total([s \in Symbols |-> in[<<a, s>>]], Symbols)
        <3>. SUFFICES ASSUME NEW a \in Accounts
                      PROVE  proceeds[a] = Total([s \in Symbols |-> in[<<a, s>>]], Symbols)
            OBVIOUS
        <3>1. \A s \in Symbols : in[<<a, s>>] = net_sale_proceeds(planned[<<a, s>>])
            BY DEF Holdings
        <3>2. [s \in Symbols |-> in[<<a, s>>]] = [s \in Symbols |-> net_sale_proceeds(planned[<<a, s>>])]
            BY <3>1
        <3>. QED BY <3>2 DEF Proceeds
    <2>. HIDE DEF in, proceeds
    <2>. QED BY <1>2, <2>1, ByAccount
<1>5. Total(out, Holdings) = Total(spent, Accounts)
    <2>1. \A a \in Accounts : spent[a] = Total([s \in Symbols |-> out[<<a, s>>]], Symbols)
        <3>. SUFFICES ASSUME NEW a \in Accounts
                      PROVE  spent[a] = Total([s \in Symbols |-> out[<<a, s>>]], Symbols)
            OBVIOUS
        <3>1. \A s \in Symbols : out[<<a, s>>] = gross_purchase_cost(bought[<<a, s>>])
            BY DEF Holdings
        <3>2. [s \in Symbols |-> out[<<a, s>>]] = [s \in Symbols |-> gross_purchase_cost(bought[<<a, s>>])]
            BY <3>1
        <3>. QED BY <3>2 DEF Spent
    <2>. HIDE DEF out, spent
    <2>. QED BY <1>2, <2>1, ByAccount
<1>6. \A a \in Accounts : /\ proceeds[a] \in Nat /\ spent[a] \in Nat /\ free[a] \in Nat
                          /\ Funds[a] = free[a] + proceeds[a] /\ Funds[a] \in Nat
                          /\ view.cash[a] \in Int /\ free[a] <= view.cash[a]
                          /\ Purses[a] \in Int /\ spent[a] <= Purses[a]
    <2>. SUFFICES ASSUME NEW a \in Accounts
                  PROVE  /\ proceeds[a] \in Nat /\ spent[a] \in Nat /\ free[a] \in Nat
                         /\ Funds[a] = free[a] + proceeds[a] /\ Funds[a] \in Nat
                         /\ view.cash[a] \in Int /\ free[a] <= view.cash[a]
                         /\ Purses[a] \in Int /\ spent[a] <= Purses[a]
        OBVIOUS
    <2>1. view.cash[a] \in Int /\ view.hold[a] \in Nat /\ view.cash[a] >= 0 /\ left[a] \in Nat
        BY ViewTypes DEF PlanTypeOK
    <2>2. available_cash(a) \in Nat /\ available_cash(a) <= view.cash[a]
        BY <2>1 DEF available_cash, AtLeast0
    <2>3. Funds[a] = available_cash(a) + Proceeds(a) /\ Funds[a] \in Nat
        BY FundsTypes DEF Funds, Proceeds
    <2>4. Proceeds(a) \in Nat
        <3>. DEFINE f == [s \in Symbols |-> net_sale_proceeds(planned[<<a, s>>])]
        <3>1. \A s \in Symbols : f[s] \in Nat
            <4>. SUFFICES ASSUME NEW s \in Symbols PROVE f[s] \in Nat
                OBVIOUS
            <4>1. planned[<<a, s>>] \in Nat
                BY DEF PlanTypeOK, Holdings
            <4>. QED BY <4>1, Costs
        <3>2. Sum(f, Symbols) \in Nat
            <4>1. IsFiniteSet(Symbols)
                BY RebalanceAssumption
            <4>. HIDE DEF f
            <4>. QED BY <3>1, <4>1, SumNat
        <3>. QED BY <3>2 DEF Proceeds, Total, Sum
    <2>5. Spent(a) \in Nat
        BY SpentTypes
    <2>. QED BY <2>1, <2>2, <2>3, <2>4, <2>5 DEF Purses
<1>7. Total(Funds, Accounts) = Total(free, Accounts) + Total(proceeds, Accounts)
    <2>1. \A a \in Accounts : free[a] \in Int /\ proceeds[a] \in Int /\ Funds[a] = free[a] + proceeds[a]
        BY <1>6
    <2>2. Sum(Funds, Accounts) = Sum(free, Accounts) + Sum(proceeds, Accounts)
        <3>. HIDE DEF free, proceeds
        <3>. QED BY <1>1, <2>1, SumPlus
    <2>. QED BY <2>2 DEF Total, Sum
<1>8. Total(free, Accounts) <= cash
    <2>1. \A a \in Accounts : free[a] \in Int /\ view.cash[a] \in Int /\ free[a] <= view.cash[a]
        BY <1>6
    <2>2. Sum(free, Accounts) <= Sum(view.cash, Accounts)
        <3>. HIDE DEF free
        <3>. QED BY <1>1, <2>1, SumAtMost
    <2>. QED BY <2>2 DEF cash, Total, Sum
<1>9. Total(spent, Accounts) <= Total(Purses, Accounts)
    <2>1. \A a \in Accounts : spent[a] \in Int /\ Purses[a] \in Int /\ spent[a] <= Purses[a]
        BY <1>6
    <2>2. Sum(spent, Accounts) <= Sum(Purses, Accounts)
        <3>. HIDE DEF spent
        <3>. QED BY <1>1, <2>1, SumAtMost
    <2>. QED BY <2>2 DEF Total, Sum
<1>10. Total(Purses, Accounts) <= Total(Funds, Accounts) - floor
    BY DEF CashInv, Purses
<1>11. CashAfter = cash + Total(net, Holdings)
    BY DEF CashAfter
<1>12. /\ Total(in, Holdings) \in Int /\ Total(out, Holdings) \in Int /\ Total(net, Holdings) \in Int
       /\ Total(free, Accounts) \in Int /\ Total(Purses, Accounts) \in Int /\ Total(Funds, Accounts) \in Int
       /\ cash \in Int /\ floor \in Int
    <2>1. Total(in, Holdings) \in Int /\ Total(out, Holdings) \in Int /\ Total(net, Holdings) \in Int
        <3>1. \A h \in Holdings : in[h] \in Int /\ out[h] \in Int /\ net[h] \in Int
            BY <1>2
        <3>. HIDE DEF in, out, net
        <3>. QED BY <1>1, <3>1, TotalType
    <2>2. Sum(free, Accounts) \in Int /\ Sum(Purses, Accounts) \in Int /\ Sum(Funds, Accounts) \in Int
        <3>1. \A a \in Accounts : free[a] \in Int /\ Purses[a] \in Int /\ Funds[a] \in Int
            BY <1>6
        <3>. HIDE DEF free
        <3>. QED BY <1>1, <3>1, SumInt
    <2>. QED BY <2>1, <2>2, ViewTypes DEF Total, Sum, PlanTypeOK
<1>. HIDE DEF in, out, net, proceeds, spent, free
<1>. QED BY <1>3, <1>4, <1>5, <1>7, <1>8, <1>9, <1>10, <1>11, <1>12

\* Each account spends of its own.
LEMMA FundsHeld ==
    ASSUME BaseInv, CashInv
    PROVE  SelfFunded
<1>. USE DEF BaseInv
<1>. SUFFICES ASSUME NEW a \in Accounts PROVE Spent(a) <= Funds[a]
    BY DEF SelfFunded, Spent
<1>1. Spent(a) \in Nat /\ Funds[a] \in Nat /\ left[a] \in Nat
    BY SpentTypes, FundsTypes DEF PlanTypeOK
<1>2. CASE phase = "trim"
    <2>1. Spent(a) = 0
        BY <1>2, NothingSpent DEF Stages
    <2>. QED BY <1>1, <2>1
<1>3. CASE phase # "trim"
    BY <1>1, <1>3 DEF CashInv
<1>. QED BY <1>2, <1>3

\* In every plan the purchases of an account, with their costs, are within its
\* own cash and the proceeds of its own sales, and the floor of the policy is
\* left wherever one account could hold it: CashKept of Rebalance.
THEOREM CashIsAlwaysKept == PlanSpec => []CashKept
<1>1. PlanInit => BaseInv /\ PickInv /\ CashInv
    BY BaseInit, MoneyInit
<1>2. BaseInv /\ PickInv /\ CashInv /\ [PlanNext]_planVars => (BaseInv /\ PickInv /\ CashInv)'
    BY BaseStep, PickInvKept, CashInvKept
<1>3. BaseInv /\ PickInv /\ CashInv => CashKept
    BY FloorHeld, FundsHeld DEF CashKept
<1>. QED BY <1>1, <1>2, <1>3, PTL DEF PlanSpec

-----------------------------------------------------------------------------
(* Purchases stay within every limit.                                       *)

\* What is still to be bought of a class that is in hand.
InHand(c) == IF queue # <<>> /\ ClassOf[Head(queue)] = c THEN Len(queue) * per_pick ELSE 0

\* With what its waiting picks may still take, a class is bought up to its gap.
GapInv == \A c \in Classes : Total(bought, Covered(OfClass(c))) + InHand(c) <= AtLeast0(Gap(c))

\* One amount has grown, and no other has changed.
Grown(g, f, h, n) == g[h] = f[h] + n /\ \A x \in Holdings : x # h => g[x] = f[x]

\* A sum of which one term grows.
LEMMA TotalGrows ==
    ASSUME NEW H \in SUBSET Holdings, NEW f \in [Holdings -> Nat], NEW h \in Holdings, NEW n \in Nat,
           NEW g, Grown(g, f, h, n)
    PROVE  Total(g, H) = Total(f, H) + IF h \in H THEN n ELSE 0
<1>. DEFINE d == [x \in Holdings |-> IF x = h THEN n ELSE 0]
<1>1. IsFiniteSet(H)
    BY HoldingSets, FS_Subset
<1>2. \A x \in H : f[x] \in Int /\ d[x] \in Int /\ g[x] = f[x] + d[x]
    BY DEF Grown
<1>3. Sum(g, H) = Sum(f, H) + Sum(d, H)
    <2>. HIDE DEF d
    <2>. QED BY <1>1, <1>2, SumPlus
<1>4. Sum(d, H) = IF h \in H THEN n ELSE 0
    <2>1. CASE h \in H
        <3>1. Sum(d, H) = d[h] + Sum(d, H \ {h})
            <4>. HIDE DEF d
            <4>. QED BY <1>1, <1>2, <2>1, SumTake
        <3>2. Sum(d, H \ {h}) = 0
            <4>1. H \ {h} \in SUBSET Holdings /\ \A x \in H \ {h} : d[x] = 0
                OBVIOUS
            <4>2. Total(d, H \ {h}) = 0
                <5>. HIDE DEF d
                <5>. QED BY <4>1, TotalZero
            <4>. QED BY <4>2 DEF Total, Sum
        <3>. QED BY <2>1, <3>1, <3>2
    <2>2. CASE h \notin H
        <3>1. \A x \in H : d[x] = 0
            BY <2>2
        <3>2. Total(d, H) = 0
            <4>. HIDE DEF d
            <4>. QED BY <3>1, TotalZero
        <3>. QED BY <2>2, <3>2 DEF Total, Sum
    <2>. QED BY <2>1, <2>2
<1>. QED BY <1>3, <1>4 DEF Total, Sum

\* What is bought once an account buys more of a symbol.
More(a, x, n) == [bought EXCEPT ![<<a, x>>] = @ + n]

\* What is bought is added to every sum of holdings it belongs to.
LEMMA Buying ==
    ASSUME PlanTypeOK, NEW a \in Accounts, NEW x \in Symbols, NEW n \in Nat, bought' = More(a, x, n)
    PROVE  /\ \A S \in SUBSET Symbols :
                Total(bought', Covered(S)) = Total(bought, Covered(S)) + IF x \in S THEN n ELSE 0
           /\ Total(bought', Holdings) = Total(bought, Holdings) + n
<1>1. PICK f \in [Holdings -> Nat] : f = bought
    BY DEF PlanTypeOK
<1>2. PICK h \in Holdings : h = <<a, x>>
    BY DEF Holdings
<1>3. bought' = [f EXCEPT ![h] = @ + n]
    BY <1>1, <1>2 DEF More
<1>4. ASSUME NEW H \in SUBSET Holdings
      PROVE  Total(bought', H) = Total(f, H) + IF h \in H THEN n ELSE 0
    <2>1. PICK g : g = bought'
        OBVIOUS
    <2>2. Grown(g, f, h, n)
        BY <1>3, <2>1 DEF Grown
    <2>3. Total(g, H) = Total(f, H) + IF h \in H THEN n ELSE 0
        BY <2>2, TotalGrows, ZenonT(60)
    <2>. QED BY <2>1, <2>3
<1>5. ASSUME NEW S \in SUBSET Symbols
      PROVE  Total(bought', Covered(S)) = Total(bought, Covered(S)) + IF x \in S THEN n ELSE 0
    <2>1. Covered(S) \in SUBSET Holdings
        BY HoldingSets
    <2>2. h \in Covered(S) <=> x \in S
        BY <1>2 DEF Covered
    <2>3. Total(bought', Covered(S)) = Total(f, Covered(S)) + IF h \in Covered(S) THEN n ELSE 0
        BY <1>4, <2>1
    <2>. QED BY <1>1, <2>2, <2>3
<1>6. Total(bought', Holdings) = Total(bought, Holdings) + n
    <2>1. Total(bought', Holdings) = Total(f, Holdings) + IF h \in Holdings THEN n ELSE 0
        BY <1>4
    <2>. QED BY <1>1, <2>1
<1>. QED BY <1>5, <1>6

\* A pick adds to what is bought of the symbols it is among, at most its share.
LEMMA Picking ==
    ASSUME PlanTypeOK, Pick
    PROVE  \A S \in SUBSET Symbols : \E n \in 0..per_pick :
            Total(bought', Covered(S)) = Total(bought, Covered(S)) + IF Head(queue) \in S THEN n ELSE 0
<1>1. PICK x \in Symbols : x = Head(queue)
    BY PickEffect
<1>2. per_pick \in Nat
    BY DEF PlanTypeOK
<1>3. CASE UNCHANGED bought
    <2>. SUFFICES ASSUME NEW S \in SUBSET Symbols
                  PROVE  Total(bought', Covered(S)) = Total(bought, Covered(S)) + 0
        BY <1>2
    <2>1. Total(bought, Covered(S)) \in Nat
        BY <1>1, Rooms
    <2>. QED BY <1>3, <2>1
<1>4. ASSUME NEW a \in Accounts, NEW n \in Nat, n <= per_pick, bought' = More(a, x, n)
      PROVE  \A S \in SUBSET Symbols : \E m \in 0..per_pick :
                Total(bought', Covered(S)) = Total(bought, Covered(S)) + IF x \in S THEN m ELSE 0
    <2>1. n \in 0..per_pick
        BY <1>2, <1>4
    <2>2. \A S \in SUBSET Symbols : Total(bought', Covered(S)) = Total(bought, Covered(S)) + IF x \in S THEN n ELSE 0
        BY <1>4, Buying
    <2>. QED BY <2>1, <2>2
<1>5. \/ UNCHANGED bought
      \/ \E a \in Accounts, n \in Nat : n <= per_pick /\ bought' = More(a, x, n)
    BY <1>1, PickEffect DEF More
<1>. QED BY <1>1, <1>3, <1>4, <1>5

\* What is invested after the plan.
LEMMA InvestedIs ==
    ASSUME BaseInv
    PROVE  /\ Invested = invested_value - Total(planned, Holdings) + Total(bought, Holdings)
           /\ Invested \in Nat /\ \A k : Exposure(k) \in Nat /\ Exposure(k) <= Invested
<1>. USE DEF BaseInv
<1>. DEFINE kept == [h \in Holdings |-> Kept(h)]
            after == [h \in Holdings |-> Kept(h) + bought[h]]
<1>1. /\ view.value \in [Holdings -> Nat] /\ planned \in [Holdings -> Nat] /\ bought \in [Holdings -> Nat]
      /\ invested_value \in Nat /\ \A h \in Holdings : planned[h] <= view.value[h]
    BY ViewTypes DEF PlanTypeOK, NeverOversold
<1>2. IsFiniteSet(Holdings) /\ Holdings \in SUBSET Holdings
    <2>1. Symbols \in SUBSET Symbols
        OBVIOUS
    <2>. QED BY <2>1, HoldingSets
<1>3. \A h \in Holdings : /\ kept[h] \in Nat /\ after[h] \in Nat /\ planned[h] \in Int /\ bought[h] \in Int
                          /\ view.value[h] = kept[h] + planned[h] /\ after[h] = kept[h] + bought[h]
    BY <1>1 DEF Kept
<1>4. \A h \in Holdings : kept[h] \in Int /\ after[h] \in Int
    <2>. HIDE DEF kept, after
    <2>. QED BY <1>3
<1>5. Sum(view.value, Holdings) = Sum(kept, Holdings) + Sum(planned, Holdings)
    <2>. HIDE DEF kept, after
    <2>. QED BY <1>2, <1>3, <1>4, SumPlus
<1>6. Sum(after, Holdings) = Sum(kept, Holdings) + Sum(bought, Holdings)
    <2>. HIDE DEF kept, after
    <2>. QED BY <1>2, <1>3, <1>4, SumPlus
<1>7. Sum(kept, Holdings) \in Int /\ Sum(planned, Holdings) \in Int /\ Sum(bought, Holdings) \in Int
    <2>. HIDE DEF kept, after
    <2>. QED BY <1>2, <1>3, <1>4, SumInt
<1>8. Sum(after, Holdings) \in Nat
    <2>. HIDE DEF kept, after
    <2>. QED BY <1>2, <1>3, SumNat
<1>9. ASSUME NEW k PROVE Exposure(k) \in Nat /\ Exposure(k) <= Sum(after, Holdings)
    <2>1. Covered(OfSector(k)) \in SUBSET Holdings
        BY HoldingSets, SymbolSets
    <2>2. IsFiniteSet(Covered(OfSector(k)))
        BY <1>2, <2>1, FS_Subset
    <2>3. Sum(after, Covered(OfSector(k))) <= Sum(after, Holdings) /\ Sum(after, Covered(OfSector(k))) \in Nat
        <3>. HIDE DEF kept, after
        <3>. QED BY <1>2, <1>3, <2>1, <2>2, SumOfPart, SumNat
    <2>. QED BY <2>3 DEF Exposure, Total, Sum
<1>10. Invested = Sum(after, Holdings)
    BY DEF Invested, Total, Sum
<1>11. invested_value = Sum(view.value, Holdings)
    BY DEF invested_value, Total, Sum
<1>. HIDE DEF kept, after
<1>. QED BY <1>5, <1>6, <1>7, <1>8, <1>9, <1>10, <1>11 DEF Total, Sum

\* The same, to be read in the state after a step.
LEMMA GapsAreWhole == PlanTypeOK => \A c \in Sleeves : Gap(c) \in Int
    BY GapTypes

\* A pick takes what it buys from what may still be bought of its class.
LEMMA GapInvKept ==
    ASSUME BaseInv, PickInv, GapInv, [PlanNext]_planVars
    PROVE  GapInv'
<1>0. BaseInv'
    BY BaseStep
<1>. USE DEF BaseInv
<1>1. \A c \in Classes : c \in Sleeves
    BY DEF Sleeves
\* A class of which nothing is bought and nothing is in hand.
<1>2. ASSUME NEW c \in Classes, \A h \in Covered(OfClass(c)) : bought'[h] = 0, InHand(c)' <= AtLeast0(Gap(c)')
      PROVE  (Total(bought, Covered(OfClass(c))) + InHand(c) <= AtLeast0(Gap(c)))'
    <2>1. Covered(OfClass(c)) \in SUBSET Holdings
        BY HoldingSets, SymbolSets
    <2>2. Total(bought', Covered(OfClass(c))) = 0
        BY <1>2, <2>1, TotalZero
    <2>3. InHand(c)' \in Int
        BY <1>0 DEF InHand, PlanTypeOK
    <2>. QED BY <1>2, <2>2, <2>3 DEF Covered, OfClass, AtLeast0
<1>3. \A c \in Classes : AtLeast0(Gap(c)') >= 0
    <2>1. PlanTypeOK'
        BY <1>0
    <2>2. (\A c \in Sleeves : Gap(c) \in Int)'
        BY <2>1, GapsAreWhole, PTL
    <2>3. ASSUME NEW c \in Classes PROVE Gap(c)' \in Int
        BY <1>1, <2>2 DEF Sleeves
    <2>. QED BY <2>3 DEF AtLeast0
<1>4. \A c \in Classes : \A h \in Covered(OfClass(c)) :
        h \in Holdings /\ h[1] \in Accounts /\ h[2] \in Symbols /\ h = <<h[1], h[2]>> /\ ClassOf[h[2]] = c
    BY DEF Covered, OfClass, Holdings
<1>5. CASE Trim \/ BeginBuys
    <2>1. bought' = [h \in Holdings |-> 0] /\ queue' = <<>>
        BY <1>5 DEF Trim, BeginBuys, Stages
    <2>2. \A c \in Classes : InHand(c)' <= AtLeast0(Gap(c)')
        BY <1>3, <2>1 DEF InHand
    <2>3. \A c \in Classes : \A h \in Covered(OfClass(c)) : bought'[h] = 0
        BY <1>4, <2>1
    <2>. QED BY <1>2, <2>2, <2>3 DEF GapInv
<1>6. CASE NextEntry
    <2>1. PICK class \in entries :
            /\ phase = "entries" /\ UNCHANGED <<view, planned, bought>>
            /\ \/ UNCHANGED <<phase, queue, per_pick>>
               \/ \E n \in 1..Len(Candidates[class]) :
                    /\ queue' = SubSeq(Candidates[class], 1, n)
                    /\ per_pick' \in Nat /\ n * per_pick' <= Gap(class)
        BY <1>6, EntryEffect
    <2>2. \A c : Gap(c)' = Gap(c)
        BY <2>1, SameTrims
    <2>3. CASE UNCHANGED <<phase, queue, per_pick>>
        BY <2>1, <2>2, <2>3 DEF GapInv, InHand, Covered, OfClass, AtLeast0
    <2>4. ASSUME NEW n \in 1..Len(Candidates[class]), queue' = SubSeq(Candidates[class], 1, n),
                 per_pick' \in Nat, n * per_pick' <= Gap(class)
          PROVE  GapInv'
        <3>1. Candidates[class] \in Seq(Symbols) /\ class \in Sleeves
            BY RebalanceAssumption DEF PlanTypeOK
        <3>2. Head(queue') = Candidates[class][1] /\ Len(queue') = n /\ queue' # <<>>
            <4>1. PICK line \in Seq(Symbols) : line = Candidates[class]
                BY <3>1
            <4>2. n \in 1..Len(line) /\ queue' = SubSeq(line, 1, n)
                BY <2>4, <4>1
            <4>3. Len(queue') = n /\ queue'[1] = line[1] /\ queue' \in Seq(Symbols)
                BY <4>2
            <4>. QED BY <4>1, <4>2, <4>3
        <3>3. ClassOf[Head(queue')] = class
            <4>1. 1 \in DOMAIN Candidates[class]
                BY <3>1
            <4>. QED BY <3>1, <3>2, <4>1, RebalanceAssumption
        <3>4. ASSUME NEW c \in Classes PROVE (Total(bought, Covered(OfClass(c))) + InHand(c) <= AtLeast0(Gap(c)))'
            <4>1. CASE c = class
                <5>1. InHand(c)' = n * per_pick'
                    BY <3>2, <3>3, <4>1 DEF InHand
                <5>2. Gap(c) \in Int
                    BY <1>1, GapTypes
                <5>3. n * per_pick' \in Int
                    BY <2>4
                <5>4. InHand(c)' <= AtLeast0(Gap(c)')
                    BY <2>2, <2>4, <4>1, <5>1, <5>2, <5>3 DEF AtLeast0
                <5>5. \A h \in Covered(OfClass(c)) : bought'[h] = 0
                    <6>. SUFFICES ASSUME NEW h \in Covered(OfClass(c)) PROVE bought[h] = 0
                        BY <2>1
                    <6>1. h[2] \in Waiting
                        BY <1>4, <4>1 DEF Waiting
                    <6>. QED BY <1>4, <6>1 DEF PickInv
                <5>. QED BY <1>2, <5>4, <5>5
            <4>2. CASE c # class
                <5>1. InHand(c)' = 0 /\ InHand(c) = 0
                    BY <2>1, <3>3, <4>2 DEF InHand, Stages
                <5>. QED BY <2>1, <2>2, <5>1 DEF GapInv, Covered, OfClass, AtLeast0
            <4>. QED BY <4>1, <4>2
        <3>. QED BY <3>4 DEF GapInv
    <2>. QED BY <2>1, <2>3, <2>4
<1>7. CASE Pick
    <2>0. PICK s \in Symbols : s = Head(queue)
        BY <1>7, PickEffect
    <2>1. /\ queue # <<>> /\ queue' = Tail(queue)
          /\ UNCHANGED <<view, planned, per_pick>>
        BY <1>7, PickEffect
    <2>2. \A c : Gap(c)' = Gap(c)
        BY <2>1, SameTrims
    <2>3. /\ queue \in Seq(Symbols) /\ per_pick \in Nat /\ Len(queue) \in Nat \ {0} /\ queue[1] = s
          /\ Len(queue') = Len(queue) - 1 /\ (queue' # <<>> => Head(queue') = queue[2] /\ 2 \in DOMAIN queue)
          /\ (queue' = <<>> => Len(queue) = 1) /\ 1 \in DOMAIN queue
        <3>1. queue \in Seq(Symbols) /\ per_pick \in Nat
            BY DEF PlanTypeOK
        <3>2. Len(queue) \in Nat \ {0} /\ queue[1] = s /\ 1 \in DOMAIN queue
            BY <2>0, <2>1, <3>1
        <3>3. /\ Len(queue') = Len(queue) - 1 /\ queue' \in Seq(Symbols)
              /\ \A i \in 1..Len(queue) - 1 : queue'[i] = queue[i + 1]
            BY <2>1, <3>1
        <3>4. queue' # <<>> => Len(queue') > 0 /\ Head(queue') = queue'[1]
            BY <3>3
        <3>5. queue' # <<>> => Len(queue) > 1 /\ Head(queue') = queue[2] /\ 2 \in DOMAIN queue
            BY <3>1, <3>2, <3>3, <3>4
        <3>6. queue' = <<>> => Len(queue) = 1
            BY <3>2, <3>3
        <3>. QED BY <3>1, <3>2, <3>3, <3>5, <3>6
    <2>4. queue' # <<>> => ClassOf[Head(queue')] = ClassOf[s]
        BY <2>3 DEF PickInv
    <2>5. \A S \in SUBSET Symbols : \E n \in 0..per_pick :
            Total(bought', Covered(S)) = Total(bought, Covered(S)) + IF s \in S THEN n ELSE 0
        BY <1>7, <2>0, Picking
    <2>6. ASSUME NEW c \in Classes
          PROVE  (Total(bought, Covered(OfClass(c))) + InHand(c) <= AtLeast0(Gap(c)))'
        <3>1. OfClass(c) \in SUBSET Symbols
            BY SymbolSets
        <3>2. PICK old \in Nat : old = Total(bought, Covered(OfClass(c)))
            BY <2>0, <3>1, Rooms
        <3>3. PICK n \in 0..per_pick : Total(bought', Covered(OfClass(c))) = old + IF s \in OfClass(c) THEN n ELSE 0
            BY <2>5, <3>1, <3>2
        <3>4. AtLeast0(Gap(c)) \in Nat
            <4>1. Gap(c) \in Int
                BY <1>1, GapTypes
            <4>. QED BY <4>1 DEF AtLeast0
        <3>5. old + InHand(c) <= AtLeast0(Gap(c))
            BY <3>2 DEF GapInv
        <3>6. CASE ClassOf[s] = c
            <4>1. InHand(c) = Len(queue) * per_pick
                BY <2>0, <2>1, <3>6 DEF InHand
            <4>2. InHand(c)' = (Len(queue) - 1) * per_pick
                BY <2>1, <2>3, <2>4, <3>6 DEF InHand
            <4>3. Len(queue) * per_pick = (Len(queue) - 1) * per_pick + per_pick
                  /\ (Len(queue) - 1) * per_pick \in Nat
                BY <2>3
            <4>4. Total(bought', Covered(OfClass(c))) <= old + per_pick
                  /\ Total(bought', Covered(OfClass(c))) \in Nat
                BY <2>3, <3>3
            <4>5. Total(bought', Covered(OfClass(c))) + InHand(c)' <= AtLeast0(Gap(c))
                BY <2>3, <3>4, <3>5, <4>1, <4>2, <4>3, <4>4
            <4>. QED BY <2>2, <4>5 DEF Covered, OfClass, AtLeast0
        <3>7. CASE ClassOf[s] # c
            <4>1. InHand(c) = 0 /\ InHand(c)' = 0
                BY <2>0, <2>1, <2>4, <3>7 DEF InHand
            <4>2. Total(bought', Covered(OfClass(c))) = old
                BY <3>3, <3>7 DEF OfClass
            <4>. QED BY <2>2, <3>4, <3>5, <4>1, <4>2 DEF Covered, OfClass, AtLeast0
        <3>. QED BY <3>6, <3>7
    <2>. QED BY <2>6 DEF GapInv
<1>8. CASE EndEntry \/ EndPlan \/ UNCHANGED planVars
    <2>1. UNCHANGED <<view, planned, bought, queue, per_pick>>
        BY <1>8 DEF EndEntry, EndPlan, planVars
    <2>2. \A c : Gap(c)' = Gap(c)
        BY <2>1, SameTrims
    <2>. QED BY <2>1, <2>2 DEF GapInv, InHand, Covered, OfClass, AtLeast0
<1>. QED BY <1>5, <1>6, <1>7, <1>8 DEF PlanNext

\* What is bought is added to what is invested, and to its sector.
LEMMA Investing ==
    ASSUME BaseInv, NEW a \in Accounts, NEW x \in Symbols, NEW n \in Nat, UNCHANGED <<view, planned>>,
           bought' = More(a, x, n)
    PROVE  /\ \A k : Exposure(k)' = Exposure(k) + IF SectorOf[x] = k THEN n ELSE 0
           /\ Invested' = Invested + n
<1>1. PICK h \in Holdings : h = <<a, x>>
    BY DEF Holdings
<1>2. PICK f \in [Holdings -> Nat] : \A y \in Holdings : f[y] = Kept(y) + bought[y]
    <2>. DEFINE f == [y \in Holdings |-> Kept(y) + bought[y]]
    <2>1. f \in [Holdings -> Nat]
        <3>1. /\ view.value \in [Holdings -> Nat] /\ planned \in [Holdings -> Nat]
              /\ bought \in [Holdings -> Nat] /\ \A y \in Holdings : planned[y] <= view.value[y]
            BY ViewTypes DEF BaseInv, PlanTypeOK, NeverOversold
        <3>. QED BY <3>1 DEF Kept
    <2>. QED BY <2>1
<1>3. PICK g : g = [y \in Holdings |-> Kept(y)' + bought'[y]]
    OBVIOUS
<1>4. f = [y \in Holdings |-> Kept(y) + bought[y]]
    BY <1>2
<1>5. Grown(g, f, h, n)
    <2>1. \A y \in Holdings : Kept(y)' = Kept(y) /\ Kept(y) \in Int
        <3>1. view.value \in [Holdings -> Nat] /\ planned \in [Holdings -> Nat]
            BY ViewTypes DEF BaseInv, PlanTypeOK
        <3>. QED BY <3>1, SameTrims DEF Kept
    <2>2. bought \in [Holdings -> Nat]
        BY DEF BaseInv, PlanTypeOK
    <2>3. bought'[h] = bought[h] + n /\ \A y \in Holdings : y # h => bought'[y] = bought[y]
        BY <1>1, <2>2 DEF More
    <2>. QED BY <1>2, <1>3, <2>1, <2>2, <2>3 DEF Grown
<1>6. ASSUME NEW H \in SUBSET Holdings
      PROVE  Total(g, H) = Total(f, H) + IF h \in H THEN n ELSE 0
    BY <1>5, TotalGrows, ZenonT(60)
<1>7. Invested' = Invested + n
    <2>1. Invested = Total(f, Holdings) /\ Invested' = Total(g, Holdings)
        BY <1>3, <1>4 DEF Invested
    <2>2. Total(g, Holdings) = Total(f, Holdings) + IF h \in Holdings THEN n ELSE 0
        BY <1>6
    <2>. QED BY <2>1, <2>2
<1>8. ASSUME NEW k PROVE Exposure(k)' = Exposure(k) + IF SectorOf[x] = k THEN n ELSE 0
    <2>1. Covered(OfSector(k)) \in SUBSET Holdings
        BY HoldingSets, SymbolSets
    <2>2. Exposure(k) = Total(f, Covered(OfSector(k))) /\ Exposure(k)' = Total(g, Covered(OfSector(k)))
        BY <1>3, <1>4 DEF Exposure, Covered, OfSector
    <2>3. h \in Covered(OfSector(k)) <=> SectorOf[x] = k
        BY <1>1 DEF Covered, OfSector
    <2>4. Total(g, Covered(OfSector(k))) = Total(f, Covered(OfSector(k)))
            + IF h \in Covered(OfSector(k)) THEN n ELSE 0
        BY <1>6, <2>1
    <2>. QED BY <2>2, <2>3, <2>4
<1>. QED BY <1>7, <1>8

\* Where nothing is trimmed outside a sector, what the plan takes to be invested
\* for it is what is invested, so its headroom keeps the limit.
LEMMA HeadroomHolds ==
    ASSUME BaseInv, NEW x \in Symbols, SectorOf[x] \in Sectors,
           Total(planned, Holdings \ Covered(OfSector(SectorOf[x]))) = 0,
           NEW n \in Nat \ {0}, \A m \in _sector_headroom(x) : n <= m
    PROVE  100 * (Exposure(SectorOf[x]) + n) <= max_sector_pct * (Invested + n)
<1>. DEFINE k == SectorOf[x]
            C == Covered(OfSector(k))
<1>1. C \in SUBSET Holdings /\ IsFiniteSet(C) /\ IsFiniteSet(Holdings)
    BY HoldingSets, SymbolSets
<1>2. planned \in [Holdings -> Nat]
    BY DEF BaseInv, PlanTypeOK
<1>3. Total(planned, Holdings) = Total(planned, C)
    <2>. HIDE DEF k, C
    <2>1. IsFiniteSet(Holdings \ C) /\ C \cap (Holdings \ C) = {} /\ C \cup (Holdings \ C) = Holdings
        BY <1>1, FS_Difference
    <2>2. \A h \in C \cup (Holdings \ C) : planned[h] \in Int
        BY <1>2, <2>1
    <2>3. Sum(planned, C \cup (Holdings \ C)) = Sum(planned, C) + Sum(planned, Holdings \ C)
        BY <1>1, <2>1, <2>2, SumOfTwo
    <2>4. Sum(planned, C) \in Int
        BY <1>1, <2>2, SumInt
    <2>5. Sum(planned, Holdings \ C) = 0
        BY DEF Total, Sum, k, C
    <2>. QED BY <2>1, <2>3, <2>4, <2>5 DEF Total, Sum
<1>4. PICK invested \in Nat : invested = Invested
    BY InvestedIs
<1>5. invested = invested_value - Total(planned, C) + Total(bought, Holdings)
    <2>. HIDE DEF k, C
    <2>. QED BY <1>3, <1>4, InvestedIs
<1>6. PICK e \in Nat : e = Exposure(k) /\ e <= invested
    BY <1>4, InvestedIs
<1>7. k # NoSector
    BY RebalanceAssumption
<1>8. PICK p \in 0..100 : p = max_sector_pct
    BY Limits
<1>9. _sector_headroom(x) =
        IF invested <= 0 THEN {0} ELSE IF p = 100 THEN {} ELSE {AtLeast0((p * invested - 100 * e) \div (100 - p))}
    BY <1>5, <1>6, <1>7, <1>8 DEF _sector_headroom
<1>10. invested > 0
    <2>1. CASE invested <= 0
        <3>1. 0 \in _sector_headroom(x)
            BY <1>9, <2>1
        <3>. QED BY <3>1
    <2>. QED BY <2>1
<1>11. 100 * (e + n) <= p * (invested + n)
    <2>1. CASE p = 100
        BY <1>6, <2>1
    <2>2. CASE p # 100
        <3>1. PICK d \in Nat \ {0} : d = 100 - p
            BY <2>2
        <3>2. PICK q \in Int : q = p * invested - 100 * e
            OBVIOUS
        <3>3. n <= AtLeast0(q \div d)
            BY <1>9, <1>10, <2>2, <3>1, <3>2
        <3>4. n <= q \div d
            <4>1. q \div d \in Int
                BY <3>1, <3>2
            <4>. QED BY <3>3, <4>1 DEF AtLeast0
        <3>5. d * n <= q
            BY <3>4, WithinQuotient
        <3>6. (100 - p) * n = 100 * n - p * n /\ p * (invested + n) = p * invested + p * n
            OBVIOUS
        <3>7. p * n \in Int /\ p * invested \in Int
            OBVIOUS
        <3>. QED BY <3>1, <3>2, <3>5, <3>6, <3>7
    <2>. QED BY <2>1, <2>2
<1>. QED BY <1>4, <1>6, <1>8, <1>11

\* Each purchase is within the limits of its position and of its sector.
LimitInv == BuysKeepPositionLimit /\ BuysKeepSectorLimitUntrimmed

\* The limits are of what is held, sold and bought, and of nothing else.
LEMMA SameLimits ==
    ASSUME LimitInv, UNCHANGED <<view, planned, bought>>
    PROVE  LimitInv'
<1>1. view' = view /\ planned' = planned /\ bought' = bought /\ total_value' = total_value
    BY SameView
<1>2. \A h : Kept(h)' = Kept(h)
    BY SameTrims
<1>3. Invested' = Invested
    BY <1>1, <1>2 DEF Invested
<1>4. \A k : Exposure(k)' = Exposure(k)
    BY <1>1, <1>2 DEF Exposure, Covered, OfSector
<1>5. \A k : BoughtWithin(k)' = BoughtWithin(k)
    BY <1>1, <1>3, <1>4 DEF BoughtWithin, Covered, OfSector
<1>6. BuysKeepPositionLimit'
    BY <1>1 DEF LimitInv, BuysKeepPositionLimit, Covered
<1>7. BuysKeepSectorLimitUntrimmed'
    BY <1>1, <1>5 DEF LimitInv, BuysKeepSectorLimitUntrimmed, Covered, OfSector, Holdings
<1>. QED BY <1>6, <1>7 DEF LimitInv

\* Every step keeps the limits: a purchase has room in both.
LEMMA LimitInvKept ==
    ASSUME BaseInv, LimitInv, [PlanNext]_planVars
    PROVE  LimitInv'
<1>1. PlanTypeOK
    BY DEF BaseInv
<1>2. CASE Trim \/ BeginBuys
    <2>1. bought' = [h \in Holdings |-> 0]
        BY <1>2 DEF Trim, BeginBuys, BaseInv, Stages
    <2>2. \A S \in SUBSET Symbols : Total(bought', Covered(S)) = 0
        <3>. SUFFICES ASSUME NEW S \in SUBSET Symbols PROVE Total(bought', Covered(S)) = 0
            OBVIOUS
        <3>1. Covered(S) \in SUBSET Holdings
            BY HoldingSets
        <3>2. \A h \in Covered(S) : bought'[h] = 0
            BY <2>1, <3>1
        <3>. QED BY <3>1, <3>2, TotalZero
    <2>3. \A s \in Symbols : Total(bought', Covered({s})) = 0
        BY <2>2
    <2>4. \A k : Total(bought', Covered(OfSector(k))) = 0
        BY <2>2, SymbolSets
    <2>5. BuysKeepPositionLimit'
        BY <2>3 DEF BuysKeepPositionLimit, Covered
    <2>6. BuysKeepSectorLimitUntrimmed'
        <3>1. ASSUME NEW k PROVE BoughtWithin(k)'
            <4>1. Total(bought', Covered(OfSector(k))) = 0
                BY <2>4
            <4>2. ~(Total(bought', Covered(OfSector(k))) > 0)
                BY <4>1
            <4>. QED BY <4>2 DEF BoughtWithin, Covered, OfSector
        <3>. QED BY <3>1 DEF BuysKeepSectorLimitUntrimmed
    <2>. QED BY <2>5, <2>6 DEF LimitInv
<1>3. CASE NextEntry \/ EndEntry \/ EndPlan \/ UNCHANGED planVars
    <2>1. UNCHANGED <<view, planned, bought>>
        BY <1>3 DEF NextEntry, EndEntry, EndPlan, planVars
    <2>. QED BY <2>1, SameLimits
<1>4. CASE Pick
    <2>1. PICK s \in Symbols : s = Head(queue)
        BY <1>1, <1>4, PickEffect
    <2>2. /\ UNCHANGED <<view, planned>>
          /\ \/ UNCHANGED bought
             \/ \E a \in Accounts, n \in Nat \ {0} :
                /\ n <= _position_headroom(s) /\ \A m \in _sector_headroom(s) : n <= m
                /\ bought' = More(a, s, n)
        BY <1>1, <1>4, <2>1, PickEffect DEF More
    <2>3. CASE UNCHANGED bought
        BY <2>2, <2>3, SameLimits
    <2>4. ASSUME NEW a \in Accounts, NEW n \in Nat \ {0},
                 n <= _position_headroom(s), \A m \in _sector_headroom(s) : n <= m,
                 bought' = More(a, s, n)
          PROVE  LimitInv'
        <3>1. n \in Nat
            OBVIOUS
        <3>2. \A S \in SUBSET Symbols : Total(bought', Covered(S)) = Total(bought, Covered(S)) + IF s \in S THEN n ELSE 0
            BY <1>1, <2>4, <3>1, Buying
        <3>3. /\ \A k : Exposure(k)' = Exposure(k) + IF SectorOf[s] = k THEN n ELSE 0
              /\ Invested' = Invested + n
            BY <2>2, <2>4, <3>1, Investing
        <3>4. ASSUME NEW x \in Symbols, Total(bought', Covered({x})) > 0
              PROVE  100 * (Total(view.value, Covered({x})) + Total(bought', Covered({x})))
                        <= max_position_pct * total_value
            <4>1. PICK old \in Nat : old = Total(bought, Covered({x}))
                BY <1>1, Rooms
            <4>2. PICK value \in Nat : value = Total(view.value, Covered({x}))
                BY <1>1, ViewTypes DEF PlanTypeOK
            <4>3. CASE x # s
                <5>1. Total(bought', Covered({x})) = old
                    BY <3>2, <4>1, <4>3
                <5>. QED BY <3>4, <4>1, <5>1 DEF LimitInv, BuysKeepPositionLimit
            <4>4. CASE x = s
                <5>1. Total(bought', Covered({x})) = old + n
                    BY <3>2, <4>1, <4>4
                <5>2. PICK most \in Int : most = max_position_pct * total_value
                    BY <1>1, Limits, ViewTypes DEF PlanTypeOK
                <5>3. n <= AtLeast0(most \div 100 - value - old)
                    BY <2>4, <4>1, <4>2, <4>4, <5>2 DEF _position_headroom
                <5>4. value + old + n <= most \div 100
                    <6>1. most \div 100 \in Int
                        BY <5>2
                    <6>. QED BY <5>3, <6>1 DEF AtLeast0
                <5>5. 100 * (value + old + n) <= most
                    BY <5>4, WithinPart
                <5>. QED BY <4>2, <5>1, <5>2, <5>5
            <4>. QED BY <4>3, <4>4
        <3>5. ASSUME NEW k \in Sectors, Total(planned, Holdings \ Covered(OfSector(k))) = 0,
                     Total(bought', Covered(OfSector(k))) > 0
              PROVE  100 * Exposure(k)' <= max_sector_pct * Invested'
            <4>1. CASE SectorOf[s] = k
                <5>1. 100 * (Exposure(k) + n) <= max_sector_pct * (Invested + n)
                    BY <2>4, <3>5, <4>1, HeadroomHolds
                <5>. QED BY <3>3, <4>1, <5>1
            <4>2. CASE SectorOf[s] # k
                <5>1. s \notin OfSector(k) /\ OfSector(k) \in SUBSET Symbols
                    BY <4>2 DEF OfSector
                <5>2. PICK old \in Nat : old = Total(bought, Covered(OfSector(k)))
                    BY <1>1, <5>1, Rooms
                <5>3. Total(bought', Covered(OfSector(k))) = old
                    BY <3>2, <5>1, <5>2
                <5>4. 100 * Exposure(k) <= max_sector_pct * Invested
                    BY <3>5, <5>2, <5>3 DEF LimitInv, BuysKeepSectorLimitUntrimmed, BoughtWithin
                <5>5. PICK e \in Nat, i \in Nat, p \in 0..100 : e = Exposure(k) /\ i = Invested /\ p = max_sector_pct
                    BY InvestedIs, Limits
                <5>6. p * (i + n) = p * i + p * n /\ p * n \in Nat /\ p * i \in Nat
                    BY <5>5
                <5>7. Exposure(k)' = e /\ Invested' = i + n
                    BY <3>3, <4>2, <5>5
                <5>. QED BY <5>4, <5>5, <5>6, <5>7
            <4>. QED BY <4>1, <4>2
        <3>6. total_value' = total_value /\ view' = view /\ planned' = planned
            BY <2>2, SameView
        <3>7. BuysKeepPositionLimit'
            BY <3>4, <3>6 DEF BuysKeepPositionLimit, Covered
        <3>8. BuysKeepSectorLimitUntrimmed'
            BY <3>5, <3>6 DEF BuysKeepSectorLimitUntrimmed, BoughtWithin, Covered, OfSector, Holdings
        <3>. QED BY <3>7, <3>8 DEF LimitInv
    <2>. QED BY <2>2, <2>3, <2>4
<1>. QED BY <1>2, <1>3, <1>4 DEF PlanNext

\* Nothing is bought before the first pick.
LEMMA BuysInit == PlanInit => GapInv /\ LimitInv
<1>. SUFFICES ASSUME PlanInit PROVE GapInv /\ LimitInv
    OBVIOUS
<1>1. bought = [h \in Holdings |-> 0] /\ queue = <<>> /\ PlanTypeOK
    BY BaseInit DEF PlanInit, BaseInv
<1>2. \A S \in SUBSET Symbols : Total(bought, Covered(S)) = 0
    <2>. SUFFICES ASSUME NEW S \in SUBSET Symbols PROVE Total(bought, Covered(S)) = 0
        OBVIOUS
    <2>1. Covered(S) \in SUBSET Holdings
        BY HoldingSets
    <2>2. \A h \in Covered(S) : bought[h] = 0
        BY <1>1, <2>1
    <2>. QED BY <2>1, <2>2, TotalZero
<1>3. GapInv
    <2>. SUFFICES ASSUME NEW c \in Classes
                  PROVE  Total(bought, Covered(OfClass(c))) + InHand(c) <= AtLeast0(Gap(c))
        BY DEF GapInv
    <2>1. Total(bought, Covered(OfClass(c))) = 0
        BY <1>2, SymbolSets
    <2>2. InHand(c) = 0
        BY <1>1 DEF InHand
    <2>3. Gap(c) \in Int
        BY <1>1, GapTypes DEF Sleeves
    <2>. QED BY <2>1, <2>2, <2>3 DEF AtLeast0
<1>4. BuysKeepPositionLimit
    <2>1. \A s \in Symbols : Total(bought, Covered({s})) = 0
        BY <1>2
    <2>. QED BY <2>1 DEF BuysKeepPositionLimit
<1>5. BuysKeepSectorLimitUntrimmed
    <2>1. \A k : Total(bought, Covered(OfSector(k))) = 0
        BY <1>2, SymbolSets
    <2>. QED BY <2>1 DEF BuysKeepSectorLimitUntrimmed, BoughtWithin
<1>. QED BY <1>3, <1>4, <1>5 DEF LimitInv

\* What is within the gap of a class is within its target.
LEMMA BuysFitFollows ==
    ASSUME PlanTypeOK, GapInv, LimitInv
    PROVE  BuysFit
<1>1. ASSUME NEW c \in Classes, Total(bought, Covered(OfClass(c))) > 0
      PROVE  100 * (Held(c) + Total(bought, Covered(OfClass(c)))) <= target[c] * total_value
    <2>1. PICK held \in Int, goal \in Int : held = Held(c) /\ goal = target[c] * total_value
        BY GapTypes DEF Sleeves
    <2>2. c # "cash" /\ Gap(c) = (goal - 100 * held) \div 100
        BY <2>1, RebalanceAssumption DEF Gap
    <2>3. PICK more \in Nat : more = Total(bought, Covered(OfClass(c)))
        <3>1. OfClass(c) \in SUBSET Symbols
            BY SymbolSets
        <3>2. \A h \in Covered(OfClass(c)) : bought[h] \in Nat
            BY <3>1 DEF PlanTypeOK, Covered, Holdings
        <3>. QED BY <3>1, <3>2, HoldingSets, TotalType
    <2>4. InHand(c) \in Nat
        <3>1. Len(queue) \in Nat /\ per_pick \in Nat
            BY DEF PlanTypeOK
        <3>2. Len(queue) * per_pick \in Nat
            BY <3>1
        <3>. QED BY <3>2 DEF InHand
    <2>5. more <= AtLeast0((goal - 100 * held) \div 100)
        <3>1. more + InHand(c) <= AtLeast0((goal - 100 * held) \div 100)
            BY <2>2, <2>3 DEF GapInv
        <3>2. (goal - 100 * held) \div 100 \in Int
            BY <2>1
        <3>3. AtLeast0((goal - 100 * held) \div 100) \in Int
            BY <3>2 DEF AtLeast0
        <3>. QED BY <2>3, <2>4, <3>1, <3>3
    <2>6. more <= (goal - 100 * held) \div 100
        <3>1. (goal - 100 * held) \div 100 \in Int
            BY <2>1
        <3>. QED BY <1>1, <2>3, <2>5, <3>1 DEF AtLeast0
    <2>7. 100 * more <= goal - 100 * held
        BY <2>6, WithinPart
    <2>. QED BY <2>1, <2>3, <2>7
<1>. QED BY <1>1 DEF BuysFit, NoOvershoot, LimitInv

\* What the plan buys fits its position limit, the limit of its sector where
\* nothing is trimmed outside it, and the target of its class, however many
\* accounts and picks share the purchase: BuysFit of Rebalance.
THEOREM BuysAlwaysFit == PlanSpec => []BuysFit
<1>. DEFINE Inv == BaseInv /\ PickInv /\ GapInv /\ LimitInv
<1>1. PlanInit => Inv
    BY BaseInit, MoneyInit, BuysInit
<1>2. Inv /\ [PlanNext]_planVars => Inv'
    BY BaseStep, PickInvKept, GapInvKept, LimitInvKept
<1>3. Inv => BuysFit
    BY BuysFitFollows DEF BaseInv
<1>. QED BY <1>1, <1>2, <1>3, PTL DEF PlanSpec

-----------------------------------------------------------------------------
(* The audit chain.                                                         *)

USE AuditAssumption

----------------------------------------------------------------------------
(* Types *)

\* Every variable of AuditChain stays in its domain and _chain_lock is held
\* exactly between the tail read and the flush of record(), whatever
\* transactions commit, fail or die.
THEOREM TypeCorrect == Spec => []TypeOK
<1>1. Init => TypeOK
  BY DEF Init, TypeOK
<1>2. TypeOK /\ [Next]_vars => TypeOK'
  <2> SUFFICES ASSUME TypeOK, [Next]_vars PROVE TypeOK'
    OBVIOUS
  <2>0. nextId \in Nat /\ nextId \in 1..(MaxEvents + 1)
    BY DEF TypeOK
  <2>A. ASSUME NEW S \in SUBSET Sessions, Close(S)
        PROVE  /\ DOMAIN pending' = Sessions
               /\ \A s \in Sessions : pending'[s] \subseteq pending[s]
               /\ org' \in [Sessions -> Orgs \cup {None}]
               /\ pc' \in [Sessions -> {"closed", "open", "append", "stream"}]
               /\ \A s \in Sessions : org'[s] = None <=> pc'[s] = "closed"
               /\ DOMAIN tail' = Sessions
               /\ lock' \in [Procs -> Sessions \cup {None}]
               /\ \A s \in Sessions : lock'[ProcOf[s]] = s <=> pc'[s] = "append"
    <3>1. \A s \in Sessions : lock'[ProcOf[s]] = s <=> pc'[s] = "append"
      <4> TAKE s \in Sessions
      <4>1. /\ ProcOf[s] \in Procs
            /\ lock'[ProcOf[s]] = IF lock[ProcOf[s]] \in S THEN None ELSE lock[ProcOf[s]]
            /\ pc'[s] = IF s \in S THEN "closed" ELSE pc[s]
            /\ lock[ProcOf[s]] = s <=> pc[s] = "append"
        BY <2>A DEF Close, TypeOK
      <4> QED BY <4>1
    <3> QED BY <2>A, <3>1 DEF Close, TypeOK
  <2>1. ASSUME NEW s \in Sessions, NEW o \in Orgs, Begin(s, o)
        PROVE  TypeOK'
    BY <2>1, <2>0 DEF Begin, TypeOK
  <2>2. ASSUME NEW s \in Sessions, RecordTail(s)
        PROVE  TypeOK'
    <3>1. DOMAIN tail' = Sessions
      BY <2>2 DEF RecordTail, TypeOK
    <3>2. \A t \in Sessions : lock'[ProcOf[t]] = t <=> pc'[t] = "append"
      BY <2>2 DEF RecordTail, TypeOK
    <3>3. lock' \in [Procs -> Sessions \cup {None}]
      BY <2>2 DEF RecordTail, TypeOK
    <3> QED BY <2>2, <2>0, <3>1, <3>2, <3>3 DEF RecordTail, TypeOK
  <2>3. ASSUME NEW s \in Sessions, NEW text \in Texts, RecordFlush(s, text)
        PROVE  TypeOK'
    <3>1. PICK n : n = Event(nextId, org[s], text, tail[s])
      OBVIOUS
    <3>2. IsEvent(n) /\ n.id = nextId
      BY <2>3, <2>0, <3>1 DEF RecordFlush, Event, IsEvent, TypeOK
    <3>3. nextId' = nextId + 1 /\ nextId <= MaxEvents
      BY <2>3 DEF RecordFlush
    <3>4. pending' = [pending EXCEPT ![s] = @ \cup {n}]
      BY <2>3, <3>1 DEF RecordFlush
    <3>5. /\ \A e \in events' \cup recorded' : IsEvent(e) /\ e.id < nextId'
          /\ \A t \in Sessions : \A e \in pending'[t] : IsEvent(e) /\ e.id < nextId'
      <4>1. \A e : IsEvent(e) /\ e.id < nextId => e.id < nextId'
        BY <2>0, <3>3 DEF IsEvent
      <4>2. n.id < nextId'
        BY <2>0, <3>2, <3>3
      <4> QED BY <2>3, <3>2, <3>4, <4>1, <4>2 DEF RecordFlush, TypeOK
    <3>6. \A t \in Sessions : lock'[ProcOf[t]] = t <=> pc'[t] = "append"
      BY <2>3 DEF RecordFlush, TypeOK
    <3> QED BY <2>3, <2>0, <3>3, <3>5, <3>6 DEF RecordFlush, TypeOK
  <2>4. ASSUME NEW s \in Sessions, Stream(s)
        PROVE  TypeOK'
    BY <2>4, <2>0 DEF Stream, TypeOK
  <2>5. ASSUME NEW s \in Sessions, Commit(s)
        PROVE  TypeOK'
    <3>1. Close({s}) /\ UNCHANGED <<nextId, tampers, overlapped>>
      BY <2>5 DEF Commit
    <3>2. \A e \in events' \cup recorded' : IsEvent(e) /\ e.id < nextId'
      BY <2>5, <3>1 DEF Commit, TypeOK
    <3>3. \A t \in Sessions : \A e \in pending'[t] : IsEvent(e) /\ e.id < nextId'
      BY <3>1, <2>A DEF TypeOK
    <3> QED BY <3>1, <3>2, <3>3, <2>A DEF TypeOK
  <2>6. ASSUME NEW s \in Sessions, Rollback(s)
        PROVE  TypeOK'
    BY <2>6, <2>A DEF Rollback, TypeOK
  <2>7. ASSUME NEW p \in Procs, Crash(p)
        PROVE  TypeOK'
    <3> DEFINE S == {s \in Sessions : ProcOf[s] = p}
    <3>1. S \in SUBSET Sessions /\ Close(S) /\ UNCHANGED <<events, recorded, nextId, tampers, overlapped>>
      BY <2>7 DEF Crash
    <3> HIDE DEF S
    <3> QED BY <3>1, <2>A DEF TypeOK
  <2>8. ASSUME NEW e \in events, Delete(e)
        PROVE  TypeOK'
    BY <2>8, <2>0 DEF Delete, TypeOK
  <2>9. ASSUME NEW e \in events, NEW text \in Texts, Edit(e, text)
        PROVE  TypeOK'
    <3>1. PICK f : f = [e EXCEPT !.text = text]
      OBVIOUS
    <3>2. IsEvent(f) /\ f.id < nextId
      BY <3>1 DEF TypeOK, IsEvent
    <3>3. \A g \in events' : IsEvent(g) /\ g.id < nextId
      BY <2>9, <3>1, <3>2 DEF Edit, TypeOK
    <3>4. tampers' \in 0..MaxTampers
      BY <2>9 DEF Edit, TypeOK
    <3> QED BY <2>9, <3>3, <3>4 DEF Edit, TypeOK
  <2>10. CASE UNCHANGED vars
    BY <2>10 DEF vars, TypeOK
  <2> QED
    BY <2>1, <2>2, <2>3, <2>4, <2>5, <2>6, <2>7, <2>8, <2>9, <2>10 DEF Next, Record
<1> QED BY <1>1, <1>2, PTL DEF Spec

----------------------------------------------------------------------------
(* Links: any number of overlapping transactions, until the table is tampered with *)

Anchored(e, S) == e.prev = Genesis \/ \E f \in S : f.org = e.org /\ f.id < e.id /\ e.prev = f.hash

\* Committed rows are anchored in committed rows, pending rows in what their
\* own transaction sees, and so is the hash read by a tail read in progress.
LinkInv ==
    /\ \A e \in events : Anchored(e, events)
    /\ \A s \in Sessions : \A e \in pending[s] : e.org = org[s] /\ Anchored(e, Visible(s))
    /\ \A s \in Sessions : pc[s] = "append" =>
        tail[s] = Genesis \/ \E f \in Visible(s) : f.org = org[s] /\ tail[s] = f.hash

LEMMA AnchoredMono ==
    ASSUME NEW e, NEW S, NEW T, Anchored(e, S), S \subseteq T
    PROVE  Anchored(e, T)
BY DEF Anchored

LEMMA TampersCounted ==
    ASSUME TypeOK, [Next]_vars, tampers' = 0
    PROVE  tampers = 0 /\ ~\E e \in events : Delete(e) \/ \E text \in Texts : Edit(e, text)
<1>1. tampers \in Nat
  BY AuditAssumption DEF TypeOK
<1>2. \A e \in events : ~Delete(e) /\ \A text \in Texts : ~Edit(e, text)
  BY <1>1 DEF Delete, Edit
<1>3. tampers' = tampers
  BY <1>2 DEF Next, Record, Begin, RecordTail, RecordFlush, Stream, Commit, Rollback, Crash, vars
<1> QED BY <1>2, <1>3

\* What the end of a transaction leaves of the sessions' state.
LEMMA ClosedSessions ==
    ASSUME TypeOK, NEW S \in SUBSET Sessions, Close(S), NEW s \in Sessions
    PROVE  /\ s \in S => pending'[s] = {} /\ org'[s] = None /\ pc'[s] = "closed"
           /\ s \notin S => /\ pending'[s] = pending[s] /\ org'[s] = org[s]
                            /\ pc'[s] = pc[s] /\ tail'[s] = tail[s]
BY DEF Close, TypeOK

LEMMA LinkStep ==
    ASSUME TypeOK, TypeOK', LinkInv, [Next]_vars, tampers' = 0
    PROVE  LinkInv'
<1> DEFINE Pend(s) == \A e \in pending'[s] : e.org = org'[s] /\ Anchored(e, events' \cup pending'[s])
           AtTail(s) == pc'[s] = "append" =>
                        tail'[s] = Genesis \/ \E f \in events' \cup pending'[s] :
                                                f.org = org'[s] /\ tail'[s] = f.hash
<1>0. ASSUME \A e \in events' : Anchored(e, events'),
             \A s \in Sessions : Pend(s) /\ AtTail(s)
      PROVE  LinkInv'
  BY <1>0 DEF LinkInv, Visible, Anchored
<1>A. ASSUME NEW s \in Sessions, events \subseteq events', pending'[s] = pending[s],
             org'[s] = org[s], pc'[s] = pc[s], tail'[s] = tail[s]
      PROVE  Pend(s) /\ AtTail(s)
  <2>1. Pend(s)
    <3>1. Visible(s) \subseteq events' \cup pending'[s]
      BY <1>A DEF Visible
    <3> QED BY <1>A, <3>1, AnchoredMono DEF LinkInv
  <2>2. AtTail(s)
    BY <1>A DEF LinkInv, Visible
  <2> QED BY <2>1, <2>2
<1>B. ASSUME NEW S \in SUBSET Sessions, Close(S), events \subseteq events'
      PROVE  \A s \in Sessions : Pend(s) /\ AtTail(s)
  <2> TAKE s \in Sessions
  <2>1. CASE s \in S
    BY <2>1, <1>B, ClosedSessions
  <2>2. CASE s \notin S
    BY <2>2, <1>A, <1>B, ClosedSessions
  <2> QED BY <2>1, <2>2
<1>1. ASSUME NEW s \in Sessions, NEW o \in Orgs, Begin(s, o)
      PROVE  LinkInv'
  <2>1. pending[s] = {}
    BY <1>1 DEF Begin, LinkInv, TypeOK, IsEvent
  <2>2. Pend(s) /\ AtTail(s)
    BY <1>1, <2>1 DEF Begin, TypeOK
  <2>3. \A t \in Sessions \ {s} : Pend(t) /\ AtTail(t)
    <3>1. UNCHANGED <<events, pending, tail>>
      BY <1>1 DEF Begin
    <3>2. \A t \in Sessions \ {s} : org'[t] = org[t] /\ pc'[t] = pc[t]
      BY <1>1 DEF Begin, TypeOK
    <3> QED BY <1>A, <3>1, <3>2
  <2>4. events' = events
    BY <1>1 DEF Begin
  <2>5. \A e \in events' : Anchored(e, events')
    BY <2>4 DEF LinkInv
  <2> QED BY <1>0, <2>2, <2>3, <2>5
<1>2. ASSUME NEW s \in Sessions, RecordTail(s)
      PROVE  LinkInv'
  <2>1. UNCHANGED <<events, pending, org>>
    BY <1>2 DEF RecordTail
  <2>2. AtTail(s)
    <3>1. CASE tail' = [tail EXCEPT ![s] = Genesis]
      BY <3>1 DEF TypeOK
    <3>2. ASSUME NEW e \in Visible(s), IsTail(e, s), tail' = [tail EXCEPT ![s] = e.hash]
          PROVE  AtTail(s)
      <4>1. tail'[s] = e.hash /\ e.org = org'[s] /\ e \in events' \cup pending'[s]
        BY <2>1, <3>2 DEF IsTail, Visible, TypeOK
      <4> QED BY <4>1
    <3> QED BY <1>2, <3>1, <3>2 DEF RecordTail
  <2>3. Pend(s)
    BY <2>1 DEF LinkInv, Visible
  <2>4. \A t \in Sessions \ {s} : Pend(t) /\ AtTail(t)
    <3>1. \E h : tail' = [tail EXCEPT ![s] = h]
      BY <1>2 DEF RecordTail
    <3>2. pc' = [pc EXCEPT ![s] = "append"]
      BY <1>2 DEF RecordTail
    <3>3. \A t \in Sessions \ {s} : tail'[t] = tail[t] /\ pc'[t] = pc[t]
      BY <3>1, <3>2 DEF TypeOK
    <3> QED BY <1>A, <2>1, <3>3
  <2>5. \A e \in events' : Anchored(e, events')
    BY <2>1 DEF LinkInv
  <2> QED BY <1>0, <2>2, <2>3, <2>4, <2>5
<1>3. ASSUME NEW s \in Sessions, NEW text \in Texts, RecordFlush(s, text)
      PROVE  LinkInv'
  <2>1. PICK n : n = Event(nextId, org[s], text, tail[s])
    OBVIOUS
  <2>2. n.org = org[s] /\ n.id = nextId /\ n.prev = tail[s]
    BY <2>1 DEF Event
  <2>3. pending'[s] = pending[s] \cup {n} /\ events' = events /\ org'[s] = org[s]
    BY <1>3, <2>1 DEF RecordFlush, TypeOK
  <2>4. Anchored(n, Visible(s))
    BY <1>3, <2>2 DEF RecordFlush, LinkInv, Visible, Anchored, TypeOK
  <2>5. Pend(s)
    <3>1. Visible(s) \subseteq events' \cup pending'[s]
      BY <2>3 DEF Visible
    <3>2. \A e \in pending'[s] : e.org = org'[s] /\ Anchored(e, Visible(s))
      BY <2>2, <2>3, <2>4 DEF LinkInv
    <3> QED BY <3>1, <3>2, AnchoredMono
  <2>6. AtTail(s)
    BY <1>3 DEF RecordFlush, TypeOK
  <2>7. \A t \in Sessions \ {s} : Pend(t) /\ AtTail(t)
    <3>1. /\ events' = events /\ UNCHANGED <<org, tail>>
          /\ \A t \in Sessions \ {s} : pending'[t] = pending[t] /\ pc'[t] = pc[t]
      BY <1>3 DEF RecordFlush, TypeOK
    <3> QED BY <1>A, <3>1
  <2>8. \A e \in events' : Anchored(e, events')
    BY <2>3 DEF LinkInv
  <2> QED BY <1>0, <2>5, <2>6, <2>7, <2>8
<1>4. ASSUME NEW s \in Sessions, Stream(s)
      PROVE  LinkInv'
  <2>1. UNCHANGED <<events, pending, org, tail>>
    BY <1>4 DEF Stream
  <2>2. \A t \in Sessions : pc'[t] = "append" => pc[t] = "append"
    BY <1>4 DEF Stream, TypeOK
  <2> QED BY <1>0, <2>1, <2>2 DEF LinkInv, Visible
<1>5. ASSUME NEW s \in Sessions, Commit(s)
      PROVE  LinkInv'
  <2>1. events' = events \cup pending[s] /\ Close({s})
    BY <1>5 DEF Commit
  <2>2. \A e \in events' : Anchored(e, events')
    BY <2>1, AnchoredMono DEF LinkInv, Visible
  <2> QED BY <1>0, <1>B, <2>1, <2>2
<1>6. ASSUME NEW s \in Sessions, Rollback(s)
      PROVE  LinkInv'
  <2>1. events' = events /\ Close({s})
    BY <1>6 DEF Rollback
  <2> QED BY <1>0, <1>B, <2>1 DEF LinkInv
<1>7. ASSUME NEW p \in Procs, Crash(p)
      PROVE  LinkInv'
  <2>1. events' = events /\ \E S \in SUBSET Sessions : Close(S)
    BY <1>7 DEF Crash
  <2> QED BY <1>0, <1>B, <2>1 DEF LinkInv
<1>8. CASE UNCHANGED vars
  BY <1>0, <1>8 DEF vars, LinkInv, Visible
<1> QED
  BY <1>1, <1>2, <1>3, <1>4, <1>5, <1>6, <1>7, <1>8, TampersCounted DEF Next, Record

\* record: however many transactions of a firm overlap, and whichever of them
\* roll back or die, a committed event names a committed event of its firm, as
\* long as nobody changes the table by hand.
THEOREM LinksCommitted == Spec => []NoDanglingLink
<1> DEFINE Inv == tampers = 0 => LinkInv
<1>1. Init => Inv
  BY DEF Init, LinkInv
<1>2. TypeOK /\ TypeOK' /\ Inv /\ [Next]_vars => Inv'
  BY LinkStep, TampersCounted
<1>3. Inv => NoDanglingLink
  BY DEF LinkInv, NoDanglingLink, Anchored
<1> QED BY <1>1, <1>2, <1>3, TypeCorrect, PTL DEF Spec

----------------------------------------------------------------------------
(* The chain verifies: until the table is tampered with, for every firm whose transactions have not overlapped *)

\* What the transaction of session s sees of its firm's chain.
View(s) == {e \in events \cup pending[s] : e.org = org[s]}

Top(e, S) == e \in S /\ \A f \in S : f.id <= e.id

\* Every row is linked to the one before it and matches its digest, and there
\* is a last row unless there is none at all.
Good(S) ==
    /\ \A e \in S : Linked(e, S) /\ Sealed(e)
    /\ S = {} \/ \E e \in S : Top(e, S)

\* The hash that the next row of S must name.
IsNextLink(h, S) == (S = {} /\ h = Genesis) \/ \E e \in S : Top(e, S) /\ h = e.hash

Serial(s) == org[s] # None /\ org[s] \notin overlapped

\* The chain verifies, and goes on to do so when the open transaction commits;
\* a tail read in progress is still right when the row is flushed.
SerialInv ==
    /\ \A s, t \in Sessions : Serial(s) /\ org[s] = org[t] => s = t
    /\ \A s \in Sessions : \A e \in pending[s] : e.org = org[s]
    /\ \A o \in Orgs \ overlapped : Good(Chain(o))
    /\ \A s \in Sessions : Serial(s) => Good(View(s))
    /\ \A s \in Sessions : Serial(s) /\ pc[s] = "append" => IsNextLink(tail[s], View(s))

\* Appending a row with a new, largest id to a chain that verifies.
LEMMA AppendGood ==
    ASSUME NEW S, Good(S), \A e \in S : IsEvent(e),
           NEW n, IsEvent(n), \A e \in S : e.id < n.id, Sealed(n), IsNextLink(n.prev, S)
    PROVE  Good(S \cup {n})
<1> DEFINE T == S \cup {n}
<1>1. ASSUME NEW e \in S PROVE Linked(e, T)
  <2>1. Linked(e, S) /\ e.id < n.id /\ IsEvent(e)
    BY <1>1 DEF Good
  <2> QED BY <2>1 DEF Linked, IsEvent
<1>2. Linked(n, T)
  <2>1. CASE S = {} /\ n.prev = Genesis
    BY <2>1 DEF Linked, IsEvent
  <2>2. ASSUME NEW e \in S, Top(e, S), n.prev = e.hash
        PROVE  Linked(n, T)
    BY <2>2 DEF Linked, Top, IsEvent
  <2> QED BY <2>1, <2>2 DEF IsNextLink
<1>3. Top(n, T)
  BY DEF Top, IsEvent
<1> QED BY <1>1, <1>2, <1>3 DEF Good

LEMMA SerialStep ==
    ASSUME TypeOK, TypeOK', SerialInv, [Next]_vars, tampers' = 0
    PROVE  SerialInv'
<1> DEFINE Alone == \A s, t \in Sessions : Serial(s)' /\ org'[s] = org'[t] => s = t
           Own(s) == \A e \in pending'[s] : e.org = org'[s]
           Viewed(s) == Serial(s)' => Good(View(s)')
           AtTail(s) == Serial(s)' /\ pc'[s] = "append" => IsNextLink(tail'[s], View(s)')
           Chained(o) == o \notin overlapped' => Good(Chain(o)')
<1>0. ASSUME Alone, \A s \in Sessions : Own(s) /\ Viewed(s) /\ AtTail(s), \A o \in Orgs : Chained(o)
      PROVE  SerialInv'
  BY <1>0 DEF SerialInv, Serial, Good, IsNextLink, Top, Linked, Sealed, compute_hash, View, Chain
<1>C. ASSUME events' = events, overlapped \subseteq overlapped' PROVE \A o \in Orgs : Chained(o)
  <2>1. \A o \in Orgs : Chain(o)' = Chain(o)
    BY <1>C DEF Chain
  <2> QED BY <1>C, <2>1 DEF SerialInv, Serial
\* A session the step does not touch.
<1>A. ASSUME NEW s \in Sessions, pending'[s] = pending[s], org'[s] = org[s],
             pc'[s] = pc[s] \/ pc'[s] # "append", tail'[s] = tail[s],
             \A e \in events' : e \in events \/ e.org # org[s] \/ org[s] \in overlapped,
             events \subseteq events', overlapped \subseteq overlapped'
      PROVE  Own(s) /\ Viewed(s) /\ AtTail(s)
  <2>1. org[s] \notin overlapped => View(s)' = View(s)
    BY <1>A DEF View
  <2> QED BY <1>A, <2>1 DEF SerialInv, Serial
\* Transactions that end without a commit.
<1>B. ASSUME NEW S \in SUBSET Sessions, Close(S), events' = events, overlapped' = overlapped
      PROVE  SerialInv'
  <2>1. Alone
    BY <1>B, ClosedSessions DEF SerialInv, Serial
  <2>2. \A s \in Sessions : Own(s) /\ Viewed(s) /\ AtTail(s)
    BY <1>A, <1>B, ClosedSessions DEF Serial
  <2> QED BY <1>0, <1>C, <1>B, <2>1, <2>2
<1>1. ASSUME NEW s \in Sessions, NEW o \in Orgs, Begin(s, o)
      PROVE  SerialInv'
  <2>1. /\ events' = events /\ pending' = pending /\ tail' = tail
        /\ org' = [org EXCEPT ![s] = o] /\ pc' = [pc EXCEPT ![s] = "open"]
        /\ overlapped \subseteq overlapped'
        /\ o \notin overlapped' => o \notin overlapped /\ \A t \in Sessions : org[t] # o
    BY <1>1 DEF Begin
  <2>2. pending[s] = {}
    BY <1>1 DEF Begin, SerialInv, Serial, TypeOK, IsEvent
  <2>3. Alone
    BY <1>1, <2>1 DEF Begin, SerialInv, Serial, TypeOK
  <2>4. Own(s) /\ Viewed(s) /\ AtTail(s)
    <3>1. org'[s] = o /\ pc'[s] = "open"
      BY <2>1 DEF TypeOK
    <3>2. View(s)' = Chain(o)
      BY <2>1, <2>2, <3>1 DEF View, Chain
    <3> QED BY <2>1, <2>2, <3>1, <3>2 DEF SerialInv, Serial
  <2>5. \A t \in Sessions \ {s} : Own(t) /\ Viewed(t) /\ AtTail(t)
    BY <2>1, <1>A DEF TypeOK
  <2> QED BY <1>0, <1>C, <2>1, <2>3, <2>4, <2>5
<1>2. ASSUME NEW s \in Sessions, RecordTail(s)
      PROVE  SerialInv'
  <2>1. UNCHANGED <<events, pending, org, overlapped>>
    BY <1>2 DEF RecordTail
  <2>2. View(s)' = View(s) /\ org[s] # None /\ (Serial(s) => Good(View(s)))
    BY <1>2, <2>1 DEF View, RecordTail, SerialInv, Serial, TypeOK
  <2>3. \A e : IsTail(e, s) <=> Top(e, View(s))
    BY DEF IsTail, Top, View, Visible
  <2>4. ASSUME Serial(s) PROVE IsNextLink(tail'[s], View(s))
    <3>1. ASSUME NEW e \in Visible(s), IsTail(e, s), tail' = [tail EXCEPT ![s] = e.hash]
          PROVE  IsNextLink(tail'[s], View(s))
      BY <2>3, <3>1 DEF IsNextLink, Top, TypeOK
    <3>2. CASE ~(\E e \in Visible(s) : IsTail(e, s)) /\ tail' = [tail EXCEPT ![s] = Genesis]
      <4>1. ~(\E e \in View(s) : Top(e, View(s)))
        BY <2>3, <3>2 DEF View, Visible
      <4>2. tail'[s] = Genesis
        BY <3>2 DEF TypeOK
      <4> QED BY <2>2, <2>4, <4>1, <4>2 DEF Good, IsNextLink
    <3> QED BY <1>2, <3>1, <3>2 DEF RecordTail
  <2>5. Own(s) /\ Viewed(s) /\ AtTail(s)
    BY <2>1, <2>2, <2>4 DEF SerialInv, Serial
  <2>6. \A t \in Sessions \ {s} : Own(t) /\ Viewed(t) /\ AtTail(t)
    <3>1. \E h : tail' = [tail EXCEPT ![s] = h]
      BY <1>2 DEF RecordTail
    <3>2. pc' = [pc EXCEPT ![s] = "append"]
      BY <1>2 DEF RecordTail
    <3> QED BY <1>A, <2>1, <3>1, <3>2 DEF TypeOK
  <2>7. Alone
    BY <2>1 DEF SerialInv, Serial
  <2> QED BY <1>0, <1>C, <2>1, <2>5, <2>6, <2>7
<1>3. ASSUME NEW s \in Sessions, NEW text \in Texts, RecordFlush(s, text)
      PROVE  SerialInv'
  <2>1. PICK n : n = Event(nextId, org[s], text, tail[s])
    OBVIOUS
  <2>2. n.org = org[s] /\ n.id = nextId /\ n.prev = tail[s] /\ Sealed(n)
    BY <2>1 DEF Event, Sealed
  <2>3. /\ events' = events /\ org' = org /\ tail' = tail /\ overlapped' = overlapped
        /\ pending' = [pending EXCEPT ![s] = @ \cup {n}]
        /\ pc' = [pc EXCEPT ![s] = "stream"] /\ pc[s] = "append"
    BY <1>3, <2>1 DEF RecordFlush
  <2>4. org[s] \in Orgs /\ org[s] # None /\ nextId \in Nat \ {0}
    BY <2>3 DEF TypeOK
  <2>5. View(s)' = View(s) \cup {n}
    BY <2>2, <2>3 DEF View, TypeOK
  <2>6. \A e \in View(s) : IsEvent(e) /\ e.id < n.id
    BY <2>2 DEF View, TypeOK
  <2>7. IsEvent(n)
    BY <1>3, <2>1, <2>4 DEF IsEvent, Event
  <2>8. ASSUME Serial(s) PROVE Good(View(s)')
    <3>1. Good(View(s)) /\ IsNextLink(n.prev, View(s))
      BY <2>2, <2>3, <2>8 DEF SerialInv
    <3> QED BY <2>2, <2>5, <2>6, <2>7, <3>1, AppendGood
  <2>9. Own(s) /\ Viewed(s) /\ AtTail(s)
    BY <2>2, <2>3, <2>8 DEF SerialInv, Serial, TypeOK
  <2>10. \A t \in Sessions \ {s} : Own(t) /\ Viewed(t) /\ AtTail(t)
    BY <2>3, <1>A DEF TypeOK
  <2>11. Alone
    BY <2>3 DEF SerialInv, Serial
  <2> QED BY <1>0, <1>C, <2>3, <2>9, <2>10, <2>11
<1>4. ASSUME NEW s \in Sessions, Stream(s)
      PROVE  SerialInv'
  <2>1. UNCHANGED <<events, pending, org, tail, overlapped>> /\ pc' = [pc EXCEPT ![s] = "open"]
    BY <1>4 DEF Stream
  <2>2. \A t \in Sessions : Own(t) /\ Viewed(t) /\ AtTail(t)
    BY <2>1, <1>A DEF TypeOK
  <2>3. Alone
    BY <2>1 DEF SerialInv, Serial
  <2> QED BY <1>0, <1>C, <2>1, <2>2, <2>3
<1>5. ASSUME NEW s \in Sessions, Commit(s)
      PROVE  SerialInv'
  <2>1. events' = events \cup pending[s] /\ Close({s}) /\ pc[s] = "open" /\ overlapped' = overlapped
    BY <1>5 DEF Commit
  <2>2. org[s] \in Orgs /\ org[s] # None /\ \A e \in pending[s] : e.org = org[s]
    BY <2>1 DEF TypeOK, SerialInv, Serial
  <2>3. \A o \in Orgs : Chained(o)
    <3> TAKE o \in Orgs
    <3>1. CASE o = org[s]
      <4>1. Chain(o)' = View(s)
        BY <2>1, <2>2, <3>1 DEF Chain, View
      <4> QED BY <2>1, <2>2, <3>1, <4>1 DEF SerialInv, Serial
    <3>2. CASE o # org[s]
      <4>1. Chain(o)' = Chain(o)
        BY <2>1, <2>2, <3>2 DEF Chain
      <4> QED BY <2>1, <4>1 DEF SerialInv
    <3> QED BY <3>1, <3>2
  <2>4. \A t \in Sessions : Own(t) /\ Viewed(t) /\ AtTail(t)
    <3> TAKE t \in Sessions
    <3>1. CASE t = s
      BY <2>1, <3>1, ClosedSessions DEF Serial
    <3>2. CASE t # s
      <4>1. org[t] # org[s] \/ org[t] \in overlapped
        BY <2>2, <3>2 DEF SerialInv, Serial
      <4>2. \A e \in events' : e \in events \/ e.org # org[t] \/ org[t] \in overlapped
        BY <2>1, <2>2, <4>1
      <4> QED BY <1>A, <2>1, <3>2, <4>2, ClosedSessions
    <3> QED BY <3>1, <3>2
  <2>5. Alone
    BY <2>1, ClosedSessions DEF SerialInv, Serial
  <2> QED BY <1>0, <2>3, <2>4, <2>5
<1>6. ASSUME NEW s \in Sessions, Rollback(s)
      PROVE  SerialInv'
  BY <1>6, <1>B DEF Rollback
<1>7. ASSUME NEW p \in Procs, Crash(p)
      PROVE  SerialInv'
  BY <1>7, <1>B DEF Crash
<1>8. CASE UNCHANGED vars
  <2>1. UNCHANGED <<events, pending, org, tail, pc, overlapped>>
    BY <1>8 DEF vars
  <2> QED BY <1>0, <1>A, <1>C, <2>1 DEF SerialInv, Serial
<1> QED
  BY <1>1, <1>2, <1>3, <1>4, <1>5, <1>6, <1>7, <1>8, TampersCounted DEF Next, Record

\* record and verify_chain: while a firm's transactions run one after another,
\* in whatever processes and beside those of other firms, its chain verifies in
\* every state, rollbacks and crashes included, until the table is changed by hand.
THEOREM ChainVerifies == Spec => []SerialChainIntact
<1> DEFINE Inv == tampers = 0 => SerialInv
<1>1. Init => Inv
  BY DEF Init, SerialInv, Serial, Chain, View, Good
<1>2. TypeOK /\ TypeOK' /\ Inv /\ [Next]_vars => Inv'
  BY SerialStep, TampersCounted
<1>3. Inv => SerialChainIntact
  BY DEF SerialInv, Serial, SerialChainIntact, verify_chain, Good
<1> QED BY <1>1, <1>2, <1>3, TypeCorrect, PTL DEF Spec

----------------------------------------------------------------------------
(* What a chain that verifies says, whatever is done to the table by hand *)

Shaped(e) ==
    e = [id |-> e.id, org |-> e.org, text |-> e.text, prev |-> e.prev, hash |-> e.hash]

\* The row r before somebody changed its text.
Original(r, e) == r.id = e.id /\ r.org = e.org /\ r.prev = e.prev /\ r.hash = e.hash

\* record() writes rows that match their digest; an UPDATE by hand cannot give
\* a row another digest, link, firm or id.
GenuineInv ==
    /\ \A e \in recorded : Shaped(e) /\ Sealed(e)
    /\ \A s \in Sessions : \A e \in pending[s] : Shaped(e) /\ Sealed(e)
    /\ \A e \in events : Shaped(e) /\ \E r \in recorded : Original(r, e)

\* Two rows that match one and the same digest are the same row.
LEMMA DigestIdentifies ==
    ASSUME NEW e, NEW f, Shaped(e), Shaped(f), Sealed(e), Sealed(f), e.hash = f.hash
    PROVE  e = f
<1>1. <<e.prev, e.org, e.text, e.id>> = <<f.prev, f.org, f.text, f.id>>
  BY DEF Sealed, compute_hash
<1>2. e.prev = f.prev /\ e.org = f.org /\ e.text = f.text /\ e.id = f.id
  BY <1>1
<1> QED BY <1>2 DEF Shaped

LEMMA GenuineStep ==
    ASSUME TypeOK, GenuineInv, [Next]_vars
    PROVE  GenuineInv'
<1>1. ASSUME UNCHANGED <<events, recorded>>,
             \A s \in Sessions : pending'[s] \subseteq pending[s]
      PROVE  GenuineInv'
  <2>1. \A s \in Sessions : \A e \in pending'[s] : e \in pending[s]
    BY <1>1
  <2> QED BY <1>1, <2>1 DEF GenuineInv, Shaped, Sealed, Original, compute_hash
<1>2. ASSUME NEW s \in Sessions, NEW text \in Texts, RecordFlush(s, text)
      PROVE  GenuineInv'
  <2>1. PICK n : n = Event(nextId, org[s], text, tail[s])
    OBVIOUS
  <2>2. Shaped(n) /\ Sealed(n)
    BY <2>1 DEF Event, Shaped, Sealed
  <2>3. /\ events' = events /\ recorded' = recorded
        /\ \A t \in Sessions : \A e \in pending'[t] : e \in pending[t] \/ e = n
    BY <1>2, <2>1 DEF RecordFlush, TypeOK
  <2> QED BY <2>2, <2>3 DEF GenuineInv, Shaped, Sealed, Original, compute_hash
<1>3. ASSUME NEW s \in Sessions, Commit(s)
      PROVE  GenuineInv'
  <2>1. /\ events' = events \cup pending[s] /\ recorded' = recorded \cup pending[s]
        /\ \A t \in Sessions : \A e \in pending'[t] : e \in pending[t]
    BY <1>3, ClosedSessions DEF Commit, Close
  <2>2. \A e \in events' : Shaped(e) /\ \E r \in recorded' : Original(r, e)
    BY <2>1 DEF GenuineInv, Original
  <2>3. \A e \in recorded' : Shaped(e) /\ Sealed(e)
    BY <2>1 DEF GenuineInv
  <2> QED BY <2>1, <2>2, <2>3 DEF GenuineInv, Shaped, Sealed, Original, compute_hash
<1>4. ASSUME NEW e \in events, NEW text \in Texts, Edit(e, text)
      PROVE  GenuineInv'
  <2>1. PICK n : n = [e EXCEPT !.text = text]
    OBVIOUS
  <2>2. Shaped(e) /\ \E r \in recorded : Original(r, e)
    BY DEF GenuineInv
  <2>3. n = [id |-> e.id, org |-> e.org, text |-> text, prev |-> e.prev, hash |-> e.hash]
    BY <2>1, <2>2 DEF Shaped
  <2>4. Shaped(n) /\ \E r \in recorded : Original(r, n)
    BY <2>2, <2>3 DEF Shaped, Original
  <2>5. /\ events' = (events \ {e}) \cup {n}
        /\ recorded' = recorded /\ pending' = pending
    BY <1>4, <2>1 DEF Edit
  <2>6. \A f \in events' : Shaped(f) /\ \E r \in recorded' : Original(r, f)
    BY <2>4, <2>5 DEF GenuineInv
  <2> QED BY <2>5, <2>6 DEF GenuineInv, Shaped, Sealed, Original, compute_hash
<1>5. ASSUME NEW e \in events, Delete(e)
      PROVE  GenuineInv'
  <2>1. events' \subseteq events /\ recorded' = recorded /\ pending' = pending
    BY <1>5 DEF Delete
  <2> QED BY <2>1 DEF GenuineInv, Shaped, Sealed, Original, compute_hash
<1>6. ASSUME NEW s \in Sessions,
             \/ \E o \in Orgs : Begin(s, o)
             \/ RecordTail(s) \/ Stream(s) \/ Rollback(s)
      PROVE  GenuineInv'
  BY <1>1, <1>6 DEF Begin, RecordTail, Stream, Rollback, Close
<1>7. ASSUME NEW p \in Procs, Crash(p)
      PROVE  GenuineInv'
  BY <1>1, <1>7 DEF Crash, Close
<1>8. CASE UNCHANGED vars
  BY <1>1, <1>8 DEF vars
<1> QED BY <1>2, <1>3, <1>4, <1>5, <1>6, <1>7, <1>8 DEF Next, Record

\* verify_chain: whatever was changed or deleted by hand, and however often, a
\* chain that verifies holds only rows as record() wrote them, and no row whose
\* predecessor is gone.
THEOREM VerifiedMeansGenuine == Spec => []IntactMeansGenuine
<1>1. Init => GenuineInv
  BY DEF Init, GenuineInv
<1>2. TypeOK /\ GenuineInv /\ [Next]_vars => GenuineInv'
  BY GenuineStep
<1>3. GenuineInv => IntactMeansGenuine
  <2> SUFFICES ASSUME GenuineInv, NEW o \in Orgs, verify_chain(o), NEW e \in Chain(o)
               PROVE  e \in recorded /\ \A g \in recorded : g.hash = e.prev => g \in events
    BY DEF IntactMeansGenuine
  <2>1. \A f \in Chain(o) : f \in events /\ Shaped(f) /\ Sealed(f)
    BY DEF GenuineInv, verify_chain, Chain
  <2>2. PICK r \in recorded : Original(r, e)
    BY <2>1 DEF GenuineInv
  <2>3. r = e
    BY <2>1, <2>2, DigestIdentifies DEF GenuineInv, Original
  <2>4. ASSUME NEW g \in recorded, g.hash = e.prev PROVE g \in events
    <3>1. g.hash # Genesis
      BY DEF GenuineInv, Sealed, compute_hash, Genesis
    <3>2. PICK f \in Chain(o) : e.prev = f.hash
      BY <2>4, <3>1 DEF verify_chain, Linked
    <3>3. f = g
      BY <2>1, <2>4, <3>2, DigestIdentifies DEF GenuineInv
    <3> QED BY <2>1, <3>3
  <2> QED BY <2>3, <2>4
<1> QED BY <1>1, <1>2, <1>3, TypeCorrect, PTL DEF Spec
=============================================================================
