-------------------------------- MODULE Sums --------------------------------
(***************************************************************************)
(* What the folds of the community modules add up to, and the extremes of  *)
(* sets of numbers.  The library states nothing about them, and its        *)
(* induction theorems take an operator as a parameter; the lemmas on sums  *)
(* are therefore proved from an induction over a set of subsets.           *)
(***************************************************************************)
EXTENDS Integers, Sequences, FiniteSetsExt, Functions, FiniteSetTheorems, WellFoundedInduction, TLAPS

Sum(f, S) == SumFunctionOnSet(f, S)

\* The element a fold takes next.
Chosen(s) == CHOOSE x \in s : TRUE

-----------------------------------------------------------------------------
(* Least and greatest elements.                                             *)

\* A set of numbers has a least element.
LEMMA MinExists ==
    ASSUME NEW S \in SUBSET Nat, S # {}
    PROVE  Min(S) \in S /\ \A x \in S : Min(S) <= x
<1>1. PICK m \in S : \A k \in S : <<k, m>> \notin OpToRel(<, Nat)
    BY WFMin, NatLessThanWellFounded, Zenon
<1>2. \A k \in S : ~(k < m)
    BY <1>1, Zenon DEF OpToRel
<1>3. \A k \in S : m <= k
    <2>. SUFFICES ASSUME NEW k \in S PROVE m <= k
        OBVIOUS
    <2>1. m \in Nat /\ k \in Nat /\ ~(k < m)
        BY <1>2
    <2>. QED BY <2>1
<1>. QED BY <1>1, <1>3 DEF Min

\* A finite set of numbers has a bound: of its enumeration, the shortest
\* prefix without one would be longer by one number than a prefix with one.
LEMMA FiniteBounded ==
    ASSUME NEW S \in SUBSET Nat, IsFiniteSet(S)
    PROVE  \E b \in Nat : \A x \in S : x <= b
<1>1. PICK seq \in Seq(S) : \A x \in S : \E n \in 1..Len(seq) : seq[n] = x
    BY DEF IsFiniteSet
<1>2. PICK T : T = {n \in 0..Len(seq) : ~ \E b \in Nat : \A i \in 1..n : seq[i] <= b}
    OBVIOUS
<1>3. T \in SUBSET Nat
    BY <1>1, <1>2
<1>4. T = {}
    <2>. SUFFICES ASSUME T # {} PROVE FALSE
        OBVIOUS
    <2>1. PICK m : m = Min(T)
        OBVIOUS
    <2>2. m \in T /\ \A x \in T : m <= x
        BY <1>3, <2>1, MinExists
    <2>3. m \in 0..Len(seq) /\ Len(seq) \in Nat
        BY <1>1, <1>2, <2>2
    <2>4. m # 0
        <3>1. \A i \in 1..0 : seq[i] <= 0
            OBVIOUS
        <3>. QED BY <1>2, <2>2, <3>1
    <2>5. m - 1 \in 0..Len(seq) /\ m - 1 \notin T
        BY <2>2, <2>3, <2>4
    <2>6. PICK b \in Nat : \A i \in 1..m - 1 : seq[i] <= b
        BY <1>2, <2>5
    <2>7. seq[m] \in Nat
        <3>1. m \in 1..Len(seq)
            BY <2>3, <2>4
        <3>2. seq[m] \in S
            BY <1>1, <3>1
        <3>. QED BY <3>2
    <2>8. b + seq[m] \in Nat /\ \A i \in 1..m : seq[i] <= b + seq[m]
        <3>. SUFFICES ASSUME NEW i \in 1..m PROVE seq[i] <= b + seq[m]
            BY <2>7
        <3>1. seq[i] \in Nat
            <4>1. i \in 1..Len(seq)
                BY <2>3
            <4>2. seq[i] \in S
                BY <1>1, <4>1
            <4>. QED BY <4>2
        <3>2. i = m \/ i \in 1..m - 1
            BY <2>3
        <3>. QED BY <2>6, <2>7, <3>1, <3>2
    <2>. QED BY <1>2, <2>2, <2>8
<1>5. PICK b \in Nat : \A i \in 1..Len(seq) : seq[i] <= b
    <2>1. Len(seq) \in 0..Len(seq)
        BY <1>1
    <2>. QED BY <1>2, <1>4, <2>1
<1>. QED BY <1>1, <1>5

\* A finite set of numbers has a greatest element.
LEMMA MaxExists ==
    ASSUME NEW S \in SUBSET Nat, S # {}, IsFiniteSet(S)
    PROVE  Max(S) \in S /\ \A x \in S : x <= Max(S)
<1>1. PICK b \in Nat : \A x \in S : x <= b
    BY FiniteBounded
<1>2. PICK U : U = {c \in Nat : \A x \in S : x <= c}
    OBVIOUS
<1>3. PICK m : m = Min(U)
    OBVIOUS
<1>4. m \in U /\ (\A c \in U : m <= c) /\ m \in Nat
    BY <1>1, <1>2, <1>3, MinExists
<1>5. m \in S
    <2>. SUFFICES ASSUME m \notin S PROVE FALSE
        OBVIOUS
    <2>1. PICK y \in S : TRUE
        OBVIOUS
    <2>2. \A x \in S : x <= m - 1
        BY <1>2, <1>4
    <2>3. m - 1 \in Nat
        BY <1>4, <2>1, <2>2
    <2>. QED BY <1>2, <1>4, <2>2, <2>3
<1>6. \A x \in S : m >= x
    BY <1>2, <1>4
<1>7. Max(S) \in S /\ \A x \in S : Max(S) >= x
    BY <1>5, <1>6 DEF Max
<1>. QED BY <1>7

-----------------------------------------------------------------------------
\* A family of subsets that has a finite set's subset whenever it has what is
\* left of it without any one of its elements has the set itself.
LEMMA SubsetInduction ==
    ASSUME NEW S, IsFiniteSet(S), NEW T,
           \A s \in SUBSET S : (\A x \in s : s \ {x} \in T) => s \in T
    PROVE  S \in T
<1>. SUFFICES ASSUME S \notin T PROVE FALSE
    OBVIOUS
<1>1. PICK N : N = {Cardinality(s) : s \in (SUBSET S) \ T}
    OBVIOUS
<1>2. \A s \in SUBSET S : IsFiniteSet(s) /\ Cardinality(s) \in Nat
    BY FS_Subset, FS_CardinalityType
<1>3. N \in SUBSET Nat /\ N # {}
    BY <1>1, <1>2
<1>4. PICK n \in N : \A k \in N : <<k, n>> \notin OpToRel(<, Nat)
    BY <1>3, WFMin, NatLessThanWellFounded, Zenon
<1>5. PICK s \in (SUBSET S) \ T : n = Cardinality(s)
    BY <1>1
<1>6. ASSUME NEW x \in s PROVE s \ {x} \in T
    <2>1. Cardinality(s \ {x}) = Cardinality(s) - 1
        BY <1>2, <1>5, FS_RemoveElement
    <2>2. Cardinality(s \ {x}) \in Nat /\ Cardinality(s) \in Nat
        BY <1>2, <1>5
    <2>3. Cardinality(s \ {x}) < n /\ n \in Nat
        BY <1>5, <2>1, <2>2
    <2>4. s \ {x} \notin T => Cardinality(s \ {x}) \in N
        BY <1>1, <1>5
    <2>5. <<Cardinality(s \ {x}), n>> \in OpToRel(<, Nat)
        BY <2>2, <2>3, Zenon DEF OpToRel
    <2>. QED BY <1>4, <2>4, <2>5
<1>. QED BY <1>5, <1>6

-----------------------------------------------------------------------------
(* The function a fold is computed by.                                      *)

\* What the fold of f computes for every subset of S, if it can.
IsFold(g, f, S) ==
    g = [s \in SUBSET S |-> IF s = {} THEN 0 ELSE f[Chosen(s)] + g[s \ {Chosen(s)}]]

LEMMA ChosenIn == ASSUME NEW s, s # {} PROVE Chosen(s) \in s
BY DEF Chosen

LEMMA SumIsFold ==
    ASSUME NEW f, NEW S
    PROVE  Sum(f, S) = (CHOOSE g : IsFold(g, f, S))[S]
BY Zenon DEF Sum, SumFunctionOnSet, FoldFunctionOnSet, MapThenFoldSet, IsFold, Chosen

LEMMA NatSetInduction ==
    ASSUME NEW T, 0 \in T, \A n \in Nat : n \in T => n + 1 \in T
    PROVE  \A n \in Nat : n \in T
<1>. SUFFICES ASSUME Nat \ T # {} PROVE FALSE
    OBVIOUS
<1>1. PICK n \in Nat \ T : \A k \in Nat \ T : <<k, n>> \notin OpToRel(<, Nat)
    BY WFMin, NatLessThanWellFounded, Zenon
<1>2. n # 0 /\ n \in Nat /\ n - 1 \in Nat /\ n - 1 < n /\ (n - 1) + 1 = n
    <2>1. n \in Nat /\ n \notin T
        OBVIOUS
    <2>. QED BY <2>1
<1>3. <<n - 1, n>> \in OpToRel(<, Nat)
    BY <1>1, <1>2, Zenon DEF OpToRel
<1>4. n - 1 \in T
    BY <1>1, <1>2, <1>3
<1>5. n \in T
    BY <1>2, <1>4
<1>. QED BY <1>5

\* It can: it is known of the sets of one more element once it is known of the
\* smaller ones.
LEMMA FoldExists ==
    ASSUME NEW S, IsFiniteSet(S), NEW f, \A x \in S : f[x] \in Int
    PROVE  \E g \in [SUBSET S -> Int] : IsFold(g, f, S)
<1>. DEFINE Value(g, s) == IF s = {} THEN 0 ELSE f[Chosen(s)] + g[s \ {Chosen(s)}]
            UpTo(n) == {s \in SUBSET S : Cardinality(s) <= n}
            T == {n \in Nat : \E g \in [SUBSET S -> Int] : \A s \in UpTo(n) : g[s] = Value(g, s)}
<1>1. \A s \in SUBSET S : IsFiniteSet(s) /\ Cardinality(s) \in Nat /\ (Cardinality(s) = 0 <=> s = {})
    BY FS_Subset, FS_CardinalityType, FS_EmptySet
<1>2. \A s \in SUBSET S : s # {} =>
        Chosen(s) \in s /\ Cardinality(s \ {Chosen(s)}) = Cardinality(s) - 1
    BY <1>1, ChosenIn, FS_RemoveElement
<1>3. 0 \in T
    <2>1. PICK g : g = [s \in SUBSET S |-> 0]
        OBVIOUS
    <2>2. g \in [SUBSET S -> Int] /\ \A s \in UpTo(0) : g[s] = Value(g, s)
        BY <1>1, <2>1
    <2>. QED BY <2>2
<1>4. ASSUME NEW n \in Nat, n \in T PROVE n + 1 \in T
    <2>1. PICK g \in [SUBSET S -> Int] : \A s \in UpTo(n) : g[s] = Value(g, s)
        BY <1>4
    <2>2. PICK h : h = [s \in SUBSET S |-> Value(g, s)]
        OBVIOUS
    <2>3. h \in [SUBSET S -> Int]
        <3>. SUFFICES ASSUME NEW s \in SUBSET S PROVE Value(g, s) \in Int
            BY <2>2
        <3>1. CASE s # {}
            <4>1. f[Chosen(s)] \in Int /\ g[s \ {Chosen(s)}] \in Int
                BY <1>2, <2>1, <3>1
            <4>. QED BY <4>1
        <3>. QED BY <3>1
    <2>4. ASSUME NEW s \in UpTo(n + 1) PROVE h[s] = Value(h, s)
        <3>1. CASE s # {}
            <4>1. s \ {Chosen(s)} \in UpTo(n)
                BY <1>1, <1>2, <3>1
            <4>2. h[s \ {Chosen(s)}] = g[s \ {Chosen(s)}]
                BY <2>1, <2>2, <4>1
            <4>. QED BY <2>2, <4>2
        <3>. QED BY <2>2, <3>1
    <2>. QED BY <2>3, <2>4
<1>5. Cardinality(S) \in T
    <2>. HIDE DEF T
    <2>. QED BY <1>1, <1>3, <1>4, NatSetInduction
<1>6. PICK g \in [SUBSET S -> Int] : \A s \in UpTo(Cardinality(S)) : g[s] = Value(g, s)
    BY <1>5
<1>7. \A s \in SUBSET S : Cardinality(s) <= Cardinality(S)
    BY FS_Subset
<1>8. \A s \in SUBSET S : g[s] = Value(g, s)
    BY <1>6, <1>7
<1>9. g = [s \in SUBSET S |-> Value(g, s)]
    BY <1>8
<1>. QED BY <1>9 DEF IsFold

\* It can in one way only.
LEMMA FoldUnique ==
    ASSUME NEW S, IsFiniteSet(S), NEW f, NEW g, NEW h, NEW R \in SUBSET S,
           IsFold(g, f, S), IsFold(h, f, R)
    PROVE  \A s \in SUBSET R : h[s] = g[s]
<1>. SUFFICES ASSUME NEW Q \in SUBSET R PROVE h[Q] = g[Q]
    OBVIOUS
<1>1. PICK T : T = {s \in SUBSET Q : h[s] = g[s]}
    OBVIOUS
<1>2. ASSUME NEW s \in SUBSET Q, \A x \in s : s \ {x} \in T PROVE s \in T
    <2>1. s \in SUBSET R /\ s \in SUBSET S
        OBVIOUS
    <2>2. /\ h[s] = IF s = {} THEN 0 ELSE f[Chosen(s)] + h[s \ {Chosen(s)}]
          /\ g[s] = IF s = {} THEN 0 ELSE f[Chosen(s)] + g[s \ {Chosen(s)}]
        BY <2>1 DEF IsFold
    <2>3. s # {} => h[s \ {Chosen(s)}] = g[s \ {Chosen(s)}]
        BY <1>1, <1>2, ChosenIn
    <2>. QED BY <1>1, <2>2, <2>3
<1>3. IsFiniteSet(Q)
    BY FS_Subset
<1>4. Q \in T
    BY <1>2, <1>3, SubsetInduction
<1>. QED BY <1>1, <1>4

\* What a fold computes for a subset, it computes for that subset alone.
IsSums(g, f, S) ==
    /\ g \in [SUBSET S -> Int]
    /\ IsFold(g, f, S) /\ \A s \in SUBSET S : Sum(f, s) = g[s]

LEMMA SumOfSubset ==
    ASSUME NEW S, IsFiniteSet(S), NEW f, \A x \in S : f[x] \in Int
    PROVE  \E g : IsSums(g, f, S)
<1>1. PICK g \in [SUBSET S -> Int] : IsFold(g, f, S)
    BY FoldExists
<1>2. ASSUME NEW s \in SUBSET S PROVE Sum(f, s) = g[s]
    <2>1. IsFiniteSet(s) /\ \A x \in s : f[x] \in Int
        BY FS_Subset
    <2>2. \E h : IsFold(h, f, s)
        BY <2>1, FoldExists
    <2>3. PICK h : h = CHOOSE k : IsFold(k, f, s)
        OBVIOUS
    <2>4. IsFold(h, f, s)
        BY <2>2, <2>3, Zenon
    <2>5. h[s] = g[s]
        BY <1>1, <2>4, FoldUnique
    <2>. QED BY <2>3, <2>5, SumIsFold
<1>. QED BY <1>1, <1>2 DEF IsSums

-----------------------------------------------------------------------------
(* Sums.                                                                    *)

LEMMA SumEmpty == ASSUME NEW f PROVE Sum(f, {}) = 0
<1>1. IsFiniteSet({}) /\ \A x \in {} : f[x] \in Int
    BY FS_EmptySet
<1>2. PICK g : IsSums(g, f, {})
    BY <1>1, SumOfSubset
<1>3. g[{}] = 0
    BY <1>2 DEF IsSums, IsFold
<1>. QED BY <1>2, <1>3 DEF IsSums

LEMMA SumStep ==
    ASSUME NEW S, IsFiniteSet(S), S # {}, NEW f, \A x \in S : f[x] \in Int
    PROVE  Sum(f, S) = f[Chosen(S)] + Sum(f, S \ {Chosen(S)})
<1>1. PICK g : IsSums(g, f, S)
    BY SumOfSubset
<1>2. g[S] = f[Chosen(S)] + g[S \ {Chosen(S)}]
    <2>1. S \in SUBSET S
        OBVIOUS
    <2>. QED BY <1>1, <2>1 DEF IsSums, IsFold
<1>. QED BY <1>1, <1>2 DEF IsSums

LEMMA SumInt ==
    ASSUME NEW S, IsFiniteSet(S), NEW f, \A x \in S : f[x] \in Int
    PROVE  Sum(f, S) \in Int
<1>1. PICK g : IsSums(g, f, S)
    BY SumOfSubset
<1>. QED BY <1>1 DEF IsSums

\* A sum is any one of its terms and the rest.
LEMMA SumTake ==
    ASSUME NEW S, IsFiniteSet(S), NEW f, \A x \in S : f[x] \in Int, NEW e \in S
    PROVE  Sum(f, S) = f[e] + Sum(f, S \ {e})
<1>1. PICK T : T = {s \in SUBSET S : \A x \in s : Sum(f, s) = f[x] + Sum(f, s \ {x})}
    OBVIOUS
<1>2. ASSUME NEW s \in SUBSET S, \A x \in s : s \ {x} \in T PROVE s \in T
    <2>. SUFFICES ASSUME NEW x \in s PROVE Sum(f, s) = f[x] + Sum(f, s \ {x})
        BY <1>1
    <2>0. \A t \in SUBSET s : IsFiniteSet(t) /\ Sum(f, t) \in Int
        <3>. SUFFICES ASSUME NEW t \in SUBSET s PROVE IsFiniteSet(t) /\ Sum(f, t) \in Int
            OBVIOUS
        <3>1. t \in SUBSET S
            OBVIOUS
        <3>2. IsFiniteSet(t)
            BY <3>1, FS_Subset
        <3>. QED BY <3>1, <3>2, SumInt
    <2>1. PICK y : y = Chosen(s)
        OBVIOUS
    <2>2. y \in s /\ f[x] \in Int /\ f[y] \in Int
        BY <2>1, ChosenIn
    <2>3. Sum(f, s) = f[y] + Sum(f, s \ {y})
        <3>1. IsFiniteSet(s)
            BY <2>0
        <3>. QED BY <2>1, <3>1, SumStep
    <2>4. CASE x # y
        <3>1. Sum(f, s \ {y}) = f[x] + Sum(f, (s \ {y}) \ {x})
            BY <1>1, <1>2, <2>2, <2>4
        <3>2. Sum(f, s \ {x}) = f[y] + Sum(f, (s \ {x}) \ {y})
            BY <1>1, <1>2, <2>2, <2>4
        <3>3. (s \ {y}) \ {x} = (s \ {x}) \ {y}
            OBVIOUS
        <3>4. Sum(f, (s \ {x}) \ {y}) \in Int
            BY <2>0
        <3>5. PICK rest \in Int : rest = Sum(f, (s \ {x}) \ {y})
            BY <3>4
        <3>6. Sum(f, s \ {y}) = f[x] + rest /\ Sum(f, s \ {x}) = f[y] + rest
            BY <3>1, <3>2, <3>3, <3>5
        <3>. QED BY <2>2, <2>3, <3>6
    <2>. QED BY <2>3, <2>4
<1>3. S \in T
    BY <1>2, SubsetInduction
<1>. QED BY <1>1, <1>3

LEMMA SumSame ==
    ASSUME NEW S, IsFiniteSet(S), NEW f, NEW g, \A x \in S : f[x] \in Int /\ f[x] = g[x]
    PROVE  Sum(f, S) = Sum(g, S)
<1>1. PICK T : T = {s \in SUBSET S : Sum(f, s) = Sum(g, s)}
    OBVIOUS
<1>2. ASSUME NEW s \in SUBSET S, \A x \in s : s \ {x} \in T PROVE s \in T
    <2>1. CASE s = {}
        BY <1>1, <2>1, SumEmpty
    <2>2. CASE s # {}
        <3>1. PICK x : x \in s
            BY <2>2
        <3>2. IsFiniteSet(s)
            BY FS_Subset
        <3>3. (\A y \in s : f[y] \in Int) /\ (\A y \in s : g[y] \in Int) /\ f[x] = g[x]
            BY <3>1
        <3>4. Sum(f, s) = f[x] + Sum(f, s \ {x}) /\ Sum(g, s) = g[x] + Sum(g, s \ {x})
            BY <3>1, <3>2, <3>3, SumTake
        <3>. QED BY <1>1, <1>2, <3>1, <3>3, <3>4
    <2>. QED BY <2>1, <2>2
<1>3. S \in T
    BY <1>2, SubsetInduction
<1>. QED BY <1>1, <1>3

\* Sums are added, and compared, term by term.
LEMMA SumPlus ==
    ASSUME NEW S, IsFiniteSet(S), NEW f, NEW g, NEW h,
           \A x \in S : f[x] \in Int /\ g[x] \in Int /\ h[x] = f[x] + g[x]
    PROVE  Sum(h, S) = Sum(f, S) + Sum(g, S)
<1>1. PICK T : T = {s \in SUBSET S : Sum(h, s) = Sum(f, s) + Sum(g, s)}
    OBVIOUS
<1>2. ASSUME NEW s \in SUBSET S, \A x \in s : s \ {x} \in T PROVE s \in T
    <2>1. CASE s = {}
        BY <1>1, <2>1, SumEmpty
    <2>2. CASE s # {}
        <3>1. PICK x : x \in s
            BY <2>2
        <3>2. IsFiniteSet(s) /\ IsFiniteSet(s \ {x})
            BY FS_Subset
        <3>3. /\ \A y \in s : f[y] \in Int
              /\ \A y \in s : g[y] \in Int
              /\ \A y \in s : h[y] \in Int
              /\ h[x] = f[x] + g[x]
            BY <3>1
        <3>4. /\ Sum(f, s) = f[x] + Sum(f, s \ {x})
              /\ Sum(g, s) = g[x] + Sum(g, s \ {x})
              /\ Sum(h, s) = h[x] + Sum(h, s \ {x})
            BY <3>1, <3>2, <3>3, SumTake
        <3>5. Sum(f, s \ {x}) \in Int /\ Sum(g, s \ {x}) \in Int
            <4>1. (\A y \in s \ {x} : f[y] \in Int) /\ (\A y \in s \ {x} : g[y] \in Int)
                BY <3>3
            <4>. QED BY <3>2, <4>1, SumInt
        <3>6. Sum(h, s \ {x}) = Sum(f, s \ {x}) + Sum(g, s \ {x})
            BY <1>1, <1>2, <3>1
        <3>7. Sum(h, s) = Sum(f, s) + Sum(g, s)
            BY <3>1, <3>3, <3>4, <3>5, <3>6
        <3>. QED BY <1>1, <3>7
    <2>. QED BY <2>1, <2>2
<1>3. S \in T
    BY <1>2, SubsetInduction
<1>. QED BY <1>1, <1>3

LEMMA SumAtMost ==
    ASSUME NEW S, IsFiniteSet(S), NEW f, NEW g,
           \A x \in S : f[x] \in Int /\ g[x] \in Int /\ f[x] <= g[x]
    PROVE  Sum(f, S) <= Sum(g, S)
<1>1. PICK T : T = {s \in SUBSET S : Sum(f, s) <= Sum(g, s)}
    OBVIOUS
<1>2. ASSUME NEW s \in SUBSET S, \A x \in s : s \ {x} \in T PROVE s \in T
    <2>1. CASE s = {}
        <3>1. Sum(f, s) = 0 /\ Sum(g, s) = 0
            BY <2>1, SumEmpty
        <3>. QED BY <1>1, <3>1
    <2>2. CASE s # {}
        <3>1. PICK x : x \in s
            BY <2>2
        <3>2. IsFiniteSet(s) /\ IsFiniteSet(s \ {x})
            BY FS_Subset
        <3>3. /\ \A y \in s : f[y] \in Int
              /\ \A y \in s : g[y] \in Int
              /\ f[x] <= g[x]
            BY <3>1
        <3>4. /\ Sum(f, s) = f[x] + Sum(f, s \ {x})
              /\ Sum(g, s) = g[x] + Sum(g, s \ {x})
            BY <3>1, <3>2, <3>3, SumTake
        <3>5. Sum(f, s \ {x}) \in Int /\ Sum(g, s \ {x}) \in Int
            <4>1. (\A y \in s \ {x} : f[y] \in Int) /\ (\A y \in s \ {x} : g[y] \in Int)
                BY <3>3
            <4>. QED BY <3>2, <4>1, SumInt
        <3>6. Sum(f, s \ {x}) <= Sum(g, s \ {x})
            BY <1>1, <1>2, <3>1
        <3>7. Sum(f, s) <= Sum(g, s)
            BY <3>1, <3>3, <3>4, <3>5, <3>6
        <3>. QED BY <1>1, <3>7
    <2>. QED BY <2>1, <2>2
<1>3. S \in T
    BY <1>2, SubsetInduction
<1>. QED BY <1>1, <1>3

\* Terms that are zero may be left out.
LEMMA SumOfSome ==
    ASSUME NEW S, IsFiniteSet(S), NEW R \in SUBSET S, NEW f, \A x \in S : f[x] \in Int,
           \A x \in S \ R : f[x] = 0
    PROVE  Sum(f, S) = Sum(f, R)
<1>1. PICK T : T = {s \in SUBSET S : Sum(f, s) = Sum(f, s \cap R)}
    OBVIOUS
<1>2. ASSUME NEW s \in SUBSET S, \A x \in s : s \ {x} \in T PROVE s \in T
    <2>1. CASE s \subseteq R
        <3>1. s \cap R = s
            BY <2>1
        <3>. QED BY <1>1, <3>1
    <2>2. CASE ~(s \subseteq R)
        <3>1. PICK x : x \in s /\ x \notin R
            BY <2>2
        <3>2. IsFiniteSet(s) /\ IsFiniteSet(s \ {x})
            BY FS_Subset
        <3>3. (\A y \in s : f[y] \in Int) /\ f[x] = 0
            BY <3>1
        <3>4. Sum(f, s) = f[x] + Sum(f, s \ {x})
            BY <3>1, <3>2, <3>3, SumTake
        <3>5. Sum(f, s \ {x}) \in Int
            <4>1. \A y \in s \ {x} : f[y] \in Int
                BY <3>3
            <4>. QED BY <3>2, <4>1, SumInt
        <3>6. s \cap R = (s \ {x}) \cap R
            BY <3>1
        <3>7. Sum(f, s \ {x}) = Sum(f, (s \ {x}) \cap R)
            BY <1>1, <1>2, <3>1
        <3>8. Sum(f, s) = Sum(f, s \ {x})
            BY <3>3, <3>4, <3>5
        <3>. QED BY <1>1, <3>6, <3>7, <3>8
    <2>. QED BY <2>1, <2>2
<1>3. S \in T
    BY <1>2, SubsetInduction
<1>4. S \cap R = R
    OBVIOUS
<1>. QED BY <1>1, <1>3, <1>4

\* The sum of numbers is a number.
LEMMA SumNat ==
    ASSUME NEW S, IsFiniteSet(S), NEW f, \A x \in S : f[x] \in Nat
    PROVE  Sum(f, S) \in Nat
<1>1. PICK z : z = [x \in S |-> 0]
    OBVIOUS
<1>2. \A x \in S : z[x] \in Int /\ f[x] \in Int /\ z[x] <= f[x]
    BY <1>1
<1>3. Sum(z, S) <= Sum(f, S)
    BY <1>2, SumAtMost
<1>4. Sum(z, S) = Sum(z, {})
    <2>1. {} \in SUBSET S /\ (\A x \in S : z[x] \in Int) /\ \A x \in S \ {} : z[x] = 0
        BY <1>1
    <2>. QED BY <2>1, SumOfSome
<1>5. Sum(f, S) \in Int
    <2>1. \A x \in S : f[x] \in Int
        BY <1>2
    <2>. QED BY <2>1, SumInt
<1>. QED BY <1>3, <1>4, <1>5, SumEmpty

\* A part of numbers is no more than all of them.
LEMMA SumOfPart ==
    ASSUME NEW S, IsFiniteSet(S), NEW R \in SUBSET S, NEW f, \A x \in S : f[x] \in Nat
    PROVE  Sum(f, R) <= Sum(f, S)
<1>1. PICK g : g = [x \in S |-> IF x \in R THEN f[x] ELSE 0]
    OBVIOUS
<1>2. \A x \in S : g[x] \in Int /\ f[x] \in Int /\ g[x] <= f[x]
    BY <1>1
<1>3. Sum(g, S) <= Sum(f, S)
    BY <1>2, SumAtMost
<1>4. Sum(g, S) = Sum(g, R)
    <2>1. (\A x \in S : g[x] \in Int) /\ \A x \in S \ R : g[x] = 0
        BY <1>1, <1>2
    <2>. QED BY <2>1, SumOfSome
<1>5. Sum(g, R) = Sum(f, R)
    <2>1. IsFiniteSet(R)
        BY FS_Subset
    <2>2. \A x \in R : g[x] \in Int /\ g[x] = f[x]
        BY <1>1, <1>2
    <2>. QED BY <2>1, <2>2, SumSame
<1>. QED BY <1>3, <1>4, <1>5

\* A sum of multiples.
LEMMA SumTimes ==
    ASSUME NEW S, IsFiniteSet(S), NEW f, NEW g, NEW c \in Int,
           \A x \in S : f[x] \in Int /\ g[x] = c * f[x]
    PROVE  Sum(g, S) = c * Sum(f, S)
<1>1. PICK T : T = {s \in SUBSET S : Sum(g, s) = c * Sum(f, s)}
    OBVIOUS
<1>2. ASSUME NEW s \in SUBSET S, \A x \in s : s \ {x} \in T PROVE s \in T
    <2>1. CASE s = {}
        <3>1. Sum(f, s) = 0 /\ Sum(g, s) = 0
            BY <2>1, SumEmpty
        <3>. QED BY <1>1, <3>1
    <2>2. CASE s # {}
        <3>1. PICK x : x \in s
            BY <2>2
        <3>2. IsFiniteSet(s) /\ IsFiniteSet(s \ {x})
            BY FS_Subset
        <3>3. PICK v \in Int : v = f[x] /\ g[x] = c * v
            BY <3>1
        <3>4. (\A y \in s : f[y] \in Int) /\ \A y \in s : g[y] \in Int
            <4>1. ASSUME NEW y \in s PROVE f[y] \in Int /\ g[y] \in Int
                <5>1. PICK w \in Int : w = f[y] /\ g[y] = c * w
                    OBVIOUS
                <5>. QED BY <5>1
            <4>. QED BY <4>1
        <3>5. Sum(f, s) = f[x] + Sum(f, s \ {x}) /\ Sum(g, s) = g[x] + Sum(g, s \ {x})
            BY <3>1, <3>2, <3>4, SumTake
        <3>6. PICK r \in Int : r = Sum(f, s \ {x})
            <4>1. \A y \in s \ {x} : f[y] \in Int
                BY <3>4
            <4>. QED BY <3>2, <4>1, SumInt
        <3>7. Sum(g, s \ {x}) = c * r
            BY <1>1, <1>2, <3>1, <3>6
        <3>8. c * (v + r) = c * v + c * r
            OBVIOUS
        <3>. QED BY <1>1, <3>3, <3>5, <3>6, <3>7, <3>8
    <2>. QED BY <2>1, <2>2
<1>3. S \in T
    BY <1>2, SubsetInduction
<1>. QED BY <1>1, <1>3

\* A sum may be taken over the names of its terms, where no two share one.
LEMMA SumOfNamed ==
    ASSUME NEW S, IsFiniteSet(S), NEW name, NEW f, NEW g,
           \A x \in S : f[x] \in Int /\ g[name[x]] = f[x],
           \A x \in S : \A y \in S : name[x] = name[y] => x = y
    PROVE  Sum(f, S) = Sum(g, {name[x] : x \in S})
<1>1. PICK T : T = {s \in SUBSET S : Sum(f, s) = Sum(g, {name[x] : x \in s})}
    OBVIOUS
<1>2. ASSUME NEW s \in SUBSET S, \A x \in s : s \ {x} \in T PROVE s \in T
    <2>1. CASE s = {}
        <3>1. {name[x] : x \in s} = {}
            BY <2>1
        <3>. QED BY <1>1, <2>1, <3>1, SumEmpty
    <2>2. CASE s # {}
        <3>1. PICK x : x \in s
            BY <2>2
        <3>2. PICK N : N = {name[y] : y \in s}
            OBVIOUS
        <3>3. IsFiniteSet(s)
            BY FS_Subset
        <3>4. IsFiniteSet(N) /\ (\A n \in N : g[n] \in Int) /\ name[x] \in N
            <4>1. IsFiniteSet({name[y] : y \in s})
                <5>1. PICK h : h = [y \in s |-> name[y]]
                    OBVIOUS
                <5>2. h \in Surjection(s, N)
                    BY <3>2, <5>1 DEF Surjection
                <5>. QED BY <3>2, <3>3, <5>2, FS_Surjection
            <4>. QED BY <3>1, <3>2, <4>1
        <3>5. Sum(f, s) = f[x] + Sum(f, s \ {x})
            <4>1. \A y \in s : f[y] \in Int
                OBVIOUS
            <4>. QED BY <3>1, <3>3, <4>1, SumTake
        <3>6. Sum(g, N) = g[name[x]] + Sum(g, N \ {name[x]})
            BY <3>4, SumTake
        <3>7. N \ {name[x]} = {name[y] : y \in s \ {x}}
            BY <3>1, <3>2
        <3>8. Sum(f, s \ {x}) = Sum(g, {name[y] : y \in s \ {x}})
            BY <1>1, <1>2, <3>1
        <3>. QED BY <1>1, <3>1, <3>2, <3>5, <3>6, <3>7, <3>8
    <2>. QED BY <2>1, <2>2
<1>3. S \in T
    BY <1>2, SubsetInduction
<1>. QED BY <1>1, <1>3
=============================================================================
