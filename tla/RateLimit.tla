------------------------------ MODULE RateLimit ------------------------------
(***************************************************************************)
(* The request limits of a server process (server._rate_limit): the times  *)
(* of the calls admitted under each key, kept in the order of last use.    *)
(* A call holds a lock from its first look to its last, so it is one step. *)
(* Times are kept as ages, up to the longest window.                       *)
(***************************************************************************)
EXTENDS Integers, SequencesExt

CONSTANTS
    Callers,     \* the keys calls come under: req:, login: and run: with whose they are
    LimitOf,
    WindowOf,    \* window_seconds of the calls under a key
    SweepSize,   \* buckets looked at per call
    RateStateMaxKeys

ASSUME RateAssumption ==
    /\ IsFiniteSet(Callers)
    /\ LimitOf \in [Callers -> Nat \ {0}] /\ WindowOf \in [Callers -> Nat \ {0}]
    /\ SweepSize \in Nat /\ RateStateMaxKeys \in Nat \ {0}

VARIABLES
    bucket,      \* of each caller: the ages of the calls it remembers, oldest first
    lru,         \* the callers that have a bucket, the last used one last
    passed,      \* of each caller: the ages of the calls it was last admitted, up to one
                 \* more than its limit, within its window
    popped       \* callers whose bucket was dropped for want of room

rateVars == <<bucket, lru, passed, popped>>

Shortest == Min({WindowOf[k] : k \in Callers})
Longest == Max({WindowOf[k] : k \in Callers})
First(n, keys) == {keys[i] : i \in {j \in DOMAIN keys : j <= n}}
Recent(k, ages) == IF Len(ages) > LimitOf[k] + 1 THEN Tail(ages) ELSE ages
\* How many of a bucket's ages, oldest first, are past a window, and the rest.
Past(w, ages) ==
    CHOOSE n \in 0..Len(ages) : \A i \in DOMAIN ages : ages[i] >= w <=> i <= n
Within(w, ages) == SubSeq(ages, Past(w, ages) + 1, Len(ages))

RateInit ==
    /\ bucket = [k \in Callers |-> <<>>] /\ lru = <<>>
    /\ passed = [k \in Callers |-> <<>>] /\ popped = {}

Touched(k) == Append(SelectSeq(lru, LAMBDA x : x # k), k)
Full(k) == Len(Within(WindowOf[k], bucket[k])) >= LimitOf[k]

RefuseCall(k) ==
    /\ Full(k)
    /\ bucket' = [bucket EXCEPT ![k] = Within(WindowOf[k], @)]
    /\ lru' = Touched(k)
    /\ UNCHANGED <<passed, popped>>

\* Mutant: buckets are swept by their first entry.
Swept_First(k) ==
    {x \in First(SweepSize, Touched(k)) \ {k} : bucket[x] = <<>> \/ Head(bucket[x]) >= WindowOf[k]}

\* The buckets that this call finds expired, by its own window.
Swept(k) ==
    {x \in First(SweepSize, Touched(k)) \ {k} : bucket[x] = <<>> \/ Last(bucket[x]) >= WindowOf[k]}

\* The buckets least recently used, beyond the room there is.
Overflow(keys) == First(Len(keys) - RateStateMaxKeys, keys)

AdmitCall(k) ==
    LET left == SelectSeq(Touched(k), LAMBDA x : x \notin Swept(k))
        gone == Swept(k) \cup Overflow(left)
    IN  /\ ~Full(k)
        /\ bucket' = [x \in Callers |->
            IF x = k THEN Append(Within(WindowOf[k], bucket[k]), 0)
            ELSE IF x \in gone THEN <<>> ELSE bucket[x]]
        /\ lru' = SelectSeq(left, LAMBDA x : x \notin Overflow(left))
        /\ passed' = [passed EXCEPT ![k] = Recent(k, Append(@, 0))]
        /\ popped' = popped \cup Overflow(left)

SecondPasses ==
    LET Older(ages) == [i \in DOMAIN ages |-> IF ages[i] < Longest THEN ages[i] + 1 ELSE Longest]
    IN  /\ lru # <<>>
        /\ bucket' = [k \in Callers |-> Older(bucket[k])]
        /\ passed' = [k \in Callers |-> Within(WindowOf[k], Older(passed[k]))]
        /\ UNCHANGED <<lru, popped>>

RateNext == SecondPasses \/ \E k \in Callers : RefuseCall(k) \/ AdmitCall(k)

RateSpec == RateInit /\ [][RateNext]_rateVars

----------------------------------------------------------------------------
\* Every bucket in use is in the order of last use, and there is room for as
\* many as the process may keep (server.py:279).
RateTypeOK ==
    /\ \A k \in Callers : \A i \in DOMAIN bucket[k] : bucket[k][i] \in 0..Longest
    /\ \A k \in Callers : bucket[k] # <<>> => k \in ToSet(lru)
    /\ IsInjective(lru) /\ Len(lru) <= RateStateMaxKeys
    /\ popped \subseteq Callers

\* Within the shortest window no caller is admitted more often than its limit,
\* whoever sweeps its bucket: a bucket is swept by its latest entry
\* (server.py:272-277).
BurstsHold ==
    \A k \in Callers \ popped : Len(Within(Shortest, passed[k])) <= LimitOf[k]

\* server.py:1648: "Run limit reached (N per hour for this organisation)":
\* within its own window no caller is admitted more often than its limit.
LimitsHold ==
    \A k \in Callers \ popped : Len(Within(WindowOf[k], passed[k])) <= LimitOf[k]
===============================================================================
