----------------------------- MODULE CallProofs -----------------------------
(***************************************************************************)
(* Theorems about the calls the service makes of others: ProviderChain,    *)
(* for any number of threads and providers, any deadlines, thresholds,     *)
(* cooldowns and bucket sizes; ModelSpend, for any number of clients, runs *)
(* and days, any costs, budgets and ceilings.                              *)
(***************************************************************************)
EXTENDS ProviderChain, ModelSpend, Sums, SequenceTheorems

Places == {"idle", "circuit", "begin", "acquire", "sent", "backoff"}

Breakers == [failures : 0..Threshold, cooling : 0..Cooldown \cup {None}, half : BOOLEAN]
Lookups == [pc : Places, at : DOMAIN Chain, attempt : 1..MaxAttempts]

\* The types of the variables, in full: TypeOK says what they are pointwise.
Shape ==
    /\ breaker \in [Providers -> Breakers]
    /\ tokens \in [Providers -> 0..Burst]
    /\ lookup \in [Threads -> Lookups]
    /\ left \in [Threads -> Nat \cup {None}]
    /\ sent \in [Providers -> [now : Nat, before : Nat]]
    /\ overrun \in [Threads -> Nat]
    /\ faults \in [Providers -> 0..Threshold]

\* A probe is under way only when the cooldown is over.
ProbeCooled == \A p \in Providers : breaker[p].half => breaker[p].cooling = 0

\* A thread that has sent a request too late neither waits for a token nor
\* sleeps until it retries, and its deadline stays over.
LateInv ==
    \A t \in Threads :
        /\ overrun[t] <= 1
        /\ overrun[t] = 1 => left[t] = 0 /\ lookup[t].pc \notin {"acquire", "backoff"}

\* What a unit of time adds to a bucket bounds what is sent over two of them.
BucketInv ==
    \A p \in Providers :
        /\ tokens[p] + sent[p].now <= Burst
        /\ tokens[p] + sent[p].now + sent[p].before <= Burst + Rate

ChainInv == Shape /\ ProbeCooled /\ HalfOpenHasProbe /\ LateInv /\ BucketInv

-----------------------------------------------------------------------------
\* The constants are numbers, and a lookup is always at a configured provider.
LEMMA Numbers ==
    /\ Threshold \in Nat /\ Threshold > 0 /\ MaxAttempts \in Nat /\ MaxAttempts > 0
    /\ Burst \in Nat /\ Rate \in Nat /\ Cooldown \in Nat
    /\ Chain \in Seq(Providers) /\ Len(Chain) \in Nat /\ Len(Chain) > 0
    /\ DOMAIN Chain = 1..Len(Chain)
<1>1. Chain \in Seq(Providers) /\ Chain # <<>>
    BY ChainAssumption
<1>. QED BY <1>1, ChainAssumption

LEMMA HereIsConfigured ==
    ASSUME lookup \in [Threads -> Lookups], NEW t \in Threads
    PROVE  Here(t) \in Providers
BY DEF Lookups, Here, Providers

\* Failing over leaves a lookup idle or before the next circuit.
LEMMA NextIsLookup ==
    ASSUME NEW l \in Lookups
    PROVE  /\ NextProvider(l) \in Lookups /\ NextProvider(l).pc \in {"idle", "circuit"}
           /\ Idle \in Lookups /\ Idle.pc = "idle"
BY Numbers DEF NextProvider, Lookups, Places, Idle

\* A failure is recorded in a breaker that is then not half open.
LEMMA FailureRecorded ==
    ASSUME NEW b \in Breakers
    PROVE  record_failure(b) \in Breakers /\ ~record_failure(b).half
<1>0. /\ b.failures \in 0..Threshold /\ b.cooling \in 0..Cooldown \cup {None} /\ b.half \in BOOLEAN
      /\ Cooldown \in 0..Cooldown \cup {None}
    BY Numbers DEF Breakers
<1>1. CASE b.half
    <2>1. record_failure(b) = [b EXCEPT !.cooling = Cooldown, !.half = FALSE]
        BY <1>1 DEF record_failure
    <2>. QED BY <1>0, <2>1 DEF Breakers
<1>2. CASE ~b.half
    <2>1. PICK n, c : /\ n = Least(b.failures + 1, Threshold)
                      /\ c = IF b.failures + 1 >= Threshold /\ b.cooling = None THEN Cooldown ELSE b.cooling
        OBVIOUS
    <2>2. record_failure(b) = [b EXCEPT !.failures = n, !.cooling = c]
        BY <1>2, <2>1 DEF record_failure
    <2>3. n \in 0..Threshold
        BY <1>0, <2>1, Numbers DEF Least
    <2>4. c \in 0..Cooldown \cup {None}
        BY <1>0, <2>1
    <2>. QED BY <1>0, <1>2, <2>2, <2>3, <2>4 DEF Breakers
<1>. QED BY <1>0, <1>1, <1>2

LEMMA ClosedBreaker == Closed \in Breakers /\ ~Closed.half
BY Numbers DEF Closed, Breakers

LEMMA BoundedCount ==
    ASSUME NEW n \in Nat, NEW m \in Nat
    PROVE  Least(n, m) \in 0..m /\ (n > 0 /\ m > 0 => Least(n, m) \in 1..m)
BY DEF Least

-----------------------------------------------------------------------------
(* What a step does to a thread's lookup and to the breaker it looks at.    *)

\* The thread goes on with its call, or lets the circuit close or open again.
Goes(t) ==
    \E l \in Lookups :
        /\ lookup' = [lookup EXCEPT ![t] = l]
        /\ \/ /\ UNCHANGED breaker
              /\ (l.at = lookup[t].at /\ l.pc \notin {"idle", "circuit"}) \/ lookup[t].pc \in {"idle", "circuit"}
           \/ /\ breaker[Here(t)].cooling = 0
              /\ breaker' = [breaker EXCEPT ![Here(t)].half = TRUE]
              /\ l.at = lookup[t].at /\ l.pc = "begin"
           \/ \E b \in Breakers : ~b.half /\ breaker' = [breaker EXCEPT ![Here(t)] = b]

LEMMA GoesKeeps ==
    ASSUME Shape, ProbeCooled, HalfOpenHasProbe, NEW t \in Threads, Goes(t)
    PROVE  /\ breaker' \in [Providers -> Breakers] /\ lookup' \in [Threads -> Lookups]
           /\ ProbeCooled' /\ HalfOpenHasProbe'
<1>1. PICK l \in Lookups :
        /\ lookup' = [lookup EXCEPT ![t] = l]
        /\ \/ /\ UNCHANGED breaker
              /\ (l.at = lookup[t].at /\ l.pc \notin {"idle", "circuit"}) \/ lookup[t].pc \in {"idle", "circuit"}
           \/ /\ breaker[Here(t)].cooling = 0
              /\ breaker' = [breaker EXCEPT ![Here(t)].half = TRUE]
              /\ l.at = lookup[t].at /\ l.pc = "begin"
           \/ \E b \in Breakers : ~b.half /\ breaker' = [breaker EXCEPT ![Here(t)] = b]
    BY DEF Goes
<1>2. /\ lookup' \in [Threads -> Lookups] /\ lookup'[t] = l
      /\ \A u \in Threads : u # t => lookup'[u] = lookup[u]
    BY <1>1 DEF Shape
<1>3. Here(t) \in Providers /\ \A u \in Threads : Here(u) \in Providers
    BY HereIsConfigured DEF Shape
<1>4. \A u \in Threads, p \in Providers : u # t /\ Calling(u, p) => Calling(u, p)'
    BY <1>2 DEF Calling, Here
<1>5. CASE /\ UNCHANGED breaker
           /\ (l.at = lookup[t].at /\ l.pc \notin {"idle", "circuit"}) \/ lookup[t].pc \in {"idle", "circuit"}
    <2>1. \A p \in Providers : Calling(t, p) => Calling(t, p)'
        BY <1>2, <1>5 DEF Calling, Here
    <2>2. HalfOpenHasProbe'
        BY <1>4, <1>5, <2>1 DEF HalfOpenHasProbe
    <2>. QED BY <1>2, <1>5, <2>2 DEF Shape, ProbeCooled
<1>6. CASE /\ breaker[Here(t)].cooling = 0
           /\ breaker' = [breaker EXCEPT ![Here(t)].half = TRUE]
           /\ l.at = lookup[t].at /\ l.pc = "begin"
    <2>1. /\ breaker' \in [Providers -> Breakers] /\ breaker'[Here(t)].cooling = 0
          /\ \A p \in Providers : p # Here(t) => breaker'[p] = breaker[p]
        BY <1>3, <1>6 DEF Shape, Breakers
    <2>2. Calling(t, Here(t))'
        BY <1>2, <1>6 DEF Calling, Here
    <2>3. \A p \in Providers : p # Here(t) => ~Calling(t, p)
        BY DEF Calling
    <2>4. HalfOpenHasProbe'
        BY <1>2, <1>4, <1>6, <2>1, <2>3 DEF HalfOpenHasProbe, Calling, Here
    <2>. QED BY <1>2, <2>1, <2>4 DEF ProbeCooled
<1>7. CASE \E b \in Breakers : ~b.half /\ breaker' = [breaker EXCEPT ![Here(t)] = b]
    <2>1. PICK b \in Breakers : ~b.half /\ breaker' = [breaker EXCEPT ![Here(t)] = b]
        BY <1>7
    <2>2. /\ breaker' \in [Providers -> Breakers] /\ ~breaker'[Here(t)].half
          /\ \A p \in Providers : p # Here(t) => breaker'[p] = breaker[p]
        BY <1>3, <2>1 DEF Shape
    <2>3. \A p \in Providers : p # Here(t) => ~Calling(t, p)
        BY DEF Calling
    <2>4. HalfOpenHasProbe'
        BY <1>4, <2>2, <2>3 DEF HalfOpenHasProbe
    <2>. QED BY <1>2, <2>2, <2>4 DEF ProbeCooled
<1>. QED BY <1>1, <1>5, <1>6, <1>7

\* Moving within a call.
LEMMA GoGoes ==
    ASSUME Shape, NEW t \in Threads, NEW pc \in Places \ {"idle"}, Go(t, pc), UNCHANGED breaker,
           pc # "circuit" \/ lookup[t].pc = "idle"
    PROVE  /\ Goes(t) /\ lookup'[t].pc = pc
           /\ \A u \in Threads : u # t => lookup'[u] = lookup[u]
<1>1. lookup' = [lookup EXCEPT ![t] = [lookup[t] EXCEPT !.pc = pc]]
    BY DEF Go, Shape
<1>2. PICK l : l = [lookup[t] EXCEPT !.pc = pc]
    OBVIOUS
<1>3. l \in Lookups /\ l.pc = pc /\ l.at = lookup[t].at
    BY <1>2 DEF Shape, Lookups
<1>4. lookup' = [lookup EXCEPT ![t] = l]
    BY <1>1, <1>2
<1>5. Goes(t)
    BY <1>3, <1>4 DEF Goes
<1>. QED BY <1>3, <1>4, <1>5 DEF Shape

\* A call that fails.
LEMMA FailOverGoes ==
    ASSUME Shape, NEW t \in Threads, FailOver(t)
    PROVE  /\ Goes(t) /\ lookup'[t].pc \in {"idle", "circuit"}
           /\ \A u \in Threads : u # t => lookup'[u] = lookup[u]
<1>1. lookup[t] \in Lookups /\ Here(t) \in Providers
    BY HereIsConfigured DEF Shape
<1>2. PICK l : l = NextProvider(lookup[t])
    OBVIOUS
<1>3. l \in Lookups /\ l.pc \in {"idle", "circuit"} /\ lookup' = [lookup EXCEPT ![t] = l]
    BY <1>1, <1>2, NextIsLookup DEF FailOver
<1>4. PICK b : b = record_failure(breaker[Here(t)])
    OBVIOUS
<1>5. breaker[Here(t)] \in Breakers
    BY <1>1 DEF Shape
<1>6. b \in Breakers /\ ~b.half
    BY <1>4, <1>5, FailureRecorded
<1>7. breaker' = [breaker EXCEPT ![Here(t)] = b]
    BY <1>4 DEF FailOver
<1>8. Goes(t)
    BY <1>3, <1>6, <1>7 DEF Goes
<1>. QED BY <1>3, <1>8 DEF Shape

-----------------------------------------------------------------------------
\* Every step keeps the invariant.
LEMMA ChainStep ==
    ASSUME ChainInv, [Next]_vars
    PROVE  ChainInv'
<1>0. /\ Shape /\ ProbeCooled /\ HalfOpenHasProbe /\ LateInv /\ BucketInv
      /\ \A t \in Threads : Here(t) \in Providers /\ lookup[t] \in Lookups
    BY HereIsConfigured DEF ChainInv, Shape
\* A step of a thread that counts nothing leaves only its own lookup to look at.
<1>1. ASSUME NEW t \in Threads, Goes(t), UNCHANGED <<tokens, left, sent, overrun>>,
             faults' \in [Providers -> 0..Threshold],
             \A u \in Threads : u # t => lookup'[u] = lookup[u],
             lookup'[t].pc \in {"acquire", "backoff"} => overrun[t] # 1
      PROVE  ChainInv'
    <2>1. /\ breaker' \in [Providers -> Breakers] /\ lookup' \in [Threads -> Lookups]
          /\ ProbeCooled' /\ HalfOpenHasProbe'
        BY <1>0, <1>1, GoesKeeps
    <2>2. Shape'
        BY <1>0, <1>1, <2>1 DEF Shape
    <2>3. LateInv' /\ BucketInv'
        BY <1>0, <1>1 DEF LateInv, BucketInv
    <2>. QED BY <2>1, <2>2, <2>3 DEF ChainInv
<1>2. ASSUME NEW t \in Threads, call_with_failover(t) PROVE ChainInv'
    <2>1. /\ lookup[t].pc = "idle" /\ Go(t, "circuit")
          /\ UNCHANGED <<breaker, tokens, left, sent, overrun, faults>>
        BY <1>2 DEF call_with_failover
    <2>2. /\ Goes(t) /\ lookup'[t].pc = "circuit"
          /\ \A u \in Threads : u # t => lookup'[u] = lookup[u]
        BY <1>0, <2>1, GoGoes DEF Places
    <2>. QED BY <1>0, <1>1, <2>1, <2>2 DEF Shape
<1>3. ASSUME NEW t \in Threads, run_deadline(t) PROVE ChainInv'
    <2>1. /\ left' = [left EXCEPT ![t] = Limit[t]] /\ overrun' = [overrun EXCEPT ![t] = 0]
          /\ UNCHANGED <<breaker, tokens, lookup, sent, faults>>
        BY <1>3 DEF run_deadline
    <2>2. Shape'
        BY <1>0, <2>1, ChainAssumption DEF Shape
    <2>3. LateInv'
        BY <1>0, <2>1 DEF LateInv, Shape
    <2>4. ProbeCooled' /\ HalfOpenHasProbe' /\ BucketInv'
        BY <1>0, <2>1 DEF ProbeCooled, HalfOpenHasProbe, BucketInv, Calling, Here
    <2>. QED BY <2>2, <2>3, <2>4 DEF ChainInv
<1>4. ASSUME NEW t \in Threads, before_call(t) PROVE ChainInv'
    <2>1. lookup[t].pc = "circuit" /\ UNCHANGED <<tokens, left, sent, overrun, faults>>
        BY <1>4 DEF before_call
    <2>2. CASE Go(t, "begin") /\ UNCHANGED breaker
        <3>1. /\ Goes(t) /\ lookup'[t].pc = "begin"
              /\ \A u \in Threads : u # t => lookup'[u] = lookup[u]
            BY <1>0, <2>2, GoGoes DEF Places
        <3>. QED BY <1>0, <1>1, <2>1, <3>1 DEF Shape
    <2>3. CASE /\ breaker[Here(t)].cooling = 0 /\ Go(t, "begin")
               /\ breaker' = [breaker EXCEPT ![Here(t)].half = TRUE]
        <3>1. PICK l : l = [lookup[t] EXCEPT !.pc = "begin"]
            OBVIOUS
        <3>2. l \in Lookups /\ l.pc = "begin" /\ l.at = lookup[t].at
            BY <1>0, <3>1 DEF Lookups, Places
        <3>3. lookup' = [lookup EXCEPT ![t] = l]
            BY <1>0, <2>3, <3>1 DEF Go, Shape
        <3>4. Goes(t)
            BY <2>3, <3>2, <3>3 DEF Goes
        <3>5. lookup'[t].pc = "begin" /\ \A u \in Threads : u # t => lookup'[u] = lookup[u]
            BY <1>0, <3>2, <3>3 DEF Shape
        <3>. QED BY <1>0, <1>1, <2>1, <3>4, <3>5 DEF Shape
    <2>4. CASE lookup' = [lookup EXCEPT ![t] = NextProvider(@)] /\ UNCHANGED breaker
        <3>1. PICK l : l = NextProvider(lookup[t])
            OBVIOUS
        <3>2. l \in Lookups /\ l.pc \in {"idle", "circuit"} /\ lookup' = [lookup EXCEPT ![t] = l]
            BY <1>0, <2>4, <3>1, NextIsLookup
        <3>3. Goes(t)
            BY <2>1, <2>4, <3>2 DEF Goes
        <3>4. lookup'[t].pc \notin {"acquire", "backoff"}
              /\ \A u \in Threads : u # t => lookup'[u] = lookup[u]
            BY <1>0, <3>2 DEF Shape
        <3>. QED BY <1>0, <1>1, <2>1, <3>3, <3>4 DEF Shape
    <2>. QED BY <1>4, <2>2, <2>3, <2>4 DEF before_call
<1>5. ASSUME NEW t \in Threads, retry_call(t) PROVE ChainInv'
    <2>1. lookup[t].pc = "begin" /\ UNCHANGED <<tokens, left, sent, overrun, faults>>
        BY <1>5 DEF retry_call
    <2>2. CASE expired(t)
        <3>1. FailOver(t)
            BY <1>5, <2>2 DEF retry_call, OutOfTime
        <3>2. /\ Goes(t) /\ lookup'[t].pc \in {"idle", "circuit"}
              /\ \A u \in Threads : u # t => lookup'[u] = lookup[u]
            BY <1>0, <3>1, FailOverGoes
        <3>. QED BY <1>0, <1>1, <2>1, <3>2 DEF Shape
    <2>3. CASE ~expired(t)
        <3>1. Go(t, "acquire") /\ UNCHANGED breaker
            BY <1>5, <2>3 DEF retry_call
        <3>2. /\ Goes(t)
              /\ \A u \in Threads : u # t => lookup'[u] = lookup[u]
            BY <1>0, <3>1, GoGoes DEF Places
        <3>3. overrun[t] # 1
            BY <1>0, <2>3 DEF LateInv, expired
        <3>. QED BY <1>0, <1>1, <2>1, <3>2, <3>3 DEF Shape
    <2>. QED BY <2>2, <2>3
<1>6. ASSUME NEW t \in Threads, acquire(t) PROVE ChainInv'
    <2>1. PICK p : p = Here(t)
        OBVIOUS
    <2>2. /\ p \in Providers /\ lookup[t].pc = "acquire" /\ tokens[p] >= 1
          /\ tokens' = [tokens EXCEPT ![p] = @ - 1] /\ Go(t, "sent")
          /\ sent' = [sent EXCEPT ![p].now = @ + 1]
          /\ overrun' = [overrun EXCEPT ![t] = @ + IF expired(t) THEN 1 ELSE 0]
          /\ UNCHANGED <<breaker, left, faults>>
        BY <1>0, <1>6, <2>1 DEF acquire
    <2>3. /\ Goes(t) /\ lookup'[t].pc = "sent"
          /\ \A u \in Threads : u # t => lookup'[u] = lookup[u]
        BY <1>0, <2>2, GoGoes DEF Places
    <2>4. /\ breaker' \in [Providers -> Breakers] /\ lookup' \in [Threads -> Lookups]
          /\ ProbeCooled' /\ HalfOpenHasProbe'
        BY <1>0, <2>3, GoesKeeps
    <2>5. /\ tokens' \in [Providers -> 0..Burst] /\ sent' \in [Providers -> [now : Nat, before : Nat]]
          /\ tokens'[p] = tokens[p] - 1 /\ sent'[p].now = sent[p].now + 1 /\ sent'[p].before = sent[p].before
          /\ \A q \in Providers : q # p => tokens'[q] = tokens[q] /\ sent'[q] = sent[q]
        <3>1. tokens[p] \in 0..Burst /\ sent[p] \in [now : Nat, before : Nat]
            BY <1>0, <2>2 DEF Shape
        <3>2. tokens[p] - 1 \in 0..Burst
            BY <2>2, <3>1, Numbers
        <3>3. PICK c : c = [sent[p] EXCEPT !.now = @ + 1]
            OBVIOUS
        <3>4. c \in [now : Nat, before : Nat] /\ c.now = sent[p].now + 1 /\ c.before = sent[p].before
            BY <3>1, <3>3
        <3>5. sent' = [sent EXCEPT ![p] = c]
            BY <1>0, <2>2, <3>3 DEF Shape
        <3>. QED BY <1>0, <2>2, <3>2, <3>4, <3>5 DEF Shape
    <2>6. BucketInv'
        <3>. SUFFICES ASSUME NEW q \in Providers
                      PROVE  /\ tokens'[q] + sent'[q].now <= Burst
                             /\ tokens'[q] + sent'[q].now + sent'[q].before <= Burst + Rate
            BY DEF BucketInv
        <3>1. /\ tokens[q] \in Nat /\ sent[q].now \in Nat /\ sent[q].before \in Nat
              /\ tokens[q] + sent[q].now <= Burst
              /\ tokens[q] + sent[q].now + sent[q].before <= Burst + Rate
            BY <1>0, Numbers DEF BucketInv, Shape
        <3>2. CASE q = p
            <4>1. /\ tokens'[q] = tokens[q] - 1 /\ sent'[q].now = sent[q].now + 1
                  /\ sent'[q].before = sent[q].before
                BY <2>5, <3>2
            <4>2. PICK x \in Nat, n \in Nat, b \in Nat :
                    x = tokens[q] /\ n = sent[q].now /\ b = sent[q].before
                BY <3>1
            <4>3. PICK most \in Nat, more \in Nat : most = Burst /\ more = Rate
                BY Numbers
            <4>4. x + n <= most /\ x + n + b <= most + more
                BY <3>1, <4>2, <4>3
            <4>5. (x - 1) + (n + 1) <= most /\ (x - 1) + (n + 1) + b <= most + more
                BY <4>4
            <4>. QED BY <4>1, <4>2, <4>3, <4>5
        <3>3. CASE q # p
            BY <2>5, <3>1, <3>3
        <3>. QED BY <3>2, <3>3
    <2>7. overrun[t] = 0
        <3>1. overrun[t] \in Nat
            BY <1>0 DEF Shape
        <3>. QED BY <1>0, <2>2, <3>1 DEF LateInv
    <2>8. /\ overrun' \in [Threads -> Nat] /\ overrun'[t] = IF expired(t) THEN 1 ELSE 0
          /\ \A u \in Threads : u # t => overrun'[u] = overrun[u]
        BY <1>0, <2>2, <2>7 DEF Shape
    <2>9. LateInv'
        BY <1>0, <2>2, <2>3, <2>8 DEF LateInv, expired
    <2>10. Shape'
        BY <1>0, <2>2, <2>4, <2>5, <2>8 DEF Shape
    <2>. QED BY <2>4, <2>6, <2>9, <2>10 DEF ChainInv
<1>7. ASSUME NEW t \in Threads, Answered(t) PROVE ChainInv'
    <2>1. /\ breaker' = [breaker EXCEPT ![Here(t)] = Closed]
          /\ faults' = [faults EXCEPT ![Here(t)] = 0]
          /\ UNCHANGED <<tokens, left, sent, overrun>>
        BY <1>7 DEF Answered
    <2>2. PICK l \in {Idle, NextProvider(lookup[t])} : lookup' = [lookup EXCEPT ![t] = l]
        BY <1>7 DEF Answered
    <2>3. l \in Lookups /\ l.pc \in {"idle", "circuit"}
        BY <1>0, <2>2, NextIsLookup
    <2>4. Goes(t)
        BY <2>1, <2>2, <2>3, ClosedBreaker DEF Goes
    <2>5. lookup'[t].pc \in {"idle", "circuit"} /\ \A u \in Threads : u # t => lookup'[u] = lookup[u]
        BY <1>0, <2>2, <2>3 DEF Shape
    <2>6. faults' \in [Providers -> 0..Threshold]
        BY <1>0, <2>1, Numbers DEF Shape
    <2>. QED BY <1>1, <2>1, <2>4, <2>5, <2>6
<1>8. ASSUME NEW t \in Threads, Transient(t) PROVE ChainInv'
    <2>1. /\ lookup[t].pc = "sent" /\ UNCHANGED <<tokens, left, sent, overrun>>
          /\ faults' = [faults EXCEPT ![Here(t)] = Least(@ + 1, Threshold)]
        BY <1>8 DEF Transient
    <2>2. faults' \in [Providers -> 0..Threshold]
        <3>1. faults \in [Providers -> 0..Threshold]
            BY <1>0 DEF Shape
        <3>2. \A m \in 0..Threshold : Least(m + 1, Threshold) \in 0..Threshold
            BY Numbers DEF Least
        <3>. QED BY <2>1, <3>1, <3>2
    <2>3. CASE Retries(t)
        <3>1. PICK l : l = [lookup[t] EXCEPT !.pc = "backoff", !.attempt = Counted(t)]
            OBVIOUS
        <3>2. Counted(t) \in 1..MaxAttempts
            BY <1>0, Numbers DEF Counted, Least, Lookups
        <3>3. l \in Lookups /\ l.pc = "backoff" /\ l.at = lookup[t].at
            BY <1>0, <3>1, <3>2 DEF Lookups, Places
        <3>4. UNCHANGED breaker /\ lookup' = [lookup EXCEPT ![t].pc = "backoff", ![t].attempt = Counted(t)]
            BY <1>8, <2>3 DEF Transient
        <3>5. lookup' = [lookup EXCEPT ![t] = l]
            BY <1>0, <3>1, <3>4 DEF Shape
        <3>6. Goes(t)
            BY <3>3, <3>4, <3>5 DEF Goes
        <3>7. overrun[t] # 1
            BY <1>0, <2>3 DEF LateInv, Retries, expired
        <3>8. \A u \in Threads : u # t => lookup'[u] = lookup[u]
            BY <1>0, <3>5 DEF Shape
        <3>. QED BY <1>1, <2>1, <2>2, <3>6, <3>7, <3>8
    <2>4. CASE ~Retries(t)
        <3>1. FailOver(t)
            BY <1>8, <2>4 DEF Transient
        <3>2. /\ Goes(t) /\ lookup'[t].pc \in {"idle", "circuit"}
              /\ \A u \in Threads : u # t => lookup'[u] = lookup[u]
            BY <1>0, <3>1, FailOverGoes
        <3>. QED BY <1>1, <2>1, <2>2, <3>2
    <2>. QED BY <2>3, <2>4
<1>9. ASSUME NEW t \in Threads, Permanent(t) PROVE ChainInv'
    <2>1. /\ FailOver(t) /\ UNCHANGED <<tokens, left, sent, overrun>>
          /\ \E n \in {0, 1} : faults' = [faults EXCEPT ![Here(t)] = Least(@ + n, Threshold)]
        BY <1>9 DEF Permanent
    <2>2. faults' \in [Providers -> 0..Threshold]
        <3>1. faults \in [Providers -> 0..Threshold]
            BY <1>0 DEF Shape
        <3>2. PICK n \in {0, 1} : faults' = [faults EXCEPT ![Here(t)] = Least(@ + n, Threshold)]
            BY <2>1
        <3>3. \A m \in 0..Threshold : Least(m + n, Threshold) \in 0..Threshold
            BY Numbers DEF Least
        <3>. QED BY <3>1, <3>2, <3>3
    <2>3. /\ Goes(t) /\ lookup'[t].pc \in {"idle", "circuit"}
          /\ \A u \in Threads : u # t => lookup'[u] = lookup[u]
        BY <1>0, <2>1, FailOverGoes
    <2>. QED BY <1>1, <2>1, <2>2, <2>3
<1>10. ASSUME NEW t \in Threads, Retry(t) PROVE ChainInv'
    <2>1. /\ lookup[t].pc = "backoff" /\ Go(t, "acquire")
          /\ UNCHANGED <<breaker, tokens, left, sent, overrun, faults>>
        BY <1>10 DEF Retry
    <2>2. /\ Goes(t)
          /\ \A u \in Threads : u # t => lookup'[u] = lookup[u]
        BY <1>0, <2>1, GoGoes DEF Places
    <2>3. overrun[t] # 1
        BY <1>0, <2>1 DEF LateInv
    <2>. QED BY <1>0, <1>1, <2>1, <2>2, <2>3 DEF Shape
<1>11. CASE Tick
    <2>1. /\ breaker' = [p \in Providers |-> [breaker[p] EXCEPT !.cooling = Later(@)]]
          /\ tokens' = [p \in Providers |-> Refilled(tokens[p])]
          /\ left' = [t \in Threads |-> Later(left[t])]
          /\ sent' = [p \in Providers |-> [now |-> 0, before |-> sent[p].now]]
          /\ UNCHANGED <<lookup, overrun, faults>>
        BY <1>11 DEF Tick
    <2>2. ASSUME NEW p \in Providers
          PROVE  /\ breaker'[p] \in Breakers /\ breaker'[p].half = breaker[p].half
                 /\ breaker'[p].half => breaker'[p].cooling = 0
        <3>1. breaker[p] \in Breakers /\ (breaker[p].half => breaker[p].cooling = 0)
            BY <1>0 DEF Shape, ProbeCooled
        <3>2. Later(breaker[p].cooling) \in 0..Cooldown \cup {None}
            BY <3>1, Numbers DEF Breakers, Later
        <3>3. breaker'[p] = [breaker[p] EXCEPT !.cooling = Later(breaker[p].cooling)]
            BY <2>1
        <3>. QED BY <3>1, <3>2, <3>3 DEF Breakers, Later
    <2>3. breaker' \in [Providers -> Breakers] /\ ProbeCooled'
        BY <2>1, <2>2 DEF ProbeCooled
    <2>4. HalfOpenHasProbe'
        BY <1>0, <2>1, <2>2 DEF HalfOpenHasProbe, Calling, Here
    <2>5. \A p \in Providers : /\ tokens'[p] \in 0..Burst /\ tokens'[p] <= tokens[p] + Rate
                               /\ sent'[p] = [now |-> 0, before |-> sent[p].now]
        <3>. SUFFICES ASSUME NEW p \in Providers
                      PROVE  tokens'[p] \in 0..Burst /\ tokens'[p] <= tokens[p] + Rate
            BY <2>1
        <3>1. tokens[p] \in 0..Burst /\ tokens'[p] = Refilled(tokens[p])
            BY <1>0, <2>1 DEF Shape
        <3>. QED BY <3>1, Numbers DEF Refilled, Least
    <2>6. BucketInv'
        <3>. SUFFICES ASSUME NEW q \in Providers
                      PROVE  /\ tokens'[q] + sent'[q].now <= Burst
                             /\ tokens'[q] + sent'[q].now + sent'[q].before <= Burst + Rate
            BY DEF BucketInv
        <3>1. /\ tokens[q] \in Nat /\ sent[q].now \in Nat /\ tokens[q] + sent[q].now <= Burst
              /\ tokens'[q] \in 0..Burst /\ tokens'[q] <= tokens[q] + Rate
              /\ sent'[q].now = 0 /\ sent'[q].before = sent[q].now
            <4>1. /\ tokens[q] \in 0..Burst /\ sent[q].now \in Nat
                BY <1>0 DEF Shape
            <4>2. tokens[q] + sent[q].now <= Burst
                BY <1>0 DEF BucketInv
            <4>3. sent'[q].now = 0 /\ sent'[q].before = sent[q].now
                BY <2>1
            <4>4. tokens'[q] \in 0..Burst /\ tokens'[q] <= tokens[q] + Rate
                BY <2>5
            <4>5. tokens[q] \in Nat
                BY <4>1, Numbers
            <4>. QED BY <4>1, <4>2, <4>3, <4>4, <4>5
        <3>. QED BY <3>1, Numbers
    <2>7. left' \in [Threads -> Nat \cup {None}] /\ \A t \in Threads : left[t] = 0 => left'[t] = 0
        <3>1. \A n \in Nat \cup {None} : Later(n) \in Nat \cup {None} /\ (n = 0 => Later(n) = 0)
            BY DEF Later
        <3>2. \A t \in Threads : left[t] \in Nat \cup {None} /\ left'[t] = Later(left[t])
            BY <1>0, <2>1 DEF Shape
        <3>. QED BY <2>1, <3>1, <3>2
    <2>8. LateInv'
        BY <1>0, <2>1, <2>7 DEF LateInv
    <2>9. tokens' \in [Providers -> 0..Burst] /\ sent' \in [Providers -> [now : Nat, before : Nat]]
        BY <1>0, <2>1, <2>5 DEF Shape
    <2>10. Shape'
        BY <1>0, <2>1, <2>3, <2>7, <2>9 DEF Shape
    <2>. QED BY <2>3, <2>4, <2>6, <2>8, <2>10 DEF ChainInv
<1>12. CASE UNCHANGED vars
    BY <1>12 DEF vars, ChainInv, Shape, ProbeCooled, HalfOpenHasProbe, LateInv, BucketInv, Calling, Here
<1>. QED BY <1>2, <1>3, <1>4, <1>5, <1>6, <1>7, <1>8, <1>9, <1>10, <1>11, <1>12 DEF Next, Step

LEMMA ChainInvariant == Spec => []ChainInv
<1>1. Init => ChainInv
    <2>. SUFFICES ASSUME Init PROVE ChainInv
        OBVIOUS
    <2>1. Closed \in Breakers /\ ~Closed.half /\ Idle \in Lookups
        BY ClosedBreaker, Numbers DEF Idle, Lookups, Places
    <2>2. Shape
        BY <2>1, Numbers, ChainAssumption DEF Init, Shape
    <2>3. ProbeCooled /\ HalfOpenHasProbe
        BY <2>1 DEF Init, ProbeCooled, HalfOpenHasProbe
    <2>4. LateInv /\ BucketInv
        BY Numbers DEF Init, LateInv, BucketInv
    <2>. QED BY <2>2, <2>3, <2>4 DEF ChainInv
<1>2. ChainInv /\ [Next]_vars => ChainInv'
    BY ChainStep
<1>. QED BY <1>1, <1>2, PTL DEF Spec

-----------------------------------------------------------------------------
(* Breakers, buckets and lookups have their types, and a half-open breaker *)
(* has no cooldown left (resilience.py, providers/__init__.py).            *)
THEOREM TypeCorrect == Spec => []TypeOK
<1>1. ChainInv => TypeOK
    BY DEF ChainInv, Shape, ProbeCooled, TypeOK, Breakers, Lookups, Places
<1>. QED BY <1>1, ChainInvariant, PTL

(* A breaker is never left half open by calls that have all ended, for any *)
(* number of threads, so no provider stays half open for good              *)
(* (CircuitBreaker.before_call, record_failure, record_success).           *)
THEOREM HalfOpenIsProbed == Spec => []HalfOpenHasProbe
<1>1. ChainInv => HalfOpenHasProbe
    BY DEF ChainInv
<1>. QED BY <1>1, ChainInvariant, PTL

(* However many attempts and providers are configured, a run sends at most *)
(* one request after its deadline (retry_call, TokenBucket.acquire).       *)
THEOREM LateRequestsBounded == Spec => []OneLateRequest
<1>1. ChainInv => OneLateRequest
    BY DEF ChainInv, LateInv, OneLateRequest
<1>. QED BY <1>1, ChainInvariant, PTL

(* No provider is sent more than a burst and one refill in two units of    *)
(* time, whatever the threads that share its bucket do (TokenBucket).      *)
THEOREM BurstsAreBounded == Spec => []BurstBounded
<1>1. ChainInv => BurstBounded
    <2>. SUFFICES ASSUME ChainInv, NEW p \in Providers
                  PROVE  sent[p].now + sent[p].before <= Burst + Rate
        BY DEF BurstBounded
    <2>1. /\ tokens[p] \in Nat /\ sent[p].now \in Nat /\ sent[p].before \in Nat
          /\ tokens[p] + sent[p].now + sent[p].before <= Burst + Rate
        BY Numbers DEF ChainInv, BucketInv, Shape
    <2>. QED BY <2>1, Numbers
<1>. QED BY <1>1, ChainInvariant, PTL

-----------------------------------------------------------------------------
(* ModelSpend *)

Active == Running \cup {"queued"}

Entries == [node : {"market_regime", "stock_research", "finance_report"}, pass : Nat, day : Nat, cost : Nat]

SpendRuns ==
    [client : Clients, pc : Active \cup Resumed \cup {"paused", "ended"}, usage : Nat,
     trail : SUBSET Entries, stored : SUBSET [copy : Nat, record : Entries]]

\* The trail of a run numbers its records from zero.
WellKept(run) ==
    /\ run \in SpendRuns
    /\ IsFiniteSet(run.trail) /\ IsFiniteSet(run.stored)
    /\ \A x \in run.trail : x.pass < Cardinality(run.trail)
    /\ \A x, y \in run.trail : x.pass = y.pass => x = y

CostOf(records) == Sum([x \in records |-> x.cost], records)

\* What the rows of a run say it cost once everything in its trail is written.
Weight(run) == SumCosts(run.stored) + CostOf(Unstored(run))

SpendShape ==
    /\ day \in 0..MaxDay
    /\ runs \in Seq(SpendRuns) /\ billed \in Seq(Nat) /\ late \in Seq(Int)
    /\ Len(billed) = Len(runs) /\ Len(late) = Len(runs)
    /\ \A r \in Ids : WellKept(runs[r])

\* A client has one run under way, and none on the day one of its runs was late.
LateDays ==
    /\ \A q, r \in Ids : q # r /\ runs[q].client = runs[r].client =>
        runs[q].pc \notin Active \/ runs[r].pc \notin Active
    /\ \A q \in Ids : late[q] <= day
    /\ \A q \in Ids : late[q] = day =>
        ~check /\ \A r \in Ids : runs[r].client = runs[q].client => runs[r].pc \notin Active

SpendInv ==
    /\ SpendShape /\ LateDays /\ OvershootBounded /\ BudgetHolds
    /\ \A r \in Ids : Weight(runs[r]) <= billed[r]

-----------------------------------------------------------------------------
\* The cost of two sets of things together is at most the cost of both.
LEMMA SumUnion ==
    ASSUME NEW A, NEW B, IsFiniteSet(A), IsFiniteSet(B), NEW f, \A x \in A \cup B : f[x] \in Nat
    PROVE  Sum(f, A \cup B) <= Sum(f, A) + Sum(f, B)
<1>1. PICK S : S = A \cup B
    OBVIOUS
<1>2. IsFiniteSet(S) /\ A \in SUBSET S /\ B \in SUBSET S
    BY <1>1, FS_Union
<1>3. PICK a : a = [x \in S |-> IF x \in A THEN f[x] ELSE 0]
    OBVIOUS
<1>4. PICK b : b = [x \in S |-> IF x \in B THEN f[x] ELSE 0]
    OBVIOUS
<1>5. PICK h : h = [x \in S |-> a[x] + b[x]]
    OBVIOUS
<1>6. \A x \in S : a[x] \in Nat /\ b[x] \in Nat /\ h[x] = a[x] + b[x] /\ f[x] \in Nat /\ f[x] <= h[x]
    BY <1>1, <1>3, <1>4, <1>5
<1>7. Sum(f, S) <= Sum(h, S)
    <2>1. \A x \in S : f[x] \in Int /\ h[x] \in Int /\ f[x] <= h[x]
        BY <1>6
    <2>. QED BY <2>1, <1>2, SumAtMost
<1>8. Sum(h, S) = Sum(a, S) + Sum(b, S)
    <2>1. \A x \in S : a[x] \in Int /\ b[x] \in Int /\ h[x] = a[x] + b[x]
        BY <1>6
    <2>. QED BY <2>1, <1>2, SumPlus
<1>9. Sum(a, S) = Sum(f, A)
    <2>1. (\A x \in S : a[x] \in Int) /\ \A x \in S \ A : a[x] = 0
        BY <1>3, <1>6
    <2>2. Sum(a, S) = Sum(a, A)
        BY <2>1, <1>2, SumOfSome
    <2>3. \A x \in A : a[x] \in Int /\ a[x] = f[x]
        BY <1>2, <1>3, <1>6
    <2>4. Sum(a, A) = Sum(f, A)
        BY <2>3, SumSame
    <2>. QED BY <2>2, <2>4
<1>10. Sum(b, S) = Sum(f, B)
    <2>1. (\A x \in S : b[x] \in Int) /\ \A x \in S \ B : b[x] = 0
        BY <1>4, <1>6
    <2>2. Sum(b, S) = Sum(b, B)
        BY <2>1, <1>2, SumOfSome
    <2>3. \A x \in B : b[x] \in Int /\ b[x] = f[x]
        BY <1>2, <1>4, <1>6
    <2>4. Sum(b, B) = Sum(f, B)
        BY <2>3, SumSame
    <2>. QED BY <2>2, <2>4
<1>. QED BY <1>1, <1>7, <1>8, <1>9, <1>10

\* What records cost, for any finite set of them.
LEMMA CostOfRecords ==
    ASSUME NEW A \in SUBSET Entries, IsFiniteSet(A)
    PROVE  CostOf(A) \in Nat
<1>1. \A x \in A : [y \in A |-> y.cost][x] \in Nat
    BY DEF Entries
<1>. QED BY <1>1, SumNat DEF CostOf

\* What rows say records cost.
LEMMA CostOfRows ==
    ASSUME NEW A \in SUBSET [copy : Nat, record : Entries], IsFiniteSet(A)
    PROVE  SumCosts(A) \in Nat
<1>1. \A x \in A : [y \in A |-> y.record.cost][x] \in Nat
    BY DEF Entries
<1>. QED BY <1>1, SumNat DEF SumCosts, Sum

\* What some of the records cost, in terms of all of them.
LEMMA CostOfSome ==
    ASSUME NEW S \in SUBSET Entries, IsFiniteSet(S), NEW B \in SUBSET S
    PROVE  /\ \A x \in S : [y \in S |-> y.cost][x] \in Nat
           /\ Sum([y \in S |-> y.cost], B) = CostOf(B)
<1>1. PICK f : f = [y \in S |-> y.cost]
    OBVIOUS
<1>2. PICK g : g = [y \in B |-> y.cost]
    OBVIOUS
<1>3. \A x \in S : f[x] \in Nat
    BY <1>1 DEF Entries
<1>4. ASSUME NEW x \in B PROVE f[x] \in Int /\ f[x] = g[x]
    <2>1. x \in S /\ f[x] \in Nat
        BY <1>3
    <2>2. f[x] = x.cost /\ g[x] = x.cost
        BY <1>1, <1>2, <2>1
    <2>. QED BY <2>1, <2>2
<1>5. IsFiniteSet(B)
    BY FS_Subset
<1>6. Sum(f, B) = Sum(g, B)
    BY <1>4, <1>5, SumSame
<1>. QED BY <1>1, <1>2, <1>3, <1>6 DEF CostOf

\* What some of the rows say, in terms of all of them.
LEMMA CostOfSomeRows ==
    ASSUME NEW S \in SUBSET [copy : Nat, record : Entries], IsFiniteSet(S), NEW B \in SUBSET S
    PROVE  /\ \A x \in S : [y \in S |-> y.record.cost][x] \in Nat
           /\ Sum([y \in S |-> y.record.cost], B) = SumCosts(B)
<1>1. PICK f : f = [y \in S |-> y.record.cost]
    OBVIOUS
<1>2. PICK g : g = [y \in B |-> y.record.cost]
    OBVIOUS
<1>3. \A x \in S : f[x] \in Nat
    BY <1>1 DEF Entries
<1>4. ASSUME NEW x \in B PROVE f[x] \in Int /\ f[x] = g[x]
    <2>1. x \in S /\ f[x] \in Nat
        BY <1>3
    <2>2. f[x] = x.record.cost /\ g[x] = x.record.cost
        BY <1>1, <1>2, <2>1
    <2>. QED BY <2>1, <2>2
<1>5. IsFiniteSet(B)
    BY FS_Subset
<1>6. Sum(f, B) = Sum(g, B)
    BY <1>4, <1>5, SumSame
<1>. QED BY <1>1, <1>2, <1>3, <1>6 DEF SumCosts, Sum

\* A part of the rows says less.
LEMMA FewerRows ==
    ASSUME NEW B \in SUBSET [copy : Nat, record : Entries], IsFiniteSet(B), NEW A \in SUBSET B
    PROVE  SumCosts(A) <= SumCosts(B)
<1>1. PICK f : f = [y \in B |-> y.record.cost]
    OBVIOUS
<1>2. (\A x \in B : f[x] \in Nat) /\ Sum(f, A) = SumCosts(A)
    BY <1>1, CostOfSomeRows
<1>3. Sum(f, B) = SumCosts(B)
    BY <1>1 DEF SumCosts, Sum
<1>4. Sum(f, A) <= Sum(f, B)
    BY <1>2, SumOfPart
<1>. QED BY <1>2, <1>3, <1>4

\* One more record costs at most its cost more, of which some may be left out.
LEMMA OneMoreRecord ==
    ASSUME NEW A \in SUBSET Entries, IsFiniteSet(A), NEW e \in Entries, NEW B \in SUBSET (A \cup {e})
    PROVE  CostOf(B) <= CostOf(A) + e.cost
<1>1. PICK S : S = A \cup {e}
    OBVIOUS
<1>2. IsFiniteSet(S) /\ IsFiniteSet({e}) /\ IsFiniteSet(B)
    BY <1>1, FS_Subset, FS_AddElement, FS_Singleton
<1>3. PICK f : f = [y \in S |-> y.cost]
    OBVIOUS
<1>4. \A x \in S : f[x] \in Nat
    BY <1>1, <1>3 DEF Entries
<1>5. Sum(f, S) <= Sum(f, A) + Sum(f, {e})
    BY <1>1, <1>2, <1>4, SumUnion
<1>6. Sum(f, B) <= Sum(f, S)
    BY <1>1, <1>2, <1>4, SumOfPart
<1>7. Sum(f, {e}) = e.cost
    <2>1. e \in S /\ f[e] \in Nat /\ f[e] = e.cost
        BY <1>1, <1>3, <1>4
    <2>2. \A x \in {e} : f[x] \in Int
        BY <2>1
    <2>3. Sum(f, {e}) = f[e] + Sum(f, {e} \ {e})
        BY <2>2, <1>2, SumTake
    <2>4. {e} \ {e} = {} /\ Sum(f, {}) = 0
        BY SumEmpty
    <2>5. Sum(f, {e} \ {e}) = 0
        BY <2>4
    <2>. QED BY <2>1, <2>3, <2>5
<1>8. S \in SUBSET Entries /\ A \in SUBSET S /\ B \in SUBSET S
    BY <1>1
<1>9. Sum(f, A) = CostOf(A) /\ Sum(f, B) = CostOf(B)
    BY <1>2, <1>3, <1>8, CostOfSome
<1>10. Sum(f, S) \in Nat /\ Sum(f, A) \in Nat /\ Sum(f, B) \in Nat /\ e.cost \in Nat
    <2>1. Sum(f, S) \in Nat
        BY <1>2, <1>4, SumNat
    <2>2. (\A x \in A : f[x] \in Nat) /\ \A x \in B : f[x] \in Nat
        BY <1>1, <1>4
    <2>3. Sum(f, A) \in Nat /\ Sum(f, B) \in Nat
        BY <2>2, <1>2, SumNat
    <2>. QED BY <2>1, <2>3 DEF Entries
<1>. QED BY <1>5, <1>6, <1>7, <1>9, <1>10

\* Rows of some records add what the records cost.
LEMMA RowsOfRecords ==
    ASSUME NEW run, WellKept(run), NEW A \in SUBSET run.trail
    PROVE  /\ RowsOf(run, A) \in SUBSET [copy : Nat, record : Entries]
           /\ IsFiniteSet(RowsOf(run, A))
           /\ SumCosts(run.stored \cup RowsOf(run, A)) <= SumCosts(run.stored) + CostOf(A)
<1>1. PICK name : name = [x \in A |-> [copy |-> Cardinality({y \in run.stored : y.record = x}), record |-> x]]
    OBVIOUS
<1>2. RowsOf(run, A) = {name[x] : x \in A}
    BY <1>1 DEF RowsOf
<1>3. A \in SUBSET Entries /\ IsFiniteSet(A) /\ IsFiniteSet(run.stored)
    BY FS_Subset DEF WellKept, SpendRuns
<1>4. run.stored \in SUBSET [copy : Nat, record : Entries]
    BY DEF WellKept, SpendRuns
<1>5. \A x \in A : name[x] \in [copy : Nat, record : Entries]
    <2>. SUFFICES ASSUME NEW x \in A PROVE name[x] \in [copy : Nat, record : Entries]
        OBVIOUS
    <2>1. {y \in run.stored : y.record = x} \in SUBSET run.stored
        OBVIOUS
    <2>2. Cardinality({y \in run.stored : y.record = x}) \in Nat
        BY <2>1, <1>3, FS_Subset, FS_CardinalityType
    <2>. QED BY <2>2, <1>1, <1>3
<1>6. IsFiniteSet({name[x] : x \in A})
    <2>1. name \in Surjection(A, {name[x] : x \in A})
        BY <1>1 DEF Surjection
    <2>. QED BY <2>1, <1>3, FS_Surjection
<1>7. PICK S : S = run.stored \cup {name[x] : x \in A}
    OBVIOUS
<1>8. PICK f : f = [y \in S |-> y.record.cost]
    OBVIOUS
<1>9. S \in SUBSET [copy : Nat, record : Entries] /\ IsFiniteSet(S)
    BY <1>3, <1>4, <1>5, <1>6, <1>7, FS_Union
<1>10. \A x \in S : f[x] \in Nat
    BY <1>8, <1>9 DEF Entries
<1>11. Sum(f, S) <= Sum(f, run.stored) + Sum(f, {name[x] : x \in A})
    BY <1>3, <1>6, <1>7, <1>10, SumUnion
<1>12. Sum(f, {name[x] : x \in A}) = CostOf(A)
    <2>1. PICK g : g = [y \in A |-> y.cost]
        OBVIOUS
    <2>2. \A x \in A : g[x] \in Int /\ f[name[x]] = g[x]
        <3>. SUFFICES ASSUME NEW x \in A PROVE g[x] \in Int /\ f[name[x]] = g[x]
            OBVIOUS
        <3>1. name[x] \in S /\ name[x].record = x
            BY <1>1, <1>7
        <3>2. f[name[x]] = x.cost
            BY <3>1, <1>8
        <3>3. x.cost \in Nat
            BY <1>3 DEF Entries
        <3>. QED BY <2>1, <3>2, <3>3
    <2>3. \A x \in A : \A y \in A : name[x] = name[y] => x = y
        <3>. SUFFICES ASSUME NEW x \in A, NEW y \in A, name[x] = name[y] PROVE x = y
            OBVIOUS
        <3>1. name[x].record = x /\ name[y].record = y
            BY <1>1
        <3>. QED BY <3>1
    <2>4. Sum(g, A) = Sum(f, {name[x] : x \in A})
        BY <2>2, <2>3, <1>3, SumOfNamed
    <2>. QED BY <2>1, <2>4 DEF CostOf
<1>13. Sum(f, run.stored) = SumCosts(run.stored)
    <2>1. run.stored \in SUBSET S
        BY <1>7
    <2>. QED BY <2>1, <1>8, <1>9, CostOfSomeRows
<1>14. Sum(f, S) = SumCosts(run.stored \cup RowsOf(run, A))
    BY <1>2, <1>7, <1>8 DEF SumCosts, Sum
<1>. QED BY <1>2, <1>5, <1>6, <1>11, <1>12, <1>13, <1>14

\* What is recorded of a day never shrinks while no row is removed.
LEMMA RecordedGrows ==
    ASSUME SpendShape, SpendShape', NEW d,
           \A r \in Ids : r \in Ids' /\ runs[r].stored \subseteq runs'[r].stored
    PROVE  Recorded(d) \in Nat /\ Recorded(d)' \in Nat /\ Recorded(d) <= Recorded(d)'
<1>. DEFINE Of(run) == SumCosts({x \in run.stored : x.record.day = d})
<1>1. IsFiniteSet(Ids) /\ IsFiniteSet(Ids') /\ Ids \in SUBSET Ids'
    <2>1. Ids = 1..Len(runs) /\ Len(runs) \in Nat /\ Ids' = 1..Len(runs') /\ Len(runs') \in Nat
        BY DEF SpendShape, Ids
    <2>2. IsFiniteSet(1..Len(runs)) /\ IsFiniteSet(1..Len(runs'))
        BY <2>1, FS_Interval
    <2>. QED BY <2>1, <2>2
<1>2. ASSUME NEW run, WellKept(run) PROVE Of(run) \in Nat
    <2>1. {x \in run.stored : x.record.day = d} \in SUBSET run.stored
        OBVIOUS
    <2>2. run.stored \in SUBSET [copy : Nat, record : Entries] /\ IsFiniteSet(run.stored)
        BY <1>2 DEF WellKept, SpendRuns
    <2>3. /\ {x \in run.stored : x.record.day = d} \in SUBSET [copy : Nat, record : Entries]
          /\ IsFiniteSet({x \in run.stored : x.record.day = d})
        BY <2>1, <2>2, FS_Subset
    <2>. QED BY <2>3, CostOfRows
<1>3. ASSUME NEW r \in Ids PROVE Of(runs[r]) <= Of(runs'[r])
    <2>1. r \in Ids' /\ WellKept(runs'[r]) /\ runs[r].stored \subseteq runs'[r].stored
        BY DEF SpendShape
    <2>2. runs'[r].stored \in SUBSET [copy : Nat, record : Entries] /\ IsFiniteSet(runs'[r].stored)
        BY <2>1 DEF WellKept, SpendRuns
    <2>3. /\ {x \in runs'[r].stored : x.record.day = d} \in SUBSET [copy : Nat, record : Entries]
          /\ IsFiniteSet({x \in runs'[r].stored : x.record.day = d})
        BY <2>2, FS_Subset
    <2>4. {x \in runs[r].stored : x.record.day = d} \in SUBSET {x \in runs'[r].stored : x.record.day = d}
        BY <2>1
    <2>. QED BY <2>3, <2>4, FewerRows
<1>. HIDE DEF Of
<1>4. PICK f : f = [r \in Ids |-> Of(runs[r])]
    OBVIOUS
<1>5. PICK g : g = [r \in Ids' |-> Of(runs'[r])]
    OBVIOUS
<1>6. Recorded(d) = Sum(f, Ids) /\ Recorded(d)' = Sum(g, Ids')
    BY <1>4, <1>5 DEF Recorded, Of, Sum
<1>7. \A r \in Ids : f[r] \in Nat
    BY <1>2, <1>4 DEF SpendShape
<1>8. \A r \in Ids' : g[r] \in Nat
    BY <1>2, <1>5 DEF SpendShape
<1>9. \A r \in Ids : f[r] \in Int /\ g[r] \in Int /\ f[r] <= g[r]
    BY <1>1, <1>3, <1>4, <1>5, <1>7, <1>8
<1>10. Sum(f, Ids) <= Sum(g, Ids)
    BY <1>1, <1>9, SumAtMost
<1>11. Sum(g, Ids) <= Sum(g, Ids')
    BY <1>1, <1>8, SumOfPart
<1>12. Sum(f, Ids) \in Nat /\ Sum(g, Ids') \in Nat /\ Sum(g, Ids) \in Nat
    BY <1>1, <1>7, <1>8, SumNat
<1>. QED BY <1>6, <1>10, <1>11, <1>12

-----------------------------------------------------------------------------
SpendPlaces == Active \cup Resumed \cup {"paused", "ended"}

\* A budget in use is not over by a whole answer.
Affords(run) ==
    RunLimit > 0 => \A k \in Costs : (\A j \in Costs : j <= k) => run.usage < RunLimit + k

\* A step after which run r is this one: it has moved on, and what it has stored stays.
Moves(r, run) ==
    /\ day' = day
    /\ runs' = [runs EXCEPT ![r] = run]
    /\ WellKept(run) /\ Affords(run)
    /\ run.client = runs[r].client
    /\ runs[r].stored \subseteq run.stored
    /\ run.pc \in Active => runs[r].pc \in Active
    /\ billed' \in Seq(Nat) /\ Len(billed') = Len(billed)
    /\ \A q \in Ids : q # r => billed'[q] = billed[q]
    /\ Weight(run) <= billed'[r]
    /\ \/ late' = late
       \/ /\ late' = [late EXCEPT ![r] = day]
          /\ ~check' /\ runs[r].pc = "end" /\ run.pc \notin Active

\* The indices of the runs, and those of their histories.
LEMMA IdsAre ==
    ASSUME SpendShape
    PROVE  /\ Ids = 1..Len(runs) /\ Len(runs) \in Nat
           /\ DOMAIN billed = Ids /\ DOMAIN late = Ids
           /\ \A r \in Ids : runs[r] \in SpendRuns /\ billed[r] \in Nat /\ late[r] \in Int
BY DEF SpendShape, Ids

\* What a run weighs is a number, and more than its rows say.
LEMMA WeightIsNat ==
    ASSUME NEW run, WellKept(run)
    PROVE  Weight(run) \in Nat /\ SumCosts(run.stored) \in Nat /\ SumCosts(run.stored) <= Weight(run)
<1>1. run.stored \in SUBSET [copy : Nat, record : Entries] /\ IsFiniteSet(run.stored)
    BY DEF WellKept, SpendRuns
<1>2. Unstored(run) \in SUBSET Entries /\ IsFiniteSet(Unstored(run))
    <2>1. run.trail \in SUBSET Entries /\ IsFiniteSet(run.trail)
        BY DEF WellKept, SpendRuns
    <2>2. Unstored(run) \in SUBSET run.trail
        BY DEF Unstored
    <2>. QED BY <2>1, <2>2, FS_Subset
<1>3. SumCosts(run.stored) \in Nat
    BY <1>1, CostOfRows
<1>4. CostOf(Unstored(run)) \in Nat
    BY <1>2, CostOfRecords
<1>. QED BY <1>3, <1>4 DEF Weight

\* A run with nothing left to store weighs what its rows say.
LEMMA WeightOfStored ==
    ASSUME NEW run, SumCosts(run.stored) \in Nat, Unstored(run) = {}
    PROVE  Weight(run) = SumCosts(run.stored)
<1>1. CostOf({}) = 0
    BY SumEmpty DEF CostOf
<1>. QED BY <1>1 DEF Weight

\* The invariant outlives a step of one run.
LEMMA MovesKeep ==
    ASSUME SpendInv, NEW r \in Ids, NEW run, Moves(r, run)
    PROVE  SpendInv'
<1>. USE DEF Moves
<1>1. SpendShape /\ SpendInv
    BY DEF SpendInv
<1>2. /\ Ids = 1..Len(runs) /\ Len(runs) \in Nat /\ DOMAIN billed = Ids /\ DOMAIN late = Ids
      /\ \A q \in Ids : runs[q] \in SpendRuns /\ billed[q] \in Nat /\ late[q] \in Int
    BY <1>1, IdsAre
<1>3. runs' \in Seq(SpendRuns) /\ Len(runs') = Len(runs) /\ Ids' = Ids
    <2>1. run \in SpendRuns /\ runs \in Seq(SpendRuns)
        BY <1>1 DEF WellKept, SpendShape
    <2>. QED BY <2>1, <1>2, ExceptSeq DEF Ids
<1>4. runs'[r] = run /\ \A q \in Ids : q # r => runs'[q] = runs[q]
    BY <1>2 DEF Ids
<1>5. day \in 0..MaxDay /\ MaxDay \in Nat /\ day \in Int
    BY <1>1, SpendAssumption DEF SpendShape
<1>6. late' \in Seq(Int) /\ Len(late') = Len(late)
    <2>1. late \in Seq(Int) /\ r \in 1..Len(late)
        BY <1>1, <1>2 DEF SpendShape
    <2>2. [late EXCEPT ![r] = day] \in Seq(Int) /\ Len([late EXCEPT ![r] = day]) = Len(late)
        BY <2>1, <1>5, ExceptSeq
    <2>. QED BY <2>1, <2>2
<1>7. /\ \A q \in Ids : q # r => late'[q] = late[q]
      /\ late'[r] = late[r] \/ late'[r] = day
    BY <1>2
<1>8. SpendShape'
    <2>1. \A q \in Ids : WellKept(runs'[q])
        BY <1>1, <1>4 DEF SpendShape
    <2>2. Len(billed) = Len(runs) /\ Len(late) = Len(runs)
        BY <1>1 DEF SpendShape
    <2>. QED BY <2>1, <2>2, <1>3, <1>5, <1>6 DEF SpendShape
<1>9. \A d : Recorded(d) \in Nat /\ Recorded(d)' \in Nat /\ Recorded(d) <= Recorded(d)'
    <2>1. \A q \in Ids : q \in Ids' /\ runs[q].stored \subseteq runs'[q].stored
        BY <1>3, <1>4
    <2>. QED BY <2>1, <1>1, <1>8, RecordedGrows
<1>10. ~check => ~check'
    <2>1. Recorded(day) \in Nat /\ Recorded(day)' \in Nat /\ Recorded(day) <= Recorded(day)'
        BY <1>9
    <2>2. DayLimit \in Int /\ spend_today = Recorded(day) /\ spend_today' = Recorded(day)'
        BY SpendAssumption DEF spend_today
    <2>3. (check <=> DayLimit <= 0 \/ spend_today < DayLimit) /\ (check' <=> DayLimit <= 0 \/ spend_today' < DayLimit)
        BY DEF check
    <2>. QED BY <2>1, <2>2, <2>3
<1>11. \A q \in Ids : runs'[q].client = runs[q].client /\ (runs'[q].pc \in Active => runs[q].pc \in Active)
    BY <1>4
<1>12. LateDays
    BY DEF SpendInv
<1>13. LateDays'
    <2>1. \A q, s \in Ids : q # s /\ runs'[q].client = runs'[s].client =>
            runs'[q].pc \notin Active \/ runs'[s].pc \notin Active
        BY <1>11, <1>12 DEF LateDays
    <2>2. \A q \in Ids : late'[q] <= day
        <3>1. \A q \in Ids : late[q] <= day
            BY <1>12 DEF LateDays
        <3>. QED BY <3>1, <1>5, <1>7
    <2>3. ASSUME NEW q \in Ids, late'[q] = day
          PROVE  ~check' /\ \A s \in Ids : runs'[s].client = runs'[q].client => runs'[s].pc \notin Active
        <3>1. CASE late'[q] = late[q]
            <4>1. ~check /\ \A s \in Ids : runs[s].client = runs[q].client => runs[s].pc \notin Active
                BY <3>1, <2>3, <1>12 DEF LateDays
            <4>. QED BY <4>1, <1>10, <1>11
        <3>2. CASE late'[q] # late[q]
            <4>1. q = r /\ ~check' /\ runs[r].pc = "end" /\ run.pc \notin Active
                BY <3>2, <1>7
            <4>2. "end" \in Active
                BY DEF Active, Running
            <4>3. \A s \in Ids : s # r /\ runs[s].client = runs[r].client => runs[s].pc \notin Active
                BY <4>1, <4>2, <1>12 DEF LateDays
            <4>. QED BY <4>1, <4>3, <1>4, <1>11
        <3>. QED BY <3>1, <3>2
    <2>4. \A q \in Ids : late'[q] = day =>
            ~check' /\ \A s \in Ids : runs'[s].client = runs'[q].client => runs'[s].pc \notin Active
        BY <2>3
    <2>. QED BY <2>1, <2>2, <2>4, <1>3 DEF LateDays
<1>14. OvershootBounded'
    <2>1. ASSUME NEW q \in Ids, NEW s \in Ids, q # s, runs'[q].client = runs'[s].client,
                 late'[q] # -1, late'[q] = late'[s]
          PROVE  FALSE
        <3>1. runs[q].client = runs[s].client
            BY <2>1, <1>11
        <3>2. CASE late' = late
            BY <3>1, <3>2, <2>1, <1>1 DEF SpendInv, OvershootBounded
        <3>3. CASE late' # late
            <4>1. late'[r] = day /\ runs[r].pc = "end"
                BY <3>3, <1>2
            <4>2. r = q \/ r = s
                <5>1. CASE r # q /\ r # s
                    <6>1. late[q] # -1 /\ late[q] = late[s]
                        BY <5>1, <2>1, <1>7
                    <6>. QED BY <6>1, <3>1, <2>1, <1>1 DEF SpendInv, OvershootBounded
                <5>. QED BY <5>1
            <4>3. PICK o \in Ids : o # r /\ late'[o] = day /\ runs[o].client = runs[r].client
                BY <4>1, <4>2, <3>1, <2>1
            <4>4. late[o] = day
                BY <4>3, <1>7
            <4>5. runs[r].pc \notin Active
                BY <4>3, <4>4, <1>12 DEF LateDays
            <4>. QED BY <4>1, <4>5 DEF Active, Running
        <3>. QED BY <3>2, <3>3
    <2>. QED BY <2>1, <1>3 DEF OvershootBounded
<1>15. BudgetHolds'
    <2>1. \A q \in Ids : Affords(runs'[q])
        BY <1>1, <1>4 DEF SpendInv, BudgetHolds, Affords
    <2>. QED BY <2>1, <1>3 DEF BudgetHolds, Affords
<1>16. \A q \in Ids : Weight(runs'[q]) <= billed'[q]
    BY <1>1, <1>4 DEF SpendInv
<1>. QED BY <1>3, <1>8, <1>13, <1>14, <1>15, <1>16 DEF SpendInv, Weight, Unstored, SumCosts, CostOf, Sum

\* A run that only moves on, and may lose the usage of its budget.
LEMMA GoOn ==
    ASSUME SpendInv, NEW r \in Ids, NEW run \in SpendRuns, day' = day, billed' = billed, late' = late,
           runs' = [runs EXCEPT ![r] = run],
           run.client = runs[r].client, run.stored = runs[r].stored,
           run.trail = runs[r].trail \/ run.trail = {},
           run.usage = runs[r].usage \/ run.usage = 0,
           run.pc \in Active => runs[r].pc \in Active
    PROVE  SpendInv'
<1>1. WellKept(runs[r]) /\ Weight(runs[r]) <= billed[r] /\ billed \in Seq(Nat) /\ billed[r] \in Nat
    BY IdsAre DEF SpendInv, SpendShape
<1>2. WellKept(run)
    <2>1. CASE run.trail = runs[r].trail
        BY <1>1, <2>1 DEF WellKept
    <2>2. CASE run.trail = {}
        <3>1. IsFiniteSet({})
            BY FS_EmptySet
        <3>. QED BY <1>1, <2>2, <3>1 DEF WellKept
    <2>. QED BY <2>1, <2>2
<1>3. Affords(run)
    <2>1. Affords(runs[r])
        BY DEF SpendInv, BudgetHolds, Affords
    <2>2. CASE run.usage = runs[r].usage
        BY <2>1, <2>2 DEF Affords
    <2>3. CASE run.usage = 0
        BY <2>3, SpendAssumption DEF Affords
    <2>. QED BY <2>2, <2>3
<1>4. Weight(run) <= billed[r]
    <2>1. CASE run.trail = runs[r].trail
        BY <1>1, <2>1 DEF Weight, Unstored
    <2>2. CASE run.trail = {}
        <3>1. SumCosts(run.stored) \in Nat /\ SumCosts(run.stored) <= Weight(runs[r]) /\ Weight(runs[r]) \in Nat
            BY <1>1, WeightIsNat
        <3>2. Unstored(run) = {}
            BY <2>2 DEF Unstored
        <3>3. Weight(run) = SumCosts(run.stored)
            BY <3>1, <3>2, WeightOfStored
        <3>. QED BY <1>1, <3>1, <3>3
    <2>. QED BY <2>1, <2>2
<1>5. Moves(r, run)
    BY <1>1, <1>2, <1>3, <1>4 DEF Moves
<1>. QED BY <1>5, MovesKeep

\* What a node leaves behind: a record whose cost was billed.
LEMMA LeaveKeeps ==
    ASSUME SpendInv, NEW r \in Ids, NEW node \in {"market_regime", "stock_research", "finance_report"},
           NEW outcome \in [counted : Costs \cup {0}, kept : Costs \cup {0}], NEW counts \in BOOLEAN,
           NEW pc \in SpendPlaces, Leave(r, node, outcome, counts, pc),
           outcome.kept <= outcome.counted,
           counts /\ Exhausted(runs[r].usage) => outcome.counted = 0,
           pc \in Active => runs[r].pc \in Active
    PROVE  SpendInv'
<1>1. PICK e : e = [node |-> node, pass |-> Cardinality(runs[r].trail), day |-> day, cost |-> outcome.kept]
    OBVIOUS
<1>2. PICK run : run = [runs[r] EXCEPT !.pc = pc, !.trail = Finished(runs[r], node, outcome.kept),
                            !.usage = runs[r].usage + IF counts THEN outcome.counted ELSE 0]
    OBVIOUS
<1>3. /\ WellKept(runs[r]) /\ Weight(runs[r]) <= billed[r] /\ billed \in Seq(Nat)
      /\ r \in 1..Len(billed) /\ billed[r] \in Nat /\ runs[r] \in SpendRuns
    BY IdsAre DEF SpendInv, SpendShape
<1>4. outcome.kept \in Nat /\ outcome.counted \in Nat
    BY SpendAssumption
<1>5. Cardinality(runs[r].trail) \in Nat /\ day \in Nat
    BY <1>3, FS_CardinalityType, SpendAssumption DEF WellKept, SpendInv, SpendShape
<1>6. e \in Entries
    BY <1>1, <1>4, <1>5 DEF Entries
<1>7. /\ run \in SpendRuns /\ run.client = runs[r].client /\ run.stored = runs[r].stored /\ run.pc = pc
      /\ run.trail = runs[r].trail \cup {e}
      /\ run.usage = runs[r].usage + IF counts THEN outcome.counted ELSE 0
    <2>1. runs[r].trail \cup {e} = Finished(runs[r], node, outcome.kept)
        BY <1>1 DEF Finished
    <2>2. runs[r].trail \cup {e} \in SUBSET Entries
        BY <1>3, <1>6 DEF SpendRuns
    <2>3. PICK usage \in Nat : usage = runs[r].usage + IF counts THEN outcome.counted ELSE 0
        BY <1>3, <1>4 DEF SpendRuns
    <2>4. PICK trail \in SUBSET Entries : trail = runs[r].trail \cup {e}
        BY <2>2
    <2>5. run = [runs[r] EXCEPT !.pc = pc, !.trail = trail, !.usage = usage]
        BY <1>2, <2>1, <2>3, <2>4
    <2>6. /\ run \in SpendRuns /\ run.client = runs[r].client /\ run.stored = runs[r].stored
          /\ run.pc = pc /\ run.trail = trail /\ run.usage = usage
        BY <1>3, <2>5 DEF SpendRuns, SpendPlaces
    <2>. QED BY <2>3, <2>4, <2>6
<1>8. WellKept(run)
    <2>1. IsFiniteSet(runs[r].trail) /\ IsFiniteSet(runs[r].stored)
        BY <1>3 DEF WellKept
    <2>2. \A x \in runs[r].trail : x.pass < Cardinality(runs[r].trail) /\ x.pass \in Nat
        BY <1>3 DEF WellKept, SpendRuns, Entries
    <2>3. e \notin runs[r].trail /\ e.pass = Cardinality(runs[r].trail)
        BY <1>1, <1>5, <2>2
    <2>4. IsFiniteSet(run.trail) /\ Cardinality(run.trail) = Cardinality(runs[r].trail) + 1
        BY <1>7, <2>1, <2>3, FS_AddElement
    <2>5. \A x \in run.trail : x.pass < Cardinality(run.trail)
        BY <1>5, <1>7, <2>2, <2>3, <2>4
    <2>6. ASSUME NEW x \in run.trail, NEW y \in run.trail, x.pass = y.pass PROVE x = y
        <3>1. CASE x \in runs[r].trail /\ y \in runs[r].trail
            BY <1>3, <2>6, <3>1 DEF WellKept
        <3>2. CASE x = e \/ y = e
            BY <1>5, <1>7, <2>2, <2>3, <2>6, <3>2
        <3>. QED BY <1>7, <3>1, <3>2
    <2>. QED BY <1>7, <2>1, <2>4, <2>5, <2>6 DEF WellKept
<1>9. Affords(run)
    <2>. SUFFICES ASSUME RunLimit > 0, NEW k \in Costs, \A j \in Costs : j <= k
                  PROVE  run.usage < RunLimit + k
        BY DEF Affords
    <2>1. RunLimit \in Int /\ k \in Nat \ {0} /\ runs[r].usage \in Nat
        BY <1>3, SpendAssumption DEF SpendRuns
    <2>2. runs[r].usage < RunLimit + k
        BY DEF SpendInv, BudgetHolds
    <2>3. CASE run.usage = runs[r].usage
        BY <2>2, <2>3
    <2>4. CASE run.usage # runs[r].usage
        <3>1. counts /\ outcome.counted # 0 /\ run.usage = runs[r].usage + outcome.counted
            BY <1>4, <1>7, <2>1, <2>4
        <3>2. ~(runs[r].usage >= RunLimit)
            BY <3>1 DEF Exhausted
        <3>3. outcome.counted <= k
            BY <3>1
        <3>. QED BY <1>4, <2>1, <3>1, <3>2, <3>3
    <2>. QED BY <2>3, <2>4
<1>10. billed' \in Seq(Nat) /\ Len(billed') = Len(billed) /\ billed'[r] = billed[r] + outcome.counted
       /\ \A q \in Ids : q # r => billed'[q] = billed[q]
    <2>1. billed' = [billed EXCEPT ![r] = billed[r] + outcome.counted]
        BY DEF Leave
    <2>2. DOMAIN billed = Ids
        BY IdsAre DEF SpendInv
    <2>3. billed[r] + outcome.counted \in Nat
        BY <1>3, <1>4
    <2>4. billed' \in Seq(Nat) /\ Len(billed') = Len(billed)
        BY <1>3, <2>1, <2>3, ExceptSeq
    <2>. QED BY <2>1, <2>2, <2>4
<1>11. Weight(run) <= billed'[r]
    <2>1. PICK A : A = Unstored(runs[r])
        OBVIOUS
    <2>2. PICK B : B = Unstored(run)
        OBVIOUS
    <2>3. A \in SUBSET runs[r].trail /\ B \in SUBSET (A \cup {e})
        BY <1>7, <2>1, <2>2 DEF Unstored
    <2>4. A \in SUBSET Entries /\ IsFiniteSet(A)
        BY <1>3, <2>3, FS_Subset DEF WellKept, SpendRuns
    <2>5. CostOf(B) <= CostOf(A) + e.cost /\ e.cost = outcome.kept
        BY <1>1, <1>6, <2>3, <2>4, OneMoreRecord
    <2>6. CostOf(A) \in Nat /\ CostOf(B) \in Nat
        <3>1. B \in SUBSET Entries /\ IsFiniteSet(B)
            BY <1>6, <2>3, <2>4, FS_Subset, FS_AddElement
        <3>. QED BY <2>4, <3>1, CostOfRecords
    <2>7. SumCosts(runs[r].stored) \in Nat
        BY <1>3, WeightIsNat
    <2>8. /\ Weight(run) = SumCosts(runs[r].stored) + CostOf(B)
          /\ Weight(runs[r]) = SumCosts(runs[r].stored) + CostOf(A)
        BY <1>7, <2>1, <2>2 DEF Weight
    <2>. QED BY <1>3, <1>4, <1>10, <2>5, <2>6, <2>7, <2>8
<1>12. runs' = [runs EXCEPT ![r] = run] /\ day' = day /\ late' = late
    BY <1>2 DEF Leave
<1>13. Moves(r, run)
    BY <1>7, <1>8, <1>9, <1>10, <1>11, <1>12 DEF Moves
<1>. QED BY <1>13, MovesKeep

\* What a run stores is what it had not stored, and leaves nothing to store.
LEMMA StoreAll ==
    ASSUME NEW run, WellKept(run)
    PROVE  /\ persist_audit_trail(run) \in SUBSET [copy : Nat, record : Entries]
           /\ IsFiniteSet(persist_audit_trail(run))
           /\ run.stored \subseteq persist_audit_trail(run)
           /\ SumCosts(persist_audit_trail(run)) <= Weight(run)
           /\ \A x \in run.trail : \E y \in persist_audit_trail(run) :
                <<y.record.node, y.record.pass>> = <<x.node, x.pass>>
<1>1. Unstored(run) \in SUBSET run.trail
    BY DEF Unstored
<1>2. /\ RowsOf(run, Unstored(run)) \in SUBSET [copy : Nat, record : Entries]
      /\ IsFiniteSet(RowsOf(run, Unstored(run)))
      /\ SumCosts(run.stored \cup RowsOf(run, Unstored(run))) <= SumCosts(run.stored) + CostOf(Unstored(run))
    BY <1>1, RowsOfRecords
<1>3. run.stored \in SUBSET [copy : Nat, record : Entries] /\ IsFiniteSet(run.stored)
    BY DEF WellKept, SpendRuns
<1>4. IsFiniteSet(run.stored \cup RowsOf(run, Unstored(run)))
    BY <1>2, <1>3, FS_Union
<1>5. ASSUME NEW x \in run.trail
      PROVE  \E y \in persist_audit_trail(run) : <<y.record.node, y.record.pass>> = <<x.node, x.pass>>
    <2>1. CASE x \in Unstored(run)
        <3>1. PICK y : y = [copy |-> Cardinality({z \in run.stored : z.record = x}), record |-> x]
            OBVIOUS
        <3>2. y \in RowsOf(run, Unstored(run)) /\ y.record = x
            BY <2>1, <3>1 DEF RowsOf
        <3>. QED BY <3>2 DEF persist_audit_trail
    <2>2. CASE x \notin Unstored(run)
        BY <2>2 DEF Unstored, persist_audit_trail
    <2>. QED BY <2>1, <2>2
<1>. QED BY <1>2, <1>3, <1>4, <1>5 DEF persist_audit_trail, Weight

LEMMA PersistKeeps ==
    ASSUME SpendInv, NEW r \in Ids, Persist(r)
    PROVE  SpendInv'
<1>1. PICK kept : kept = persist_audit_trail(runs[r])
    OBVIOUS
<1>2. PICK done : done = [runs[r] EXCEPT !.stored = kept]
    OBVIOUS
<1>3. PICK run : run = IF Reported(runs[r]) THEN Ended(done) ELSE [done EXCEPT !.pc = "paused", !.usage = 0]
    OBVIOUS
<1>4. /\ WellKept(runs[r]) /\ Weight(runs[r]) <= billed[r] /\ billed \in Seq(Nat)
      /\ billed[r] \in Nat /\ runs[r] \in SpendRuns /\ DOMAIN late = Ids
    BY IdsAre DEF SpendInv, SpendShape
<1>5. /\ kept \in SUBSET [copy : Nat, record : Entries] /\ IsFiniteSet(kept)
      /\ runs[r].stored \subseteq kept /\ SumCosts(kept) <= Weight(runs[r])
      /\ \A x \in runs[r].trail : \E y \in kept : <<y.record.node, y.record.pass>> = <<x.node, x.pass>>
    BY <1>1, <1>4, StoreAll
<1>6. /\ run \in SpendRuns /\ run.client = runs[r].client /\ run.stored = kept
      /\ run.pc \in {"paused", "ended"} /\ run.usage = 0
      /\ run.trail = {} \/ run.trail = runs[r].trail
    <2>1. done \in SpendRuns /\ done.client = runs[r].client /\ done.stored = kept /\ done.trail = runs[r].trail
        BY <1>2, <1>4, <1>5 DEF SpendRuns
    <2>2. CASE Reported(runs[r])
        BY <1>3, <2>1, <2>2 DEF Ended, SpendRuns
    <2>3. CASE ~Reported(runs[r])
        BY <1>3, <2>1, <2>3 DEF SpendRuns
    <2>. QED BY <2>2, <2>3
<1>7. WellKept(run)
    <2>1. CASE run.trail = runs[r].trail
        BY <1>4, <1>5, <1>6, <2>1 DEF WellKept
    <2>2. CASE run.trail = {}
        <3>1. IsFiniteSet({})
            BY FS_EmptySet
        <3>. QED BY <1>5, <1>6, <2>2, <3>1 DEF WellKept
    <2>. QED BY <1>6, <2>1, <2>2
<1>8. Affords(run)
    BY <1>6, SpendAssumption DEF Affords
<1>9. Weight(run) <= billed[r]
    <2>1. Unstored(run) = {}
        BY <1>5, <1>6 DEF Unstored
    <2>2. SumCosts(run.stored) \in Nat
        BY <1>7, WeightIsNat
    <2>3. Weight(run) = SumCosts(kept)
        BY <1>6, <2>1, <2>2, WeightOfStored
    <2>4. Weight(runs[r]) \in Nat
        BY <1>4, WeightIsNat
    <2>. QED BY <1>4, <1>5, <1>6, <2>2, <2>3, <2>4
<1>10. runs' = [runs EXCEPT ![r] = run] /\ day' = day /\ billed' = billed
    BY <1>1, <1>2, <1>3 DEF Persist
<1>11. run.pc \notin Active
    BY <1>6 DEF Active, Running
<1>12. \/ late' = late
       \/ late' = [late EXCEPT ![r] = day] /\ ~check' /\ runs[r].pc = "end"
    <2>1. late' = [late EXCEPT ![r] = IF runs[r].pc = "end" /\ ~check' THEN day ELSE late[r]]
        BY DEF Persist
    <2>2. late \in Seq(Int)
        BY DEF SpendInv, SpendShape
    <2>3. [late EXCEPT ![r] = late[r]] = late
        BY <1>4, <2>2
    <2>. QED BY <2>1, <2>3
<1>13. Moves(r, run)
    BY <1>4, <1>5, <1>6, <1>7, <1>8, <1>9, <1>10, <1>11, <1>12 DEF Moves
<1>. QED BY <1>13, MovesKeep
\* A run is queued for a client that has none, below the ceiling.
LEMMA TriggerKeeps ==
    ASSUME SpendInv, NEW c \in Clients, trigger_run(c)
    PROVE  SpendInv'
<1>1. PICK run : run = [client |-> c, pc |-> "queued", usage |-> 0, trail |-> {}, stored |-> {}]
    OBVIOUS
<1>2. /\ runs' = Append(runs, run) /\ billed' = Append(billed, 0) /\ late' = Append(late, -1)
      /\ day' = day /\ check /\ ~HasJob(c)
    BY <1>1 DEF trigger_run
<1>3. /\ runs \in Seq(SpendRuns) /\ billed \in Seq(Nat) /\ late \in Seq(Int) /\ day \in 0..MaxDay /\ day \in Nat
      /\ Len(billed) = Len(runs) /\ Len(late) = Len(runs) /\ Ids = 1..Len(runs) /\ Len(runs) \in Nat
      /\ \A r \in Ids : WellKept(runs[r])
    BY IdsAre, SpendAssumption DEF SpendInv, SpendShape
<1>4. run \in SpendRuns /\ "queued" \in Active
    BY <1>1 DEF SpendRuns, Active
<1>5. PICK n : n = Len(runs) + 1
    OBVIOUS
<1>6. /\ runs' \in Seq(SpendRuns) /\ Len(runs') = n /\ runs'[n] = run
      /\ \A r \in 1..Len(runs) : runs'[r] = runs[r]
    BY <1>2, <1>3, <1>4, <1>5, AppendProperties
<1>7. /\ billed' \in Seq(Nat) /\ Len(billed') = n /\ billed'[n] = 0
      /\ \A r \in 1..Len(runs) : billed'[r] = billed[r]
    BY <1>2, <1>3, <1>5, AppendProperties
<1>8. /\ late' \in Seq(Int) /\ Len(late') = n /\ late'[n] = -1
      /\ \A r \in 1..Len(runs) : late'[r] = late[r]
    BY <1>2, <1>3, <1>5, AppendProperties
<1>9. /\ Ids' = Ids \cup {n} /\ n \notin Ids /\ n \in Ids'
      /\ \A r \in Ids : runs'[r] = runs[r] /\ billed'[r] = billed[r] /\ late'[r] = late[r]
    <2>1. Ids' = 1..n
        BY <1>3, <1>5, <1>6 DEF Ids
    <2>. QED BY <2>1, <1>3, <1>5, <1>6, <1>7, <1>8
<1>10. WellKept(run) /\ Weight(run) = 0
    <2>1. IsFiniteSet({}) /\ SumCosts({}) = 0
        BY FS_EmptySet, SumEmpty DEF SumCosts, Sum
    <2>2. WellKept(run)
        BY <1>1, <1>4, <2>1 DEF WellKept
    <2>3. Unstored(run) = {} /\ SumCosts(run.stored) = 0
        BY <1>1, <2>1 DEF Unstored
    <2>. QED BY <2>2, <2>3, WeightOfStored
<1>11. SpendShape'
    <2>1. \A r \in Ids' : WellKept(runs'[r])
        BY <1>3, <1>6, <1>9, <1>10
    <2>. QED BY <2>1, <1>2, <1>3, <1>6, <1>7, <1>8 DEF SpendShape
<1>12. (\A r \in Ids : late[r] # day) /\ \A r \in Ids : runs[r].client = c => runs[r].pc \notin Active
    BY <1>2 DEF SpendInv, LateDays, HasJob, Active
<1>13. LateDays'
    <2>1. ASSUME NEW q \in Ids', NEW r \in Ids', q # r, runs'[q].client = runs'[r].client
          PROVE  runs'[q].pc \notin Active \/ runs'[r].pc \notin Active
        <3>1. CASE q \in Ids /\ r \in Ids
            BY <2>1, <3>1, <1>9 DEF SpendInv, LateDays
        <3>2. CASE q = n \/ r = n
            <4>1. run.client = c
                BY <1>1
            <4>. QED BY <2>1, <3>2, <4>1, <1>6, <1>9, <1>12
        <3>. QED BY <3>1, <3>2, <1>9
    <2>2. \A q \in Ids' : late'[q] <= day /\ late'[q] # day
        <3>1. \A q \in Ids : late[q] <= day
            BY DEF SpendInv, LateDays
        <3>2. \A q \in Ids : late'[q] <= day /\ late'[q] # day
            BY <3>1, <1>9, <1>12
        <3>3. -1 <= day /\ -1 # day
            BY <1>3
        <3>. QED BY <3>2, <3>3, <1>8, <1>9
    <2>. QED BY <2>1, <2>2, <1>2 DEF LateDays
<1>14. OvershootBounded'
    <2>1. ASSUME NEW q \in Ids', NEW r \in Ids', q # r, runs'[q].client = runs'[r].client, late'[q] # -1
          PROVE  late'[q] # late'[r]
        <3>1. q \in Ids
            BY <2>1, <1>8, <1>9
        <3>2. CASE r \in Ids
            BY <2>1, <3>1, <3>2, <1>9 DEF SpendInv, OvershootBounded
        <3>3. CASE r = n
            BY <2>1, <3>3, <1>8
        <3>. QED BY <3>2, <3>3, <1>9
    <2>. QED BY <2>1 DEF OvershootBounded
<1>15. BudgetHolds'
    <2>1. ASSUME RunLimit > 0, NEW r \in Ids', NEW k \in Costs, \A j \in Costs : j <= k
          PROVE  runs'[r].usage < RunLimit + k
        <3>1. CASE r \in Ids
            BY <2>1, <3>1, <1>9 DEF SpendInv, BudgetHolds
        <3>2. CASE r = n
            BY <2>1, <3>2, <1>1, <1>6, SpendAssumption
        <3>. QED BY <3>1, <3>2, <1>9
    <2>. QED BY <2>1 DEF BudgetHolds
<1>16. \A r \in Ids' : Weight(runs'[r]) <= billed'[r]
    BY <1>6, <1>7, <1>9, <1>10 DEF SpendInv
<1>. QED BY <1>11, <1>13, <1>14, <1>15, <1>16 DEF SpendInv, Weight, Unstored, SumCosts, CostOf, Sum

\* The next day nothing is late yet.
LEMMA NextDayKeeps ==
    ASSUME SpendInv, NextDay
    PROVE  SpendInv'
<1>1. /\ day' = day + 1 /\ day < MaxDay /\ runs' = runs /\ billed' = billed /\ late' = late /\ Ids' = Ids
      /\ day \in 0..MaxDay /\ MaxDay \in Nat /\ \A r \in Ids : late[r] \in Int
    BY IdsAre, SpendAssumption DEF NextDay, Ids, SpendInv, SpendShape
<1>2. SpendShape'
    BY <1>1 DEF SpendInv, SpendShape
<1>3. LateDays'
    <2>1. \A q \in Ids : late[q] <= day
        BY DEF SpendInv, LateDays
    <2>2. \A q \in Ids : late[q] <= day' /\ late[q] # day'
        BY <1>1, <2>1
    <2>. QED BY <1>1, <2>2 DEF SpendInv, LateDays
<1>4. OvershootBounded' /\ BudgetHolds'
    BY <1>1 DEF SpendInv, OvershootBounded, BudgetHolds
<1>. QED BY <1>1, <1>2, <1>3, <1>4 DEF SpendInv, Weight, Unstored, SumCosts, CostOf, Sum

LEMMA SpendInitInv == SpendInit => SpendInv
<1>. SUFFICES ASSUME SpendInit PROVE SpendInv
    OBVIOUS
<1>1. /\ day = 0 /\ runs = <<>> /\ billed = <<>> /\ late = <<>> /\ Ids = {}
      /\ runs \in Seq(SpendRuns) /\ billed \in Seq(Nat) /\ late \in Seq(Int)
    BY DEF SpendInit, Ids
<1>2. SpendShape
    BY <1>1, SpendAssumption DEF SpendShape
<1>. QED BY <1>1, <1>2 DEF SpendInv, LateDays, OvershootBounded, BudgetHolds

\* The calls of the three nodes.
LEMMA NodesKeep ==
    ASSUME SpendInv, NEW r \in Ids, market_regime(r) \/ stock_research(r) \/ finance_report(r)
    PROVE  SpendInv'
<1>. DEFINE Outcomes == [counted : Costs \cup {0}, kept : Costs \cup {0}]
<1>1. \A o \in Structured \cup Parsed : o \in Outcomes /\ o.kept <= o.counted
    BY SpendAssumption DEF Structured, Parsed, Plain, Nothing
<1>2. Nothing \in Outcomes /\ Nothing.kept <= Nothing.counted /\ Nothing.counted = 0
    BY DEF Nothing
<1>3. CASE market_regime(r)
    <2>1. PICK counts \in BOOLEAN :
            \E o \in IF counts /\ Exhausted(runs[r].usage) THEN {Nothing} ELSE Structured \cup Parsed :
                Leave(r, "market_regime", o, counts, "stock_research")
        BY <1>3 DEF market_regime
    <2>2. PICK o : /\ o \in IF counts /\ Exhausted(runs[r].usage) THEN {Nothing} ELSE Structured \cup Parsed
                   /\ Leave(r, "market_regime", o, counts, "stock_research")
        BY <2>1
    <2>3. o \in Outcomes /\ o.kept <= o.counted /\ (counts /\ Exhausted(runs[r].usage) => o.counted = 0)
        BY <1>1, <1>2, <2>2
    <2>4. runs[r].pc \in Active /\ "stock_research" \in SpendPlaces
        BY <1>3 DEF market_regime, Active, Running, SpendPlaces
    <2>. QED BY <2>2, <2>3, <2>4, LeaveKeeps
<1>4. CASE stock_research(r)
    <2>1. PICK o : /\ o \in IF Exhausted(runs[r].usage) THEN {Nothing} ELSE Structured
                   /\ \E next \in {"finance_report", "end", "stock_research"} :
                        Leave(r, "stock_research", o, TRUE, next)
        BY <1>4 DEF stock_research
    <2>2. PICK next \in {"finance_report", "end", "stock_research"} : Leave(r, "stock_research", o, TRUE, next)
        BY <2>1
    <2>3. o \in Outcomes /\ o.kept <= o.counted /\ (Exhausted(runs[r].usage) => o.counted = 0)
        BY <1>1, <1>2, <2>1
    <2>4. runs[r].pc \in Active /\ next \in SpendPlaces
        BY <1>4 DEF stock_research, Active, Running, SpendPlaces
    <2>. QED BY <2>2, <2>3, <2>4, LeaveKeeps
<1>5. CASE finance_report(r)
    <2>1. PICK o : /\ o \in IF Exhausted(runs[r].usage) THEN {Nothing} ELSE Plain
                   /\ Leave(r, "finance_report", o, TRUE, IF runs[r].pc = "resumed" THEN "resumed_end" ELSE "end")
        BY <1>5 DEF finance_report
    <2>2. PICK next : next = IF runs[r].pc = "resumed" THEN "resumed_end" ELSE "end"
        OBVIOUS
    <2>3. o \in Outcomes /\ o.kept <= o.counted /\ (Exhausted(runs[r].usage) => o.counted = 0)
        BY <1>1, <1>2, <2>1 DEF Parsed
    <2>4. next \in SpendPlaces /\ (next \in Active => runs[r].pc \in Active)
        BY <1>5, <2>2 DEF finance_report, Active, Running, Resumed, SpendPlaces
    <2>5. Leave(r, "finance_report", o, TRUE, next)
        BY <2>1, <2>2
    <2>. QED BY <2>3, <2>4, <2>5, LeaveKeeps
<1>. QED BY <1>3, <1>4, <1>5

\* Steps that move a run on without a call.
LEMMA MovingOnKeeps ==
    ASSUME SpendInv, NEW r \in Ids, Begin(r) \/ resume_client_graph(r) \/ Crash(r)
    PROVE  SpendInv'
<1>1. runs[r] \in SpendRuns
    BY IdsAre DEF SpendInv
<1>2. CASE Begin(r)
    <2>1. PICK run : run = [runs[r] EXCEPT !.pc = "market_regime"]
        OBVIOUS
    <2>2. /\ run \in SpendRuns /\ run.client = runs[r].client /\ run.stored = runs[r].stored
          /\ run.trail = runs[r].trail /\ run.usage = runs[r].usage
        BY <1>1, <2>1 DEF SpendRuns, Active, Running
    <2>3. /\ runs' = [runs EXCEPT ![r] = run] /\ day' = day /\ billed' = billed /\ late' = late
          /\ runs[r].pc \in Active
        BY <1>2, <2>1 DEF Begin, Active
    <2>. QED BY <2>2, <2>3, GoOn
<1>3. CASE resume_client_graph(r)
    <2>1. PICK run : run = [runs[r] EXCEPT !.pc = IF Reported(runs[r]) THEN "resumed_end" ELSE "resumed"]
        OBVIOUS
    <2>2. /\ run \in SpendRuns /\ run.client = runs[r].client /\ run.stored = runs[r].stored
          /\ run.trail = runs[r].trail /\ run.usage = runs[r].usage
          /\ run.pc \in Resumed
        BY <1>1, <2>1 DEF SpendRuns, Resumed
    <2>3. /\ runs' = [runs EXCEPT ![r] = run] /\ day' = day /\ billed' = billed /\ late' = late
          /\ run.pc \notin Active
        BY <1>3, <2>1, <2>2 DEF resume_client_graph, Active, Running, Resumed
    <2>. QED BY <2>2, <2>3, GoOn
<1>4. CASE Crash(r)
    <2>1. PICK run : /\ runs' = [runs EXCEPT ![r] = run]
                     /\ \/ runs[r].pc \in Resumed /\ run = [runs[r] EXCEPT !.pc = "paused", !.usage = 0]
                        \/ /\ runs[r].pc \notin Resumed
                           /\ run = Ended(runs[r]) \/ run = [Ended(runs[r]) EXCEPT !.pc = "queued"]
        BY <1>4 DEF Crash
    <2>2. day' = day /\ billed' = billed /\ late' = late /\ runs[r].pc \in Running \cup Resumed
        BY <1>4 DEF Crash
    <2>3. /\ run \in SpendRuns /\ run.client = runs[r].client /\ run.stored = runs[r].stored
          /\ run.trail = runs[r].trail \/ run.trail = {}
          /\ run.usage = 0
        <3>. DEFINE Fits(new) ==
                /\ new \in SpendRuns /\ new.client = runs[r].client /\ new.stored = runs[r].stored
                /\ new.trail = runs[r].trail \/ new.trail = {}
                /\ new.usage = 0
        <3>1. Fits([runs[r] EXCEPT !.pc = "paused", !.usage = 0])
            BY <1>1 DEF SpendRuns
        <3>2. Fits(Ended(runs[r]))
            BY <1>1 DEF SpendRuns, Ended
        <3>3. Fits([Ended(runs[r]) EXCEPT !.pc = "queued"])
            BY <1>1 DEF SpendRuns, Ended, Active
        <3>4. Fits(run)
            <4>. HIDE DEF Fits
            <4>. QED BY <2>1, <3>1, <3>2, <3>3
        <3>. QED BY <3>4
    <2>4. run.pc \in Active => runs[r].pc \in Active
        BY <1>1, <2>1, <2>2 DEF SpendRuns, Ended, Active, Running
    <2>. QED BY <2>1, <2>2, <2>3, <2>4, GoOn
<1>. QED BY <1>2, <1>3, <1>4

LEMMA SpendStep == SpendInv /\ [SpendNext]_spendVars => SpendInv'
<1>. SUFFICES ASSUME SpendInv, [SpendNext]_spendVars PROVE SpendInv'
    OBVIOUS
<1>1. ASSUME NEW c \in Clients, trigger_run(c) PROVE SpendInv'
    BY <1>1, TriggerKeeps
<1>2. ASSUME NEW r \in Ids,
             \/ Begin(r) \/ market_regime(r) \/ stock_research(r) \/ finance_report(r)
             \/ Persist(r) \/ resume_client_graph(r) \/ Crash(r)
      PROVE  SpendInv'
    <2>1. CASE Begin(r) \/ resume_client_graph(r) \/ Crash(r)
        BY <2>1, MovingOnKeeps
    <2>2. CASE market_regime(r) \/ stock_research(r) \/ finance_report(r)
        BY <2>2, NodesKeep
    <2>3. CASE Persist(r)
        BY <2>3, PersistKeeps
    <2>. QED BY <1>2, <2>1, <2>2, <2>3
<1>3. CASE NextDay
    BY <1>3, NextDayKeeps
<1>4. CASE UNCHANGED spendVars
    <2>1. /\ day' = day /\ runs' = runs /\ billed' = billed /\ late' = late
          /\ Ids' = Ids /\ (check' <=> check)
        BY <1>4 DEF spendVars, Ids, check, spend_today, Recorded, SumCosts
    <2>2. SpendShape' /\ LateDays' /\ OvershootBounded' /\ BudgetHolds'
        BY <2>1 DEF SpendInv, SpendShape, LateDays, OvershootBounded, BudgetHolds
    <2>. QED BY <2>1, <2>2 DEF SpendInv, Weight, Unstored, SumCosts, CostOf, Sum
<1>. QED BY <1>1, <1>2, <1>3, <1>4 DEF SpendNext

\* The ceiling looks only at recorded spend (spend.py:90-98), and still, of the
\* runs of a client, at most one a day reaches it or is stored past it.
THEOREM OneLateRunADay == SpendSpec => []OvershootBounded
<1>1. SpendInv => OvershootBounded
    BY DEF SpendInv
<1>. QED BY <1>1, SpendInitInv, SpendStep, PTL DEF SpendSpec

\* What a run's budget counts exceeds its limit by less than one answer of the
\* model, over every retry of the research and every resume (llm.py:196-205).
THEOREM BudgetsHold == SpendSpec => []BudgetHolds
<1>1. SpendInv => BudgetHolds
    BY DEF SpendInv
<1>. QED BY <1>1, SpendInitInv, SpendStep, PTL DEF SpendSpec

\* A run's stored cost is never more than the model charged for it, whatever was
\* resumed, retried or rolled back (run_service.py:68-92).
THEOREM CostsAreNeverOverstated == SpendSpec => []NeverOverstated
<1>1. SpendInv => NeverOverstated
    <2>. SUFFICES ASSUME SpendInv, NEW r \in Ids PROVE SumCosts(runs[r].stored) <= billed[r]
        BY DEF NeverOverstated
    <2>1. WellKept(runs[r]) /\ Weight(runs[r]) <= billed[r] /\ billed[r] \in Nat
        BY IdsAre DEF SpendInv, SpendShape
    <2>. QED BY <2>1, WeightIsNat
<1>. QED BY <1>1, SpendInitInv, SpendStep, PTL DEF SpendSpec

\* Every run is well formed, and its trail has one record of each node it
\* passed: node and start identify it, which storing a resumed trail relies on
\* (run_service.py:80-94).
THEOREM TrailsAreKept == SpendSpec => []SpendTypeOK
<1>1. SpendInv => SpendTypeOK
    <2>. SUFFICES ASSUME SpendInv PROVE SpendTypeOK
        OBVIOUS
    <2>1. day \in 0..MaxDay
        BY DEF SpendInv, SpendShape
    <2>2. ASSUME NEW r \in Ids
          PROVE  /\ runs[r].client \in Clients
                 /\ runs[r].pc \in Running \cup Resumed \cup {"queued", "paused", "ended"}
                 /\ \A x, y \in runs[r].trail : <<x.node, x.pass>> = <<y.node, y.pass>> => x = y
        <3>1. WellKept(runs[r])
            BY DEF SpendInv, SpendShape
        <3>2. runs[r].client \in Clients /\ runs[r].pc \in Active \cup Resumed \cup {"paused", "ended"}
            BY <3>1 DEF WellKept, SpendRuns
        <3>3. \A x, y \in runs[r].trail : x.pass = y.pass => x = y
            BY <3>1 DEF WellKept
        <3>. QED BY <3>2, <3>3 DEF Active
    <2>. QED BY <2>1, <2>2 DEF SpendTypeOK
<1>. QED BY <1>1, SpendInitInv, SpendStep, PTL DEF SpendSpec
=============================================================================
