---------------------------- MODULE ProviderChain ----------------------------
(***************************************************************************)
(* Market data lookups of several threads over one chain of providers      *)
(* (services/providers/__init__.py): every provider has a circuit breaker  *)
(* and a token bucket that all threads share (services/resilience.py), and *)
(* a thread may have the deadline of its run bound (services/deadline.py). *)
(* Time passes in whole units; sleeps and jitter take any time.            *)
(***************************************************************************)
EXTENDS Integers, Sequences, FiniteSets

CONSTANTS
    None,
    Threads,
    Chain,          \* the configured providers, in order of priority
    Limit,          \* of a thread: RUN_DEADLINE_SECONDS, or None when none is bound
    Threshold,      \* MARKET_DATA_CIRCUIT_FAIL_THRESHOLD
    Cooldown,       \* MARKET_DATA_CIRCUIT_RESET_SECONDS
    MaxAttempts,    \* MARKET_DATA_MAX_ATTEMPTS
    Burst, Rate     \* of a token bucket

Providers == {Chain[k] : k \in DOMAIN Chain}

ASSUME ChainAssumption ==
    /\ Chain \in Seq(Providers) \ {<<>>}
    /\ \A k, l \in DOMAIN Chain : Chain[k] = Chain[l] => k = l
    /\ Limit \in [Threads -> Nat \cup {None}] /\ None \notin Nat
    /\ {Threshold, MaxAttempts, Burst, Rate} \subseteq Nat \ {0}
    /\ Cooldown \in Nat

VARIABLES
    breaker,    \* of each provider: failures, what is left of the cooldown
                \* (None when closed), and whether it is half open
    tokens,     \* of each provider
    lookup,     \* of each thread: where it is, the place in the chain, the attempt
    left,       \* of each thread: what is left until its deadline
    sent,       \* of each provider: requests in this unit of time and the last
    overrun,    \* of each thread: requests sent after its deadline
    faults      \* of each provider: faults of its own since it last answered

vars == <<breaker, tokens, lookup, left, sent, overrun, faults>>

Least(a, b) == IF a <= b THEN a ELSE b

----------------------------------------------------------------------------
(* The circuit breaker *)

Closed == [failures |-> 0, cooling |-> None, half |-> FALSE]

\* A failed probe restarts the cooldown.
record_failure(b) ==
    IF b.half THEN [b EXCEPT !.cooling = Cooldown, !.half = FALSE]
    ELSE [b EXCEPT !.failures = Least(@ + 1, Threshold),
                   !.cooling = IF b.failures + 1 >= Threshold /\ @ = None THEN Cooldown ELSE @]

Here(t) == Chain[lookup[t].at]

Idle == [pc |-> "idle", at |-> 1, attempt |-> 1]

\* The next provider; past the last one the lookup raises AllProvidersFailed.
NextProvider(l) ==
    IF l.at = Len(Chain) THEN Idle ELSE [pc |-> "circuit", at |-> l.at + 1, attempt |-> 1]

FailOver(t) ==
    /\ breaker' = [breaker EXCEPT ![Here(t)] = record_failure(@)]
    /\ lookup' = [lookup EXCEPT ![t] = NextProvider(@)]

Go(t, pc) == lookup' = [lookup EXCEPT ![t].pc = pc]

----------------------------------------------------------------------------
call_with_failover(t) ==
    /\ lookup[t].pc = "idle"
    /\ Go(t, "circuit")
    /\ UNCHANGED <<breaker, tokens, left, sent, overrun, faults>>

\* Once the cooldown is over every caller passes, until one reports.
before_call(t) ==
    /\ lookup[t].pc = "circuit"
    /\ LET b == breaker[Here(t)]
       IN  \/ b.cooling = None /\ Go(t, "begin") /\ UNCHANGED breaker
           \/ b.cooling = 0 /\ breaker' = [breaker EXCEPT ![Here(t)].half = TRUE] /\ Go(t, "begin")
           \/ b.cooling \notin {None, 0} /\ lookup' = [lookup EXCEPT ![t] = NextProvider(@)] /\ UNCHANGED breaker
    /\ UNCHANGED <<tokens, left, sent, overrun, faults>>

expired(t) == left[t] = 0

\* Mutant: a run out of time leaves without reporting to the breaker.
OutOfTime_Unreported(t) == lookup' = [lookup EXCEPT ![t] = NextProvider(@)] /\ UNCHANGED breaker

\* DeadlineExceeded counts as a failure of the provider.
OutOfTime(t) == FailOver(t)

\* retry_call checks the deadline before the first attempt.
retry_call(t) ==
    /\ lookup[t].pc = "begin"
    /\ IF expired(t) THEN OutOfTime(t) ELSE Go(t, "acquire") /\ UNCHANGED breaker
    /\ UNCHANGED <<tokens, left, sent, overrun, faults>>

\* A thread waits for a token and sends its request, whatever the time.
acquire(t) ==
    /\ lookup[t].pc = "acquire" /\ tokens[Here(t)] >= 1
    /\ tokens' = [tokens EXCEPT ![Here(t)] = @ - 1]
    /\ Go(t, "sent")
    /\ sent' = [sent EXCEPT ![Here(t)].now = @ + 1]
    /\ overrun' = [overrun EXCEPT ![t] = @ + IF expired(t) THEN 1 ELSE 0]
    /\ UNCHANGED <<breaker, left, faults>>

\* An answer closes the circuit; one the caller does not accept is asked of the
\* next provider all the same.
Answered(t) ==
    /\ lookup[t].pc = "sent"
    /\ breaker' = [breaker EXCEPT ![Here(t)] = Closed]
    /\ faults' = [faults EXCEPT ![Here(t)] = 0]
    /\ \E l \in {Idle, NextProvider(lookup[t])} : lookup' = [lookup EXCEPT ![t] = l]
    /\ UNCHANGED <<tokens, left, sent, overrun>>

\* Mutant: a run out of time retries like any other.
Retries_WhateverTheTime(t) == lookup[t].attempt < MaxAttempts

\* Mutant: the attempts of a transient failure are not counted.
Retries_Unbounded(t) == ~expired(t)

Retries(t) == lookup[t].attempt < MaxAttempts /\ ~expired(t)

Counted(t) == Least(lookup[t].attempt + 1, MaxAttempts)

\* A fault that may pass: rate limits, server errors, lost connections.
Transient(t) ==
    /\ lookup[t].pc = "sent"
    /\ faults' = [faults EXCEPT ![Here(t)] = Least(@ + 1, Threshold)]
    /\ IF Retries(t)
       THEN lookup' = [lookup EXCEPT ![t].pc = "backoff", ![t].attempt = Counted(t)] /\ UNCHANGED breaker
       ELSE FailOver(t)
    /\ UNCHANGED <<tokens, left, sent, overrun>>

\* A key that was rejected, and a symbol the provider does not know: the
\* adapters raise for both, and only the first is the provider's fault.
Permanent(t) ==
    /\ lookup[t].pc = "sent"
    /\ \E n \in {0, 1} : faults' = [faults EXCEPT ![Here(t)] = Least(@ + n, Threshold)]
    /\ FailOver(t)
    /\ UNCHANGED <<tokens, left, sent, overrun>>

\* The sleep between attempts ends.
Retry(t) ==
    /\ lookup[t].pc = "backoff"
    /\ Go(t, "acquire")
    /\ UNCHANGED <<breaker, tokens, left, sent, overrun, faults>>

\* run_deadline binds a fresh deadline for the thread's next run.
run_deadline(t) ==
    /\ lookup[t].pc = "idle" /\ Limit[t] # None /\ left[t] # Limit[t]
    /\ left' = [left EXCEPT ![t] = Limit[t]]
    /\ overrun' = [overrun EXCEPT ![t] = 0]
    /\ UNCHANGED <<breaker, tokens, lookup, sent, faults>>

Refilled(n) == Least(Burst, n + Rate)

Later(n) == IF n \in {None, 0} THEN n ELSE n - 1

Tick ==
    /\ breaker' = [p \in Providers |-> [breaker[p] EXCEPT !.cooling = Later(@)]]
    /\ tokens' = [p \in Providers |-> Refilled(tokens[p])]
    /\ left' = [t \in Threads |-> Later(left[t])]
    /\ sent' = [p \in Providers |-> [now |-> 0, before |-> sent[p].now]]
    /\ UNCHANGED <<lookup, overrun, faults>>

----------------------------------------------------------------------------
Init ==
    /\ breaker = [p \in Providers |-> Closed]
    /\ tokens = [p \in Providers |-> Burst]
    /\ lookup = [t \in Threads |-> Idle]
    /\ left = Limit
    /\ sent = [p \in Providers |-> [now |-> 0, before |-> 0]]
    /\ overrun = [t \in Threads |-> 0]
    /\ faults = [p \in Providers |-> 0]

Step(t) ==
    \/ before_call(t) \/ retry_call(t) \/ acquire(t)
    \/ Answered(t) \/ Transient(t) \/ Permanent(t) \/ Retry(t)

Next ==
    \/ \E t \in Threads : call_with_failover(t) \/ run_deadline(t) \/ Step(t)
    \/ Tick

Spec == Init /\ [][Next]_vars

\* Every request ends, by its timeout if not by an answer; a thread in a lookup
\* is scheduled, and one that waits for tokens others take gets one in the end;
\* time passes.
FairSpec ==
    /\ Spec
    /\ \A t \in Threads : WF_vars(Step(t)) /\ SF_vars(acquire(t))
    /\ WF_vars(Tick)

----------------------------------------------------------------------------
Calling(t, p) == lookup[t].pc \notin {"idle", "circuit"} /\ Here(t) = p

TypeOK ==
    /\ \A p \in Providers :
        /\ breaker[p].failures \in 0..Threshold
        /\ breaker[p].cooling = None \/ breaker[p].cooling \in 0..Cooldown
        /\ tokens[p] \in 0..Burst
    /\ \A t \in Threads :
        /\ lookup[t].pc \in {"idle", "circuit", "begin", "acquire", "sent", "backoff"}
        /\ lookup[t].at \in DOMAIN Chain /\ lookup[t].attempt \in 1..MaxAttempts
    /\ \A p \in Providers : breaker[p].half => breaker[p].cooling = 0

\* In any two units of time all threads together send a provider no more than a
\* burst and what one unit refills (resilience.py:204-230).
BurstBounded == \A p \in Providers : sent[p].now + sent[p].before <= Burst + Rate

\* A breaker is half open only while a call it let through has yet to report
\* (resilience.py:162-195): whatever ends a call, its end is recorded.
HalfOpenHasProbe ==
    \A p \in Providers : breaker[p].half => \E t \in Threads : Calling(t, p)

\* A run sends at most one request after its deadline, over all retries and
\* providers (resilience.py:86-134).
OneLateRequest == \A t \in Threads : overrun[t] <= 1

\* Every lookup ends, with an answer or with AllProvidersFailed.
EveryLookupEnds == \A t \in Threads : lookup[t].pc # "idle" ~> lookup[t].pc = "idle"

----------------------------------------------------------------------------
\* providers/__init__.py:156: "An empty answer is not a provider fault, so it
\* must not count towards opening the circuit": it opens after faults only.
OnlyFaultsTrip ==
    [][\A p \in Providers : breaker[p].cooling = None /\ breaker'[p].cooling # None => faults'[p] >= Threshold]_vars

\* deadline.py:26: "A deadline stops *new outbound work*".
NoLateRequest == \A t \in Threads : overrun[t] = 0

\* resilience.py:170: "let exactly one call through to probe".
SingleProbe ==
    \A p \in Providers : breaker[p].half => Cardinality({t \in Threads : Calling(t, p)}) <= 1
===============================================================================
