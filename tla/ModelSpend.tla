----------------------------- MODULE ModelSpend -----------------------------
(***************************************************************************)
(* What a firm's runs spend on the language model: the daily ceiling       *)
(* (services/spend.py), the budget of a run (services/llm.py) and the cost *)
(* written with each node's record (agents/runtime.py, run_service.py).    *)
(*                                                                         *)
(* Only the control of a run that decides which calls are made is here;    *)
(* JobQueue, AgentGraph and AnalysisRun have the rest.  Costs are whole.   *)
(***************************************************************************)
EXTENDS Integers, Sequences, FiniteSets, Functions

CONSTANTS
    Clients,            \* of the firm
    Costs,              \* of one answer of the model
    RunLimit,           \* LLM_RUN_BUDGET_USD
    DayLimit,           \* LLM_ORG_DAILY_BUDGET_USD
    MaxPasses,          \* of the research
    MaxDay, MaxRuns, MaxCrashes   \* bounds

ASSUME SpendAssumption ==
    /\ Costs \subseteq Nat \ {0} /\ Costs # {}
    /\ {RunLimit, DayLimit} \subseteq Int
    /\ {MaxPasses, MaxDay, MaxRuns, MaxCrashes} \subseteq Nat

VARIABLES
    day,
    runs,       \* every run, with its client, where it is, the usage of the
                \* budget bound to it, its trail, and the rows stored
    crashes,
    billed,     \* of each run: what answers with a usage cost (history)
    late        \* of each run: the day its first results reached the ceiling,
                \* or were stored after it had been reached, or -1 (history)

spendVars == <<day, runs, crashes, billed, late>>

Ids == DOMAIN runs
Running == {"market_regime", "stock_research", "finance_report", "end"}
Resumed == {"resumed", "resumed_end"}

SumCosts(rows) == SumFunctionOnSet([x \in rows |-> x.record.cost], rows)

----------------------------------------------------------------------------
(* The daily ceiling *)

Recorded(d) ==
    SumFunctionOnSet([r \in Ids |-> SumCosts({x \in runs[r].stored : x.record.day = d})], Ids)

\* By the start of the node, since the start of the UTC day.
spend_today == Recorded(day)

check == DayLimit <= 0 \/ spend_today < DayLimit

\* Mutant: only a queued job stands for a client's run.
HasJob_QueuedOnly(c) == \E r \in Ids : runs[r].client = c /\ runs[r].pc = "queued"

\* enqueue returns the job a client has.
HasJob(c) == \E r \in Ids : runs[r].client = c /\ runs[r].pc \in Running \cup {"queued"}

trigger_run(c) ==
    /\ Len(runs) < MaxRuns
    /\ check /\ ~HasJob(c)
    /\ runs' = Append(runs, [client |-> c, pc |-> "queued", usage |-> 0, trail |-> {}, stored |-> {}])
    /\ billed' = Append(billed, 0)
    /\ late' = Append(late, -1)
    /\ UNCHANGED <<day, crashes>>

----------------------------------------------------------------------------
(* The calls of a run *)

Exhausted(usage) == RunLimit > 0 /\ usage >= RunLimit

\* What can come of a call: what invoke_tracked counts, and what the node keeps
\* for its record.
Nothing == [counted |-> 0, kept |-> 0]

\* Of no call (no key, no time, no budget left) and of one that fails nothing is
\* counted.  The object a structured call returns carries no usage, so
\* extract_usage finds zero.
Structured == {Nothing}

Plain == {[counted |-> k, kept |-> k] : k \in Costs} \cup {Nothing}

\* A plain answer that does not parse raises before the node keeps its usage.
Parsed == Plain \cup {[counted |-> k, kept |-> 0] : k \in Costs}

\* The node's own record; its place in the trail stands for when it started.
Finished(run, node, kept) ==
    run.trail \cup {[node |-> node, pass |-> Cardinality(run.trail), day |-> day, cost |-> kept]}

Passes(run) == Cardinality({x \in run.trail : x.node = "stock_research"})

\* Run r leaves a node with the outcome of its calls; counts says whether the
\* thread of the node has the budget bound.
Leave(r, node, outcome, counts, pc) ==
    /\ runs' = [runs EXCEPT ![r] =
        [runs[r] EXCEPT !.pc = pc, !.trail = Finished(runs[r], node, outcome.kept),
                        !.usage = runs[r].usage + IF counts THEN outcome.counted ELSE 0]]
    /\ billed' = [billed EXCEPT ![r] = @ + outcome.counted]
    /\ UNCHANGED <<day, crashes, late>>

\* run_client_graph, with a fresh budget and an empty trail.
Begin(r) ==
    /\ runs[r].pc = "queued"
    /\ runs' = [runs EXCEPT ![r].pc = "market_regime"]
    /\ UNCHANGED <<day, crashes, billed, late>>

\* A structured call, and a plain one when it raised.  The node shares its step
\* with another, so its thread need not be the one the budget was bound to.
market_regime(r) ==
    /\ runs[r].pc = "market_regime"
    /\ \E counts \in BOOLEAN :
        \E outcome \in IF counts /\ Exhausted(runs[r].usage) THEN {Nothing} ELSE Structured \cup Parsed :
            Leave(r, "market_regime", outcome, counts, "stock_research")

\* Then the guardrails ask for more research, a person, or nothing.
stock_research(r) ==
    /\ runs[r].pc = "stock_research"
    /\ \E outcome \in IF Exhausted(runs[r].usage) THEN {Nothing} ELSE Structured :
        \E next \in {"finance_report", "end"}
                \cup (IF Passes(runs[r]) + 1 < MaxPasses THEN {"stock_research"} ELSE {}) :
            Leave(r, "stock_research", outcome, TRUE, next)

finance_report(r) ==
    /\ runs[r].pc \in {"finance_report", "resumed"}
    /\ \E outcome \in IF Exhausted(runs[r].usage) THEN {Nothing} ELSE Plain :
        Leave(r, "finance_report", outcome, TRUE, IF runs[r].pc = "resumed" THEN "resumed_end" ELSE "end")

----------------------------------------------------------------------------
(* The records *)

Reported(run) == \E x \in run.trail : x.node = "finance_report"

\* The rows of agent_runs that write these records; a row counts those that say
\* the same already, which tells rows of one record apart.
RowsOf(run, records) ==
    {[copy |-> Cardinality({y \in run.stored : y.record = x}), record |-> x] : x \in records}

\* Mutant: the whole trail is written again after a resume.
persist_audit_trail_NoDedup(run) == run.stored \cup RowsOf(run, run.trail)

\* Only what was not there before, by node and start.
Unstored(run) ==
    {x \in run.trail : \A y \in run.stored : <<y.record.node, y.record.pass>> # <<x.node, x.pass>>}

persist_audit_trail(run) == run.stored \cup RowsOf(run, Unstored(run))

\* Nothing looks at the trail or the budget again.
Ended(run) == [run EXCEPT !.pc = "ended", !.usage = 0, !.trail = {}]

\* persist_run: a run without a report waits for a decision.
Persist(r) ==
    /\ runs[r].pc \in {"end", "resumed_end"}
    /\ runs' = [runs EXCEPT ![r] =
        LET done == [@ EXCEPT !.stored = persist_audit_trail(runs[r])]
        IN  IF Reported(runs[r]) THEN Ended(done) ELSE [done EXCEPT !.pc = "paused", !.usage = 0]]
    /\ UNCHANGED <<day, crashes, billed>>
    /\ late' = [late EXCEPT ![r] = IF runs[r].pc = "end" /\ ~check' THEN day ELSE @]

\* A decision resumes the run under a fresh budget.  A run whose report is
\* in the checkpoint has nothing left to do.
resume_client_graph(r) ==
    /\ runs[r].pc = "paused"
    /\ runs' = [runs EXCEPT ![r].pc = IF Reported(runs[r]) THEN "resumed_end" ELSE "resumed"]
    /\ UNCHANGED <<day, crashes, billed, late>>

\* The job's process dies: the job is queued again, for a run of its own, or
\* has no attempts left.  A decision that fails is rolled back.
Crash(r) ==
    /\ runs[r].pc \in Running \cup Resumed /\ crashes < MaxCrashes
    /\ crashes' = crashes + 1
    /\ \E next \in IF runs[r].pc \in Resumed
                 THEN {[runs[r] EXCEPT !.pc = "paused", !.usage = 0]}
                 ELSE {Ended(runs[r]), [Ended(runs[r]) EXCEPT !.pc = "queued"]} :
        runs' = [runs EXCEPT ![r] = next]
    /\ UNCHANGED <<day, billed, late>>

NextDay == day < MaxDay /\ day' = day + 1 /\ UNCHANGED <<runs, crashes, billed, late>>

SpendInit == day = 0 /\ runs = <<>> /\ crashes = 0 /\ billed = <<>> /\ late = <<>>

SpendNext ==
    \/ \E c \in Clients : trigger_run(c)
    \/ \E r \in Ids :
        \/ Begin(r) \/ market_regime(r) \/ stock_research(r) \/ finance_report(r)
        \/ Persist(r) \/ resume_client_graph(r) \/ Crash(r)
    \/ NextDay

SpendSpec == SpendInit /\ [][SpendNext]_spendVars

----------------------------------------------------------------------------
\* Every run is well formed, and its trail has one record of each node it passed.
SpendTypeOK ==
    /\ day \in 0..MaxDay
    /\ \A r \in Ids :
        /\ runs[r].client \in Clients
        /\ runs[r].pc \in Running \cup Resumed \cup {"queued", "paused", "ended"}
        /\ \A x, y \in runs[r].trail : <<x.node, x.pass>> = <<y.node, y.pass>> => x = y

\* The ceiling looks only at recorded spend (spend.py:90-98), so runs in flight
\* pass it together: of the runs of a client at most one a day reaches the ceiling
\* or is stored past it, because a client has one job at a time (jobs.py:95-110).
OvershootBounded ==
    \A q, r \in Ids : q # r /\ runs[q].client = runs[r].client /\ late[q] # -1 => late[q] # late[r]

\* What a budget counts exceeds it by less than one answer: nothing is asked once
\* it is spent (llm.py:196-205, 356-359), over every retry of the research.
BudgetHolds ==
    RunLimit > 0 => \A r \in Ids :
        \A k \in Costs : (\A j \in Costs : j <= k) => runs[r].usage < RunLimit + k

\* A run's stored cost is never more than the model charged for it, whatever
\* was resumed, retried or rolled back (run_service.py:68-92).
NeverOverstated == \A r \in Ids : SumCosts(runs[r].stored) <= billed[r]

----------------------------------------------------------------------------
\* config.py:79: "Hard ceiling on LLM spend for a single graph run."
RunBudgetCapsSpend == RunLimit > 0 => \A r \in Ids : billed[r] <= RunLimit

\* llm.py:19: "Token counts and dollar cost are captured per call and carried
\* back to the agent": what was charged for a finished run is stored.
EveryCallRecorded ==
    crashes = 0 => \A r \in Ids : runs[r].pc = "ended" => SumCosts(runs[r].stored) = billed[r]

\* spend.py:91: runs in flight undercount "by at most one run's budget".
UndercountsByOneRun ==
    Recorded(0) < DayLimit + RunLimit
===============================================================================
