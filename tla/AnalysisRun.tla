---------------------------- MODULE AnalysisRun -----------------------------
(***************************************************************************)
(* An analysis run and the database: services/run_service.py and the       *)
(* endpoints that decide on a paused run and execute its plan.             *)
(*                                                                         *)
(* The job executes the graph (AgentGraph) until it ends or pauses at the  *)
(* approval gate and persists what it has.  A reviewer's request reads the *)
(* approval row, later writes its decision, resumes the graph and persists *)
(* and commits.  The checkpoint store commits every superstep on its own:  *)
(* a request that fails rolls back its rows but not the steps the graph    *)
(* has taken.  The flushed decision holds the row's lock until the end of  *)
(* the transaction (PostgreSQL, READ COMMITTED), so a second reviewer's    *)
(* write waits for it and is then applied to the row as it is.             *)
(***************************************************************************)
EXTENDS AgentGraph

CONSTANTS
    Reviewers,  \* requests of compliance officers
    None,
    MaxFaults   \* bound on failures of the job or of a decision request

ASSUME RunAssumption ==
    /\ {None, "job"} \cap Reviewers = {}
    /\ None \notin {"job", "approved", "rejected"}
    /\ MaxFaults \in Nat

VARIABLES
    db,         \* the committed rows of the run
    runner,     \* who is executing the graph: the job, the reviewer whose
                \* transaction holds the approval row, or None
    want,       \* per reviewer, the decision it is about to write, or None
    answers,    \* the decisions reviewers have written (history)
    faults

runVars == <<db, runner, want, answers, faults>>
vars == <<graphVars, runVars>>

Decisions == {"approved", "rejected"}

Init ==
    /\ GraphInit
    /\ db = [approval |-> "absent", report |-> "absent", buys |-> {}, sells |-> FALSE,
             batches |-> 0, withheld |-> {}, outcomes |-> {}, trail |-> {}, records |-> 0,
             executed |-> FALSE]
    /\ runner = "job"
    /\ want = [r \in Reviewers |-> None]
    /\ answers = {}
    /\ faults = 0

-----------------------------------------------------------------------------
\* Records that are not there yet, by node and start.
persist_audit_trail(d) ==
    [d EXCEPT !.trail = @ \cup st.trail, !.records = @ + Cardinality(st.trail \ d.trail)]

\* Mutant: the plan is stored whether or not the run has rows already.
persist_proposals_Again(d) ==
    [d EXCEPT !.buys = st.plan.buys, !.sells = st.plan.sells, !.withheld = st.blocked,
              !.batches = IF st.plan.buys \cup st.blocked # {} \/ st.plan.sells
                          THEN @ + 1 ELSE @]

\* The plan and what tax blocked in the last pass, unless the run has rows.
persist_proposals(d) ==
    IF d.batches > 0 \/ (st.plan.buys \cup st.blocked = {} /\ ~st.plan.sells)
    THEN d
    ELSE [d EXCEPT !.buys = st.plan.buys, !.sells = st.plan.sells,
                   !.withheld = st.blocked, !.batches = 1]

persist_report(d) ==
    [d EXCEPT !.report = IF st.human = "rejected" THEN "rejected" ELSE "approved"]

\* Outcome rows for the recommendations that stood.
record_recommendations(d) ==
    [d EXCEPT !.outcomes = IF st.human = "rejected" THEN @ ELSE @ \cup st.recommended]

\* A paused run gets an approval row, a finished one its results.
persist_run(d) ==
    LET recorded == persist_audit_trail(d)
    IN  IF paused
        THEN [recorded EXCEPT !.approval = "pending"]
        ELSE record_recommendations(persist_report(persist_proposals(recorded)))

-----------------------------------------------------------------------------
(* The job.                                                                *)

\* Somebody's thread takes the graph a node further.
Invoke ==
    /\ runner # None
    /\ GraphStep
    /\ UNCHANGED runVars

\* run_analysis_job persists and commits.
run_analysis_job ==
    /\ runner = "job"
    /\ todo = {} \/ paused
    /\ db' = persist_run(db)
    /\ runner' = None
    /\ UNCHANGED <<graphVars, want, answers, faults>>

\* The worker dies or its transaction fails: no rows, and nobody resumes
\* the run, because a new job starts a run of its own.
JobFails ==
    /\ runner = "job"
    /\ faults < MaxFaults
    /\ faults' = faults + 1
    /\ runner' = None
    /\ UNCHANGED <<graphVars, db, want, answers>>

-----------------------------------------------------------------------------
(* A reviewer.                                                             *)

\* The request finds the run undecided.
decide_run(r) ==
    /\ want[r] = None
    /\ db.approval = "pending"
    /\ \E d \in Decisions : want' = [want EXCEPT ![r] = d]
    /\ UNCHANGED <<graphVars, db, runner, answers, faults>>

\* Mutant: the decision is committed before the run is resumed.
decide_approval_CommitFirst(r) ==
    /\ want[r] # None /\ runner = None
    /\ runner' = r
    /\ answers' = answers \cup {want[r]}
    /\ db' = [db EXCEPT !.approval = want[r]]
    /\ UNCHANGED <<graphVars, want, faults>>

\* decide_approval flushes the decision, which waits for the row's lock.
decide_approval(r) ==
    /\ want[r] # None /\ runner = None
    /\ runner' = r
    /\ answers' = answers \cup {want[r]}
    /\ UNCHANGED <<graphVars, db, want, faults>>

\* Mutant: the resumed graph is told that the run was approved.
resume_client_graph_Approves(r) ==
    /\ runner = r
    /\ approval_gate_resumed("approved")
    /\ UNCHANGED runVars

\* The resumed graph hands the decision to the interrupted gate.  A run that
\* is past the gate goes on from where it is and ignores the decision.
resume_client_graph(r) ==
    /\ runner = r
    /\ approval_gate_resumed(want[r])
    /\ UNCHANGED runVars

\* The graph has ended: results and decision are committed together.
CommitDecision(r) ==
    /\ runner = r
    /\ todo = {}
    /\ db' = [persist_run(db) EXCEPT !.approval = want[r]]
    /\ runner' = None
    /\ want' = [want EXCEPT ![r] = None]
    /\ UNCHANGED <<graphVars, answers, faults>>

\* The request fails, times out waiting for the row or dies with its process:
\* its rows are rolled back.
DecisionFails(r) ==
    /\ want[r] # None
    /\ faults < MaxFaults
    /\ faults' = faults + 1
    /\ runner' = IF runner = r THEN None ELSE runner
    /\ want' = [want EXCEPT ![r] = None]
    /\ UNCHANGED <<graphVars, db, answers>>

\* The proposals of a run are executed (Trading says how) if it needed no
\* approval or has one.
execute_plan ==
    /\ db.approval \in {"absent", "approved"}
    /\ db.buys # {} \/ db.sells
    /\ ~db.executed
    /\ db' = [db EXCEPT !.executed = TRUE]
    /\ UNCHANGED <<graphVars, runner, want, answers, faults>>

-----------------------------------------------------------------------------
PolicyChanges == ActivatePolicy /\ UNCHANGED runVars

Decide(r) ==
    \/ decide_run(r) \/ decide_approval(r) \/ resume_client_graph(r) \/ CommitDecision(r)

Next ==
    \/ Invoke \/ run_analysis_job \/ JobFails \/ execute_plan \/ PolicyChanges
    \/ \E r \in Reviewers : Decide(r) \/ DecisionFails(r)

Spec == Init /\ [][Next]_vars

(* A thread that executes the graph goes on; somebody decides on a run     *)
(* that is listed as pending, and a request that has begun goes on.        *)
FairSpec ==
    /\ Spec
    /\ WF_vars(Invoke) /\ WF_vars(run_analysis_job)
    /\ \A r \in Reviewers : WF_vars(Decide(r))

-----------------------------------------------------------------------------
TypeOK ==
    /\ GraphTypeOK
    /\ db \in [approval : {"absent", "pending"} \cup Decisions,
              report : {"absent"} \cup Decisions,
              buys : SUBSET Tickers, sells : BOOLEAN, withheld : SUBSET Tickers,
              outcomes : SUBSET Tickers, batches : Nat,
              trail : SUBSET st.trail, records : Nat, executed : BOOLEAN]
    /\ runner \in {"job", None} \cup Reviewers
    /\ want \in [Reviewers -> Decisions \cup {None}]
    /\ answers \subseteq Decisions
    /\ faults \in 0..MaxFaults

(* A run whose graph was told of a rejection leaves no proposal to         *)
(* execute, no outcome to score and no executed trade, whatever failed,    *)
(* was retried or raced (approval_gate_node, persist_run).                 *)
RejectedIssuesNothing ==
    st.human = "rejected" =>
        db.buys = {} /\ ~db.sells /\ db.outcomes = {} /\ ~db.executed

(* If all reviewers of a run decide alike, however often their requests    *)
(* fail, repeat or overlap, the approval row and the report say what they  *)
(* decided ("the operation can simply be retried").                        *)
AgreedDecisionStands ==
    \A d \in Decisions :
        answers = {d} /\ db.report # "absent" =>
            /\ db.report = d /\ st.human = d
            /\ db.approval = d

(* The plan and every node's audit record are stored once, although a      *)
(* resumed run returns its whole trail and a decision may be committed     *)
(* twice (persist_proposals, persist_audit_trail).                         *)
StoredOnce == db.batches <= 1 /\ db.records = Cardinality(db.trail)

(* A decision is retried at will: it stands and stores nothing twice.      *)
DecisionsSettle == AgreedDecisionStands /\ StoredOnce

(* A run ends with a stored report, and a decision that failed is made     *)
(* again, unless the job itself failed.                                    *)
EveryRunSettles ==
    <>[](db.report # "absent" \/ (runner = None /\ db.approval = "absent"))

(* The report of a decided run says what was decided: "What must never     *)
(* happen is a rejected report that is indistinguishable from an approved  *)
(* one" (run_service.py).                                                  *)
DecisionMatchesReport ==
    db.approval \in Decisions => db.report = db.approval

(* The stored run shows everything a tax guardrail withheld in it (the     *)
(* comment in persist_report).                                             *)
WithheldIsStored ==
    db.report # "absent" => withheld \subseteq db.withheld
=============================================================================
