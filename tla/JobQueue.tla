------------------------------ MODULE JobQueue ------------------------------
(***************************************************************************)
(* The durable job queue of services/jobs.py, the worker process of        *)
(* worker.py and the job handler run_service.run_analysis_job.             *)
(*                                                                         *)
(* The jobs table is the queue.  Several sessions touch it: API requests   *)
(* that enqueue and cancel, worker threads that claim, run and record, and *)
(* the sweeps (reclaim_orphaned_jobs, reap_stale_jobs) that an idle thread *)
(* and a starting process perform.  No session locks a row: each one reads *)
(* with SELECT and later commits an UPDATE by primary key, so what a       *)
(* session read may be stale when it writes.  Only claim_next repeats its  *)
(* condition in the UPDATE.  Every SELECT that a later write depends on is *)
(* therefore an action of its own.                                         *)
(*                                                                         *)
(* Timestamps are abstracted to the two questions the code asks of them:   *)
(* "stale"   heartbeat_at is older than JOB_HEARTBEAT_STALE_SECONDS        *)
(* "overdue" started_at is older than JOB_TIMEOUT_SECONDS                  *)
(***************************************************************************)
EXTENDS Naturals

CONSTANTS
    Jobs,         \* ids a row may get; the table orders rows by queued_at = id
    Clients,
    Procs,        \* processes (containers) that run worker threads
    Workers,      \* worker threads
    ProcOf,       \* the process of each thread
    Embedded,     \* processes that run the pool inside the API (server.py)
    Requests,     \* API requests in flight at the same time
    None,
    MaxAttempts,  \* Job.max_attempts; trigger_run leaves the default, 1
    MaxRestarts,  \* bound on SIGTERM and crashes
    MaxHangs,     \* bound on handlers that never return
    DbFaults      \* may database calls of a healthy thread fail or stall

ASSUME JobQueueAssumption ==
    /\ Jobs \subseteq Nat
    /\ None \notin Jobs \cup Clients \cup Procs \cup Workers
    /\ Procs \cap Workers = {}
    /\ ProcOf \in [Workers -> Procs]
    /\ Embedded \subseteq Procs
    /\ MaxAttempts \in Nat \ {0}
    /\ MaxRestarts \in Nat
    /\ MaxHangs \in Nat
    /\ DbFaults \in BOOLEAN

VARIABLES
    job,        \* the jobs table
    persisted,  \* per job, the attempts whose results persist_run committed
    pc,         \* control point of every thread and of every main thread
    cur,        \* the job a thread is running
    token,      \* the attempt number its claim wrote (no such value exists in the code)
    seen,       \* rows the session's last SELECT returned
    retry,      \* those of them it loaded with attempts < max_attempts
    loaded,     \* the status a thread's last refresh of its job returned
    rq,         \* what an API request has read and not yet committed
    restarts, hangs

vars == <<job, persisted, pc, cur, token, seen, retry, loaded, rq, restarts, hangs>>

Sessions == Workers \cup Procs
Terminal == {"succeeded", "failed", "cancelled", "timed_out"}
Active == {"queued", "running"}
Errors == {"none", "exception", "cancelled", "dead_worker", "no_handler", "timeout"}

Row == [status: Active \cup Terminal \cup {"absent"}, attempts: Nat,
        owner: Procs \cup {None}, stale: BOOLEAN, started: BOOLEAN,
        overdue: BOOLEAN, cancel: BOOLEAN, client: Clients \cup {None},
        error: Errors]

Blank == [status |-> "absent", attempts |-> 0, owner |-> None, stale |-> FALSE,
          started |-> FALSE, overdue |-> FALSE, cancel |-> FALSE,
          client |-> None, error |-> "none"]

Request == [op: {"idle", "enqueue", "cancel"}, client: Clients \cup {None},
            job: Jobs \cup {None}, queued: BOOLEAN]

Idle == [op |-> "idle", client |-> None, job |-> None, queued |-> FALSE]

\* Control points inside the handler, while JobHeartbeatRunner is running.
Handling == {"dispatch", "analyse", "hung"}
\* Control points at which the thread holds a verdict it has not committed.
Recording == {"record_succeeded", "record_cancelled", "record_requeue",
              "record_failed", "cancelling"}
Sweeping == {"orphans", "orphans_commit", "stuck", "stuck_commit"}

Init ==
    /\ job = [j \in Jobs |-> Blank]
    /\ persisted = [j \in Jobs |-> {}]
    /\ pc = [s \in Sessions |-> IF s \in Procs THEN "down" ELSE "off"]
    /\ cur = [w \in Workers |-> None]
    /\ token = [w \in Workers |-> 0]
    /\ seen = [s \in Sessions |-> {}]
    /\ retry = [s \in Sessions |-> {}]
    /\ loaded = [w \in Workers |-> "absent"]
    /\ rq = [r \in Requests |-> Idle]
    /\ restarts = 0
    /\ hangs = 0

----------------------------------------------------------------------------
(* API requests *)

\* Mutant: dedupe looks at queued rows only.
ActiveJobOf_QueuedOnly(c) == \E j \in Jobs : job[j].client = c /\ job[j].status = "queued"

ActiveJobOf(c) == \E j \in Jobs : job[j].client = c /\ job[j].status \in Active

\* enqueue's dedupe query finds nothing.  If it finds a row, that row is
\* returned and nothing changes.
EnqueueCheck(r, c) ==
    /\ rq[r] = Idle
    /\ ~ActiveJobOf(c)
    /\ \E j \in Jobs : job[j].status = "absent"
    /\ rq' = [rq EXCEPT ![r] = [Idle EXCEPT !.op = "enqueue", !.client = c]]
    /\ UNCHANGED <<job, persisted, pc, cur, token, seen, retry, loaded, restarts, hangs>>

\* The INSERT and the caller's commit.
EnqueueInsert(r) ==
    /\ rq[r].op = "enqueue"
    /\ \E j \in Jobs :
        /\ job[j].status = "absent"
        /\ \A k \in Jobs : job[k].status = "absent" => j <= k
        /\ job' = [job EXCEPT ![j] = [@ EXCEPT !.status = "queued",
                                                !.client = rq[r].client]]
    /\ rq' = [rq EXCEPT ![r] = Idle]
    /\ UNCHANGED <<persisted, pc, cur, token, seen, retry, loaded, restarts, hangs>>

\* cancel_job loads the row; a finished job is refused with 409.
CancelRead(r, j) ==
    /\ rq[r] = Idle
    /\ job[j].status \in Active
    /\ rq' = [rq EXCEPT ![r] = [Idle EXCEPT !.op = "cancel", !.job = j,
                                            !.queued = (job[j].status = "queued")]]
    /\ UNCHANGED <<job, persisted, pc, cur, token, seen, retry, loaded, restarts, hangs>>

\* request_cancel's writes, decided by the status that was read.
CancelAsked(row, queued) ==
    [row EXCEPT !.cancel = TRUE, !.status = IF queued THEN "cancelled" ELSE @]

RequestCancel(r) ==
    /\ rq[r].op = "cancel"
    /\ job' = [job EXCEPT ![rq[r].job] = CancelAsked(@, rq[r].queued)]
    /\ rq' = [rq EXCEPT ![r] = Idle]
    /\ UNCHANGED <<persisted, pc, cur, token, seen, retry, loaded, restarts, hangs>>

----------------------------------------------------------------------------
(* Claiming *)

Stale(j) == job[j].status = "running" /\ job[j].stale

Claimable(j) ==
    \/ job[j].status = "queued"
    \/ Stale(j) /\ job[j].attempts < MaxAttempts

\* The rows a session loaded are gone with its transaction.
Forget(s) ==
    /\ seen' = [seen EXCEPT ![s] = {}]
    /\ retry' = [retry EXCEPT ![s] = {}]

\* claim_next's SELECT: the oldest runnable row.  The cutoff stale_before is
\* computed here, so a row that was queued now cannot match as stale later.
ClaimSelect(w) ==
    /\ pc[w] = "poll" /\ pc[ProcOf[w]] = "up"
    /\ \E j \in Jobs :
        /\ Claimable(j)
        /\ \A k \in Jobs : Claimable(k) => j <= k
        /\ seen' = [seen EXCEPT ![w] = {j}]
        /\ pc' = [pc EXCEPT ![w] = IF Stale(j) THEN "reclaim" ELSE "claim"]
    /\ UNCHANGED <<job, persisted, cur, token, retry, loaded, rq, restarts, hangs>>

\* Mutant: an idle thread does not sweep.
ClaimNothing_NoSweep(w) ==
    /\ pc[w] = "poll" /\ pc[ProcOf[w]] = "up"
    /\ \A j \in Jobs : ~Claimable(j)
    /\ UNCHANGED vars

\* No candidate: claim_next returns None and the thread sweeps.
ClaimNothing(w) ==
    /\ pc[w] = "poll" /\ pc[ProcOf[w]] = "up"
    /\ \A j \in Jobs : ~Claimable(j)
    /\ pc' = [pc EXCEPT ![w] = "orphans"]
    /\ UNCHANGED <<job, persisted, cur, token, seen, retry, loaded, rq, restarts, hangs>>

\* Mutant: the UPDATE names the row and nothing else.
ClaimMatches_ById(w, j) == TRUE

ClaimMatches(w, j) ==
    \/ job[j].status = "queued"
    \/ pc[w] = "reclaim" /\ Stale(j) /\ job[j].attempts < MaxAttempts

\* Mutant: a reclaimed job is on the attempt it was on.
Claimed_SameAttempt(row, p) ==
    [row EXCEPT !.status = "running", !.owner = p, !.started = TRUE, !.stale = FALSE,
                !.attempts = IF row.status = "queued" THEN @ + 1 ELSE @]

Claimed(row, p) ==
    [row EXCEPT !.status = "running", !.owner = p, !.started = TRUE,
                !.stale = FALSE, !.attempts = @ + 1]

\* The conditional UPDATE matched one row.
ClaimWon(w, j) ==
    /\ pc[w] \in {"claim", "reclaim"} /\ j \in seen[w]
    /\ ClaimMatches(w, j)
    /\ job' = [job EXCEPT ![j] = Claimed(@, ProcOf[w])]
    /\ cur' = [cur EXCEPT ![w] = j]
    /\ token' = [token EXCEPT ![w] = job[j].attempts + 1]
    /\ pc' = [pc EXCEPT ![w] = "dispatch"]
    /\ Forget(w)
    /\ UNCHANGED <<persisted, loaded, rq, restarts, hangs>>

\* rowcount is 0: another worker won, which claim_next also reports as None.
ClaimLost(w, j) ==
    /\ pc[w] \in {"claim", "reclaim"} /\ j \in seen[w]
    /\ ~ClaimMatches(w, j)
    /\ pc' = [pc EXCEPT ![w] = "orphans"]
    /\ Forget(w)
    /\ UNCHANGED <<job, persisted, cur, token, loaded, rq, restarts, hangs>>

----------------------------------------------------------------------------
(* Sweeps: by a thread that found nothing to claim, and by a starting process *)

\* A thread goes back to polling; a main thread starts its pool.
AfterSweep(s) ==
    [x \in Sessions |->
        IF x = s THEN IF s \in Procs THEN "up" ELSE "poll"
        ELSE IF s \in Procs /\ x \in Workers /\ ProcOf[x] = s THEN "poll"
        ELSE pc[x]]

\* reclaim_orphaned_jobs' SELECT loads the rows; the requeue-or-fail choice
\* is taken from the attempts loaded here.
SelectOrphans(s) ==
    /\ pc[s] = "orphans"
    /\ LET O == {j \in Jobs : Stale(j)} IN
        /\ seen' = [seen EXCEPT ![s] = O]
        /\ retry' = [retry EXCEPT ![s] = {j \in O : job[j].attempts < MaxAttempts}]
        /\ pc' = [pc EXCEPT ![s] = IF O = {} THEN "stuck" ELSE "orphans_commit"]
    /\ UNCHANGED <<job, persisted, cur, token, loaded, rq, restarts, hangs>>

\* Mutant: a reclaimed job is requeued whatever its attempts.
Orphaned_AlwaysRequeued(row, requeue) ==
    [row EXCEPT !.status = "queued", !.owner = None, !.stale = FALSE, !.error = "dead_worker"]

Orphaned(row, requeue) ==
    IF requeue
    THEN [row EXCEPT !.status = "queued", !.owner = None, !.stale = FALSE,
                     !.error = "dead_worker"]
    ELSE [row EXCEPT !.status = "failed", !.error = "dead_worker"]

\* Its UPDATEs, by primary key: they do not look at the rows again.
CommitOrphans(s) ==
    /\ pc[s] = "orphans_commit"
    /\ job' = [j \in Jobs |-> IF j \in seen[s] THEN Orphaned(job[j], j \in retry[s])
                                               ELSE job[j]]
    /\ pc' = [pc EXCEPT ![s] = "stuck"]
    /\ Forget(s)
    /\ UNCHANGED <<persisted, cur, token, loaded, rq, restarts, hangs>>

\* reap_stale_jobs' SELECT.
SelectStuck(s) ==
    /\ pc[s] = "stuck"
    /\ LET S == {j \in Jobs : job[j].status = "running" /\ job[j].overdue} IN
        /\ seen' = [seen EXCEPT ![s] = S]
        /\ pc' = IF S = {} THEN AfterSweep(s) ELSE [pc EXCEPT ![s] = "stuck_commit"]
    /\ UNCHANGED <<job, persisted, cur, token, retry, loaded, rq, restarts, hangs>>

CommitStuck(s) ==
    /\ pc[s] = "stuck_commit"
    /\ job' = [j \in Jobs |->
                IF j \in seen[s]
                THEN [job[j] EXCEPT !.status = "timed_out", !.error = "timeout"]
                ELSE job[j]]
    /\ pc' = AfterSweep(s)
    /\ Forget(s)
    /\ UNCHANGED <<persisted, cur, token, loaded, rq, restarts, hangs>>

\* A thread swallows an error of its sweep; in main() it ends the process.
SweepFails(s) ==
    /\ DbFaults
    /\ pc[s] \in Sweeping
    /\ pc' = [pc EXCEPT ![s] = IF s \in Procs THEN "down" ELSE "poll"]
    /\ Forget(s)
    /\ UNCHANGED <<job, persisted, cur, token, loaded, rq, restarts, hangs>>

----------------------------------------------------------------------------
(* Running a claimed job *)

\* The thread is done with its job, whatever the row says.
Release(w) ==
    /\ cur' = [cur EXCEPT ![w] = None]
    /\ token' = [token EXCEPT ![w] = 0]
    /\ loaded' = [loaded EXCEPT ![w] = "absent"]
    /\ pc' = [pc EXCEPT ![w] = "poll"]

\* worker.py never imports services.run_service, the module that registers
\* the handler; server.py does.
HasHandler(w) == ProcOf[w] \in Embedded

NoHandler(w) ==
    /\ pc[w] = "dispatch" /\ ~HasHandler(w)
    /\ job' = [job EXCEPT ![cur[w]] = [@ EXCEPT !.status = "failed", !.error = "no_handler"]]
    /\ Release(w)
    /\ UNCHANGED <<persisted, seen, retry, rq, restarts, hangs>>

\* The first heartbeat commits, refreshes the row and checks for cancellation;
\* then the run id and the RUN_REQUESTED audit row are committed and a second
\* heartbeat, whose answer is ignored, is written.
StartHandler(w) ==
    /\ pc[w] = "dispatch" /\ HasHandler(w)
    /\ job' = [job EXCEPT ![cur[w]].stale = FALSE]
    /\ pc' = [pc EXCEPT ![w] = IF job[cur[w]].cancel THEN "cancelling" ELSE "analyse"]
    /\ UNCHANGED <<persisted, cur, token, seen, retry, loaded, rq, restarts, hangs>>

\* Mutant: persist_run's transaction is never committed.
Analysed_Uncommitted(w) ==
    /\ pc[w] = "analyse"
    /\ job' = [job EXCEPT ![cur[w]].stale = FALSE]
    /\ pc' = [pc EXCEPT ![w] = "finish"]
    /\ UNCHANGED <<persisted, cur, token, seen, retry, loaded, rq, restarts, hangs>>

\* The graph returned: a last heartbeat, then persist_run and its commit.
Analysed(w) ==
    /\ pc[w] = "analyse"
    /\ job' = [job EXCEPT ![cur[w]].stale = FALSE]
    /\ persisted' = [persisted EXCEPT ![cur[w]] = @ \cup {token[w]}]
    /\ pc' = [pc EXCEPT ![w] = "finish"]
    /\ UNCHANGED <<cur, token, seen, retry, loaded, rq, restarts, hangs>>

\* The client is gone, a node raised, the persistence failed.
HandlerRaises(w) ==
    /\ pc[w] \in {"dispatch", "analyse"} /\ HasHandler(w)
    /\ pc' = [pc EXCEPT ![w] = "raised"]
    /\ UNCHANGED <<job, persisted, cur, token, seen, retry, loaded, rq, restarts, hangs>>

\* A provider call that never returns.  The heartbeat thread goes on.
HandlerHangs(w) ==
    /\ pc[w] = "analyse" /\ hangs < MaxHangs
    /\ hangs' = hangs + 1
    /\ pc' = [pc EXCEPT ![w] = "hung"]
    /\ UNCHANGED <<job, persisted, cur, token, seen, retry, loaded, rq, restarts>>

\* JobHeartbeatRunner touches any running row, whoever owns it.
HeartbeatTick(w) ==
    /\ pc[w] \in Handling /\ HasHandler(w)
    /\ Stale(cur[w])
    /\ job' = [job EXCEPT ![cur[w]].stale = FALSE]
    /\ UNCHANGED <<persisted, pc, cur, token, seen, retry, loaded, rq, restarts, hangs>>

\* After the handler returned: refresh the row and look at cancel_requested.
Finish(w) ==
    /\ pc[w] = "finish"
    /\ pc' = [pc EXCEPT ![w] = IF job[cur[w]].cancel THEN "record_cancelled"
                                                     ELSE "record_succeeded"]
    /\ loaded' = [loaded EXCEPT ![w] = job[cur[w]].status]
    /\ UNCHANGED <<job, persisted, cur, token, seen, retry, rq, restarts, hangs>>

\* Mutant: the handler is called again within the same attempt.
Raised_InPlace(w) ==
    /\ pc[w] = "raised"
    /\ pc' = [pc EXCEPT ![w] = IF job[cur[w]].attempts < MaxAttempts THEN "analyse"
                                                                     ELSE "record_failed"]
    /\ loaded' = [loaded EXCEPT ![w] = job[cur[w]].status]
    /\ UNCHANGED <<job, persisted, cur, token, seen, retry, rq, restarts, hangs>>

\* After an exception: roll back, refresh the row and look at attempts.
Raised(w) ==
    /\ pc[w] = "raised"
    /\ pc' = [pc EXCEPT ![w] = IF job[cur[w]].attempts < MaxAttempts THEN "record_requeue"
                                                                     ELSE "record_failed"]
    /\ loaded' = [loaded EXCEPT ![w] = job[cur[w]].status]
    /\ UNCHANGED <<job, persisted, cur, token, seen, retry, rq, restarts, hangs>>

VerdictStatus(how) ==
    CASE how = "record_succeeded" -> "succeeded"
      [] how \in {"record_cancelled", "cancelling"} -> "cancelled"
      [] how = "record_requeue" -> "queued"
      [] how = "record_failed" -> "failed"

VerdictError(how) ==
    CASE how = "cancelling" -> "cancelled"
      [] how \in {"record_requeue", "record_failed"} -> "exception"
      [] OTHER -> "none"

\* SQLAlchemy writes the columns that differ from what it loaded, by primary
\* key, and JobCancelled's rollback leaves nothing loaded.
Verdict(row, how, was) ==
    [row EXCEPT !.status = IF VerdictStatus(how) = was THEN @ ELSE VerdictStatus(how),
                !.stale = IF how = "record_requeue" THEN FALSE ELSE @,
                !.error = IF VerdictError(how) = "none" THEN @ ELSE VerdictError(how)]

Record(w) ==
    /\ pc[w] \in Recording
    /\ job' = [job EXCEPT ![cur[w]] = Verdict(@, pc[w], loaded[w])]
    /\ Release(w)
    /\ UNCHANGED <<persisted, seen, retry, rq, restarts, hangs>>

\* The commit of a finished run's verdict fails inside the try block.
RecordRaises(w) ==
    /\ DbFaults
    /\ pc[w] \in {"finish", "record_succeeded", "record_cancelled"}
    /\ pc' = [pc EXCEPT ![w] = "raised"]
    /\ UNCHANGED <<job, persisted, cur, token, seen, retry, loaded, rq, restarts, hangs>>

\* The database fails during the claim, in the refresh after it, or inside an
\* except block: _loop swallows the error and the row stays as it is.
Abandon(w) ==
    /\ DbFaults
    /\ pc[w] \in {"claim", "reclaim", "dispatch", "raised", "record_requeue",
                  "record_failed", "cancelling"}
    /\ Release(w)
    /\ Forget(w)
    /\ UNCHANGED <<job, persisted, rq, restarts, hangs>>

----------------------------------------------------------------------------
(* Processes and time *)

\* main() of worker.py sweeps both ways before it starts its threads; the
\* API's lifespan only reaps.
StartProcess(p) ==
    /\ pc[p] = "down"
    /\ pc' = [pc EXCEPT ![p] = IF p \in Embedded THEN "stuck" ELSE "orphans"]
    /\ UNCHANGED <<job, persisted, cur, token, seen, retry, loaded, rq, restarts, hangs>>

Sigterm(p) ==
    /\ pc[p] = "up" /\ restarts < MaxRestarts
    /\ restarts' = restarts + 1
    /\ pc' = [pc EXCEPT ![p] = "draining"]
    /\ UNCHANGED <<job, persisted, cur, token, seen, retry, loaded, rq, hangs>>

\* _loop sees the stop event between jobs.
ThreadStops(w) ==
    /\ pc[w] = "poll" /\ pc[ProcOf[w]] = "draining"
    /\ pc' = [pc EXCEPT ![w] = "off"]
    /\ UNCHANGED <<job, persisted, cur, token, seen, retry, loaded, rq, restarts, hangs>>

\* The process is gone with all its threads, in whatever they were doing.
Gone(p) ==
    LET Lost(x) == x = p \/ (x \in Workers /\ ProcOf[x] = p) IN
    /\ pc' = [s \in Sessions |-> IF s = p THEN "down" ELSE IF Lost(s) THEN "off" ELSE pc[s]]
    /\ cur' = [w \in Workers |-> IF Lost(w) THEN None ELSE cur[w]]
    /\ token' = [w \in Workers |-> IF Lost(w) THEN 0 ELSE token[w]]
    /\ loaded' = [w \in Workers |-> IF Lost(w) THEN "absent" ELSE loaded[w]]
    /\ seen' = [s \in Sessions |-> IF Lost(s) THEN {} ELSE seen[s]]
    /\ retry' = [s \in Sessions |-> IF Lost(s) THEN {} ELSE retry[s]]

\* The drain is over: every thread stopped, or the grace period ran out.
Exit(p) ==
    /\ pc[p] = "draining"
    /\ Gone(p)
    /\ UNCHANGED <<job, persisted, rq, restarts, hangs>>

Crash(p) ==
    /\ pc[p] # "down" /\ restarts < MaxRestarts
    /\ restarts' = restarts + 1
    /\ Gone(p)
    /\ UNCHANGED <<job, persisted, rq, hangs>>

\* JOB_HEARTBEAT_STALE_SECONDS pass without a heartbeat.  A live thread's
\* runner writes one every 15 s, so this takes a fault if one is at work.
Tended(j) == \E w \in Workers : cur[w] = j

GoStale(j) ==
    /\ job[j].status = "running" /\ ~job[j].stale
    /\ DbFaults \/ ~Tended(j)
    /\ job' = [job EXCEPT ![j].stale = TRUE]
    /\ UNCHANGED <<persisted, pc, cur, token, seen, retry, loaded, rq, restarts, hangs>>

\* JOB_TIMEOUT_SECONDS pass since started_at, which no retry resets.
GoOverdue(j) ==
    /\ job[j].status \in Active /\ job[j].started /\ ~job[j].overdue
    /\ job' = [job EXCEPT ![j].overdue = TRUE]
    /\ UNCHANGED <<persisted, pc, cur, token, seen, retry, loaded, rq, restarts, hangs>>

----------------------------------------------------------------------------

Api(r) ==
    \/ \E c \in Clients : EnqueueCheck(r, c)
    \/ EnqueueInsert(r)
    \/ \E j \in Jobs : CancelRead(r, j)
    \/ RequestCancel(r)

Sweep(s) == SelectOrphans(s) \/ CommitOrphans(s) \/ SelectStuck(s) \/ CommitStuck(s)

\* What a live thread does by itself.
Thread(w) ==
    \/ ClaimSelect(w) \/ ClaimNothing(w)
    \/ \E j \in Jobs : ClaimWon(w, j) \/ ClaimLost(w, j)
    \/ NoHandler(w) \/ StartHandler(w) \/ Analysed(w)
    \/ Finish(w) \/ Raised(w) \/ Record(w) \/ HeartbeatTick(w)
    \/ ThreadStops(w)

Fault(w) == HandlerRaises(w) \/ HandlerHangs(w) \/ RecordRaises(w) \/ Abandon(w)

Process(p) == StartProcess(p) \/ Sigterm(p) \/ Exit(p) \/ Crash(p)

Next ==
    \/ \E r \in Requests : Api(r)
    \/ \E w \in Workers : Thread(w) \/ Fault(w)
    \/ \E s \in Sessions : Sweep(s) \/ SweepFails(s)
    \/ \E p \in Procs : Process(p)
    \/ \E j \in Jobs : GoStale(j) \/ GoOverdue(j)

Spec == Init /\ [][Next]_vars

\* Threads that are alive keep running, the container is restarted
\* ("restart: unless-stopped"), a draining process ends, and time passes.
\* Nothing makes a client send a request, a process crash or a handler fail.
Fairness ==
    /\ \A w \in Workers : WF_vars(Thread(w))
    /\ \A s \in Sessions : WF_vars(Sweep(s))
    /\ \A p \in Procs : WF_vars(StartProcess(p)) /\ WF_vars(Exit(p))
    /\ \A r \in Requests : WF_vars(EnqueueInsert(r)) /\ WF_vars(RequestCancel(r))
    /\ \A j \in Jobs : WF_vars(GoStale(j)) /\ WF_vars(GoOverdue(j))

FairSpec == Spec /\ Fairness

----------------------------------------------------------------------------
(* Properties *)

ThreadPoints == {"off", "poll", "claim", "reclaim", "finish", "raised"}
                    \cup Handling \cup Recording \cup Sweeping
MainPoints == {"down", "up", "draining"} \cup Sweeping

Status == Active \cup Terminal \cup {"absent"}

\* Every variable stays in its domain, a thread holds a job exactly while it is
\* between its claim (claim_next) and the end of JobWorker._run, and threads
\* exist only in a process that has started its pool (start_worker).
TypeOK ==
    /\ job \in [Jobs -> Row]
    /\ persisted \in [Jobs -> SUBSET Nat]
    /\ pc \in [Sessions -> ThreadPoints \cup MainPoints]
    /\ \A w \in Workers : pc[w] \in ThreadPoints
    /\ \A p \in Procs : pc[p] \in MainPoints
    /\ cur \in [Workers -> Jobs \cup {None}]
    /\ \A w \in Workers : cur[w] \in Jobs <=>
            pc[w] \in {"finish", "raised"} \cup Handling \cup Recording
    /\ \A w \in Workers : pc[ProcOf[w]] \notin {"up", "draining"} => pc[w] = "off"
    /\ token \in [Workers -> Nat]
    /\ seen \in [Sessions -> SUBSET Jobs]
    /\ retry \in [Sessions -> SUBSET Jobs]
    /\ loaded \in [Workers -> Status]
    /\ rq \in [Requests -> Request]
    /\ \A r \in Requests : rq[r].op = "cancel" => rq[r].job \in Jobs
    /\ restarts \in 0..MaxRestarts
    /\ hangs \in 0..MaxHangs

Executes(w, j) == cur[w] = j

\* claim_next: however often a job is reclaimed, requeued and claimed again,
\* two threads that execute it at the same time hold different attempts.
FencedAttempts ==
    \A v, w \in Workers : \A j \in Jobs :
        /\ Executes(w, j) => token[w] \in 1..job[j].attempts
        /\ Executes(v, j) /\ Executes(w, j) /\ v # w => token[v] # token[w]

\* run_analysis_job: the results of one attempt are persisted at most once: an
\* attempt that has not called persist_run left no results behind.
PersistOncePerAttempt ==
    /\ \A j \in Jobs : persisted[j] \subseteq 1..job[j].attempts
    /\ \A w \in Workers :
        pc[w] \in Handling \cup {"cancelling"} => token[w] \notin persisted[cur[w]]

\* JobWorker._run: a job that reads "succeeded" has persisted results, whatever
\* sweeps, late verdicts and faults happened on the way.
SucceededMeansPersisted ==
    \A j \in Jobs : job[j].status = "succeeded" => persisted[j] # {}

\* claim_next with max_attempts = 1, which is what trigger_run asks for: no two
\* threads ever execute the same job.
SingleExecutor ==
    \A v, w \in Workers : \A j \in Jobs :
        Executes(v, j) /\ Executes(w, j) => v = w

\* With max_attempts = 1 a job leaves at most one set of results, ever.
AtMostOneRun == \A j \in Jobs : job[j].attempts <= 1 /\ persisted[j] \subseteq {1}

\* enqueue's dedupe: a client has at most one row that is queued or running.
OneActiveRowPerClient ==
    \A j, k \in Jobs :
        /\ job[j].status \in Active /\ job[k].status \in Active
        /\ job[j].client = job[k].client
        => j = k

\* What dedupe is for: no two analyses of one client execute at the same time.
NoConcurrentRunsPerClient ==
    \A v, w \in Workers : \A j, k \in Jobs :
        Executes(v, j) /\ Executes(w, k) /\ job[j].client = job[k].client => v = w

\* reap_stale_jobs: the timeout is final.
TimedOutIsFinal ==
    [][\A j \in Jobs : job[j].status = "timed_out" => job'[j].status = "timed_out"]_vars

\* Module docstring and worker.main: a crash costs a restart, not a run, so no
\* job ends because its worker died.
CrashNeverLosesRun ==
    \A j \in Jobs : ~(job[j].status = "failed" /\ job[j].error = "dead_worker")

\* The worker process runs the analyses: no job is refused for want of a handler.
EveryJobHasHandler == \A j \in Jobs : job[j].error # "no_handler"

\* reap_stale_jobs: a job that overran the job timeout does not stay "running".
StuckJobIsReaped ==
    \A j \in Jobs : job[j].status = "running" /\ job[j].overdue ~> job[j].status \in Terminal

\* A queued job ends, and stays ended.
EveryJobEnds ==
    \A j \in Jobs : job[j].status = "queued" ~> [](job[j].status \in Terminal)

Phase(status) ==
    CASE status = "absent" -> "none"
      [] status = "queued" -> "waiting"
      [] status = "running" -> "taken"
      [] status \in Terminal -> "closed"

phases == [j \in Jobs |-> Phase(job[j].status)]

Ticket == INSTANCE OneShotTicket WITH Tickets <- Jobs, phase <- phases

\* With max_attempts = 1 the jobs table implements one-shot tickets: a row is
\* handed out at most once and a finished row never reopens.
ImplementsOneShot == Ticket!Spec
=============================================================================
