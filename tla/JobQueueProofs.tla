--------------------------- MODULE JobQueueProofs ---------------------------
(***************************************************************************)
(* Proofs about the job queue, for any number of jobs, clients, processes, *)
(* threads, requests, attempts and faults.                                 *)
(***************************************************************************)
EXTENDS JobQueue, TLAPS

USE DEF Sessions, Handling, Recording, Sweeping, ThreadPoints, MainPoints, Status,
        Active, Terminal

\* Each write the code makes to a row of the jobs table yields a row.
LEMMA RowEdits ==
    ASSUME NEW row \in Row
    PROVE  /\ \A c \in Clients \cup {None} : [row EXCEPT !.status = "queued", !.client = c] \in Row
           /\ \A b \in BOOLEAN : CancelAsked(row, b) \in Row
           /\ \A p \in Procs : Claimed(row, p) \in Row
           /\ \A b : Orphaned(row, b) \in Row
           /\ [row EXCEPT !.status = "timed_out", !.error = "timeout"] \in Row
           /\ [row EXCEPT !.status = "failed", !.error = "no_handler"] \in Row
           /\ \A b \in BOOLEAN : [row EXCEPT !.stale = b] \in Row
           /\ [row EXCEPT !.overdue = TRUE] \in Row
           /\ \A how \in Recording, was \in Status : Verdict(row, how, was) \in Row
<1>1. \A c \in Clients \cup {None} : [row EXCEPT !.status = "queued", !.client = c] \in Row
   BY DEF Row
<1>2. \A b \in BOOLEAN : CancelAsked(row, b) \in Row
   BY DEF Row, CancelAsked
<1>3. \A p \in Procs : Claimed(row, p) \in Row
   <2>1. row.attempts + 1 \in Nat
      BY DEF Row
   <2>2. \A p \in Procs, n \in Nat : [row EXCEPT !.status = "running", !.owner = p, !.started = TRUE,
                          !.stale = FALSE, !.attempts = n] \in Row
      BY DEF Row
   <2> QED BY <2>1, <2>2, Zenon DEF Claimed
<1>4. \A b : Orphaned(row, b) \in Row
   BY DEF Row, Orphaned, Errors
<1>5. [row EXCEPT !.status = "timed_out", !.error = "timeout"] \in Row
   BY DEF Row, Errors
<1>6. [row EXCEPT !.status = "failed", !.error = "no_handler"] \in Row
   BY DEF Row, Errors
<1>7. \A b \in BOOLEAN : [row EXCEPT !.stale = b] \in Row
   BY DEF Row
<1>8. [row EXCEPT !.overdue = TRUE] \in Row
   BY DEF Row
<1>9. \A how \in Recording, was \in Status : Verdict(row, how, was) \in Row
   <2>1. \A how \in Recording : VerdictStatus(how) \in Status /\ VerdictError(how) \in Errors
      BY DEF VerdictStatus, VerdictError, Errors
   <2>2. \A s \in Status, b \in BOOLEAN, e \in Errors :
            [row EXCEPT !.status = s, !.stale = b, !.error = e] \in Row
      BY DEF Row
   <2>3. row.status \in Status /\ row.stale \in BOOLEAN /\ row.error \in Errors
      BY DEF Row
   <2> QED BY <2>1, <2>2, <2>3 DEF Verdict
<1> QED BY <1>1, <1>2, <1>3, <1>4, <1>5, <1>6, <1>7, <1>8, <1>9

----------------------------------------------------------------------------
(* Types: one lemma per group of actions *)

\* Requests that enqueue and cancel (enqueue, request_cancel) preserve TypeOK.
LEMMA ApiTyped ==
    ASSUME TypeOK, NEW r \in Requests, Api(r)
    PROVE  TypeOK'
<1>. USE JobQueueAssumption
<1>0. Idle \in Request /\ Idle.op = "idle"
    BY DEF Idle, Request
<1>1. ASSUME NEW c \in Clients, EnqueueCheck(r, c) PROVE TypeOK'
    <2>1. [Idle EXCEPT !.op = "enqueue", !.client = c] \in Request
        BY DEF Idle, Request
    <2>2. [Idle EXCEPT !.op = "enqueue", !.client = c].op = "enqueue"
        BY DEF Idle
    <2>. QED BY <1>1, <2>1, <2>2 DEF TypeOK, EnqueueCheck
<1>2. CASE EnqueueInsert(r)
    <2>1. PICK j \in Jobs : job' = [job EXCEPT ![j] = [@ EXCEPT !.status = "queued",
                                                                !.client = rq[r].client]]
        BY <1>2 DEF EnqueueInsert
    <2>2. job[j] \in Row /\ rq[r].client \in Clients \cup {None}
        BY DEF TypeOK, Request
    <2>3. [job[j] EXCEPT !.status = "queued", !.client = rq[r].client] \in Row
        BY <2>2, RowEdits
    <2>4. job' \in [Jobs -> Row]
        BY <2>1, <2>3 DEF TypeOK
    <2>. QED BY <1>0, <1>2, <2>4 DEF TypeOK, EnqueueInsert
<1>3. ASSUME NEW j \in Jobs, CancelRead(r, j) PROVE TypeOK'
    <2>. DEFINE new == [Idle EXCEPT !.op = "cancel", !.job = j,
                                    !.queued = (job[j].status = "queued")]
    <2>1. new \in Request /\ new.job = j
        BY DEF Idle, Request
    <2>. HIDE DEF new
    <2>2. rq' = [rq EXCEPT ![r] = new]
        BY <1>3 DEF CancelRead, new
    <2>. QED BY <1>3, <2>1, <2>2 DEF TypeOK, CancelRead
<1>4. CASE RequestCancel(r)
    <2>1. rq[r].job \in Jobs /\ rq[r].queued \in BOOLEAN
        BY <1>4 DEF TypeOK, RequestCancel, Request
    <2>2. job[rq[r].job] \in Row
        BY <2>1 DEF TypeOK
    <2>3. CancelAsked(job[rq[r].job], rq[r].queued) \in Row
        BY <2>1, <2>2, RowEdits, Zenon
    <2>4. job' \in [Jobs -> Row]
        BY <1>4, <2>1, <2>3 DEF TypeOK, RequestCancel
    <2>. QED BY <1>0, <1>4, <2>4 DEF TypeOK, RequestCancel
<1>. QED BY <1>1, <1>2, <1>3, <1>4 DEF Api

\* So does what a worker thread does (claim_next, JobWorker._run).
LEMMA ThreadTyped ==
    ASSUME TypeOK, NEW w \in Workers, Thread(w)
    PROVE  TypeOK'
<1>. USE JobQueueAssumption
<1>1. CASE ClaimSelect(w)
    BY <1>1 DEF TypeOK, ClaimSelect
<1>2. CASE ClaimNothing(w)
    BY <1>2 DEF TypeOK, ClaimNothing
<1>3. ASSUME NEW j \in Jobs, ClaimWon(w, j) PROVE TypeOK'
    <2>1. job' \in [Jobs -> Row]
        <3>1. job[j] \in Row /\ ProcOf[w] \in Procs
            BY DEF TypeOK
        <3>2. Claimed(job[j], ProcOf[w]) \in Row
            BY <3>1, RowEdits, Zenon
        <3>. QED BY <1>3, <3>2 DEF TypeOK, ClaimWon
    <2>2. job[j].attempts + 1 \in Nat
        BY DEF TypeOK, Row
    <2>. QED BY <1>3, <2>1, <2>2 DEF TypeOK, ClaimWon, Forget
<1>4. ASSUME NEW j \in Jobs, ClaimLost(w, j) PROVE TypeOK'
    BY <1>4 DEF TypeOK, ClaimLost, Forget
<1>5. CASE NoHandler(w)
    <2>1. job' \in [Jobs -> Row]
        <3>1. cur[w] \in Jobs /\ job[cur[w]] \in Row
            BY <1>5 DEF TypeOK, NoHandler
        <3>2. [job[cur[w]] EXCEPT !.status = "failed", !.error = "no_handler"] \in Row
            BY <3>1, RowEdits
        <3>. QED BY <1>5, <3>1, <3>2 DEF TypeOK, NoHandler
    <2>. QED BY <1>5, <2>1 DEF TypeOK, NoHandler, Release
<1>6. CASE StartHandler(w)
    <2>1. job' \in [Jobs -> Row]
        <3>1. cur[w] \in Jobs /\ job[cur[w]] \in Row
            BY <1>6 DEF TypeOK, StartHandler
        <3>2. [job[cur[w]] EXCEPT !.stale = FALSE] \in Row
            BY <3>1, RowEdits
        <3>. QED BY <1>6, <3>1, <3>2 DEF TypeOK, StartHandler
    <2>. QED BY <1>6, <2>1 DEF TypeOK, StartHandler
<1>7. CASE Analysed(w)
    <2>1. job' \in [Jobs -> Row]
        <3>1. cur[w] \in Jobs /\ job[cur[w]] \in Row
            BY <1>7 DEF TypeOK, Analysed
        <3>2. [job[cur[w]] EXCEPT !.stale = FALSE] \in Row
            BY <3>1, RowEdits
        <3>. QED BY <1>7, <3>1, <3>2 DEF TypeOK, Analysed
    <2>. QED BY <1>7, <2>1 DEF TypeOK, Analysed
<1>8. CASE Finish(w)
    <2>1. cur[w] \in Jobs /\ job[cur[w]] \in Row
        BY <1>8 DEF TypeOK, Finish
    <2>2. job[cur[w]].status \in Status
        BY <2>1 DEF Row
    <2>. QED BY <1>8, <2>2 DEF TypeOK, Finish
<1>9. CASE Raised(w)
    <2>1. cur[w] \in Jobs /\ job[cur[w]] \in Row
        BY <1>9 DEF TypeOK, Raised
    <2>2. job[cur[w]].status \in Status
        BY <2>1 DEF Row
    <2>. QED BY <1>9, <2>2 DEF TypeOK, Raised
<1>10. CASE Record(w)
    <2>1. job' \in [Jobs -> Row]
        <3>1. cur[w] \in Jobs /\ job[cur[w]] \in Row /\ pc[w] \in Recording /\ loaded[w] \in Status
            BY <1>10 DEF TypeOK, Record
        <3>2. Verdict(job[cur[w]], pc[w], loaded[w]) \in Row
            BY <3>1, RowEdits, Zenon
        <3>. QED BY <1>10, <3>1, <3>2 DEF TypeOK, Record
    <2>. QED BY <1>10, <2>1 DEF TypeOK, Record, Release
<1>11. CASE HeartbeatTick(w)
    <2>1. job' \in [Jobs -> Row]
        BY <1>11, RowEdits DEF TypeOK, HeartbeatTick
    <2>. QED BY <1>11, <2>1 DEF TypeOK, HeartbeatTick
<1>12. CASE ThreadStops(w)
    BY <1>12 DEF TypeOK, ThreadStops
<1>. QED BY <1>1, <1>2, <1>3, <1>4, <1>5, <1>6, <1>7, <1>8, <1>9, <1>10, <1>11, <1>12
         DEF Thread

\* So do its failures.
LEMMA FaultTyped ==
    ASSUME TypeOK, NEW w \in Workers, Fault(w)
    PROVE  TypeOK'
<1>. USE JobQueueAssumption
<1>1. CASE HandlerRaises(w)
    BY <1>1 DEF TypeOK, HandlerRaises
<1>2. CASE HandlerHangs(w)
    BY <1>2 DEF TypeOK, HandlerHangs
<1>3. CASE RecordRaises(w)
    BY <1>3 DEF TypeOK, RecordRaises
<1>4. CASE Abandon(w)
    BY <1>4 DEF TypeOK, Abandon, Release, Forget
<1>. QED BY <1>1, <1>2, <1>3, <1>4 DEF Fault

\* So do the sweeps (reclaim_orphaned_jobs, reap_stale_jobs).
LEMMA SweepTyped ==
    ASSUME TypeOK, NEW s \in Sessions, Sweep(s) \/ SweepFails(s)
    PROVE  TypeOK'
<1>. USE JobQueueAssumption
<1>1. CASE SelectOrphans(s)
    BY <1>1 DEF TypeOK, SelectOrphans
<1>2. CASE CommitOrphans(s)
    <2>1. job' \in [Jobs -> Row]
        <3>1. \A j \in Jobs : job[j] \in Row
            BY DEF TypeOK
        <3>2. \A j \in Jobs : Orphaned(job[j], j \in retry[s]) \in Row
            BY <3>1, RowEdits, Zenon
        <3>. QED BY <1>2, <3>1, <3>2 DEF CommitOrphans
    <2>. QED BY <1>2, <2>1 DEF TypeOK, CommitOrphans, Forget
<1>3. CASE SelectStuck(s)
    BY <1>3 DEF TypeOK, SelectStuck, AfterSweep
<1>4. CASE CommitStuck(s)
    <2>1. job' \in [Jobs -> Row]
        BY <1>4, RowEdits DEF TypeOK, CommitStuck
    <2>2. pc' \in [Sessions -> ThreadPoints \cup MainPoints]
        BY <1>4 DEF TypeOK, CommitStuck, AfterSweep
    <2>4. \A w \in Workers : pc'[w] \in ThreadPoints
        <3>1. \A w \in Workers : pc'[w] = pc[w] \/ pc'[w] = "poll"
            BY <1>4 DEF CommitStuck, AfterSweep
        <3>. QED BY <3>1 DEF TypeOK
    <2>5. \A p \in Procs : pc'[p] \in MainPoints
        <3>1. \A p \in Procs : pc'[p] = pc[p] \/ pc'[p] = "up"
            BY <1>4 DEF CommitStuck, AfterSweep, Sessions
        <3>. QED BY <3>1 DEF TypeOK, MainPoints
    <2>3. \A w \in Workers :
            /\ cur'[w] \in Jobs <=> pc'[w] \in {"finish", "raised"} \cup Handling \cup Recording
            /\ pc'[ProcOf[w]] \notin {"up", "draining"} => pc'[w] = "off"
        <3>1. SUFFICES ASSUME NEW w \in Workers
                       PROVE  /\ cur'[w] \in Jobs <=> pc'[w] \in {"finish", "raised"} \cup Handling \cup Recording
                              /\ pc'[ProcOf[w]] \notin {"up", "draining"} => pc'[w] = "off"
            OBVIOUS
        <3>2. /\ w \in Sessions /\ ProcOf[w] \in Sessions /\ ProcOf[w] \in Procs
              /\ w \notin Procs /\ ProcOf[w] \notin Workers
            BY DEF Sessions
        <3>3. /\ pc'[w] = AfterSweep(s)[w] /\ pc'[ProcOf[w]] = AfterSweep(s)[ProcOf[w]]
              /\ cur' = cur /\ pc[s] = "stuck_commit"
            BY <1>4 DEF CommitStuck
        <3>4. CASE s = w
            BY <3>2, <3>3, <3>4 DEF TypeOK, AfterSweep, Sweeping, Handling, Recording
        <3>5. CASE s = ProcOf[w]
            BY <3>2, <3>3, <3>5 DEF TypeOK, AfterSweep, Handling, Recording
        <3>6. CASE s # w /\ s # ProcOf[w]
            BY <3>2, <3>3, <3>6 DEF TypeOK, AfterSweep
        <3>. QED BY <3>4, <3>5, <3>6
    <2>. QED BY <1>4, <2>1, <2>2, <2>3, <2>4, <2>5 DEF TypeOK, CommitStuck, Forget
<1>5. CASE SweepFails(s)
    BY <1>5 DEF TypeOK, SweepFails, Forget
<1>. QED BY <1>1, <1>2, <1>3, <1>4, <1>5 DEF Sweep

\* So do starting, stopping and crashing processes (worker.main).
LEMMA ProcessTyped ==
    ASSUME TypeOK, NEW p \in Procs, Process(p)
    PROVE  TypeOK'
<1>. USE JobQueueAssumption
<1>1. CASE StartProcess(p)
    BY <1>1 DEF TypeOK, StartProcess
<1>2. CASE Sigterm(p)
    BY <1>2 DEF TypeOK, Sigterm
<1>3. CASE Exit(p)
    BY <1>3 DEF TypeOK, Exit, Gone
<1>4. CASE Crash(p)
    BY <1>4 DEF TypeOK, Crash, Gone
<1>. QED BY <1>1, <1>2, <1>3, <1>4 DEF Process

\* So does the passing of time.
LEMMA TimeTyped ==
    ASSUME TypeOK, NEW j \in Jobs, GoStale(j) \/ GoOverdue(j)
    PROVE  TypeOK'
<1>1. CASE GoStale(j)
    <2>1. job' \in [Jobs -> Row]
        BY <1>1, RowEdits DEF TypeOK, GoStale
    <2>. QED BY <1>1, <2>1 DEF TypeOK, GoStale
<1>2. CASE GoOverdue(j)
    <2>1. job' \in [Jobs -> Row]
        BY <1>2, RowEdits DEF TypeOK, GoOverdue
    <2>. QED BY <1>2, <2>1 DEF TypeOK, GoOverdue
<1>. QED BY <1>1, <1>2

\* The type invariant holds in every reachable state of the job queue.
THEOREM TypeCorrect == Spec => []TypeOK
<1>1. Init => TypeOK
    BY JobQueueAssumption DEF Init, TypeOK, Row, Blank, Errors, Idle, Request
<1>2. TypeOK /\ [Next]_vars => TypeOK'
    <2>. SUFFICES ASSUME TypeOK, [Next]_vars PROVE TypeOK'
        OBVIOUS
    <2>1. CASE UNCHANGED vars
        BY <2>1 DEF TypeOK, vars
    <2>. QED BY <2>1, ApiTyped, ThreadTyped, FaultTyped, SweepTyped, ProcessTyped, TimeTyped
             DEF Next
<1>. QED BY <1>1, <1>2, PTL DEF Spec

----------------------------------------------------------------------------
(* Any max_attempts: attempts fence each other off. *)

Unpersisted == Handling \cup {"cancelling"}

\* What a step other than a claim does to attempts, holders and results.
Keeps ==
    /\ \A j \in Jobs : job'[j].attempts = job[j].attempts
    /\ \A w \in Workers : \/ cur'[w] = cur[w] /\ token'[w] = token[w]
                          \/ cur'[w] = None
    /\ \A w \in Workers : pc'[w] \in Unpersisted => pc[w] \in Unpersisted
    /\ \/ persisted' = persisted
       \/ \E w \in Workers :
            /\ pc[w] = "analyse" /\ pc'[w] = "finish"
            /\ persisted' = [persisted EXCEPT ![cur[w]] = @ \cup {token[w]}]

\* No write but the claim's touches attempts.
LEMMA EditsKeepAttempts ==
    ASSUME NEW row \in Row
    PROVE  /\ \A c : [row EXCEPT !.status = "queued", !.client = c].attempts = row.attempts
           /\ \A b : CancelAsked(row, b).attempts = row.attempts
           /\ \A p : Claimed(row, p).attempts = row.attempts + 1
           /\ \A b : Orphaned(row, b).attempts = row.attempts
           /\ [row EXCEPT !.status = "timed_out", !.error = "timeout"].attempts = row.attempts
           /\ [row EXCEPT !.status = "failed", !.error = "no_handler"].attempts = row.attempts
           /\ \A b : [row EXCEPT !.stale = b].attempts = row.attempts
           /\ [row EXCEPT !.overdue = TRUE].attempts = row.attempts
           /\ \A how, was : Verdict(row, how, was).attempts = row.attempts
BY DEF Row, CancelAsked, Claimed, Orphaned, Verdict

\* Every step that is not a successful claim_next is of that kind.
LEMMA StepKeeps ==
    ASSUME TypeOK, Next, ~\E w \in Workers, j \in Jobs : ClaimWon(w, j)
    PROVE  Keeps
<1>. USE JobQueueAssumption
<1>1. \A j \in Jobs : job[j] \in Row
    BY DEF TypeOK
<1>2. ASSUME NEW r \in Requests, Api(r) PROVE Keeps
    <2>1. ASSUME NEW c \in Clients, EnqueueCheck(r, c) PROVE Keeps
        BY <2>1 DEF Keeps, EnqueueCheck
    <2>2. CASE EnqueueInsert(r)
        <3>1. PICK j \in Jobs : job' = [job EXCEPT ![j] = [@ EXCEPT !.status = "queued",
                                                                    !.client = rq[r].client]]
            BY <2>2 DEF EnqueueInsert
        <3>2. job'[j].attempts = job[j].attempts
            BY <1>1, <3>1, EditsKeepAttempts DEF TypeOK
        <3>. QED BY <2>2, <3>1, <3>2 DEF TypeOK, Keeps, EnqueueInsert
    <2>3. ASSUME NEW j \in Jobs, CancelRead(r, j) PROVE Keeps
        BY <2>3 DEF Keeps, CancelRead
    <2>4. CASE RequestCancel(r)
        BY <1>1, <2>4, EditsKeepAttempts DEF TypeOK, Keeps, RequestCancel
    <2>. QED BY <1>2, <2>1, <2>2, <2>3, <2>4 DEF Api
<1>3. ASSUME NEW w \in Workers, Thread(w) PROVE Keeps
    <2>1. CASE ClaimSelect(w) \/ ClaimNothing(w) \/ Finish(w) \/ Raised(w) \/ ThreadStops(w)
        BY <2>1 DEF TypeOK, Keeps, Unpersisted, ClaimSelect, ClaimNothing, Finish, Raised,
                    ThreadStops
    <2>2. ASSUME NEW j \in Jobs, ClaimLost(w, j) PROVE Keeps
        BY <2>2 DEF TypeOK, Keeps, Unpersisted, ClaimLost
    <2>3. CASE NoHandler(w)
        BY <1>1, <2>3, EditsKeepAttempts DEF TypeOK, Keeps, Unpersisted, NoHandler, Release
    <2>4. CASE StartHandler(w)
        BY <1>1, <2>4, EditsKeepAttempts DEF TypeOK, Keeps, Unpersisted, StartHandler
    <2>5. CASE Analysed(w)
        <3>1. \A j \in Jobs : job'[j].attempts = job[j].attempts
            BY <1>1, <2>5, EditsKeepAttempts DEF TypeOK, Analysed
        <3>2. pc[w] = "analyse" /\ pc'[w] = "finish"
            BY <2>5 DEF TypeOK, Analysed
        <3>. QED BY <2>5, <3>1, <3>2 DEF TypeOK, Keeps, Unpersisted, Analysed
    <2>6. CASE Record(w)
        BY <1>1, <2>6, EditsKeepAttempts DEF TypeOK, Keeps, Unpersisted, Record, Release
    <2>7. CASE HeartbeatTick(w)
        BY <1>1, <2>7, EditsKeepAttempts DEF TypeOK, Keeps, Unpersisted, HeartbeatTick
    <2>. QED BY <1>3, <2>1, <2>2, <2>3, <2>4, <2>5, <2>6, <2>7 DEF Thread
<1>4. ASSUME NEW w \in Workers, Fault(w) PROVE Keeps
    BY <1>4 DEF TypeOK, Keeps, Unpersisted, Fault, HandlerRaises, HandlerHangs, RecordRaises,
                Abandon, Release
<1>5. ASSUME NEW s \in Sessions, Sweep(s) \/ SweepFails(s) PROVE Keeps
    <2>1. CASE SelectOrphans(s) \/ SweepFails(s)
        BY <2>1 DEF TypeOK, Keeps, Unpersisted, SelectOrphans, SweepFails
    <2>2. CASE CommitOrphans(s)
        BY <1>1, <2>2, EditsKeepAttempts DEF TypeOK, Keeps, Unpersisted, CommitOrphans
    <2>3. CASE SelectStuck(s)
        BY <2>3 DEF TypeOK, Keeps, Unpersisted, SelectStuck, AfterSweep
    <2>4. CASE CommitStuck(s)
        BY <1>1, <2>4, EditsKeepAttempts DEF TypeOK, Keeps, Unpersisted, CommitStuck, AfterSweep
    <2>. QED BY <1>5, <2>1, <2>2, <2>3, <2>4 DEF Sweep
<1>6. ASSUME NEW p \in Procs, Process(p) PROVE Keeps
    <2>1. CASE StartProcess(p) \/ Sigterm(p)
        BY <2>1 DEF TypeOK, Keeps, Unpersisted, StartProcess, Sigterm
    <2>2. CASE Exit(p)
        BY <2>2 DEF TypeOK, Keeps, Unpersisted, Exit, Gone
    <2>3. CASE Crash(p)
        BY <2>3 DEF TypeOK, Keeps, Unpersisted, Crash, Gone
    <2>. QED BY <1>6, <2>1, <2>2, <2>3 DEF Process
<1>7. ASSUME NEW j \in Jobs, GoStale(j) \/ GoOverdue(j) PROVE Keeps
    <2>1. CASE GoStale(j)
        BY <1>1, <2>1, EditsKeepAttempts DEF TypeOK, Keeps, GoStale
    <2>2. CASE GoOverdue(j)
        BY <1>1, <2>2, EditsKeepAttempts DEF TypeOK, Keeps, GoOverdue
    <2>. QED BY <1>7, <2>1, <2>2
<1>. QED BY <1>2, <1>3, <1>4, <1>5, <1>6, <1>7 DEF Next

\* The two together are inductive.
FenceInv == FencedAttempts /\ PersistOncePerAttempt

\* The claim hands out an attempt number nobody holds or has persisted under.
LEMMA ClaimWonKeepsFence ==
    ASSUME TypeOK, FenceInv, NEW w \in Workers, NEW j \in Jobs, ClaimWon(w, j)
    PROVE  FenceInv'
<1>. USE JobQueueAssumption
<1>. DEFINE n == job[j].attempts
<1>1. n \in Nat /\ job'[j].attempts = n + 1
    <2>1. job[j] \in Row
        BY DEF TypeOK
    <2>2. job'[j] = Claimed(job[j], ProcOf[w])
        BY DEF TypeOK, ClaimWon
    <2>. QED BY <2>1, <2>2, EditsKeepAttempts DEF Row
<1>2. \A k \in Jobs \ {j} : job'[k] = job[k]
    BY DEF TypeOK, ClaimWon
<1>3. /\ cur' = [cur EXCEPT ![w] = j] /\ token' = [token EXCEPT ![w] = n + 1]
      /\ pc' = [pc EXCEPT ![w] = "dispatch"] /\ persisted' = persisted
    BY DEF ClaimWon
<1>4. \A k \in Jobs : job[k].attempts \in Nat
    BY DEF TypeOK, Row
<1>. HIDE DEF n
<1>5. FencedAttempts'
    <2>. SUFFICES ASSUME NEW u \in Workers, NEW v \in Workers, NEW k \in Jobs
                  PROVE  /\ cur'[v] = k => token'[v] \in 1..job'[k].attempts
                         /\ cur'[u] = k /\ cur'[v] = k /\ u # v => token'[u] # token'[v]
        BY DEF FencedAttempts, Executes
    <2>1. \A x \in Workers : cur[x] = k => token[x] \in 1..job[k].attempts
        BY DEF FenceInv, FencedAttempts, Executes
    <2>2. cur[u] = k /\ cur[v] = k /\ u # v => token[u] # token[v]
        BY DEF FenceInv, FencedAttempts, Executes
    <2>3. CASE k = j
        BY <1>1, <1>3, <2>1, <2>2, <2>3 DEF TypeOK, n
    <2>4. CASE k # j
        BY <1>2, <1>3, <2>1, <2>2, <2>4 DEF TypeOK
    <2>. QED BY <2>3, <2>4
<1>6. PersistOncePerAttempt'
    <2>1. \A k \in Jobs : persisted'[k] \subseteq 1..job'[k].attempts
        <3>. SUFFICES ASSUME NEW k \in Jobs PROVE persisted[k] \subseteq 1..job'[k].attempts
            BY <1>3
        <3>1. persisted[k] \subseteq 1..job[k].attempts
            BY DEF FenceInv, PersistOncePerAttempt
        <3>2. job'[k].attempts \in Nat /\ job[k].attempts <= job'[k].attempts
            BY <1>1, <1>2, <1>4 DEF n
        <3>. QED BY <3>1, <3>2, <1>4
    <2>2. ASSUME NEW v \in Workers, pc'[v] \in Unpersisted PROVE token'[v] \notin persisted'[cur'[v]]
        <3>1. CASE v = w
            <4>1. persisted[j] \subseteq 1..n
                BY DEF FenceInv, PersistOncePerAttempt, n
            <4>. QED BY <1>1, <1>3, <3>1, <4>1 DEF TypeOK
        <3>2. CASE v # w
            BY <1>3, <2>2, <3>2 DEF TypeOK, FenceInv, PersistOncePerAttempt, Unpersisted
        <3>. QED BY <3>1, <3>2
    <2>. QED BY <2>1, <2>2 DEF PersistOncePerAttempt, Unpersisted
<1>. QED BY <1>5, <1>6 DEF FenceInv

\* Any other step leaves the attempts apart.
LEMMA KeepsFence ==
    ASSUME TypeOK, TypeOK', FenceInv, Keeps
    PROVE  FenceInv'
<1>. USE JobQueueAssumption
<1>1. FencedAttempts'
    <2>. SUFFICES ASSUME NEW u \in Workers, NEW v \in Workers, NEW k \in Jobs
                  PROVE  /\ cur'[v] = k => token'[v] \in 1..job'[k].attempts
                         /\ cur'[u] = k /\ cur'[v] = k /\ u # v => token'[u] # token'[v]
        BY DEF FencedAttempts, Executes
    <2>1. \A x \in Workers : cur'[x] = k => cur[x] = k /\ token'[x] = token[x]
        BY DEF Keeps
    <2>2. /\ cur[v] = k => token[v] \in 1..job[k].attempts
          /\ cur[u] = k /\ cur[v] = k /\ u # v => token[u] # token[v]
        BY DEF FenceInv, FencedAttempts, Executes
    <2>. QED BY <2>1, <2>2 DEF Keeps
<1>2. PersistOncePerAttempt'
    <2>1. CASE persisted' = persisted
        <3>1. \A j \in Jobs : persisted'[j] \subseteq 1..job'[j].attempts
            BY <2>1 DEF FenceInv, PersistOncePerAttempt, Keeps
        <3>2. \A v \in Workers : pc'[v] \in Unpersisted =>
                /\ pc[v] \in Unpersisted
                /\ cur'[v] = cur[v] /\ token'[v] = token[v]
            BY DEF Keeps, TypeOK, Unpersisted, JobQueueAssumption
        <3>. QED BY <2>1, <3>1, <3>2 DEF FenceInv, PersistOncePerAttempt, Unpersisted
    <2>2. ASSUME NEW w \in Workers, pc[w] = "analyse", pc'[w] = "finish",
                 persisted' = [persisted EXCEPT ![cur[w]] = @ \cup {token[w]}]
          PROVE  PersistOncePerAttempt'
        <3>1. cur[w] \in Jobs /\ token[w] \in 1..job[cur[w]].attempts
            BY <2>2 DEF TypeOK, FenceInv, FencedAttempts, Executes
        <3>2. \A j \in Jobs : persisted'[j] \subseteq 1..job'[j].attempts
            BY <2>2, <3>1 DEF TypeOK, Keeps, FenceInv, PersistOncePerAttempt
        <3>3. ASSUME NEW v \in Workers, pc'[v] \in Unpersisted
              PROVE  token'[v] \notin persisted'[cur'[v]]
            <4>1. /\ v # w /\ pc[v] \in Unpersisted /\ cur[v] \in Jobs
                  /\ cur'[v] = cur[v] /\ token'[v] = token[v]
                BY <2>2, <3>3 DEF Keeps, TypeOK, Unpersisted
            <4>2. cur[v] = cur[w] => token[v] # token[w]
                BY <3>1, <4>1 DEF FenceInv, FencedAttempts, Executes
            <4>3. token[v] \notin persisted[cur[v]]
                BY <4>1 DEF FenceInv, PersistOncePerAttempt, Unpersisted
            <4>. QED BY <2>2, <3>1, <4>1, <4>2, <4>3 DEF TypeOK
        <3>. QED BY <3>2, <3>3 DEF PersistOncePerAttempt, Unpersisted
    <2>. QED BY <2>1, <2>2 DEF Keeps
<1>. QED BY <1>1, <1>2 DEF FenceInv

\* claim_next and run_analysis_job, for any max_attempts: concurrent executions
\* of one job hold different attempts, and an attempt persists at most once.
THEOREM Fencing == Spec => [](FencedAttempts /\ PersistOncePerAttempt)
<1>1. Init => FenceInv
    BY JobQueueAssumption DEF Init, FenceInv, FencedAttempts, PersistOncePerAttempt, Executes, Blank
<1>2. TypeOK /\ TypeOK' /\ FenceInv /\ [Next]_vars => FenceInv'
    <2>. SUFFICES ASSUME TypeOK, TypeOK', FenceInv, [Next]_vars PROVE FenceInv'
        OBVIOUS
    <2>1. CASE UNCHANGED vars
        BY <2>1 DEF FenceInv, FencedAttempts, PersistOncePerAttempt, Executes, vars
    <2>2. CASE Next
        BY <2>2, StepKeeps, KeepsFence, ClaimWonKeepsFence
    <2>. QED BY <2>1, <2>2
<1>. QED BY <1>1, <1>2, TypeCorrect, PTL DEF Spec, FenceInv

----------------------------------------------------------------------------
(* max_attempts = 1: one executor, one result, and the one-shot ticket. *)

\* A row is claimed once: queued means never attempted, running means attempt 1.
CountsOnce ==
    /\ \A j \in Jobs : /\ job[j].attempts <= 1
                       /\ job[j].status \in {"absent", "queued"} => job[j].attempts = 0
                       /\ job[j].status = "running" => job[j].attempts = 1
    /\ \A w \in Workers : cur[w] \in Jobs => token[w] = 1 /\ job[cur[w]].attempts = 1

\* No session is about to requeue a row, and each knows only rows that exist.
LocalsOnce ==
    /\ \A s \in Sessions : retry[s] = {} /\ \A j \in seen[s] : job[j].status # "absent"
    /\ \A w \in Workers : pc[w] # "record_requeue"
    /\ \A r \in Requests : rq[r].op = "cancel" => job[rq[r].job].status # "absent"

OnceInv == CountsOnce /\ LocalsOnce

\* The steps a row's status takes.
Issued(j) ==
    /\ \E r \in Requests : EnqueueInsert(r)
    /\ job[j].status = "absent"
    /\ \A k \in Jobs : job'[k].status = IF k = j THEN "queued" ELSE job[k].status
Taken(j) ==
    /\ \E w \in Workers : ClaimWon(w, j)
    /\ job[j].status = "queued"
    /\ \A k \in Jobs : job'[k].status = IF k = j THEN "running" ELSE job[k].status
Closed ==
    \A k \in Jobs : \/ job'[k].status = job[k].status
                    \/ job[k].status # "absent" /\ job'[k].status \in Terminal

StatusStep == \/ \E j \in Jobs : Issued(j) \/ Taken(j)
              \/ Closed

\* What each write does to the status.
LEMMA EditsOfStatus ==
    ASSUME NEW row \in Row
    PROVE  /\ \A c : [row EXCEPT !.status = "queued", !.client = c].status = "queued"
           /\ \A b : CancelAsked(row, b).status \in {row.status, "cancelled"}
           /\ \A p : Claimed(row, p).status = "running"
           /\ [row EXCEPT !.status = "timed_out", !.error = "timeout"].status = "timed_out"
           /\ [row EXCEPT !.status = "failed", !.error = "no_handler"].status = "failed"
           /\ \A b : [row EXCEPT !.stale = b].status = row.status
           /\ [row EXCEPT !.overdue = TRUE].status = row.status
           /\ \A how \in Recording \ {"record_requeue"} : \A was :
                Verdict(row, how, was).status \in {row.status} \cup Terminal
<1>1. \A how \in Recording \ {"record_requeue"} : \A was :
                Verdict(row, how, was).status \in {row.status} \cup Terminal
    BY DEF Row, Verdict, VerdictStatus
<1>. QED BY <1>1 DEF Row, CancelAsked, Claimed

\* With max_attempts = 1 every step of the queue is a status step.
LEMMA OnceStatusStep ==
    ASSUME MaxAttempts = 1, TypeOK, OnceInv, Next
    PROVE  StatusStep
<1>. USE JobQueueAssumption
<1>1. \A j \in Jobs : job[j] \in Row
    BY DEF TypeOK
<1>2. ASSUME NEW r \in Requests, Api(r) PROVE StatusStep
    <2>1. CASE EnqueueInsert(r)
        <3>1. PICK j \in Jobs :
                /\ job[j].status = "absent"
                /\ job' = [job EXCEPT ![j] = [@ EXCEPT !.status = "queued", !.client = rq[r].client]]
            BY <2>1 DEF EnqueueInsert
        <3>2. job'[j].status = "queued"
            BY <1>1, <3>1, EditsOfStatus DEF TypeOK
        <3>3. Issued(j)
            BY <2>1, <3>1, <3>2 DEF Issued, TypeOK
        <3>. QED BY <3>3 DEF StatusStep
    <2>2. CASE RequestCancel(r)
        <3>1. rq[r].job \in Jobs /\ job[rq[r].job].status # "absent"
            BY <2>2 DEF TypeOK, OnceInv, CountsOnce, LocalsOnce, RequestCancel
        <3>2. job' = [job EXCEPT ![rq[r].job] = CancelAsked(@, rq[r].queued)]
            BY <2>2 DEF RequestCancel
        <3>3. CancelAsked(job[rq[r].job], rq[r].queued).status
                \in {job[rq[r].job].status, "cancelled"}
            BY <1>1, <3>1, EditsOfStatus, Zenon
        <3>. QED BY <3>1, <3>2, <3>3 DEF TypeOK, StatusStep, Closed
    <2>3. CASE (\E c \in Clients : EnqueueCheck(r, c)) \/ (\E j \in Jobs : CancelRead(r, j))
        BY <2>3 DEF EnqueueCheck, CancelRead, StatusStep, Closed
    <2>. QED BY <1>2, <2>1, <2>2, <2>3 DEF Api
<1>3. ASSUME NEW w \in Workers, NEW j \in Jobs, ClaimWon(w, j) PROVE StatusStep
    <2>1. job[j].status = "queued"
        BY <1>3 DEF ClaimWon, ClaimMatches, Stale, OnceInv, CountsOnce, LocalsOnce
    <2>2. job'[j].status = "running"
        <3>1. job'[j] = Claimed(job[j], ProcOf[w])
            BY <1>3 DEF TypeOK, ClaimWon
        <3>. QED BY <1>1, <3>1, EditsOfStatus
    <2>3. \A k \in Jobs : k # j => job'[k] = job[k]
        BY <1>3 DEF TypeOK, ClaimWon
    <2>4. Taken(j)
        BY <1>3, <2>1, <2>2, <2>3 DEF Taken
    <2>. QED BY <2>4 DEF StatusStep
<1>4. ASSUME NEW w \in Workers, Thread(w), ~\E j \in Jobs : ClaimWon(w, j) PROVE Closed
    <2>1. cur[w] \in Jobs => job[cur[w]].status # "absent"
        BY DEF OnceInv, CountsOnce, LocalsOnce
    <2>2. CASE \/ ClaimSelect(w) \/ ClaimNothing(w) \/ Finish(w) \/ Raised(w) \/ ThreadStops(w)
               \/ \E j \in Jobs : ClaimLost(w, j)
        BY <2>2 DEF Closed, ClaimSelect, ClaimNothing, Finish, Raised, ThreadStops, ClaimLost
    <2>3. CASE NoHandler(w)
        BY <1>1, <2>1, <2>3, EditsOfStatus DEF TypeOK, Closed, NoHandler
    <2>4. CASE StartHandler(w)
        BY <1>1, <2>4, EditsOfStatus DEF TypeOK, Closed, StartHandler
    <2>5. CASE Analysed(w)
        BY <1>1, <2>5, EditsOfStatus DEF TypeOK, Closed, Analysed
    <2>6. CASE Record(w)
        <3>1. pc[w] \in Recording \ {"record_requeue"} /\ cur[w] \in Jobs
            BY <2>6 DEF OnceInv, CountsOnce, LocalsOnce, Record, TypeOK
        <3>2. job' = [job EXCEPT ![cur[w]] = Verdict(@, pc[w], loaded[w])]
            BY <2>6 DEF Record
        <3>3. Verdict(job[cur[w]], pc[w], loaded[w]).status \in {job[cur[w]].status} \cup Terminal
            BY <1>1, <3>1, EditsOfStatus, Zenon
        <3>. QED BY <2>1, <3>1, <3>2, <3>3 DEF TypeOK, Closed
    <2>7. CASE HeartbeatTick(w)
        BY <1>1, <2>7, EditsOfStatus DEF TypeOK, Closed, HeartbeatTick
    <2>. QED BY <1>4, <2>2, <2>3, <2>4, <2>5, <2>6, <2>7 DEF Thread
<1>5. ASSUME NEW w \in Workers, Fault(w) PROVE Closed
    BY <1>5 DEF Closed, Fault, HandlerRaises, HandlerHangs, RecordRaises, Abandon
<1>6. ASSUME NEW s \in Sessions, Sweep(s) \/ SweepFails(s) PROVE Closed
    <2>1. CASE SelectOrphans(s) \/ SelectStuck(s) \/ SweepFails(s)
        BY <2>1 DEF Closed, SelectOrphans, SelectStuck, SweepFails
    <2>2. CASE CommitOrphans(s)
        <3>1. ASSUME NEW j \in Jobs, j \in seen[s]
              PROVE  job[j].status # "absent" /\ job'[j].status = "failed"
            <4>1. job'[j] = Orphaned(job[j], j \in retry[s])
                BY <2>2, <3>1 DEF CommitOrphans
            <4>2. ~(j \in retry[s])
                BY DEF OnceInv, CountsOnce, LocalsOnce
            <4>3. job'[j].status = "failed"
                BY <1>1, <4>1, <4>2 DEF Orphaned, Row
            <4>. QED BY <3>1, <4>3 DEF OnceInv, CountsOnce, LocalsOnce
        <3>2. \A j \in Jobs : j \notin seen[s] => job'[j] = job[j]
            BY <2>2 DEF CommitOrphans
        <3>. QED BY <3>1, <3>2 DEF Closed
    <2>3. CASE CommitStuck(s)
        <3>1. ASSUME NEW j \in Jobs, j \in seen[s]
              PROVE  job[j].status # "absent" /\ job'[j].status = "timed_out"
            <4>1. job'[j] = [job[j] EXCEPT !.status = "timed_out", !.error = "timeout"]
                BY <2>3, <3>1 DEF CommitStuck
            <4>2. job'[j].status = "timed_out"
                BY <1>1, <4>1, EditsOfStatus
            <4>. QED BY <3>1, <4>2 DEF OnceInv, CountsOnce, LocalsOnce
        <3>2. \A j \in Jobs : j \notin seen[s] => job'[j] = job[j]
            BY <2>3 DEF CommitStuck
        <3>. QED BY <3>1, <3>2 DEF Closed
    <2>. QED BY <1>6, <2>1, <2>2, <2>3 DEF Sweep
<1>7. ASSUME NEW p \in Procs, Process(p) PROVE Closed
    BY <1>7 DEF Closed, Process, StartProcess, Sigterm, Exit, Crash
<1>8. ASSUME NEW j \in Jobs, GoStale(j) \/ GoOverdue(j) PROVE Closed
    <2>1. CASE GoStale(j)
        BY <1>1, <2>1, EditsOfStatus DEF TypeOK, Closed, GoStale
    <2>2. CASE GoOverdue(j)
        BY <1>1, <2>2, EditsOfStatus DEF TypeOK, Closed, GoOverdue
    <2>. QED BY <1>8, <2>1, <2>2
<1>. QED BY <1>2, <1>3, <1>4, <1>5, <1>6, <1>7, <1>8 DEF Next, Thread, StatusStep

\* The steps that write what a session has loaded.
LEMMA LoadedBy ==
    ASSUME Next
    PROVE  \/ UNCHANGED <<seen, retry>>
           \/ \E s \in Sessions : Forget(s) \/ SelectOrphans(s) \/ SelectStuck(s)
           \/ \E w \in Workers : ClaimSelect(w)
           \/ \E p \in Procs : Gone(p)
<1>1. ASSUME NEW w \in Workers, Thread(w) \/ Fault(w)
      PROVE  UNCHANGED <<seen, retry>> \/ Forget(w) \/ ClaimSelect(w)
    BY <1>1 DEF Thread, ClaimNothing, ClaimWon, ClaimLost, NoHandler, StartHandler, Analysed,
                Finish, Raised, Record, HeartbeatTick, ThreadStops, Fault, HandlerRaises,
                HandlerHangs, RecordRaises, Abandon
<1>2. ASSUME NEW s \in Sessions, Sweep(s) \/ SweepFails(s)
      PROVE  SelectOrphans(s) \/ SelectStuck(s) \/ Forget(s)
    BY <1>2 DEF Sweep, CommitOrphans, CommitStuck, SweepFails
<1>3. ASSUME NEW p \in Procs, Process(p)
      PROVE  UNCHANGED <<seen, retry>> \/ Gone(p)
    BY <1>3 DEF Process, StartProcess, Sigterm, Exit, Crash
<1>. QED BY <1>1, <1>2, <1>3
         DEF Next, Api, EnqueueCheck, EnqueueInsert, CancelRead, RequestCancel, GoStale, GoOverdue

\* With max_attempts = 1 no session ever decides to requeue.
LEMMA OnceLocals ==
    ASSUME MaxAttempts = 1, TypeOK, OnceInv, Next,
           \A j \in Jobs : job[j].status # "absent" => job'[j].status # "absent"
    PROVE  LocalsOnce'
<1>. USE JobQueueAssumption
<1>. DEFINE Known == \A s \in Sessions : /\ retry'[s] = {}
                                        /\ \A j \in seen'[s] : j \in Jobs /\ job[j].status # "absent"
<1>1. Known
    <2>1. CASE UNCHANGED <<seen, retry>>
        BY <2>1 DEF TypeOK, OnceInv, CountsOnce, LocalsOnce
    <2>2. ASSUME NEW s \in Sessions, Forget(s) PROVE Known
        BY <2>2 DEF TypeOK, OnceInv, CountsOnce, LocalsOnce, Forget
    <2>3. ASSUME NEW s \in Sessions, SelectOrphans(s) PROVE Known
        <3>1. \A j \in Jobs : Stale(j) => job[j].status = "running" /\ ~(job[j].attempts < MaxAttempts)
            BY DEF Stale, OnceInv, CountsOnce, LocalsOnce
        <3>2. seen'[s] = {j \in Jobs : Stale(j)} /\ retry'[s] = {j \in seen'[s] : job[j].attempts < MaxAttempts}
            BY <2>3 DEF TypeOK, SelectOrphans
        <3>3. \A x \in Sessions : x # s => seen'[x] = seen[x] /\ retry'[x] = retry[x]
            BY <2>3 DEF TypeOK, SelectOrphans
        <3>4. \A x \in Sessions : /\ retry[x] = {} /\ seen[x] \subseteq Jobs
                                  /\ \A j \in seen[x] : job[j].status # "absent"
            BY DEF TypeOK, OnceInv, LocalsOnce
        <3>5. retry'[s] = {} /\ \A j \in seen'[s] : j \in Jobs /\ job[j].status # "absent"
            BY <3>1, <3>2
        <3>. QED BY <3>3, <3>4, <3>5
    <2>4. ASSUME NEW s \in Sessions, SelectStuck(s) PROVE Known
        BY <2>4 DEF TypeOK, OnceInv, CountsOnce, LocalsOnce, SelectStuck
    <2>5. ASSUME NEW w \in Workers, ClaimSelect(w) PROVE Known
        BY <2>5 DEF TypeOK, OnceInv, CountsOnce, LocalsOnce, ClaimSelect, Claimable, Stale
    <2>6. ASSUME NEW p \in Procs, Gone(p) PROVE Known
        <3>. DEFINE L(x) == x = p \/ (x \in Workers /\ ProcOf[x] = p)
        <3>0. /\ seen' = [x \in Sessions |-> IF L(x) THEN {} ELSE seen[x]]
              /\ retry' = [x \in Sessions |-> IF L(x) THEN {} ELSE retry[x]]
            BY <2>6, Zenon DEF Gone
        <3>. HIDE DEF L
        <3>1. \A x \in Sessions : \/ seen'[x] = {} /\ retry'[x] = {}
                                  \/ seen'[x] = seen[x] /\ retry'[x] = retry[x]
            BY <3>0
        <3>2. \A x \in Sessions : /\ retry[x] = {} /\ seen[x] \subseteq Jobs
                                  /\ \A j \in seen[x] : job[j].status # "absent"
            BY DEF TypeOK, OnceInv, LocalsOnce
        <3>. QED BY <3>1, <3>2, Zenon
    <2>. QED BY <2>1, <2>2, <2>3, <2>4, <2>5, <2>6, LoadedBy
<1>2. ASSUME NEW v \in Workers PROVE pc'[v] # "record_requeue"
    <2>. DEFINE OK == pc'[v] # "record_requeue"
    <2>0. pc[v] # "record_requeue"
        BY DEF OnceInv, CountsOnce, LocalsOnce
    <2>1. ASSUME NEW w \in Workers, Raised(w) PROVE OK
        <3>1. ~(job[cur[w]].attempts < MaxAttempts)
            BY <2>1 DEF TypeOK, OnceInv, CountsOnce, LocalsOnce, Raised
        <3>. QED BY <2>0, <2>1, <3>1 DEF TypeOK, Raised
    <2>2. ASSUME NEW w \in Workers, Thread(w), ~Raised(w) PROVE OK
        BY <2>0, <2>2 DEF TypeOK, Thread, ClaimSelect, ClaimNothing, ClaimWon, ClaimLost, NoHandler,
                StartHandler, Analysed, Finish, Record, Release, HeartbeatTick, ThreadStops
    <2>3. ASSUME NEW w \in Workers, Fault(w) PROVE OK
        BY <2>0, <2>3 DEF TypeOK, Fault, HandlerRaises, HandlerHangs, RecordRaises, Abandon, Release
    <2>4. ASSUME NEW s \in Sessions, Sweep(s) \/ SweepFails(s) PROVE OK
        <3>1. CASE SelectOrphans(s) \/ CommitOrphans(s) \/ SweepFails(s)
            BY <2>0, <3>1 DEF TypeOK, SelectOrphans, CommitOrphans, SweepFails
        <3>2. AfterSweep(s)[v] # "record_requeue"
            BY <2>0 DEF AfterSweep
        <3>3. CASE SelectStuck(s)
            BY <2>0, <3>2, <3>3 DEF TypeOK, SelectStuck
        <3>4. CASE CommitStuck(s)
            BY <3>2, <3>4 DEF CommitStuck
        <3>. QED BY <2>4, <3>1, <3>3, <3>4 DEF Sweep
    <2>5. ASSUME NEW p \in Procs, Process(p) PROVE OK
        BY <2>0, <2>5 DEF TypeOK, Process, StartProcess, Sigterm, Exit, Crash, Gone
    <2>6. ASSUME NEW r \in Requests, Api(r) PROVE OK
        BY <2>0, <2>6 DEF Api, EnqueueCheck, EnqueueInsert, CancelRead, RequestCancel
    <2>7. ASSUME NEW j \in Jobs, GoStale(j) \/ GoOverdue(j) PROVE OK
        BY <2>0, <2>7 DEF GoStale, GoOverdue
    <2>. HIDE DEF OK
    <2>8. OK
        BY <2>1, <2>2, <2>3, <2>4, <2>5, <2>6, <2>7 DEF Next
    <2>. QED BY <2>8 DEF OK
<1>3. ASSUME NEW r \in Requests, rq'[r].op = "cancel" PROVE job'[rq'[r].job].status # "absent"
    <2>1. CASE rq'[r] = rq[r]
        <3>1. rq[r].job \in Jobs /\ job[rq[r].job].status # "absent"
            BY <1>3, <2>1 DEF TypeOK, OnceInv, LocalsOnce
        <3>. QED BY <2>1, <3>1
    <2>2. ASSUME NEW j \in Jobs, CancelRead(r, j) PROVE job'[rq'[r].job].status # "absent"
        <3>1. rq'[r].job = j /\ job' = job /\ job[j].status # "absent"
            BY <2>2 DEF TypeOK, CancelRead, Idle
        <3>. QED BY <3>1
    <2>3. CASE (\E c \in Clients : EnqueueCheck(r, c)) \/ EnqueueInsert(r) \/ RequestCancel(r)
        <3>1. Idle.op = "idle"
            BY DEF Idle
        <3>2. ASSUME NEW c \in Clients, EnqueueCheck(r, c) PROVE FALSE
            BY <1>3, <3>2 DEF TypeOK, EnqueueCheck, Idle
        <3>3. CASE EnqueueInsert(r)
            BY <1>3, <3>1, <3>3 DEF TypeOK, EnqueueInsert
        <3>4. CASE RequestCancel(r)
            BY <1>3, <3>1, <3>4 DEF TypeOK, RequestCancel
        <3>. QED BY <2>3, <3>2, <3>3, <3>4
    <2>4. ASSUME NEW q \in Requests, Api(q), q # r PROVE rq'[r] = rq[r]
        <3>1. \E new : rq' = [rq EXCEPT ![q] = new]
            BY <2>4, Zenon DEF Api, EnqueueCheck, EnqueueInsert, CancelRead, RequestCancel
        <3>. QED BY <2>4, <3>1 DEF TypeOK
    <2>5. Api(r) \/ rq'[r] = rq[r]
        <3>1. ASSUME NEW w \in Workers, Thread(w) \/ Fault(w) PROVE rq' = rq
            BY <3>1 DEF Thread, ClaimSelect, ClaimNothing, ClaimWon, ClaimLost, NoHandler,
                StartHandler, Analysed, Finish, Raised, Record, HeartbeatTick, ThreadStops,
                Fault, HandlerRaises, HandlerHangs, RecordRaises, Abandon
        <3>2. ASSUME NEW s \in Sessions, Sweep(s) \/ SweepFails(s) PROVE rq' = rq
            BY <3>2 DEF Sweep, SelectOrphans, CommitOrphans, SelectStuck, CommitStuck, SweepFails
        <3>3. ASSUME NEW p \in Procs, Process(p) PROVE rq' = rq
            BY <3>3 DEF Process, StartProcess, Sigterm, Exit, Crash
        <3>. QED BY <2>4, <3>1, <3>2, <3>3 DEF Next, GoStale, GoOverdue
    <2>. QED BY <2>1, <2>2, <2>3, <2>5 DEF Api
<1>4. \A s \in Sessions : \A j \in seen'[s] : job'[j].status # "absent"
    BY <1>1
<1>. QED BY <1>1, <1>2, <1>3, <1>4 DEF LocalsOnce

\* OnceInv is inductive.
LEMMA OnceStep ==
    ASSUME MaxAttempts = 1, TypeOK, OnceInv, Next
    PROVE  OnceInv'
<1>. USE JobQueueAssumption
<1>1. StatusStep
    BY OnceStatusStep
<1>2. \A j \in Jobs : job[j].status # "absent" => job'[j].status # "absent"
    BY <1>1 DEF StatusStep, Issued, Taken, Closed
<1>3. ASSUME NEW w \in Workers, NEW j \in Jobs, ClaimWon(w, j) PROVE CountsOnce'
    <2>0. job[j].status = "queued"
        BY <1>3 DEF ClaimWon, ClaimMatches, Stale, OnceInv, CountsOnce
    <2>1. job[j].attempts = 0
        BY <2>0 DEF OnceInv, CountsOnce
    <2>2. job'[j] = Claimed(job[j], ProcOf[w]) /\ \A k \in Jobs \ {j} : job'[k] = job[k]
        BY <1>3 DEF TypeOK, ClaimWon
    <2>3. job[j] \in Row
        BY DEF TypeOK
    <2>4. job'[j].attempts = 1 /\ job'[j].status = "running"
        BY <2>1, <2>2, <2>3, EditsKeepAttempts, EditsOfStatus
    <2>5. cur' = [cur EXCEPT ![w] = j] /\ token' = [token EXCEPT ![w] = 1]
        BY <1>3, <2>1 DEF ClaimWon
    <2>6. \A k \in Jobs : /\ job'[k].attempts <= 1
                          /\ job'[k].status \in {"absent", "queued"} => job'[k].attempts = 0
                          /\ job'[k].status = "running" => job'[k].attempts = 1
        BY <2>2, <2>4 DEF OnceInv, CountsOnce
    <2>7. \A v \in Workers : cur'[v] \in Jobs => token'[v] = 1 /\ job'[cur'[v]].attempts = 1
        <3>1. cur'[w] = j /\ token'[w] = 1
            BY <2>5 DEF TypeOK
        <3>2. ASSUME NEW v \in Workers, v # w, cur'[v] \in Jobs
              PROVE  token'[v] = 1 /\ job'[cur'[v]].attempts = 1
            <4>1. cur'[v] = cur[v] /\ token'[v] = token[v]
                BY <2>5, <3>2 DEF TypeOK
            <4>2. token[v] = 1 /\ job[cur[v]].attempts = 1
                BY <3>2, <4>1 DEF OnceInv, CountsOnce
            <4>. QED BY <2>2, <2>4, <3>2, <4>1, <4>2
        <3>. QED BY <2>4, <3>1, <3>2
    <2>. QED BY <2>6, <2>7 DEF CountsOnce
<1>4. ASSUME ~\E w \in Workers, j \in Jobs : ClaimWon(w, j) PROVE CountsOnce'
    <2>1. Keeps
        BY <1>4, StepKeeps
    <2>2. (\E j \in Jobs : Issued(j)) \/ Closed
        BY <1>1, <1>4 DEF StatusStep, Taken
    <2>3. ASSUME NEW j \in Jobs
          PROVE  \/ job'[j].status = job[j].status
                 \/ job[j].status = "absent" /\ job'[j].status = "queued"
                 \/ job'[j].status \in Terminal
        BY <2>2 DEF Issued, Closed
    <2>4. \A w \in Workers : cur'[w] \in Jobs => cur'[w] = cur[w] /\ token'[w] = token[w]
        BY <2>1 DEF Keeps
    <2>5. \A k \in Jobs : /\ job'[k].attempts <= 1
                          /\ job'[k].status \in {"absent", "queued"} => job'[k].attempts = 0
                          /\ job'[k].status = "running" => job'[k].attempts = 1
        BY <2>1, <2>3 DEF Keeps, OnceInv, CountsOnce
    <2>6. \A v \in Workers : cur'[v] \in Jobs => token'[v] = 1 /\ job'[cur'[v]].attempts = 1
        <3>1. \A k \in Jobs : job'[k].attempts = job[k].attempts
            BY <2>1 DEF Keeps
        <3>2. ASSUME NEW v \in Workers, cur'[v] \in Jobs
              PROVE  token'[v] = 1 /\ job'[cur'[v]].attempts = 1
            <4>1. cur'[v] = cur[v] /\ token'[v] = token[v]
                BY <2>4, <3>2
            <4>2. token[v] = 1 /\ job[cur[v]].attempts = 1
                BY <3>2, <4>1 DEF OnceInv, CountsOnce
            <4>. QED BY <3>1, <3>2, <4>1, <4>2
        <3>. QED BY <3>2
    <2>. QED BY <2>5, <2>6 DEF CountsOnce
<1>5. CountsOnce'
    BY <1>3, <1>4
<1>. QED BY <1>2, <1>5, OnceLocals DEF OnceInv, CountsOnce, LocalsOnce

\* OnceInv holds in every reachable state when max_attempts = 1.
LEMMA OnceInvariant == ASSUME MaxAttempts = 1 PROVE Spec => []OnceInv
<1>1. Init => OnceInv
    BY JobQueueAssumption DEF Init, OnceInv, CountsOnce, LocalsOnce, Blank, Idle
<1>2. TypeOK /\ OnceInv /\ [Next]_vars => OnceInv'
    <2>1. TypeOK /\ OnceInv /\ Next => OnceInv'
        BY OnceStep
    <2>2. OnceInv /\ UNCHANGED vars => OnceInv'
        BY DEF OnceInv, CountsOnce, LocalsOnce, vars
    <2>. QED BY <2>1, <2>2
<1>. QED BY <1>1, <1>2, TypeCorrect, PTL DEF Spec

\* With max_attempts = 1, what trigger_run asks for, no two threads execute the
\* same job and a job leaves at most one set of results, whatever crashes,
\* sweeps, cancellations and database faults happen.
THEOREM RunsAtMostOnce ==
    ASSUME MaxAttempts = 1
    PROVE  Spec => [](SingleExecutor /\ AtMostOneRun)
<1>1. OnceInv /\ FencedAttempts /\ PersistOncePerAttempt /\ TypeOK => SingleExecutor
    BY JobQueueAssumption DEF OnceInv, CountsOnce, FencedAttempts, SingleExecutor, Executes
<1>2. OnceInv /\ FencedAttempts /\ PersistOncePerAttempt /\ TypeOK => AtMostOneRun
    <2>. SUFFICES ASSUME OnceInv, PersistOncePerAttempt, TypeOK, NEW j \in Jobs
                  PROVE  job[j].attempts <= 1 /\ persisted[j] \subseteq {1}
        BY DEF AtMostOneRun
    <2>1. job[j].attempts \in Nat /\ job[j].attempts <= 1
        BY DEF TypeOK, Row, OnceInv, CountsOnce
    <2>. QED BY <2>1 DEF PersistOncePerAttempt
<1>. QED BY <1>1, <1>2, OnceInvariant, Fencing, TypeCorrect, PTL

\* A status step is a step of the one-shot ticket or leaves it alone.
LEMMA StatusStepIsTicketStep ==
    ASSUME TypeOK, TypeOK', StatusStep
    PROVE  [Ticket!Next]_phases
<1>1. \A j \in Jobs : job[j].status \in Status /\ job'[j].status \in Status
    BY DEF TypeOK, Row
<1>2. /\ phases = [j \in Jobs |-> Phase(job[j].status)]
      /\ phases' = [j \in Jobs |-> Phase(job'[j].status)]
    BY DEF phases
<1>3. ASSUME NEW j \in Jobs, Issued(j) PROVE Ticket!Issue(j)
    BY <1>1, <1>2, <1>3 DEF Issued, Ticket!Issue, Phase
<1>4. ASSUME NEW j \in Jobs, Taken(j) PROVE Ticket!Take(j)
    BY <1>1, <1>2, <1>4 DEF Taken, Ticket!Take, Phase
<1>5. ASSUME Closed PROVE \E S \in SUBSET Jobs : Ticket!Close(S)
    <2>. DEFINE S == {j \in Jobs : job[j].status # "absent" /\ job'[j].status \in Terminal}
    <2>1. \A j \in S : phases[j] # "none"
        BY <1>1, <1>2 DEF Phase
    <2>2. phases' = [j \in Jobs |-> IF j \in S THEN "closed" ELSE phases[j]]
        <3>1. \A j \in S : Phase(job'[j].status) = "closed"
            BY DEF Phase
        <3>2. \A j \in Jobs \ S : job'[j].status = job[j].status
            BY <1>5 DEF Closed
        <3>. QED BY <1>2, <3>1, <3>2
    <2>. QED BY <2>1, <2>2 DEF Ticket!Close
<1>. QED BY <1>3, <1>4, <1>5 DEF StatusStep, Ticket!Next

\* With max_attempts = 1 the jobs table implements one-shot tickets.
THEOREM TableImplementsOneShot ==
    ASSUME MaxAttempts = 1
    PROVE  Spec => ImplementsOneShot
<1>1. Init => Ticket!Init
    BY DEF Init, Ticket!Init, phases, Phase, Blank
<1>2. TypeOK /\ TypeOK' /\ OnceInv /\ [Next]_vars => [Ticket!Next]_phases
    <2>1. UNCHANGED vars => UNCHANGED phases
        BY DEF vars, phases
    <2>2. TypeOK /\ TypeOK' /\ OnceInv /\ Next => [Ticket!Next]_phases
        BY OnceStatusStep, StatusStepIsTicketStep
    <2>. QED BY <2>1, <2>2
<1>. QED BY <1>1, <1>2, TypeCorrect, OnceInvariant, PTL DEF Spec, ImplementsOneShot, Ticket!Spec

----------------------------------------------------------------------------
(* What is written, whatever max_attempts: results come before success. *)

\* An attempt persists its results at most once, whatever runs beside it.
THEOREM PersistsOnce == Spec => []PersistOncePerAttempt
<1>. QED BY Fencing, PTL

\* What one step makes of one row of the jobs table.
RowStep(j) ==
    \/ job'[j] = job[j]
    \/ \E r \in Requests : /\ EnqueueInsert(r) /\ job[j].status = "absent"
                           /\ job'[j] = [job[j] EXCEPT !.status = "queued", !.client = rq[r].client]
    \/ \E b \in BOOLEAN : job'[j] = CancelAsked(job[j], b)
    \/ \E p \in Procs : job'[j] = Claimed(job[j], p)
    \/ \E b \in BOOLEAN : job'[j] = Orphaned(job[j], b)
    \/ job'[j] = [job[j] EXCEPT !.status = "timed_out", !.error = "timeout"]
    \/ job'[j] = [job[j] EXCEPT !.status = "failed", !.error = "no_handler"]
    \/ \E b \in BOOLEAN : job'[j] = [job[j] EXCEPT !.stale = b]
    \/ job'[j] = [job[j] EXCEPT !.overdue = TRUE]
    \/ \E w \in Workers : /\ Record(w) /\ cur[w] = j /\ pc[w] \in Recording
                          /\ job'[j] = Verdict(job[j], pc[w], loaded[w])

\* Every step of the queue is such a step of every row.
LEMMA RowSteps ==
    ASSUME TypeOK, Next, NEW j \in Jobs
    PROVE  RowStep(j)
<1>. USE JobQueueAssumption
<1>0. DOMAIN job = Jobs
    BY DEF TypeOK
<1>1. ASSUME NEW r \in Requests, Api(r) PROVE RowStep(j)
    <2>1. CASE EnqueueInsert(r)
        <3>1. PICK k \in Jobs :
                /\ job[k].status = "absent"
                /\ job' = [job EXCEPT ![k] = [@ EXCEPT !.status = "queued", !.client = rq[r].client]]
            BY <2>1 DEF EnqueueInsert
        <3>2. CASE j = k
            <4>1. job'[j] = [job[j] EXCEPT !.status = "queued", !.client = rq[r].client]
                BY <1>0, <3>1, <3>2
            <4>. QED BY <2>1, <3>1, <3>2, <4>1 DEF RowStep
        <3>3. CASE j # k
            <4>1. job'[j] = job[j]
                BY <1>0, <3>1, <3>3
            <4>. QED BY <4>1 DEF RowStep
        <3>. QED BY <3>2, <3>3
    <2>2. CASE RequestCancel(r)
        <3>1. rq[r].queued \in BOOLEAN
            BY DEF TypeOK, Request
        <3>2. job'[j] = job[j] \/ job'[j] = CancelAsked(job[j], rq[r].queued)
            BY <2>2 DEF RequestCancel, TypeOK
        <3>. QED BY <3>1, <3>2 DEF RowStep
    <2>3. CASE (\E c \in Clients : EnqueueCheck(r, c)) \/ (\E k \in Jobs : CancelRead(r, k))
        BY <2>3 DEF EnqueueCheck, CancelRead, RowStep
    <2>. QED BY <1>1, <2>1, <2>2, <2>3 DEF Api
<1>2. ASSUME NEW w \in Workers, Thread(w) PROVE RowStep(j)
    <2>1. CASE \/ ClaimSelect(w) \/ ClaimNothing(w) \/ Finish(w) \/ Raised(w) \/ ThreadStops(w)
               \/ \E k \in Jobs : ClaimLost(w, k)
        BY <2>1 DEF RowStep, ClaimSelect, ClaimNothing, Finish, Raised, ThreadStops, ClaimLost
    <2>2. ASSUME NEW k \in Jobs, ClaimWon(w, k) PROVE RowStep(j)
        <3>1. job'[j] = job[j] \/ job'[j] = Claimed(job[j], ProcOf[w])
            BY <2>2 DEF TypeOK, ClaimWon
        <3>. QED BY <3>1 DEF RowStep
    <2>3. CASE NoHandler(w)
        <3>1. job' = [job EXCEPT ![cur[w]] = [@ EXCEPT !.status = "failed", !.error = "no_handler"]]
            BY <2>3 DEF NoHandler
        <3>2. \/ job'[j] = job[j]
              \/ job'[j] = [job[j] EXCEPT !.status = "failed", !.error = "no_handler"]
            BY <1>0, <3>1
        <3>. QED BY <3>2 DEF RowStep
    <2>4. CASE StartHandler(w) \/ Analysed(w) \/ HeartbeatTick(w)
        <3>1. job' = [job EXCEPT ![cur[w]].stale = FALSE]
            BY <2>4 DEF StartHandler, Analysed, HeartbeatTick
        <3>2. job'[j] = job[j] \/ job'[j] = [job[j] EXCEPT !.stale = FALSE]
            BY <1>0, <3>1
        <3>. QED BY <3>2 DEF RowStep
    <2>5. CASE Record(w)
        <3>1. job' = [job EXCEPT ![cur[w]] = Verdict(@, pc[w], loaded[w])] /\ pc[w] \in Recording
            BY <2>5 DEF Record
        <3>2. CASE cur[w] = j
            <4>1. job'[j] = Verdict(job[j], pc[w], loaded[w])
                BY <1>0, <3>1, <3>2
            <4>. QED BY <2>5, <3>1, <3>2, <4>1 DEF RowStep
        <3>3. CASE cur[w] # j
            <4>1. job'[j] = job[j]
                BY <1>0, <3>1, <3>3
            <4>. QED BY <4>1 DEF RowStep
        <3>. QED BY <3>2, <3>3
    <2>. QED BY <1>2, <2>1, <2>2, <2>3, <2>4, <2>5 DEF Thread
<1>3. ASSUME NEW w \in Workers, Fault(w) PROVE RowStep(j)
    BY <1>3 DEF RowStep, Fault, HandlerRaises, HandlerHangs, RecordRaises, Abandon
<1>4. ASSUME NEW s \in Sessions, Sweep(s) \/ SweepFails(s) PROVE RowStep(j)
    <2>1. CASE SelectOrphans(s) \/ SelectStuck(s) \/ SweepFails(s)
        BY <2>1 DEF RowStep, SelectOrphans, SelectStuck, SweepFails
    <2>2. CASE CommitOrphans(s)
        <3>1. job'[j] = job[j] \/ job'[j] = Orphaned(job[j], j \in retry[s])
            BY <2>2 DEF CommitOrphans
        <3>2. (j \in retry[s]) \in BOOLEAN
            OBVIOUS
        <3>. QED BY <3>1, <3>2, Zenon DEF RowStep
    <2>3. CASE CommitStuck(s)
        BY <2>3 DEF CommitStuck, RowStep
    <2>. QED BY <1>4, <2>1, <2>2, <2>3 DEF Sweep
<1>5. ASSUME NEW p \in Procs, Process(p) PROVE RowStep(j)
    BY <1>5 DEF RowStep, Process, StartProcess, Sigterm, Exit, Crash
<1>6. ASSUME NEW k \in Jobs, GoStale(k) \/ GoOverdue(k) PROVE RowStep(j)
    <2>1. CASE GoStale(k)
        <3>1. job'[j] = job[j] \/ job'[j] = [job[j] EXCEPT !.stale = TRUE]
            BY <1>0, <2>1 DEF GoStale
        <3>. QED BY <3>1 DEF RowStep
    <2>2. CASE GoOverdue(k)
        <3>1. job'[j] = job[j] \/ job'[j] = [job[j] EXCEPT !.overdue = TRUE]
            BY <1>0, <2>2 DEF GoOverdue
        <3>. QED BY <3>1 DEF RowStep
    <2>. QED BY <1>6, <2>1, <2>2
<1>. QED BY <1>1, <1>2, <1>3, <1>4, <1>5, <1>6 DEF Next

\* Only the verdict of a thread whose handler returned reports success.
LEMMA OnlyVerdictSucceeds ==
    ASSUME TypeOK, Next, NEW j \in Jobs,
           job'[j].status = "succeeded", job[j].status # "succeeded"
    PROVE  \E w \in Workers : Record(w) /\ cur[w] = j /\ pc[w] = "record_succeeded"
<1>1. job[j] \in Row
    BY DEF TypeOK
<1>2. RowStep(j)
    BY RowSteps
<1>3. /\ \A c : [job[j] EXCEPT !.status = "queued", !.client = c].status = "queued"
      /\ \A b : CancelAsked(job[j], b).status \in {job[j].status, "cancelled"}
      /\ \A p : Claimed(job[j], p).status = "running"
      /\ [job[j] EXCEPT !.status = "timed_out", !.error = "timeout"].status = "timed_out"
      /\ [job[j] EXCEPT !.status = "failed", !.error = "no_handler"].status = "failed"
      /\ \A b : [job[j] EXCEPT !.stale = b].status = job[j].status
      /\ [job[j] EXCEPT !.overdue = TRUE].status = job[j].status
    BY <1>1, EditsOfStatus, Zenon
<1>4. \A b : Orphaned(job[j], b).status \in {"queued", "failed"}
    BY <1>1 DEF Row, Orphaned
<1>5. PICK w \in Workers : /\ Record(w) /\ cur[w] = j /\ pc[w] \in Recording
                           /\ job'[j] = Verdict(job[j], pc[w], loaded[w])
    <2>1. job'[j].status \notin {job[j].status, "queued", "running", "cancelled", "failed", "timed_out"}
        OBVIOUS
    <2>2. job'[j] # job[j]
        BY <2>1
    <2>3. \A r \in Requests : job'[j] # [job[j] EXCEPT !.status = "queued", !.client = rq[r].client]
        BY <1>3, <2>1, Zenon
    <2>4. \A b \in BOOLEAN : job'[j] # CancelAsked(job[j], b)
        BY <1>3, <2>1
    <2>5. \A p \in Procs : job'[j] # Claimed(job[j], p)
        BY <1>3, <2>1
    <2>6. \A b \in BOOLEAN : job'[j] # Orphaned(job[j], b)
        BY <1>4, <2>1
    <2>7. /\ job'[j] # [job[j] EXCEPT !.status = "timed_out", !.error = "timeout"]
          /\ job'[j] # [job[j] EXCEPT !.status = "failed", !.error = "no_handler"]
          /\ job'[j] # [job[j] EXCEPT !.overdue = TRUE]
        BY <1>3, <2>1
    <2>8. ASSUME NEW b \in BOOLEAN, job'[j] = [job[j] EXCEPT !.stale = b] PROVE FALSE
        <3>1. [job[j] EXCEPT !.stale = b].status = job[j].status
            BY <1>1 DEF Row
        <3>. QED BY <2>1, <2>8, <3>1
    <2>. QED BY <1>2, <2>2, <2>3, <2>4, <2>5, <2>6, <2>7, <2>8, Zenon DEF RowStep
<1>6. pc[w] = "record_succeeded"
    BY <1>1, <1>5 DEF Row, Verdict, VerdictStatus
<1>. QED BY <1>5, <1>6

\* A thread that is about to report success has persisted, and so has one that
\* reported it.
Returned == {"finish", "record_succeeded", "record_cancelled"}

DeliveryInv ==
    /\ SucceededMeansPersisted
    /\ \A w \in Workers : pc[w] \in Returned => persisted[cur[w]] # {}

\* A thread gets there by persisting, keeps its job, and what is persisted stays.
LEMMA ReturnedByPersisting ==
    ASSUME TypeOK, Next, NEW w \in Workers, pc'[w] \in Returned
    PROVE  /\ cur'[w] = cur[w] /\ cur[w] \in Jobs
           /\ pc[w] \in Returned \/ persisted' = [persisted EXCEPT ![cur[w]] = @ \cup {token[w]}]
<1>. USE JobQueueAssumption DEF Returned
<1>. DEFINE Goal == /\ cur'[w] = cur[w] /\ cur[w] \in Jobs
                    /\ pc[w] \in Returned \/ persisted' = [persisted EXCEPT ![cur[w]] = @ \cup {token[w]}]
<1>0. pc[w] \in Returned => cur[w] \in Jobs
    BY DEF TypeOK
<1>1. ASSUME NEW v \in Workers, Thread(v) PROVE Goal
    <2>1. CASE Analysed(v)
        BY <2>1, <1>0 DEF TypeOK, Analysed
    <2>2. CASE Finish(v) \/ Raised(v) \/ StartHandler(v) \/ HeartbeatTick(v)
        BY <2>2, <1>0 DEF TypeOK, Finish, Raised, StartHandler, HeartbeatTick
    <2>3. CASE NoHandler(v) \/ Record(v)
        BY <2>3, <1>0 DEF TypeOK, NoHandler, Record, Release
    <2>4. CASE ClaimSelect(v) \/ ClaimNothing(v) \/ ThreadStops(v)
        BY <2>4, <1>0 DEF TypeOK, ClaimSelect, ClaimNothing, ThreadStops
    <2>5. ASSUME NEW j \in Jobs, ClaimWon(v, j) \/ ClaimLost(v, j) PROVE Goal
        BY <2>5, <1>0 DEF TypeOK, ClaimWon, ClaimLost
    <2>. QED BY <1>1, <2>1, <2>2, <2>3, <2>4, <2>5 DEF Thread
<1>2. ASSUME NEW v \in Workers, Fault(v) PROVE Goal
    BY <1>0, <1>2 DEF TypeOK, Fault, HandlerRaises, HandlerHangs, RecordRaises, Abandon, Release
<1>3. ASSUME NEW s \in Sessions, Sweep(s) \/ SweepFails(s) PROVE Goal
    <2>1. CASE SelectOrphans(s) \/ CommitOrphans(s) \/ SweepFails(s)
        BY <1>0, <2>1 DEF TypeOK, SelectOrphans, CommitOrphans, SweepFails
    <2>2. CASE SelectStuck(s) \/ CommitStuck(s)
        <3>1. cur' = cur /\ pc'[w] \in {pc[w], "stuck_commit", AfterSweep(s)[w]}
            <4>1. CASE SelectStuck(s)
                <5>1. pc' = AfterSweep(s) \/ pc' = [pc EXCEPT ![s] = "stuck_commit"]
                    BY <4>1 DEF SelectStuck
                <5>2. [pc EXCEPT ![s] = "stuck_commit"][w] \in {pc[w], "stuck_commit"}
                    BY DEF TypeOK
                <5>. QED BY <4>1, <5>1, <5>2 DEF SelectStuck
            <4>2. CASE CommitStuck(s)
                BY <4>2 DEF CommitStuck
            <4>. QED BY <2>2, <4>1, <4>2
        <3>2. AfterSweep(s)[w] \in {pc[w], "up", "poll"}
            BY DEF AfterSweep
        <3>3. pc[w] \in Returned
            BY <3>1, <3>2
        <3>. QED BY <1>0, <3>1, <3>3
    <2>. QED BY <1>3, <2>1, <2>2 DEF Sweep
<1>4. ASSUME NEW p \in Procs, Process(p) PROVE Goal
    <2>1. CASE StartProcess(p) \/ Sigterm(p)
        BY <1>0, <2>1 DEF TypeOK, StartProcess, Sigterm
    <2>2. CASE Gone(p)
        BY <1>0, <2>2 DEF TypeOK, Gone
    <2>. QED BY <1>4, <2>1, <2>2 DEF Process, Exit, Crash
<1>5. ASSUME \/ \E r \in Requests : Api(r)
             \/ \E j \in Jobs : GoStale(j) \/ GoOverdue(j)
      PROVE  Goal
    BY <1>0, <1>5 DEF Api, EnqueueCheck, EnqueueInsert, CancelRead, RequestCancel, GoStale, GoOverdue
<1>. QED BY <1>1, <1>2, <1>3, <1>4, <1>5 DEF Next

\* No step takes persisted results away.
LEMMA ResultsStay ==
    ASSUME TypeOK, Next, NEW j \in Jobs
    PROVE  persisted[j] \subseteq persisted'[j]
<1>1. CASE Keeps
    BY <1>1 DEF TypeOK, Keeps
<1>2. CASE \E w \in Workers, k \in Jobs : ClaimWon(w, k)
    BY <1>2 DEF ClaimWon
<1>. QED BY <1>1, <1>2, StepKeeps

\* JobWorker._run, for any max_attempts: a job that reads "succeeded" has
\* persisted results, whatever sweeps, late verdicts and faults happened.
THEOREM SuccessHasResults == Spec => []SucceededMeansPersisted
<1>1. Init => DeliveryInv
    BY JobQueueAssumption DEF Init, DeliveryInv, SucceededMeansPersisted, Blank, Returned
<1>2. TypeOK /\ DeliveryInv /\ [Next]_vars => DeliveryInv'
    <2>. SUFFICES ASSUME TypeOK, DeliveryInv, [Next]_vars PROVE DeliveryInv'
        OBVIOUS
    <2>1. CASE UNCHANGED vars
        BY <2>1 DEF DeliveryInv, SucceededMeansPersisted, vars
    <2>2. CASE Next
        <3>1. ASSUME NEW j \in Jobs, job'[j].status = "succeeded" PROVE persisted'[j] # {}
            <4>1. persisted[j] # {}
                BY <2>2, <3>1, OnlyVerdictSucceeds DEF DeliveryInv, SucceededMeansPersisted, Returned
            <4>. QED BY <2>2, <4>1, ResultsStay
        <3>2. ASSUME NEW w \in Workers, pc'[w] \in Returned PROVE persisted'[cur'[w]] # {}
            <4>1. /\ cur'[w] = cur[w] /\ cur[w] \in Jobs
                  /\ pc[w] \in Returned \/ persisted' = [persisted EXCEPT ![cur[w]] = @ \cup {token[w]}]
                BY <2>2, <3>2, ReturnedByPersisting
            <4>2. CASE pc[w] \in Returned
                BY <2>2, <4>1, <4>2, ResultsStay DEF DeliveryInv
            <4>3. CASE pc[w] \notin Returned
                <5>1. persisted' = [persisted EXCEPT ![cur[w]] = @ \cup {token[w]}]
                    BY <4>1, <4>3
                <5>2. persisted'[cur[w]] = persisted[cur[w]] \cup {token[w]}
                    BY <4>1, <5>1 DEF TypeOK
                <5>. QED BY <4>1, <5>2
            <4>. QED BY <4>2, <4>3
        <3>. QED BY <3>1, <3>2 DEF DeliveryInv, SucceededMeansPersisted
    <2>. QED BY <2>1, <2>2
<1>. QED BY <1>1, <1>2, TypeCorrect, PTL DEF Spec, DeliveryInv

----------------------------------------------------------------------------
(* max_attempts = 1, and requests that come one after another: the dedupe. *)

\* enqueue's dedupe, and what a request that passed it has seen.
DedupeInv ==
    /\ OneActiveRowPerClient
    /\ \A r \in Requests : rq[r].op = "enqueue" => ~ActiveJobOf(rq[r].client)

\* Only the INSERT gives a row its client.
LEMMA ClientStays ==
    ASSUME TypeOK, Next, NEW j \in Jobs, job'[j].client # job[j].client
    PROVE  \E r \in Requests : EnqueueInsert(r) /\ job'[j].client = rq[r].client
<1>1. job[j] \in Row
    BY DEF TypeOK
<1>2. RowStep(j)
    BY RowSteps
<1>3. \A c : [job[j] EXCEPT !.status = "queued", !.client = c].client = c
    BY <1>1 DEF Row
<1>4. /\ \A b : CancelAsked(job[j], b).client = job[j].client
      /\ \A p : Claimed(job[j], p).client = job[j].client
      /\ \A b : Orphaned(job[j], b).client = job[j].client
      /\ [job[j] EXCEPT !.status = "timed_out", !.error = "timeout"].client = job[j].client
      /\ [job[j] EXCEPT !.status = "failed", !.error = "no_handler"].client = job[j].client
      /\ \A b : [job[j] EXCEPT !.stale = b].client = job[j].client
      /\ [job[j] EXCEPT !.overdue = TRUE].client = job[j].client
      /\ \A how, was : Verdict(job[j], how, was).client = job[j].client
    BY <1>1 DEF Row, CancelAsked, Claimed, Orphaned, Verdict
<1>5. CASE \E r \in Requests : EnqueueInsert(r) /\ job'[j] = [job[j] EXCEPT !.status = "queued", !.client = rq[r].client]
    <2>1. PICK r \in Requests : EnqueueInsert(r) /\ job'[j] = [job[j] EXCEPT !.status = "queued", !.client = rq[r].client]
        BY <1>5
    <2>2. [job[j] EXCEPT !.status = "queued", !.client = rq[r].client].client = rq[r].client
        BY <1>3
    <2>3. job'[j].client = rq[r].client
        BY <2>1, <2>2
    <2>. QED BY <2>1, <2>3
<1>6. CASE \/ job'[j] = job[j]
           \/ \E b \in BOOLEAN : job'[j] = CancelAsked(job[j], b)
           \/ \E p \in Procs : job'[j] = Claimed(job[j], p)
           \/ \E b \in BOOLEAN : job'[j] = Orphaned(job[j], b)
    <2>1. ASSUME NEW b \in BOOLEAN, job'[j] = CancelAsked(job[j], b) PROVE FALSE
        <3>1. CancelAsked(job[j], b).client = job[j].client
            BY <1>1 DEF Row, CancelAsked
        <3>. QED BY <2>1, <3>1
    <2>2. ASSUME NEW p \in Procs, job'[j] = Claimed(job[j], p) PROVE FALSE
        <3>1. Claimed(job[j], p).client = job[j].client
            BY <1>1 DEF Row, Claimed
        <3>. QED BY <2>2, <3>1
    <2>3. ASSUME NEW b \in BOOLEAN, job'[j] = Orphaned(job[j], b) PROVE FALSE
        <3>1. Orphaned(job[j], b).client = job[j].client
            BY <1>1 DEF Row, Orphaned
        <3>. QED BY <2>3, <3>1
    <2>4. job'[j] # job[j]
        OBVIOUS
    <2>. QED BY <1>6, <2>1, <2>2, <2>3, <2>4, Zenon
<1>7. CASE \/ job'[j] = [job[j] EXCEPT !.status = "timed_out", !.error = "timeout"]
           \/ job'[j] = [job[j] EXCEPT !.status = "failed", !.error = "no_handler"]
           \/ \E b \in BOOLEAN : job'[j] = [job[j] EXCEPT !.stale = b]
           \/ job'[j] = [job[j] EXCEPT !.overdue = TRUE]
           \/ \E w \in Workers : job'[j] = Verdict(job[j], pc[w], loaded[w])
    <2>1. ASSUME NEW b \in BOOLEAN, job'[j] = [job[j] EXCEPT !.stale = b] PROVE FALSE
        <3>1. [job[j] EXCEPT !.stale = b].client = job[j].client
            BY <1>1 DEF Row
        <3>. QED BY <2>1, <3>1
    <2>2. ASSUME NEW w \in Workers, job'[j] = Verdict(job[j], pc[w], loaded[w]) PROVE FALSE
        <3>1. Verdict(job[j], pc[w], loaded[w]).client = job[j].client
            BY <1>1 DEF Row, Verdict
        <3>. QED BY <2>2, <3>1
    <2>. QED BY <1>4, <1>7, <2>1, <2>2
<1>. QED BY <1>2, <1>5, <1>6, <1>7, Zenon DEF RowStep

\* A request that is about to INSERT was so already, or has just looked.
LEMMA RequestLooked ==
    ASSUME TypeOK, Next, NEW r \in Requests, rq'[r].op = "enqueue"
    PROVE  \/ rq'[r] = rq[r] /\ \A q \in Requests : EnqueueInsert(q) => q # r
           \/ \E c \in Clients : EnqueueCheck(r, c) /\ rq'[r].client = c
<1>. DEFINE Goal == \/ rq'[r] = rq[r] /\ \A q \in Requests : EnqueueInsert(q) => q # r
                    \/ \E c \in Clients : EnqueueCheck(r, c) /\ rq'[r].client = c
<1>1. \A q \in Requests : EnqueueInsert(q) => q # r
    BY DEF EnqueueInsert, TypeOK, Idle
<1>2. ASSUME NEW q \in Requests, Api(q) PROVE Goal
    <2>1. CASE EnqueueInsert(q) \/ RequestCancel(q)
        <3>1. rq' = [rq EXCEPT ![q] = Idle]
            BY <2>1 DEF EnqueueInsert, RequestCancel
        <3>2. q # r
            BY <3>1 DEF TypeOK, Idle
        <3>. QED BY <1>1, <3>1, <3>2 DEF TypeOK
    <2>2. ASSUME NEW c \in Clients, EnqueueCheck(q, c) PROVE Goal
        <3>1. rq' = [rq EXCEPT ![q] = [Idle EXCEPT !.op = "enqueue", !.client = c]]
            BY <2>2 DEF EnqueueCheck
        <3>2. CASE q = r
            BY <2>2, <3>1, <3>2 DEF TypeOK, Idle
        <3>3. CASE q # r
            BY <1>1, <3>1, <3>3 DEF TypeOK
        <3>. QED BY <3>2, <3>3
    <2>3. ASSUME NEW j \in Jobs, CancelRead(q, j) PROVE Goal
        BY <1>1, <2>3 DEF CancelRead, TypeOK, Idle
    <2>. QED BY <1>2, <2>1, <2>2, <2>3 DEF Api
<1>3. rq' = rq => Goal
    BY <1>1
<1>4. ASSUME NEW w \in Workers, Thread(w) \/ Fault(w) PROVE rq' = rq
    BY <1>4 DEF Thread, Fault, ClaimSelect, ClaimNothing, ClaimWon, ClaimLost, NoHandler,
                StartHandler, Analysed, Finish, Raised, Record, HeartbeatTick, ThreadStops,
                HandlerRaises, HandlerHangs, RecordRaises, Abandon
<1>5. ASSUME \/ \E s \in Sessions : Sweep(s) \/ SweepFails(s)
             \/ \E p \in Procs : Process(p)
             \/ \E j \in Jobs : GoStale(j) \/ GoOverdue(j)
      PROVE  rq' = rq
    BY <1>5 DEF Sweep, SelectOrphans, CommitOrphans, SelectStuck, CommitStuck, SweepFails,
                Process, StartProcess, Sigterm, Exit, Crash, GoStale, GoOverdue
<1>. QED BY <1>2, <1>3, <1>4, <1>5 DEF Next

\* Only the INSERT makes a row active that was not.
LEMMA ActiveRowsShrink ==
    ASSUME MaxAttempts = 1, TypeOK, OnceInv, Next, \A r \in Requests : ~EnqueueInsert(r),
           NEW j \in Jobs, job'[j].status \in Active
    PROVE  job[j].status \in Active /\ job'[j].client = job[j].client
<1>1. (\E k \in Jobs : Taken(k)) \/ Closed
    BY OnceStatusStep DEF StatusStep, Issued
<1>2. job[j].status \in Active
    BY <1>1 DEF Taken, Closed
<1>. QED BY <1>2, ClientStays

\* enqueue's dedupe holds as long as the requests come one after another: a
\* client has at most one row that is queued or running, whatever threads,
\* sweeps, cancellations and crashes do in between.
THEOREM OneActivePerClient ==
    ASSUME MaxAttempts = 1, \A q, r \in Requests : q = r
    PROVE  Spec => []OneActiveRowPerClient
<1>1. Init => DedupeInv
    BY DEF Init, DedupeInv, OneActiveRowPerClient, Blank, Idle
<1>2. TypeOK /\ OnceInv /\ DedupeInv /\ [Next]_vars => DedupeInv'
    <2>. SUFFICES ASSUME TypeOK, OnceInv, DedupeInv, [Next]_vars PROVE DedupeInv'
        OBVIOUS
    <2>1. CASE UNCHANGED vars
        BY <2>1 DEF DedupeInv, OneActiveRowPerClient, ActiveJobOf, vars
    <2>2. ASSUME NEW r \in Requests, EnqueueInsert(r) PROVE DedupeInv'
        <3>1. PICK k \in Jobs :
                /\ job[k].status = "absent"
                /\ job' = [job EXCEPT ![k] = [@ EXCEPT !.status = "queued", !.client = rq[r].client]]
            BY <2>2 DEF EnqueueInsert
        <3>2. job[k] \in Row
            BY DEF TypeOK
        <3>3. job'[k].client = rq[r].client
            BY <3>1, <3>2 DEF TypeOK, Row
        <3>4. \A j \in Jobs : j # k => job'[j] = job[j]
            BY <3>1 DEF TypeOK
        <3>5. ~ActiveJobOf(rq[r].client)
            BY <2>2 DEF DedupeInv, EnqueueInsert
        <3>6. OneActiveRowPerClient'
            BY <3>3, <3>4, <3>5 DEF OneActiveRowPerClient, ActiveJobOf, DedupeInv
        <3>7. \A q \in Requests : rq'[q] = Idle
            BY <2>2 DEF EnqueueInsert, TypeOK
        <3>. QED BY <3>6, <3>7 DEF DedupeInv, Idle
    <2>3. ASSUME Next, \A r \in Requests : ~EnqueueInsert(r) PROVE DedupeInv'
        <3>1. \A j \in Jobs : job'[j].status \in Active
                    => job[j].status \in Active /\ job'[j].client = job[j].client
            BY <2>3, ActiveRowsShrink
        <3>2. OneActiveRowPerClient'
            BY <3>1 DEF OneActiveRowPerClient, DedupeInv
        <3>3. ASSUME NEW r \in Requests, rq'[r].op = "enqueue" PROVE ~ActiveJobOf(rq[r].client)'
            <4>1. CASE rq'[r] = rq[r]
                BY <3>1, <3>3, <4>1 DEF ActiveJobOf, DedupeInv
            <4>2. ASSUME NEW c \in Clients, EnqueueCheck(r, c), rq'[r].client = c
                  PROVE  ~ActiveJobOf(rq[r].client)'
                BY <4>2 DEF EnqueueCheck, ActiveJobOf
            <4>. QED BY <2>3, <3>3, <4>1, <4>2, RequestLooked
        <3>. QED BY <3>2, <3>3 DEF DedupeInv
    <2>. QED BY <2>1, <2>2, <2>3
<1>. QED BY <1>1, <1>2, TypeCorrect, OnceInvariant, PTL DEF Spec, DedupeInv
=============================================================================
