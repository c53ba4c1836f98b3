----------------------------- MODULE MCJobQueue -----------------------------
(* Small instances of the job queue. *)
EXTENDS JobQueue, TLC

CONSTANTS p1, p2, w1, w2

\* JOB_WORKER_COUNT = 2 threads in one process
OnePool == w1 :> p1 @@ w2 :> p1

\* one thread in each of two processes
TwoPools == w1 :> p1 @@ w2 :> p2
=============================================================================
