---------------------------- MODULE MCAuditChain ----------------------------
(* Instances of AuditChain for TLC.                                        *)
EXTENDS AuditChain

CONSTANTS s1, s2, p1, p2

\* All sessions in one process.
OneProcess == [s \in Sessions |-> p1]

\* The API process and a worker process.
TwoProcesses == [s \in Sessions |-> IF s = s1 THEN p1 ELSE p2]
=============================================================================
