--------------------------- MODULE OneShotTicket ---------------------------
(***************************************************************************)
(* What a jobs table whose rows are tried once promises: a ticket is       *)
(* issued once, is taken at most once, and is closed for good, whether it  *)
(* was taken or not.  One write of a sweep may close several.              *)
(***************************************************************************)
CONSTANT Tickets

VARIABLE phase   \* of every ticket: "none", "waiting", "taken" or "closed"

Init == phase = [t \in Tickets |-> "none"]

Issue(t) == phase[t] = "none" /\ phase' = [phase EXCEPT ![t] = "waiting"]

Take(t) == phase[t] = "waiting" /\ phase' = [phase EXCEPT ![t] = "taken"]

Close(S) ==
    /\ \A t \in S : phase[t] # "none"
    /\ phase' = [t \in Tickets |-> IF t \in S THEN "closed" ELSE phase[t]]

Next ==
    \/ \E t \in Tickets : Issue(t) \/ Take(t)
    \/ \E S \in SUBSET Tickets : Close(S)

Spec == Init /\ [][Next]_phase
=============================================================================
