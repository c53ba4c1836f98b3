------------------------------- MODULE MCOffice -------------------------------
(***************************************************************************)
(* The services around the analysis, on small instances: signing in, API   *)
(* keys, request limits, the policy and the record of a client, its        *)
(* valuations and what became of its recommendations.                      *)
(*                                                                         *)
(* These parts share no state, so a step of one commutes with a step of    *)
(* any other.  A behaviour exercises one of them, which it draws at the    *)
(* start; every interleaving within a part is explored, and the product of *)
(* the parts, which would show nothing more, is not.  The valuations are   *)
(* followed until a capture is crossed, for nothing is claimed from then   *)
(* on, and beyond it only where they are the one part of a run.            *)
(***************************************************************************)
EXTENDS Login, ApiKeys, RateLimit, PolicyVersions, ClientRecord, Performance, TLC

CONSTANTS Parts, r1, r2, caller, other, login, run, advisor, officer, chief, horizon, reserve, reaction

VARIABLE part

vars == <<part, loginVars, keyVars, rateVars, policyVars, clientVars, valueVars, outcomeVars>>

Init ==
    /\ part \in Parts
    /\ LoginInit /\ KeyInit /\ RateInit /\ PolicyInit
    /\ IF part = "client" THEN ClientInit
       ELSE /\ client = [status |-> "active", tier |-> 1, horizon |-> 2, age |-> None]
            /\ days = 0 /\ sheet = [q \in Questions |-> None]
            /\ clientRequest = [r \in ClientRequests |-> None] /\ assessed = FALSE
    /\ IF part = "value" THEN ValueInit ELSE Opening([d \in Days |-> 1])
    /\ IF part = "outcome" THEN OutcomeInit ELSE Unopened([d \in Calendar |-> 1])

Next ==
    /\ UNCHANGED part
    /\ \/ part = "login" /\ LoginNext /\ UNCHANGED <<keyVars, rateVars, policyVars, clientVars, valueVars, outcomeVars>>
       \/ part = "keys" /\ KeysNext /\ UNCHANGED <<loginVars, rateVars, policyVars, clientVars, valueVars, outcomeVars>>
       \/ part = "rate" /\ RateNext /\ UNCHANGED <<loginVars, keyVars, policyVars, clientVars, valueVars, outcomeVars>>
       \/ part = "policy" /\ PolicyNext /\ UNCHANGED <<loginVars, keyVars, rateVars, clientVars, valueVars, outcomeVars>>
       \/ part = "client" /\ ClientNext /\ UNCHANGED <<loginVars, keyVars, rateVars, policyVars, valueVars, outcomeVars>>
       \/ part = "value" /\ (~crossed \/ Parts = {"value"}) /\ ValueNext /\ UNCHANGED <<loginVars, keyVars, rateVars, policyVars, clientVars, outcomeVars>>
       \/ part = "outcome" /\ OutcomeNext /\ UNCHANGED <<loginVars, keyVars, rateVars, policyVars, clientVars, valueVars>>

Spec == Init /\ [][Next]_vars

----------------------------------------------------------------------------
Alike == Permutations({r1, r2})
Limit == (caller :> 2) @@ (other :> 1) @@ (login :> 1) @@ (run :> 2)
Window == (caller :> 1) @@ (other :> 1) @@ (login :> 2) @@ (run :> 3)
Role == [u \in Users |-> IF u = advisor THEN "advisor" ELSE "compliance"]
NoPolicy == [min_cash |-> 0, max_cash |-> 2]
\* Two answers to every question, for longer questionnaires than Points serves.
TwoAnswers == [q \in Questions |-> {0, 4}]
Points == (horizon :> {3, 4}) @@ (reserve :> {0, 2, 4}) @@ (reaction :> {0, 4})
\* risk_profile.py:80, of the question about when the money is needed: "A short
\* horizon caps risk regardless of preference".
HorizonAnswerCapsRisk == HorizonAnswerCaps(horizon)
===============================================================================
