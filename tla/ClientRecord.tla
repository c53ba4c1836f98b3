---------------------------- MODULE ClientRecord ----------------------------
(***************************************************************************)
(* The record of a client: the tier that a scored questionnaire gives it   *)
(* (services/risk_profile.py), the facts that cap the tier, edits of both, *)
(* archiving and purging (server.py).  A request loads the record, works,  *)
(* and commits later.                                                      *)
(*                                                                         *)
(* Tiers are 1..3 for Conservative, Moderate and Aggressive.  Answers are  *)
(* the points of the option chosen.  A new sheet differs from the last one *)
(* in one answer, which reaches every sheet there is.                      *)
(***************************************************************************)
EXTENDS Integers, FiniteSets, Functions, FiniteSetsExt, Rows

CONSTANTS
    Capacity, Tolerance,     \* the questions of each dimension
    Options,                 \* of a question: the points of its options
    Horizons, Ages,          \* what may be recorded of a client
    ClientRequests,
    CLIENT_RETENTION_DAYS

Questions == Capacity \cup Tolerance
Tiers == 1..3

ASSUME ClientAssumption ==
    /\ IsFiniteSet(Questions) /\ Capacity \cap Tolerance = {} /\ CLIENT_RETENTION_DAYS \in Nat
    /\ \A q \in Questions :
        IsFiniteSet(Options[q]) /\ Options[q] \subseteq Nat /\ \E p \in Options[q] : p > 0
    /\ Horizons \subseteq Nat /\ Ages \ {None} \subseteq Nat /\ None \notin Nat

VARIABLES
    client,         \* [status, tier, horizon, age]
    days,           \* since it was archived
    sheet,          \* the answers of the last assessment, None where there is none
    clientRequest,  \* of each request: None, or what it does and what it loaded
    assessed        \* the last assessment stands: nothing edited tier or facts since

clientVars == <<client, days, sheet, clientRequest, assessed>>

Least3(S) == CHOOSE a \in S : \A b \in S : a <= b
Most3(S) == CHOOSE a \in S : \A b \in S : a >= b

----------------------------------------------------------------------------
(* The questionnaire *)

\* Mutant: an answer worth no points is taken for no answer.
Answered_Truthy(answers, dimension) == {q \in dimension : answers[q] \notin {None, 0}}

Answered(answers, dimension) == {q \in dimension : answers[q] # None}
Earned(answers, dimension) == SumFunctionOnSet(answers, Answered(answers, dimension))
Possible(answers, dimension) == SumFunctionOnSet([q \in Questions |-> Most3(Options[q])], Answered(answers, dimension))

\* Unanswered questions leave the score; a dimension without any scores 0.
_tier_from_score(earned, possible) ==
    IF earned * 100 < 40 * possible \/ possible = 0 THEN 1
    ELSE IF earned * 100 < 70 * possible THEN 2 ELSE 3

DimensionTier(answers, dimension) == _tier_from_score(Earned(answers, dimension), Possible(answers, dimension))

score_answers(answers) == Least3({DimensionTier(answers, Capacity), DimensionTier(answers, Tolerance)})

CappedByAge(tier, age) == IF age # None /\ age >= 75 /\ tier = 3 THEN 2 ELSE tier

CappedByHorizon(tier, horizon) ==
    IF horizon <= 3 /\ tier # 1 THEN 1 ELSE IF horizon <= 7 /\ tier = 3 THEN 2 ELSE tier

apply_hard_overrides(tier, horizon, age) == CappedByAge(CappedByHorizon(tier, horizon), age)

----------------------------------------------------------------------------
(* Requests *)

ClientInit ==
    /\ client \in [status : {"active"}, tier : Tiers, horizon : Horizons, age : Ages]
    /\ days = 0 /\ sheet = [q \in Questions |-> None]
    /\ clientRequest = [r \in ClientRequests |-> None] /\ assessed = FALSE

InHands == {r \in ClientRequests : clientRequest[r] # None}

\* _get_client: an archived client is not found.
LoadClient(r, what) ==
    /\ clientRequest[r] = None /\ client.status = "active"
    /\ clientRequest' = [s \in ClientRequests |->
        IF s = r THEN [what |-> what, row |-> client, crossed |-> InHands # {}]
        ELSE IF s \in InHands THEN [clientRequest[s] EXCEPT !.crossed = TRUE] ELSE None]
    /\ UNCHANGED <<client, days, sheet, assessed>>

InHand(r, what) == clientRequest[r] # None /\ clientRequest[r].what = what
Answer(r) == clientRequest' = [clientRequest EXCEPT ![r] = None]

Stored == client.status # "purged"

Assigned(answers, row) == apply_hard_overrides(score_answers(answers), row.horizon, row.age)

submit_risk_assessment(r) ==
    \E q \in Questions, points \in {None} \cup UNION {Options[x] : x \in Questions} :
        LET answers == [sheet EXCEPT ![q] = points]
        IN  /\ InHand(r, "assess") /\ points \in Options[q] \cup {None} /\ Stored
            /\ sheet' = answers
            /\ client' = [client EXCEPT !.tier = Written(clientRequest[r].row.tier, Assigned(answers, clientRequest[r].row), @)]
            /\ assessed' = ~clientRequest[r].crossed
            /\ Answer(r) /\ UNCHANGED days

\* Any of the three may be set, the tier like the others.
update_client(r) ==
    \E tier \in Tiers, horizon \in Horizons, age \in Ages :
        LET row == clientRequest[r].row
        IN  /\ InHand(r, "update") /\ Stored
            /\ client' = [client EXCEPT !.tier = Written(row.tier, tier, @),
                                        !.horizon = Written(row.horizon, horizon, @),
                                        !.age = Written(row.age, age, @)]
            /\ assessed' = (assessed /\ client' = client)
            /\ Answer(r) /\ UNCHANGED <<days, sheet>>

archive_client(r) ==
    /\ InHand(r, "archive") /\ Stored
    /\ client' = [client EXCEPT !.status = "archived"] /\ days' = 0
    /\ Answer(r) /\ UNCHANGED <<sheet, assessed>>

\* A request that finds the record gone fails.
FailOnPurged(r) ==
    /\ clientRequest[r] # None /\ ~Stored
    /\ Answer(r) /\ UNCHANGED <<client, days, sheet, assessed>>

MayPurge(force) == client.status = "archived" /\ (days >= CLIENT_RETENTION_DAYS \/ force)

purge_client(force) ==
    /\ MayPurge(force)
    /\ client' = [client EXCEPT !.status = "purged"]
    /\ sheet' = [q \in Questions |-> None] /\ assessed' = FALSE
    /\ UNCHANGED <<days, clientRequest>>

DayPasses ==
    /\ client.status = "archived" /\ days < CLIENT_RETENTION_DAYS
    /\ days' = days + 1
    /\ UNCHANGED <<client, sheet, clientRequest, assessed>>

ClientNext ==
    \/ \E r \in ClientRequests, what \in {"assess", "update", "archive"} : LoadClient(r, what)
    \/ \E r \in ClientRequests :
        submit_risk_assessment(r) \/ update_client(r) \/ archive_client(r) \/ FailOnPurged(r)
    \/ \E force \in BOOLEAN : purge_client(force)
    \/ DayPasses

ClientSpec == ClientInit /\ [][ClientNext]_clientVars

----------------------------------------------------------------------------
ClientTypeOK ==
    /\ client \in [status : {"active", "archived", "purged"}, tier : Tiers, horizon : Horizons, age : Ages]
    /\ days \in 0..CLIENT_RETENTION_DAYS /\ (client.status = "active" => days = 0)
    /\ \A q \in Questions : sheet[q] \in Options[q] \cup {None}
    /\ assessed \in BOOLEAN
    /\ client.status = "purged" => ~assessed /\ \A q \in Questions : sheet[q] = None

HorizonCap(horizon) == IF horizon <= 3 THEN 1 ELSE IF horizon <= 7 THEN 2 ELSE 3
AgeCap(age) == IF age # None /\ age >= 75 THEN 2 ELSE 3

\* An assessment that nothing crossed gives the lowest of four tiers: what the
\* answers on capacity allow, what those on tolerance allow, and what horizon and
\* age allow; a dimension without an answer allows the lowest
\* (risk_profile.py:279, 311-352).
LowestTierRules ==
    assessed => client.tier = Least3({DimensionTier(sheet, Capacity), DimensionTier(sheet, Tolerance),
                                      HorizonCap(client.horizon), AgeCap(client.age)})

\* With the facts unchanged a worse answer to one question never raises the
\* tier (risk_profile.py:225-308).
WorseAnswerNoHigherTier ==
    [][assessed /\ assessed' /\ client.horizon = client'.horizon /\ client.age = client'.age
        /\ (\E q \in Questions : sheet[q] # None /\ sheet'[q] # None /\ sheet'[q] < sheet[q])
       => client'.tier <= client.tier]_clientVars

\* risk_profile.py:319: "A profile whose stored horizon is three years cannot
\* carry an Aggressive mandate no matter what the answers said".
ShortHorizonNeverAggressive == client.horizon <= 3 /\ (\E q \in Questions : sheet[q] # None) => client.tier # 3

\* risk_profile.py:80: "A short horizon caps risk regardless of preference".
HorizonAnswerCaps(q) == assessed /\ sheet[q] = 0 => client.tier # 3

\* risk_profile.py:230: "a mostly-empty questionnaire is not a basis for a mandate".
MostlyEmptyIsNoBasis ==
    assessed /\ Cardinality(Answered(sheet, Questions)) * 2 < Cardinality(Questions) => client.tier = 1

\* server.py:1491: "The tier is derived, never chosen."
TierIsDerived == [][client'.tier # client.tier => sheet' # sheet]_clientVars
===============================================================================
