---------------------------- MODULE PolicyVersions ----------------------------
(***************************************************************************)
(* The Investment Policy Statement of a client (services/policy.py and the *)
(* endpoints that draft and activate it): rows with a version each, the    *)
(* one in force, and requests that load rows, decide and commit later.     *)
(*                                                                         *)
(* The limits of a policy are a pair that validate_policy relates, the     *)
(* least and the most cash; the other limits are seeded, overridden and    *)
(* validated alike.                                                        *)
(***************************************************************************)
EXTENDS Integers, Sequences, FiniteSets, Principals, Rows

CONSTANTS
    PolicyRequests,
    MinCash, MaxCash,   \* the values an advisor may set
    TierDefaults,       \* limits without a policy
    MaxRows             \* bound on drafts

Limits == [min_cash : MinCash, max_cash : MaxCash]
Fields == {"min_cash", "max_cash"}

ASSUME PolicyAssumption ==
    /\ MinCash \subseteq Int /\ MaxCash \subseteq Int /\ TierDefaults \in Limits /\ MaxRows \in Nat
    /\ None \notin Int /\ None \notin Users

VARIABLES
    policies,       \* the rows, in the order they were inserted
    policyRequest,  \* of each request: None, or how far it came and what it loaded
    settled         \* the row that the last activation chose, None if another crossed it

policyVars == <<policies, policyRequest, settled>>

Ids == DOMAIN policies
Active == {i \in Ids : policies[i].status = "active"}
Versions == {policies[i].version : i \in Ids}
Latest(S) == IF S = {} THEN None ELSE CHOOSE i \in S : \A j \in S : policies[j].version <= policies[i].version

get_active_policy == Latest(Active)
resolve == IF get_active_policy = None THEN TierDefaults ELSE policies[get_active_policy].limits

\* Mutant: a draft is seeded from the latest version, in force or not.
Seed_Latest == IF Ids = {} THEN TierDefaults ELSE policies[Latest(Ids)].limits

Seed == resolve

NextVersion == IF Ids = {} THEN 1 ELSE policies[Latest(Ids)].version + 1

validate_policy(limits) == limits.min_cash < limits.max_cash

PolicyInit ==
    /\ policies = <<>> /\ policyRequest = [r \in PolicyRequests |-> None]
    /\ settled = None

BeginDraft(r) ==
    \E limits \in Limits :
        /\ policyRequest[r] = None /\ Len(policies) < MaxRows
        /\ \E p \in get_principal : can(p, "draft")
        /\ policyRequest' = [policyRequest EXCEPT ![r] =
            [step |-> "draft", version |-> NextVersion, base |-> get_active_policy, limits |-> limits,
             edits |-> {f \in Fields : limits[f] # Seed[f]}]]
        /\ UNCHANGED <<policies, settled>>

\* uq_policy_client_version
Taken(version) == version \in Versions

\* A draft is stored whether or not it is valid.
CommitDraft(r) ==
    LET req == policyRequest[r]
    IN  /\ req # None /\ req.step = "draft"
        /\ policies' = IF Taken(req.version) THEN policies ELSE
            Append(policies, [version |-> req.version, limits |-> req.limits, status |-> "draft",
                              base |-> req.base, edits |-> req.edits, approver |-> None])
        /\ policyRequest' = [policyRequest EXCEPT ![r] = None]
        /\ UNCHANGED settled

Activating == {r \in PolicyRequests : policyRequest[r] # None /\ policyRequest[r].step \in {"loaded", "decided"}}
Crossed(reqs, others) == [s \in PolicyRequests |-> IF s \in others THEN [reqs[s] EXCEPT !.crossed = TRUE] ELSE reqs[s]]

\* Whatever its status, a row whose limits are consistent may be activated.
BeginActivation(r) ==
    \E p \in get_principal, i \in Ids :
        /\ policyRequest[r] = None /\ can(p, "activate")
        /\ validate_policy(policies[i].limits)
        /\ policyRequest' = [Crossed(policyRequest, Activating) EXCEPT ![r] =
            [step |-> "loaded", row |-> i, status |-> policies[i].status, approver |-> policies[i].approver,
             by |-> p.user, crossed |-> Activating # {}]]
        /\ UNCHANGED <<policies, settled>>

\* Mutant: of several active rows only the latest is superseded.
Previous_Latest(i) == {get_active_policy} \ {i, None}

Previous(i) == Active \ {i}

FindPrevious(r) ==
    LET req == policyRequest[r]
    IN  /\ req # None /\ req.step = "loaded"
        /\ policyRequest' = [policyRequest EXCEPT ![r] =
            [step |-> "decided", row |-> req.row, status |-> req.status, approver |-> req.approver,
             by |-> req.by, crossed |-> req.crossed, previous |-> Previous(req.row)]]
        /\ UNCHANGED <<policies, settled>>

CommitActivation(r) ==
    LET req == policyRequest[r]
    IN  /\ req # None /\ req.step = "decided"
        /\ policies' = [i \in Ids |->
            IF i = req.row
            THEN [policies[i] EXCEPT !.status = Written(req.status, "active", @),
                                     !.approver = Written(req.approver, req.by, @)]
            ELSE IF i \in req.previous THEN [policies[i] EXCEPT !.status = "superseded"]
            ELSE policies[i]]
        /\ settled' = IF req.crossed THEN None ELSE req.row
        /\ policyRequest' = [policyRequest EXCEPT ![r] = None]

PolicyNext ==
    \E r \in PolicyRequests :
        \/ BeginDraft(r) \/ CommitDraft(r)
        \/ BeginActivation(r) \/ FindPrevious(r) \/ CommitActivation(r)

PolicySpec == PolicyInit /\ [][PolicyNext]_policyVars

----------------------------------------------------------------------------
\* Every row is well formed; a row has an approver exactly when it was in force.
PolicyTypeOK ==
    /\ \A i \in Ids :
        /\ policies[i].version \in 1..MaxRows /\ policies[i].limits \in Limits
        /\ policies[i].status \in {"draft", "active", "superseded"}
        /\ policies[i].approver \in Users \cup {None}
        /\ (policies[i].approver = None) = (policies[i].status = "draft")
    /\ settled \in Ids \cup {None}

\* An activation that no other crossed leaves exactly the version it chose in
\* force, however many an earlier crossing had left (policy.py:462-476).
ActivationSettles == settled # None => Active = {settled} /\ get_active_policy = settled

\* A version number, which is all a run records of its policy, always names one
\* row (policy.py:336-342, db.py:624).
VersionNamesOneRow == \A i, j \in Ids : policies[i].version = policies[j].version => i = j

\* What is enforced as a policy is consistent, and was approved by a user who
\* is compliance or above, also when a key made the request (policy.py:459,
\* security.py:243-245).
InForceIsApproved ==
    \A i \in Active :
        /\ policies[i].limits.min_cash < policies[i].limits.max_cash
        /\ Rank(RoleOf[policies[i].approver]) >= Rank("compliance")

\* What a run records of its policy leads to one row that was approved.
PolicyOnRecord == VersionNamesOneRow /\ InForceIsApproved

Changed(old, new) == {f \in Fields : old[f] # new[f]}

\* A draft that is put into force over the policy it was drafted under changes
\* what its editor changed and nothing else (policy.py:327-330).
EditsWhatWasMeant ==
    [][\A i \in Ids : settled' = i /\ policies[i].status = "draft" /\ policies'[i].status = "active"
                        /\ policies[i].base = get_active_policy
            => Changed(resolve, policies[i].limits) \subseteq policies[i].edits]_policyVars

\* policy.py:327-330: "an edit changes only what the editor intended", also
\* when another draft came into force before it.
EditsOnlyWhatWasMeant ==
    [][\A i \in Ids : settled' = i /\ policies[i].status = "draft" /\ policies'[i].status = "active"
            => Changed(resolve, policies[i].limits) \subseteq policies[i].edits]_policyVars

\* policy.py:452: activating supersedes "the previous version".
OneInForce == Cardinality(Active) <= 1

\* db.py:570: "Rows are immutable once active".
RowsImmutable ==
    [][\A i \in Ids : policies[i].status # "draft" => policies'[i].approver = policies[i].approver
                                                     /\ policies'[i].status # "draft"]_policyVars
===============================================================================
