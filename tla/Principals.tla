------------------------------ MODULE Principals ------------------------------
(* Who makes a request, and what they may do (security.py). *)
EXTENDS Integers, SequencesExt

CONSTANTS Users, RoleOf

ROLE_ORDER == <<"viewer", "advisor", "compliance", "admin">>
Roles == ToSet(ROLE_ORDER)
Rank(role) == CHOOSE i \in DOMAIN ROLE_ORDER : ROLE_ORDER[i] = role

ASSUME PrincipalsAssumption == RoleOf \in [Users -> Roles]

\* Mutant: a key gives the role it was issued with.
KeyRole_AsIssued(role, user) == role

\* A key is never wider than its owner is.
KeyRole(role, user) == IF Rank(role) > Rank(RoleOf[user]) THEN RoleOf[user] ELSE role

\* A user with a session, or the holder of a key of theirs.
get_principal ==
    {[user |-> u, role |-> RoleOf[u]] : u \in Users}
        \cup {[user |-> u, role |-> KeyRole(r, u)] : u \in Users, r \in Roles \ {"admin"}}

CAPABILITIES == [draft |-> "advisor", activate |-> "compliance"]

can(principal, capability) == Rank(principal.role) >= Rank(CAPABILITIES[capability])
===============================================================================
