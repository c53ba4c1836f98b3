------------------------------- MODULE ApiKeys -------------------------------
(***************************************************************************)
(* The life of an organization's API keys (server.create_api_key,          *)
(* rotate_api_key, revoke_api_key) and what a key is good for              *)
(* (security._principal_from_api_key).  A request loads the row of the key,*)
(* and commits later; requests for the same key overlap.                   *)
(***************************************************************************)
EXTENDS Integers, FiniteSets, Rows

CONSTANTS
    MaxKeys,       \* bound on the keys that are issued
    KeyRequests,   \* requests of administrators under way
    Lifetimes,     \* expires_in_days
    Graces         \* grace_period_hours

Keys == 1..MaxKeys
KeyRows == [left : Nat, revoked : BOOLEAN, successor : Keys \cup {None}]

ASSUME KeysAssumption ==
    /\ MaxKeys \in Nat /\ Lifetimes \subseteq Nat \ {0} /\ Graces \subseteq Nat
    /\ None \notin Nat \cup KeyRows

VARIABLES
    key,          \* of each key: None, or [left, revoked, successor]
    keyRequest,   \* of each request: None, or what it does and what it loaded
    asked,        \* of each key: the longest grace, still running, a rotation gave it
    promised,     \* of each key: the shortest life, still running, that was agreed for it
    parents,      \* of each key: the keys it was rotated from
    afterRevoke,  \* keys issued in place of a key that was revoked by then
    keysOverlap   \* keys that two requests had loaded at once

keyVars == <<key, keyRequest, asked, promised, parents, afterRevoke, keysOverlap>>

Issued == {k \in Keys : key[k] # None}
\* Keys are numbered as they come.
NewKeys == {k \in Keys : Keys \ Issued = k..MaxKeys}
Loaded(k) == {r \in KeyRequests : keyRequest[r] # None /\ keyRequest[r].of = k}
Least2(a, b) == IF a <= b THEN a ELSE b

Usable(k) == key[k] # None /\ ~key[k].revoked /\ key[k].left > 0

KeyInit ==
    /\ key = [k \in Keys |-> None] /\ keyRequest = [r \in KeyRequests |-> None]
    /\ asked = [k \in Keys |-> None] /\ promised = [k \in Keys |-> None]
    /\ parents = [k \in Keys |-> {}]
    /\ afterRevoke = {} /\ keysOverlap = {}

FreshKey(days) == [left |-> days, revoked |-> FALSE, successor |-> None]

create_api_key ==
    \E k \in NewKeys, days \in Lifetimes :
        /\ key' = [key EXCEPT ![k] = FreshKey(days)]
        /\ promised' = [promised EXCEPT ![k] = days]
        /\ UNCHANGED <<keyRequest, asked, parents, afterRevoke, keysOverlap>>

\* A key that has expired may be rotated, one that was revoked may not.
MayLoad(k, what) == key[k] # None /\ (what = "rotate" => ~key[k].revoked)

LoadKey(r, k, what) ==
    /\ keyRequest[r] = None /\ MayLoad(k, what)
    /\ keyRequest' = [keyRequest EXCEPT ![r] = [what |-> what, of |-> k, row |-> key[k]]]
    /\ keysOverlap' = IF Loaded(k) = {} THEN keysOverlap ELSE keysOverlap \cup {k}
    /\ UNCHANGED <<key, asked, promised, parents, afterRevoke>>

GraceExpiry(left, grace) == IF left > grace THEN grace ELSE left

\* Mutant: the old key stays as it is and ends when it would have.
Retired_Kept(old, stored, grace, new) == [stored EXCEPT !.successor = new]

\* The stored row of the old key once it is superseded, by what was loaded.
Retired(old, stored, grace, new) ==
    IF grace = 0
    THEN [stored EXCEPT !.successor = new, !.revoked = TRUE]
    ELSE [stored EXCEPT !.successor = new, !.left = Written(old.left, GraceExpiry(old.left, grace), stored.left)]

rotate_api_key(r) ==
    LET req == keyRequest[r] IN
    \E new \in NewKeys, grace \in Graces, days \in Lifetimes :
        /\ req # None /\ req.what = "rotate"
        /\ key' = [key EXCEPT ![new] = FreshKey(days), ![req.of] = Retired(req.row, key[req.of], grace, new)]
        /\ asked' = [asked EXCEPT ![req.of] = IF @ = None THEN grace ELSE IF @ > grace THEN @ ELSE grace]
        /\ promised' = [promised EXCEPT ![new] = days, ![req.of] = Least2(@, grace)]
        /\ parents' = [parents EXCEPT ![new] = {req.of}]
        /\ afterRevoke' = IF key[req.of].revoked THEN afterRevoke \cup {new} ELSE afterRevoke
        /\ keyRequest' = [keyRequest EXCEPT ![r] = None]
        /\ UNCHANGED keysOverlap

revoke_api_key(r) ==
    LET req == keyRequest[r]
    IN  /\ req # None /\ req.what = "revoke"
        /\ key' = [key EXCEPT ![req.of].revoked = TRUE]
        /\ keyRequest' = [keyRequest EXCEPT ![r] = None]
        /\ UNCHANGED <<asked, promised, parents, afterRevoke, keysOverlap>>

Down(n) == IF n = None \/ n = 0 THEN n ELSE n - 1

\* Expiry is a moment: what a request has loaded runs out with the rest.
TimePasses ==
    /\ \E k \in Issued : key[k].left > 0
    /\ key' = [k \in Keys |-> IF key[k] = None THEN None ELSE [key[k] EXCEPT !.left = Down(@)]]
    /\ keyRequest' = [r \in KeyRequests |->
        IF keyRequest[r] = None THEN None ELSE [keyRequest[r] EXCEPT !.row.left = Down(@)]]
    /\ asked' = [k \in Keys |-> Down(asked[k])] /\ promised' = [k \in Keys |-> Down(promised[k])]
    /\ UNCHANGED <<parents, afterRevoke, keysOverlap>>

KeysNext ==
    \/ create_api_key
    \/ \E r \in KeyRequests, k \in Keys : LoadKey(r, k, "rotate") \/ LoadKey(r, k, "revoke")
    \/ \E r \in KeyRequests : rotate_api_key(r) \/ revoke_api_key(r)
    \/ TimePasses

KeysSpec == KeyInit /\ [][KeysNext]_keyVars

----------------------------------------------------------------------------
Rotated(k) == key[k] # None /\ key[k].successor # None

KeysTypeOK ==
    \A k \in Keys :
        /\ key[k] # None => /\ key[k].left \in Nat /\ key[k].revoked \in BOOLEAN
                            /\ key[k].successor \in Keys \cup {None}
                            /\ key[k].successor # None => key[key[k].successor] # None
        /\ asked[k] \in Nat \cup {None} /\ promised[k] \in Nat \cup {None}
        /\ parents[k] \subseteq Keys

\* A key that was superseded, however often and by however many requests at
\* once, is of no use once the longest grace period asked for it has run out
\* (server.py:937-945).
SupersededKeyEnds == \A k \in Keys : Rotated(k) /\ Usable(k) => asked[k] > 0

\* Requests that do not overlap only ever shorten the life of a key: it ends
\* by its first expiry and by every grace period it was given
\* (server.py:942-944).
LifeOnlyShortens == \A k \in Keys : Usable(k) /\ k \notin keysOverlap => promised[k] > 0

\* Nothing replaces a revoked key, unless its rotation had begun by then
\* (server.py:919-920).
RevokedEndsTheLine == \A k \in afterRevoke : parents[k] \subseteq keysOverlap

\* A key ends when it was promised to, however it was rotated and revoked.
KeysEnd == SupersededKeyEnds /\ LifeOnlyShortens /\ RevokedEndsTheLine

\* server.py:943: the old key expires "when grace period ends (or earlier if
\* existing expiry is sooner)".
LifeAlwaysShortens == \A k \in Keys : Usable(k) => promised[k] > 0

\* server.py:920: "Cannot rotate an already-revoked API key."
RevokedNeverReplaced == afterRevoke = {}

\* server.py:916: "The old key records superseded_by_id pointing to the new
\* key": every key that replaces another is found from it.
SuccessorsAreFound == \A k \in Keys : \A p \in parents[k] : key[p].successor = k
===============================================================================
