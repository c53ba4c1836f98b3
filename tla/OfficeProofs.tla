---------------------------- MODULE OfficeProofs ----------------------------
(***************************************************************************)
(* Theorems about the services around the analysis: signing in (Login),    *)
(* API keys (ApiKeys), the versions of a policy (PolicyVersions), the      *)
(* request limits (RateLimit), the record of a client (ClientRecord) and   *)
(* what is shown of the past (Performance), each by the specification of   *)
(* its own module.                                                         *)
(***************************************************************************)
EXTENDS Login, ApiKeys, PolicyVersions, RateLimit, ClientRecord, Performance, Sums,
        SequenceTheorems

-----------------------------------------------------------------------------
(* Signing in.                                                              *)

\* What a sign-in has loaded.
SignIns ==
    [count : 0..LOGIN_MAX_FAILURES - 1, lock : {None, 0}, right : BOOLEAN,
     secret : 0..MaxVersion, crossed : BOOLEAN]

LoginShape ==
    /\ failed_login_count \in 0..LOGIN_MAX_FAILURES - 1
    /\ locked_until \in {None} \cup 0..LockTicks
    /\ token_version \in 0..MaxVersion
    /\ attempt \in [Attempts -> SignIns \cup {None}]
    /\ sessions \subseteq [tv : 0..MaxVersion, secret : 0..MaxVersion, crossed : BOOLEAN]
    /\ guesses \in Nat /\ loginsOverlap \in BOOLEAN

\* While no sign-ins overlap, the count of the row has every wrong password
\* verified so far, and the one sign-in under way has loaded it.
CountInv ==
    ~loginsOverlap =>
        /\ guesses <= failed_login_count
        /\ \A a, b \in UnderWay : a = b
        /\ \A a \in UnderWay : attempt[a].count = failed_login_count

\* The version of a sign-in, and of the session it gets, is the version its
\* password was verified under, unless the password changed in between.
SecretInv ==
    /\ \A a \in UnderWay : ~attempt[a].crossed => attempt[a].secret = token_version
    /\ \A s \in sessions : ~s.crossed => s.secret = s.tv

LoginInv == LoginShape /\ CountInv /\ SecretInv

LEMMA LoginStep ==
    ASSUME LoginInv, [LoginNext]_loginVars
    PROVE  LoginInv'
<1>0. /\ LoginShape /\ CountInv /\ SecretInv
      /\ LOGIN_MAX_FAILURES \in Nat \ {0} /\ LockTicks \in Nat \ {0} /\ MaxVersion \in Nat
    BY LoginAssumption DEF LoginInv
<1>1. ASSUME NEW a \in Attempts, BeginAttempt(a) PROVE LoginInv'
    <2>1. PICK right \in BOOLEAN :
            attempt' = [attempt EXCEPT ![a] =
                [count |-> failed_login_count, lock |-> locked_until, right |-> right,
                 secret |-> token_version, crossed |-> FALSE]]
        BY <1>1 DEF BeginAttempt
    <2>2. PICK row : row = [count |-> failed_login_count, lock |-> locked_until, right |-> right,
                            secret |-> token_version, crossed |-> FALSE]
        OBVIOUS
    <2>3. /\ attempt[a] = None /\ ~Locked /\ loginsOverlap' = (loginsOverlap \/ UnderWay # {})
          /\ UNCHANGED <<failed_login_count, locked_until, token_version, sessions, guesses>>
        BY <1>1 DEF BeginAttempt
    <2>4. row \in SignIns
        BY <1>0, <2>2, <2>3 DEF SignIns, LoginShape, Locked
    <2>5. /\ attempt' \in [Attempts -> SignIns \cup {None}] /\ attempt'[a] = row
          /\ \A b \in Attempts : b # a => attempt'[b] = attempt[b]
        BY <1>0, <2>1, <2>2, <2>4 DEF LoginShape
    <2>6. LoginShape'
        BY <1>0, <2>3, <2>5 DEF LoginShape
    <2>7. CountInv'
        <3>. SUFFICES ASSUME ~loginsOverlap'
                      PROVE  /\ guesses <= failed_login_count
                             /\ \A b \in UnderWay' : b = a
                             /\ attempt'[a].count = failed_login_count
            BY <2>3, <2>5 DEF CountInv
        <3>1. ~loginsOverlap /\ UnderWay = {}
            BY <1>0, <2>3 DEF LoginShape
        <3>2. \A b \in UnderWay' : b = a
            BY <2>5, <3>1 DEF UnderWay
        <3>. QED BY <1>0, <2>2, <2>5, <3>1, <3>2 DEF CountInv
    <2>8. SecretInv'
        BY <1>0, <2>2, <2>3, <2>5 DEF SecretInv, UnderWay
    <2>. QED BY <2>6, <2>7, <2>8 DEF LoginInv
<1>2. ASSUME NEW a \in Attempts, RefuseAttempt(a) PROVE LoginInv'
    <2>1. PICK row, count : row = attempt[a] /\ count = row.count + 1
        OBVIOUS
    <2>2. /\ row # None
          /\ failed_login_count' = Written(row.count, IF LocksAt(count) THEN 0 ELSE count, failed_login_count)
          /\ locked_until' = IF LocksAt(count) THEN LockTicks ELSE locked_until
          /\ guesses' = IF LocksAt(count) THEN 0 ELSE guesses + 1
          /\ loginsOverlap' = IF LocksAt(count) THEN UnderWay # {a} ELSE loginsOverlap
          /\ attempt' = [attempt EXCEPT ![a] = None]
          /\ UNCHANGED <<token_version, sessions>>
        BY <1>2, <2>1 DEF RefuseAttempt
    <2>3. row \in SignIns /\ row.count \in 0..LOGIN_MAX_FAILURES - 1 /\ a \in UnderWay
        BY <1>0, <2>1, <2>2 DEF LoginShape, SignIns, UnderWay
    <2>4. /\ attempt' \in [Attempts -> SignIns \cup {None}] /\ attempt'[a] = None
          /\ \A b \in Attempts : b # a => attempt'[b] = attempt[b]
        BY <1>0, <2>2 DEF LoginShape
    <2>5. failed_login_count' \in 0..LOGIN_MAX_FAILURES - 1
        BY <1>0, <2>1, <2>2, <2>3 DEF LoginShape, Written, LocksAt
    <2>6. LoginShape'
        <3>1. locked_until' \in {None} \cup 0..LockTicks /\ guesses' \in Nat
            BY <1>0, <2>2 DEF LoginShape
        <3>2. loginsOverlap' \in BOOLEAN
            BY <1>0, <2>2, Zenon DEF LoginShape
        <3>. QED BY <1>0, <2>2, <2>4, <2>5, <3>1, <3>2 DEF LoginShape
    <2>7. CountInv'
        <3>1. CASE LocksAt(count)
            <4>1. \A b \in UnderWay' : b # a /\ b \in UnderWay
                BY <2>4 DEF UnderWay
            <4>2. ~loginsOverlap' => UnderWay' = {}
                BY <2>2, <3>1, <4>1
            <4>3. guesses' = 0 /\ guesses' <= failed_login_count'
                BY <1>0, <2>2, <2>5, <3>1
            <4>. QED BY <4>2, <4>3 DEF CountInv
        <3>2. CASE ~LocksAt(count) /\ ~loginsOverlap
            <4>1. row.count = failed_login_count /\ UnderWay = {a} /\ guesses <= failed_login_count
                BY <1>0, <2>1, <2>3, <3>2 DEF CountInv
            <4>2. failed_login_count' = failed_login_count + 1 /\ guesses' = guesses + 1
                BY <2>1, <2>2, <2>3, <3>2, <4>1 DEF Written
            <4>3. UnderWay' = {}
                BY <2>4, <4>1 DEF UnderWay
            <4>4. guesses' <= failed_login_count'
                BY <1>0, <4>1, <4>2 DEF LoginShape
            <4>. QED BY <4>3, <4>4 DEF CountInv
        <3>3. CASE ~LocksAt(count) /\ loginsOverlap
            BY <1>0, <2>2, <3>3 DEF CountInv, LoginShape
        <3>. QED BY <1>0, <3>1, <3>2, <3>3 DEF LoginShape
    <2>8. SecretInv'
        BY <1>0, <2>2, <2>4 DEF SecretInv, UnderWay
    <2>. QED BY <2>6, <2>7, <2>8 DEF LoginInv
<1>3. ASSUME NEW a \in Attempts, AcceptAttempt(a) PROVE LoginInv'
    <2>1. PICK row : row = attempt[a]
        OBVIOUS
    <2>2. /\ row # None
          /\ failed_login_count' = Written(row.count, 0, failed_login_count)
          /\ locked_until' = Written(row.lock, None, locked_until)
          /\ sessions' = sessions \cup {[tv |-> token_version, secret |-> row.secret, crossed |-> row.crossed]}
          /\ guesses' = 0 /\ loginsOverlap' = (UnderWay # {a})
          /\ attempt' = [attempt EXCEPT ![a] = None]
          /\ UNCHANGED token_version
        BY <1>3, <2>1 DEF AcceptAttempt
    <2>3. row \in SignIns /\ a \in UnderWay
        BY <1>0, <2>1, <2>2 DEF LoginShape, UnderWay
    <2>4. /\ attempt' \in [Attempts -> SignIns \cup {None}] /\ attempt'[a] = None
          /\ \A b \in Attempts : b # a => attempt'[b] = attempt[b]
        BY <1>0, <2>2 DEF LoginShape
    <2>5. failed_login_count' \in 0..LOGIN_MAX_FAILURES - 1 /\ locked_until' \in {None} \cup 0..LockTicks
        BY <1>0, <2>2 DEF LoginShape, Written
    <2>6. PICK s : s = [tv |-> token_version, secret |-> row.secret, crossed |-> row.crossed]
        OBVIOUS
    <2>7. s \in [tv : 0..MaxVersion, secret : 0..MaxVersion, crossed : BOOLEAN]
        BY <1>0, <2>3, <2>6 DEF LoginShape, SignIns
    <2>8. LoginShape'
        BY <1>0, <2>2, <2>4, <2>5, <2>6, <2>7 DEF LoginShape
    <2>9. CountInv'
        <3>1. ~loginsOverlap' => UnderWay' = {}
            BY <2>2, <2>4 DEF UnderWay
        <3>2. guesses' <= failed_login_count'
            BY <1>0, <2>2, <2>5
        <3>. QED BY <3>1, <3>2 DEF CountInv
    <2>10. SecretInv'
        BY <1>0, <2>1, <2>2, <2>3, <2>4, <2>6 DEF SecretInv, UnderWay
    <2>. QED BY <2>8, <2>9, <2>10 DEF LoginInv
<1>4. CASE ChangePassword
    <2>1. /\ token_version < MaxVersion /\ token_version' = token_version + 1
          /\ attempt' = [a \in Attempts |-> IF attempt[a] = None THEN None ELSE [attempt[a] EXCEPT !.crossed = TRUE]]
          /\ UNCHANGED <<failed_login_count, locked_until, sessions, guesses, loginsOverlap>>
        BY <1>4 DEF ChangePassword
    <2>2. ASSUME NEW a \in Attempts
          PROVE  /\ attempt'[a] \in SignIns \cup {None}
                 /\ attempt'[a] # None => /\ attempt[a] # None /\ attempt'[a].crossed
                                          /\ attempt'[a].count = attempt[a].count
        <3>1. CASE attempt[a] = None
            BY <2>1, <3>1
        <3>2. CASE attempt[a] # None
            <4>1. attempt[a] \in SignIns /\ attempt'[a] = [attempt[a] EXCEPT !.crossed = TRUE]
                BY <1>0, <2>1, <3>2 DEF LoginShape
            <4>. QED BY <3>2, <4>1 DEF SignIns
        <3>. QED BY <3>1, <3>2
    <2>3. LoginShape'
        BY <1>0, <2>1, <2>2 DEF LoginShape
    <2>4. CountInv'
        BY <1>0, <2>1, <2>2 DEF CountInv, UnderWay
    <2>5. SecretInv'
        BY <1>0, <2>1, <2>2 DEF SecretInv, UnderWay
    <2>. QED BY <2>3, <2>4, <2>5 DEF LoginInv
<1>5. CASE LockPasses
    <2>1. /\ Locked /\ locked_until' = locked_until - 1
          /\ UNCHANGED <<failed_login_count, token_version, attempt, sessions, guesses, loginsOverlap>>
        BY <1>5 DEF LockPasses
    <2>2. LoginShape'
        BY <1>0, <2>1, LoginAssumption DEF LoginShape, Locked
    <2>. QED BY <1>0, <2>1, <2>2 DEF LoginInv, CountInv, SecretInv, UnderWay
<1>6. CASE UNCHANGED loginVars
    BY <1>0, <1>6 DEF loginVars, LoginInv, LoginShape, CountInv, SecretInv, UnderWay
<1>. QED BY <1>1, <1>2, <1>3, <1>4, <1>5, <1>6 DEF LoginNext

LEMMA LoginInvariant == LoginSpec => []LoginInv
<1>1. LoginInit => LoginInv
    <2>. SUFFICES ASSUME LoginInit PROVE LoginInv
        OBVIOUS
    <2>1. UnderWay = {}
        BY DEF LoginInit, UnderWay
    <2>2. LoginShape
        <3>1. 0 \in 0..LOGIN_MAX_FAILURES - 1 /\ 0 \in 0..MaxVersion
            BY LoginAssumption
        <3>2. attempt \in [Attempts -> SignIns \cup {None}]
            BY DEF LoginInit
        <3>. QED BY <3>1, <3>2 DEF LoginInit, LoginShape
    <2>. QED BY <2>1, <2>2 DEF LoginInit, LoginInv, CountInv, SecretInv
<1>2. LoginInv /\ [LoginNext]_loginVars => LoginInv'
    BY LoginStep
<1>. QED BY <1>1, <1>2, PTL DEF LoginSpec

(* For any number of sign-ins, any limit and any lockout: an account is    *)
(* locked before one wrong password too many is verified as long as no     *)
(* sign-ins overlap, and a session that is admitted was opened with the    *)
(* password of today unless the change crossed the sign-in (authenticate,  *)
(* get_principal).                                                   *)
THEOREM SignInsAlwaysHold == LoginSpec => []SignInsHold
<1>1. ASSUME LoginInv PROVE LockoutCounts
    BY <1>1, LoginAssumption DEF LoginInv, LoginShape, CountInv, LockoutCounts
<1>2. ASSUME LoginInv PROVE SessionsOfThePassword
    BY <1>2 DEF LoginInv, SecretInv, SessionsOfThePassword, Admitted
<1>3. LoginInv => SignInsHold
    BY <1>1, <1>2 DEF SignInsHold
<1>. QED BY <1>3, LoginInvariant, PTL

(* The types of the user's row, of the sign-ins and of the sessions; no    *)
(* sign-in has loaded a lock that still holds.                             *)
THEOREM LoginTypeCorrect == LoginSpec => []LoginTypeOK
<1>1. LoginInv => LoginTypeOK
    <2>. SUFFICES ASSUME LoginInv PROVE LoginTypeOK
        OBVIOUS
    <2>1. \A a \in Attempts : attempt[a] # None => attempt[a] \in SignIns
        BY DEF LoginInv, LoginShape
    <2>. QED BY <2>1 DEF LoginInv, LoginShape, LoginTypeOK, SignIns
<1>. QED BY <1>1, LoginInvariant, PTL

-----------------------------------------------------------------------------
(* API keys.                                                                *)

KeyReqs == [what : {"rotate", "revoke"}, of : Keys, row : KeyRows]

KeysShape ==
    /\ key \in [Keys -> KeyRows \cup {None}]
    /\ keyRequest \in [KeyRequests -> KeyReqs \cup {None}]
    /\ asked \in [Keys -> Nat \cup {None}]
    /\ promised \in [Keys -> Nat \cup {None}]
    /\ parents \in [Keys -> SUBSET Keys]
    /\ afterRevoke \subseteq Keys /\ keysOverlap \subseteq Keys
    /\ \A k \in Keys : key[k] # None => promised[k] \in Nat
    /\ \A k \in Keys : Rotated(k) => key[key[k].successor] # None

\* What a request loaded is what is stored, unless another request for the key
\* has overlapped with it; what is left of the key only a rotation can change.
LoadedStands(r, k, row) ==
    /\ key[k] # None
    /\ keyRequest[r].what = "rotate" => ~row.revoked
    /\ ~Rotated(k) => row.left = key[k].left
    /\ k \notin keysOverlap => row = key[k] /\ Loaded(k) = {r}

LoadedInv ==
    \A r \in KeyRequests : keyRequest[r] # None => LoadedStands(r, keyRequest[r].of, keyRequest[r].row)

\* A superseded key has no longer to live than the longest grace it was given,
\* and one whose requests never overlapped no longer than agreed at any time.
GraceInv == \A k \in Keys : Rotated(k) /\ ~key[k].revoked => asked[k] \in Nat /\ key[k].left <= asked[k]
PromiseInv ==
    \A k \in Keys \ keysOverlap : key[k] # None /\ ~key[k].revoked => key[k].left <= promised[k]

LineInv == afterRevoke \subseteq Issued /\ RevokedEndsTheLine

KeysInv == KeysShape /\ LoadedInv /\ GraceInv /\ PromiseInv /\ LineInv

\* A new key is none of those that were issued.
LEMMA NewKeyUnissued == \A k \in NewKeys : k \in Keys /\ key[k] = None
<1>. SUFFICES ASSUME NEW k \in NewKeys PROVE key[k] = None
    BY DEF NewKeys
<1>1. k \in Keys /\ Keys \ Issued = k..MaxKeys /\ MaxKeys \in Nat
    BY KeysAssumption DEF NewKeys
<1>2. k \in k..MaxKeys
    BY <1>1 DEF Keys
<1>. QED BY <1>1, <1>2 DEF Issued

LEMMA FreshRow ==
    ASSUME NEW n \in Lifetimes
    PROVE  /\ FreshKey(n) \in KeyRows /\ FreshKey(n) # None /\ FreshKey(n).left = n
           /\ FreshKey(n).successor = None /\ ~FreshKey(n).revoked /\ n \in Nat
<1>1. n \in Nat /\ None \notin KeyRows
    BY KeysAssumption
<1>2. FreshKey(n) \in KeyRows /\ FreshKey(n).left = n
      /\ FreshKey(n).successor = None /\ ~FreshKey(n).revoked
    BY <1>1 DEF FreshKey, KeyRows
<1>. QED BY <1>1, <1>2

\* The stored row after a rotation.
LEMMA RetiredRow ==
    ASSUME NEW old \in KeyRows, NEW stored \in KeyRows, NEW grace \in Graces, NEW new \in Keys
    PROVE  /\ Retired(old, stored, grace, new) \in KeyRows
           /\ Retired(old, stored, grace, new).successor = new
           /\ stored.revoked => Retired(old, stored, grace, new).revoked
           /\ ~Retired(old, stored, grace, new).revoked =>
                /\ grace > 0
                /\ Retired(old, stored, grace, new).left \in {grace, stored.left}
                /\ Retired(old, stored, grace, new).left <= grace \/ stored.left # old.left
                /\ Retired(old, stored, grace, new).left <= stored.left \/ stored.left # old.left
<1>0. grace \in Nat /\ old.left \in Nat /\ stored.left \in Nat
    BY KeysAssumption DEF KeyRows
<1>1. CASE grace = 0
    <2>1. Retired(old, stored, grace, new) = [stored EXCEPT !.successor = new, !.revoked = TRUE]
        BY <1>1 DEF Retired
    <2>. QED BY <2>1 DEF KeyRows
<1>2. CASE grace # 0
    <2>1. PICK n : n = Written(old.left, GraceExpiry(old.left, grace), stored.left)
        OBVIOUS
    <2>2. Retired(old, stored, grace, new) = [stored EXCEPT !.successor = new, !.left = n]
        BY <1>2, <2>1 DEF Retired
    <2>3. /\ n \in Nat /\ n \in {grace, stored.left}
          /\ stored.left = old.left => n <= grace /\ n <= stored.left
        BY <1>0, <2>1 DEF Written, GraceExpiry
    <2>4. PICK x : x = Retired(old, stored, grace, new)
        OBVIOUS
    <2>5. x \in KeyRows /\ x.successor = new /\ x.left = n /\ x.revoked = stored.revoked
        BY <2>2, <2>3, <2>4 DEF KeyRows
    <2>. QED BY <1>0, <1>2, <2>3, <2>4, <2>5
<1>. QED BY <1>1, <1>2

LEMMA RotationKeeps ==
    ASSUME KeysInv, NEW r \in KeyRequests, rotate_api_key(r)
    PROVE  KeysInv'
<1>0. KeysShape /\ LoadedInv /\ GraceInv /\ PromiseInv /\ LineInv /\ None \notin Nat /\ None \notin KeyRows
    BY KeysAssumption DEF KeysInv
<1>1. PICK k, row : k = keyRequest[r].of /\ row = keyRequest[r].row
    OBVIOUS
<1>2. PICK new \in NewKeys, grace \in Graces, span \in Lifetimes :
        /\ keyRequest[r] # None /\ keyRequest[r].what = "rotate"
        /\ key' = [key EXCEPT ![new] = FreshKey(span), ![k] = Retired(row, key[k], grace, new)]
        /\ asked' = [asked EXCEPT ![k] = IF @ = None THEN grace ELSE IF @ > grace THEN @ ELSE grace]
        /\ promised' = [promised EXCEPT ![new] = span, ![k] = Least2(@, grace)]
        /\ parents' = [parents EXCEPT ![new] = {k}]
        /\ afterRevoke' = IF key[k].revoked THEN afterRevoke \cup {new} ELSE afterRevoke
        /\ keyRequest' = [keyRequest EXCEPT ![r] = None]
        /\ UNCHANGED keysOverlap
    <2>1. PICK new \in NewKeys, grace \in Graces, span \in Lifetimes :
            /\ keyRequest[r] # None /\ keyRequest[r].what = "rotate"
            /\ key' = [key EXCEPT ![new] = FreshKey(span),
                                  ![keyRequest[r].of] = Retired(keyRequest[r].row, key[keyRequest[r].of], grace, new)]
            /\ asked' = [asked EXCEPT ![keyRequest[r].of] =
                                        IF @ = None THEN grace ELSE IF @ > grace THEN @ ELSE grace]
            /\ promised' = [promised EXCEPT ![new] = span, ![keyRequest[r].of] = Least2(@, grace)]
            /\ parents' = [parents EXCEPT ![new] = {keyRequest[r].of}]
            /\ afterRevoke' = IF key[keyRequest[r].of].revoked THEN afterRevoke \cup {new} ELSE afterRevoke
            /\ keyRequest' = [keyRequest EXCEPT ![r] = None]
            /\ UNCHANGED keysOverlap
        BY Zenon DEF rotate_api_key
    <2>2. WITNESS new \in NewKeys, grace \in Graces, span \in Lifetimes
    <2>. QED BY <1>1, <2>1
<1>3. /\ k \in Keys /\ row \in KeyRows /\ key[k] # None /\ key[k] \in KeyRows /\ ~row.revoked
      /\ ~Rotated(k) => row.left = key[k].left
      /\ k \notin keysOverlap => row = key[k] /\ Loaded(k) = {r}
    BY <1>0, <1>1, <1>2 DEF KeysShape, LoadedInv, LoadedStands, KeyReqs
<1>4. new \in Keys /\ key[new] = None /\ new # k /\ new # None
    BY <1>2, <1>3, NewKeyUnissued, KeysAssumption DEF Keys
<1>5. PICK fresh, old : fresh = FreshKey(span) /\ old = Retired(row, key[k], grace, new)
    OBVIOUS
<1>6. /\ fresh \in KeyRows /\ fresh.left = span /\ fresh.successor = None /\ ~fresh.revoked
      /\ span \in Nat /\ grace \in Nat
    BY <1>5, FreshRow, KeysAssumption
<1>7. /\ old \in KeyRows /\ old.successor = new
      /\ key[k].revoked => old.revoked
      /\ ~old.revoked => /\ grace > 0 /\ old.left \in {grace, key[k].left}
                         /\ key[k].left = row.left => old.left <= grace /\ old.left <= key[k].left
    <2>1. row \in KeyRows /\ key[k] \in KeyRows /\ grace \in Graces /\ new \in Keys
        BY <1>2, <1>3, <1>4
    <2>2. /\ Retired(row, key[k], grace, new) \in KeyRows
          /\ Retired(row, key[k], grace, new).successor = new
          /\ key[k].revoked => Retired(row, key[k], grace, new).revoked
          /\ ~Retired(row, key[k], grace, new).revoked =>
                /\ grace > 0
                /\ Retired(row, key[k], grace, new).left \in {grace, key[k].left}
                /\ Retired(row, key[k], grace, new).left <= grace \/ key[k].left # row.left
                /\ Retired(row, key[k], grace, new).left <= key[k].left \/ key[k].left # row.left
        BY <2>1, RetiredRow
    <2>. QED BY <1>5, <2>2
<1>8. key' = [key EXCEPT ![new] = fresh, ![k] = old]
    BY <1>2, <1>5
<1>9. /\ key' \in [Keys -> KeyRows \cup {None}]
      /\ key'[new] = fresh /\ key'[k] = old /\ fresh # None /\ old # None
      /\ \A j \in Keys \ {k, new} : key'[j] = key[j]
    BY <1>0, <1>3, <1>4, <1>6, <1>7, <1>8 DEF KeysShape
<1>10. /\ keyRequest' \in [KeyRequests -> KeyReqs \cup {None}] /\ keyRequest'[r] = None
       /\ \A q \in KeyRequests : q # r => keyRequest'[q] = keyRequest[q]
    BY <1>0, <1>2 DEF KeysShape
<1>11. /\ asked' \in [Keys -> Nat \cup {None}]
       /\ asked'[k] \in Nat /\ asked'[k] >= grace /\ (asked[k] \in Nat => asked'[k] >= asked[k])
       /\ \A j \in Keys : j # k => asked'[j] = asked[j]
    <2>1. PICK g : g = IF asked[k] = None THEN grace ELSE IF asked[k] > grace THEN asked[k] ELSE grace
        OBVIOUS
    <2>2. asked' = [asked EXCEPT ![k] = g] /\ asked[k] \in Nat \cup {None}
        BY <1>0, <1>2, <1>3, <2>1 DEF KeysShape
    <2>3. g \in Nat /\ g >= grace /\ (asked[k] \in Nat => g >= asked[k])
        BY <1>0, <1>6, <2>1, <2>2
    <2>. QED BY <1>0, <1>3, <2>2, <2>3 DEF KeysShape
<1>12. /\ promised' \in [Keys -> Nat \cup {None}] /\ promised'[new] = span
       /\ promised'[k] \in {grace, promised[k]} /\ promised'[k] \in Nat
       /\ \A j \in Keys \ {k, new} : promised'[j] = promised[j]
    <2>1. promised[k] \in Nat
        BY <1>0, <1>3 DEF KeysShape
    <2>2. PICK g : g = Least2(promised[k], grace)
        OBVIOUS
    <2>3. g \in {grace, promised[k]} /\ g \in Nat
        BY <1>6, <2>1, <2>2 DEF Least2
    <2>4. promised' = [promised EXCEPT ![new] = span, ![k] = g]
        BY <1>0, <1>2, <1>4, <2>2 DEF KeysShape
    <2>. QED BY <1>0, <1>3, <1>4, <1>6, <2>3, <2>4 DEF KeysShape
<1>13. Rotated(k)' /\ ~Rotated(new)' /\ \A j \in Keys \ {k, new} : Rotated(j)' <=> Rotated(j)
    BY <1>4, <1>6, <1>7, <1>9 DEF Rotated
<1>14. KeysShape'
    <2>1. parents' \in [Keys -> SUBSET Keys] /\ afterRevoke' \subseteq Keys /\ keysOverlap' \subseteq Keys
        BY <1>0, <1>2, <1>3, <1>4 DEF KeysShape
    <2>2. \A j \in Keys : key'[j] # None => promised'[j] \in Nat
        BY <1>0, <1>6, <1>9, <1>12 DEF KeysShape
    <2>3. \A j \in Keys : key[j] # None => key'[j] # None
        BY <1>9
    <2>4. \A j \in Keys : Rotated(j)' => key'[key'[j].successor] # None
        <3>. SUFFICES ASSUME NEW j \in Keys, Rotated(j)' PROVE key'[key'[j].successor] # None
            OBVIOUS
        <3>1. CASE j = k
            BY <1>7, <1>9, <3>1
        <3>2. CASE j # k
            <4>1. Rotated(j) /\ key'[j] = key[j] /\ key[j] \in KeyRows
                BY <1>0, <1>9, <1>13, <3>2 DEF KeysShape, Rotated
            <4>2. key[j].successor \in Keys
                BY <4>1 DEF KeyRows, Rotated
            <4>. QED BY <1>0, <2>3, <4>1, <4>2 DEF KeysShape
        <3>. QED BY <3>1, <3>2
    <2>. QED BY <1>9, <1>10, <1>11, <1>12, <2>1, <2>2, <2>4 DEF KeysShape
<1>15. LoadedInv'
    <2>. SUFFICES ASSUME NEW q \in KeyRequests, keyRequest'[q] # None
                  PROVE  LoadedStands(q, keyRequest[q].of, keyRequest[q].row)'
        BY <1>10 DEF LoadedInv, LoadedStands
    <2>0. PICK j, w : j = keyRequest[q].of /\ w = keyRequest[q].row
        OBVIOUS
    <2>1. q # r /\ keyRequest[q] # None /\ keyRequest'[q] = keyRequest[q] /\ j \in Keys
        BY <1>0, <1>10, <2>0 DEF KeysShape, KeyReqs
    <2>2. LoadedStands(q, j, w)
        BY <1>0, <2>0, <2>1 DEF LoadedInv
    <2>3. CASE j = k
        <3>1. q \in Loaded(k) /\ r \in Loaded(k)
            BY <1>1, <1>2, <2>0, <2>1, <2>3 DEF Loaded
        <3>2. k \in keysOverlap
            BY <1>3, <2>1, <3>1
        <3>3. LoadedStands(q, j, w)'
            BY <1>2, <1>9, <1>13, <2>1, <2>2, <2>3, <3>2 DEF LoadedStands
        <3>. QED BY <2>0, <2>1, <3>3 DEF LoadedStands
    <2>4. CASE j # k
        <3>1. j # new /\ key'[j] = key[j] /\ (Rotated(j)' <=> Rotated(j))
            BY <1>4, <1>9, <1>13, <2>1, <2>2, <2>4 DEF LoadedStands
        <3>2. Loaded(j)' = Loaded(j)
            BY <1>1, <1>10, <2>4 DEF Loaded
        <3>3. LoadedStands(q, j, w)'
            BY <1>2, <2>1, <2>2, <3>1, <3>2 DEF LoadedStands
        <3>. QED BY <2>0, <2>1, <3>3 DEF LoadedStands
    <2>. QED BY <2>3, <2>4
<1>16. GraceInv'
    <2>. SUFFICES ASSUME NEW j \in Keys, Rotated(j)', ~key'[j].revoked
                  PROVE  asked'[j] \in Nat /\ key'[j].left <= asked'[j]
        BY DEF GraceInv
    <2>1. CASE j = k
        <3>1. ~old.revoked /\ ~key[k].revoked
            BY <1>7, <1>9, <2>1
        <3>2. CASE Rotated(k)
            <4>1. asked[k] \in Nat /\ key[k].left <= asked[k] /\ key[k].left \in Nat
                BY <1>0, <1>3, <3>1, <3>2 DEF GraceInv, KeyRows
            <4>. QED BY <1>6, <1>7, <1>9, <1>11, <2>1, <3>1, <4>1
        <3>3. CASE ~Rotated(k)
            <4>1. old.left <= grace /\ old.left \in Nat
                BY <1>3, <1>7, <3>1, <3>3 DEF KeyRows
            <4>. QED BY <1>6, <1>9, <1>11, <2>1, <4>1
        <3>. QED BY <3>2, <3>3
    <2>2. CASE j # k
        BY <1>0, <1>9, <1>11, <1>13, <2>2 DEF GraceInv
    <2>. QED BY <2>1, <2>2
<1>17. PromiseInv'
    <2>. SUFFICES ASSUME NEW j \in Keys \ keysOverlap, key'[j] # None, ~key'[j].revoked
                  PROVE  key'[j].left <= promised'[j]
        BY <1>2 DEF PromiseInv
    <2>1. CASE j = k
        <3>1. ~old.revoked /\ ~key[k].revoked /\ row = key[k]
            BY <1>3, <1>7, <1>9, <2>1
        <3>2. key[k].left <= promised[k] /\ key[k].left \in Nat /\ promised[k] \in Nat
            BY <1>0, <1>3, <2>1, <3>1 DEF PromiseInv, KeysShape, KeyRows
        <3>3. old.left <= grace /\ old.left <= key[k].left /\ old.left \in Nat
            BY <1>7, <3>1 DEF KeyRows
        <3>. QED BY <1>6, <1>9, <1>12, <2>1, <3>2, <3>3
    <2>2. CASE j = new
        BY <1>6, <1>9, <1>12, <2>2
    <2>3. CASE j \notin {k, new}
        BY <1>0, <1>9, <1>12, <2>3 DEF PromiseInv
    <2>. QED BY <2>1, <2>2, <2>3
<1>18. LineInv'
    <2>1. afterRevoke' \subseteq Issued'
        BY <1>0, <1>2, <1>3, <1>4, <1>9 DEF LineInv, Issued
    <2>2. ASSUME NEW j \in afterRevoke' PROVE parents'[j] \subseteq keysOverlap
        <3>1. CASE j = new
            <4>1. key[k].revoked
                BY <1>0, <1>2, <1>4, <2>2, <3>1 DEF LineInv, Issued
            <4>2. k \in keysOverlap
                BY <1>3, <4>1
            <4>. QED BY <1>0, <1>2, <1>4, <3>1, <4>2 DEF KeysShape
        <3>2. CASE j # new
            <4>1. j \in afterRevoke /\ parents'[j] = parents[j]
                BY <1>0, <1>2, <2>2, <3>2 DEF KeysShape
            <4>. QED BY <1>0, <4>1 DEF LineInv, RevokedEndsTheLine
        <3>. QED BY <3>1, <3>2
    <2>. QED BY <1>2, <2>1, <2>2 DEF LineInv, RevokedEndsTheLine
<1>. QED BY <1>14, <1>15, <1>16, <1>17, <1>18 DEF KeysInv

LEMMA KeysStep ==
    ASSUME KeysInv, [KeysNext]_keyVars
    PROVE  KeysInv'
<1>0. KeysShape /\ LoadedInv /\ GraceInv /\ PromiseInv /\ LineInv /\ None \notin Nat /\ None \notin KeyRows
    BY KeysAssumption DEF KeysInv
<1>1. CASE create_api_key
    <2>1. PICK new \in NewKeys, n \in Lifetimes :
            /\ key' = [key EXCEPT ![new] = FreshKey(n)]
            /\ promised' = [promised EXCEPT ![new] = n]
            /\ UNCHANGED <<keyRequest, asked, parents, afterRevoke, keysOverlap>>
        BY <1>1 DEF create_api_key
    <2>2. new \in Keys /\ key[new] = None
        BY <2>1, NewKeyUnissued
    <2>3. PICK fresh : fresh = FreshKey(n)
        OBVIOUS
    <2>4. /\ fresh \in KeyRows /\ fresh # None /\ fresh.left = n
          /\ fresh.successor = None /\ ~fresh.revoked /\ n \in Nat
        BY <2>3, FreshRow
    <2>5. /\ key' \in [Keys -> KeyRows \cup {None}] /\ key'[new] = fresh
          /\ \A j \in Keys : j # new => key'[j] = key[j]
          /\ promised' \in [Keys -> Nat \cup {None}] /\ promised'[new] = n
          /\ \A j \in Keys : j # new => promised'[j] = promised[j]
        BY <1>0, <2>1, <2>2, <2>3, <2>4 DEF KeysShape
    <2>6. ~Rotated(new)' /\ \A j \in Keys : j # new => (Rotated(j)' <=> Rotated(j))
        BY <2>4, <2>5 DEF Rotated
    <2>7. \A j \in Keys : key[j] # None => key'[j] = key[j]
        BY <2>2, <2>5
    <2>8. \A j \in Keys : Rotated(j) => key[j].successor \in Keys
        BY <1>0 DEF KeysShape, KeyRows, Rotated
    <2>9. KeysShape'
        <3>1. \A j \in Keys : Rotated(j)' => key'[key'[j].successor] # None
            BY <1>0, <2>5, <2>6, <2>7, <2>8 DEF KeysShape
        <3>. QED BY <1>0, <2>1, <2>4, <2>5, <3>1 DEF KeysShape
    <2>10. LoadedInv'
        <3>. SUFFICES ASSUME NEW q \in KeyRequests, keyRequest[q] # None
                      PROVE  LoadedStands(q, keyRequest[q].of, keyRequest[q].row)'
            BY <2>1 DEF LoadedInv
        <3>1. keyRequest[q].of \in Keys /\ LoadedStands(q, keyRequest[q].of, keyRequest[q].row)
            BY <1>0 DEF KeysShape, LoadedInv, KeyReqs
        <3>. QED BY <2>1, <2>2, <2>5, <2>6, <3>1 DEF LoadedStands, Loaded
    <2>11. GraceInv' /\ PromiseInv'
        BY <1>0, <2>1, <2>4, <2>5, <2>6 DEF GraceInv, PromiseInv
    <2>12. LineInv'
        BY <1>0, <2>1, <2>7 DEF LineInv, Issued, RevokedEndsTheLine
    <2>. QED BY <2>9, <2>10, <2>11, <2>12 DEF KeysInv
<1>2. ASSUME NEW r \in KeyRequests, NEW k \in Keys, NEW what \in {"rotate", "revoke"}, LoadKey(r, k, what)
      PROVE  KeysInv'
    <2>1. PICK req : req = [what |-> what, of |-> k, row |-> key[k]]
        OBVIOUS
    <2>2. /\ keyRequest[r] = None /\ key[k] # None /\ (what = "rotate" => ~key[k].revoked)
          /\ keyRequest' = [keyRequest EXCEPT ![r] = req]
          /\ keysOverlap' = IF Loaded(k) = {} THEN keysOverlap ELSE keysOverlap \cup {k}
          /\ UNCHANGED <<key, asked, promised, parents, afterRevoke>>
        BY <1>2, <2>1 DEF LoadKey, MayLoad
    <2>3. req \in KeyReqs /\ req.what = what /\ req.of = k /\ req.row = key[k]
        BY <1>0, <2>1, <2>2 DEF KeyReqs, KeysShape
    <2>4. /\ keyRequest' \in [KeyRequests -> KeyReqs \cup {None}] /\ keyRequest'[r] = req
          /\ \A q \in KeyRequests : q # r => keyRequest'[q] = keyRequest[q]
        BY <1>0, <2>2, <2>3 DEF KeysShape
    <2>5. keysOverlap \subseteq keysOverlap' /\ keysOverlap' \subseteq Keys
        BY <1>0, <2>2 DEF KeysShape
    <2>6. KeysShape'
        BY <1>0, <2>2, <2>4, <2>5 DEF KeysShape, Rotated
    <2>7. LoadedInv'
        <3>. SUFFICES ASSUME NEW q \in KeyRequests, keyRequest'[q] # None
                      PROVE  LoadedStands(q, keyRequest[q].of, keyRequest[q].row)'
            BY DEF LoadedInv, LoadedStands, Rotated, Loaded
        <3>1. CASE q = r
            <4>1. ASSUME k \notin keysOverlap' PROVE Loaded(k)' = {r}
                <5>1. Loaded(k) = {}
                    BY <2>2, <4>1
                <5>2. req # None
                    BY <2>4, <3>1
                <5>3. \A p \in KeyRequests : p \in Loaded(k)' <=> p = r
                    BY <2>3, <2>4, <5>1, <5>2 DEF Loaded
                <5>. QED BY <5>3 DEF Loaded
            <4>2. LoadedStands(r, k, key[k])'
                BY <2>2, <2>3, <2>4, <4>1 DEF LoadedStands
            <4>. QED BY <2>2, <2>3, <2>4, <3>1, <4>2 DEF LoadedStands
        <3>2. CASE q # r
            <4>0. PICK j, w : j = keyRequest[q].of /\ w = keyRequest[q].row
                OBVIOUS
            <4>1. keyRequest'[q] = keyRequest[q] /\ LoadedStands(q, j, w)
                BY <1>0, <2>4, <3>2, <4>0 DEF LoadedInv
            <4>2. j = k => k \in keysOverlap'
                BY <2>2, <4>0, <4>1, <2>4, <3>2 DEF Loaded
            <4>3. j # k => Loaded(j)' = Loaded(j)
                BY <2>2, <2>3, <2>4 DEF Loaded
            <4>4. LoadedStands(q, j, w)'
                BY <2>2, <2>5, <4>1, <4>2, <4>3 DEF LoadedStands, Rotated
            <4>. QED BY <4>0, <4>1, <4>4 DEF LoadedStands
        <3>. QED BY <3>1, <3>2
    <2>8. GraceInv' /\ PromiseInv' /\ LineInv'
        BY <1>0, <2>2, <2>5 DEF GraceInv, PromiseInv, LineInv, RevokedEndsTheLine, Rotated, Issued
    <2>. QED BY <2>6, <2>7, <2>8 DEF KeysInv
<1>3. ASSUME NEW r \in KeyRequests, revoke_api_key(r) PROVE KeysInv'
    <2>1. PICK k : k = keyRequest[r].of
        OBVIOUS
    <2>2. /\ keyRequest[r] # None /\ keyRequest[r].what = "revoke"
          /\ key' = [key EXCEPT ![k].revoked = TRUE]
          /\ keyRequest' = [keyRequest EXCEPT ![r] = None]
          /\ UNCHANGED <<asked, promised, parents, afterRevoke, keysOverlap>>
        BY <1>3, <2>1 DEF revoke_api_key
    <2>3. /\ k \in Keys /\ key[k] # None /\ key[k] \in KeyRows
          /\ k \notin keysOverlap => Loaded(k) = {r}
        BY <1>0, <2>1, <2>2 DEF KeysShape, LoadedInv, LoadedStands, KeyReqs
    <2>4. PICK gone : gone = [key[k] EXCEPT !.revoked = TRUE]
        OBVIOUS
    <2>5. /\ gone \in KeyRows /\ gone.revoked /\ gone.left = key[k].left /\ gone.successor = key[k].successor
          /\ gone # None
        BY <1>0, <2>3, <2>4 DEF KeyRows
    <2>6. key' = [key EXCEPT ![k] = gone]
        BY <1>0, <2>2, <2>3, <2>4 DEF KeysShape
    <2>7. /\ key' \in [Keys -> KeyRows \cup {None}] /\ key'[k] = gone
          /\ \A j \in Keys : j # k => key'[j] = key[j]
        BY <1>0, <2>3, <2>5, <2>6 DEF KeysShape
    <2>8. \A j \in Keys : /\ Rotated(j)' <=> Rotated(j)
                          /\ key'[j] # None <=> key[j] # None
                          /\ key[j] # None => key'[j].successor = key[j].successor /\ key'[j].left = key[j].left
        BY <2>3, <2>5, <2>7 DEF Rotated
    <2>9. /\ keyRequest' \in [KeyRequests -> KeyReqs \cup {None}] /\ keyRequest'[r] = None
          /\ \A q \in KeyRequests : q # r => keyRequest'[q] = keyRequest[q]
        BY <1>0, <2>2 DEF KeysShape
    <2>10. KeysShape'
        <3>1. \A j \in Keys : Rotated(j) => key[j].successor \in Keys
            BY <1>0 DEF KeysShape, KeyRows, Rotated
        <3>2. \A j \in Keys : Rotated(j)' => key'[key'[j].successor] # None
            BY <1>0, <2>8, <3>1 DEF KeysShape, Rotated
        <3>. QED BY <1>0, <2>2, <2>7, <2>8, <2>9, <3>2 DEF KeysShape
    <2>11. LoadedInv'
        <3>. SUFFICES ASSUME NEW q \in KeyRequests, keyRequest'[q] # None
                      PROVE  LoadedStands(q, keyRequest[q].of, keyRequest[q].row)'
            BY DEF LoadedInv, LoadedStands, Rotated, Loaded
        <3>0. PICK j, w : j = keyRequest[q].of /\ w = keyRequest[q].row
            OBVIOUS
        <3>1. /\ q # r /\ keyRequest[q] # None /\ keyRequest'[q] = keyRequest[q] /\ j \in Keys
            BY <1>0, <2>9, <3>0 DEF KeysShape, KeyReqs
        <3>2. LoadedStands(q, j, w)
            BY <1>0, <3>0, <3>1 DEF LoadedInv
        <3>3. j = k => k \in keysOverlap
            BY <2>1, <2>2, <2>3, <3>0, <3>1 DEF Loaded
        <3>4. j # k => Loaded(j)' = Loaded(j) /\ key'[j] = key[j]
            BY <2>1, <2>7, <2>9, <3>1 DEF Loaded
        <3>5. LoadedStands(q, j, w)'
            BY <2>2, <2>8, <3>1, <3>2, <3>3, <3>4 DEF LoadedStands
        <3>. QED BY <3>0, <3>1, <3>5 DEF LoadedStands
    <2>12. GraceInv' /\ PromiseInv'
        BY <1>0, <2>2, <2>5, <2>7, <2>8 DEF GraceInv, PromiseInv
    <2>13. LineInv'
        BY <1>0, <2>2, <2>8 DEF LineInv, Issued, RevokedEndsTheLine
    <2>. QED BY <2>10, <2>11, <2>12, <2>13 DEF KeysInv
<1>4. CASE TimePasses
    <2>0. \A n \in Nat : Down(n) \in Nat /\ Down(n) <= n /\ \A m \in Nat : n <= m => Down(n) <= Down(m)
        BY <1>0 DEF Down
    <2>1. /\ key' = [k \in Keys |-> IF key[k] = None THEN None ELSE [key[k] EXCEPT !.left = Down(@)]]
          /\ keyRequest' = [r \in KeyRequests |->
                IF keyRequest[r] = None THEN None ELSE [keyRequest[r] EXCEPT !.row.left = Down(@)]]
          /\ asked' = [k \in Keys |-> Down(asked[k])] /\ promised' = [k \in Keys |-> Down(promised[k])]
          /\ UNCHANGED <<parents, afterRevoke, keysOverlap>>
        BY <1>4 DEF TimePasses
    <2>2. ASSUME NEW k \in Keys
          PROVE  /\ key'[k] \in KeyRows \cup {None} /\ (key'[k] = None <=> key[k] = None)
                 /\ key[k] # None =>
                        /\ key'[k] = [key[k] EXCEPT !.left = Down(@)]
                        /\ key'[k].left = Down(key[k].left) /\ key[k].left \in Nat
                        /\ key'[k].revoked = key[k].revoked
                        /\ key'[k].successor = key[k].successor /\ key[k].successor \in Keys \cup {None}
        <3>1. CASE key[k] = None
            BY <2>1, <3>1
        <3>2. CASE key[k] # None
            <4>1. key[k] \in KeyRows /\ key'[k] = [key[k] EXCEPT !.left = Down(@)]
                BY <1>0, <2>1, <3>2 DEF KeysShape
            <4>2. key[k].left \in Nat /\ Down(key[k].left) \in Nat
                BY <2>0, <4>1 DEF KeyRows
            <4>. QED BY <1>0, <3>2, <4>1, <4>2 DEF KeyRows
        <3>. QED BY <3>1, <3>2
    <2>3. \A k \in Keys : Rotated(k)' <=> Rotated(k)
        BY <2>2 DEF Rotated
    <2>4. \A k \in Keys : /\ asked'[k] = Down(asked[k]) /\ promised'[k] = Down(promised[k])
                          /\ asked'[k] \in Nat \cup {None} /\ promised'[k] \in Nat \cup {None}
        <3>1. Down(None) = None
            BY DEF Down
        <3>. QED BY <1>0, <2>0, <2>1, <3>1 DEF KeysShape
    <2>5. ASSUME NEW r \in KeyRequests
          PROVE  /\ keyRequest'[r] \in KeyReqs \cup {None}
                 /\ keyRequest'[r] # None => keyRequest[r] # None
                 /\ keyRequest[r] # None =>
                        /\ keyRequest'[r] \in KeyReqs
                        /\ keyRequest'[r].of = keyRequest[r].of /\ keyRequest'[r].what = keyRequest[r].what
                        /\ keyRequest'[r].row = [keyRequest[r].row EXCEPT !.left = Down(@)]
                        /\ keyRequest'[r].row.left = Down(keyRequest[r].row.left)
                        /\ keyRequest'[r].row.revoked = keyRequest[r].row.revoked
        <3>1. CASE keyRequest[r] = None
            BY <2>1, <3>1
        <3>2. CASE keyRequest[r] # None
            <4>1. keyRequest[r] \in KeyReqs /\ keyRequest'[r] = [keyRequest[r] EXCEPT !.row.left = Down(@)]
                BY <1>0, <2>1, <3>2 DEF KeysShape
            <4>2. PICK w : w = [keyRequest[r].row EXCEPT !.left = Down(@)]
                OBVIOUS
            <4>3. keyRequest[r].row \in KeyRows /\ keyRequest[r].row.left \in Nat
                BY <4>1 DEF KeyReqs, KeyRows
            <4>4. Down(keyRequest[r].row.left) \in Nat
                BY <2>0, <4>3
            <4>5. w \in KeyRows /\ w.left = Down(keyRequest[r].row.left) /\ w.revoked = keyRequest[r].row.revoked
                BY <4>2, <4>3, <4>4 DEF KeyRows
            <4>6. keyRequest'[r] = [keyRequest[r] EXCEPT !.row = w]
                BY <4>1, <4>2 DEF KeyReqs
            <4>7. /\ keyRequest'[r] \in KeyReqs /\ keyRequest'[r].row = w
                  /\ keyRequest'[r].of = keyRequest[r].of /\ keyRequest'[r].what = keyRequest[r].what
                BY <4>1, <4>5, <4>6 DEF KeyReqs
            <4>. QED BY <3>2, <4>2, <4>5, <4>7
        <3>. QED BY <3>1, <3>2
    <2>6. KeysShape'
        <3>1. \A k \in Keys : key'[k] # None => promised'[k] \in Nat
            <4>. SUFFICES ASSUME NEW k \in Keys, key'[k] # None PROVE promised'[k] \in Nat
                OBVIOUS
            <4>1. promised[k] \in Nat
                BY <1>0, <2>2 DEF KeysShape
            <4>. QED BY <2>0, <2>4, <4>1
        <3>2. \A k \in Keys : Rotated(k)' => key'[key'[k].successor] # None
            <4>. SUFFICES ASSUME NEW k \in Keys, Rotated(k) PROVE key'[key'[k].successor] # None
                BY <2>3
            <4>1. /\ key[k] # None /\ key[k].successor # None /\ key'[k].successor = key[k].successor
                  /\ key[k].successor \in Keys \cup {None} /\ key[key[k].successor] # None
                BY <1>0, <2>2 DEF KeysShape, Rotated
            <4>. QED BY <2>2, <4>1
        <3>3. key' \in [Keys -> KeyRows \cup {None}]
            BY <2>1, <2>2
        <3>4. keyRequest' \in [KeyRequests -> KeyReqs \cup {None}]
            BY <2>1, <2>5
        <3>5. asked' \in [Keys -> Nat \cup {None}] /\ promised' \in [Keys -> Nat \cup {None}]
            BY <2>1, <2>4
        <3>. QED BY <1>0, <2>1, <3>1, <3>2, <3>3, <3>4, <3>5 DEF KeysShape
    <2>7. LoadedInv'
        <3>. SUFFICES ASSUME NEW q \in KeyRequests, keyRequest'[q] # None
                      PROVE  LoadedStands(q, keyRequest[q].of, keyRequest[q].row)'
            BY DEF LoadedInv, LoadedStands, Rotated, Loaded
        <3>0. PICK j, w : j = keyRequest[q].of /\ w = keyRequest[q].row
            OBVIOUS
        <3>1. keyRequest[q] # None /\ j \in Keys /\ LoadedStands(q, j, w)
            BY <1>0, <2>5, <3>0 DEF KeysShape, KeyReqs, LoadedInv
        <3>2. Loaded(j) = {q} => Loaded(j)' = {q}
            BY <2>5, <3>0, <3>1 DEF Loaded
        <3>3. PICK v : v = [w EXCEPT !.left = Down(@)]
            OBVIOUS
        <3>4. /\ keyRequest'[q].row = v /\ keyRequest'[q].of = j /\ keyRequest'[q].what = keyRequest[q].what
              /\ v.left = Down(w.left) /\ v.revoked = w.revoked
            BY <2>5, <3>0, <3>1, <3>3
        <3>5. j \notin keysOverlap => v = key'[j]
            BY <2>2, <3>1, <3>3 DEF LoadedStands
        <3>6. LoadedStands(q, j, v)'
            <4>1. /\ key[j] # None /\ (~Rotated(j) => w.left = key[j].left)
                  /\ keyRequest[q].what = "rotate" => ~w.revoked
                  /\ j \notin keysOverlap => Loaded(j) = {q}
                BY <3>1 DEF LoadedStands
            <4>2. keyRequest'[q].what = "rotate" => ~v.revoked
                BY <3>4, <4>1
            <4>3. key'[j] # None /\ (~Rotated(j)' => v.left = key'[j].left)
                BY <2>2, <2>3, <3>1, <3>4, <4>1
            <4>4. j \notin keysOverlap' => v = key'[j] /\ Loaded(j)' = {q}
                BY <2>1, <3>2, <3>5, <4>1
            <4>. QED BY <4>2, <4>3, <4>4 DEF LoadedStands
        <3>. QED BY <3>4, <3>6 DEF LoadedStands
    <2>8. GraceInv'
        <3>. SUFFICES ASSUME NEW k \in Keys, Rotated(k), ~key'[k].revoked
                      PROVE  asked'[k] \in Nat /\ key'[k].left <= asked'[k]
            BY <2>3 DEF GraceInv
        <3>1. key[k] # None /\ key[k].left \in Nat /\ key'[k].left = Down(key[k].left) /\ ~key[k].revoked
            BY <2>2 DEF Rotated
        <3>2. asked[k] \in Nat /\ key[k].left <= asked[k] /\ asked'[k] = Down(asked[k])
            BY <1>0, <2>4, <3>1 DEF GraceInv
        <3>. QED BY <2>0, <3>1, <3>2
    <2>9. PromiseInv'
        BY <1>0, <2>0, <2>1, <2>2, <2>4 DEF PromiseInv, KeysShape
    <2>10. LineInv'
        BY <1>0, <2>1, <2>2 DEF LineInv, Issued, RevokedEndsTheLine
    <2>. QED BY <2>6, <2>7, <2>8, <2>9, <2>10 DEF KeysInv
<1>5. CASE UNCHANGED keyVars
    BY <1>5 DEF keyVars, KeysInv, KeysShape, LoadedInv, LoadedStands, GraceInv, PromiseInv, LineInv,
                Loaded, Issued, Rotated, RevokedEndsTheLine
<1>. QED BY <1>1, <1>2, <1>3, <1>4, <1>5, RotationKeeps DEF KeysNext

LEMMA KeysInvariant == KeysSpec => []KeysInv
<1>1. KeyInit => KeysInv
    BY KeysAssumption DEF KeyInit, KeysInv, KeysShape, LoadedInv, GraceInv, PromiseInv, LineInv,
                          Issued, Rotated, RevokedEndsTheLine
<1>2. KeysInv /\ [KeysNext]_keyVars => KeysInv'
    BY KeysStep
<1>. QED BY <1>1, <1>2, PTL DEF KeysSpec

(* For any number of keys and requests, however they overlap: a key that   *)
(* was superseded is of no use once the longest grace asked for it is      *)
(* over, one that no two requests held at once never outlives what was     *)
(* agreed for it, and a revoked one is not replaced unless its rotation    *)
(* overlapped (rotate_api_key, revoke_api_key).                            *)
THEOREM KeysAlwaysEnd == KeysSpec => []KeysEnd
<1>1. ASSUME KeysInv PROVE SupersededKeyEnds
    <2>. SUFFICES ASSUME NEW k \in Keys, Rotated(k), Usable(k) PROVE asked[k] > 0
        BY DEF SupersededKeyEnds
    <2>1. asked[k] \in Nat /\ key[k].left <= asked[k] /\ key[k].left > 0 /\ key[k].left \in Nat
        BY <1>1 DEF KeysInv, KeysShape, GraceInv, Usable, KeyRows
    <2>. QED BY <2>1
<1>2. ASSUME KeysInv PROVE LifeOnlyShortens
    <2>. SUFFICES ASSUME NEW k \in Keys, Usable(k), k \notin keysOverlap PROVE promised[k] > 0
        BY DEF LifeOnlyShortens
    <2>1. promised[k] \in Nat /\ key[k].left <= promised[k] /\ key[k].left > 0 /\ key[k].left \in Nat
        BY <1>2 DEF KeysInv, KeysShape, PromiseInv, Usable, KeyRows
    <2>. QED BY <2>1
<1>3. KeysInv => KeysEnd
    BY <1>1, <1>2 DEF KeysInv, LineInv, KeysEnd
<1>. QED BY <1>3, KeysInvariant, PTL

(* The types of the rows and requests; a successor is a key that exists.   *)
THEOREM KeysTypeCorrect == KeysSpec => []KeysTypeOK
<1>1. KeysInv => KeysTypeOK
    BY DEF KeysInv, KeysShape, KeysTypeOK, KeyRows, Rotated
<1>. QED BY <1>1, KeysInvariant, PTL

-----------------------------------------------------------------------------
(* The versions of a policy.                                                *)

Statuses == {"draft", "active", "superseded"}

PolicyRows ==
    [version : Nat, limits : Limits, status : Statuses, base : Nat \cup {None},
     edits : SUBSET Fields, approver : Users \cup {None}]

DraftReqs ==
    [step : {"draft"}, version : Nat, base : Nat \cup {None}, limits : Limits, edits : SUBSET Fields]
LoadedReqs ==
    [step : {"loaded"}, row : Nat, status : Statuses, approver : Users \cup {None}, by : Users,
     crossed : BOOLEAN]
DecidedReqs ==
    [step : {"decided"}, row : Nat, status : Statuses, approver : Users \cup {None}, by : Users,
     crossed : BOOLEAN, previous : SUBSET Nat]

PolicyShape ==
    /\ policies \in Seq(PolicyRows) /\ Len(policies) <= MaxRows
    /\ policyRequest \in [PolicyRequests -> DraftReqs \cup LoadedReqs \cup DecidedReqs \cup {None}]

\* A draft was seeded from the row in force then, whose limits have not
\* changed since, and differs from it in what its editor set.
BaseLimits(b, rows) == IF b = None THEN TierDefaults ELSE rows[b].limits
Drafted(x, rows) ==
    /\ x.base \in DOMAIN rows \cup {None}
    /\ x.edits = {f \in Fields : x.limits[f] # BaseLimits(x.base, rows)[f]}

MayActivate(u) == u \in Users /\ Rank(RoleOf[u]) >= Rank("compliance")

\* A row's version is its place; a row that was ever in force is valid, and
\* somebody who may activate approved it.
RowInv ==
    \A i \in Ids :
        /\ policies[i].version = i /\ Drafted(policies[i], policies)
        /\ (policies[i].approver = None) <=> (policies[i].status = "draft")
        /\ policies[i].status # "draft" => validate_policy(policies[i].limits) /\ MayActivate(policies[i].approver)

DraftInv ==
    \A r \in PolicyRequests :
        policyRequest[r] # None /\ policyRequest[r].step = "draft" =>
            /\ policyRequest[r].version \in 1..Len(policies) + 1 /\ policyRequest[r].version <= MaxRows
            /\ Drafted(policyRequest[r], policies)

\* An activation that no other crossed is the only one, and what it has loaded
\* and found is still so.
ActivationStands(r, req, rows, force, others) ==
    /\ req.row \in DOMAIN rows /\ validate_policy(rows[req.row].limits) /\ MayActivate(req.by)
    /\ req.approver # None \/ req.status # "draft" => rows[req.row].status # "draft"
    /\ req.step = "decided" =>
            \A i \in req.previous : i # req.row /\ i \in DOMAIN rows /\ rows[i].status # "draft"
    /\ ~req.crossed =>
            /\ \A s \in others : s = r
            /\ req.status = rows[req.row].status
            /\ req.step = "decided" => req.previous = force \ {req.row}

ActivationInv ==
    \A r \in Activating : ActivationStands(r, policyRequest[r], policies, Active, Activating)

SettledInv == settled # None => settled \in Ids /\ Active = {settled}

PolicyInv == PolicyShape /\ RowInv /\ DraftInv /\ ActivationInv /\ SettledInv

-----------------------------------------------------------------------------
\* Of the rows with their places for versions there is a latest one.
LEMMA LatestExists ==
    ASSUME PolicyShape, RowInv, NEW S \in SUBSET Ids, S # {}
    PROVE  Latest(S) \in S /\ \A j \in S : j <= Latest(S)
<1>1. PICK n : n = Len(policies) /\ n \in Nat /\ Ids = 1..n
    BY DEF PolicyShape, Ids
<1>2. PICK T : T = {n - i : i \in S}
    OBVIOUS
<1>3. T \subseteq Nat /\ T # {}
    <2>1. \A i \in S : i \in 1..n /\ n - i \in Nat /\ n - i \in T
        BY <1>1, <1>2
    <2>. QED BY <1>2, <2>1
<1>4. PICK m \in T : \A k \in T : <<k, m>> \notin OpToRel(<, Nat)
    BY <1>3, WFMin, NatLessThanWellFounded, Zenon
<1>5. \A k \in T : ~(k < m)
    BY <1>3, <1>4, Zenon DEF OpToRel
<1>6. PICK i \in S : m = n - i
    BY <1>2, <1>4
<1>7. \A j \in S : j <= i
    <2>. SUFFICES ASSUME NEW j \in S PROVE j <= i
        OBVIOUS
    <2>1. n - j \in T /\ i \in 1..n /\ j \in 1..n
        BY <1>1, <1>2, <1>6
    <2>2. ~(n - j < n - i)
        BY <1>5, <1>6, <2>1
    <2>. QED BY <1>1, <2>1, <2>2
<1>8. \A j \in S : policies[j].version = j
    BY DEF RowInv
<1>9. \E k \in S : \A j \in S : policies[j].version <= policies[k].version
    BY <1>6, <1>7, <1>8
<1>10. /\ Latest(S) \in S
       /\ \A j \in S : policies[j].version <= policies[Latest(S)].version
    BY <1>9 DEF Latest
<1>. QED BY <1>8, <1>10

\* The rank of a role is a number, and a key gives no more than its owner has.
LEMMA RanksAreNumbers ==
    /\ \A role \in Roles : Rank(role) \in Nat
    /\ {"viewer", "advisor", "compliance", "admin"} = Roles
<1>1. /\ ROLE_ORDER[1] = "viewer" /\ ROLE_ORDER[2] = "advisor" /\ ROLE_ORDER[3] = "compliance"
      /\ ROLE_ORDER[4] = "admin" /\ DOMAIN ROLE_ORDER = 1..4
    BY DEF ROLE_ORDER
<1>2. Roles = {ROLE_ORDER[i] : i \in 1..4}
    BY <1>1 DEF Roles, ToSet
<1>3. \A role \in Roles : \E i \in DOMAIN ROLE_ORDER : ROLE_ORDER[i] = role
    BY <1>1, <1>2
<1>4. \A role \in Roles : Rank(role) \in DOMAIN ROLE_ORDER
    BY <1>3 DEF Rank
<1>5. {"viewer", "advisor", "compliance", "admin"} = Roles
    <2>1. \A i \in 1..4 : i = 1 \/ i = 2 \/ i = 3 \/ i = 4
        OBVIOUS
    <2>2. \A role : role \in Roles <=> role \in {"viewer", "advisor", "compliance", "admin"}
        BY <1>1, <1>2, <2>1
    <2>. QED BY <2>2
<1>. QED BY <1>1, <1>4, <1>5

LEMMA PrincipalsRank ==
    ASSUME NEW p \in get_principal, can(p, "activate")
    PROVE  MayActivate(p.user)
<1>1. RoleOf \in [Users -> Roles]
    BY PrincipalsAssumption
<1>2. Rank(p.role) >= Rank("compliance")
    BY DEF can, CAPABILITIES
<1>3. CASE \E u \in Users : p = [user |-> u, role |-> RoleOf[u]]
    BY <1>2, <1>3 DEF MayActivate
<1>4. CASE \E u \in Users, r \in Roles \ {"admin"} : p = [user |-> u, role |-> KeyRole(r, u)]
    <2>1. PICK u \in Users, r \in Roles : p = [user |-> u, role |-> KeyRole(r, u)]
        BY <1>4
    <2>2. p.user = u /\ p.role = KeyRole(r, u)
        BY <2>1
    <2>3. /\ Rank(r) \in Nat /\ Rank(RoleOf[u]) \in Nat /\ Rank("compliance") \in Nat
        BY <1>1, <2>1, RanksAreNumbers
    <2>4. Rank(KeyRole(r, u)) <= Rank(RoleOf[u]) /\ Rank(KeyRole(r, u)) \in Nat
        BY <2>3 DEF KeyRole
    <2>. QED BY <1>2, <2>2, <2>3, <2>4 DEF MayActivate
<1>. QED BY <1>3, <1>4 DEF get_principal

-----------------------------------------------------------------------------
\* What is in force has a row, and drafting from it relates the draft to it.
LEMMA InForce ==
    ASSUME PolicyShape, RowInv
    PROVE  /\ Active = {} => get_active_policy = None
           /\ Active # {} => get_active_policy \in Active
           /\ get_active_policy \in Ids \cup {None}
           /\ resolve = BaseLimits(get_active_policy, policies)
<1>1. Active \subseteq Ids
    BY DEF Active
<1>2. Active # {} => get_active_policy \in Active
    BY <1>1, LatestExists DEF get_active_policy
<1>3. Active = {} => get_active_policy = None
    BY DEF get_active_policy, Latest
<1>. QED BY <1>1, <1>2, <1>3 DEF resolve, BaseLimits

\* The version a new draft asks for follows the rows there are.
LEMMA NextFollows ==
    ASSUME PolicyShape, RowInv
    PROVE  NextVersion = Len(policies) + 1
<1>1. PICK n : n = Len(policies) /\ n \in Nat /\ Ids = 1..n
    BY DEF PolicyShape, Ids
<1>2. CASE n = 0
    BY <1>1, <1>2 DEF NextVersion
<1>3. CASE n > 0
    <2>1. n \in Ids /\ Ids # {}
        BY <1>1, <1>3
    <2>2. Latest(Ids) \in Ids /\ n <= Latest(Ids)
        BY <2>1, LatestExists
    <2>3. Latest(Ids) = n
        BY <1>1, <2>2
    <2>4. policies[n].version = n
        BY <2>1 DEF RowInv
    <2>. QED BY <1>1, <2>1, <2>3, <2>4 DEF NextVersion
<1>. QED BY <1>1, <1>2, <1>3

LEMMA Begins ==
    ASSUME PolicyInv, NEW r \in PolicyRequests, BeginDraft(r)
    PROVE  PolicyInv'
<1>0. PolicyShape /\ RowInv /\ DraftInv /\ ActivationInv /\ SettledInv
    BY DEF PolicyInv
<1>1. PICK limits \in Limits :
        policyRequest' = [policyRequest EXCEPT ![r] =
            [step |-> "draft", version |-> NextVersion, base |-> get_active_policy, limits |-> limits,
             edits |-> {f \in Fields : limits[f] # Seed[f]}]]
    BY DEF BeginDraft
<1>2. policyRequest[r] = None /\ Len(policies) < MaxRows /\ UNCHANGED <<policies, settled>>
    BY DEF BeginDraft
<1>3. PICK req : req = [step |-> "draft", version |-> NextVersion, base |-> get_active_policy, limits |-> limits,
                        edits |-> {f \in Fields : limits[f] # Seed[f]}]
    OBVIOUS
<1>4. /\ req.step = "draft" /\ req.version = Len(policies) + 1 /\ Drafted(req, policies)
    BY <1>0, <1>3, NextFollows, InForce DEF Seed, Drafted, Ids
<1>5. req \in DraftReqs
    <2>1. Len(policies) \in Nat /\ Ids \subseteq Nat
        BY <1>0 DEF PolicyShape, Ids
    <2>2. NextVersion \in Nat /\ get_active_policy \in Nat \cup {None}
        <3>1. NextVersion = Len(policies) + 1 /\ get_active_policy \in Ids \cup {None}
            BY <1>0, NextFollows, InForce
        <3>. QED BY <2>1, <3>1
    <2>. QED BY <1>3, <2>2 DEF DraftReqs
<1>6. /\ policyRequest' \in [PolicyRequests -> DraftReqs \cup LoadedReqs \cup DecidedReqs \cup {None}]
      /\ policyRequest'[r] = req
      /\ \A q \in PolicyRequests : q # r => policyRequest'[q] = policyRequest[q]
    BY <1>0, <1>1, <1>3, <1>5 DEF PolicyShape
<1>7. Activating' = Activating
    BY <1>2, <1>4, <1>6 DEF Activating
<1>8. PolicyShape' /\ RowInv' /\ SettledInv'
    BY <1>0, <1>2, <1>6 DEF PolicyShape, RowInv, SettledInv, Ids, Active
<1>9. DraftInv'
    <2>. SUFFICES ASSUME NEW q \in PolicyRequests, policyRequest'[q] # None, policyRequest'[q].step = "draft"
                  PROVE  /\ policyRequest'[q].version \in 1..Len(policies) + 1
                         /\ policyRequest'[q].version <= MaxRows
                         /\ Drafted(policyRequest'[q], policies)
        BY <1>2 DEF DraftInv
    <2>1. CASE q = r
        <3>1. Len(policies) \in Nat /\ MaxRows \in Nat
            BY <1>0, PolicyAssumption DEF PolicyShape
        <3>. QED BY <1>2, <1>4, <1>6, <2>1, <3>1
    <2>2. CASE q # r
        BY <1>0, <1>6, <2>2 DEF DraftInv
    <2>. QED BY <2>1, <2>2
<1>10. ActivationInv'
    <2>1. Active' = Active
        BY <1>2 DEF Active, Ids
    <2>2. \A q \in Activating : policyRequest'[q] = policyRequest[q]
        BY <1>2, <1>6 DEF Activating
    <2>. QED BY <1>0, <1>2, <1>7, <2>1, <2>2 DEF ActivationInv
<1>. QED BY <1>8, <1>9, <1>10 DEF PolicyInv

LEMMA Drafts ==
    ASSUME PolicyInv, NEW r \in PolicyRequests, CommitDraft(r)
    PROVE  PolicyInv'
<1>0. PolicyShape /\ RowInv /\ DraftInv /\ ActivationInv /\ SettledInv
    BY DEF PolicyInv
<1>1. PICK req, n : req = policyRequest[r] /\ n = Len(policies)
    OBVIOUS
<1>2. PICK row : row = [version |-> req.version, limits |-> req.limits, status |-> "draft",
                        base |-> req.base, edits |-> req.edits, approver |-> None]
    OBVIOUS
<1>3. /\ req # None /\ req.step = "draft"
      /\ policies' = IF Taken(req.version) THEN policies ELSE Append(policies, row)
      /\ policyRequest' = [policyRequest EXCEPT ![r] = None] /\ UNCHANGED settled
    BY <1>1, <1>2 DEF CommitDraft
<1>4. n \in Nat /\ Ids = 1..n /\ policies \in Seq(PolicyRows)
    BY <1>0, <1>1 DEF PolicyShape, Ids
<1>5. req \in DraftReqs /\ req.version \in 1..n + 1 /\ req.version <= MaxRows /\ Drafted(req, policies)
    BY <1>0, <1>1, <1>3 DEF DraftInv, PolicyShape, LoadedReqs, DecidedReqs
<1>6. /\ row \in PolicyRows /\ row.version = req.version /\ row.status = "draft" /\ row.approver = None
      /\ row.base = req.base /\ row.edits = req.edits /\ row.limits = req.limits
    BY <1>2, <1>5 DEF DraftReqs, PolicyRows, Statuses
<1>7. \/ policies' = policies
      \/ policies' = Append(policies, row) /\ req.version = n + 1
    <2>1. CASE Taken(req.version)
        BY <1>3, <2>1
    <2>2. CASE ~Taken(req.version)
        <3>1. req.version \notin 1..n
            BY <1>0, <1>4, <2>2 DEF Taken, Versions, RowInv
        <3>. QED BY <1>3, <1>4, <1>5, <2>2, <3>1
    <2>. QED BY <2>1, <2>2
<1>8. /\ policies' \in Seq(PolicyRows) /\ Len(policies)' <= MaxRows
      /\ Ids \subseteq Ids' /\ n <= Len(policies)' /\ Len(policies)' \in Nat /\ Ids' = 1..Len(policies)'
      /\ \A i \in Ids : policies'[i] = policies[i]
      /\ \A i \in Ids' \ Ids : policies'[i] = row /\ row.version = i
    <2>1. CASE policies' = policies
        BY <1>0, <1>1, <1>4, <2>1 DEF PolicyShape, Ids
    <2>2. CASE policies' = Append(policies, row) /\ req.version = n + 1
        <3>1. /\ policies' \in Seq(PolicyRows) /\ Len(policies)' = n + 1 /\ Ids' = 1..n + 1
              /\ \A i \in 1..n : policies'[i] = policies[i]
              /\ policies'[n + 1] = row
            BY <1>1, <1>4, <1>6, <2>2 DEF Ids
        <3>. QED BY <1>4, <1>5, <1>6, <2>2, <3>1
    <2>. QED BY <1>7, <2>1, <2>2
<1>9. \A x : Drafted(x, policies) => Drafted(x, policies')
    BY <1>8 DEF Drafted, BaseLimits, Ids
<1>10. Active' = Active
    BY <1>6, <1>8 DEF Active
<1>11. /\ policyRequest' \in [PolicyRequests -> DraftReqs \cup LoadedReqs \cup DecidedReqs \cup {None}]
       /\ policyRequest'[r] = None
       /\ \A q \in PolicyRequests : q # r => policyRequest'[q] = policyRequest[q]
    BY <1>0, <1>3 DEF PolicyShape
<1>12. Activating' = Activating /\ r \notin Activating
    BY <1>1, <1>3, <1>11 DEF Activating
<1>13. PolicyShape'
    BY <1>8, <1>11 DEF PolicyShape
<1>14. RowInv'
    <2>. SUFFICES ASSUME NEW i \in Ids'
                  PROVE  /\ policies'[i].version = i /\ Drafted(policies'[i], policies')
                         /\ (policies'[i].approver = None) <=> (policies'[i].status = "draft")
                         /\ policies'[i].status # "draft" =>
                                validate_policy(policies'[i].limits) /\ MayActivate(policies'[i].approver)
        BY DEF RowInv
    <2>1. CASE i \in Ids
        BY <1>0, <1>8, <1>9, <2>1 DEF RowInv
    <2>2. CASE i \notin Ids
        <3>1. policies'[i] = row /\ row.version = i
            BY <1>8, <2>2
        <3>2. Drafted(row, policies')
            BY <1>5, <1>6, <1>9 DEF Drafted
        <3>. QED BY <1>6, <3>1, <3>2
    <2>. QED BY <2>1, <2>2
<1>15. DraftInv'
    <2>. SUFFICES ASSUME NEW q \in PolicyRequests, policyRequest'[q] # None, policyRequest'[q].step = "draft"
                  PROVE  /\ policyRequest'[q].version \in 1..Len(policies') + 1
                         /\ policyRequest'[q].version <= MaxRows
                         /\ Drafted(policyRequest'[q], policies')
        BY DEF DraftInv
    <2>1. policyRequest'[q] = policyRequest[q]
        BY <1>11
    <2>2. /\ policyRequest[q].version \in 1..n + 1 /\ policyRequest[q].version <= MaxRows
          /\ Drafted(policyRequest[q], policies)
        BY <1>0, <1>1, <2>1 DEF DraftInv
    <2>. QED BY <1>4, <1>8, <1>9, <2>1, <2>2
<1>16. ActivationInv'
    <2>. SUFFICES ASSUME NEW q \in Activating
                  PROVE  ActivationStands(q, policyRequest'[q], policies', Active, Activating)
        BY <1>10, <1>12 DEF ActivationInv
    <2>1. q \in PolicyRequests /\ policyRequest'[q] = policyRequest[q]
        BY <1>11, <1>12 DEF Activating
    <2>2. ActivationStands(q, policyRequest[q], policies, Active, Activating)
        BY <1>0 DEF ActivationInv
    <2>3. \A i \in DOMAIN policies : i \in DOMAIN policies' /\ policies'[i] = policies[i]
        BY <1>8 DEF Ids
    <2>. QED BY <2>1, <2>2, <2>3 DEF ActivationStands
<1>17. SettledInv'
    BY <1>0, <1>3, <1>8, <1>10 DEF SettledInv
<1>. QED BY <1>13, <1>14, <1>15, <1>16, <1>17 DEF PolicyInv

LEMMA Loads ==
    ASSUME PolicyInv, NEW r \in PolicyRequests, BeginActivation(r)
    PROVE  PolicyInv'
<1>0. PolicyShape /\ RowInv /\ DraftInv /\ ActivationInv /\ SettledInv
    BY DEF PolicyInv
<1>1. PICK p \in get_principal, i \in Ids :
        /\ policyRequest[r] = None /\ can(p, "activate")
        /\ validate_policy(policies[i].limits)
        /\ policyRequest' = [Crossed(policyRequest, Activating) EXCEPT ![r] =
            [step |-> "loaded", row |-> i, status |-> policies[i].status, approver |-> policies[i].approver,
             by |-> p.user, crossed |-> Activating # {}]]
        /\ UNCHANGED <<policies, settled>>
    BY DEF BeginActivation
<1>2. PICK req : req = [step |-> "loaded", row |-> i, status |-> policies[i].status,
                        approver |-> policies[i].approver, by |-> p.user, crossed |-> Activating # {}]
    OBVIOUS
<1>3. MayActivate(p.user) /\ p.user \in Users
    BY <1>1, PrincipalsRank DEF MayActivate
<1>4. policies[i] \in PolicyRows /\ i \in Nat
    BY <1>0 DEF PolicyShape, Ids
<1>5. req \in LoadedReqs /\ req.step = "loaded" /\ req.crossed = (Activating # {})
    <2>1. (Activating # {}) \in BOOLEAN
        OBVIOUS
    <2>. QED BY <1>2, <1>3, <1>4, <2>1, Zenon DEF LoadedReqs, PolicyRows
<1>6. ASSUME NEW q \in PolicyRequests
      PROVE  /\ Crossed(policyRequest, Activating)[q] \in DraftReqs \cup LoadedReqs \cup DecidedReqs \cup {None}
             /\ q \notin Activating => Crossed(policyRequest, Activating)[q] = policyRequest[q]
             /\ q \in Activating =>
                    /\ Crossed(policyRequest, Activating)[q].crossed
                    /\ Crossed(policyRequest, Activating)[q].step = policyRequest[q].step
                    /\ Crossed(policyRequest, Activating)[q].row = policyRequest[q].row
                    /\ Crossed(policyRequest, Activating)[q].by = policyRequest[q].by
                    /\ Crossed(policyRequest, Activating)[q].approver = policyRequest[q].approver
                    /\ Crossed(policyRequest, Activating)[q].status = policyRequest[q].status
                    /\ policyRequest[q].step = "decided" =>
                        Crossed(policyRequest, Activating)[q].previous = policyRequest[q].previous
    <2>1. CASE q \notin Activating
        BY <1>0, <2>1 DEF Crossed, PolicyShape
    <2>2. CASE q \in Activating
        <3>1. policyRequest[q] \in LoadedReqs \cup DecidedReqs
            BY <1>0, <2>2 DEF Activating, PolicyShape, DraftReqs
        <3>2. Crossed(policyRequest, Activating)[q] = [policyRequest[q] EXCEPT !.crossed = TRUE]
            BY <2>2 DEF Crossed
        <3>3. CASE policyRequest[q] \in LoadedReqs
            BY <2>2, <3>2, <3>3 DEF LoadedReqs
        <3>4. CASE policyRequest[q] \in DecidedReqs
            BY <2>2, <3>2, <3>4 DEF DecidedReqs
        <3>. QED BY <3>1, <3>3, <3>4
    <2>. QED BY <2>1, <2>2
<1>7. policyRequest' = [Crossed(policyRequest, Activating) EXCEPT ![r] = req]
    BY <1>1, <1>2
<1>8. /\ policyRequest' \in [PolicyRequests -> DraftReqs \cup LoadedReqs \cup DecidedReqs \cup {None}]
      /\ policyRequest'[r] = req
      /\ \A q \in PolicyRequests : q # r => policyRequest'[q] = Crossed(policyRequest, Activating)[q]
    <2>1. DOMAIN Crossed(policyRequest, Activating) = PolicyRequests
        BY DEF Crossed
    <2>2. Crossed(policyRequest, Activating)
            \in [PolicyRequests -> DraftReqs \cup LoadedReqs \cup DecidedReqs \cup {None}]
        BY <1>6 DEF Crossed
    <2>. QED BY <1>5, <1>7, <2>2
<1>9. r \notin Activating
    BY <1>1 DEF Activating
<1>10. PolicyShape' /\ RowInv' /\ SettledInv' /\ Active' = Active
    BY <1>0, <1>1, <1>8 DEF PolicyShape, RowInv, SettledInv, Ids, Active
<1>11. DraftInv'
    <2>. SUFFICES ASSUME NEW q \in PolicyRequests, policyRequest'[q] # None, policyRequest'[q].step = "draft"
                  PROVE  /\ policyRequest'[q].version \in 1..Len(policies) + 1
                         /\ policyRequest'[q].version <= MaxRows
                         /\ Drafted(policyRequest'[q], policies)
        BY <1>1 DEF DraftInv
    <2>1. q # r
        BY <1>5, <1>8
    <2>2. q \notin Activating
        BY <1>6, <1>8, <2>1 DEF Activating
    <2>3. policyRequest'[q] = policyRequest[q]
        BY <1>6, <1>8, <2>1, <2>2
    <2>. QED BY <1>0, <2>3 DEF DraftInv
<1>12. ActivationInv'
    <2>. SUFFICES ASSUME NEW q \in Activating'
                  PROVE  ActivationStands(q, policyRequest'[q], policies, Active, Activating')
        BY <1>1, <1>10 DEF ActivationInv
    <2>0. \A u \in Activating' : u = r \/ u \in Activating
        BY <1>6, <1>8 DEF Activating
    <2>1. CASE q = r
        <3>1. /\ req.row = i /\ req.status = policies[i].status /\ req.approver = policies[i].approver
              /\ req.by = p.user
            BY <1>2
        <3>2. policies[i].approver # None => policies[i].status # "draft"
            BY <1>0 DEF RowInv
        <3>3. ~req.crossed => \A u \in Activating' : u = r
            BY <1>5, <2>0
        <3>. QED BY <1>1, <1>3, <1>5, <1>8, <2>1, <3>1, <3>2, <3>3 DEF ActivationStands, Ids
    <2>2. CASE q # r
        <3>1. q \in Activating /\ q \in PolicyRequests
            BY <2>0, <2>2 DEF Activating
        <3>2. ActivationStands(q, policyRequest[q], policies, Active, Activating)
            BY <1>0, <3>1 DEF ActivationInv
        <3>3. policyRequest[q].step \in {"loaded", "decided"}
            BY <3>1 DEF Activating
        <3>. QED BY <1>6, <1>8, <2>2, <3>1, <3>2, <3>3 DEF ActivationStands
    <2>. QED BY <2>1, <2>2
<1>. QED BY <1>10, <1>11, <1>12 DEF PolicyInv

LEMMA Finds ==
    ASSUME PolicyInv, NEW r \in PolicyRequests, FindPrevious(r)
    PROVE  PolicyInv'
<1>0. PolicyShape /\ RowInv /\ DraftInv /\ ActivationInv /\ SettledInv
    BY DEF PolicyInv
<1>1. PICK old : old = policyRequest[r]
    OBVIOUS
<1>2. PICK req : req = [step |-> "decided", row |-> old.row, status |-> old.status, approver |-> old.approver,
                        by |-> old.by, crossed |-> old.crossed, previous |-> Previous(old.row)]
    OBVIOUS
<1>3. /\ old # None /\ old.step = "loaded" /\ policyRequest' = [policyRequest EXCEPT ![r] = req]
      /\ UNCHANGED <<policies, settled>>
    BY <1>1, <1>2 DEF FindPrevious
<1>4. old \in LoadedReqs /\ r \in Activating
    BY <1>0, <1>1, <1>3 DEF PolicyShape, DraftReqs, DecidedReqs, Activating
<1>5. ActivationStands(r, old, policies, Active, Activating)
    BY <1>0, <1>1, <1>4 DEF ActivationInv
<1>6. Previous(old.row) = Active \ {old.row} /\ Active \subseteq Nat /\ Active \subseteq Ids
    BY <1>0 DEF Previous, Active, Ids, PolicyShape
<1>7. req \in DecidedReqs /\ req.step = "decided"
    <2>1. Previous(old.row) \in SUBSET Nat
        BY <1>6
    <2>. QED BY <1>2, <1>4, <2>1, Zenon DEF LoadedReqs, DecidedReqs
<1>8. /\ policyRequest' \in [PolicyRequests -> DraftReqs \cup LoadedReqs \cup DecidedReqs \cup {None}]
      /\ policyRequest'[r] = req
      /\ \A q \in PolicyRequests : q # r => policyRequest'[q] = policyRequest[q]
    BY <1>0, <1>3, <1>7 DEF PolicyShape
<1>9. PolicyShape' /\ RowInv' /\ SettledInv' /\ Active' = Active
    BY <1>0, <1>3, <1>8 DEF PolicyShape, RowInv, SettledInv, Ids, Active
<1>10. DraftInv'
    BY <1>0, <1>3, <1>7, <1>8 DEF DraftInv
<1>11. ActivationInv'
    <2>. SUFFICES ASSUME NEW q \in Activating'
                  PROVE  ActivationStands(q, policyRequest'[q], policies, Active, Activating')
        BY <1>3, <1>9 DEF ActivationInv
    <2>0. \A u \in Activating' : u \in Activating
        BY <1>4, <1>8 DEF Activating
    <2>1. CASE q = r
        <3>1. /\ req.row = old.row /\ req.status = old.status /\ req.approver = old.approver
              /\ req.by = old.by /\ req.crossed = old.crossed /\ req.previous = Active \ {old.row}
            BY <1>2, <1>6
        <3>2. \A j \in Active : policies[j].status # "draft" /\ j \in DOMAIN policies
            BY DEF Active, Ids
        <3>. QED BY <1>5, <1>8, <2>0, <2>1, <3>1, <3>2 DEF ActivationStands
    <2>2. CASE q # r
        <3>1. q \in Activating /\ policyRequest'[q] = policyRequest[q]
            BY <1>8, <2>0, <2>2 DEF Activating
        <3>2. ActivationStands(q, policyRequest[q], policies, Active, Activating)
            BY <1>0, <3>1 DEF ActivationInv
        <3>. QED BY <2>0, <3>1, <3>2 DEF ActivationStands
    <2>. QED BY <2>1, <2>2
<1>. QED BY <1>9, <1>10, <1>11 DEF PolicyInv

LEMMA Activates ==
    ASSUME PolicyInv, NEW r \in PolicyRequests, CommitActivation(r)
    PROVE  PolicyInv'
<1>0. PolicyShape /\ RowInv /\ DraftInv /\ ActivationInv /\ SettledInv
    BY DEF PolicyInv
<1>1. PICK req : req = policyRequest[r]
    OBVIOUS
<1>2. /\ req # None /\ req.step = "decided"
      /\ policies' = [i \in Ids |->
            IF i = req.row
            THEN [policies[i] EXCEPT !.status = Written(req.status, "active", @),
                                     !.approver = Written(req.approver, req.by, @)]
            ELSE IF i \in req.previous THEN [policies[i] EXCEPT !.status = "superseded"]
            ELSE policies[i]]
      /\ settled' = IF req.crossed THEN None ELSE req.row
      /\ policyRequest' = [policyRequest EXCEPT ![r] = None]
    BY <1>1 DEF CommitActivation
<1>3. req \in DecidedReqs /\ r \in Activating
    BY <1>0, <1>1, <1>2 DEF PolicyShape, DraftReqs, LoadedReqs, Activating
<1>4. ActivationStands(r, req, policies, Active, Activating)
    BY <1>0, <1>1, <1>3 DEF ActivationInv
<1>5. PICK n : n = Len(policies) /\ n \in Nat /\ Ids = 1..n
    BY <1>0 DEF PolicyShape, Ids
\* The row activated, a row superseded and a row that stays.
<1>6. ASSUME NEW i \in Ids
      PROVE  /\ policies'[i] \in PolicyRows
             /\ policies'[i].version = policies[i].version /\ policies'[i].limits = policies[i].limits
             /\ policies'[i].base = policies[i].base /\ policies'[i].edits = policies[i].edits
             /\ i = req.row => /\ policies'[i].status = Written(req.status, "active", policies[i].status)
                               /\ policies'[i].approver = Written(req.approver, req.by, policies[i].approver)
             /\ i # req.row => policies'[i].approver = policies[i].approver
             /\ i # req.row /\ i \in req.previous => policies'[i].status = "superseded"
             /\ i # req.row /\ i \notin req.previous => policies'[i].status = policies[i].status
    <2>1. policies[i] \in PolicyRows
        BY <1>0 DEF PolicyShape, Ids
    <2>2. CASE i = req.row
        <3>1. PICK st, ap : st = Written(req.status, "active", policies[i].status)
                            /\ ap = Written(req.approver, req.by, policies[i].approver)
            OBVIOUS
        <3>2. st \in Statuses /\ ap \in Users \cup {None}
            BY <1>3, <2>1, <3>1 DEF Written, Statuses, DecidedReqs, PolicyRows
        <3>3. policies'[i] = [policies[i] EXCEPT !.status = st, !.approver = ap]
            BY <1>2, <2>2, <3>1
        <3>. QED BY <2>1, <2>2, <3>1, <3>2, <3>3 DEF PolicyRows
    <2>3. CASE i # req.row /\ i \in req.previous
        <3>1. policies'[i] = [policies[i] EXCEPT !.status = "superseded"]
            BY <1>2, <2>3
        <3>. QED BY <2>1, <2>3, <3>1 DEF PolicyRows, Statuses
    <2>4. CASE i # req.row /\ i \notin req.previous
        BY <1>2, <2>1, <2>4
    <2>. QED BY <2>2, <2>3, <2>4
<1>7. DOMAIN policies' = 1..n /\ Len(policies') = n /\ Ids' = Ids /\ policies' \in Seq(PolicyRows)
    <2>1. policies' \in [1..n -> PolicyRows]
        BY <1>2, <1>5, <1>6
    <2>. QED BY <1>5, <2>1 DEF Ids
<1>8. \A x : Drafted(x, policies) => Drafted(x, policies')
    BY <1>6, <1>7 DEF Drafted, BaseLimits, Ids
<1>9. /\ policyRequest' \in [PolicyRequests -> DraftReqs \cup LoadedReqs \cup DecidedReqs \cup {None}]
      /\ policyRequest'[r] = None
      /\ \A q \in PolicyRequests : q # r => policyRequest'[q] = policyRequest[q]
    BY <1>0, <1>2 DEF PolicyShape
<1>10. PolicyShape'
    BY <1>0, <1>5, <1>7, <1>9 DEF PolicyShape
\* A row that is activated was drafted for approval or has been approved.
<1>11. ASSUME NEW i \in Ids
       PROVE  /\ (policies'[i].approver = None) <=> (policies'[i].status = "draft")
              /\ policies'[i].status # "draft" =>
                    validate_policy(policies[i].limits) /\ MayActivate(policies'[i].approver)
              /\ policies[i].status # "draft" => policies'[i].status # "draft"
    <2>1. /\ (policies[i].approver = None) <=> (policies[i].status = "draft")
          /\ policies[i].status # "draft" => validate_policy(policies[i].limits) /\ MayActivate(policies[i].approver)
        BY <1>0 DEF RowInv
    <2>2. CASE i = req.row
        <3>1. /\ req.by # None /\ MayActivate(req.by) /\ validate_policy(policies[i].limits)
              /\ req.approver # None \/ req.status # "draft" => policies[i].status # "draft"
            BY <1>4, <2>2, PolicyAssumption DEF ActivationStands, MayActivate
        <3>2. /\ policies'[i].status = Written(req.status, "active", policies[i].status)
              /\ policies'[i].approver = Written(req.approver, req.by, policies[i].approver)
            BY <1>6, <2>2
        <3>3. MayActivate(policies'[i].approver) /\ policies'[i].approver # None
            BY <2>1, <3>1, <3>2 DEF Written
        <3>4. policies'[i].status # "draft"
            BY <1>4, <2>1, <2>2, <3>1, <3>2 DEF Written, ActivationStands
        <3>. QED BY <3>1, <3>3, <3>4
    <2>3. CASE i # req.row /\ i \in req.previous
        BY <1>2, <1>4, <1>6, <2>1, <2>3 DEF ActivationStands
    <2>4. CASE i # req.row /\ i \notin req.previous
        BY <1>6, <2>1, <2>4
    <2>. QED BY <2>2, <2>3, <2>4
<1>12. RowInv'
    <2>. SUFFICES ASSUME NEW i \in Ids
                  PROVE  policies'[i].version = i /\ Drafted(policies'[i], policies')
        BY <1>6, <1>7, <1>11 DEF RowInv
    <2>1. policies[i].version = i /\ Drafted(policies[i], policies')
        BY <1>0, <1>8 DEF RowInv
    <2>. QED BY <1>6, <2>1 DEF Drafted
<1>13. DraftInv'
    <2>. SUFFICES ASSUME NEW q \in PolicyRequests, policyRequest'[q] # None, policyRequest'[q].step = "draft"
                  PROVE  /\ policyRequest'[q].version \in 1..Len(policies') + 1
                         /\ policyRequest'[q].version <= MaxRows
                         /\ Drafted(policyRequest'[q], policies')
        BY DEF DraftInv
    <2>1. policyRequest'[q] = policyRequest[q]
        BY <1>9
    <2>. QED BY <1>0, <1>5, <1>7, <1>8, <2>1 DEF DraftInv
<1>14. ActivationInv'
    <2>. SUFFICES ASSUME NEW q \in Activating'
                  PROVE  ActivationStands(q, policyRequest'[q], policies', Active', Activating')
        BY DEF ActivationInv
    <2>1. q # r /\ q \in Activating /\ policyRequest'[q] = policyRequest[q]
        BY <1>9 DEF Activating
    <2>2. ActivationStands(q, policyRequest[q], policies, Active, Activating)
        BY <1>0, <2>1 DEF ActivationInv
    <2>3. policyRequest[q].crossed
        BY <1>3, <2>1, <2>2 DEF ActivationStands
    <2>. QED BY <1>6, <1>7, <1>11, <2>1, <2>2, <2>3 DEF ActivationStands, Ids
<1>15. SettledInv'
    <2>. SUFFICES ASSUME settled' # None PROVE settled' \in Ids /\ Active' = {settled'}
        BY <1>7 DEF SettledInv
    <2>1. /\ ~req.crossed /\ settled' = req.row /\ req.row \in Ids
          /\ req.status = policies[req.row].status /\ req.previous = Active \ {req.row}
        BY <1>2, <1>4 DEF ActivationStands, Ids
    <2>2. policies'[req.row].status = "active"
        BY <1>6, <2>1 DEF Written
    <2>3. \A i \in Ids : i # req.row => policies'[i].status # "active"
        BY <1>6, <2>1 DEF Active
    <2>4. \A i : i \in Active' <=> i = req.row
        BY <1>7, <2>1, <2>2, <2>3 DEF Active
    <2>. QED BY <2>1, <2>4
<1>. QED BY <1>10, <1>12, <1>13, <1>14, <1>15 DEF PolicyInv

LEMMA PolicyStep ==
    ASSUME PolicyInv, [PolicyNext]_policyVars
    PROVE  PolicyInv'
<1>1. CASE PolicyNext
    BY <1>1, Begins, Drafts, Loads, Finds, Activates DEF PolicyNext
<1>2. CASE UNCHANGED policyVars
    BY <1>2 DEF policyVars, PolicyInv, PolicyShape, RowInv, DraftInv, ActivationInv, SettledInv,
                Ids, Active, Activating
<1>. QED BY <1>1, <1>2

LEMMA PolicyInvariant == PolicySpec => []PolicyInv
<1>1. PolicyInit => PolicyInv
    <2>. SUFFICES ASSUME PolicyInit PROVE PolicyInv
        OBVIOUS
    <2>1. policies = <<>> /\ Ids = {} /\ Activating = {} /\ settled = None
        BY DEF PolicyInit, Ids, Activating
    <2>2. PolicyShape
        BY <2>1, PolicyAssumption DEF PolicyInit, PolicyShape
    <2>. QED BY <2>1, <2>2 DEF PolicyInit, PolicyInv, RowInv, DraftInv, ActivationInv, SettledInv
<1>2. PolicyInv /\ [PolicyNext]_policyVars => PolicyInv'
    BY PolicyStep
<1>. QED BY <1>1, <1>2, PTL DEF PolicySpec

-----------------------------------------------------------------------------
(* For any number of requests that draft and activate: the last activation *)
(* that no other crossed left exactly its own row in force                 *)
(* (activate_policy).                                                      *)
THEOREM ActivationsSettle == PolicySpec => []ActivationSettles
<1>1. PolicyInv => ActivationSettles
    <2>. SUFFICES ASSUME PolicyInv, settled # None
                  PROVE  Active = {settled} /\ get_active_policy = settled
        BY DEF ActivationSettles
    <2>1. Active = {settled}
        BY DEF PolicyInv, SettledInv
    <2>. QED BY <2>1, InForce DEF PolicyInv
<1>. QED BY <1>1, PolicyInvariant, PTL

(* A version names one row, and whoever approved what is in force may      *)
(* activate: for any users, roles and keys (create_draft_policy,           *)
(* activate_policy, get_principal).                                        *)
THEOREM PoliciesAreOnRecord == PolicySpec => []PolicyOnRecord
<1>1. PolicyInv => PolicyOnRecord
    BY DEF PolicyInv, RowInv, PolicyOnRecord, VersionNamesOneRow, InForceIsApproved, Active,
           validate_policy, MayActivate
<1>. QED BY <1>1, PolicyInvariant, PTL

(* An activation over the row its draft was seeded from changes the limits *)
(* its editor set and no others (create_draft_policy, activate_policy).    *)
THEOREM EditsAreMeant == PolicySpec => EditsWhatWasMeant
<1>1. ASSUME PolicyInv, NEW i \in Ids, policies[i].base = get_active_policy
      PROVE  Changed(resolve, policies[i].limits) \subseteq policies[i].edits
    <2>1. policies[i].edits = {f \in Fields : policies[i].limits[f] # BaseLimits(policies[i].base, policies)[f]}
        BY <1>1 DEF PolicyInv, RowInv, Drafted
    <2>2. resolve = BaseLimits(policies[i].base, policies)
        BY <1>1, InForce DEF PolicyInv
    <2>. QED BY <2>1, <2>2 DEF Changed
<1>2. PolicyInv /\ [PolicyNext]_policyVars =>
        [\A i \in Ids : settled' = i /\ policies[i].status = "draft" /\ policies'[i].status = "active"
                        /\ policies[i].base = get_active_policy
            => Changed(resolve, policies[i].limits) \subseteq policies[i].edits]_policyVars
    BY <1>1
<1>. QED BY <1>2, PolicyInvariant, PTL DEF PolicySpec, EditsWhatWasMeant

(* The types of the rows, and which of them have an approver.              *)
THEOREM PolicyTypeCorrect == PolicySpec => []PolicyTypeOK
<1>1. PolicyInv => PolicyTypeOK
    <2>. SUFFICES ASSUME PolicyInv PROVE PolicyTypeOK
        OBVIOUS
    <2>1. ASSUME NEW i \in Ids
          PROVE  /\ policies[i].version \in 1..MaxRows /\ policies[i].limits \in Limits
                 /\ policies[i].status \in {"draft", "active", "superseded"}
                 /\ policies[i].approver \in Users \cup {None}
                 /\ (policies[i].approver = None) = (policies[i].status = "draft")
        <3>1. policies[i] \in PolicyRows /\ i \in 1..Len(policies) /\ Len(policies) <= MaxRows
              /\ Len(policies) \in Nat /\ MaxRows \in Nat
            BY PolicyAssumption DEF PolicyInv, PolicyShape, Ids
        <3>2. policies[i].version = i /\ ((policies[i].approver = None) <=> (policies[i].status = "draft"))
            BY DEF PolicyInv, RowInv
        <3>. QED BY <3>1, <3>2 DEF PolicyRows, Statuses
    <2>2. settled \in Ids \cup {None}
        BY DEF PolicyInv, SettledInv
    <2>. QED BY <2>1, <2>2 DEF PolicyTypeOK
<1>. QED BY <1>1, PolicyInvariant, PTL

-----------------------------------------------------------------------------
(* Request limits.                                                          *)

\* Ages in the order of the calls, the oldest first.
Ages0 == 0..Longest
Aged(ages) ==
    /\ ages \in Seq(Ages0)
    /\ \A i, j \in 1..Len(ages) : i <= j => ages[j] <= ages[i]

\* The age that has n later ones after it.
Back(ages, n) == ages[Len(ages) - n]

\* The bucket remembers every call admitted within the shortest window, each in
\* its place from the end, and the calls within it are no more than the limit.
Remembers(k, seen, admitted) ==
    \A n \in 0..Len(admitted) - 1 : Back(admitted, n) < Shortest =>
        /\ n < Len(seen) /\ Back(seen, n) = Back(admitted, n)
        /\ n < LimitOf[k]

RateInv ==
    /\ bucket \in [Callers -> Seq(Ages0)] /\ passed \in [Callers -> Seq(Ages0)]
    /\ \A k \in Callers : Aged(bucket[k]) /\ Aged(passed[k])
    /\ \A k \in Callers \ popped : Remembers(k, bucket[k], passed[k])

\* The shortest and the longest window bound every other.
LEMMA WindowsBound ==
    ASSUME NEW c \in Callers
    PROVE  /\ Shortest \in Nat \ {0} /\ Longest \in Nat \ {0}
           /\ \A k \in Callers : Shortest <= WindowOf[k] /\ WindowOf[k] <= Longest
<1>1. PICK W : W = {WindowOf[k] : k \in Callers}
    OBVIOUS
<1>2. W \subseteq Nat \ {0} /\ W # {} /\ IsFiniteSet(W)
    <2>1. WindowOf \in Surjection(Callers, W)
        BY <1>1, RateAssumption DEF Surjection
    <2>2. IsFiniteSet(W)
        BY <2>1, RateAssumption, FS_Surjection
    <2>. QED BY <1>1, <2>2, RateAssumption
<1>3. Shortest \in W /\ \A v \in W : Shortest <= v
    BY <1>1, <1>2, MinExists DEF Shortest
<1>4. Longest \in W /\ \A v \in W : v <= Longest
    BY <1>1, <1>2, MaxExists DEF Longest
<1>. QED BY <1>1, <1>2, <1>3, <1>4

\* What is within a window is a tail of the ages: none of it is as old as the
\* window, and all of the rest is.
LEMMA WithinIsTail ==
    ASSUME NEW ages, Aged(ages), Longest \in Nat, NEW w \in Nat
    PROVE  \E n \in 0..Len(ages) :
              /\ Within(w, ages) = SubSeq(ages, n + 1, Len(ages))
              /\ \A i \in 1..Len(ages) : ages[i] >= w <=> i <= n
<1>1. PICK N : N = {n \in 0..Len(ages) : n = 0 \/ ages[n] >= w}
    OBVIOUS
<1>2. N \subseteq Nat /\ 0 \in N /\ IsFiniteSet(N)
    <2>1. Len(ages) \in Nat /\ IsFiniteSet(0..Len(ages)) /\ N \subseteq 0..Len(ages)
        BY <1>1, FS_Interval DEF Aged
    <2>. QED BY <1>1, <2>1, FS_Subset
<1>3. PICK n \in N : \A m \in N : m <= n
    BY <1>2, MaxExists
<1>4. ages \in Seq(Ages0) /\ Len(ages) \in Nat /\ DOMAIN ages = 1..Len(ages)
      /\ \A i \in 1..Len(ages) : ages[i] \in 0..Longest
    BY DEF Aged, Ages0
<1>5. \A i \in 1..Len(ages) : ages[i] >= w <=> i <= n
    <2>. SUFFICES ASSUME NEW i \in 1..Len(ages) PROVE ages[i] >= w <=> i <= n
        OBVIOUS
    <2>1. ages[i] >= w => i <= n
        BY <1>1, <1>3, <1>4
    <2>2. i <= n => n \in 1..Len(ages) /\ ages[n] >= w /\ ages[n] <= ages[i]
        BY <1>1, <1>2, <1>3, <1>4 DEF Aged
    <2>. QED BY <1>4, <2>1, <2>2
<1>6. n \in 0..Len(ages)
    BY <1>1
<1>7. /\ Past(w, ages) \in 0..Len(ages)
      /\ \A i \in DOMAIN ages : ages[i] >= w <=> i <= Past(w, ages)
    BY <1>4, <1>5, <1>6 DEF Past
<1>. QED BY <1>4, <1>7 DEF Within

\* A tail of aged entries keeps their places from the end.
LEMMA TailKeeps ==
    ASSUME NEW ages, Aged(ages), Longest \in Nat, NEW n \in 0..Len(ages)
    PROVE  LET tail == SubSeq(ages, n + 1, Len(ages))
           IN  /\ Aged(tail) /\ Len(tail) = Len(ages) - n
               /\ \A m \in 0..Len(tail) - 1 : Back(tail, m) = Back(ages, m)
<1>1. PICK tail : tail = SubSeq(ages, n + 1, Len(ages))
    OBVIOUS
<1>2. ages \in Seq(Ages0) /\ Len(ages) \in Nat /\ \A i \in 1..Len(ages) : ages[i] \in Ages0
    BY DEF Aged
<1>3. tail \in Seq(Ages0) /\ Len(tail) = Len(ages) - n
      /\ \A i \in 1..Len(ages) - n : tail[i] = ages[n + i]
    BY <1>1, <1>2, SubSeqProperties
<1>4. Aged(tail)
    BY <1>2, <1>3 DEF Aged
<1>5. \A m \in 0..Len(tail) - 1 : Back(tail, m) = Back(ages, m)
    BY <1>2, <1>3 DEF Back
<1>. QED BY <1>1, <1>3, <1>4, <1>5

\* What is left of a bucket within a window has its calls within the shortest one.
LEMMA WithinKeeps ==
    ASSUME NEW k \in Callers, NEW w \in Nat, Shortest <= w, NEW ages, Aged(ages)
    PROVE  /\ Aged(Within(w, ages))
           /\ \A n \in 0..Len(ages) - 1 : Back(ages, n) < Shortest =>
                n < Len(Within(w, ages)) /\ Back(Within(w, ages), n) = Back(ages, n)
           /\ \A n \in 0..Len(Within(w, ages)) - 1 :
                n \in 0..Len(ages) - 1 /\ Back(Within(w, ages), n) = Back(ages, n) /\ Back(ages, n) < w
<1>0. Shortest \in Nat /\ Longest \in Nat
    BY WindowsBound
<1>1. PICK m \in 0..Len(ages) :
        /\ Within(w, ages) = SubSeq(ages, m + 1, Len(ages))
        /\ \A i \in 1..Len(ages) : ages[i] >= w <=> i <= m
    BY <1>0, WithinIsTail
<1>2. PICK tail : tail = Within(w, ages)
    OBVIOUS
<1>3. /\ Aged(tail) /\ Len(tail) = Len(ages) - m
      /\ \A n \in 0..Len(tail) - 1 : Back(tail, n) = Back(ages, n)
    BY <1>0, <1>1, <1>2, TailKeeps
<1>4. Len(ages) \in Nat /\ \A i \in 1..Len(ages) : ages[i] \in 0..Longest
    BY <1>0 DEF Aged, Ages0
<1>5. ASSUME NEW n \in 0..Len(ages) - 1
      PROVE  Back(ages, n) < w <=> n < Len(tail)
    <2>1. Len(ages) - n \in 1..Len(ages) /\ Back(ages, n) = ages[Len(ages) - n]
        BY <1>4 DEF Back
    <2>2. Back(ages, n) \in Nat
        BY <1>0, <1>4, <2>1
    <2>3. Back(ages, n) >= w <=> Len(ages) - n <= m
        BY <1>1, <2>1
    <2>. QED BY <1>3, <1>4, <2>2, <2>3
<1>6. \A n \in 0..Len(ages) - 1 : Back(ages, n) \in Nat
    BY <1>0, <1>4 DEF Back
<1>7. \A n \in 0..Len(ages) - 1 : Back(ages, n) < Shortest => n < Len(tail) /\ Back(tail, n) = Back(ages, n)
    BY <1>0, <1>3, <1>4, <1>5, <1>6
<1>8. \A n \in 0..Len(tail) - 1 : n \in 0..Len(ages) - 1 /\ Back(tail, n) = Back(ages, n) /\ Back(ages, n) < w
    BY <1>3, <1>4, <1>5
<1>. QED BY <1>2, <1>3, <1>7, <1>8

\* An admitted call is the last of the ages, and of those that are kept of them.
LEMMA AppendKeeps ==
    ASSUME NEW k \in Callers, NEW ages, Aged(ages)
    PROVE  LET longer == Append(ages, 0)
           IN  /\ Aged(longer) /\ Len(longer) = Len(ages) + 1 /\ Back(longer, 0) = 0
               /\ \A n \in 1..Len(ages) : Back(longer, n) = Back(ages, n - 1)
               /\ Aged(Recent(k, longer))
               /\ \A n \in 0..Len(Recent(k, longer)) - 1 :
                    n \in 0..Len(ages) /\ Back(Recent(k, longer), n) = Back(longer, n)
<1>0. Longest \in Nat \ {0} /\ LimitOf[k] \in Nat \ {0}
    BY WindowsBound, RateAssumption
<1>1. PICK p : p = Append(ages, 0)
    OBVIOUS
<1>2. /\ ages \in Seq(Ages0) /\ Len(ages) \in Nat /\ 0 \in Ages0
      /\ \A i \in 1..Len(ages) : ages[i] \in 0..Longest
    BY <1>0 DEF Aged, Ages0
<1>3. /\ p \in Seq(Ages0) /\ Len(p) = Len(ages) + 1 /\ p[Len(ages) + 1] = 0
      /\ \A i \in 1..Len(ages) : p[i] = ages[i]
    BY <1>1, <1>2
<1>4. Aged(p)
    BY <1>2, <1>3 DEF Aged
<1>5. Back(p, 0) = 0 /\ \A n \in 1..Len(ages) : Back(p, n) = Back(ages, n - 1)
    BY <1>2, <1>3 DEF Back
<1>6. /\ Aged(Recent(k, p))
      /\ \A n \in 0..Len(Recent(k, p)) - 1 : n \in 0..Len(ages) /\ Back(Recent(k, p), n) = Back(p, n)
    <2>1. CASE Recent(k, p) = p
        BY <1>2, <1>3, <1>4, <2>1
    <2>2. CASE Recent(k, p) = Tail(p)
        <3>1. /\ Tail(p) \in Seq(Ages0) /\ Len(Tail(p)) = Len(p) - 1
              /\ \A i \in 1..Len(p) - 1 : Tail(p)[i] = p[i + 1]
            BY <1>2, <1>3
        <3>2. Aged(Tail(p))
            BY <1>2, <1>3, <1>4, <3>1 DEF Aged
        <3>3. \A n \in 0..Len(Tail(p)) - 1 : n \in 0..Len(ages) /\ Back(Tail(p), n) = Back(p, n)
            BY <1>2, <1>3, <3>1 DEF Back
        <3>. QED BY <2>2, <3>2, <3>3
    <2>. QED BY <2>1, <2>2 DEF Recent
<1>. QED BY <1>1, <1>3, <1>4, <1>5, <1>6

LEMMA ForgetsOnlyThePast ==
    ASSUME RateInv, NEW k \in Callers
    PROVE  LET seen == Within(WindowOf[k], bucket[k])
           IN  /\ Aged(seen)
               /\ k \notin popped => Remembers(k, seen, passed[k])
<1>1. PICK seen : seen = Within(WindowOf[k], bucket[k])
    OBVIOUS
<1>2. Aged(bucket[k]) /\ Aged(passed[k]) /\ (k \notin popped => Remembers(k, bucket[k], passed[k]))
    BY DEF RateInv
<1>3. WindowOf[k] \in Nat /\ Shortest <= WindowOf[k]
    BY WindowsBound, RateAssumption
<1>4. /\ Aged(seen)
      /\ \A n \in 0..Len(bucket[k]) - 1 : Back(bucket[k], n) < Shortest =>
            n < Len(seen) /\ Back(seen, n) = Back(bucket[k], n)
    BY <1>1, <1>2, <1>3, WithinKeeps
<1>5. ASSUME k \notin popped, NEW n \in 0..Len(passed[k]) - 1, Back(passed[k], n) < Shortest
      PROVE  n < Len(seen) /\ Back(seen, n) = Back(passed[k], n) /\ n < LimitOf[k]
    <2>1. n < Len(bucket[k]) /\ Back(bucket[k], n) = Back(passed[k], n) /\ n < LimitOf[k]
        BY <1>2, <1>5 DEF Remembers
    <2>2. n \in 0..Len(bucket[k]) - 1
        BY <1>2, <2>1 DEF Aged
    <2>. QED BY <1>4, <1>5, <2>1, <2>2
<1>6. k \notin popped => Remembers(k, seen, passed[k])
    BY <1>5 DEF Remembers
<1>. QED BY <1>1, <1>4, <1>6

\* A refused call forgets what is past its window.
LEMMA Refuses ==
    ASSUME RateInv, NEW k \in Callers, RefuseCall(k)
    PROVE  RateInv'
<1>1. PICK seen : seen = Within(WindowOf[k], bucket[k])
    OBVIOUS
<1>2. /\ bucket' = [bucket EXCEPT ![k] = seen] /\ UNCHANGED <<passed, popped>>
    BY <1>1 DEF RefuseCall
<1>3. /\ Aged(seen)
      /\ k \notin popped => Remembers(k, seen, passed[k])
    BY <1>1, ForgetsOnlyThePast
<1>4. seen \in Seq(Ages0)
    BY <1>3 DEF Aged
<1>5. /\ bucket' \in [Callers -> Seq(Ages0)] /\ passed' \in [Callers -> Seq(Ages0)]
      /\ bucket'[k] = seen /\ \A x \in Callers : x # k => bucket'[x] = bucket[x]
    BY <1>2, <1>4 DEF RateInv
<1>6. \A x \in Callers : Aged(bucket'[x]) /\ Aged(passed'[x])
    BY <1>2, <1>3, <1>5 DEF RateInv
<1>7. ASSUME NEW x \in Callers \ popped PROVE Remembers(x, bucket'[x], passed[x])
    BY <1>3, <1>5 DEF RateInv
<1>. QED BY <1>2, <1>5, <1>6, <1>7 DEF RateInv

\* A call that is admitted is remembered, the last of them all.
LEMMA Remembered ==
    ASSUME NEW k \in Callers, NEW seen, NEW admitted, Aged(seen), Aged(admitted),
           Remembers(k, seen, admitted), Len(seen) < LimitOf[k]
    PROVE  Remembers(k, Append(seen, 0), Recent(k, Append(admitted, 0)))
<1>0. LimitOf[k] \in Nat \ {0} /\ Len(seen) \in Nat /\ Len(admitted) \in Nat
    BY RateAssumption DEF Aged
<1>1. PICK s, p, recent : s = Append(seen, 0) /\ p = Append(admitted, 0) /\ recent = Recent(k, p)
    OBVIOUS
<1>2. /\ Len(s) = Len(seen) + 1 /\ Back(s, 0) = 0
      /\ \A n \in 1..Len(seen) : Back(s, n) = Back(seen, n - 1)
    BY <1>1, AppendKeeps
<1>3. /\ Back(p, 0) = 0 /\ \A n \in 1..Len(admitted) : Back(p, n) = Back(admitted, n - 1)
      /\ \A n \in 0..Len(recent) - 1 : n \in 0..Len(admitted) /\ Back(recent, n) = Back(p, n)
    BY <1>1, AppendKeeps
<1>4. ASSUME NEW n \in 0..Len(recent) - 1, Back(recent, n) < Shortest
      PROVE  n < Len(s) /\ Back(s, n) = Back(recent, n) /\ n < LimitOf[k]
    <2>1. n \in 0..Len(admitted) /\ Back(recent, n) = Back(p, n)
        BY <1>3
    <2>2. CASE n = 0
        BY <1>0, <1>2, <1>3, <2>1, <2>2
    <2>3. CASE n # 0
        <3>1. PICK m : m = n - 1
            OBVIOUS
        <3>2. m \in 0..Len(admitted) - 1 /\ n \in 1..Len(admitted) /\ Back(p, n) = Back(admitted, m)
            BY <1>0, <1>3, <2>1, <2>3, <3>1
        <3>3. m < Len(seen) /\ Back(seen, m) = Back(admitted, m)
            BY <1>4, <2>1, <3>2 DEF Remembers
        <3>4. n \in 1..Len(seen) /\ n < LimitOf[k]
            BY <1>0, <3>1, <3>2, <3>3
        <3>. QED BY <1>0, <1>2, <2>1, <3>1, <3>2, <3>3, <3>4
    <2>. QED BY <2>2, <2>3
<1>. QED BY <1>1, <1>4 DEF Remembers

\* A bucket whose latest entry is past the shortest window remembers no call
\* within it, and need not.
LEMMA ExpiredNeedsNothing ==
    ASSUME NEW k \in Callers, NEW seen, NEW admitted, Aged(seen), Remembers(k, seen, admitted),
           seen = <<>> \/ Last(seen) >= Shortest
    PROVE  Remembers(k, <<>>, admitted)
<1>1. Shortest \in Nat /\ Longest \in Nat
    BY WindowsBound
<1>2. seen \in Seq(Ages0) /\ Len(seen) \in Nat /\ \A i \in 1..Len(seen) : seen[i] \in 0..Longest
    BY <1>1 DEF Aged, Ages0
<1>3. \A n \in 0..Len(admitted) - 1 : ~(Back(admitted, n) < Shortest)
    <2>. SUFFICES ASSUME NEW n \in 0..Len(admitted) - 1, Back(admitted, n) < Shortest PROVE FALSE
        OBVIOUS
    <2>1. n < Len(seen) /\ Back(seen, n) < Shortest
        BY DEF Remembers
    <2>2. seen # <<>> /\ Len(seen) \in 1..Len(seen) /\ Len(seen) - n \in 1..Len(seen)
        BY <1>2, <2>1
    <2>3. seen[Len(seen)] <= Back(seen, n)
        BY <1>2, <2>2 DEF Aged, Back
    <2>4. seen[Len(seen)] >= Shortest
        BY <2>2 DEF Last
    <2>. QED BY <1>1, <1>2, <2>1, <2>2, <2>3, <2>4 DEF Back
<1>. QED BY <1>3 DEF Remembers

\* An admitted call sweeps only buckets that hold nothing within the shortest window.
LEMMA Admits ==
    ASSUME RateInv, NEW k \in Callers, AdmitCall(k)
    PROVE  RateInv'
<1>1. PICK seen : seen = Within(WindowOf[k], bucket[k])
    OBVIOUS
<1>2. PICK gone, dropped :
        /\ \A x \in gone \ dropped : bucket[x] = <<>> \/ Last(bucket[x]) >= WindowOf[k]
        /\ Len(seen) < LimitOf[k]
        /\ bucket' = [x \in Callers |->
                IF x = k THEN Append(seen, 0) ELSE IF x \in gone THEN <<>> ELSE bucket[x]]
        /\ passed' = [passed EXCEPT ![k] = Recent(k, Append(@, 0))]
        /\ popped' = popped \cup dropped
    <2>1. PICK left : left = SelectSeq(Touched(k), LAMBDA x : x \notin Swept(k))
        OBVIOUS
    <2>2. PICK gone, dropped : gone = Swept(k) \cup Overflow(left) /\ dropped = Overflow(left)
        OBVIOUS
    <2>3. \A x \in gone \ dropped : bucket[x] = <<>> \/ Last(bucket[x]) >= WindowOf[k]
        BY <2>2 DEF Swept
    <2>4. Aged(seen)
        BY <1>1, ForgetsOnlyThePast
    <2>5. Len(seen) < LimitOf[k]
        <3>1. ~(Len(seen) >= LimitOf[k])
            BY <1>1 DEF AdmitCall, Full
        <3>. QED BY <2>4, <3>1, RateAssumption DEF Aged
    <2>6. /\ bucket' = [x \in Callers |->
                IF x = k THEN Append(seen, 0) ELSE IF x \in gone THEN <<>> ELSE bucket[x]]
          /\ passed' = [passed EXCEPT ![k] = Recent(k, Append(@, 0))]
          /\ popped' = popped \cup dropped
        BY <1>1, <2>1, <2>2 DEF AdmitCall
    <2>. QED BY <2>3, <2>5, <2>6
<1>3. /\ Aged(seen) /\ Aged(passed[k])
      /\ k \notin popped => Remembers(k, seen, passed[k])
    BY <1>1, ForgetsOnlyThePast DEF RateInv
<1>4. Shortest \in Nat /\ Longest \in Nat /\ \A x \in Callers : WindowOf[x] \in Nat /\ Shortest <= WindowOf[x]
    BY WindowsBound, RateAssumption
<1>5. Aged(<<>>) /\ <<>> \in Seq(Ages0)
    BY DEF Aged
<1>6. Aged(Append(seen, 0)) /\ Aged(Recent(k, Append(passed[k], 0)))
    BY <1>3, AppendKeeps
<1>7. /\ bucket'[k] = Append(seen, 0) /\ passed'[k] = Recent(k, Append(passed[k], 0))
      /\ \A x \in Callers : x # k =>
            /\ bucket'[x] = IF x \in gone THEN <<>> ELSE bucket[x]
            /\ passed'[x] = passed[x]
    BY <1>2 DEF RateInv
<1>8. \A x \in Callers : Aged(bucket'[x]) /\ Aged(passed'[x])
    BY <1>5, <1>6, <1>7 DEF RateInv
<1>9. bucket' \in [Callers -> Seq(Ages0)] /\ passed' \in [Callers -> Seq(Ages0)]
    <2>1. \A x \in Callers : bucket'[x] \in Seq(Ages0) /\ passed'[x] \in Seq(Ages0)
        BY <1>8 DEF Aged
    <2>2. passed' = [x \in Callers |-> passed'[x]]
        BY <1>2 DEF RateInv
    <2>3. bucket' = [x \in Callers |-> bucket'[x]]
        BY <1>2
    <2>. QED BY <2>1, <2>2, <2>3
<1>10. ASSUME NEW x \in Callers \ popped' PROVE Remembers(x, bucket'[x], passed'[x])
    <2>1. x \notin popped /\ x \notin dropped
        BY <1>2
    <2>2. CASE x = k
        BY <1>2, <1>3, <1>7, <2>1, <2>2, Remembered
    <2>3. CASE x # k /\ x \in gone
        <3>1. bucket[x] = <<>> \/ Last(bucket[x]) >= WindowOf[k]
            BY <1>2, <2>1, <2>3
        <3>2. Aged(bucket[x]) /\ Remembers(x, bucket[x], passed[x])
            BY <2>1 DEF RateInv
        <3>3. bucket[x] = <<>> \/ Last(bucket[x]) >= Shortest
            <4>1. bucket[x] # <<>> => Last(bucket[x]) \in Nat
                <5>. SUFFICES ASSUME bucket[x] # <<>> PROVE Last(bucket[x]) \in Nat
                    OBVIOUS
                <5>1. bucket[x] \in Seq(Ages0) /\ Len(bucket[x]) \in 1..Len(bucket[x])
                    BY <3>2 DEF Aged
                <5>2. bucket[x][Len(bucket[x])] \in 0..Longest
                    BY <1>4, <5>1 DEF Ages0
                <5>. QED BY <1>4, <5>2 DEF Last
            <4>. QED BY <1>4, <3>1, <4>1
        <3>. QED BY <1>7, <2>3, <3>2, <3>3, ExpiredNeedsNothing
    <2>4. CASE x # k /\ x \notin gone
        BY <1>7, <2>1, <2>4 DEF RateInv
    <2>. QED BY <2>2, <2>3, <2>4
<1>. QED BY <1>8, <1>9, <1>10 DEF RateInv

\* A second ages what a bucket remembers and what was admitted alike.
LEMMA Older ==
    ASSUME NEW c \in Callers, NEW ages, Aged(ages)
    PROVE  LET older == [i \in DOMAIN ages |-> IF ages[i] < Longest THEN ages[i] + 1 ELSE Longest]
           IN  /\ Aged(older) /\ Len(older) = Len(ages)
               /\ \A n \in 0..Len(ages) - 1 :
                    /\ Back(ages, n) \in Nat
                    /\ Back(older, n) = IF Back(ages, n) < Longest THEN Back(ages, n) + 1 ELSE Longest
<1>0. Longest \in Nat
    BY WindowsBound
<1>1. PICK older : older = [i \in DOMAIN ages |-> IF ages[i] < Longest THEN ages[i] + 1 ELSE Longest]
    OBVIOUS
<1>2. /\ ages \in Seq(Ages0) /\ Len(ages) \in Nat /\ DOMAIN ages = 1..Len(ages)
      /\ \A i \in 1..Len(ages) : ages[i] \in 0..Longest
    BY <1>0 DEF Aged, Ages0
<1>3. \A i \in 1..Len(ages) :
        /\ older[i] = IF ages[i] < Longest THEN ages[i] + 1 ELSE Longest
        /\ older[i] \in Ages0
    BY <1>0, <1>1, <1>2 DEF Ages0
<1>4. older \in Seq(Ages0) /\ Len(older) = Len(ages)
    <2>1. older \in [1..Len(ages) -> Ages0]
        BY <1>1, <1>2, <1>3
    <2>. QED BY <1>2, <2>1
<1>5. Aged(older)
    <2>. SUFFICES ASSUME NEW i \in 1..Len(ages), NEW j \in 1..Len(ages), i <= j
                  PROVE  older[j] <= older[i]
        BY <1>4 DEF Aged
    <2>1. ages[j] <= ages[i]
        BY DEF Aged
    <2>. QED BY <1>0, <1>2, <1>3, <2>1
<1>6. \A n \in 0..Len(ages) - 1 :
        /\ Back(ages, n) \in Nat
        /\ Back(older, n) = IF Back(ages, n) < Longest THEN Back(ages, n) + 1 ELSE Longest
    <2>. SUFFICES ASSUME NEW n \in 0..Len(ages) - 1
                  PROVE  /\ Back(ages, n) \in Nat
                         /\ Back(older, n) = IF Back(ages, n) < Longest THEN Back(ages, n) + 1 ELSE Longest
        OBVIOUS
    <2>1. Len(ages) - n \in 1..Len(ages)
        BY <1>2
    <2>2. ages[Len(ages) - n] \in 0..Longest
        BY <1>2, <2>1
    <2>. QED BY <1>0, <1>3, <1>4, <2>1, <2>2 DEF Back
<1>. QED BY <1>1, <1>4, <1>5, <1>6

LEMMA Passes ==
    ASSUME RateInv, SecondPasses
    PROVE  RateInv'
<1>1. /\ bucket' = [k \in Callers |-> [i \in DOMAIN bucket[k] |->
                        IF bucket[k][i] < Longest THEN bucket[k][i] + 1 ELSE Longest]]
      /\ passed' = [k \in Callers |-> Within(WindowOf[k], [i \in DOMAIN passed[k] |->
                        IF passed[k][i] < Longest THEN passed[k][i] + 1 ELSE Longest])]
      /\ UNCHANGED popped
    BY DEF SecondPasses
<1>2. ASSUME NEW k \in Callers
      PROVE  /\ Aged(bucket'[k]) /\ Aged(passed'[k])
             /\ k \notin popped => Remembers(k, bucket'[k], passed'[k])
    <2>1. PICK older : older = [i \in DOMAIN passed[k] |->
                        IF passed[k][i] < Longest THEN passed[k][i] + 1 ELSE Longest]
        OBVIOUS
    <2>2. Aged(bucket[k]) /\ Aged(passed[k])
        BY DEF RateInv
    <2>3. /\ WindowOf[k] \in Nat /\ Shortest \in Nat /\ Longest \in Nat
          /\ Shortest <= WindowOf[k] /\ WindowOf[k] <= Longest
        BY WindowsBound, RateAssumption
    <2>4. /\ Aged(bucket'[k]) /\ Len(bucket'[k]) = Len(bucket[k])
          /\ \A n \in 0..Len(bucket[k]) - 1 :
                Back(bucket'[k], n) = IF Back(bucket[k], n) < Longest THEN Back(bucket[k], n) + 1 ELSE Longest
        BY <1>1, <2>2, Older
    <2>5. /\ Aged(older) /\ Len(older) = Len(passed[k])
          /\ \A n \in 0..Len(passed[k]) - 1 :
                /\ Back(passed[k], n) \in Nat
                /\ Back(older, n) = IF Back(passed[k], n) < Longest THEN Back(passed[k], n) + 1 ELSE Longest
        BY <2>1, <2>2, Older
    <2>6. passed'[k] = Within(WindowOf[k], older)
        BY <1>1, <2>1
    <2>7. /\ Aged(passed'[k])
          /\ \A n \in 0..Len(passed'[k]) - 1 : n \in 0..Len(older) - 1 /\ Back(passed'[k], n) = Back(older, n)
        <3>1. Aged(older) /\ WindowOf[k] \in Nat /\ Shortest <= WindowOf[k]
            BY <2>3, <2>5
        <3>. QED BY <2>6, <3>1, WithinKeeps
    <2>8. ASSUME k \notin popped, NEW n \in 0..Len(passed'[k]) - 1, Back(passed'[k], n) < Shortest
          PROVE  n < Len(bucket'[k]) /\ Back(bucket'[k], n) = Back(passed'[k], n) /\ n < LimitOf[k]
        <3>1. n \in 0..Len(passed[k]) - 1 /\ Back(passed'[k], n) = Back(older, n)
            BY <2>5, <2>7
        <3>2. Back(passed[k], n) < Shortest
            BY <2>3, <2>5, <2>8, <3>1
        <3>3. n < Len(bucket[k]) /\ Back(bucket[k], n) = Back(passed[k], n) /\ n < LimitOf[k]
            BY <2>8, <3>1, <3>2 DEF RateInv, Remembers
        <3>4. n \in 0..Len(bucket[k]) - 1
            BY <2>2, <3>3 DEF Aged
        <3>. QED BY <2>4, <2>5, <3>1, <3>3, <3>4
    <2>9. k \notin popped => Remembers(k, bucket'[k], passed'[k])
        BY <2>8 DEF Remembers
    <2>. QED BY <2>4, <2>7, <2>9
<1>3. bucket' \in [Callers -> Seq(Ages0)] /\ passed' \in [Callers -> Seq(Ages0)]
    <2>1. \A k \in Callers : bucket'[k] \in Seq(Ages0) /\ passed'[k] \in Seq(Ages0)
        BY <1>2 DEF Aged
    <2>2. passed' = [k \in Callers |-> passed'[k]] /\ bucket' = [k \in Callers |-> bucket'[k]]
        BY <1>1
    <2>. QED BY <2>1, <2>2
<1>. QED BY <1>1, <1>2, <1>3 DEF RateInv

\* A process starts with no buckets and every step keeps them.
LEMMA RateInvariant == RateSpec => []RateInv
<1>1. RateInit => RateInv
    <2>. SUFFICES ASSUME RateInit PROVE RateInv
        OBVIOUS
    <2>1. Aged(<<>>) /\ <<>> \in Seq(Ages0) /\ \A k \in Callers : Remembers(k, <<>>, <<>>)
        BY DEF Aged, Remembers
    <2>. QED BY <2>1 DEF RateInit, RateInv
<1>2. RateInv /\ [RateNext]_rateVars => RateInv'
    <2>. SUFFICES ASSUME RateInv, [RateNext]_rateVars PROVE RateInv'
        OBVIOUS
    <2>1. CASE UNCHANGED rateVars
        BY <2>1 DEF RateInv, rateVars
    <2>. QED BY <2>1, Passes, Refuses, Admits DEF RateNext
<1>. QED BY <1>1, <1>2, PTL DEF RateSpec

(* No caller is admitted more often than its limit within the shortest     *)
(* window, whoever sweeps its bucket and in whatever order, unless its     *)
(* bucket was dropped for want of room (_rate_limit).                      *)
THEOREM BurstsAlwaysHold == RateSpec => []BurstsHold
<1>1. RateInv => BurstsHold
    <2>. SUFFICES ASSUME RateInv, NEW k \in Callers \ popped
                  PROVE  Len(Within(Shortest, passed[k])) <= LimitOf[k]
        BY DEF BurstsHold
    <2>1. PICK recent : recent = Within(Shortest, passed[k])
        OBVIOUS
    <2>2. Aged(passed[k]) /\ Shortest \in Nat /\ LimitOf[k] \in Nat \ {0}
        BY WindowsBound, RateAssumption DEF RateInv
    <2>3. /\ Aged(recent)
          /\ \A n \in 0..Len(recent) - 1 : n \in 0..Len(passed[k]) - 1 /\ Back(passed[k], n) < Shortest
        BY <2>1, <2>2, WithinKeeps
    <2>4. Len(recent) \in Nat
        BY <2>3 DEF Aged
    <2>5. CASE Len(recent) # 0
        <3>1. Len(recent) - 1 \in 0..Len(recent) - 1
            BY <2>4, <2>5
        <3>2. Len(recent) - 1 < LimitOf[k]
            BY <2>3, <3>1 DEF RateInv, Remembers
        <3>. QED BY <2>1, <2>2, <2>4, <3>2
    <2>. QED BY <2>1, <2>2, <2>4, <2>5
<1>. QED BY <1>1, RateInvariant, PTL

-----------------------------------------------------------------------------
(* The record of a client.                                                  *)

ClientRows ==
    [status : {"active", "archived", "purged"}, tier : Tiers, horizon : Horizons, age : Ages]

Sheets == {s \in [Questions -> Nat \cup {None}] : \A q \in Questions : s[q] \in Options[q] \cup {None}}

ClientShape ==
    /\ client \in ClientRows /\ sheet \in Sheets /\ assessed \in BOOLEAN
    /\ clientRequest \in [ClientRequests -> {None} \cup [what : {"assess", "update", "archive"}, row : ClientRows, crossed : BOOLEAN]]

\* A request that none crossed is the only one, and has loaded what is stored.
AloneInv ==
    \A r \in InHands : ~clientRequest[r].crossed =>
        /\ \A v \in InHands : v = r
        /\ clientRequest[r].row.tier = client.tier
        /\ clientRequest[r].row.horizon = client.horizon
        /\ clientRequest[r].row.age = client.age

AssessedInv == assessed => client.tier = Assigned(sheet, client)

ClientInv == ClientShape /\ AloneInv /\ AssessedInv

\* The least of a few tiers.
LEMMA LeastOfTiers ==
    ASSUME NEW a \in Tiers, NEW b \in Tiers
    PROVE  Least3({a, b}) \in Tiers /\ Least3({a, b}) = IF a <= b THEN a ELSE b
<1>1. PICK m : m = IF a <= b THEN a ELSE b
    OBVIOUS
<1>2. m \in {a, b} /\ m \in Tiers /\ \A x \in {a, b} : m <= x
    BY <1>1 DEF Tiers
<1>3. Least3({a, b}) \in {a, b} /\ \A x \in {a, b} : Least3({a, b}) <= x
    BY <1>2 DEF Least3
<1>. QED BY <1>1, <1>2, <1>3 DEF Tiers

LEMMA TiersAreTiers ==
    ASSUME NEW s, NEW earned, NEW possible, NEW t \in Tiers, NEW h, NEW age
    PROVE  /\ _tier_from_score(earned, possible) \in Tiers
           /\ apply_hard_overrides(t, h, age) \in Tiers
BY DEF _tier_from_score, apply_hard_overrides, CappedByAge, CappedByHorizon, Tiers

LEMMA ScoresAreTiers ==
    ASSUME NEW s
    PROVE  /\ DimensionTier(s, Capacity) \in Tiers /\ DimensionTier(s, Tolerance) \in Tiers
           /\ score_answers(s) \in Tiers
           /\ \A row : Assigned(s, row) \in Tiers
<1>1. DimensionTier(s, Capacity) \in Tiers /\ DimensionTier(s, Tolerance) \in Tiers
    BY DEF DimensionTier, _tier_from_score, Tiers
<1>2. score_answers(s) \in Tiers
    BY <1>1, LeastOfTiers DEF score_answers
<1>. QED BY <1>1, <1>2, TiersAreTiers DEF Assigned

\* Overrides take the lower of two tiers to the lower of what they make of them.
LEMMA OverridesOrdered ==
    ASSUME NEW s \in Tiers, NEW t \in Tiers, s <= t, NEW h, NEW age
    PROVE  apply_hard_overrides(s, h, age) <= apply_hard_overrides(t, h, age)
BY DEF apply_hard_overrides, CappedByAge, CappedByHorizon, Tiers

\* A worse answer scores no more, and the same is possible.
LEMMA WorseAnswerScoresLess ==
    ASSUME NEW old \in Sheets, NEW new \in Sheets, NEW q \in Questions,
           \A x \in Questions : x # q => new[x] = old[x],
           old[q] # None, new[q] # None, new[q] <= old[q],
           NEW dimension \in SUBSET Questions
    PROVE  DimensionTier(new, dimension) <= DimensionTier(old, dimension)
<1>1. PICK A : A = Answered(old, dimension)
    OBVIOUS
<1>2. Answered(new, dimension) = A /\ A \subseteq Questions /\ IsFiniteSet(A)
    <2>1. A \subseteq Questions /\ Answered(new, dimension) = A
        BY <1>1 DEF Answered
    <2>. QED BY <2>1, ClientAssumption, FS_Subset
<1>3. \A x \in A : old[x] \in Nat /\ new[x] \in Nat /\ new[x] <= old[x]
    <2>. SUFFICES ASSUME NEW x \in A PROVE old[x] \in Nat /\ new[x] \in Nat /\ new[x] <= old[x]
        OBVIOUS
    <2>1. x \in Questions /\ old[x] # None /\ new[x] # None
        BY <1>1, <1>2 DEF Answered
    <2>2. old[x] \in Nat /\ new[x] \in Nat
        BY <2>1 DEF Sheets
    <2>. QED BY <2>1, <2>2
<1>4. PICK a, b, p : /\ a = Sum(old, A) /\ b = Sum(new, A)
                     /\ p = Sum([x \in Questions |-> Most3(Options[x])], A)
    OBVIOUS
<1>5. a \in Nat /\ b \in Nat /\ b <= a
    BY <1>2, <1>3, <1>4, SumNat, SumAtMost
<1>6. p \in Nat
    <2>1. PICK f : f = [x \in Questions |-> Most3(Options[x])]
        OBVIOUS
    <2>2. ASSUME NEW x \in A PROVE f[x] \in Nat
        <3>1. x \in Questions
            BY <1>2
        <3>2. Options[x] \in SUBSET Nat /\ Options[x] # {} /\ IsFiniteSet(Options[x])
            BY <3>1, ClientAssumption
        <3>3. \E m \in Options[x] : \A y \in Options[x] : m >= y
            <4>1. Max(Options[x]) \in Options[x] /\ \A y \in Options[x] : y <= Max(Options[x])
                BY <3>2, MaxExists
            <4>. QED BY <3>2, <4>1
        <3>4. Most3(Options[x]) \in Options[x]
            BY <3>3 DEF Most3
        <3>. QED BY <2>1, <3>1, <3>2, <3>4
    <2>. QED BY <1>2, <1>4, <2>1, <2>2, SumNat
<1>7. /\ DimensionTier(old, dimension) = _tier_from_score(a, p)
      /\ DimensionTier(new, dimension) = _tier_from_score(b, p)
    BY <1>1, <1>2, <1>4 DEF DimensionTier, Earned, Possible, Sum
<1>8. _tier_from_score(b, p) <= _tier_from_score(a, p)
    BY <1>5, <1>6 DEF _tier_from_score
<1>. QED BY <1>7, <1>8

LEMMA WorseAnswerAssignsLess ==
    ASSUME NEW old \in Sheets, NEW new \in Sheets, NEW q \in Questions,
           \A x \in Questions : x # q => new[x] = old[x],
           old[q] # None, new[q] # None, new[q] <= old[q],
           NEW row
    PROVE  Assigned(new, row) <= Assigned(old, row)
<1>1. /\ DimensionTier(new, Capacity) <= DimensionTier(old, Capacity)
      /\ DimensionTier(new, Tolerance) <= DimensionTier(old, Tolerance)
    <2>1. Capacity \in SUBSET Questions /\ Tolerance \in SUBSET Questions
        BY DEF Questions
    <2>. QED BY <2>1, WorseAnswerScoresLess
<1>2. score_answers(new) <= score_answers(old) /\ score_answers(new) \in Tiers /\ score_answers(old) \in Tiers
    BY <1>1, ScoresAreTiers, LeastOfTiers DEF score_answers, Tiers
<1>. QED BY <1>2, OverridesOrdered DEF Assigned

\* The rest of a step that ends the request r: nobody else was uncrossed.
LEMMA OthersCrossed ==
    ASSUME ClientShape, AloneInv, NEW r \in InHands, clientRequest' = [clientRequest EXCEPT ![r] = None]
    PROVE  /\ clientRequest' \in [ClientRequests -> {None} \cup [what : {"assess", "update", "archive"}, row : ClientRows, crossed : BOOLEAN]]
           /\ \A v \in InHands' : clientRequest'[v].crossed
<1>1. \A v \in InHands' : v \in InHands /\ v # r /\ clientRequest'[v] = clientRequest[v]
    BY DEF InHands, ClientShape
<1>2. \A v \in InHands' : clientRequest[v].crossed
    BY <1>1 DEF AloneInv
<1>. QED BY <1>1, <1>2 DEF ClientShape

LEMMA ClientStep ==
    ASSUME ClientInv, [ClientNext]_clientVars
    PROVE  ClientInv'
<1>0. ClientShape /\ AloneInv /\ AssessedInv
    BY DEF ClientInv
<1>1. ASSUME NEW r \in ClientRequests, NEW what \in {"assess", "update", "archive"}, LoadClient(r, what)
      PROVE  ClientInv'
    <2>1. /\ clientRequest[r] = None
          /\ clientRequest' = [s \in ClientRequests |->
                IF s = r THEN [what |-> what, row |-> client, crossed |-> InHands # {}]
                ELSE IF s \in InHands THEN [clientRequest[s] EXCEPT !.crossed = TRUE] ELSE None]
          /\ UNCHANGED <<client, sheet, assessed>>
        BY <1>1 DEF LoadClient
    <2>2. /\ clientRequest'[r].row = client /\ clientRequest'[r].crossed = (InHands # {})
          /\ clientRequest'[r] \in [what : {"assess", "update", "archive"}, row : ClientRows, crossed : BOOLEAN]
        BY <1>0, <2>1 DEF ClientShape
    <2>3. \A s \in InHands : s \in ClientRequests /\ s # r
            /\ clientRequest[s] \in [what : {"assess", "update", "archive"}, row : ClientRows, crossed : BOOLEAN]
            /\ clientRequest'[s] \in [what : {"assess", "update", "archive"}, row : ClientRows, crossed : BOOLEAN]
            /\ clientRequest'[s].crossed
        BY <1>0, <2>1 DEF InHands, ClientShape
    <2>4. \A s \in ClientRequests : s = r \/ s \in InHands \/ clientRequest'[s] = None
        BY <2>1
    <2>5. clientRequest' \in [ClientRequests -> {None} \cup [what : {"assess", "update", "archive"}, row : ClientRows, crossed : BOOLEAN]]
        BY <2>1, <2>2, <2>3, <2>4
    <2>6. \A s \in InHands' : s = r \/ s \in InHands
        BY <2>4 DEF InHands
    <2>7. AloneInv'
        BY <2>1, <2>2, <2>3, <2>6 DEF AloneInv
    <2>. QED BY <1>0, <2>1, <2>5, <2>7 DEF ClientInv, ClientShape, AssessedInv
<1>2. ASSUME NEW r \in ClientRequests, submit_risk_assessment(r) PROVE ClientInv'
    <2>1. PICK q \in Questions, points \in {None} \cup UNION {Options[x] : x \in Questions} :
            /\ InHand(r, "assess") /\ points \in Options[q] \cup {None}
            /\ sheet' = [sheet EXCEPT ![q] = points]
            /\ client' = [client EXCEPT !.tier = Written(clientRequest[r].row.tier,
                            Assigned([sheet EXCEPT ![q] = points], clientRequest[r].row), @)]
            /\ assessed' = ~clientRequest[r].crossed
            /\ clientRequest' = [clientRequest EXCEPT ![r] = None]
        BY <1>2 DEF submit_risk_assessment, Answer
    <2>2. PICK req : req = clientRequest[r]
        OBVIOUS
    <2>3. r \in InHands /\ req \in [what : {"assess", "update", "archive"}, row : ClientRows, crossed : BOOLEAN]
        BY <1>0, <2>1, <2>2 DEF InHand, InHands, ClientShape
    <2>4. sheet' \in Sheets
        <3>1. points \in Nat \cup {None}
            BY <2>1, ClientAssumption
        <3>. QED BY <1>0, <2>1, <3>1 DEF ClientShape, Sheets
    <2>5. Assigned(sheet', req.row) \in Tiers
        BY ScoresAreTiers
    <2>6. /\ client' \in ClientRows
          /\ client'.tier = Written(req.row.tier, Assigned(sheet', req.row), client.tier)
          /\ client'.horizon = client.horizon /\ client'.age = client.age
        BY <1>0, <2>1, <2>2, <2>5 DEF ClientShape, ClientRows, Written
    <2>7. assessed' => client'.tier = Assigned(sheet', client')
        <3>. SUFFICES ASSUME ~req.crossed PROVE client'.tier = Assigned(sheet', client')
            BY <2>1, <2>2
        <3>1. req.row.tier = client.tier /\ req.row.horizon = client.horizon /\ req.row.age = client.age
            BY <1>0, <2>2, <2>3 DEF AloneInv
        <3>2. Assigned(sheet', client') = Assigned(sheet', req.row)
            BY <2>6, <3>1 DEF Assigned
        <3>. QED BY <2>6, <3>1, <3>2 DEF Written
    <2>8. /\ clientRequest' \in [ClientRequests -> {None} \cup [what : {"assess", "update", "archive"}, row : ClientRows, crossed : BOOLEAN]]
          /\ \A v \in InHands' : clientRequest'[v].crossed
        BY <1>0, <2>1, <2>3, OthersCrossed
    <2>9. assessed' \in BOOLEAN
        BY <2>1
    <2>. QED BY <2>4, <2>6, <2>7, <2>8, <2>9 DEF ClientInv, ClientShape, AloneInv, AssessedInv
<1>3. ASSUME NEW r \in ClientRequests, update_client(r) PROVE ClientInv'
    <2>1. PICK tier \in Tiers, h \in Horizons, age \in Ages :
            /\ InHand(r, "update")
            /\ client' = [client EXCEPT !.tier = Written(clientRequest[r].row.tier, tier, @),
                                        !.horizon = Written(clientRequest[r].row.horizon, h, @),
                                        !.age = Written(clientRequest[r].row.age, age, @)]
            /\ assessed' = (assessed /\ client' = client)
            /\ clientRequest' = [clientRequest EXCEPT ![r] = None]
            /\ UNCHANGED sheet
        BY <1>3 DEF update_client, Answer
    <2>2. r \in InHands
        BY <2>1 DEF InHand, InHands
    <2>3. client' \in ClientRows
        BY <1>0, <2>1 DEF ClientShape, ClientRows, Written
    <2>4. assessed' => client'.tier = Assigned(sheet', client')
        BY <1>0, <2>1 DEF AssessedInv
    <2>5. /\ clientRequest' \in [ClientRequests -> {None} \cup [what : {"assess", "update", "archive"}, row : ClientRows, crossed : BOOLEAN]]
          /\ \A v \in InHands' : clientRequest'[v].crossed
        BY <1>0, <2>1, <2>2, OthersCrossed
    <2>6. assessed' \in BOOLEAN
        BY <2>1, Zenon
    <2>. QED BY <1>0, <2>1, <2>3, <2>4, <2>5, <2>6 DEF ClientInv, ClientShape, AloneInv, AssessedInv
<1>4. ASSUME NEW r \in ClientRequests, archive_client(r) PROVE ClientInv'
    <2>1. /\ InHand(r, "archive") /\ client' = [client EXCEPT !.status = "archived"]
          /\ clientRequest' = [clientRequest EXCEPT ![r] = None] /\ UNCHANGED <<sheet, assessed>>
        BY <1>4 DEF archive_client, Answer
    <2>2. r \in InHands
        BY <2>1 DEF InHand, InHands
    <2>3. client' \in ClientRows /\ client'.tier = client.tier /\ client'.horizon = client.horizon /\ client'.age = client.age
        BY <1>0, <2>1 DEF ClientShape, ClientRows
    <2>4. /\ clientRequest' \in [ClientRequests -> {None} \cup [what : {"assess", "update", "archive"}, row : ClientRows, crossed : BOOLEAN]]
          /\ \A v \in InHands' : clientRequest'[v].crossed
        BY <1>0, <2>1, <2>2, OthersCrossed
    <2>5. Assigned(sheet, client') = Assigned(sheet, client)
        BY <2>3 DEF Assigned
    <2>. QED BY <1>0, <2>1, <2>3, <2>4, <2>5 DEF ClientInv, ClientShape, AloneInv, AssessedInv
<1>5. ASSUME NEW r \in ClientRequests, FailOnPurged(r) PROVE ClientInv'
    <2>1. /\ r \in InHands /\ clientRequest' = [clientRequest EXCEPT ![r] = None]
          /\ UNCHANGED <<client, sheet, assessed>>
        BY <1>5 DEF FailOnPurged, Answer, InHands
    <2>2. /\ clientRequest' \in [ClientRequests -> {None} \cup [what : {"assess", "update", "archive"}, row : ClientRows, crossed : BOOLEAN]]
          /\ \A v \in InHands' : clientRequest'[v].crossed
        BY <1>0, <2>1, OthersCrossed
    <2>. QED BY <1>0, <2>1, <2>2 DEF ClientInv, ClientShape, AloneInv, AssessedInv
<1>6. ASSUME NEW force \in BOOLEAN, purge_client(force) PROVE ClientInv'
    <2>1. /\ client' = [client EXCEPT !.status = "purged"] /\ sheet' = [q \in Questions |-> None]
          /\ assessed' = FALSE /\ UNCHANGED clientRequest
        BY <1>6 DEF purge_client
    <2>2. client' \in ClientRows /\ client'.tier = client.tier /\ client'.horizon = client.horizon /\ client'.age = client.age
        BY <1>0, <2>1 DEF ClientShape, ClientRows
    <2>3. sheet' \in Sheets
        BY <2>1 DEF Sheets
    <2>. QED BY <1>0, <2>1, <2>2, <2>3 DEF ClientInv, ClientShape, AloneInv, AssessedInv, InHands
<1>7. ASSUME UNCHANGED <<client, sheet, clientRequest, assessed>> PROVE ClientInv'
    BY <1>0, <1>7 DEF ClientInv, ClientShape, AloneInv, AssessedInv, InHands
<1>. QED BY <1>1, <1>2, <1>3, <1>4, <1>5, <1>6, <1>7 DEF ClientNext, DayPasses, clientVars

LEMMA ClientInvariant == ClientSpec => []ClientInv
<1>1. ClientInit => ClientInv
    <2>. SUFFICES ASSUME ClientInit PROVE ClientInv
        OBVIOUS
    <2>1. client \in ClientRows
        BY DEF ClientInit, ClientRows
    <2>2. sheet \in Sheets
        BY DEF ClientInit, Sheets
    <2>. QED BY <2>1, <2>2 DEF ClientInit, ClientInv, ClientShape, AloneInv, AssessedInv, InHands
<1>. QED BY <1>1, ClientStep, PTL DEF ClientSpec

(* A worse answer never raises the tier, whoever edits, archives or        *)
(* assesses in between (score_answers, apply_hard_overrides).              *)
THEOREM WorseAnswersNeverRaise == ClientSpec => WorseAnswerNoHigherTier
<1>1. ASSUME ClientInv, ClientInv', [ClientNext]_clientVars, assessed, assessed',
             client.horizon = client'.horizon, client.age = client'.age,
             NEW q \in Questions, sheet[q] # None, sheet'[q] # None, sheet'[q] < sheet[q]
      PROVE  client'.tier <= client.tier
    <2>1. sheet \in Sheets /\ sheet' \in Sheets
        BY <1>1 DEF ClientInv, ClientShape
    <2>2. sheet[q] \in Nat /\ sheet'[q] \in Nat
        BY <1>1, <2>1 DEF Sheets
    <2>3. sheet' # sheet /\ sheet'[q] <= sheet[q]
        BY <1>1, <2>2
    <2>4. PICK r \in ClientRequests : submit_risk_assessment(r)
        BY <1>1, <2>3 DEF ClientNext, clientVars, LoadClient, update_client, archive_client,
                          FailOnPurged, purge_client, DayPasses
    <2>5. PICK p, points : p \in Questions /\ sheet' = [sheet EXCEPT ![p] = points]
        BY <2>4 DEF submit_risk_assessment
    <2>6. \A x \in Questions : x # q => sheet'[x] = sheet[x]
        <3>1. p = q
            BY <2>1, <2>2, <1>1, <2>5 DEF Sheets
        <3>. QED BY <2>1, <2>5, <3>1 DEF Sheets
    <2>7. Assigned(sheet', client') <= Assigned(sheet, client')
        BY <1>1, <2>1, <2>3, <2>6, WorseAnswerAssignsLess
    <2>8. Assigned(sheet, client') = Assigned(sheet, client)
        BY <1>1 DEF Assigned
    <2>. QED BY <1>1, <2>7, <2>8 DEF ClientInv, AssessedInv
<1>2. ClientInv /\ ClientInv' /\ [ClientNext]_clientVars =>
        [assessed /\ assessed' /\ client.horizon = client'.horizon /\ client.age = client'.age
          /\ (\E q \in Questions : sheet[q] # None /\ sheet'[q] # None /\ sheet'[q] < sheet[q])
         => client'.tier <= client.tier]_clientVars
    BY <1>1
<1>. QED BY <1>2, ClientInvariant, PTL DEF ClientSpec, WorseAnswerNoHigherTier

(* An assessment that nothing crossed gives the lowest of what its answers *)
(* on either dimension, the horizon and the age allow (score_answers,      *)
(* apply_hard_overrides).                                                  *)
THEOREM TiersAreLowest == ClientSpec => []LowestTierRules
<1>1. ClientInv => LowestTierRules
    <2>. SUFFICES ASSUME ClientInv, assessed PROVE LowestTierRules
        BY DEF LowestTierRules
    <2>1. PICK a, b, c, d : /\ a = DimensionTier(sheet, Capacity) /\ b = DimensionTier(sheet, Tolerance)
                            /\ c = HorizonCap(client.horizon) /\ d = AgeCap(client.age)
        OBVIOUS
    <2>2. a \in Tiers /\ b \in Tiers /\ c \in Tiers /\ d \in Tiers
        BY <2>1, ScoresAreTiers DEF HorizonCap, AgeCap, Tiers
    <2>3. client.tier = apply_hard_overrides(IF a <= b THEN a ELSE b, client.horizon, client.age)
        BY <2>1, <2>2, LeastOfTiers DEF ClientInv, AssessedInv, Assigned, score_answers
    <2>4. client.horizon \in Nat
        BY ClientAssumption DEF ClientInv, ClientShape, ClientRows
    <2>5. client.tier \in {a, b, c, d} /\ \A x \in {a, b, c, d} : client.tier <= x
        BY <2>1, <2>2, <2>3, <2>4 DEF apply_hard_overrides, CappedByAge, CappedByHorizon, HorizonCap, AgeCap, Tiers
    <2>6. \A m \in {a, b, c, d} : (\A x \in {a, b, c, d} : m <= x) => m = client.tier
        BY <2>2, <2>5 DEF Tiers
    <2>7. Least3({a, b, c, d}) = client.tier
        BY <2>5, <2>6 DEF Least3
    <2>. QED BY <2>1, <2>7 DEF LowestTierRules
<1>. QED BY <1>1, ClientInvariant, PTL

-----------------------------------------------------------------------------
(* Valuations and returns.                                                  *)

SnapshotRows ==
    [as_of : Days, market_value : Int, net_flow : Int, is_reconstructed : BOOLEAN, gain : Int]
Captures == [stage : {"flows", "row", "commit"}, row : SnapshotRows, at : Nat]

ValueShape ==
    /\ today \in Days /\ close \in [Days -> Closes] /\ cash \in Int /\ shares \in Nat
    /\ flows \in [Days -> Int] /\ snapshots \in Seq(SnapshotRows)
    /\ capture \in [Writers -> Captures \cup {None}]
    /\ gained \in Int /\ late \in BOOLEAN /\ crossed \in BOOLEAN
    /\ \A i \in DOMAIN snapshots : snapshots[i].as_of <= today
    /\ \A w \in InProgress : capture[w].row.as_of <= today /\ ~capture[w].row.is_reconstructed
    /\ \A d \in Days : d > today => flows[d] = 0

\* What of the client's worth prices did not earn, and what of a row's.
PaidIn == cash + shares * close[today] - gained
Unearned(row) == row.market_value - row.gain

\* A capture under way still has the day right: nothing was paid since, and the
\* row of its day is where it found it.
CaptureStands(c) ==
    /\ Unearned(c.row) = PaidIn
    /\ \A d \in Days : d > c.row.as_of => flows[d] = 0
    /\ \A i \in Measured : snapshots[i].as_of <= c.row.as_of
    /\ c.stage # "commit" => c.at = 0
    /\ c.stage # "flows" => c.row.net_flow = flows[c.row.as_of]
    /\ c.stage = "commit" =>
        IF c.at = 0 THEN RowsOf(c.row.as_of) = {} ELSE c.at \in RowsOf(c.row.as_of)

\* The latest row has counted what was paid up to it, and only today's payments
\* came after it.
RowStands(row) ==
    /\ \A d \in Days : row.as_of < d /\ d < today => flows[d] = 0
    /\ row.as_of < today => row.net_flow = flows[row.as_of] /\ Unearned(row) + flows[today] = PaidIn
    /\ row.as_of = today => Unearned(row) + flows[today] - row.net_flow = PaidIn

IsLatest(i) == i \in Measured /\ \A k \in Measured : snapshots[k].as_of <= snapshots[i].as_of

Follows(i, j) ==
    /\ i \in Measured /\ j \in Measured /\ snapshots[i].as_of < snapshots[j].as_of
    /\ \A k \in Measured : ~(snapshots[i].as_of < snapshots[k].as_of /\ snapshots[k].as_of < snapshots[j].as_of)

\* A day has one row and a capture no other beside it, while none was crossed.
DayInv ==
    ~crossed =>
        /\ \A i, j \in DOMAIN snapshots : snapshots[i].as_of = snapshots[j].as_of => i = j
        /\ \A w \in InProgress : CaptureStands(capture[w]) /\ \A v \in InProgress : v = w

\* Each row explains what was paid since the one before it.
SeriesInv ==
    ~crossed /\ ~late =>
        /\ \A i \in Measured : IsLatest(i) => RowStands(snapshots[i])
        /\ \A i, j \in Measured : Follows(i, j) =>
            Unearned(snapshots[j]) = Unearned(snapshots[i]) + snapshots[j].net_flow

ValueInv == ValueShape /\ DayInv /\ SeriesInv

\* The facts on the constants and on rows that every step needs.
LEMMA ValueFacts ==
    ASSUME ValueShape
    PROVE  /\ LastDay \in Nat /\ Days = 0..LastDay /\ today \in 0..LastDay
           /\ Len(snapshots) \in Nat /\ DOMAIN snapshots = 1..Len(snapshots)
           /\ \A i \in 1..Len(snapshots) : snapshots[i] \in SnapshotRows
           /\ \A d \in Days : d \in Nat /\ flows[d] \in Int /\ close[d] \in Nat
           /\ shares * close[today] \in Int /\ PaidIn \in Int
           /\ \A row \in SnapshotRows : /\ row.as_of \in Days /\ row.market_value \in Int /\ row.net_flow \in Int
                                        /\ row.gain \in Int /\ Unearned(row) \in Int
           /\ Measured \subseteq 1..Len(snapshots)
           /\ \A w \in InProgress : w \in Writers /\ (capture[w] = None \/ capture[w] \in Captures)
<1>1. LastDay \in Nat /\ Days = 0..LastDay /\ today \in 0..LastDay
    BY ValuationAssumption DEF ValueShape, Days
<1>2. /\ Len(snapshots) \in Nat /\ DOMAIN snapshots = 1..Len(snapshots)
      /\ \A i \in 1..Len(snapshots) : snapshots[i] \in SnapshotRows
    BY DEF ValueShape
<1>3. \A d \in Days : d \in Nat /\ flows[d] \in Int /\ close[d] \in Nat
    <2>. SUFFICES ASSUME NEW d \in Days PROVE d \in Nat /\ flows[d] \in Int /\ close[d] \in Nat
        OBVIOUS
    <2>1. close[d] \in Closes /\ flows[d] \in Int
        BY DEF ValueShape
    <2>2. close[d] \in Nat
        BY <2>1, ValuationAssumption
    <2>. QED BY <1>1, <2>1, <2>2
<1>4. close[today] \in Nat /\ shares \in Nat /\ cash \in Int /\ gained \in Int
    BY <1>3 DEF ValueShape
<1>5. shares * close[today] \in Int
    BY <1>4
<1>6. \A row \in SnapshotRows : /\ row.as_of \in Days /\ row.market_value \in Int /\ row.net_flow \in Int
                                /\ row.gain \in Int /\ Unearned(row) \in Int
    BY DEF SnapshotRows, Unearned
<1>7. \A w \in InProgress : w \in Writers /\ (capture[w] = None \/ capture[w] \in Captures)
    BY DEF ValueShape, InProgress
<1>. QED BY <1>1, <1>2, <1>3, <1>4, <1>5, <1>6, <1>7 DEF PaidIn, Measured

\* A step that leaves the rows alone leaves the series of them.
LEMMA SameSeries ==
    ASSUME UNCHANGED snapshots
    PROVE  /\ Measured' = Measured
           /\ \A i \in Measured : (IsLatest(i)' <=> IsLatest(i)) /\ Unearned(snapshots[i])' = Unearned(snapshots[i])
           /\ \A i, j \in Measured : Follows(i, j)' <=> Follows(i, j)
BY DEF Measured, IsLatest, Follows, Unearned

\* Money that comes or goes is counted on its day, and only while no capture is
\* under way is a row still what it says.
LEMMA Pays ==
    ASSUME ValueInv, NEW amount \in Int, Pay(amount)
    PROVE  ValueInv'
<1>0. ValueShape /\ DayInv /\ SeriesInv
    BY DEF ValueInv
<1>1. /\ cash' = cash + amount /\ flows' = [flows EXCEPT ![today] = @ + amount]
      /\ crossed' = (crossed \/ InProgress # {})
      /\ UNCHANGED <<today, close, shares, snapshots, capture, gained, late>>
    BY DEF Pay
<1>2. /\ flows' \in [Days -> Int] /\ flows'[today] = flows[today] + amount
      /\ \A d \in Days : d # today => flows'[d] = flows[d]
    BY <1>0, <1>1, ValueFacts DEF ValueShape
<1>3. ValueShape'
    BY <1>0, <1>1, <1>2, ValueFacts DEF ValueShape, InProgress
<1>4. DayInv'
    BY <1>0, <1>1 DEF DayInv, InProgress
<1>5. PaidIn' = PaidIn + amount
    BY <1>0, <1>1, ValueFacts DEF PaidIn, ValueShape
<1>6. ASSUME NEW i \in Measured, RowStands(snapshots[i])
      PROVE  RowStands(snapshots[i])'
    <2>1. snapshots[i] \in SnapshotRows /\ snapshots[i].as_of \in Days /\ snapshots[i].as_of <= today
          /\ today \in Days /\ today \in Nat /\ snapshots[i].as_of \in Nat
        BY <1>0, ValueFacts DEF ValueShape
    <2>2. \A d \in Days : snapshots[i].as_of < d /\ d < today => flows'[d] = 0
        <3>1. \A d \in Days : d < today => d # today
            BY <1>0, ValueFacts
        <3>2. \A d \in Days : snapshots[i].as_of < d /\ d < today => flows[d] = 0
            BY <1>6 DEF RowStands
        <3>. QED BY <1>2, <3>1, <3>2
    <2>3. Unearned(snapshots[i]) \in Int /\ snapshots[i].net_flow \in Int /\ flows[today] \in Int /\ PaidIn \in Int
        BY <1>0, <2>1, ValueFacts
    <2>4. snapshots[i].as_of < today => flows'[snapshots[i].as_of] = flows[snapshots[i].as_of]
        BY <1>2, <2>1
    <2>. QED BY <1>1, <1>2, <1>5, <1>6, <2>1, <2>2, <2>3, <2>4 DEF RowStands, Unearned
<1>7. SeriesInv'
    BY <1>0, <1>1, <1>6, SameSeries DEF SeriesInv
<1>. QED BY <1>3, <1>4, <1>7 DEF ValueInv

\* Cash that an account brings along is noticed as late.
LEMMA AddsAccount ==
    ASSUME ValueInv, NEW amount \in Nat, add_account(amount)
    PROVE  ValueInv'
<1>0. ValueShape /\ DayInv /\ SeriesInv
    BY DEF ValueInv
<1>1. /\ cash' = cash + amount /\ late' = (late \/ snapshots # <<>>)
      /\ crossed' = (crossed \/ InProgress # {})
      /\ UNCHANGED <<today, close, shares, flows, snapshots, capture, gained>>
    BY DEF add_account
<1>2. ValueShape'
    <2>1. cash' \in Int
        BY <1>0, <1>1 DEF ValueShape
    <2>2. late' \in BOOLEAN /\ crossed' \in BOOLEAN
        BY <1>1, Zenon
    <2>. QED BY <1>0, <1>1, <2>1, <2>2 DEF ValueShape, InProgress
<1>3. DayInv'
    BY <1>0, <1>1 DEF DayInv, InProgress
<1>4. ~late' => Measured' = {}
    <2>1. ~late' => snapshots' = <<>>
        BY <1>1
    <2>2. DOMAIN <<>> = {}
        OBVIOUS
    <2>. QED BY <2>1, <2>2 DEF Measured
<1>. QED BY <1>2, <1>3, <1>4 DEF ValueInv, SeriesInv

\* A trade and the change of the day leave what was paid in as it is.
LEMMA Trades ==
    ASSUME ValueInv, NEW quantity \in Int, Trade(quantity)
    PROVE  ValueInv'
<1>0. ValueShape /\ DayInv /\ SeriesInv
    BY DEF ValueInv
<1>1. /\ shares + quantity >= 0 /\ shares' = shares + quantity /\ cash' = cash - quantity * close[today]
      /\ UNCHANGED <<today, close, flows, snapshots, capture, gained, late, crossed>>
    BY DEF Trade
<1>2. close[today] \in Int /\ quantity * close[today] \in Int /\ shares \in Nat /\ cash \in Int /\ gained \in Int
    BY <1>0, ValueFacts DEF ValueShape
<1>3. ValueShape'
    BY <1>0, <1>1, <1>2 DEF ValueShape, InProgress
<1>4. PaidIn' = PaidIn
    <2>1. PICK c \in Int : c = close[today]
        BY <1>2
    <2>2. (cash - quantity * c) + (shares + quantity) * c - gained = cash + shares * c - gained
        BY <1>2, <2>1
    <2>. QED BY <1>1, <2>1, <2>2 DEF PaidIn
<1>5. DayInv'
    BY <1>0, <1>1, <1>4 DEF DayInv, InProgress, CaptureStands, Unearned, Measured, RowsOf
<1>6. SeriesInv'
    BY <1>0, <1>1, <1>4 DEF SeriesInv, IsLatest, Follows, Measured, Unearned, RowStands
<1>. QED BY <1>3, <1>5, <1>6 DEF ValueInv

LEMMA DayEndsWell ==
    ASSUME ValueInv, DayEnds
    PROVE  ValueInv'
<1>0. ValueShape /\ DayInv /\ SeriesInv
    BY DEF ValueInv
<1>1. /\ today < LastDay /\ today' = today + 1
      /\ gained' = gained + shares * (close[today + 1] - close[today])
      /\ late' = (late \/ Missed(today))
      /\ UNCHANGED <<close, cash, shares, flows, snapshots, capture, crossed>>
    BY DEF DayEnds
<1>2. today + 1 \in Days /\ today \in Days /\ today \in Nat
    BY <1>0, <1>1, ValueFacts
<1>3. PICK a \in Int, b \in Int : a = close[today] /\ b = close[today + 1]
    BY <1>0, <1>2, ValueFacts
<1>4. shares \in Int /\ cash \in Int /\ gained \in Int /\ shares * (b - a) \in Int
    BY <1>0, <1>3 DEF ValueShape
<1>5. Missed(today) \in BOOLEAN
    BY <1>0 DEF Missed
<1>6. ValueShape'
    <2>1. \A i \in DOMAIN snapshots : snapshots[i].as_of \in Nat
        BY <1>0, ValueFacts
    <2>2. \A w \in InProgress : capture[w] # None /\ capture[w].row.as_of \in Nat
        <3>. SUFFICES ASSUME NEW w \in InProgress PROVE capture[w] # None /\ capture[w].row.as_of \in Nat
            OBVIOUS
        <3>1. capture[w] # None /\ capture[w] \in Captures
            BY <1>0, ValueFacts DEF InProgress
        <3>2. capture[w].row \in SnapshotRows
            BY <3>1 DEF Captures
        <3>. QED BY <1>0, <3>1, <3>2, ValueFacts
    <2>3. gained' \in Int
        BY <1>1, <1>3, <1>4
    <2>4. \A i \in DOMAIN snapshots : snapshots[i].as_of <= today'
        BY <1>0, <1>1, <1>2, <2>1 DEF ValueShape
    <2>5. \A w \in InProgress : capture[w].row.as_of <= today' /\ ~capture[w].row.is_reconstructed
        BY <1>0, <1>1, <1>2, <2>2 DEF ValueShape
    <2>6. \A d \in Days : d > today' => flows[d] = 0
        BY <1>0, <1>1, <1>2, ValueFacts DEF ValueShape
    <2>. QED BY <1>0, <1>1, <1>2, <1>5, <2>3, <2>4, <2>5, <2>6, Zenon DEF ValueShape, InProgress
<1>7. PaidIn' = PaidIn
    <2>1. cash + shares * b - (gained + shares * (b - a)) = cash + shares * a - gained
        BY <1>3, <1>4
    <2>. QED BY <1>1, <1>3, <2>1 DEF PaidIn
<1>8. DayInv'
    BY <1>0, <1>1, <1>7 DEF DayInv, InProgress, CaptureStands, Unearned, Measured, RowsOf
<1>9. ASSUME ~crossed, ~late, ~Missed(today), NEW i \in Measured, IsLatest(i), RowStands(snapshots[i])
      PROVE  RowStands(snapshots[i])'
    <2>1. PICK row : row = snapshots[i]
        OBVIOUS
    <2>2. row \in SnapshotRows /\ row.as_of \in Days /\ row.as_of \in Nat /\ row.as_of <= today
          /\ Unearned(row) \in Int /\ row.net_flow \in Int /\ flows[today] \in Int /\ PaidIn \in Int
        BY <1>0, <1>2, <2>1, ValueFacts DEF ValueShape
    <2>3. flows[today + 1] = 0
        BY <1>0, <1>2 DEF ValueShape
    <2>4. CASE row.as_of = today
        <3>1. i \in Measured \cap RowsOf(today)
            BY <2>1, <2>4 DEF RowsOf, Measured
        <3>2. row.net_flow = flows[today]
            BY <1>9, <2>1, <3>1 DEF Missed
        <3>3. Unearned(row) = PaidIn
            BY <1>9, <2>1, <2>2, <2>4, <3>2 DEF RowStands
        <3>4. \A d \in Days : ~(row.as_of < d /\ d < today')
            BY <1>0, <1>1, <1>2, <2>4, ValueFacts
        <3>. QED BY <1>1, <1>2, <1>7, <2>1, <2>2, <2>3, <2>4, <3>2, <3>3, <3>4 DEF RowStands, Unearned
    <2>5. CASE row.as_of < today
        <3>1. Measured \cap RowsOf(today) = {}
            <4>. SUFFICES ASSUME NEW k \in Measured, snapshots[k].as_of = today PROVE FALSE
                BY DEF RowsOf
            <4>1. today <= row.as_of
                BY <1>9, <2>1 DEF IsLatest
            <4>. QED BY <1>2, <2>2, <2>5, <4>1
        <3>2. flows[today] = 0
            BY <1>9, <3>1 DEF Missed
        <3>3. /\ \A d \in Days : row.as_of < d /\ d < today => flows[d] = 0
              /\ row.net_flow = flows[row.as_of] /\ Unearned(row) + flows[today] = PaidIn
            BY <1>9, <2>1, <2>5 DEF RowStands
        <3>4. \A d \in Days : row.as_of < d /\ d < today' => flows[d] = 0
            BY <1>0, <1>1, <1>2, <3>2, <3>3, ValueFacts
        <3>5. Unearned(row) + flows[today + 1] = PaidIn
            BY <2>2, <2>3, <3>2, <3>3
        <3>6. row.as_of < today' /\ row.as_of # today'
            BY <1>1, <1>2, <2>2, <2>5
        <3>. QED BY <1>1, <1>7, <2>1, <3>3, <3>4, <3>5, <3>6 DEF RowStands, Unearned
    <2>. QED BY <1>2, <2>2, <2>4, <2>5
<1>10. SeriesInv'
    BY <1>0, <1>1, <1>5, <1>9, SameSeries DEF SeriesInv
<1>. QED BY <1>6, <1>8, <1>10 DEF ValueInv

\* A capture starts with what the portfolio is worth.
LEMMA CapturesView ==
    ASSUME ValueInv, NEW w \in Writers, CaptureView(w)
    PROVE  ValueInv'
<1>0. ValueShape /\ DayInv /\ SeriesInv
    BY DEF ValueInv
<1>a. PICK quoted \in BOOLEAN :
        /\ capture' = [capture EXCEPT ![w] = [stage |-> "flows", at |-> 0,
                row |-> Snapshot(today, cash + (IF quoted THEN shares * close[today] ELSE 0), 0, FALSE, gained)]]
        /\ crossed' = (crossed \/ InProgress # {} \/ (shares > 0 /\ ~quoted))
        /\ UNCHANGED <<today, close, cash, shares, flows, snapshots, gained, late>>
    BY DEF CaptureView
<1>b. PICK value, c :
        /\ value = cash + (IF quoted THEN shares * close[today] ELSE 0)
        /\ c = [stage |-> "flows", row |-> Snapshot(today, value, 0, FALSE, gained), at |-> 0]
    OBVIOUS
<1>1. /\ value = cash + (IF quoted THEN shares * close[today] ELSE 0)
      /\ c = [stage |-> "flows", row |-> Snapshot(today, value, 0, FALSE, gained), at |-> 0]
      /\ capture' = [capture EXCEPT ![w] = c]
      /\ crossed' = (crossed \/ InProgress # {} \/ (shares > 0 /\ ~quoted))
      /\ UNCHANGED <<today, close, cash, shares, flows, snapshots, gained, late>>
    BY <1>a, <1>b
<1>2. value \in Int /\ c \in Captures /\ c.row.as_of = today /\ ~c.row.is_reconstructed
      /\ Unearned(c.row) = value - gained /\ c.stage = "flows"
    <2>1. value \in Int /\ gained \in Int /\ today \in Days
        BY <1>0, <1>1, ValueFacts DEF ValueShape
    <2>. QED BY <1>1, <2>1 DEF Snapshot, Captures, SnapshotRows, Unearned
<1>3. capture' \in [Writers -> Captures \cup {None}] /\ capture'[w] = c
      /\ \A v \in Writers : v # w => capture'[v] = capture[v]
    BY <1>0, <1>1, <1>2 DEF ValueShape
<1>4. \A v \in InProgress' : v = w \/ v \in InProgress
    BY <1>3 DEF InProgress
<1>5. ValueShape'
    <2>1. ASSUME NEW v \in InProgress'
          PROVE  capture'[v].row.as_of <= today /\ ~capture'[v].row.is_reconstructed
        <3>1. CASE v = w
            BY <1>0, <1>2, <1>3, <3>1, ValueFacts
        <3>2. CASE v # w
            <4>1. v \in InProgress /\ v \in Writers /\ capture'[v] = capture[v]
                BY <1>3, <1>4, <3>2 DEF InProgress
            <4>. QED BY <1>0, <4>1 DEF ValueShape
        <3>. QED BY <3>1, <3>2
    <2>2. crossed' \in BOOLEAN
        BY <1>1, Zenon
    <2>. QED BY <1>0, <1>1, <1>3, <2>1, <2>2 DEF ValueShape
<1>6. DayInv'
    <2>. SUFFICES ASSUME ~crossed'
                  PROVE  /\ \A i, j \in DOMAIN snapshots : snapshots[i].as_of = snapshots[j].as_of => i = j
                         /\ CaptureStands(c)'
                         /\ \A v \in InProgress' : v = w
        BY <1>1, <1>3 DEF DayInv
    <2>1. ~crossed /\ InProgress = {} /\ (quoted \/ ~(shares > 0))
        BY <1>1
    <2>2. value = cash + shares * close[today]
        <3>1. shares \in Nat /\ close[today] \in Nat /\ cash \in Int
            BY <1>0, ValueFacts DEF ValueShape
        <3>2. ~quoted => shares = 0 /\ shares * close[today] = 0
            BY <2>1, <3>1
        <3>. QED BY <1>1, <3>1, <3>2
    <2>3. Unearned(c.row) = PaidIn
        <3>1. PICK worth \in Int : worth = shares * close[today]
            BY <1>0, ValueFacts
        <3>2. cash \in Int /\ gained \in Int
            BY <1>0 DEF ValueShape
        <3>. QED BY <1>2, <2>2, <3>1, <3>2 DEF PaidIn
    <2>4. \A d \in Days : d > today => flows[d] = 0
        BY <1>0 DEF ValueShape
    <2>5. \A i \in Measured : snapshots[i].as_of <= today
        BY <1>0 DEF ValueShape, Measured
    <2>6. CaptureStands(c)'
        BY <1>1, <1>2, <2>3, <2>4, <2>5 DEF CaptureStands, PaidIn, Unearned, Measured
    <2>. QED BY <1>0, <1>4, <2>1, <2>6 DEF DayInv
<1>7. SeriesInv'
    BY <1>0, <1>1, SameSeries DEF SeriesInv, RowStands, PaidIn, Unearned
<1>. QED BY <1>5, <1>6, <1>7 DEF ValueInv

\* A step of one capture that leaves everything else alone.
LEMMA CaptureMoves ==
    ASSUME ValueInv, NEW w \in InProgress, NEW c \in Captures,
           capture' = [capture EXCEPT ![w] = c],
           UNCHANGED <<today, close, cash, shares, flows, snapshots, gained, late, crossed>>,
           c.row.as_of = capture[w].row.as_of, ~c.row.is_reconstructed,
           ~crossed => CaptureStands(c)
    PROVE  ValueInv'
<1>0. ValueShape /\ DayInv /\ SeriesInv
    BY DEF ValueInv
<1>1. w \in Writers /\ capture' \in [Writers -> Captures \cup {None}] /\ capture'[w] = c
      /\ \A v \in Writers : v # w => capture'[v] = capture[v]
    BY <1>0 DEF ValueShape, InProgress
<1>2. \A v \in InProgress' : v = w \/ v \in InProgress
    BY <1>1 DEF InProgress
<1>3. ValueShape'
    <2>1. \A v \in InProgress' : capture'[v].row.as_of <= today /\ ~capture'[v].row.is_reconstructed
        BY <1>0, <1>1, <1>2 DEF ValueShape, InProgress
    <2>. QED BY <1>0, <1>1, <2>1 DEF ValueShape
<1>4. DayInv'
    <2>. SUFFICES ASSUME ~crossed PROVE DayInv'
        BY DEF DayInv
    <2>1. CaptureStands(c)'
        BY DEF CaptureStands, PaidIn, Unearned, Measured, RowsOf
    <2>2. \A v \in InProgress' : v = w
        BY <1>0, <1>2 DEF DayInv
    <2>. QED BY <1>0, <1>1, <2>1, <2>2 DEF DayInv
<1>5. SeriesInv'
    BY <1>0, SameSeries DEF SeriesInv, RowStands, PaidIn, Unearned
<1>. QED BY <1>3, <1>4, <1>5 DEF ValueInv

LEMMA CapturesFlows ==
    ASSUME ValueInv, NEW w \in Writers, CaptureFlows(w)
    PROVE  ValueInv'
<1>0. ValueShape /\ DayInv
    BY DEF ValueInv
<1>1. /\ w \in InProgress /\ capture[w].stage = "flows"
      /\ capture' = [capture EXCEPT ![w].row.net_flow = FlowsOn(capture[w].row.as_of), ![w].stage = "row"]
      /\ UNCHANGED <<today, close, cash, shares, flows, snapshots, gained, late, crossed>>
    BY DEF CaptureFlows, At, InProgress
<1>2. PICK old, c : /\ old = capture[w]
                    /\ c = [old EXCEPT !.row.net_flow = flows[old.row.as_of], !.stage = "row"]
    OBVIOUS
<1>3. old \in Captures /\ old.row \in SnapshotRows /\ ~old.row.is_reconstructed /\ old.row.as_of \in Days
    <2>1. old \in Captures
        BY <1>0, <1>1, <1>2 DEF ValueShape, InProgress
    <2>. QED BY <1>0, <1>1, <1>2, <2>1 DEF ValueShape, Captures, SnapshotRows
<1>4. flows[old.row.as_of] \in Int
    BY <1>0, <1>3 DEF ValueShape
<1>5. /\ c \in Captures /\ c.row.as_of = old.row.as_of /\ ~c.row.is_reconstructed
      /\ c.stage = "row" /\ c.row.net_flow = flows[old.row.as_of] /\ Unearned(c.row) = Unearned(old.row)
    BY <1>2, <1>3, <1>4 DEF Captures, SnapshotRows, Unearned
<1>6. capture' = [capture EXCEPT ![w] = c]
    BY <1>0, <1>1, <1>2 DEF FlowsOn, ValueShape
<1>7. ~crossed => CaptureStands(c)
    BY <1>0, <1>1, <1>2, <1>5 DEF DayInv, CaptureStands
<1>. QED BY <1>1, <1>2, <1>5, <1>6, <1>7, CaptureMoves

LEMMA CapturesRow ==
    ASSUME ValueInv, NEW w \in Writers, CaptureRow(w)
    PROVE  ValueInv'
<1>0. ValueShape /\ DayInv
    BY DEF ValueInv
<1>1. PICK old, found : old = capture[w] /\ found = RowsOf(old.row.as_of)
    OBVIOUS
<1>2. /\ w \in InProgress /\ old.stage = "row"
      /\ UNCHANGED <<today, close, cash, shares, flows, snapshots, gained, late, crossed>>
    BY <1>1 DEF CaptureRow, At, InProgress
<1>3. old \in Captures /\ old.row \in SnapshotRows /\ ~old.row.is_reconstructed
    <2>1. old \in Captures
        BY <1>0, <1>1, <1>2 DEF ValueShape, InProgress
    <2>. QED BY <1>0, <1>1, <1>2, <2>1 DEF ValueShape, Captures
<1>4. PICK at, c :
        /\ at \in Nat /\ c = [old EXCEPT !.at = at, !.stage = "commit"] /\ capture' = [capture EXCEPT ![w] = c]
        /\ (at = old.at /\ found = {}) \/ (at \in found /\ at # 0)
    <2>1. CASE found = {}
        <3>1. capture' = [capture EXCEPT ![w].stage = "commit"]
            BY <1>1, <2>1 DEF CaptureRow
        <3>2. PICK c : c = [old EXCEPT !.at = old.at, !.stage = "commit"]
            OBVIOUS
        <3>3. capture' = [capture EXCEPT ![w] = c]
            BY <1>0, <1>1, <1>3, <3>1, <3>2 DEF Captures, ValueShape
        <3>. QED BY <1>3, <2>1, <3>2, <3>3 DEF Captures
    <2>2. CASE found # {}
        <3>1. PICK i \in found : capture' = [capture EXCEPT ![w].at = i, ![w].stage = "commit"]
            BY <1>1, <2>2 DEF CaptureRow
        <3>2. PICK c : c = [old EXCEPT !.at = i, !.stage = "commit"]
            OBVIOUS
        <3>3. capture' = [capture EXCEPT ![w] = c]
            BY <1>0, <1>1, <3>1, <3>2 DEF ValueShape
        <3>4. i \in Nat /\ i # 0
            BY <1>0, <1>1, ValueFacts DEF RowsOf
        <3>. QED BY <3>1, <3>2, <3>3, <3>4
    <2>. QED BY <2>1, <2>2
<1>5. /\ c \in Captures /\ c.row = old.row /\ c.stage = "commit" /\ c.at = at
    BY <1>3, <1>4 DEF Captures
<1>6. ~crossed => CaptureStands(c)
    <2>. SUFFICES ASSUME ~crossed PROVE CaptureStands(c)
        OBVIOUS
    <2>1. CaptureStands(old)
        BY <1>0, <1>1, <1>2 DEF DayInv
    <2>2. old.at = 0 /\ old.row.net_flow = flows[old.row.as_of]
        BY <1>2, <2>1 DEF CaptureStands
    <2>3. IF at = 0 THEN RowsOf(c.row.as_of) = {} ELSE at \in RowsOf(c.row.as_of)
        BY <1>1, <1>4, <1>5, <2>2
    <2>. QED BY <1>5, <2>1, <2>2, <2>3 DEF CaptureStands
<1>. QED BY <1>1, <1>2, <1>3, <1>4, <1>5, <1>6, CaptureMoves

LEMMA CapturesLost ==
    ASSUME ValueInv, NEW w \in Writers, CaptureLost(w)
    PROVE  ValueInv'
<1>0. ValueShape /\ DayInv /\ SeriesInv
    BY DEF ValueInv
<1>1. /\ capture' = [capture EXCEPT ![w] = None]
      /\ UNCHANGED <<today, close, cash, shares, flows, snapshots, gained, late, crossed>>
    BY DEF CaptureLost
<1>2. capture' \in [Writers -> Captures \cup {None}]
      /\ \A v \in InProgress' : v \in InProgress /\ capture'[v] = capture[v]
    BY <1>0, <1>1 DEF ValueShape, InProgress
<1>3. ValueShape'
    BY <1>0, <1>1, <1>2 DEF ValueShape
<1>4. DayInv'
    BY <1>0, <1>1, <1>2 DEF DayInv, CaptureStands, PaidIn, Unearned, Measured, RowsOf
<1>5. SeriesInv'
    BY <1>0, <1>1, SameSeries DEF SeriesInv, RowStands, PaidIn, Unearned
<1>. QED BY <1>3, <1>4, <1>5 DEF ValueInv

\* The row of a capture, put in its place, is the latest one and explains what was
\* paid since the one before it.
LEMMA CapturesCommit ==
    ASSUME ValueInv, NEW w \in Writers, CaptureCommit(w)
    PROVE  ValueInv'
<1>0. ValueShape /\ DayInv /\ SeriesInv
    BY DEF ValueInv
<1>1. PICK c, row, size : c = capture[w] /\ row = c.row /\ size = Len(snapshots)
    OBVIOUS
<1>2. /\ w \in InProgress /\ c.stage = "commit" /\ capture' = [capture EXCEPT ![w] = None]
      /\ snapshots' = IF c.at = 0 THEN Append(snapshots, row) ELSE [snapshots EXCEPT ![c.at] = row]
      /\ UNCHANGED <<today, close, cash, shares, flows, gained, late, crossed>>
    BY <1>1 DEF CaptureCommit, At, InProgress
<1>3. /\ c \in Captures /\ row \in SnapshotRows /\ row.as_of \in Days /\ row.as_of <= today /\ ~row.is_reconstructed
      /\ size \in Nat /\ DOMAIN snapshots = 1..size
    <2>1. c \in Captures
        BY <1>0, <1>1, <1>2 DEF ValueShape, InProgress
    <2>2. row \in SnapshotRows /\ row.as_of \in Days
        BY <1>1, <2>1 DEF Captures, SnapshotRows
    <2>. QED BY <1>0, <1>1, <1>2, <2>1, <2>2, ValueFacts DEF ValueShape
<1>4. capture' \in [Writers -> Captures \cup {None}]
      /\ \A v \in InProgress' : v \in InProgress /\ capture'[v] = capture[v] /\ v # w
    <2>1. w \in Writers /\ capture'[w] = None /\ \A v \in Writers : v # w => capture'[v] = capture[v]
        BY <1>0, <1>2 DEF ValueShape
    <2>. QED BY <1>0, <1>2, <2>1 DEF ValueShape, InProgress
<1>5. ValueShape'
    <2>1. snapshots' \in Seq(SnapshotRows) /\ \A i \in DOMAIN snapshots' : snapshots'[i] = row \/ (i \in DOMAIN snapshots /\ snapshots'[i] = snapshots[i])
        <3>1. CASE c.at = 0
            BY <1>0, <1>1, <1>2, <1>3, <3>1 DEF ValueShape
        <3>2. CASE c.at # 0
            <4>1. /\ snapshots \in [1..size -> SnapshotRows] /\ snapshots' = [snapshots EXCEPT ![c.at] = row]
                BY <1>0, <1>1, <1>2, <3>2 DEF ValueShape
            <4>2. snapshots' \in [1..size -> SnapshotRows]
                BY <1>3, <4>1
            <4>3. \A i \in DOMAIN snapshots' : snapshots'[i] = row \/ (i \in DOMAIN snapshots /\ snapshots'[i] = snapshots[i])
                BY <4>1
            <4>4. snapshots' \in Seq(SnapshotRows)
                BY <1>3, <4>2
            <4>. QED BY <4>3, <4>4
        <3>. QED BY <3>1, <3>2
    <2>2. \A i \in DOMAIN snapshots' : snapshots'[i].as_of <= today
        BY <1>0, <1>3, <2>1 DEF ValueShape
    <2>. QED BY <1>0, <1>2, <1>4, <2>1, <2>2 DEF ValueShape
<1>6. CASE crossed
    BY <1>2, <1>5, <1>6 DEF ValueInv, DayInv, SeriesInv
<1>7. CASE ~crossed
    <2>1. CaptureStands(c) /\ \A v \in InProgress : v = w
        BY <1>0, <1>1, <1>2, <1>7 DEF DayInv
    <2>2. /\ Unearned(row) = PaidIn /\ \A d \in Days : d > row.as_of => flows[d] = 0
          /\ \A i \in Measured : snapshots[i].as_of <= row.as_of
          /\ row.net_flow = flows[row.as_of]
          /\ IF c.at = 0 THEN RowsOf(row.as_of) = {} ELSE c.at \in RowsOf(row.as_of)
        BY <1>1, <1>2, <2>1 DEF CaptureStands
    <2>3. PICK n : n = IF c.at = 0 THEN size + 1 ELSE c.at
        OBVIOUS
    <2>4. /\ n \in Nat /\ DOMAIN snapshots' = (DOMAIN snapshots) \cup {n} /\ snapshots'[n] = row
          /\ \A i \in DOMAIN snapshots : i # n => snapshots'[i] = snapshots[i]
        <3>1. CASE c.at = 0
            BY <1>0, <1>1, <1>2, <1>3, <2>3, <3>1 DEF ValueShape
        <3>2. CASE c.at # 0
            <4>1. c.at \in 1..size
                BY <1>3, <2>2, <3>2 DEF RowsOf
            <4>. QED BY <1>0, <1>1, <1>2, <1>3, <2>3, <3>2, <4>1 DEF ValueShape
        <3>. QED BY <3>1, <3>2
    <2>5. \A i \in DOMAIN snapshots : snapshots[i].as_of = row.as_of => i = n
        <3>. SUFFICES ASSUME NEW i \in DOMAIN snapshots, snapshots[i].as_of = row.as_of PROVE i = n
            OBVIOUS
        <3>1. i \in RowsOf(row.as_of)
            BY DEF RowsOf
        <3>2. c.at # 0 /\ c.at \in DOMAIN snapshots /\ snapshots[c.at].as_of = row.as_of
            BY <2>2, <3>1 DEF RowsOf
        <3>. QED BY <1>0, <1>7, <2>3, <3>2 DEF DayInv
    <2>6. DayInv'
        <3>1. \A i, j \in DOMAIN snapshots' : snapshots'[i].as_of = snapshots'[j].as_of => i = j
            BY <1>0, <1>7, <2>4, <2>5 DEF DayInv
        <3>2. InProgress' = {}
            BY <1>4, <2>1
        <3>. QED BY <3>1, <3>2 DEF DayInv
    <2>7. n \in Measured' /\ \A i : i # n => (i \in Measured' <=> i \in Measured)
        BY <1>3, <2>4 DEF Measured
    <2>8. /\ row.as_of \in Nat /\ today \in Nat /\ today \in Days
          /\ \A i \in Measured : snapshots[i] \in SnapshotRows /\ snapshots[i].as_of \in Nat
          /\ PaidIn \in Int /\ Unearned(row) \in Int /\ row.net_flow \in Int /\ flows[today] \in Int
        BY <1>0, <1>3, ValueFacts
    <2>9. \A i \in Measured' : snapshots'[i].as_of <= row.as_of /\ snapshots'[i].as_of \in Nat
        <3>1. \A i \in Measured' : i # n => i \in Measured /\ snapshots'[i] = snapshots[i]
            BY <2>4, <2>7 DEF Measured
        <3>. QED BY <2>2, <2>4, <2>8, <3>1
    <2>10. ASSUME ~late, NEW i \in Measured', IsLatest(i)' PROVE RowStands(snapshots[i])'
        <3>1. snapshots'[i].as_of >= row.as_of
            BY <2>4, <2>7, <2>10 DEF IsLatest
        <3>2. snapshots'[i].as_of = row.as_of
            BY <2>8, <2>9, <3>1
        <3>3. i = n /\ snapshots'[i] = row
            <4>1. i \in DOMAIN snapshots'
                BY DEF Measured
            <4>. QED BY <2>4, <2>5, <3>2, <4>1
        <3>4. \A d \in Days : row.as_of < d /\ d < today => flows[d] = 0
            BY <1>0, <2>2, <2>8, ValueFacts
        <3>5. row.as_of < today => flows[today] = 0 /\ Unearned(row) + flows[today] = PaidIn
            BY <2>2, <2>8
        <3>6. row.as_of = today => Unearned(row) + flows[today] - row.net_flow = PaidIn
            BY <2>2, <2>8
        <3>7. PaidIn' = PaidIn
            BY <1>2 DEF PaidIn
        <3>. QED BY <1>2, <2>2, <3>3, <3>4, <3>5, <3>6, <3>7 DEF RowStands, Unearned
    <2>11. ASSUME ~late, NEW i \in Measured', NEW j \in Measured', Follows(i, j)'
           PROVE  Unearned(snapshots[j])' = Unearned(snapshots[i])' + snapshots'[j].net_flow
        <3>1. i # n
            <4>1. i # n \/ row.as_of < snapshots'[j].as_of
                BY <2>4, <2>11 DEF Follows
            <4>. QED BY <2>8, <2>9, <4>1
        <3>2. i \in Measured /\ snapshots'[i] = snapshots[i]
            BY <2>4, <2>7, <3>1 DEF Measured
        <3>3. snapshots[i].as_of < snapshots'[j].as_of
            BY <2>11, <3>2 DEF Follows
        <3>4. ASSUME NEW k \in Measured, snapshots[i].as_of < snapshots[k].as_of, snapshots[k].as_of < snapshots'[j].as_of,
                     n \notin Measured \/ snapshots[n].as_of = row.as_of
              PROVE  FALSE
            <4>1. k \in Measured' /\ snapshots'[k].as_of = snapshots[k].as_of
                BY <2>4, <2>7, <3>4 DEF Measured
            <4>. QED BY <2>11, <3>2, <3>4, <4>1 DEF Follows
        <3>5. CASE j # n
            <4>1. j \in Measured /\ snapshots'[j] = snapshots[j]
                BY <2>4, <2>7, <3>5 DEF Measured
            <4>2. Follows(i, j)
                <5>1. ASSUME NEW k \in Measured, snapshots[i].as_of < snapshots[k].as_of, snapshots[k].as_of < snapshots[j].as_of
                      PROVE  FALSE
                    <6>1. k # n
                        <7>. SUFFICES ASSUME k = n PROVE FALSE
                            OBVIOUS
                        <7>1. n \in 1..size /\ k \in Measured /\ k = n
                            BY <1>3 DEF Measured
                        <7>2. snapshots[n].as_of = row.as_of
                            BY <1>3, <2>2, <2>3, <7>1 DEF RowsOf
                        <7>3. j \in Measured' /\ snapshots'[j].as_of <= row.as_of
                            BY <2>9
                        <7>. QED BY <2>8, <4>1, <5>1, <7>1, <7>2, <7>3
                    <6>2. k \in Measured' /\ snapshots'[k] = snapshots[k]
                        BY <2>4, <2>7, <6>1 DEF Measured
                    <6>. QED BY <2>11, <3>2, <4>1, <5>1, <6>2 DEF Follows
                <5>. QED BY <3>2, <3>3, <4>1, <5>1 DEF Follows
            <4>3. Unearned(snapshots[j]) = Unearned(snapshots[i]) + snapshots[j].net_flow
                BY <1>0, <1>7, <2>11, <3>2, <4>1, <4>2 DEF SeriesInv
            <4>. QED BY <3>2, <4>1, <4>3 DEF Unearned
        <3>6. CASE j = n /\ n \in Measured
            <4>1. snapshots[n].as_of = row.as_of
                <5>1. n \in 1..size
                    BY <1>3, <3>6 DEF Measured
                <5>. QED BY <1>3, <2>2, <2>3, <5>1 DEF RowsOf
            <4>2. Follows(i, n)
                BY <2>4, <3>2, <3>3, <3>4, <3>6, <4>1 DEF Follows
            <4>3. IsLatest(n)
                BY <2>2, <3>6, <4>1 DEF IsLatest
            <4>4. RowStands(snapshots[n]) /\ Unearned(snapshots[n]) = Unearned(snapshots[i]) + snapshots[n].net_flow
                BY <1>0, <1>7, <2>11, <3>2, <3>6, <4>2, <4>3 DEF SeriesInv
            <4>5. Unearned(snapshots[n]) \in Int /\ Unearned(snapshots[i]) \in Int /\ snapshots[n].net_flow \in Int
                BY <1>0, <2>8, <3>2, <3>6, ValueFacts
            <4>6. PaidIn = Unearned(snapshots[i]) + row.net_flow
                <5>1. CASE row.as_of = today
                    BY <2>2, <2>8, <4>1, <4>4, <4>5, <5>1 DEF RowStands
                <5>2. CASE row.as_of # today
                    <6>1. row.as_of < today /\ flows[today] = 0
                        BY <1>3, <2>2, <2>8, <5>2
                    <6>. QED BY <2>2, <2>8, <4>1, <4>4, <4>5, <6>1 DEF RowStands
                <5>. QED BY <5>1, <5>2
            <4>. QED BY <2>2, <2>4, <3>2, <3>6, <4>6 DEF Unearned
        <3>7. CASE j = n /\ n \notin Measured
            <4>1. \A k \in Measured : snapshots[k].as_of \in Nat /\ snapshots[k].as_of < row.as_of
                <5>. SUFFICES ASSUME NEW k \in Measured PROVE snapshots[k].as_of \in Nat /\ snapshots[k].as_of < row.as_of
                    OBVIOUS
                <5>1. snapshots[k].as_of # row.as_of
                    BY <2>5, <3>7 DEF Measured
                <5>. QED BY <2>2, <2>8, <5>1
            <4>2. \A k \in Measured : snapshots[k].as_of <= snapshots[i].as_of
                BY <2>4, <2>8, <3>2, <3>4, <3>7, <4>1
            <4>3. RowStands(snapshots[i])
                BY <1>0, <1>7, <2>11, <3>2, <4>2 DEF SeriesInv, IsLatest
            <4>4. snapshots[i].as_of < row.as_of /\ snapshots[i].as_of < today /\ Unearned(snapshots[i]) \in Int
                BY <1>0, <1>3, <2>8, <3>2, <4>1, ValueFacts
            <4>5. Unearned(snapshots[i]) + flows[today] = PaidIn
                BY <4>3, <4>4 DEF RowStands
            <4>6. PaidIn = Unearned(snapshots[i]) + row.net_flow
                <5>1. CASE row.as_of = today
                    BY <2>2, <4>5, <5>1
                <5>2. CASE row.as_of # today
                    <6>1. row.as_of < today /\ flows[today] = 0 /\ flows[row.as_of] = 0
                        BY <1>3, <2>2, <2>8, <4>3, <4>4, <5>2 DEF RowStands
                    <6>. QED BY <2>2, <4>5, <6>1
                <5>. QED BY <5>1, <5>2
            <4>. QED BY <2>2, <2>4, <3>2, <3>7, <4>6 DEF Unearned
        <3>. QED BY <3>5, <3>6, <3>7
    <2>12. SeriesInv'
        BY <1>2, <2>10, <2>11 DEF SeriesInv
    <2>. QED BY <1>5, <2>6, <2>12 DEF ValueInv
<1>. QED BY <1>6, <1>7

-----------------------------------------------------------------------------
(* What became of recommendations.                                          *)

OutcomeRows ==
    [recommended_at : Calendar, entry_price : OutcomePrices,
     status : {"open", "void", "evaluated"}, exit_price : OutcomePrices \cup {None}]

OutcomeShape ==
    /\ date \in Calendar /\ price \in [Calendar -> OutcomePrices \cup {None}]
    /\ outcomes \in [OutcomeKeys -> OutcomeRows \cup {None}]

OutcomeInv == OutcomeShape /\ ScoredAtHorizon

\* What a row says once it is scored is settled by the closes up to its horizon.
ScoredRight(k, row, day, closes) ==
    LET due == row.recommended_at + k[2]
        near == {d \in Calendar : /\ due - _HORIZON_PRICE_TOLERANCE_DAYS <= d
                                  /\ d <= due /\ closes[d] # None}
    IN  /\ due <= day
        /\ (row.status = "void") = (near = {})
        /\ \A d \in near : (\A e \in near : e <= d) => row.exit_price = closes[d]

AllScoredRight(rows, day, closes) ==
    \A k \in OutcomeKeys :
        rows[k] # None /\ rows[k].status # "open" => ScoredRight(k, rows[k], day, closes)

\* The latest of some days of the calendar.
LEMMA LatestDay ==
    ASSUME NEW D \in SUBSET Calendar, D # {}
    PROVE  LatestOf(D) \in D /\ \A e \in D : e <= LatestOf(D)
<1>1. D \in SUBSET Nat /\ IsFiniteSet(D)
    <2>1. IsFiniteSet(Calendar) /\ Calendar \subseteq Nat
        BY OutcomeAssumption, FS_Interval DEF Calendar
    <2>. QED BY <2>1, FS_Subset
<1>2. \E d \in D : \A e \in D : e <= d
    BY <1>1, MaxExists
<1>. QED BY <1>2 DEF LatestOf

\* A horizon is a number of days.
LEMMA HorizonsAreDays ==
    ASSUME NEW k \in OutcomeKeys
    PROVE  k[2] \in Nat
<1>1. k \in OutcomeRuns \X horizons
    BY DEF OutcomeKeys
<1>2. k[2] \in horizons
    BY <1>1
<1>. QED BY <1>2, OutcomeAssumption

\* The close a due row is scored by is the last one near its horizon, whatever
\* the day it is scored on.
LEMMA ScoresRight ==
    ASSUME OutcomeShape, NEW k \in Open, Target(k) <= date
    PROVE  Scored(k) \in OutcomeRows /\ Scored(k).status # "open" /\ ScoredRight(k, Scored(k), date, price)
<1>1. PICK row, due : row = outcomes[k] /\ due = Target(k)
    OBVIOUS
<1>2. /\ k \in OutcomeKeys /\ row \in OutcomeRows /\ row.status = "open"
      /\ k[2] \in Nat /\ row.recommended_at \in Nat /\ due = row.recommended_at + k[2] /\ due \in Nat
    <2>1. k \in OutcomeKeys /\ row # None /\ row.status = "open"
        BY <1>1 DEF Open, Recommended
    <2>2. row \in OutcomeRows
        BY <1>1, <2>1 DEF OutcomeShape
    <2>3. k[2] \in Nat /\ row.recommended_at \in Nat
        BY <2>1, <2>2, HorizonsAreDays, OutcomeAssumption DEF OutcomeRows, Calendar
    <2>. QED BY <1>1, <2>1, <2>2, <2>3 DEF Target
<1>3. PICK near : near = {d \in Calendar : /\ due - _HORIZON_PRICE_TOLERANCE_DAYS <= d
                                           /\ d <= due /\ price[d] # None}
    OBVIOUS
<1>4. PICK exit, D : exit = _close_at(due, date) /\ D = CloseDays(due, date)
    OBVIOUS
<1>5. /\ D = {d \in Calendar : d <= due /\ price[d] # None}
      /\ date \in Nat /\ _HORIZON_PRICE_TOLERANCE_DAYS \in Nat
      /\ Calendar \subseteq Nat
    <2>1. date \in Nat /\ _HORIZON_PRICE_TOLERANCE_DAYS \in Nat /\ Calendar \subseteq Nat
        BY OutcomeAssumption DEF OutcomeShape, Calendar
    <2>2. \A d \in Calendar : d <= due => d <= date
        BY <1>1, <1>2, <2>1
    <2>. QED BY <1>4, <2>1, <2>2 DEF CloseDays
<1>6. near \subseteq D
    BY <1>3, <1>5
<1>7. /\ exit \in OutcomePrices \cup {None}
      /\ (exit = None) = (near = {})
      /\ \A d \in near : (\A e \in near : e <= d) => exit = price[d]
    <2>1. CASE D = {}
        BY <1>4, <1>6, <2>1 DEF _close_at
    <2>2. CASE D # {}
        <3>1. PICK m : m = LatestOf(D)
            OBVIOUS
        <3>2. m \in D /\ \A e \in D : e <= m
            BY <1>5, <2>2, <3>1, LatestDay
        <3>3. m \in Nat /\ m <= due /\ price[m] # None /\ price[m] \in OutcomePrices /\ m \in Calendar
            BY <1>5, <3>2 DEF OutcomeShape
        <3>4. exit = IF due - m > _HORIZON_PRICE_TOLERANCE_DAYS THEN None ELSE price[m]
            BY <1>4, <2>2, <3>1 DEF _close_at
        <3>5. CASE due - m > _HORIZON_PRICE_TOLERANCE_DAYS
            <4>1. near = {}
                <5>. SUFFICES ASSUME NEW d \in near PROVE FALSE
                    OBVIOUS
                <5>1. d \in Nat /\ d <= m /\ due - _HORIZON_PRICE_TOLERANCE_DAYS <= d
                    BY <1>3, <1>5, <1>6, <3>2
                <5>. QED BY <1>2, <1>5, <3>3, <3>5, <5>1
            <4>. QED BY <3>4, <3>5, <4>1
        <3>6. CASE ~(due - m > _HORIZON_PRICE_TOLERANCE_DAYS)
            <4>1. m \in near
                BY <1>2, <1>3, <1>5, <3>3, <3>6
            <4>2. ASSUME NEW d \in near, \A e \in near : e <= d PROVE d = m
                <5>1. m <= d /\ d <= m /\ d \in Nat
                    BY <1>3, <1>5, <1>6, <3>2, <4>1, <4>2
                <5>. QED BY <3>3, <5>1
            <4>. QED BY <3>3, <3>4, <3>6, <4>1, <4>2
        <3>. QED BY <3>5, <3>6
    <2>. QED BY <2>1, <2>2
<1>8. Scored(k) = [row EXCEPT !.status = IF exit = None THEN "void" ELSE "evaluated", !.exit_price = exit]
    BY <1>1, <1>4 DEF Scored
<1>9. /\ Scored(k) \in OutcomeRows /\ Scored(k).recommended_at = row.recommended_at
      /\ Scored(k).status = IF exit = None THEN "void" ELSE "evaluated"
      /\ Scored(k).exit_price = exit
    BY <1>2, <1>7, <1>8 DEF OutcomeRows
<1>10. ScoredRight(k, Scored(k), date, price)
    BY <1>1, <1>2, <1>3, <1>7, <1>9 DEF ScoredRight
<1>. QED BY <1>9, <1>10

\* The property says this of every row that is scored.
LEMMA ScoredRows ==
    /\ ScoredAtHorizon <=> AllScoredRight(outcomes, date, price)
    /\ ScoredAtHorizon' <=> AllScoredRight(outcomes', date', price')
BY DEF ScoredAtHorizon, AllScoredRight, ScoredRight, Recommended, Open, Target

LEMMA OutcomeStep ==
    ASSUME OutcomeInv, [OutcomeNext]_outcomeVars
    PROVE  OutcomeInv'
<1>0. /\ OutcomeShape /\ EndOfCalendar \in Nat /\ date \in Nat
      /\ AllScoredRight(outcomes, date, price)
    BY OutcomeAssumption, ScoredRows DEF OutcomeInv, OutcomeShape, Calendar
<1>1. ASSUME NEW run \in OutcomeRuns, record_recommendations(run) PROVE OutcomeInv'
    <2>1. PICK quote \in OutcomePrices :
            /\ outcomes' = [k \in OutcomeKeys |->
                    IF k[1] = run /\ outcomes[k] = None
                    THEN [recommended_at |-> date, entry_price |-> quote, status |-> "open", exit_price |-> None]
                    ELSE outcomes[k]]
            /\ UNCHANGED <<date, price>>
        BY <1>1 DEF record_recommendations
    <2>2. PICK opened : opened = [recommended_at |-> date, entry_price |-> quote, status |-> "open", exit_price |-> None]
        OBVIOUS
    <2>3. opened \in OutcomeRows /\ opened.status = "open"
        BY <1>0, <2>2 DEF OutcomeRows, OutcomeShape
    <2>4. \A k \in OutcomeKeys : outcomes'[k] = outcomes[k] \/ outcomes'[k] = opened
        BY <2>1, <2>2
    <2>5. OutcomeShape'
        BY <1>0, <2>1, <2>3, <2>4 DEF OutcomeShape
    <2>6. AllScoredRight(outcomes', date', price')
        BY <1>0, <2>1, <2>3, <2>4 DEF AllScoredRight
    <2>. QED BY <2>5, <2>6, ScoredRows DEF OutcomeInv
<1>2. ASSUME evaluate_outcomes PROVE OutcomeInv'
    <2>1. PICK taken \in SUBSET Open :
            /\ outcomes' = [k \in OutcomeKeys |-> IF k \in taken /\ Target(k) <= date THEN Scored(k) ELSE outcomes[k]]
            /\ UNCHANGED <<date, price>>
        BY <1>2 DEF evaluate_outcomes
    <2>2. ASSUME NEW k \in OutcomeKeys
          PROVE  /\ outcomes'[k] \in OutcomeRows \cup {None}
                 /\ outcomes'[k] # None /\ outcomes'[k].status # "open" => ScoredRight(k, outcomes'[k], date, price)
        <3>1. CASE k \in taken /\ Target(k) <= date
            BY <1>0, <2>1, <3>1, ScoresRight
        <3>2. CASE ~(k \in taken /\ Target(k) <= date)
            BY <1>0, <2>1, <3>2 DEF OutcomeShape, AllScoredRight
        <3>. QED BY <3>1, <3>2
    <2>3. OutcomeShape'
        BY <1>0, <2>1, <2>2 DEF OutcomeShape
    <2>4. AllScoredRight(outcomes', date', price')
        BY <2>1, <2>2 DEF AllScoredRight
    <2>. QED BY <2>3, <2>4, ScoredRows DEF OutcomeInv
<1>3. ASSUME NextDate PROVE OutcomeInv'
    <2>1. date' = date + 1 /\ date' \in Calendar /\ UNCHANGED <<price, outcomes>>
        BY <1>0, <1>3 DEF NextDate, Calendar
    <2>2. OutcomeShape'
        BY <1>0, <2>1 DEF OutcomeShape
    <2>3. ASSUME NEW k \in OutcomeKeys, outcomes[k] # None, outcomes[k].status # "open"
          PROVE  ScoredRight(k, outcomes[k], date', price)
        <3>1. outcomes[k] \in OutcomeRows
            BY <1>0, <2>3 DEF OutcomeShape
        <3>2. k[2] \in Nat /\ outcomes[k].recommended_at \in Nat
            BY <3>1, HorizonsAreDays, OutcomeAssumption DEF OutcomeRows, Calendar
        <3>3. ScoredRight(k, outcomes[k], date, price)
            BY <1>0, <2>3 DEF AllScoredRight
        <3>4. outcomes[k].recommended_at + k[2] <= date'
            BY <1>0, <2>1, <3>2, <3>3 DEF ScoredRight
        <3>. QED BY <3>3, <3>4 DEF ScoredRight
    <2>4. AllScoredRight(outcomes', date', price')
        BY <2>1, <2>3 DEF AllScoredRight
    <2>. QED BY <2>2, <2>4, ScoredRows DEF OutcomeInv
<1>4. ASSUME UNCHANGED outcomeVars PROVE OutcomeInv'
    BY <1>0, <1>4, ScoredRows DEF outcomeVars, OutcomeInv, OutcomeShape
<1>. QED BY <1>1, <1>2, <1>3, <1>4 DEF OutcomeNext

\* Of a finite set of numbers each place in its order is some element's.
LEMMA RanksAreTaken ==
    ASSUME NEW S \in SUBSET Nat, IsFiniteSet(S)
    PROVE  \A m \in 1..Cardinality(S) : \E d \in S : Cardinality({e \in S : e <= d}) = m
<1>1. PICK T : T = {s \in SUBSET S : \A m \in 1..Cardinality(s) : \E d \in s : Cardinality({e \in s : e <= d}) = m}
    OBVIOUS
<1>2. ASSUME NEW s \in SUBSET S, \A x \in s : s \ {x} \in T
      PROVE  s \in T
    <2>1. IsFiniteSet(s) /\ Cardinality(s) \in Nat /\ s \in SUBSET Nat
        BY FS_Subset, FS_CardinalityType
    <2>2. SUFFICES ASSUME NEW m \in 1..Cardinality(s)
                   PROVE  \E d \in s : Cardinality({e \in s : e <= d}) = m
        BY <1>1
    <2>3. s # {}
        BY <2>1, FS_EmptySet
    <2>4. PICK x \in s : \A e \in s : e <= x
        BY <2>1, <2>3, MaxExists
    <2>5. PICK rest : rest = s \ {x}
        OBVIOUS
    <2>6. rest \in T /\ Cardinality(rest) = Cardinality(s) - 1
        BY <1>2, <2>1, <2>5, FS_RemoveElement
    <2>7. CASE m = Cardinality(s)
        <3>1. {e \in s : e <= x} = s
            BY <2>4
        <3>. QED BY <2>7, <3>1
    <2>8. CASE m # Cardinality(s)
        <3>1. m \in 1..Cardinality(rest)
            BY <2>1, <2>6, <2>8
        <3>2. PICK d \in rest : Cardinality({e \in rest : e <= d}) = m
            BY <1>1, <2>6, <3>1
        <3>3. d \in s /\ d # x /\ d <= x /\ d \in Nat /\ x \in Nat
            BY <2>1, <2>4, <2>5
        <3>4. {e \in s : e <= d} = {e \in rest : e <= d}
            <4>1. ~(x <= d)
                BY <3>3
            <4>. QED BY <2>5, <4>1
        <3>. QED BY <3>2, <3>3, <3>4
    <2>. QED BY <2>7, <2>8
<1>3. S \in T
    BY <1>2, SubsetInduction
<1>. QED BY <1>1, <1>3

\* A backfill adds a row for each day that has none, and no measured one.
LEMMA Backfills ==
    ASSUME ValueInv, backfill_snapshots
    PROVE  ValueInv'
<1>0. ValueShape /\ DayInv /\ SeriesInv
    BY DEF ValueInv
<1>1. PICK missing, n, m : missing = Unrecorded /\ n = Len(snapshots) /\ m = Cardinality(missing)
    OBVIOUS
<1>2. PICK dayOf : dayOf = [i \in n + 1..n + m |-> CHOOSE d \in missing : Cardinality({e \in missing : e <= d}) = i - n]
    OBVIOUS
<1>3. missing \in SUBSET Nat /\ missing \subseteq Days /\ IsFiniteSet(missing) /\ m \in Nat /\ n \in Nat
      /\ \A d \in missing : d <= today /\ RowsOf(d) = {}
    <2>1. Days \subseteq Nat /\ IsFiniteSet(Days)
        BY ValuationAssumption, FS_Interval DEF Days
    <2>2. missing \subseteq Days /\ \A d \in missing : d <= today /\ RowsOf(d) = {}
        BY <1>1 DEF Unrecorded
    <2>3. IsFiniteSet(missing)
        BY <2>1, <2>2, FS_Subset
    <2>. QED BY <1>0, <1>1, <2>1, <2>2, <2>3, FS_CardinalityType, ValueFacts
<1>4. /\ snapshots' = [i \in 1..n + m |-> IF i <= n THEN snapshots[i]
                       ELSE Snapshot(CHOOSE d \in missing : Cardinality({e \in missing : e <= d}) = i - n, 0, 0, TRUE, 0)]
      /\ crossed' = (crossed \/ InProgress # {})
      /\ UNCHANGED <<today, close, cash, shares, flows, capture, gained, late>>
    BY <1>1 DEF backfill_snapshots
<1>5. ASSUME NEW i \in n + 1..n + m
      PROVE  dayOf[i] \in missing /\ Cardinality({e \in missing : e <= dayOf[i]}) = i - n
    <2>1. i - n \in 1..m
        BY <1>3
    <2>2. \E d \in missing : Cardinality({e \in missing : e <= d}) = i - n
        BY <1>1, <1>3, <2>1, RanksAreTaken
    <2>. QED BY <1>2, <2>2
<1>6. /\ DOMAIN snapshots' = 1..n + m /\ DOMAIN snapshots = 1..n
      /\ \A i \in 1..n : i \in 1..n + m /\ snapshots'[i] = snapshots[i]
      /\ \A i \in n + 1..n + m : i \in 1..n + m /\ snapshots'[i] = Snapshot(dayOf[i], 0, 0, TRUE, 0)
      /\ \A i \in 1..n + m : i \in 1..n \/ i \in n + 1..n + m
    <2>1. DOMAIN snapshots' = 1..n + m /\ DOMAIN snapshots = 1..n
        BY <1>0, <1>1, <1>4, ValueFacts
    <2>2. /\ \A i \in 1..n : i \in 1..n + m /\ i <= n
          /\ \A i \in n + 1..n + m : i \in 1..n + m /\ ~(i <= n)
          /\ \A i \in 1..n + m : i \in 1..n \/ i \in n + 1..n + m
        BY <1>3
    <2>3. \A i \in 1..n : snapshots'[i] = snapshots[i]
        BY <1>4, <2>2
    <2>4. ASSUME NEW i \in n + 1..n + m PROVE snapshots'[i] = Snapshot(dayOf[i], 0, 0, TRUE, 0)
        <3>1. PICK d : d = CHOOSE e \in missing : Cardinality({f \in missing : f <= e}) = i - n
            OBVIOUS
        <3>2. dayOf[i] = d
            BY <1>2, <3>1
        <3>3. snapshots'[i] = Snapshot(d, 0, 0, TRUE, 0)
            BY <1>4, <2>2, <3>1
        <3>. QED BY <3>2, <3>3
    <2>. QED BY <2>1, <2>2, <2>3, <2>4
<1>7. \A i \in n + 1..n + m :
        /\ snapshots'[i] \in SnapshotRows /\ snapshots'[i].as_of = dayOf[i]
        /\ snapshots'[i].is_reconstructed /\ dayOf[i] <= today /\ RowsOf(dayOf[i]) = {}
    <2>. SUFFICES ASSUME NEW i \in n + 1..n + m
                  PROVE  /\ snapshots'[i] \in SnapshotRows /\ snapshots'[i].as_of = dayOf[i]
                         /\ snapshots'[i].is_reconstructed /\ dayOf[i] <= today /\ RowsOf(dayOf[i]) = {}
        OBVIOUS
    <2>1. dayOf[i] \in Days /\ dayOf[i] <= today /\ RowsOf(dayOf[i]) = {}
        BY <1>3, <1>5
    <2>2. snapshots'[i] = [as_of |-> dayOf[i], market_value |-> 0, net_flow |-> 0, is_reconstructed |-> TRUE, gain |-> 0]
        BY <1>6 DEF Snapshot
    <2>. QED BY <2>1, <2>2 DEF SnapshotRows
<1>8. ValueShape'
    <2>1. \A i \in 1..n + m : snapshots'[i] \in SnapshotRows /\ snapshots'[i].as_of <= today
        BY <1>0, <1>1, <1>6, <1>7, ValueFacts DEF ValueShape
    <2>2. snapshots' \in Seq(SnapshotRows)
        <3>1. snapshots' \in [1..n + m -> SnapshotRows]
            BY <1>4, <1>6, <2>1
        <3>2. n + m \in Nat
            BY <1>3
        <3>. QED BY <3>1, <3>2
    <2>3. crossed' \in BOOLEAN
        BY <1>4, Zenon
    <2>4. \A i \in DOMAIN snapshots' : snapshots'[i].as_of <= today
        BY <1>6, <2>1
    <2>. QED BY <1>0, <1>4, <2>2, <2>3, <2>4 DEF ValueShape, InProgress
<1>9. DayInv'
    <2>. SUFFICES ASSUME ~crossed, InProgress' = {},
                         NEW i \in DOMAIN snapshots', NEW j \in DOMAIN snapshots', snapshots'[i].as_of = snapshots'[j].as_of
                  PROVE  i = j
        BY <1>4 DEF DayInv, InProgress
    <2>1. ASSUME NEW k \in 1..n, NEW l \in n + 1..n + m, snapshots'[k].as_of = snapshots'[l].as_of PROVE FALSE
        <3>1. k \in RowsOf(dayOf[l])
            BY <1>6, <1>7, <2>1 DEF RowsOf
        <3>. QED BY <1>7, <3>1
    <2>2. CASE i \in 1..n /\ j \in 1..n
        BY <1>0, <1>6, <2>2 DEF DayInv
    <2>3. CASE i \in n + 1..n + m /\ j \in n + 1..n + m
        <3>1. dayOf[i] = dayOf[j]
            BY <1>7, <2>3
        <3>2. i - n = j - n
            BY <1>5, <2>3, <3>1
        <3>. QED BY <1>3, <2>3, <3>2
    <2>. QED BY <1>6, <2>1, <2>2, <2>3
<1>10. /\ Measured' = Measured
       /\ \A i \in Measured : snapshots'[i] = snapshots[i]
    BY <1>6, <1>7 DEF Measured
<1>11. SeriesInv'
    <2>1. \A i \in Measured : IsLatest(i)' <=> IsLatest(i)
        BY <1>10 DEF IsLatest
    <2>2. \A i, j \in Measured : Follows(i, j)' <=> Follows(i, j)
        BY <1>10 DEF Follows
    <2>3. \A i \in Measured : Unearned(snapshots[i])' = Unearned(snapshots[i])
        BY <1>10 DEF Unearned
    <2>4. \A i \in Measured : RowStands(snapshots[i])' <=> RowStands(snapshots[i])
        BY <1>4, <1>10, <2>3 DEF RowStands, PaidIn, Unearned
    <2>5. ~crossed' /\ ~late' => ~crossed /\ ~late
        BY <1>4
    <2>6. \A i \in Measured : snapshots'[i].net_flow = snapshots[i].net_flow
        BY <1>10
    <2>. SUFFICES ASSUME ~crossed', ~late'
                  PROVE  /\ \A i \in Measured : IsLatest(i)' => RowStands(snapshots[i])'
                         /\ \A i, j \in Measured : Follows(i, j)' =>
                              Unearned(snapshots[j])' = Unearned(snapshots[i])' + snapshots'[j].net_flow
        BY <1>10 DEF SeriesInv
    <2>7. \A i \in Measured : IsLatest(i)' => RowStands(snapshots[i])'
        BY <1>0, <2>1, <2>4, <2>5 DEF SeriesInv
    <2>8. ASSUME NEW i \in Measured, NEW j \in Measured, Follows(i, j)'
          PROVE  Unearned(snapshots[j])' = Unearned(snapshots[i])' + snapshots'[j].net_flow
        <3>1. Unearned(snapshots[j]) = Unearned(snapshots[i]) + snapshots[j].net_flow
            BY <1>0, <2>2, <2>5, <2>8 DEF SeriesInv
        <3>. QED BY <2>3, <2>6, <3>1
    <2>. QED BY <2>7, <2>8
<1>. QED BY <1>8, <1>9, <1>11 DEF ValueInv

LEMMA ValueStep ==
    ASSUME ValueInv, [ValueNext]_valueVars
    PROVE  ValueInv'
<1>1. CASE UNCHANGED valueVars
    <2>1. UNCHANGED <<today, close, cash, shares, flows, snapshots, capture, gained, late, crossed>>
        BY <1>1 DEF valueVars
    <2>2. ValueShape' <=> ValueShape
        BY <2>1 DEF ValueShape, InProgress
    <2>3. DayInv' <=> DayInv
        BY <2>1 DEF DayInv, InProgress, CaptureStands, PaidIn, Unearned, Measured, RowsOf
    <2>4. SeriesInv' <=> SeriesInv
        BY <2>1, SameSeries DEF SeriesInv, RowStands, PaidIn, Unearned
    <2>. QED BY <2>2, <2>3, <2>4 DEF ValueInv
<1>2. ASSUME NEW amount \in Amounts, Pay(amount) \/ Pay(-amount) \/ add_account(amount) PROVE ValueInv'
    <2>1. amount \in Nat /\ amount \in Int /\ -amount \in Int
        BY ValuationAssumption
    <2>. QED BY <1>2, <2>1, Pays, AddsAccount
<1>3. ASSUME NEW quantity \in {-1, 1}, Trade(quantity) PROVE ValueInv'
    BY <1>3, Trades
<1>. QED BY <1>1, <1>2, <1>3, DayEndsWell, CapturesView, CapturesFlows, CapturesRow,
            CapturesCommit, CapturesLost, Backfills DEF ValueNext

LEMMA PerformanceInvariant == PerformanceSpec => [](ValueInv /\ OutcomeInv)
<1>1. PerformanceInit => ValueInv /\ OutcomeInv
    <2>. SUFFICES ASSUME PerformanceInit PROVE ValueInv /\ OutcomeInv
        OBVIOUS
    <2>1. PICK prices \in [Days -> Closes] : Opening(prices)
        BY DEF PerformanceInit, ValueInit
    <2>2. /\ snapshots = <<>> /\ InProgress = {} /\ today = 0 /\ cash = InitCash /\ shares = InitShares
          /\ flows = [d \in Days |-> 0] /\ close = prices /\ gained = 0 /\ late = FALSE /\ crossed = FALSE
          /\ capture = [w \in Writers |-> None]
        BY <2>1 DEF Opening, InProgress
    <2>3. today \in Days
        BY <2>2, ValuationAssumption DEF Days
    <2>4. DOMAIN snapshots = {} /\ Measured = {} /\ snapshots \in Seq(SnapshotRows)
        BY <2>2 DEF Measured
    <2>5. ValueShape
        BY <2>2, <2>3, <2>4, ValuationAssumption DEF ValueShape
    <2>6. ValueInv
        BY <2>2, <2>4, <2>5 DEF ValueInv, DayInv, SeriesInv
    <2>7. PICK closes \in [Calendar -> OutcomePrices \cup {None}] : Unopened(closes)
        BY DEF PerformanceInit, OutcomeInit
    <2>8. OutcomeShape /\ Recommended = {}
        BY <2>7, OutcomeAssumption DEF Unopened, OutcomeShape, Recommended, Calendar
    <2>9. OutcomeInv
        BY <2>8 DEF OutcomeInv, ScoredAtHorizon
    <2>. QED BY <2>6, <2>9
<1>2. ValueInv /\ OutcomeInv /\ [PerformanceNext]_performanceVars => ValueInv' /\ OutcomeInv'
    <2>. SUFFICES ASSUME ValueInv, OutcomeInv, [PerformanceNext]_performanceVars
                  PROVE  ValueInv' /\ OutcomeInv'
        OBVIOUS
    <2>1. [ValueNext]_valueVars /\ [OutcomeNext]_outcomeVars
        BY DEF PerformanceNext, performanceVars
    <2>. QED BY <2>1, ValueStep, OutcomeStep
<1>. QED BY <1>1, <1>2, PTL DEF PerformanceSpec

(* Returns are what prices earned and advice is scored at its horizon,     *)
(* whatever is bought, sold, paid, backfilled and recomputed, as long as   *)
(* no capture is crossed and each day's payments are counted by its row    *)
(* (capture_snapshot, time_weighted_return, evaluate_outcomes).            *)
THEOREM TrackRecordIsTrue == PerformanceSpec => []TrackRecord
<1>1. ValueInv => ReturnIsGain
    <2>. SUFFICES ASSUME ValueInv, ~crossed, ~late, NEW p \in Periods
                  PROVE  PeriodGain(p) = EarnedIn(p)
        BY DEF ReturnIsGain
    <2>1. PICK i \in Measured, j \in Measured : p = <<i, j>> /\ p[1] = i /\ p[2] = j
        BY DEF Periods
    <2>2. Follows(i, j)
        BY <2>1 DEF Periods, Follows
    <2>3. Unearned(snapshots[j]) = Unearned(snapshots[i]) + snapshots[j].net_flow
        BY <2>2 DEF ValueInv, SeriesInv
    <2>4. snapshots[i] \in SnapshotRows /\ snapshots[j] \in SnapshotRows
        BY ValueFacts DEF ValueInv
    <2>5. /\ snapshots[i].market_value \in Int /\ snapshots[i].gain \in Int
          /\ snapshots[j].market_value \in Int /\ snapshots[j].gain \in Int /\ snapshots[j].net_flow \in Int
        BY <2>4 DEF SnapshotRows
    <2>6. /\ PeriodGain(p) = snapshots[j].market_value - (snapshots[i].market_value + snapshots[j].net_flow)
          /\ EarnedIn(p) = snapshots[j].gain - snapshots[i].gain
        BY <2>1 DEF PeriodGain, AdjustedBegin, EarnedIn
    <2>. QED BY <2>3, <2>5, <2>6 DEF Unearned
<1>2. OutcomeInv => ScoredAtHorizon
    BY DEF OutcomeInv
<1>. QED BY <1>1, <1>2, PerformanceInvariant, PTL DEF TrackRecord

(* A day has one row, however often its run is retried, as long as no      *)
(* capture is crossed (capture_snapshot, backfill_snapshots).              *)
THEOREM DaysHaveOneRow == PerformanceSpec => [](~crossed => OneRowPerDay)
<1>1. ValueInv => (~crossed => OneRowPerDay)
    BY DEF ValueInv, DayInv, OneRowPerDay
<1>. QED BY <1>1, PerformanceInvariant, PTL
=============================================================================
