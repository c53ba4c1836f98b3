-------------------------------- MODULE Login --------------------------------
(***************************************************************************)
(* One user signing in (security.authenticate under server.login), the     *)
(* lockout that follows wrong passwords, and the sessions it opens         *)
(* (create_access_token, get_principal).  Sign-ins run in parallel threads *)
(* or processes: each loads the user's row, verifies the password, which   *)
(* takes long, and commits.                                                *)
(*                                                                         *)
(* The code reads token_version and never raises it; that a password       *)
(* change raises it is what db.py:245 says of the operator's tools.        *)
(***************************************************************************)
EXTENDS Integers, FiniteSets, Rows

CONSTANTS
    Attempts,            \* sign-ins under way
    LOGIN_MAX_FAILURES,
    LockTicks,           \* LOGIN_LOCKOUT_MINUTES
    MaxVersion           \* bound on password changes

ASSUME LoginAssumption ==
    /\ LOGIN_MAX_FAILURES \in Nat \ {0} /\ LockTicks \in Nat \ {0} /\ MaxVersion \in Nat
    /\ None \notin Int

VARIABLES
    failed_login_count,
    locked_until,   \* None, or the ticks that are left of it
    token_version,
    attempt,        \* of each sign-in: None, or what it loaded and was given
    sessions,       \* the tokens that were issued
    guesses,        \* wrong passwords verified since the last lock or success
    loginsOverlap   \* two sign-ins were under way together since then

loginVars == <<failed_login_count, locked_until, token_version, attempt, sessions, guesses, loginsOverlap>>

UnderWay == {a \in Attempts : attempt[a] # None}
Locked == locked_until # None /\ locked_until > 0

LoginInit ==
    /\ failed_login_count = 0 /\ locked_until = None /\ token_version = 0
    /\ attempt = [a \in Attempts |-> None]
    /\ sessions = {} /\ guesses = 0 /\ loginsOverlap = FALSE

\* A locked account is refused before the password is looked at.
BeginAttempt(a) ==
    /\ attempt[a] = None /\ ~Locked
    /\ \E right \in BOOLEAN :
        attempt' = [attempt EXCEPT ![a] =
            [count |-> failed_login_count, lock |-> locked_until, right |-> right,
             secret |-> token_version, crossed |-> FALSE]]
    /\ loginsOverlap' = (loginsOverlap \/ UnderWay # {})
    /\ UNCHANGED <<failed_login_count, locked_until, token_version, sessions, guesses>>

LocksAt(n) == n >= LOGIN_MAX_FAILURES

RefuseAttempt(a) ==
    LET row == attempt[a]
        count == row.count + 1
    IN  /\ row # None /\ ~row.right
        /\ failed_login_count' = Written(row.count, IF LocksAt(count) THEN 0 ELSE count, failed_login_count)
        /\ locked_until' = IF LocksAt(count) THEN LockTicks ELSE locked_until
        /\ guesses' = IF LocksAt(count) THEN 0 ELSE guesses + 1
        /\ loginsOverlap' = IF LocksAt(count) THEN UnderWay # {a} ELSE loginsOverlap
        /\ attempt' = [attempt EXCEPT ![a] = None]
        /\ UNCHANGED <<token_version, sessions>>

\* The row is read again after the commit, so the token carries the version
\* of the user by then.
AcceptAttempt(a) ==
    LET row == attempt[a]
    IN  /\ row # None /\ row.right
        /\ failed_login_count' = Written(row.count, 0, failed_login_count)
        /\ locked_until' = Written(row.lock, None, locked_until)
        /\ sessions' = sessions \cup {[tv |-> token_version, secret |-> row.secret, crossed |-> row.crossed]}
        /\ guesses' = 0
        /\ loginsOverlap' = (UnderWay # {a})
        /\ attempt' = [attempt EXCEPT ![a] = None]
        /\ UNCHANGED token_version

ChangePassword ==
    /\ token_version < MaxVersion
    /\ token_version' = token_version + 1
    /\ attempt' = [a \in Attempts |-> IF attempt[a] = None THEN None ELSE [attempt[a] EXCEPT !.crossed = TRUE]]
    /\ UNCHANGED <<failed_login_count, locked_until, sessions, guesses, loginsOverlap>>

LockPasses ==
    /\ Locked /\ locked_until' = locked_until - 1
    /\ UNCHANGED <<failed_login_count, token_version, attempt, sessions, guesses, loginsOverlap>>

LoginNext ==
    \/ \E a \in Attempts : BeginAttempt(a) \/ RefuseAttempt(a) \/ AcceptAttempt(a)
    \/ ChangePassword
    \/ LockPasses

LoginSpec == LoginInit /\ [][LoginNext]_loginVars

----------------------------------------------------------------------------
\* Mutant: a session is good until it expires.
Admitted_Unversioned(s) == s.tv <= token_version

Admitted(s) == s.tv = token_version

LoginTypeOK ==
    /\ failed_login_count \in 0..LOGIN_MAX_FAILURES - 1
    /\ locked_until \in {None} \cup 0..LockTicks
    /\ token_version \in 0..MaxVersion
    /\ \A a \in Attempts : attempt[a] # None =>
        /\ attempt[a].count \in 0..LOGIN_MAX_FAILURES - 1
        /\ attempt[a].lock \in {None, 0}
        /\ attempt[a].secret \in 0..MaxVersion
    /\ sessions \subseteq [tv : 0..MaxVersion, secret : 0..MaxVersion, crossed : BOOLEAN]
    /\ guesses \in Nat /\ loginsOverlap \in BOOLEAN

\* As long as no two sign-ins overlap, an account is locked before one wrong
\* password more than the limit is verified (security.py:406-409).
LockoutCounts == ~loginsOverlap => guesses < LOGIN_MAX_FAILURES

\* A session that is admitted was opened with the password the user has now,
\* unless the password changed while the sign-in was under way: the token is
\* compared with the user's row on every request (security.py:281).
SessionsOfThePassword ==
    \A s \in sessions : Admitted(s) /\ ~s.crossed => s.secret = token_version

\* Neither guessing nor an old session opens an account of which the requests
\* come one after another.
SignInsHold == LockoutCounts /\ SessionsOfThePassword

\* config.py:152: "Failed logins allowed within the window before the account
\* is locked", which is what a firm expects of it however they arrive.
LockoutAlwaysCounts == guesses < LOGIN_MAX_FAILURES

\* db.py:245: raising the version is "to invalidate every outstanding token
\* for this user (password change, forced logout)": no session that the old
\* password opened is admitted after the change.
OldPasswordOpensNothing == \A s \in sessions : Admitted(s) => s.secret = token_version
===============================================================================
