----------------------------- MODULE AuditChain -----------------------------
(***************************************************************************)
(* The hash-chained audit log of services/audit.py, and its replica in the *)
(* analytical store of services/mysql_analytics.py.                        *)
(*                                                                         *)
(* record() appends an event inside the transaction of its caller: under a *)
(* process-wide lock it reads the hash of the firm's last row and flushes  *)
(* the next one, but the caller commits later, without the lock.  A tail   *)
(* read sees committed rows and the transaction's own (READ COMMITTED), a  *)
(* flush takes the next id of the table's sequence, and a rollback loses   *)
(* the rows but not the ids.                                               *)
(*                                                                         *)
(* A digest is modelled as the term it is computed from, that is, as       *)
(* collision-free.                                                         *)
(***************************************************************************)
EXTENDS Naturals, FiniteSets

CONSTANTS
    Orgs,           \* firms; each has a chain of its own
    Sessions,       \* database sessions of requests and of worker threads
    Procs,
    ProcOf,         \* the process of each session
    Texts,          \* what an event says: actor, action, entity, detail
    None,
    MaxOpenPerOrg,  \* how many transactions of one firm overlap; 1 is "one after another"
    MaxEvents,      \* bound on ids
    MaxTampers      \* bound on changes made to the table by hand

ASSUME AuditAssumption ==
    /\ None \notin Sessions \cup Orgs
    /\ IsFiniteSet(Sessions)
    /\ ProcOf \in [Sessions -> Procs]
    /\ MaxOpenPerOrg \in Nat \ {0}
    /\ MaxEvents \in Nat
    /\ MaxTampers \in Nat

VARIABLES
    events,     \* the committed rows of audit_events
    recorded,   \* every row ever committed, as it was committed (history)
    replica,    \* analytical_audit_logs, which commits on its own
    pending,    \* per session, the rows it has flushed and not committed
    org,        \* per session, the firm of its open transaction, or None
    pc,         \* control point of each session
    tail,       \* per session, the prev_hash its tail read gave
    lock,       \* per process, the session that holds _chain_lock
    nextId,     \* the table's id sequence
    tampers,
    overlapped  \* firms of which two transactions have been open at the same time (history)

vars == <<events, recorded, replica, pending, org, pc, tail, lock, nextId, tampers, overlapped>>

Genesis == <<>>

\* Mutant: the digest covers the link but not the content.
compute_hash_LinkOnly(prev, o, text, at) == <<prev, o, at>>

compute_hash(prev, o, text, at) == <<prev, o, text, at>>

\* occurred_at, which the digest covers, tells events apart; so does the id,
\* which stands for it here.
Event(id, o, text, prev) ==
    [id |-> id, org |-> o, text |-> text, prev |-> prev,
     hash |-> compute_hash(prev, o, text, id)]

Init ==
    /\ events = {}
    /\ recorded = {}
    /\ replica = {}
    /\ pending = [s \in Sessions |-> {}]
    /\ org = [s \in Sessions |-> None]
    /\ pc = [s \in Sessions |-> "closed"]
    /\ tail = [s \in Sessions |-> Genesis]
    /\ lock = [p \in Procs |-> None]
    /\ nextId = 1
    /\ tampers = 0
    /\ overlapped = {}

----------------------------------------------------------------------------
(* Transactions *)

Chain(o) == {e \in events : e.org = o}

RoomFor(o) == Cardinality({s \in Sessions : org[s] = o}) < MaxOpenPerOrg

Begin(s, o) ==
    /\ pc[s] = "closed"
    /\ RoomFor(o)
    /\ org' = [org EXCEPT ![s] = o]
    /\ pc' = [pc EXCEPT ![s] = "open"]
    /\ overlapped' = IF \E t \in Sessions : org[t] = o THEN overlapped \cup {o} ELSE overlapped
    /\ UNCHANGED <<events, recorded, replica, pending, tail, lock, nextId, tampers>>

Visible(s) == events \cup pending[s]

\* Mutant: the tail query does not filter by firm.
IsTail_AnyOrg(e, s) == e \in Visible(s) /\ \A f \in Visible(s) : f.id <= e.id

\* SELECT hash WHERE org_id = ... ORDER BY id DESC LIMIT 1
IsTail(e, s) ==
    /\ e \in Visible(s) /\ e.org = org[s]
    /\ \A f \in Visible(s) : f.org = org[s] => f.id <= e.id

\* record(): take _chain_lock and read the tail.
RecordTail(s) ==
    /\ pc[s] = "open" /\ lock[ProcOf[s]] = None
    /\ \/ \E e \in Visible(s) : IsTail(e, s) /\ tail' = [tail EXCEPT ![s] = e.hash]
       \/ ~(\E e \in Visible(s) : IsTail(e, s)) /\ tail' = [tail EXCEPT ![s] = Genesis]
    /\ lock' = [lock EXCEPT ![ProcOf[s]] = s]
    /\ pc' = [pc EXCEPT ![s] = "append"]
    /\ UNCHANGED <<events, recorded, replica, pending, org, nextId, tampers, overlapped>>

\* Add the row, flush, release the lock.
RecordFlush(s, text) ==
    /\ pc[s] = "append" /\ nextId <= MaxEvents
    /\ pending' = [pending EXCEPT ![s] = @ \cup {Event(nextId, org[s], text, tail[s])}]
    /\ nextId' = nextId + 1
    /\ lock' = [lock EXCEPT ![ProcOf[s]] = None]
    /\ pc' = [pc EXCEPT ![s] = "stream"]
    /\ UNCHANGED <<events, recorded, replica, org, tail, tampers, overlapped>>

\* stream_audit_log: the event that was just flushed goes to the analytical
\* store in a session of its own, which commits at once.  record() swallows
\* every error of it.
Stream(s) ==
    /\ pc[s] = "stream"
    /\ \E e \in pending[s] :
        /\ \A f \in pending[s] : f.id <= e.id
        /\ replica' \in {replica, replica \cup {e}}
    /\ pc' = [pc EXCEPT ![s] = "open"]
    /\ UNCHANGED <<events, recorded, pending, org, tail, lock, nextId, tampers, overlapped>>

\* The transaction is over; what it had flushed is not pending any more, and
\* an exception inside the with block has released the lock.
Close(S) ==
    /\ pending' = [s \in Sessions |-> IF s \in S THEN {} ELSE pending[s]]
    /\ org' = [s \in Sessions |-> IF s \in S THEN None ELSE org[s]]
    /\ pc' = [s \in Sessions |-> IF s \in S THEN "closed" ELSE pc[s]]
    /\ tail' = [s \in Sessions |-> IF s \in S THEN Genesis ELSE tail[s]]
    /\ lock' = [p \in Procs |-> IF lock[p] \in S THEN None ELSE lock[p]]

Commit(s) ==
    /\ pc[s] = "open"
    /\ events' = events \cup pending[s]
    /\ recorded' = recorded \cup pending[s]
    /\ Close({s})
    /\ UNCHANGED <<replica, nextId, tampers, overlapped>>

\* The caller rolls back, or the tail read, the flush or the commit fails.
Rollback(s) ==
    /\ pc[s] \in {"open", "append"}
    /\ Close({s})
    /\ UNCHANGED <<events, recorded, replica, nextId, tampers, overlapped>>

\* A process dies: the server rolls its transactions back.
Crash(p) ==
    /\ Close({s \in Sessions : ProcOf[s] = p})
    /\ UNCHANGED <<events, recorded, replica, nextId, tampers, overlapped>>

----------------------------------------------------------------------------
(* Changes that do not come from the program, and their detection *)

\* UPDATE audit_events SET detail = ... by hand.
Edit(e, text) ==
    /\ tampers < MaxTampers
    /\ events' = (events \ {e}) \cup {[e EXCEPT !.text = text]}
    /\ tampers' = tampers + 1
    /\ UNCHANGED <<recorded, replica, pending, org, pc, tail, lock, nextId, overlapped>>

\* DELETE FROM audit_events by hand.
Delete(e) ==
    /\ tampers < MaxTampers
    /\ events' = events \ {e}
    /\ tampers' = tampers + 1
    /\ UNCHANGED <<recorded, replica, pending, org, pc, tail, lock, nextId, overlapped>>

\* prev_hash equals the hash of the preceding row, GENESIS_HASH for the first.
Linked(e, S) ==
    \/ e.prev = Genesis /\ \A f \in S : f.id >= e.id
    \/ \E f \in S :
        /\ f.id < e.id /\ e.prev = f.hash
        /\ \A g \in S : g.id <= f.id \/ g.id >= e.id

Sealed(e) == e.hash = compute_hash(e.prev, e.org, e.text, e.id)

\* verify_chain(db, org_id)[0]: the walk in id order finds no divergence.
verify_chain(o) == \A e \in Chain(o) : Linked(e, Chain(o)) /\ Sealed(e)

----------------------------------------------------------------------------

Record(s) == RecordTail(s) \/ (\E text \in Texts : RecordFlush(s, text)) \/ Stream(s)

Next ==
    \/ \E s \in Sessions :
        \/ \E o \in Orgs : Begin(s, o)
        \/ Record(s) \/ Commit(s) \/ Rollback(s)
    \/ \E p \in Procs : Crash(p)
    \/ \E e \in events : Delete(e) \/ \E text \in Texts \ {e.text} : Edit(e, text)

Spec == Init /\ [][Next]_vars

----------------------------------------------------------------------------
(* Properties *)

IsEvent(e) == e.id \in Nat \ {0} /\ e.org \in Orgs /\ e.text \in Texts

\* Every variable stays in its domain, and a process' _chain_lock is held
\* exactly by its session that is between the tail read and the flush of
\* record().
TypeOK ==
    /\ \A e \in events \cup recorded : IsEvent(e) /\ e.id < nextId
    /\ \A s \in Sessions : \A e \in pending[s] : IsEvent(e) /\ e.id < nextId
    /\ DOMAIN pending = Sessions
    /\ org \in [Sessions -> Orgs \cup {None}]
    /\ pc \in [Sessions -> {"closed", "open", "append", "stream"}]
    /\ \A s \in Sessions : org[s] = None <=> pc[s] = "closed"
    /\ DOMAIN tail = Sessions
    /\ lock \in [Procs -> Sessions \cup {None}]
    /\ \A s \in Sessions : lock[ProcOf[s]] = s <=> pc[s] = "append"
    /\ nextId \in 1..(MaxEvents + 1)
    /\ tampers \in 0..MaxTampers
    /\ overlapped \subseteq Orgs

\* record and verify_chain: a firm's chain verifies at every moment, with
\* transactions that commit, roll back or die, as long as nobody changes the
\* table by hand.
ChainIntact == \A o \in Orgs : verify_chain(o)

\* ... which holds for a firm whose transactions run one after another, in
\* whatever processes and beside those of other firms.
SerialChainIntact == tampers = 0 => \A o \in Orgs \ overlapped : verify_chain(o)

\* record: however transactions overlap, as long as nobody changes the table by
\* hand, a committed event names the committed event of its own firm that it
\* followed, never one that was rolled back.
NoDanglingLink ==
    tampers = 0 => \A e \in events : e.prev = Genesis \/ \E f \in events :
        f.org = e.org /\ f.id < e.id /\ e.prev = f.hash

\* verify_chain: a chain that verifies holds only rows as they were recorded,
\* and none of them lacks the row it followed.
IntactMeansGenuine ==
    \A o \in Orgs : verify_chain(o) => \A e \in Chain(o) :
        /\ e \in recorded
        /\ \A g \in recorded : g.hash = e.prev => g \in events

\* AuditEvent's docstring: a deleted row breaks the chain.
DeletionDetected ==
    \A o \in Orgs : verify_chain(o) => \A g \in recorded :
        g.org = o => \E e \in events : e.id = g.id

\* record's docstring: no record says that something happened that was then
\* rolled back.
ReplicaIsRecorded ==
    \A e \in replica : e \in recorded \/ \E s \in Sessions : e \in pending[s]
=============================================================================
