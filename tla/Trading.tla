------------------------------ MODULE Trading -------------------------------
(***************************************************************************)
(* Orders against the simulated broker: services/broker.py, the            *)
(* place_order and execute_plan endpoints of server.py, and what           *)
(* services/tax_lots.py writes of a fill, for one account and one symbol.  *)
(*                                                                         *)
(* A request checks an order, fills it and commits in one transaction (a   *)
(* plan: one per proposal).  It computes the columns it writes from what   *)
(* its session loaded, without locking what it reads: an UPDATE takes the  *)
(* row's lock until the end of the transaction, waits for another's, and   *)
(* then overwrites (PostgreSQL, READ COMMITTED).  An order commits only as *)
(* a filled one, so no committed order is open and _open_sell_quantity     *)
(* finds none.                                                             *)
(*                                                                         *)
(* Slippage, which always works against the order, is part of Fee.  Which  *)
(* lots a sale takes is left open here; TaxLots says which.                *)
(***************************************************************************)
EXTENDS Integers, Sequences, FiniteSetsExt, Functions

CONSTANTS
    Requests,
    None,
    Proposals,      \* the stored plan, numbered in sequence order
    SideOf,         \* BUY or SELL, per proposal
    QuantityOf,
    Quantities,     \* what a single order may ask for
    Prices,         \* what a quote may say
    Fee,            \* slippage and commission of an order
    Headroom,       \* what a reservation adds to the notional
    InitCash, InitShares,
    MaxInFlight,    \* requests at the same time; 1 is "one after another"
    MaxStarts, MaxCrashes

ASSUME TradingAssumption ==
    /\ Proposals \subseteq Nat /\ None \notin Nat \cup Requests
    /\ SideOf \in [Proposals -> {"BUY", "SELL"}]
    /\ QuantityOf \in [Proposals -> Nat \ {0}]
    /\ Quantities \cup Prices \subseteq Nat \ {0} /\ Prices # {} /\ Quantities # {}
    /\ IsFiniteSet(Proposals) /\ IsFiniteSet(Quantities) /\ IsFiniteSet(Prices)
    /\ {Fee, Headroom, InitCash, InitShares, MaxInFlight, MaxStarts, MaxCrashes} \subseteq Nat

VARIABLES
    account,    \* cash_balance and pending_cash_hold
    lots,       \* remaining_quantity of every tax lot
    position,   \* quantity of the positions row, 0 if there is none
    proposal,   \* status of the stored proposals
    fills,      \* executions per proposal
    ledger,     \* what all executions together moved
    rq,         \* the requests
    starts, crashes,
    overlapped  \* two requests have been in flight at the same time (history)

rows == <<account, lots, position, proposal, fills, ledger>>
vars == <<rows, rq, starts, crashes, overlapped>>

NoOrder == [side |-> "BUY", quantity |-> 0, proposal |-> None]

Idle == [pc |-> "idle", plan |-> FALSE, todo |-> {}, done |-> {}, order |-> NoOrder,
         loaded |-> [cash |-> 0, hold |-> 0], hold |-> 0, reserved |-> 0, price |-> 0,
         mine |-> <<>>, taken |-> {}, rollup |-> 0, hadRow |-> FALSE, held |-> {}]

Init ==
    /\ account = [cash |-> InitCash, hold |-> 0]
    /\ lots = <<InitShares>>
    /\ position = InitShares
    /\ proposal = [p \in Proposals |-> "proposed"]
    /\ fills = [p \in Proposals |-> 0]
    /\ ledger = [cash |-> 0, shares |-> 0]
    /\ rq = [r \in Requests |-> Idle]
    /\ starts = 0 /\ crashes = 0
    /\ overlapped = FALSE

Total(f) == FoldFunction(+, 0, f)

-----------------------------------------------------------------------------
(* Requests, transactions and row locks                                    *)

InFlight == {r \in Requests : rq[r].pc # "idle"}

Start(r, request) ==
    /\ rq[r].pc = "idle"
    /\ starts < MaxStarts /\ Cardinality(InFlight) < MaxInFlight
    /\ starts' = starts + 1
    /\ overlapped' = (overlapped \/ InFlight # {})
    /\ rq' = [rq EXCEPT ![r] = request]
    /\ UNCHANGED <<rows, crashes>>

place_order(r) ==
    \E side \in {"BUY", "SELL"}, quantity \in Quantities :
        Start(r, [Idle EXCEPT !.pc = "load",
                              !.order = [NoOrder EXCEPT !.side = side, !.quantity = quantity]])

\* Mutant: the plan is read whatever the status of its proposals.
Executable_All == Proposals

Executable == {p \in Proposals : proposal[p] = "proposed"}

\* The plan's proposals that are still to execute; without any, 404.
execute_plan(r) ==
    /\ Executable # {}
    /\ Start(r, [Idle EXCEPT !.pc = "next", !.plan = TRUE, !.todo = Executable])

\* The request goes on in its session; nothing is committed.
Goto(r, request) ==
    /\ rq' = [rq EXCEPT ![r] = request]
    /\ UNCHANGED <<rows, starts, crashes, overlapped>>

\* Mutant: a proposal that was not executed is tried again.
AfterOrder_Again(r, executed) ==
    IF ~rq[r].plan THEN Idle
    ELSE [Idle EXCEPT !.pc = "next", !.plan = TRUE,
                      !.todo = rq[r].todo \cup ({rq[r].order.proposal} \ executed),
                      !.done = rq[r].done \cup executed]

\* The transaction of an order is over: a plan goes on with its next proposal.
AfterOrder(r, executed) ==
    IF ~rq[r].plan THEN Idle
    ELSE [Idle EXCEPT !.pc = "next", !.plan = TRUE, !.todo = rq[r].todo,
                      !.done = rq[r].done \cup executed]

\* OrderRejected, ValueError or a database error: the transaction is rolled back.
RollBack(r) == Goto(r, AfterOrder(r, {}))

AccountRow == <<"account", 0>>
PositionRow == <<"position", 0>>
LotRow(l) == <<"lot", l>>

\* The rows the request's next UPDATE waits for.
Wants(r) ==
    CASE rq[r].pc \in {"reserve", "settle"} -> {AccountRow}
      [] rq[r].pc = "sell" -> {LotRow(l) : l \in rq[r].taken}
      [] rq[r].pc \in {"position", "delete"} -> {PositionRow}
      [] OTHER -> {}

Blocks(r, s) == r # s /\ Wants(r) \cap rq[s].held # {}

\* The rows are locked and the request goes on.
Locked(r, request) ==
    /\ \A s \in Requests : ~Blocks(r, s)
    /\ Goto(r, [request EXCEPT !.held = @ \cup Wants(r)])

\* The server ends a deadlock by failing one of the transactions.
DeadlockVictim(r) ==
    /\ \E s \in Requests : Blocks(r, s) /\ Blocks(s, r)
    /\ RollBack(r)

-----------------------------------------------------------------------------
(* create_order                                                            *)

\* execute_proposals takes the next proposal; nothing is left: see MarkExecuted.
NextProposal(r) ==
    /\ rq[r].pc = "next" /\ rq[r].todo # {}
    /\ LET p == Min(rq[r].todo)
       IN  Goto(r, [rq[r] EXCEPT !.pc = "load", !.todo = @ \ {p},
                                 !.order = [side |-> SideOf[p], quantity |-> QuantityOf[p],
                                            proposal |-> p]])

\* The account row; a quote is fetched before anything is checked against it.
LoadAccount(r) ==
    /\ rq[r].pc = "load"
    /\ Goto(r, [rq[r] EXCEPT !.pc = "check", !.loaded = account])

\* Mutant: the order is not checked against the cash.
Affordable_Always(r, price) == TRUE

Affordable(r, price) ==
    rq[r].order.quantity * price <= rq[r].loaded.cash - rq[r].loaded.hold

\* The pre-trade checks against a quote; without one, or if a check fails, the
\* order is rejected.
create_order(r) ==
    /\ rq[r].pc = "check"
    /\ \/ RollBack(r)
       \/ /\ rq[r].order.side = "SELL"
          /\ rq[r].order.quantity <= position
          /\ Goto(r, [rq[r] EXCEPT !.pc = "submit"])
       \/ /\ rq[r].order.side = "BUY"
          /\ \E price \in Prices :
                 /\ Affordable(r, price)
                 /\ Goto(r, [rq[r] EXCEPT !.pc = "reserve",
                                          !.reserved = rq[r].order.quantity * price + Headroom])

\* The flush of a purchase writes its reservation into the account row.
Reserve(r) ==
    /\ rq[r].pc = "reserve"
    /\ Locked(r, [rq[r] EXCEPT !.pc = "submit", !.hold = rq[r].loaded.hold + rq[r].reserved])

-----------------------------------------------------------------------------
(* submit_order                                                            *)

\* The price of the fill, from a second quote; without one the order fails.
\* A purchase opens a lot; a sale selects what it takes from the open lots,
\* which it loads, and raises if they do not hold enough.
submit_order(r) ==
    /\ rq[r].pc = "submit"
    /\ \/ RollBack(r)
       \/ \E price \in Prices :
            \/ /\ rq[r].order.side = "BUY"
               /\ Goto(r, [rq[r] EXCEPT !.pc = "rollup", !.price = price])
            \/ /\ rq[r].order.side = "SELL"
               /\ \E take \in [DOMAIN lots -> 0..rq[r].order.quantity] :
                    /\ Total(take) = rq[r].order.quantity
                    /\ \A l \in DOMAIN lots : take[l] <= lots[l]
                    /\ Goto(r, [rq[r] EXCEPT
                                    !.pc = "sell", !.price = price,
                                    !.taken = {l \in DOMAIN lots : take[l] > 0},
                                    !.mine = [l \in DOMAIN lots |-> lots[l] - take[l]]])

\* record_sale's flush.
record_sale(r) ==
    /\ rq[r].pc = "sell"
    /\ Locked(r, [rq[r] EXCEPT !.pc = "rollup"])

\* A lot as the transaction finds it in the table, and as its session sees it:
\* a lot that was loaded before stays as it was loaded or changed.
InTable(r, l) == IF l \in rq[r].taken THEN rq[r].mine[l] ELSE lots[l]
InSession(r, l) == IF l \in DOMAIN rq[r].mine THEN rq[r].mine[l] ELSE lots[l]

\* The open lots of the account, the one just bought included.
Rollup(r) ==
    Total([l \in {k \in DOMAIN lots : InTable(r, k) > 0} |-> InSession(r, l)])
        + (IF rq[r].order.side = "BUY" THEN rq[r].order.quantity ELSE 0)

\* _rebuild_position reads; a row with nothing left is deleted with the last flush.
RebuildRead(r) ==
    /\ rq[r].pc = "rollup"
    /\ Goto(r, [rq[r] EXCEPT !.pc = IF Rollup(r) = 0 THEN "settle" ELSE "position",
                             !.rollup = Rollup(r), !.hadRow = position # 0])

\* The UPDATE of a row that is gone, and the INSERT of one that has appeared,
\* fail.
RebuildWrite(r) ==
    /\ rq[r].pc = "position"
    /\ IF rq[r].hadRow = (position # 0)
       THEN Locked(r, [rq[r] EXCEPT !.pc = "settle"])
       ELSE RollBack(r)

\* The last flush of submit_order writes the cash, then deletes.
Settle(r) ==
    /\ rq[r].pc = "settle"
    /\ Locked(r, [rq[r] EXCEPT !.pc = IF rq[r].rollup = 0 /\ rq[r].hadRow THEN "delete"
                                                                          ELSE "commit"])

RebuildDelete(r) ==
    /\ rq[r].pc = "delete"
    /\ Locked(r, [rq[r] EXCEPT !.pc = "commit"])

-----------------------------------------------------------------------------
(* Commit                                                                  *)

net_amount(r) ==
    LET gross == rq[r].order.quantity * rq[r].price
    IN  IF rq[r].order.side = "BUY" THEN gross + Fee ELSE gross - Fee

\* Mutant: the fill does not give the reservation back.
_release_reservation_Kept(r) == rq[r].hold

_release_reservation(r) == Max({0, rq[r].hold - rq[r].reserved})

\* Mutant: a sale is credited without its commission and slippage.
Settled_Gross(r) ==
    IF rq[r].order.side = "BUY"
    THEN [cash |-> rq[r].loaded.cash - net_amount(r), hold |-> _release_reservation(r)]
    ELSE [account EXCEPT !.cash = rq[r].loaded.cash + rq[r].order.quantity * rq[r].price]

\* The account row with the columns the transaction has written.
Settled(r) ==
    IF rq[r].order.side = "BUY"
    THEN [cash |-> rq[r].loaded.cash - net_amount(r), hold |-> _release_reservation(r)]
    ELSE [account EXCEPT !.cash = rq[r].loaded.cash + net_amount(r)]

Booked(r) ==
    LET kept == [l \in DOMAIN lots |-> InTable(r, l)]
    IN  IF rq[r].order.side = "BUY" THEN Append(kept, rq[r].order.quantity) ELSE kept

Recorded(r) ==
    IF rq[r].order.side = "BUY"
    THEN [cash |-> ledger.cash - net_amount(r), shares |-> ledger.shares + rq[r].order.quantity]
    ELSE [cash |-> ledger.cash + net_amount(r), shares |-> ledger.shares - rq[r].order.quantity]

\* Order, execution, lots, position and cash are committed together.
Commit(r) ==
    /\ rq[r].pc = "commit"
    /\ account' = Settled(r)
    /\ lots' = Booked(r)
    /\ position' = rq[r].rollup
    /\ ledger' = Recorded(r)
    /\ fills' = [p \in Proposals |-> IF p = rq[r].order.proposal THEN fills[p] + 1 ELSE fills[p]]
    /\ rq' = [rq EXCEPT ![r] = AfterOrder(r, {rq[r].order.proposal})]
    /\ UNCHANGED <<proposal, starts, crashes, overlapped>>

Done(r) == rq[r].done

\* The last commit of execute_plan marks the proposals that were executed.
MarkExecuted(r) ==
    /\ rq[r].pc = "next" /\ rq[r].todo = {}
    /\ proposal' = [p \in Proposals |-> IF p \in Done(r) THEN "executed" ELSE proposal[p]]
    /\ rq' = [rq EXCEPT ![r] = Idle]
    /\ UNCHANGED <<account, lots, position, fills, ledger, starts, crashes, overlapped>>

\* The process dies with its requests; the server rolls their transactions back.
Crash ==
    /\ crashes < MaxCrashes /\ InFlight # {}
    /\ crashes' = crashes + 1
    /\ rq' = [r \in Requests |-> Idle]
    /\ UNCHANGED <<rows, starts, overlapped>>

-----------------------------------------------------------------------------
Step(r) ==
    \/ NextProposal(r) \/ LoadAccount(r) \/ create_order(r) \/ Reserve(r)
    \/ submit_order(r) \/ record_sale(r) \/ RebuildRead(r) \/ RebuildWrite(r)
    \/ Settle(r) \/ RebuildDelete(r) \/ Commit(r) \/ MarkExecuted(r) \/ DeadlockVictim(r)

Next ==
    \/ \E r \in Requests : place_order(r) \/ execute_plan(r) \/ Step(r)
    \/ Crash

Spec == Init /\ [][Next]_vars

\* A request's thread goes on.
FairSpec == Spec /\ \A r \in Requests : WF_vars(Step(r))

-----------------------------------------------------------------------------
Points == {"idle", "next", "load", "check", "reserve", "submit", "sell", "rollup",
           "position", "settle", "delete", "commit"}

(* Every variable stays in its domain, a row is locked by one transaction  *)
(* at a time, and a locked account row means that the request has written  *)
(* to it (create_order, submit_order).                                     *)
TypeOK ==
    /\ account.cash \in Int /\ account.hold \in Nat
    /\ \A l \in DOMAIN lots : lots[l] \in Nat
    /\ position \in Nat
    /\ proposal \in [Proposals -> {"proposed", "executed"}]
    /\ fills \in [Proposals -> Nat]
    /\ \A r \in Requests :
        /\ rq[r].pc \in Points
        /\ rq[r].todo \cup rq[r].done \subseteq Proposals
        /\ rq[r].rollup \in Nat
        /\ \A s \in Requests \ {r} : rq[r].held \cap rq[s].held = {}
        /\ AccountRow \in rq[r].held =>
            \/ rq[r].order.side = "BUY" /\ rq[r].hold # 0
            \/ rq[r].pc \in {"delete", "commit"}
    /\ starts \in 0..MaxStarts /\ crashes \in 0..MaxCrashes
    /\ overlapped \in BOOLEAN

(* submit_order: the cash is the opening balance and the net amount of     *)
(* every execution, "a fill recorded without its cash movement is a        *)
(* portfolio that does not balance", whatever crashed or was rejected, as  *)
(* long as requests come one after another.                                *)
SerialCashBalances == ~overlapped => account.cash = InitCash + ledger.cash

CashBalances == account.cash = InitCash + ledger.cash

(* record_sale: the lots hold what was bought and not sold.                *)
SerialSharesBalance == ~overlapped => Total(lots) = InitShares + ledger.shares

SharesBalance == Total(lots) = InitShares + ledger.shares

(* _rebuild_position: the rollup is the sum of the open lots.              *)
SerialPositionMatches == ~overlapped => position = Total(lots)

(* The books of an account whose requests come one after another balance:  *)
(* its cash, its shares and the rollup of its lots.                        *)
SerialBooks == SerialCashBalances /\ SerialSharesBalance /\ SerialPositionMatches

(* _release_reservation: whatever overlaps, fails or dies, no reservation  *)
(* outlives its order.                                                     *)
NoStrandedHold == account.hold = 0

(* However orders overlap, an account is overdrawn by no more than the     *)
(* fee of an order and what its price moved between the two quotes.        *)
OverdraftBounded ==
    LET order == Max(Quantities \cup {QuantityOf[p] : p \in Proposals})
    IN  account.cash >= 0 - (Fee + order * (Max(Prices) - Min(Prices)))

(* create_order: the reservation keeps an account from being overdrawn.    *)
NoOverdraft == account.cash >= 0

(* execute_plan: a proposal that reads executed has its execution, and the *)
(* status keeps it from being executed again by a later request, unless a  *)
(* crash fell between the executions and the last commit.                  *)
PlanRunsOnce ==
    /\ \A p \in Proposals : proposal[p] = "executed" => fills[p] > 0
    /\ ~overlapped /\ crashes = 0 => \A p \in Proposals : fills[p] <= 1

(* "They may already have been executed": a proposal is executed once.     *)
ProposalOnce == \A p \in Proposals : fills[p] <= 1

(* Every request ends: neither row locks nor a rejected order keep it.     *)
EveryRequestEnds == \A r \in Requests : rq[r].pc # "idle" ~> rq[r].pc = "idle"
=============================================================================
