--------------------------- MODULE TradingProofs ----------------------------
(***************************************************************************)
(* Theorems about Trading, for any number of requests, any plan, any       *)
(* quantities and prices, however the requests overlap and crash.          *)
(***************************************************************************)
EXTENDS Trading, Sums

-----------------------------------------------------------------------------
(* Prices, fees and how far a fill may drift from a proposal.               *)

LEMMA ZeroIsMax == Max({0, 0}) = 0
<1>1. \E x \in {0, 0} : \A y \in {0, 0} : x >= y
    OBVIOUS
<1>2. Max({0, 0}) \in {0, 0}
    BY <1>1 DEF Max
<1>. QED BY <1>2

\* A product of smaller numbers is smaller.
LEMMA ProductsOrdered ==
    ASSUME NEW a \in Nat, NEW b \in Nat, NEW c \in Nat, NEW d \in Nat, a <= c, b <= d
    PROVE  a * b <= c * d /\ a * b \in Nat /\ c * d \in Nat
<1>1. a * b <= c * b
    <2>1. (c - a) \in Nat /\ (c - a) * b \in Nat
        OBVIOUS
    <2>2. c * b = a * b + (c - a) * b
        OBVIOUS
    <2>. QED BY <2>1, <2>2
<1>2. c * b <= c * d
    <2>1. (d - b) \in Nat /\ c * (d - b) \in Nat
        OBVIOUS
    <2>2. c * d = c * b + c * (d - b)
        OBVIOUS
    <2>. QED BY <2>1, <2>2
<1>3. a * b \in Nat /\ c * b \in Nat /\ c * d \in Nat
    OBVIOUS
<1>. QED BY <1>1, <1>2, <1>3

-----------------------------------------------------------------------------
(* What a request has in its session.                                       *)

Fields == {"pc", "plan", "todo", "done", "order", "loaded", "hold", "reserved", "price",
           "mine", "taken", "rollup", "hadRow", "held"}

Asked == Quantities \cup {QuantityOf[p] : p \in Proposals}

\* An order is under way between the session that took it and its commit.
UnderWay(x) == x.pc \notin {"idle", "next"}
Loaded(x) == x.pc \notin {"idle", "next", "load"}
Buying(x) == Loaded(x) /\ x.pc # "check" /\ x.order.side = "BUY"

OrderInv(x) ==
    /\ DOMAIN x = Fields
    /\ x.pc \in Points /\ x.plan \in BOOLEAN
    /\ x.todo \subseteq Proposals /\ x.done \subseteq Proposals
    /\ (x.pc = "idle" \/ ~x.plan) => x.todo = {} /\ x.done = {}
    /\ x.pc = "next" => x.plan
    /\ UnderWay(x) =>
        /\ x.order \in [side : {"BUY", "SELL"}, quantity : Asked, proposal : Proposals \cup {None}]
        /\ x.order.proposal \notin x.todo
        /\ x.plan <=> x.order.proposal # None
    /\ x.loaded \in [cash : Int, hold : {0}]
    \* a reservation is in what was written, and in nothing that was loaded
    /\ Buying(x) =>
        /\ x.reserved \in Nat
        /\ x.pc # "reserve" => x.hold = x.reserved
        /\ \E price \in Prices : x.order.quantity * price <= x.loaded.cash
    /\ x.pc \in {"sell", "rollup", "position", "settle", "delete", "commit"} => x.price \in Prices

\* What a request is still going to execute.
Pending(x) == x.todo \cup (IF UnderWay(x) THEN {x.order.proposal} ELSE {})

-----------------------------------------------------------------------------
(* The inductive invariant.                                                 *)

TradeShape ==
    /\ account \in [cash : Int, hold : {0}]
    /\ ledger.cash \in Int
    /\ proposal \in [Proposals -> {"proposed", "executed"}]
    /\ fills \in [Proposals -> Nat]
    /\ DOMAIN rq = Requests
    /\ \A r \in Requests : OrderInv(rq[r])
    /\ crashes \in Nat /\ overlapped \in BOOLEAN

\* What reads executed, or is about to, was executed.
ExecutedInv ==
    /\ \A p \in Proposals : proposal[p] = "executed" => fills[p] > 0
    /\ \A r \in Requests : \A p \in rq[r].done : fills[p] > 0

\* One request after another: the one in flight has read the account as it
\* still is, and the account has every execution.
SerialInv ==
    ~overlapped =>
        /\ \A r, s \in InFlight : r = s
        /\ \A r \in Requests : Loaded(rq[r]) => rq[r].loaded.cash = account.cash
        /\ account.cash = InitCash + ledger.cash

\* Without a crash, what was executed is on record as executed or is going to
\* be by the plan in flight, and what that plan still has to do was not.
OnceInv ==
    ~overlapped /\ crashes = 0 =>
        /\ \A p \in Proposals : fills[p] <= 1
        /\ \A p \in Proposals :
            fills[p] = 1 => proposal[p] = "executed" \/ \E r \in Requests : p \in rq[r].done
        /\ \A r \in Requests : \A p \in Pending(rq[r]) \cap Proposals : fills[p] = 0

TradeInv == TradeShape /\ ExecutedInv /\ SerialInv /\ OnceInv

LEMMA IdleOrder == OrderInv(Idle) /\ Idle.done = {} /\ Pending(Idle) = {} /\ Idle.pc = "idle"
BY DEF OrderInv, Idle, NoOrder, Fields, Points, UnderWay, Loaded, Buying, Pending

LEMMA TradeInit ==
    ASSUME Init
    PROVE  TradeInv
<1>1. TradeShape
    <2>1. account \in [cash : Int, hold : {0}] /\ ledger.cash \in Int /\ crashes \in Nat
        BY TradingAssumption DEF Init
    <2>2. proposal \in [Proposals -> {"proposed", "executed"}] /\ fills \in [Proposals -> Nat]
        BY DEF Init
    <2>3. DOMAIN rq = Requests /\ \A r \in Requests : OrderInv(rq[r])
        BY IdleOrder DEF Init
    <2>. QED BY <2>1, <2>2, <2>3 DEF Init, TradeShape
<1>2. ExecutedInv
    BY IdleOrder DEF Init, ExecutedInv
<1>3. SerialInv
    BY TradingAssumption, IdleOrder DEF Init, SerialInv, InFlight, Loaded
<1>4. OnceInv
    BY IdleOrder DEF Init, OnceInv
<1>. QED BY <1>1, <1>2, <1>3, <1>4 DEF TradeInv

\* A request that stays in its session: it has read the account as it is, or
\* as it read it before, and executes nothing that it was not going to.
LEMMA GotoKeeps ==
    ASSUME TradeInv, NEW r \in Requests, NEW y, Goto(r, y),
           r \in InFlight, OrderInv(y), y.done = rq[r].done, Pending(y) \subseteq Pending(rq[r]),
           Loaded(y) => y.loaded = account \/ (Loaded(rq[r]) /\ y.loaded = rq[r].loaded)
    PROVE  TradeInv'
<1>0. /\ TradeShape /\ ExecutedInv /\ SerialInv /\ OnceInv
      /\ UNCHANGED <<account, lots, position, proposal, fills, ledger, starts, crashes, overlapped>>
    BY DEF TradeInv, Goto, rows
<1>1. /\ DOMAIN rq' = Requests /\ rq'[r] = y
      /\ \A s \in Requests : s # r => rq'[s] = rq[s]
    BY <1>0 DEF Goto, TradeShape
<1>2. TradeShape'
    BY <1>0, <1>1 DEF TradeShape
<1>3. ExecutedInv'
    BY <1>0, <1>1 DEF ExecutedInv
<1>4. SerialInv'
    <2>1. InFlight' \subseteq InFlight
        BY <1>1 DEF InFlight
    <2>. QED BY <1>0, <1>1, <2>1 DEF SerialInv
<1>5. OnceInv'
    BY <1>0, <1>1 DEF OnceInv
<1>. QED BY <1>2, <1>3, <1>4, <1>5 DEF TradeInv

\* The transaction is over and nothing of it remains.
LEMMA RollBackKeeps ==
    ASSUME TradeInv, NEW r \in Requests, RollBack(r), r \in InFlight
    PROVE  TradeInv'
<1>0. OrderInv(rq[r])
    BY DEF TradeInv, TradeShape
<1>1. PICK y : y = AfterOrder(r, {})
    OBVIOUS
<1>2. Goto(r, y)
    BY <1>1 DEF RollBack
<1>3. CASE ~rq[r].plan
    <2>1. y = Idle /\ rq[r].done = {}
        BY <1>0, <1>1, <1>3 DEF AfterOrder, OrderInv
    <2>. QED BY <1>2, <2>1, IdleOrder, GotoKeeps DEF Loaded
<1>4. CASE rq[r].plan
    <2>1. y = [Idle EXCEPT !.pc = "next", !.plan = TRUE, !.todo = rq[r].todo,
                           !.done = rq[r].done \cup {}]
        BY <1>1, <1>4 DEF AfterOrder
    <2>2. /\ DOMAIN y = Fields /\ y.pc = "next" /\ y.plan = TRUE
          /\ y.todo = rq[r].todo /\ y.done = rq[r].done /\ y.loaded = Idle.loaded
        BY <2>1 DEF Idle, Fields
    <2>3. Idle.loaded \in [cash : Int, hold : {0}]
        BY DEF Idle
    <2>4. OrderInv(y)
        BY <1>0, <2>2, <2>3 DEF OrderInv, UnderWay, Loaded, Buying, Points
    <2>5. Pending(y) \subseteq Pending(rq[r]) /\ ~Loaded(y)
        BY <2>2 DEF Pending, UnderWay, Loaded
    <2>. QED BY <1>2, <2>2, <2>4, <2>5, GotoKeeps
<1>. QED BY <1>0, <1>3, <1>4 DEF OrderInv

-----------------------------------------------------------------------------
(* One lemma per kind of step.                                              *)

LEMMA StartKeeps ==
    ASSUME TradeInv, NEW r \in Requests, place_order(r) \/ execute_plan(r)
    PROVE  TradeInv'
<1>0. /\ TradeShape /\ ExecutedInv /\ SerialInv /\ OnceInv
      /\ None \notin Proposals
    BY TradingAssumption DEF TradeInv
<1>1. PICK y : /\ Start(r, y) /\ OrderInv(y) /\ y.done = {} /\ ~Loaded(y)
               /\ y.pc \in {"load", "next"}
               /\ \A p \in Pending(y) \cap Proposals : proposal[p] = "proposed"
    <2>1. CASE place_order(r)
        <3>1. PICK side \in {"BUY", "SELL"}, quantity \in Quantities :
                Start(r, [Idle EXCEPT !.pc = "load",
                            !.order = [NoOrder EXCEPT !.side = side, !.quantity = quantity]])
            BY <2>1 DEF place_order
        <3>2. PICK y : y = [Idle EXCEPT !.pc = "load",
                            !.order = [NoOrder EXCEPT !.side = side, !.quantity = quantity]]
            OBVIOUS
        <3>3. /\ DOMAIN y = Fields /\ y.pc = "load" /\ y.plan = FALSE /\ y.todo = {} /\ y.done = {}
              /\ y.loaded = [cash |-> 0, hold |-> 0]
              /\ y.order = [side |-> side, quantity |-> quantity, proposal |-> None]
            BY <3>2 DEF Idle, NoOrder, Fields
        <3>4. y.order \in [side : {"BUY", "SELL"}, quantity : Asked, proposal : Proposals \cup {None}]
            BY <3>3 DEF Asked
        <3>5. y.loaded \in [cash : Int, hold : {0}] /\ ~Loaded(y) /\ ~Buying(y)
            BY <3>3 DEF Loaded, Buying
        <3>6. y.plan \in BOOLEAN /\ (y.plan <=> y.order.proposal # None)
            <4>1. y.order.proposal = None
                BY <3>3
            <4>. QED BY <3>3, <4>1, Zenon
        <3>7. OrderInv(y)
            <4>1. /\ y.todo \subseteq Proposals /\ y.done \subseteq Proposals
                  /\ y.order.proposal \notin y.todo
                BY <3>3
            <4>. QED BY <3>3, <3>4, <3>5, <3>6, <4>1 DEF OrderInv, Points
        <3>8. Pending(y) = {None}
            BY <3>3 DEF Pending, UnderWay
        <3>9. \A p \in Pending(y) \cap Proposals : proposal[p] = "proposed"
            BY <1>0, <3>8
        <3>10. Start(r, y)
            BY <3>1, <3>2
        <3>. QED BY <3>3, <3>5, <3>7, <3>9, <3>10
    <2>2. CASE execute_plan(r)
        <3>1. PICK y : y = [Idle EXCEPT !.pc = "next", !.plan = TRUE, !.todo = Executable]
            OBVIOUS
        <3>2. /\ DOMAIN y = Fields /\ y.pc = "next" /\ y.plan = TRUE /\ y.todo = Executable
              /\ y.done = {} /\ y.loaded = [cash |-> 0, hold |-> 0]
            BY <3>1 DEF Idle, Fields
        <3>3. /\ y.loaded \in [cash : Int, hold : {0}] /\ ~Loaded(y) /\ ~Buying(y) /\ ~UnderWay(y)
              /\ y.todo \subseteq Proposals /\ \A p \in y.todo : proposal[p] = "proposed"
            BY <3>2 DEF Loaded, Buying, UnderWay, Executable
        <3>4. OrderInv(y)
            BY <3>2, <3>3 DEF OrderInv, Points
        <3>. QED BY <2>2, <3>1, <3>2, <3>3, <3>4 DEF execute_plan, Pending
    <2>. QED BY <2>1, <2>2
<1>2. /\ DOMAIN rq' = Requests /\ rq'[r] = y
      /\ \A s \in Requests : s # r => rq'[s] = rq[s]
      /\ rq[r].pc = "idle"
    BY <1>0, <1>1 DEF Start, TradeShape
<1>3. /\ UNCHANGED <<account, lots, position, proposal, fills, ledger, crashes>>
      /\ overlapped' = (overlapped \/ InFlight # {})
    BY <1>1 DEF Start, rows
<1>4. rq[r].done = {}
    BY <1>0, <1>2 DEF TradeShape, OrderInv
<1>5. TradeShape'
    <2>1. overlapped' \in BOOLEAN
        BY <1>0, <1>3 DEF TradeShape
    <2>. QED BY <1>0, <1>1, <1>2, <1>3, <2>1 DEF TradeShape
<1>6. ExecutedInv'
    BY <1>0, <1>1, <1>2, <1>3 DEF ExecutedInv
<1>7. ASSUME ~overlapped' PROVE ~overlapped /\ \A s \in Requests : rq[s].pc = "idle"
    BY <1>0, <1>3, <1>7 DEF TradeShape, InFlight
<1>8. SerialInv'
    <2>. SUFFICES ASSUME ~overlapped' PROVE SerialInv'
        BY DEF SerialInv
    <2>1. ~overlapped /\ \A s \in Requests : s # r => rq'[s].pc = "idle" /\ ~Loaded(rq'[s])
        BY <1>2, <1>7 DEF Loaded
    <2>2. \A s \in InFlight' : s = r
        BY <2>1 DEF InFlight
    <2>. QED BY <1>0, <1>1, <1>2, <1>3, <2>1, <2>2 DEF SerialInv
<1>9. OnceInv'
    <2>. SUFFICES ASSUME ~overlapped', crashes' = 0 PROVE OnceInv'
        BY DEF OnceInv
    <2>1. ~overlapped /\ crashes = 0 /\ \A s \in Requests : rq[s].pc = "idle"
        BY <1>3, <1>7
    <2>2. \A s \in Requests : rq[s].done = {} /\ Pending(rq[s]) = {}
        BY <1>0, <2>1 DEF TradeShape, OrderInv, Pending, UnderWay
    <2>3. \A p \in Proposals : fills[p] \in Nat /\ fills[p] <= 1
        BY <1>0, <2>1 DEF OnceInv, TradeShape
    <2>4. \A p \in Proposals : proposal[p] = "proposed" => fills[p] = 0
        <3>. SUFFICES ASSUME NEW p \in Proposals, proposal[p] = "proposed" PROVE fills[p] = 0
            OBVIOUS
        <3>1. fills[p] # 1
            BY <1>0, <2>1, <2>2 DEF OnceInv
        <3>. QED BY <2>3, <3>1
    <2>5. \A p \in Proposals : fills[p] = 1 => proposal[p] = "executed"
        BY <1>0, <2>1, <2>2 DEF OnceInv
    <2>6. \A s \in Requests : \A p \in Pending(rq'[s]) \cap Proposals : fills[p] = 0
        BY <1>1, <1>2, <2>2, <2>4
    <2>. QED BY <1>3, <2>3, <2>5, <2>6 DEF OnceInv
<1>. QED BY <1>5, <1>6, <1>8, <1>9 DEF TradeInv

LEMMA NextProposalKeeps ==
    ASSUME TradeInv, NEW r \in Requests, NextProposal(r)
    PROVE  TradeInv'
<1>0. OrderInv(rq[r]) /\ rq[r].pc = "next" /\ rq[r].plan /\ rq[r].todo \subseteq Proposals
    BY DEF TradeInv, TradeShape, NextProposal, OrderInv
<1>1. PICK p : p = Min(rq[r].todo)
    OBVIOUS
<1>2. p \in rq[r].todo /\ p \in Proposals
    BY <1>0, <1>1, TradingAssumption, MinExists DEF NextProposal
<1>3. PICK y : y = [rq[r] EXCEPT !.pc = "load", !.todo = @ \ {p},
                                 !.order = [side |-> SideOf[p], quantity |-> QuantityOf[p],
                                            proposal |-> p]]
    OBVIOUS
<1>4. Goto(r, y)
    BY <1>1, <1>3 DEF NextProposal
<1>5. /\ DOMAIN y = Fields /\ y.pc = "load" /\ y.plan = rq[r].plan /\ y.todo = rq[r].todo \ {p}
      /\ y.done = rq[r].done /\ y.loaded = rq[r].loaded
      /\ y.order = [side |-> SideOf[p], quantity |-> QuantityOf[p], proposal |-> p]
    BY <1>0, <1>3 DEF OrderInv, Fields
<1>6. y.order \in [side : {"BUY", "SELL"}, quantity : Asked, proposal : Proposals \cup {None}]
    BY <1>2, <1>5, TradingAssumption DEF Asked
<1>7. y.order.proposal # None /\ y.order.proposal \notin y.todo
    BY <1>2, <1>5, TradingAssumption
<1>8. OrderInv(y)
    BY <1>0, <1>5, <1>6, <1>7 DEF OrderInv, UnderWay, Loaded, Buying, Points
<1>9. Pending(y) \subseteq Pending(rq[r]) /\ ~Loaded(y)
    BY <1>2, <1>5 DEF Pending, UnderWay, Loaded
<1>10. r \in InFlight
    BY <1>0 DEF InFlight
<1>. QED BY <1>4, <1>5, <1>8, <1>9, <1>10, GotoKeeps

LEMMA LoadAccountKeeps ==
    ASSUME TradeInv, NEW r \in Requests, LoadAccount(r)
    PROVE  TradeInv'
<1>0. OrderInv(rq[r]) /\ rq[r].pc = "load" /\ account \in [cash : Int, hold : {0}]
    BY DEF TradeInv, TradeShape, LoadAccount
<1>1. PICK y : y = [rq[r] EXCEPT !.pc = "check", !.loaded = account]
    OBVIOUS
<1>2. Goto(r, y) /\ r \in InFlight
    BY <1>0, <1>1 DEF LoadAccount, InFlight
<1>3. /\ DOMAIN y = Fields /\ y.pc = "check" /\ y.plan = rq[r].plan /\ y.todo = rq[r].todo
      /\ y.done = rq[r].done /\ y.loaded = account /\ y.order = rq[r].order
    BY <1>0, <1>1 DEF OrderInv, Fields
<1>4. OrderInv(y)
    BY <1>0, <1>3 DEF OrderInv, UnderWay, Loaded, Buying, Points
<1>5. Pending(y) \subseteq Pending(rq[r])
    BY <1>0, <1>3 DEF Pending, UnderWay
<1>. QED BY <1>2, <1>3, <1>4, <1>5, GotoKeeps

\* An order on its way: its session goes on with the same order, and what it
\* writes beside it is as OrderInv says.
LEMMA OrderGoesOn ==
    ASSUME TradeInv, NEW r \in Requests, NEW y, Goto(r, y),
           Loaded(rq[r]), Loaded(y), y.pc \in Points, DOMAIN y = Fields,
           y.plan = rq[r].plan, y.todo = rq[r].todo, y.done = rq[r].done,
           y.order = rq[r].order, y.loaded = rq[r].loaded,
           Buying(y) =>
            /\ y.reserved \in Nat
            /\ y.pc # "reserve" => y.hold = y.reserved
            /\ \E price \in Prices : y.order.quantity * price <= y.loaded.cash,
           y.pc \in {"sell", "rollup", "position", "settle", "delete", "commit"} =>
            y.price \in Prices
    PROVE  TradeInv'
<1>0. OrderInv(rq[r]) /\ rq[r].pc \notin {"idle", "next", "load"}
    BY DEF TradeInv, TradeShape, Loaded
<1>1. y.pc \notin {"idle", "next", "load"}
    BY DEF Loaded
<1>2. r \in InFlight
    BY <1>0 DEF InFlight
<1>3. OrderInv(y)
    BY <1>0, <1>1 DEF OrderInv, UnderWay
<1>4. Pending(y) \subseteq Pending(rq[r])
    BY <1>0, <1>1 DEF Pending, UnderWay
<1>. QED BY <1>2, <1>3, <1>4, GotoKeeps

\* The steps of create_order and submit_order between a loaded account and
\* the commit.
LEMMA OrderStepKeeps ==
    ASSUME TradeInv, NEW r \in Requests,
           \/ create_order(r) \/ Reserve(r) \/ submit_order(r) \/ record_sale(r)
           \/ RebuildRead(r) \/ RebuildWrite(r) \/ Settle(r) \/ RebuildDelete(r)
    PROVE  TradeInv'
<1>0. /\ OrderInv(rq[r]) /\ DOMAIN rq[r] = Fields
      /\ TradingAssumption
    BY TradingAssumption DEF TradeInv, TradeShape, OrderInv
<1>1. rq[r].pc \in {"check", "reserve", "submit", "sell", "rollup", "position", "settle", "delete"}
    BY DEF create_order, Reserve, submit_order, record_sale, RebuildRead, RebuildWrite, Settle,
           RebuildDelete
<1>2. Loaded(rq[r]) /\ UnderWay(rq[r]) /\ r \in InFlight
    BY <1>1 DEF Loaded, UnderWay, InFlight
<1>3. /\ rq[r].loaded.cash \in Int /\ rq[r].loaded.hold = 0
      /\ rq[r].order.quantity \in Nat
    BY <1>0, <1>2, TradingAssumption DEF OrderInv, Asked
<1>4. CASE create_order(r)
    <2>1. CASE RollBack(r)
        BY <1>2, <2>1, RollBackKeeps
    <2>2. CASE /\ rq[r].order.side = "SELL"
               /\ Goto(r, [rq[r] EXCEPT !.pc = "submit"])
        <3>1. PICK y : y = [rq[r] EXCEPT !.pc = "submit"]
            OBVIOUS
        <3>2. /\ DOMAIN y = Fields /\ y.pc = "submit" /\ y.plan = rq[r].plan /\ y.todo = rq[r].todo
              /\ y.done = rq[r].done /\ y.loaded = rq[r].loaded /\ y.order = rq[r].order
            BY <1>0, <3>1 DEF Fields
        <3>3. Loaded(y) /\ ~Buying(y)
            BY <2>2, <3>2 DEF Loaded, Buying
        <3>. QED BY <1>2, <2>2, <3>1, <3>2, <3>3, OrderGoesOn DEF Points
    <2>3. ASSUME NEW price \in Prices, Affordable(r, price),
                 Goto(r, [rq[r] EXCEPT !.pc = "reserve",
                                       !.reserved = rq[r].order.quantity * price + Headroom])
          PROVE  TradeInv'
        <3>1. PICK y : y = [rq[r] EXCEPT !.pc = "reserve",
                                         !.reserved = rq[r].order.quantity * price + Headroom]
            OBVIOUS
        <3>2. /\ DOMAIN y = Fields /\ y.pc = "reserve" /\ y.plan = rq[r].plan /\ y.todo = rq[r].todo
              /\ y.done = rq[r].done /\ y.loaded = rq[r].loaded /\ y.order = rq[r].order
              /\ y.reserved = rq[r].order.quantity * price + Headroom
            BY <1>0, <3>1 DEF Fields
        <3>3. price \in Nat /\ Headroom \in Nat /\ rq[r].order.quantity * price \in Nat
            BY <1>3, TradingAssumption
        <3>4. rq[r].order.quantity * price <= rq[r].loaded.cash
            BY <1>3, <2>3, <3>3 DEF Affordable
        <3>5. Loaded(y) /\ y.reserved \in Nat
            BY <3>2, <3>3 DEF Loaded
        <3>. QED BY <1>2, <2>3, <3>1, <3>2, <3>4, <3>5, OrderGoesOn DEF Points
    <2>. QED BY <1>4, <2>1, <2>2, <2>3 DEF create_order
<1>5. CASE Reserve(r)
    <2>1. PICK y : y = [rq[r] EXCEPT !.pc = "submit", !.hold = rq[r].loaded.hold + rq[r].reserved,
                                     !.held = @ \cup Wants(r)]
        OBVIOUS
    <2>2. /\ DOMAIN y = Fields /\ y.pc = "submit" /\ y.plan = rq[r].plan /\ y.todo = rq[r].todo
          /\ y.done = rq[r].done /\ y.loaded = rq[r].loaded /\ y.order = rq[r].order
          /\ y.reserved = rq[r].reserved /\ y.hold = rq[r].loaded.hold + rq[r].reserved
        BY <1>0, <2>1 DEF Fields
    <2>3. Goto(r, y)
        <3>1. PICK x : x = [rq[r] EXCEPT !.pc = "submit", !.hold = rq[r].loaded.hold + rq[r].reserved]
            OBVIOUS
        <3>2. Goto(r, [x EXCEPT !.held = @ \cup Wants(r)])
            BY <1>5, <3>1 DEF Reserve, Locked
        <3>3. [x EXCEPT !.held = @ \cup Wants(r)] = y
            BY <1>0, <2>1, <3>1 DEF Fields
        <3>. QED BY <3>2, <3>3
    <2>4. Loaded(y) /\ (Buying(y) => Buying(rq[r]))
        BY <1>5, <2>2 DEF Loaded, Buying, Reserve
    <2>5. Buying(y) => y.reserved \in Nat /\ y.hold = y.reserved
                       /\ \E price \in Prices : y.order.quantity * price <= y.loaded.cash
        BY <1>0, <1>3, <2>2, <2>4 DEF OrderInv
    <2>. QED BY <1>2, <2>2, <2>3, <2>4, <2>5, OrderGoesOn DEF Points
<1>6. CASE submit_order(r)
    <2>1. CASE RollBack(r)
        BY <1>2, <2>1, RollBackKeeps
    <2>2. ASSUME NEW price \in Prices,
                 Goto(r, [rq[r] EXCEPT !.pc = "rollup", !.price = price])
          PROVE  TradeInv'
        <3>1. PICK y : y = [rq[r] EXCEPT !.pc = "rollup", !.price = price]
            OBVIOUS
        <3>2. /\ DOMAIN y = Fields /\ y.pc = "rollup" /\ y.plan = rq[r].plan /\ y.todo = rq[r].todo
              /\ y.done = rq[r].done /\ y.loaded = rq[r].loaded /\ y.order = rq[r].order
              /\ y.reserved = rq[r].reserved /\ y.hold = rq[r].hold /\ y.price = price
            BY <1>0, <3>1 DEF Fields
        <3>3. Loaded(y) /\ (Buying(y) => Buying(rq[r]) /\ rq[r].pc # "reserve")
            BY <1>6, <3>2 DEF Loaded, Buying, submit_order
        <3>4. Buying(y) => y.reserved \in Nat /\ y.hold = y.reserved
                           /\ \E q \in Prices : y.order.quantity * q <= y.loaded.cash
            BY <1>0, <3>2, <3>3 DEF OrderInv
        <3>. QED BY <1>2, <2>2, <3>1, <3>2, <3>3, <3>4, OrderGoesOn DEF Points
    <2>3. ASSUME NEW price \in Prices, rq[r].order.side = "SELL",
                 NEW take, NEW taken, NEW mine,
                 Goto(r, [rq[r] EXCEPT !.pc = "sell", !.price = price, !.taken = taken, !.mine = mine])
          PROVE  TradeInv'
        <3>1. PICK y : y = [rq[r] EXCEPT !.pc = "sell", !.price = price, !.taken = taken,
                                         !.mine = mine]
            OBVIOUS
        <3>2. /\ DOMAIN y = Fields /\ y.pc = "sell" /\ y.plan = rq[r].plan /\ y.todo = rq[r].todo
              /\ y.done = rq[r].done /\ y.loaded = rq[r].loaded /\ y.order = rq[r].order
              /\ y.price = price
            BY <1>0, <3>1 DEF Fields
        <3>3. Loaded(y) /\ ~Buying(y)
            BY <2>3, <3>2 DEF Loaded, Buying
        <3>. QED BY <1>2, <2>3, <3>1, <3>2, <3>3, OrderGoesOn DEF Points
    <2>. QED BY <1>6, <2>1, <2>2, <2>3 DEF submit_order
<1>7. ASSUME NEW y, Goto(r, y), DOMAIN y = Fields,
             rq[r].pc \in {"sell", "rollup", "position", "settle", "delete"},
             y.pc \in {"rollup", "position", "settle", "delete", "commit"},
             y.plan = rq[r].plan, y.todo = rq[r].todo, y.done = rq[r].done,
             y.loaded = rq[r].loaded, y.order = rq[r].order,
             y.reserved = rq[r].reserved, y.hold = rq[r].hold, y.price = rq[r].price
      PROVE  TradeInv'
    <2>1. Loaded(y) /\ (Buying(y) => Buying(rq[r]) /\ rq[r].pc # "reserve")
        BY <1>7 DEF Loaded, Buying
    <2>2. Buying(y) => y.reserved \in Nat /\ y.hold = y.reserved
                       /\ \E q \in Prices : y.order.quantity * q <= y.loaded.cash
        BY <1>0, <1>7, <2>1 DEF OrderInv
    <2>3. y.price \in Prices
        BY <1>0, <1>7 DEF OrderInv
    <2>4. y.pc \in Points
        BY <1>7 DEF Points
    <2>. QED BY <1>2, <1>7, <2>1, <2>2, <2>3, <2>4, OrderGoesOn
<1>8. ASSUME NEW pc \in {"rollup", "position", "settle", "delete", "commit"},
             Locked(r, [rq[r] EXCEPT !.pc = pc]),
             rq[r].pc \in {"sell", "rollup", "position", "settle", "delete"}
      PROVE  TradeInv'
    <2>1. PICK x : x = [rq[r] EXCEPT !.pc = pc]
        OBVIOUS
    <2>2. PICK y : y = [x EXCEPT !.held = @ \cup Wants(r)]
        OBVIOUS
    <2>3. Goto(r, y)
        BY <1>8, <2>1, <2>2 DEF Locked
    <2>4. /\ DOMAIN y = Fields /\ y.pc = pc /\ y.plan = rq[r].plan /\ y.todo = rq[r].todo
          /\ y.done = rq[r].done /\ y.loaded = rq[r].loaded /\ y.order = rq[r].order
          /\ y.reserved = rq[r].reserved /\ y.hold = rq[r].hold /\ y.price = rq[r].price
        BY <1>0, <2>1, <2>2 DEF Fields
    <2>. QED BY <1>7, <1>8, <2>3, <2>4
<1>9. CASE record_sale(r)
    BY <1>8, <1>9 DEF record_sale
<1>10. CASE RebuildRead(r)
    <2>1. PICK y : y = [rq[r] EXCEPT !.pc = IF Rollup(r) = 0 THEN "settle" ELSE "position",
                                     !.rollup = Rollup(r), !.hadRow = position # 0]
        OBVIOUS
    <2>2. /\ DOMAIN y = Fields /\ y.pc \in {"settle", "position"}
          /\ y.plan = rq[r].plan /\ y.todo = rq[r].todo
          /\ y.done = rq[r].done /\ y.loaded = rq[r].loaded /\ y.order = rq[r].order
          /\ y.reserved = rq[r].reserved /\ y.hold = rq[r].hold /\ y.price = rq[r].price
        BY <1>0, <2>1 DEF Fields
    <2>3. Goto(r, y) /\ rq[r].pc = "rollup"
        BY <1>10, <2>1 DEF RebuildRead
    <2>. QED BY <1>7, <2>2, <2>3
<1>11. CASE RebuildWrite(r)
    BY <1>2, <1>8, <1>11, RollBackKeeps DEF RebuildWrite
<1>12. CASE Settle(r)
    BY <1>8, <1>12 DEF Settle
<1>13. CASE RebuildDelete(r)
    BY <1>8, <1>13 DEF RebuildDelete
<1>. QED BY <1>4, <1>5, <1>6, <1>9, <1>10, <1>11, <1>12, <1>13

LEMMA CommitKeeps ==
    ASSUME TradeInv, NEW r \in Requests, Commit(r)
    PROVE  TradeInv'
<1>0. /\ TradeShape /\ ExecutedInv /\ SerialInv /\ OnceInv
      /\ OrderInv(rq[r]) /\ rq[r].pc = "commit" /\ None \notin Proposals
    BY TradingAssumption DEF TradeInv, TradeShape, Commit
<1>1. PICK p : p = rq[r].order.proposal
    OBVIOUS
<1>2. PICK y : y = AfterOrder(r, {p})
    OBVIOUS
<1>3. /\ DOMAIN rq' = Requests /\ rq'[r] = y
      /\ \A s \in Requests : s # r => rq'[s] = rq[s]
      /\ account' = Settled(r) /\ ledger' = Recorded(r)
      /\ fills' = [q \in Proposals |-> IF q = p THEN fills[q] + 1 ELSE fills[q]]
      /\ UNCHANGED <<proposal, starts, crashes, overlapped>>
    BY <1>0, <1>1, <1>2 DEF Commit, TradeShape
<1>4. /\ p \in Proposals \cup {None} /\ p \notin rq[r].todo
      /\ rq[r].order.side \in {"BUY", "SELL"}
      /\ UnderWay(rq[r]) /\ Loaded(rq[r]) /\ r \in InFlight
      /\ rq[r].loaded.cash \in Int /\ rq[r].order.quantity \in Asked /\ rq[r].price \in Prices
    BY <1>0, <1>1 DEF OrderInv, UnderWay, Loaded, InFlight
<1>5. net_amount(r) \in Int
    <2>1. /\ rq[r].order.quantity \in Nat /\ rq[r].price \in Nat /\ Fee \in Nat
          /\ rq[r].order.quantity * rq[r].price \in Nat
        BY <1>4, TradingAssumption DEF Asked
    <2>. QED BY <2>1 DEF net_amount
\* a purchase gives back what it reserved, a sale writes the cash alone
<1>6. account' \in [cash : Int, hold : {0}] /\ ledger'.cash \in Int
      /\ account'.cash - rq[r].loaded.cash = ledger'.cash - ledger.cash
    <2>1. CASE rq[r].order.side = "BUY"
        <3>1. Buying(rq[r])
            BY <1>0, <1>4, <2>1 DEF Buying
        <3>2. rq[r].hold = rq[r].reserved /\ rq[r].reserved \in Nat
            BY <1>0, <3>1 DEF OrderInv
        <3>3. _release_reservation(r) = 0
            <4>1. rq[r].hold - rq[r].reserved = 0
                BY <3>2
            <4>. QED BY <4>1, ZeroIsMax DEF _release_reservation
        <3>4. account' = [cash |-> rq[r].loaded.cash - net_amount(r), hold |-> 0]
            BY <1>3, <2>1, <3>3 DEF Settled
        <3>5. ledger'.cash = ledger.cash - net_amount(r)
            BY <1>3, <2>1 DEF Recorded
        <3>. QED BY <1>0, <1>4, <1>5, <3>4, <3>5 DEF TradeShape
    <2>2. CASE rq[r].order.side = "SELL"
        <3>1. account' = [account EXCEPT !.cash = rq[r].loaded.cash + net_amount(r)]
            BY <1>3, <2>2 DEF Settled
        <3>2. /\ account' \in [cash : Int, hold : {0}]
              /\ account'.cash = rq[r].loaded.cash + net_amount(r)
            BY <1>0, <1>4, <1>5, <3>1 DEF TradeShape
        <3>3. ledger'.cash = ledger.cash + net_amount(r)
            BY <1>3, <2>2 DEF Recorded
        <3>. QED BY <1>0, <1>4, <1>5, <3>2, <3>3 DEF TradeShape
    <2>. QED BY <1>4, <2>1, <2>2
\* the request afterwards
<1>7. /\ OrderInv(y) /\ ~Loaded(y) /\ Pending(y) \subseteq rq[r].todo
      /\ y.done \subseteq rq[r].done \cup ({p} \cap Proposals)
      /\ rq[r].done \subseteq y.done
      /\ p \in Proposals => p \in y.done
    <2>1. CASE ~rq[r].plan
        <3>1. y = Idle /\ rq[r].done = {}
            BY <1>0, <1>2, <2>1 DEF AfterOrder, OrderInv
        <3>2. p = None
            BY <1>0, <1>1, <1>4, <2>1 DEF OrderInv
        <3>. QED BY <1>0, <3>1, <3>2, IdleOrder DEF Loaded
    <2>2. CASE rq[r].plan
        <3>1. y = [Idle EXCEPT !.pc = "next", !.plan = TRUE, !.todo = rq[r].todo,
                               !.done = rq[r].done \cup {p}]
            BY <1>2, <2>2 DEF AfterOrder
        <3>2. /\ DOMAIN y = Fields /\ y.pc = "next" /\ y.plan = TRUE
              /\ y.todo = rq[r].todo /\ y.done = rq[r].done \cup {p}
              /\ y.loaded = [cash |-> 0, hold |-> 0]
            BY <3>1 DEF Idle, Fields
        <3>3. ~Loaded(y) /\ ~Buying(y) /\ ~UnderWay(y) /\ y.loaded \in [cash : Int, hold : {0}]
            BY <3>2 DEF Loaded, Buying, UnderWay
        <3>4. p \in Proposals
            BY <1>0, <1>1, <1>4, <2>2 DEF OrderInv
        <3>5. OrderInv(y)
            BY <1>0, <3>2, <3>3, <3>4 DEF OrderInv, Points
        <3>. QED BY <3>2, <3>3, <3>4, <3>5 DEF Pending
    <2>. QED BY <1>0, <2>1, <2>2 DEF OrderInv
<1>8. TradeShape'
    <2>1. fills' \in [Proposals -> Nat]
        BY <1>0, <1>3 DEF TradeShape
    <2>. QED BY <1>0, <1>3, <1>6, <1>7, <2>1 DEF TradeShape
<1>9. \A q \in Proposals : fills'[q] >= fills[q] /\ (q = p => fills'[q] = fills[q] + 1)
                            /\ (q # p => fills'[q] = fills[q]) /\ fills[q] \in Nat
    BY <1>0, <1>3 DEF TradeShape
<1>10. ExecutedInv'
    <2>1. \A q \in Proposals : proposal'[q] = "executed" => fills'[q] > 0
        BY <1>0, <1>3, <1>9 DEF ExecutedInv
    <2>2. ASSUME NEW s \in Requests, NEW q \in rq'[s].done PROVE fills'[q] > 0
        <3>1. CASE s # r
            <4>1. q \in rq[s].done /\ q \in Proposals
                BY <1>0, <1>3, <2>2, <3>1 DEF TradeShape, OrderInv
            <4>2. fills[q] > 0
                BY <1>0, <4>1 DEF ExecutedInv
            <4>. QED BY <1>9, <4>1, <4>2
        <3>2. CASE s = r
            <4>1. q \in rq[r].done \/ (q = p /\ q \in Proposals)
                BY <1>3, <1>7, <2>2, <3>2
            <4>2. q \in Proposals /\ (fills[q] > 0 \/ q = p)
                BY <1>0, <4>1 DEF ExecutedInv, OrderInv
            <4>. QED BY <1>9, <4>2
        <3>. QED BY <3>1, <3>2
    <2>. QED BY <2>1, <2>2 DEF ExecutedInv
<1>11. SerialInv'
    <2>. SUFFICES ASSUME ~overlapped PROVE SerialInv'
        BY <1>3 DEF SerialInv
    <2>1. \A s \in Requests : s # r => s \notin InFlight /\ ~Loaded(rq[s]) /\ rq'[s] = rq[s]
        BY <1>0, <1>3, <1>4 DEF SerialInv, InFlight, Loaded
    <2>2. \A s \in InFlight' : s = r
        BY <2>1 DEF InFlight
    <2>3. \A s \in Requests : ~Loaded(rq'[s])
        BY <1>3, <1>7, <2>1
    <2>4. account'.cash = InitCash + ledger'.cash
        <3>1. rq[r].loaded.cash = InitCash + ledger.cash
            BY <1>0, <1>4 DEF SerialInv
        <3>2. InitCash \in Nat /\ ledger.cash \in Int /\ account'.cash \in Int
            BY <1>0, <1>6, TradingAssumption DEF TradeShape
        <3>. QED BY <1>4, <1>6, <3>1, <3>2
    <2>. QED BY <2>2, <2>3, <2>4 DEF SerialInv
<1>12. OnceInv'
    <2>. SUFFICES ASSUME ~overlapped, crashes = 0 PROVE OnceInv'
        BY <1>3 DEF OnceInv
    <2>0. /\ \A q \in Proposals : fills[q] <= 1
          /\ \A q \in Proposals :
                fills[q] = 1 => proposal[q] = "executed" \/ \E s \in Requests : q \in rq[s].done
          /\ \A s \in Requests : \A q \in Pending(rq[s]) \cap Proposals : fills[q] = 0
        BY <1>0 DEF OnceInv
    <2>1. p \in Proposals => fills[p] = 0
        BY <1>1, <1>4, <2>0 DEF Pending
    <2>2. \A q \in Proposals : fills'[q] <= 1
        BY <1>9, <2>0, <2>1
    <2>3. ASSUME NEW q \in Proposals, fills'[q] = 1
          PROVE  proposal'[q] = "executed" \/ \E s \in Requests : q \in rq'[s].done
        <3>1. CASE q = p
            BY <1>3, <1>7, <3>1
        <3>2. CASE q # p
            <4>1. proposal[q] = "executed" \/ \E s \in Requests : q \in rq[s].done
                BY <1>9, <2>0, <2>3, <3>2
            <4>2. ASSUME NEW s \in Requests, q \in rq[s].done PROVE q \in rq'[s].done
                BY <1>3, <1>7, <4>2
            <4>. QED BY <1>3, <4>1, <4>2
        <3>. QED BY <3>1, <3>2
    <2>4. ASSUME NEW s \in Requests, NEW q \in Pending(rq'[s]) \cap Proposals PROVE fills'[q] = 0
        <3>1. CASE s = r
            <4>1. q \in rq[r].todo /\ q \in Pending(rq[r])
                BY <1>3, <1>7, <2>4, <3>1 DEF Pending
            <4>2. q # p
                BY <1>4, <4>1
            <4>. QED BY <1>9, <2>0, <4>1, <4>2
        <3>2. CASE s # r
            <4>1. rq[s].pc = "idle"
                BY <1>0, <1>4, <3>2 DEF SerialInv, InFlight
            <4>2. Pending(rq[s]) = {}
                BY <1>0, <4>1 DEF TradeShape, OrderInv, Pending, UnderWay
            <4>. QED BY <1>3, <2>4, <3>2, <4>2
        <3>. QED BY <3>1, <3>2
    <2>. QED BY <2>2, <2>3, <2>4 DEF OnceInv
<1>. QED BY <1>8, <1>10, <1>11, <1>12 DEF TradeInv

LEMMA MarkExecutedKeeps ==
    ASSUME TradeInv, NEW r \in Requests, MarkExecuted(r)
    PROVE  TradeInv'
<1>0. /\ TradeShape /\ ExecutedInv /\ SerialInv /\ OnceInv
      /\ rq[r].pc = "next" /\ r \in InFlight
    BY DEF TradeInv, MarkExecuted, InFlight
<1>1. /\ DOMAIN rq' = Requests /\ rq'[r] = Idle
      /\ \A s \in Requests : s # r => rq'[s] = rq[s]
      /\ proposal' = [p \in Proposals |-> IF p \in rq[r].done THEN "executed" ELSE proposal[p]]
      /\ UNCHANGED <<account, lots, position, fills, ledger, starts, crashes, overlapped>>
    BY <1>0 DEF MarkExecuted, TradeShape, Done
<1>2. TradeShape'
    <2>1. proposal' \in [Proposals -> {"proposed", "executed"}]
        BY <1>0, <1>1 DEF TradeShape
    <2>. QED BY <1>0, <1>1, <2>1, IdleOrder DEF TradeShape
<1>3. ExecutedInv'
    BY <1>0, <1>1, IdleOrder DEF ExecutedInv
<1>4. SerialInv'
    <2>1. InFlight' \subseteq InFlight /\ ~Loaded(Idle)
        BY <1>1, IdleOrder DEF InFlight, Loaded
    <2>. QED BY <1>0, <1>1, <2>1 DEF SerialInv
<1>5. OnceInv'
    <2>. SUFFICES ASSUME ~overlapped, crashes = 0 PROVE OnceInv'
        BY <1>1 DEF OnceInv
    <2>1. ASSUME NEW p \in Proposals, fills[p] = 1
          PROVE  proposal'[p] = "executed" \/ \E s \in Requests : p \in rq'[s].done
        <3>1. proposal[p] = "executed" \/ \E s \in Requests : p \in rq[s].done
            BY <1>0, <2>1 DEF OnceInv
        <3>2. ASSUME NEW s \in Requests, p \in rq[s].done
              PROVE  p \in rq[r].done \/ p \in rq'[s].done
            BY <1>1, <3>2
        <3>. QED BY <1>1, <3>1, <3>2
    <2>2. \A s \in Requests : \A p \in Pending(rq'[s]) \cap Proposals : fills[p] = 0
        BY <1>0, <1>1, IdleOrder DEF OnceInv
    <2>. QED BY <1>0, <1>1, <2>1, <2>2 DEF OnceInv
<1>. QED BY <1>2, <1>3, <1>4, <1>5 DEF TradeInv

LEMMA CrashKeeps ==
    ASSUME TradeInv, Crash
    PROVE  TradeInv'
<1>0. TradeShape /\ ExecutedInv /\ SerialInv /\ OnceInv
    BY DEF TradeInv
<1>1. /\ rq' = [r \in Requests |-> Idle] /\ crashes' = crashes + 1
      /\ UNCHANGED <<account, lots, position, proposal, fills, ledger, starts, overlapped>>
    BY DEF Crash, rows
<1>2. TradeShape'
    BY <1>0, <1>1, IdleOrder DEF TradeShape
<1>3. ExecutedInv'
    BY <1>0, <1>1, IdleOrder DEF ExecutedInv
<1>4. SerialInv'
    BY <1>0, <1>1, IdleOrder DEF SerialInv, InFlight, Loaded
<1>5. OnceInv'
    BY <1>0, <1>1 DEF OnceInv, TradeShape
<1>. QED BY <1>2, <1>3, <1>4, <1>5 DEF TradeInv

LEMMA TradeStep ==
    ASSUME TradeInv, [Next]_vars
    PROVE  TradeInv'
<1>1. ASSUME NEW r \in Requests, place_order(r) \/ execute_plan(r) PROVE TradeInv'
    BY <1>1, StartKeeps
<1>2. ASSUME NEW r \in Requests, Step(r) PROVE TradeInv'
    <2>1. CASE NextProposal(r)
        BY <2>1, NextProposalKeeps
    <2>2. CASE LoadAccount(r)
        BY <2>2, LoadAccountKeeps
    <2>3. CASE \/ create_order(r) \/ Reserve(r) \/ submit_order(r) \/ record_sale(r)
               \/ RebuildRead(r) \/ RebuildWrite(r) \/ Settle(r) \/ RebuildDelete(r)
        BY <2>3, OrderStepKeeps
    <2>4. CASE Commit(r)
        BY <2>4, CommitKeeps
    <2>5. CASE MarkExecuted(r)
        BY <2>5, MarkExecutedKeeps
    <2>6. CASE DeadlockVictim(r)
        <3>1. r \in InFlight
            BY <2>6 DEF DeadlockVictim, Blocks, Wants, InFlight
        <3>. QED BY <2>6, <3>1, RollBackKeeps DEF DeadlockVictim
    <2>. QED BY <1>2, <2>1, <2>2, <2>3, <2>4, <2>5, <2>6 DEF Step
<1>3. CASE UNCHANGED vars
    BY <1>3 DEF vars, rows, TradeInv, TradeShape, ExecutedInv, SerialInv, OnceInv, InFlight
<1>. QED BY <1>1, <1>2, <1>3, CrashKeeps DEF Next

LEMMA TradeInvariant == Spec => []TradeInv
<1>1. Init => TradeInv
    BY TradeInit
<1>2. TradeInv /\ [Next]_vars => TradeInv'
    BY TradeStep
<1>. QED BY <1>1, <1>2, PTL DEF Spec

-----------------------------------------------------------------------------
(* The books: shares and the rollup of the lots.                            *)

Late == {"sell", "rollup", "position", "settle", "delete", "commit"}

\* Only a sale has loaded lots, and of those it changes what it took.
SessionInv(x, table) ==
    /\ x.pc \notin Late \/ x.order.side = "BUY" => x.mine = <<>> /\ x.taken = {}
    /\ x.taken \subseteq DOMAIN x.mine /\ DOMAIN x.mine \subseteq DOMAIN table
    /\ \A l \in DOMAIN x.mine : x.mine[l] \in Nat

Moved(x) == IF x.order.side = "BUY" THEN x.order.quantity ELSE 0 - x.order.quantity

\* With no other request in between, its lots are those of the table but for
\* what it sells, and so is its rollup.
SerialSession(x, table) ==
    x.pc \in Late =>
        /\ x.order.side = "SELL" =>
            /\ DOMAIN x.mine = DOMAIN table
            /\ \A l \in DOMAIN table : l \notin x.taken => x.mine[l] = table[l]
            /\ Total(x.mine) = Total(table) + Moved(x)
        /\ x.pc \notin {"sell", "rollup"} => x.rollup = Total(table) + Moved(x)

BooksInv ==
    /\ lots \in Seq(Nat) /\ ledger.shares \in Int
    /\ \A r \in Requests : SessionInv(rq[r], lots)
    /\ ~overlapped =>
        /\ Total(lots) = InitShares + ledger.shares /\ position = Total(lots)
        /\ \A r \in Requests : SerialSession(rq[r], lots)

LEMMA TotalIsSum == ASSUME NEW f PROVE Total(f) = Sum(f, DOMAIN f)
BY Zenon DEF Total, FoldFunction, Sum, SumFunctionOnSet

\* The total of a table of lots, of one with another lot, and of what is left
\* of its open lots.
LEMMA TotalOfLots ==
    ASSUME NEW n \in Nat, NEW f, DOMAIN f = 1..n, \A l \in 1..n : f[l] \in Nat
    PROVE  /\ Total(f) \in Nat
           /\ \A g : DOMAIN g = 1..n /\ (\A l \in 1..n : g[l] = f[l]) => Total(g) = Total(f)
<1>1. IsFiniteSet(1..n)
    BY FS_Interval
<1>2. Total(f) \in Nat
    BY <1>1, TotalIsSum, SumNat
<1>3. ASSUME NEW g, DOMAIN g = 1..n, \A l \in 1..n : g[l] = f[l]
      PROVE  Total(g) = Total(f)
    <2>1. \A l \in 1..n : f[l] \in Int /\ f[l] = g[l]
        BY <1>3
    <2>2. Sum(f, 1..n) = Sum(g, 1..n)
        BY <1>1, <2>1, SumSame
    <2>. QED BY <1>3, <2>2, TotalIsSum
<1>. QED BY <1>2, <1>3

LEMMA TotalOfAppend ==
    ASSUME NEW table \in Seq(Nat), NEW q \in Nat
    PROVE  Total(Append(table, q)) = Total(table) + q
<1>1. PICK n \in Nat : n = Len(table) /\ DOMAIN table = 1..n
    OBVIOUS
<1>2. PICK f : f = Append(table, q)
    OBVIOUS
<1>3. DOMAIN f = 1..n + 1 /\ f[n + 1] = q /\ \A l \in 1..n : f[l] = table[l] /\ table[l] \in Nat
    BY <1>1, <1>2
<1>4. IsFiniteSet(1..n + 1) /\ IsFiniteSet(1..n) /\ n + 1 \in 1..n + 1
      /\ (1..n + 1) \ {n + 1} = 1..n
    BY FS_Interval
<1>5. \A l \in 1..n + 1 : f[l] \in Int
    BY <1>3
<1>6. Sum(f, 1..n + 1) = f[n + 1] + Sum(f, 1..n)
    <2>1. Sum(f, 1..n + 1) = f[n + 1] + Sum(f, (1..n + 1) \ {n + 1})
        BY <1>4, <1>5, SumTake
    <2>. QED BY <1>4, <2>1
<1>7. Sum(f, 1..n) = Sum(table, 1..n)
    <2>1. \A l \in 1..n : f[l] \in Int /\ f[l] = table[l]
        BY <1>3
    <2>. QED BY <1>4, <2>1, SumSame
<1>8. Sum(table, 1..n) \in Int
    <2>1. \A l \in 1..n : table[l] \in Int
        BY <1>3
    <2>. QED BY <1>4, <2>1, SumInt
<1>9. Total(f) = Sum(f, 1..n + 1) /\ Total(table) = Sum(table, 1..n)
    BY <1>1, <1>3, TotalIsSum
<1>. QED BY <1>2, <1>3, <1>6, <1>7, <1>8, <1>9

\* What a sale takes of every lot, it takes of their total.
LEMMA TotalOfDifference ==
    ASSUME NEW n \in Nat, NEW f, NEW g, NEW h,
           DOMAIN f = 1..n, DOMAIN g = 1..n, DOMAIN h = 1..n,
           \A l \in 1..n : f[l] \in Int /\ g[l] \in Int /\ h[l] = f[l] - g[l]
    PROVE  Total(h) = Total(f) - Total(g)
<1>1. IsFiniteSet(1..n)
    BY FS_Interval
<1>2. \A l \in 1..n : h[l] \in Int /\ g[l] \in Int /\ f[l] = h[l] + g[l]
    OBVIOUS
<1>3. Sum(f, 1..n) = Sum(h, 1..n) + Sum(g, 1..n)
    BY <1>1, <1>2, SumPlus
<1>4. Sum(h, 1..n) \in Int /\ Sum(g, 1..n) \in Int
    <2>1. (\A l \in 1..n : h[l] \in Int) /\ (\A l \in 1..n : g[l] \in Int)
        BY <1>2
    <2>. QED BY <1>1, <2>1, SumInt
<1>5. Total(f) = Sum(f, 1..n) /\ Total(g) = Sum(g, 1..n) /\ Total(h) = Sum(h, 1..n)
    BY TotalIsSum
<1>. QED BY <1>3, <1>4, <1>5

LEMMA TotalOfOpen ==
    ASSUME NEW n \in Nat, NEW f, DOMAIN f = 1..n, \A l \in 1..n : f[l] \in Nat,
           NEW g, DOMAIN g = {l \in 1..n : f[l] > 0}, \A l \in DOMAIN g : g[l] = f[l]
    PROVE  Total(g) = Total(f)
<1>1. PICK R : R = {l \in 1..n : f[l] > 0}
    OBVIOUS
<1>2. IsFiniteSet(1..n) /\ R \in SUBSET (1..n)
    BY <1>1, FS_Interval
<1>3. Sum(f, 1..n) = Sum(f, R)
    <2>1. (\A l \in 1..n : f[l] \in Int) /\ \A l \in (1..n) \ R : f[l] = 0
        BY <1>1
    <2>. QED BY <1>2, <2>1, SumOfSome
<1>4. Sum(f, R) = Sum(g, R)
    <2>1. IsFiniteSet(R)
        BY <1>2, FS_Subset
    <2>2. \A l \in R : f[l] \in Int /\ f[l] = g[l]
        BY <1>1
    <2>. QED BY <2>1, <2>2, SumSame
<1>5. Total(f) = Sum(f, 1..n) /\ Total(g) = Sum(g, R)
    BY <1>1, TotalIsSum
<1>. QED BY <1>3, <1>4, <1>5

LEMMA BooksInit ==
    ASSUME Init
    PROVE  BooksInv
<1>1. InitShares \in Nat
    BY TradingAssumption
<1>2. lots = <<InitShares>> /\ lots \in Seq(Nat) /\ ledger.shares = 0
    BY <1>1 DEF Init
<1>3. Total(lots) = InitShares
    <2>1. <<>> \in Seq(Nat) /\ lots = Append(<<>>, InitShares)
        BY <1>2
    <2>2. Total(<<>>) = 0
        <3>1. DOMAIN <<>> = {}
            OBVIOUS
        <3>2. Total(<<>>) = Sum(<<>>, {})
            BY <3>1, TotalIsSum
        <3>. QED BY <3>2, SumEmpty
    <2>3. Total(lots) = Total(<<>>) + InitShares
        BY <1>1, <2>1, TotalOfAppend
    <2>. QED BY <1>1, <2>2, <2>3
<1>4. Idle.mine = <<>> /\ Idle.taken = {} /\ Idle.pc \notin Late
    BY DEF Idle, Late
<1>5. SessionInv(Idle, lots) /\ SerialSession(Idle, lots)
    BY <1>2, <1>4 DEF SessionInv, SerialSession
<1>6. \A r \in Requests : rq[r] = Idle
    BY DEF Init
<1>7. position = InitShares
    BY DEF Init
<1>. QED BY <1>1, <1>2, <1>3, <1>5, <1>6, <1>7 DEF BooksInv

\* A request goes on without a commit.
LEMMA BooksGoto ==
    ASSUME TradeInv, BooksInv, NEW r \in Requests, NEW y, rq' = [rq EXCEPT ![r] = y],
           UNCHANGED <<lots, position, ledger>>, ~overlapped' => ~overlapped,
           SessionInv(y, lots), ~overlapped => SerialSession(y, lots)
    PROVE  BooksInv'
<1>1. /\ rq'[r] = y
      /\ \A s \in Requests : s # r => rq'[s] = rq[s]
    BY DEF TradeInv, TradeShape
<1>2. lots' = lots /\ position' = position /\ ledger' = ledger
    OBVIOUS
<1>. QED BY <1>1, <1>2 DEF BooksInv

\* Its lots and what it asked for are as they were, and so is its rollup.
LEMMA BooksKept ==
    ASSUME TradeInv, BooksInv, NEW r \in Requests, NEW y, Goto(r, y),
           y.mine = rq[r].mine, y.taken = rq[r].taken, y.rollup = rq[r].rollup,
           y.order = rq[r].order \/ (rq[r].pc \notin Late /\ y.pc \notin Late),
           rq[r].pc \in Late => y.pc \in Late,
           y.pc \in Late => \/ rq[r].pc \in Late \ {"sell", "rollup"}
                            \/ rq[r].pc \in Late /\ y.pc \in {"sell", "rollup"}
    PROVE  BooksInv'
<1>1. /\ rq' = [rq EXCEPT ![r] = y] /\ UNCHANGED <<lots, position, ledger>>
      /\ overlapped' = overlapped /\ overlapped \in BOOLEAN
    BY DEF Goto, rows, TradeInv, TradeShape
<1>2. SessionInv(rq[r], lots) /\ (~overlapped => SerialSession(rq[r], lots))
    BY DEF BooksInv
<1>3. SessionInv(y, lots)
    BY <1>2 DEF SessionInv
<1>4. ~overlapped => SerialSession(y, lots)
    BY <1>2 DEF SerialSession, Moved
<1>. QED BY <1>1, <1>3, <1>4, BooksGoto

\* The transaction is over.
LEMMA AfterOrderBooks ==
    ASSUME NEW r, NEW e, NEW table
    PROVE  /\ SessionInv(AfterOrder(r, e), table) /\ SerialSession(AfterOrder(r, e), table)
           /\ SessionInv(Idle, table) /\ SerialSession(Idle, table)
<1>1. /\ Idle.mine = <<>> /\ Idle.taken = {} /\ Idle.pc \notin Late
      /\ AfterOrder(r, e).mine = <<>> /\ AfterOrder(r, e).taken = {} /\ AfterOrder(r, e).pc \notin Late
    BY DEF Idle, Late, AfterOrder
<1>2. DOMAIN <<>> = {}
    OBVIOUS
<1>. QED BY <1>1, <1>2 DEF SessionInv, SerialSession

LEMMA BooksRollBack ==
    ASSUME TradeInv, BooksInv, NEW r \in Requests, RollBack(r)
    PROVE  BooksInv'
<1>1. PICK y : y = AfterOrder(r, {})
    OBVIOUS
<1>2. /\ rq' = [rq EXCEPT ![r] = y] /\ UNCHANGED <<lots, position, ledger>>
      /\ overlapped' = overlapped /\ overlapped \in BOOLEAN
    BY <1>1 DEF RollBack, Goto, rows, TradeInv, TradeShape
<1>3. SessionInv(y, lots) /\ SerialSession(y, lots)
    BY <1>1, AfterOrderBooks
<1>. QED BY <1>2, <1>3, BooksGoto

LEMMA BooksStart ==
    ASSUME TradeInv, BooksInv, NEW r \in Requests, place_order(r) \/ execute_plan(r)
    PROVE  BooksInv'
<1>1. PICK y : Start(r, y) /\ y.mine = <<>> /\ y.taken = {} /\ y.pc \notin Late
    <2>1. CASE place_order(r)
        <3>1. PICK side \in {"BUY", "SELL"}, quantity \in Quantities :
                Start(r, [Idle EXCEPT !.pc = "load",
                            !.order = [NoOrder EXCEPT !.side = side, !.quantity = quantity]])
            BY <2>1 DEF place_order
        <3>2. PICK y : y = [Idle EXCEPT !.pc = "load",
                            !.order = [NoOrder EXCEPT !.side = side, !.quantity = quantity]]
            OBVIOUS
        <3>3. y.mine = <<>> /\ y.taken = {} /\ y.pc \notin Late
            BY <3>2 DEF Idle, Late
        <3>. QED BY <3>1, <3>2, <3>3
    <2>2. CASE execute_plan(r)
        <3>1. PICK y : y = [Idle EXCEPT !.pc = "next", !.plan = TRUE, !.todo = Executable]
            OBVIOUS
        <3>2. y.mine = <<>> /\ y.taken = {} /\ y.pc \notin Late
            BY <3>1 DEF Idle, Late
        <3>. QED BY <2>2, <3>1, <3>2 DEF execute_plan
    <2>. QED BY <2>1, <2>2
<1>2. /\ rq' = [rq EXCEPT ![r] = y] /\ UNCHANGED <<lots, position, ledger>>
      /\ overlapped' = (overlapped \/ InFlight # {}) /\ overlapped \in BOOLEAN
    BY <1>1 DEF Start, rows, TradeInv, TradeShape
<1>3. SessionInv(y, lots) /\ SerialSession(y, lots)
    <2>1. DOMAIN <<>> = {}
        OBVIOUS
    <2>. QED BY <1>1, <2>1 DEF SessionInv, SerialSession
<1>. QED BY <1>2, <1>3, BooksGoto

LEMMA BooksSubmit ==
    ASSUME TradeInv, BooksInv, NEW r \in Requests, submit_order(r)
    PROVE  BooksInv'
<1>0. /\ OrderInv(rq[r]) /\ rq[r].pc = "submit" /\ DOMAIN rq[r] = Fields /\ overlapped \in BOOLEAN
      /\ lots \in Seq(Nat) /\ SessionInv(rq[r], lots)
    BY DEF TradeInv, TradeShape, OrderInv, submit_order, BooksInv
<1>1. rq[r].mine = <<>> /\ rq[r].taken = {} /\ rq[r].order.quantity \in Nat
    BY <1>0, TradingAssumption DEF SessionInv, Late, OrderInv, UnderWay, Asked
<1>2. CASE RollBack(r)
    BY <1>2, BooksRollBack
<1>3. ASSUME NEW price \in Prices, rq[r].order.side = "BUY",
             Goto(r, [rq[r] EXCEPT !.pc = "rollup", !.price = price])
      PROVE  BooksInv'
    <2>1. PICK y : y = [rq[r] EXCEPT !.pc = "rollup", !.price = price]
        OBVIOUS
    <2>2. y.mine = <<>> /\ y.taken = {} /\ y.order = rq[r].order /\ y.pc = "rollup"
        BY <1>0, <1>1, <2>1 DEF Fields
    <2>3. SessionInv(y, lots) /\ SerialSession(y, lots)
        <3>1. DOMAIN <<>> = {}
            OBVIOUS
        <3>. QED BY <1>3, <2>2, <3>1 DEF SessionInv, SerialSession, Late
    <2>. QED BY <1>0, <1>3, <2>1, <2>3, BooksGoto DEF Goto, rows
<1>4. ASSUME NEW price \in Prices, rq[r].order.side = "SELL",
             NEW take \in [DOMAIN lots -> 0..rq[r].order.quantity],
             Total(take) = rq[r].order.quantity,
             \A l \in DOMAIN lots : take[l] <= lots[l],
             Goto(r, [rq[r] EXCEPT !.pc = "sell", !.price = price,
                                   !.taken = {l \in DOMAIN lots : take[l] > 0},
                                   !.mine = [l \in DOMAIN lots |-> lots[l] - take[l]]])
      PROVE  BooksInv'
    <2>1. PICK y : y = [rq[r] EXCEPT !.pc = "sell", !.price = price,
                                     !.taken = {l \in DOMAIN lots : take[l] > 0},
                                     !.mine = [l \in DOMAIN lots |-> lots[l] - take[l]]]
        OBVIOUS
    <2>2. /\ y.mine = [l \in DOMAIN lots |-> lots[l] - take[l]]
          /\ y.taken = {l \in DOMAIN lots : take[l] > 0}
          /\ y.order = rq[r].order /\ y.pc = "sell"
        BY <1>0, <2>1 DEF Fields
    <2>3. PICK n \in Nat : DOMAIN lots = 1..n /\ \A l \in 1..n : lots[l] \in Nat
        BY <1>0
    <2>4. \A l \in 1..n : take[l] \in Nat /\ lots[l] - take[l] \in Nat
        <3>. SUFFICES ASSUME NEW l \in 1..n PROVE take[l] \in Nat /\ lots[l] - take[l] \in Nat
            OBVIOUS
        <3>1. take[l] \in 0..rq[r].order.quantity /\ take[l] <= lots[l] /\ lots[l] \in Nat
            BY <1>4, <2>3
        <3>. QED BY <1>1, <3>1
    <2>5. /\ DOMAIN y.mine = 1..n
          /\ \A l \in 1..n : y.mine[l] = lots[l] - take[l] /\ y.mine[l] \in Nat
          /\ \A l \in 1..n : l \notin y.taken => y.mine[l] = lots[l]
        BY <2>2, <2>3, <2>4
    <2>6. SessionInv(y, lots)
        BY <1>4, <2>2, <2>3, <2>5 DEF SessionInv, Late
    <2>7. Total(y.mine) = Total(lots) + Moved(y)
        <3>1. DOMAIN take = 1..n
            BY <2>3
        <3>2. PICK left : left = y.mine
            OBVIOUS
        <3>3. Total(y.mine) = Total(lots) - Total(take)
            <4>1. \A l \in 1..n : lots[l] \in Int /\ take[l] \in Int /\ left[l] = lots[l] - take[l]
                BY <2>3, <2>4, <2>5, <3>2
            <4>2. DOMAIN left = 1..n /\ DOMAIN lots = 1..n
                BY <2>3, <2>5, <3>2
            <4>3. Total(left) = Total(lots) - Total(take)
                BY <3>1, <4>1, <4>2, TotalOfDifference
            <4>. QED BY <3>2, <4>3
        <3>4. Total(lots) \in Nat
            BY <2>3, TotalOfLots
        <3>5. Moved(y) = 0 - rq[r].order.quantity
            BY <1>4, <2>2 DEF Moved
        <3>. QED BY <1>1, <1>4, <3>3, <3>4, <3>5
    <2>8. SerialSession(y, lots)
        BY <2>2, <2>3, <2>5, <2>7 DEF SerialSession
    <2>. QED BY <1>0, <1>4, <2>1, <2>6, <2>8, BooksGoto DEF Goto, rows
<1>. QED BY <1>2, <1>3, <1>4 DEF submit_order

\* The rollup of a request with no other in between is the total of the table
\* as its transaction is going to leave it.
LEMMA SerialRollup ==
    ASSUME BooksInv, NEW r \in Requests, rq[r].pc \in Late, ~overlapped,
           rq[r].order.side \in {"BUY", "SELL"}, rq[r].order.quantity \in Nat
    PROVE  /\ Rollup(r) = Total(lots) + Moved(rq[r])
           /\ \A l \in DOMAIN lots : InTable(r, l) = InSession(r, l) /\ InTable(r, l) \in Nat
           /\ rq[r].order.side = "SELL" =>
                Total([l \in DOMAIN lots |-> InTable(r, l)]) = Total(lots) + Moved(rq[r])
<1>0. lots \in Seq(Nat) /\ SessionInv(rq[r], lots) /\ SerialSession(rq[r], lots)
    BY DEF BooksInv
<1>1. PICK n \in Nat : DOMAIN lots = 1..n /\ \A l \in 1..n : lots[l] \in Nat
    BY <1>0
<1>2. PICK f : f = [l \in DOMAIN lots |-> InTable(r, l)]
    OBVIOUS
<1>3. \A l \in 1..n : f[l] = InTable(r, l) /\ InTable(r, l) = InSession(r, l) /\ f[l] \in Nat
    <2>. SUFFICES ASSUME NEW l \in 1..n
                  PROVE  f[l] = InTable(r, l) /\ InTable(r, l) = InSession(r, l) /\ f[l] \in Nat
        OBVIOUS
    <2>1. f[l] = InTable(r, l)
        BY <1>1, <1>2
    <2>2. CASE rq[r].order.side = "BUY"
        <3>1. l \notin DOMAIN rq[r].mine /\ l \notin rq[r].taken
            BY <1>0, <2>2 DEF SessionInv
        <3>. QED BY <1>1, <2>1, <3>1 DEF InTable, InSession
    <2>3. CASE rq[r].order.side = "SELL"
        <3>1. /\ l \in DOMAIN rq[r].mine /\ rq[r].mine[l] \in Nat
              /\ l \notin rq[r].taken => rq[r].mine[l] = lots[l]
            BY <1>0, <1>1, <2>3 DEF SessionInv, SerialSession
        <3>. QED BY <1>1, <2>1, <3>1 DEF InTable, InSession
    <2>. QED BY <2>2, <2>3
<1>4. DOMAIN f = 1..n
    BY <1>1, <1>2
<1>5. Total(lots) \in Nat /\ Total(f) \in Nat
    BY <1>1, <1>3, <1>4, TotalOfLots
<1>6. rq[r].order.side = "BUY" => Total(f) = Total(lots)
    <2>. SUFFICES ASSUME rq[r].order.side = "BUY" PROVE Total(f) = Total(lots)
        OBVIOUS
    <2>1. ASSUME NEW l \in 1..n PROVE f[l] = lots[l]
        <3>1. l \notin rq[r].taken
            BY <1>0 DEF SessionInv
        <3>. QED BY <1>3, <3>1 DEF InTable
    <2>. QED BY <1>1, <1>4, <2>1, TotalOfLots
<1>7. rq[r].order.side = "SELL" => Total(f) = Total(lots) + Moved(rq[r])
    <2>. SUFFICES ASSUME rq[r].order.side = "SELL" PROVE Total(f) = Total(lots) + Moved(rq[r])
        OBVIOUS
    <2>1. /\ DOMAIN rq[r].mine = 1..n /\ Total(rq[r].mine) = Total(lots) + Moved(rq[r])
          /\ \A l \in 1..n : rq[r].mine[l] \in Nat
        BY <1>0, <1>1 DEF SessionInv, SerialSession
    <2>2. ASSUME NEW l \in 1..n PROVE f[l] = rq[r].mine[l]
        BY <1>1, <1>3, <2>1 DEF InSession
    <2>. QED BY <1>4, <2>1, <2>2, TotalOfLots
<1>8. Total([l \in {k \in DOMAIN lots : InTable(r, k) > 0} |-> InSession(r, l)]) = Total(f)
    <2>1. PICK g : g = [l \in {k \in DOMAIN lots : InTable(r, k) > 0} |-> InSession(r, l)]
        OBVIOUS
    <2>2. DOMAIN g = {l \in 1..n : f[l] > 0} /\ \A l \in DOMAIN g : g[l] = f[l]
        BY <1>1, <1>3, <2>1
    <2>3. Total(g) = Total(f)
        BY <1>3, <1>4, <2>2, TotalOfOpen
    <2>. QED BY <2>1, <2>3
<1>9. Rollup(r) = Total(lots) + Moved(rq[r])
    BY <1>5, <1>6, <1>7, <1>8 DEF Rollup, Moved
<1>. QED BY <1>1, <1>2, <1>3, <1>7, <1>9

LEMMA BooksCommit ==
    ASSUME TradeInv, BooksInv, NEW r \in Requests, Commit(r)
    PROVE  BooksInv'
<1>0. /\ OrderInv(rq[r]) /\ rq[r].pc = "commit" /\ DOMAIN rq = Requests
      /\ overlapped \in BOOLEAN /\ SerialInv
    BY DEF TradeInv, TradeShape, Commit
<1>1. /\ rq[r].order.side \in {"BUY", "SELL"} /\ rq[r].order.quantity \in Nat
      /\ rq[r].pc \in Late /\ rq[r].pc \notin {"sell", "rollup"} /\ r \in InFlight
    BY <1>0, TradingAssumption DEF OrderInv, UnderWay, Asked, Late, InFlight
<1>2. /\ lots \in Seq(Nat) /\ ledger.shares \in Int /\ SessionInv(rq[r], lots)
      /\ lots' = Booked(r) /\ position' = rq[r].rollup /\ ledger' = Recorded(r)
      /\ overlapped' = overlapped
      /\ rq'[r] = AfterOrder(r, {rq[r].order.proposal})
      /\ \A s \in Requests : s # r => rq'[s] = rq[s]
    BY <1>0 DEF BooksInv, Commit
<1>3. PICK n \in Nat : n = Len(lots) /\ DOMAIN lots = 1..n /\ \A l \in 1..n : lots[l] \in Nat
    BY <1>2
<1>4. PICK kept : kept = [l \in DOMAIN lots |-> InTable(r, l)]
    OBVIOUS
<1>5. kept \in Seq(Nat) /\ DOMAIN kept = 1..n
    <2>1. ASSUME NEW l \in 1..n PROVE InTable(r, l) \in Nat
        BY <1>2, <1>3 DEF InTable, SessionInv
    <2>2. kept \in [1..n -> Nat]
        BY <1>3, <1>4, <2>1
    <2>. QED BY <2>2
<1>6. /\ rq[r].order.side = "BUY" => lots' = Append(kept, rq[r].order.quantity)
      /\ rq[r].order.side = "SELL" => lots' = kept
    BY <1>2, <1>4 DEF Booked
<1>7. lots' \in Seq(Nat) /\ DOMAIN lots \subseteq DOMAIN lots'
    <2>1. CASE rq[r].order.side = "BUY"
        <3>1. PICK table : table = Append(kept, rq[r].order.quantity)
            OBVIOUS
        <3>2. table \in Seq(Nat) /\ DOMAIN table = 1..Len(kept) + 1 /\ Len(kept) \in Nat
              /\ DOMAIN kept = 1..Len(kept)
            BY <1>1, <1>5, <3>1
        <3>3. DOMAIN kept \subseteq DOMAIN table
            BY <3>2
        <3>. QED BY <1>3, <1>5, <1>6, <2>1, <3>1, <3>2, <3>3
    <2>2. CASE rq[r].order.side = "SELL"
        BY <1>3, <1>5, <1>6, <2>2
    <2>. QED BY <1>1, <2>1, <2>2
<1>8. ledger'.shares = ledger.shares + Moved(rq[r])
    BY <1>1, <1>2 DEF Recorded, Moved
<1>9. Moved(rq[r]) \in Int
    BY <1>1 DEF Moved
<1>10. \A s \in Requests : SessionInv(rq'[s], lots')
    <2>. SUFFICES ASSUME NEW s \in Requests PROVE SessionInv(rq'[s], lots')
        OBVIOUS
    <2>1. CASE s = r
        BY <1>2, <2>1, AfterOrderBooks
    <2>2. CASE s # r
        <3>1. SessionInv(rq[s], lots) /\ rq'[s] = rq[s]
            BY <1>2, <2>2 DEF BooksInv
        <3>. QED BY <1>7, <3>1 DEF SessionInv
    <2>. QED BY <2>1, <2>2
<1>11. ASSUME ~overlapped
       PROVE  /\ Total(lots') = InitShares + ledger'.shares /\ position' = Total(lots')
              /\ \A s \in Requests : SerialSession(rq'[s], lots')
    <2>1. /\ Total(lots) = InitShares + ledger.shares /\ SerialSession(rq[r], lots)
          /\ \A s \in Requests : s # r => rq'[s].pc \notin Late
        <3>1. \A s \in Requests : s # r => s \notin InFlight
            BY <1>0, <1>1, <1>11 DEF SerialInv
        <3>. QED BY <1>2, <1>11, <3>1 DEF BooksInv, InFlight, Late
    <2>2. Total(lots) \in Nat /\ InitShares \in Nat
        BY <1>3, TotalOfLots, TradingAssumption
    <2>3. Total(lots') = Total(lots) + Moved(rq[r])
        <3>1. CASE rq[r].order.side = "BUY"
            <4>1. ASSUME NEW l \in 1..n PROVE kept[l] = lots[l]
                <5>1. l \notin rq[r].taken
                    BY <1>2, <3>1 DEF SessionInv
                <5>. QED BY <1>3, <1>4, <5>1 DEF InTable
            <4>2. Total(kept) = Total(lots)
                BY <1>3, <1>5, <4>1, TotalOfLots
            <4>3. Total(lots') = Total(kept) + rq[r].order.quantity
                BY <1>1, <1>5, <1>6, <3>1, TotalOfAppend
            <4>. QED BY <3>1, <4>2, <4>3 DEF Moved
        <3>2. CASE rq[r].order.side = "SELL"
            <4>1. Total(kept) = Total(lots) + Moved(rq[r])
                BY <1>1, <1>4, <1>11, <3>2, SerialRollup
            <4>. QED BY <1>6, <3>2, <4>1
        <3>. QED BY <1>1, <3>1, <3>2
    <2>4. Total(lots') = InitShares + ledger'.shares
        BY <1>2, <1>8, <1>9, <2>1, <2>2, <2>3
    <2>5. position' = Total(lots')
        BY <1>1, <1>2, <2>1, <2>3 DEF SerialSession
    <2>6. \A s \in Requests : SerialSession(rq'[s], lots')
        <3>. SUFFICES ASSUME NEW s \in Requests PROVE SerialSession(rq'[s], lots')
            OBVIOUS
        <3>1. CASE s = r
            BY <1>2, <3>1, AfterOrderBooks
        <3>2. CASE s # r
            BY <2>1, <3>2 DEF SerialSession
        <3>. QED BY <3>1, <3>2
    <2>. QED BY <2>4, <2>5, <2>6
<1>12. ledger'.shares \in Int
    BY <1>2, <1>8, <1>9
<1>. QED BY <1>2, <1>7, <1>10, <1>11, <1>12 DEF BooksInv

LEMMA BooksStep ==
    ASSUME TradeInv, BooksInv, [Next]_vars
    PROVE  BooksInv'
<1>1. ASSUME NEW r \in Requests, place_order(r) \/ execute_plan(r) PROVE BooksInv'
    BY <1>1, BooksStart
<1>2. ASSUME NEW r \in Requests, Step(r) PROVE BooksInv'
    <2>0. OrderInv(rq[r]) /\ DOMAIN rq[r] = Fields
        BY DEF TradeInv, TradeShape, OrderInv
    <2>1. CASE NextProposal(r)
        <3>1. PICK p : p = Min(rq[r].todo)
            OBVIOUS
        <3>2. PICK y : y = [rq[r] EXCEPT !.pc = "load", !.todo = @ \ {p},
                                         !.order = [side |-> SideOf[p], quantity |-> QuantityOf[p],
                                                    proposal |-> p]]
            OBVIOUS
        <3>3. /\ y.pc \notin Late /\ rq[r].pc \notin Late
              /\ y.mine = rq[r].mine /\ y.taken = rq[r].taken /\ y.rollup = rq[r].rollup
            BY <2>0, <2>1, <3>2 DEF NextProposal, Late, Fields
        <3>4. Goto(r, y)
            BY <2>1, <3>1, <3>2 DEF NextProposal
        <3>. QED BY <3>3, <3>4, BooksKept
    <2>2. CASE LoadAccount(r)
        <3>1. PICK y : y = [rq[r] EXCEPT !.pc = "check", !.loaded = account]
            OBVIOUS
        <3>2. /\ y.pc \notin Late /\ rq[r].pc \notin Late
              /\ y.mine = rq[r].mine /\ y.taken = rq[r].taken /\ y.rollup = rq[r].rollup
            BY <2>0, <2>2, <3>1 DEF LoadAccount, Late, Fields
        <3>. QED BY <2>2, <3>1, <3>2, BooksKept DEF LoadAccount
    <2>3. CASE create_order(r)
        <3>1. ASSUME NEW y, Goto(r, y), y.pc \notin Late,
                     y.mine = rq[r].mine, y.taken = rq[r].taken, y.rollup = rq[r].rollup
              PROVE  BooksInv'
            BY <2>3, <3>1, BooksKept DEF create_order, Late
        <3>2. CASE Goto(r, [rq[r] EXCEPT !.pc = "submit"])
            BY <2>0, <3>1, <3>2 DEF Late, Fields
        <3>3. ASSUME NEW price \in Prices,
                     Goto(r, [rq[r] EXCEPT !.pc = "reserve",
                                           !.reserved = rq[r].order.quantity * price + Headroom])
              PROVE  BooksInv'
            BY <2>0, <3>1, <3>3 DEF Late, Fields
        <3>. QED BY <2>3, <3>2, <3>3, BooksRollBack DEF create_order
    <2>4. CASE Reserve(r)
        <3>1. PICK y : y = [[rq[r] EXCEPT !.pc = "submit",
                                          !.hold = rq[r].loaded.hold + rq[r].reserved]
                                EXCEPT !.held = @ \cup Wants(r)]
            OBVIOUS
        <3>2. /\ y.pc \notin Late /\ rq[r].pc \notin Late
              /\ y.mine = rq[r].mine /\ y.taken = rq[r].taken /\ y.rollup = rq[r].rollup
            BY <2>0, <2>4, <3>1 DEF Reserve, Late, Fields
        <3>. QED BY <2>4, <3>1, <3>2, BooksKept DEF Reserve, Locked
    <2>5. CASE submit_order(r)
        BY <2>5, BooksSubmit
    <2>6. ASSUME NEW pc \in {"rollup", "settle", "delete", "commit"},
                 Locked(r, [rq[r] EXCEPT !.pc = pc]),
                 \/ rq[r].pc = "sell" /\ pc = "rollup"
                 \/ rq[r].pc \in {"position", "settle", "delete"}
          PROVE  BooksInv'
        <3>1. PICK y : y = [[rq[r] EXCEPT !.pc = pc] EXCEPT !.held = @ \cup Wants(r)]
            OBVIOUS
        <3>2. /\ y.pc = pc /\ y.order = rq[r].order
              /\ y.mine = rq[r].mine /\ y.taken = rq[r].taken /\ y.rollup = rq[r].rollup
            BY <2>0, <3>1 DEF Fields
        <3>3. Goto(r, y)
            BY <2>6, <3>1 DEF Locked
        <3>. QED BY <2>6, <3>2, <3>3, BooksKept DEF Late
    <2>7. CASE record_sale(r)
        BY <2>6, <2>7 DEF record_sale
    <2>8. CASE RebuildRead(r)
        <3>1. PICK y : y = [rq[r] EXCEPT !.pc = IF Rollup(r) = 0 THEN "settle" ELSE "position",
                                         !.rollup = Rollup(r), !.hadRow = position # 0]
            OBVIOUS
        <3>2. /\ y.pc \in {"settle", "position"} /\ y.order = rq[r].order
              /\ y.mine = rq[r].mine /\ y.taken = rq[r].taken /\ y.rollup = Rollup(r)
            BY <2>0, <3>1 DEF Fields
        <3>3. Goto(r, y) /\ rq[r].pc = "rollup"
            BY <2>8, <3>1 DEF RebuildRead
        <3>4. SessionInv(rq[r], lots) /\ (~overlapped => SerialSession(rq[r], lots))
            BY DEF BooksInv
        <3>5. SessionInv(y, lots)
            BY <3>2, <3>3, <3>4 DEF SessionInv, Late
        <3>6. ~overlapped => SerialSession(y, lots)
            <4>. SUFFICES ASSUME ~overlapped PROVE SerialSession(y, lots)
                OBVIOUS
            <4>1. /\ rq[r].pc \in Late /\ rq[r].order.side \in {"BUY", "SELL"}
                  /\ rq[r].order.quantity \in Nat
                BY <2>0, <3>3, TradingAssumption DEF OrderInv, UnderWay, Asked, Late
            <4>2. Rollup(r) = Total(lots) + Moved(rq[r])
                BY <4>1, SerialRollup
            <4>. QED BY <3>2, <3>3, <3>4, <4>1, <4>2 DEF SerialSession, Moved
        <3>. QED BY <3>3, <3>5, <3>6, BooksGoto DEF Goto, rows
    <2>9. CASE RebuildWrite(r)
        BY <2>6, <2>9, BooksRollBack DEF RebuildWrite
    <2>10. CASE Settle(r)
        BY <2>6, <2>10 DEF Settle
    <2>11. CASE RebuildDelete(r)
        BY <2>6, <2>11 DEF RebuildDelete
    <2>12. CASE Commit(r)
        BY <2>12, BooksCommit
    <2>13. CASE MarkExecuted(r)
        <3>1. /\ rq' = [rq EXCEPT ![r] = Idle] /\ UNCHANGED <<lots, position, ledger, overlapped>>
            BY <2>13 DEF MarkExecuted
        <3>. QED BY <3>1, AfterOrderBooks, BooksGoto
    <2>14. CASE DeadlockVictim(r)
        BY <2>14, BooksRollBack DEF DeadlockVictim
    <2>. QED BY <1>2, <2>1, <2>2, <2>3, <2>4, <2>5, <2>7, <2>8, <2>9, <2>10, <2>11, <2>12, <2>13,
                <2>14 DEF Step
<1>3. CASE Crash
    <2>1. /\ rq' = [r \in Requests |-> Idle] /\ UNCHANGED <<lots, position, ledger, overlapped>>
        BY <1>3 DEF Crash, rows
    <2>2. \A r \in Requests : SessionInv(rq'[r], lots) /\ SerialSession(rq'[r], lots)
        BY <2>1, AfterOrderBooks
    <2>. QED BY <2>1, <2>2 DEF BooksInv
<1>4. CASE UNCHANGED vars
    BY <1>4 DEF vars, rows, BooksInv
<1>. QED BY <1>1, <1>2, <1>3, <1>4 DEF Next

-----------------------------------------------------------------------------
(* Overdrafts.                                                              *)

\* The largest order, and how far below zero it may take the account.
Largest == Max(Asked)
Drift == Largest * (Max(Prices) - Min(Prices))

\* No order ever saw, and none leaves, less than that.
FloorInv ==
    /\ account.cash >= 0 - (Fee + Drift)
    /\ \A r \in Requests : rq[r].loaded.cash >= 0 - (Fee + Drift)

LEMMA Bounds ==
    /\ Fee \in Nat /\ Drift \in Nat
    /\ \A q \in Asked, p1, p2 \in Prices :
        /\ q \in Nat \ {0} /\ p1 \in Nat \ {0} /\ p2 \in Nat \ {0}
        /\ q * p1 \in Nat /\ q * p2 \in Nat /\ q * p2 - q * p1 <= Drift
<1>1. Asked \in SUBSET (Nat \ {0}) /\ Prices \in SUBSET (Nat \ {0}) /\ Asked # {} /\ Prices # {}
    BY TradingAssumption DEF Asked
<1>2. IsFiniteSet(Asked) /\ IsFiniteSet(Prices)
    <2>1. IsFiniteSet({QuantityOf[p] : p \in Proposals})
        <3>1. QuantityOf \in Surjection(Proposals, {QuantityOf[p] : p \in Proposals})
            BY TradingAssumption DEF Surjection
        <3>. QED BY <3>1, TradingAssumption, FS_Surjection
    <2>. QED BY <2>1, TradingAssumption, FS_Union DEF Asked
<1>3. /\ Largest \in Nat /\ \A q \in Asked : q <= Largest
      /\ Max(Prices) \in Nat /\ \A p \in Prices : p <= Max(Prices)
      /\ Min(Prices) \in Prices /\ Min(Prices) \in Nat /\ \A p \in Prices : Min(Prices) <= p
    BY <1>1, <1>2, MaxExists, MinExists DEF Largest
<1>4. Max(Prices) - Min(Prices) \in Nat
    BY <1>3
<1>5. Fee \in Nat /\ Drift \in Nat
    BY <1>3, <1>4, TradingAssumption DEF Drift
<1>6. ASSUME NEW q \in Asked, NEW p1 \in Prices, NEW p2 \in Prices
      PROVE  /\ q \in Nat \ {0} /\ p1 \in Nat \ {0} /\ p2 \in Nat \ {0}
             /\ q * p1 \in Nat /\ q * p2 \in Nat /\ q * p2 - q * p1 <= Drift
    <2>1. q \in Nat \ {0} /\ p1 \in Nat \ {0} /\ p2 \in Nat \ {0}
        BY <1>1
    <2>2. q * p1 \in Nat /\ q * p2 \in Nat
        BY <2>1
    <2>3. CASE p2 <= p1
        <3>1. q * p2 <= q * p1
            BY <2>1, <2>3, ProductsOrdered
        <3>. QED BY <1>5, <2>1, <2>2, <3>1
    <2>4. CASE p1 <= p2
        <3>1. p2 - p1 \in Nat /\ p2 - p1 <= Max(Prices) - Min(Prices) /\ q <= Largest
            BY <1>3, <2>1, <2>4
        <3>2. q * (p2 - p1) <= Drift
            BY <1>3, <1>4, <2>1, <3>1, ProductsOrdered DEF Drift
        <3>3. q * (p2 - p1) = q * p2 - q * p1
            BY <2>1
        <3>. QED BY <2>1, <2>2, <3>2, <3>3
    <2>. QED BY <2>1, <2>2, <2>3, <2>4
<1>. QED BY <1>5, <1>6

\* What a request has loaded is what it had, or the account, or nothing.
LEMMA LoadedFrom ==
    ASSUME TradeInv, [Next]_vars, NEW r \in Requests
    PROVE  rq'[r].loaded \in {rq[r].loaded, account, Idle.loaded}
<1>0. DOMAIN rq = Requests /\ \A s \in Requests : DOMAIN rq[s] = Fields
    BY DEF TradeInv, TradeShape, OrderInv
<1>1. ASSUME NEW s \in Requests, NEW y, rq' = [rq EXCEPT ![s] = y],
             y.loaded \in {rq[s].loaded, account, Idle.loaded}
      PROVE  rq'[r].loaded \in {rq[r].loaded, account, Idle.loaded}
    BY <1>0, <1>1
<1>2. ASSUME NEW s \in Requests, NEW e
      PROVE  AfterOrder(s, e).loaded = Idle.loaded
    BY DEF AfterOrder, Idle
<1>3. ASSUME NEW s \in Requests, RollBack(s)
      PROVE  rq'[r].loaded \in {rq[r].loaded, account, Idle.loaded}
    BY <1>1, <1>2, <1>3 DEF RollBack, Goto
<1>4. ASSUME NEW s \in Requests, place_order(s) \/ execute_plan(s)
      PROVE  rq'[r].loaded \in {rq[r].loaded, account, Idle.loaded}
    <2>1. CASE place_order(s)
        <3>1. PICK side \in {"BUY", "SELL"}, quantity \in Quantities :
                rq' = [rq EXCEPT ![s] = [Idle EXCEPT !.pc = "load",
                            !.order = [NoOrder EXCEPT !.side = side, !.quantity = quantity]]]
            BY <2>1 DEF place_order, Start
        <3>2. [Idle EXCEPT !.pc = "load", !.order = [NoOrder EXCEPT !.side = side,
                            !.quantity = quantity]].loaded = Idle.loaded
            BY DEF Idle
        <3>. QED BY <1>1, <3>1, <3>2
    <2>2. CASE execute_plan(s)
        <3>1. rq' = [rq EXCEPT ![s] = [Idle EXCEPT !.pc = "next", !.plan = TRUE, !.todo = Executable]]
            BY <2>2 DEF execute_plan, Start
        <3>2. [Idle EXCEPT !.pc = "next", !.plan = TRUE, !.todo = Executable].loaded = Idle.loaded
            BY DEF Idle
        <3>. QED BY <1>1, <3>1, <3>2
    <2>. QED BY <1>4, <2>1, <2>2
<1>5. ASSUME NEW s \in Requests, Step(s)
      PROVE  rq'[r].loaded \in {rq[r].loaded, account, Idle.loaded}
    <2>0. DOMAIN rq[s] = Fields
        BY <1>0
    <2>1. CASE NextProposal(s)
        BY <1>1, <2>0, <2>1 DEF NextProposal, Goto, Fields
    <2>2. CASE LoadAccount(s)
        BY <1>1, <2>0, <2>2 DEF LoadAccount, Goto, Fields
    <2>3. CASE create_order(s)
        BY <1>1, <1>3, <2>0, <2>3 DEF create_order, Goto, Fields
    <2>4. CASE Reserve(s)
        BY <1>1, <2>0, <2>4 DEF Reserve, Locked, Goto, Fields
    <2>5. CASE submit_order(s)
        BY <1>1, <1>3, <2>0, <2>5 DEF submit_order, Goto, Fields
    <2>6. CASE record_sale(s) \/ Settle(s) \/ RebuildDelete(s)
        BY <1>1, <2>0, <2>6 DEF record_sale, Settle, RebuildDelete, Locked, Goto, Fields
    <2>7. CASE RebuildRead(s)
        BY <1>1, <2>0, <2>7 DEF RebuildRead, Goto, Fields
    <2>8. CASE RebuildWrite(s)
        BY <1>1, <1>3, <2>0, <2>8 DEF RebuildWrite, Locked, Goto, Fields
    <2>9. CASE Commit(s)
        BY <1>1, <1>2, <2>9 DEF Commit
    <2>10. CASE MarkExecuted(s)
        BY <1>1, <2>10 DEF MarkExecuted
    <2>11. CASE DeadlockVictim(s)
        BY <1>3, <2>11 DEF DeadlockVictim
    <2>. QED BY <1>5, <2>1, <2>2, <2>3, <2>4, <2>5, <2>6, <2>7, <2>8, <2>9, <2>10, <2>11 DEF Step
<1>6. CASE Crash
    BY <1>6 DEF Crash
<1>7. CASE UNCHANGED vars
    BY <1>7 DEF vars
<1>. QED BY <1>4, <1>5, <1>6, <1>7 DEF Next

\* A fill: the order was affordable at the price it was checked against, and a
\* sale brings in at least its fee.
LEMMA FloorKept ==
    ASSUME TradeInv, FloorInv, [Next]_vars, \A p \in Prices : Fee <= p
    PROVE  FloorInv'
<1>0. Fee + Drift \in Nat /\ Idle.loaded.cash = 0 /\ account.cash \in Int
    BY Bounds DEF Idle, TradeInv, TradeShape
<1>1. ASSUME NEW r \in Requests, Commit(r) PROVE account'.cash >= 0 - (Fee + Drift)
    <2>0. /\ OrderInv(rq[r]) /\ rq[r].pc = "commit"
          /\ rq[r].loaded.cash >= 0 - (Fee + Drift) /\ account \in [cash : Int, hold : {0}]
        BY <1>1 DEF TradeInv, TradeShape, Commit, FloorInv
    <2>1. /\ rq[r].order.quantity \in Asked /\ rq[r].order.side \in {"BUY", "SELL"}
          /\ rq[r].price \in Prices /\ rq[r].loaded.cash \in Int
        BY <2>0 DEF OrderInv, UnderWay
    <2>2. PICK gross \in Nat : gross = rq[r].order.quantity * rq[r].price
        BY <2>1, Bounds
    <2>3. CASE rq[r].order.side = "BUY"
        <3>1. account'.cash = rq[r].loaded.cash - (gross + Fee)
            BY <1>1, <2>2, <2>3 DEF Commit, Settled, net_amount
        <3>2. PICK price \in Prices : rq[r].order.quantity * price <= rq[r].loaded.cash
            BY <2>0, <2>3 DEF OrderInv, Buying, Loaded
        <3>3. /\ rq[r].order.quantity * price \in Nat
              /\ gross - rq[r].order.quantity * price <= Drift
            BY <2>1, <2>2, Bounds
        <3>. QED BY <2>1, <3>1, <3>2, <3>3, Bounds
    <2>4. CASE rq[r].order.side = "SELL"
        <3>1. account'.cash = rq[r].loaded.cash + (gross - Fee)
            BY <1>1, <2>0, <2>2, <2>4 DEF Commit, Settled, net_amount
        <3>2. rq[r].order.quantity \in Nat \ {0} /\ rq[r].price \in Nat /\ Fee <= rq[r].price
            BY <2>1, Bounds
        <3>3. 1 * rq[r].price <= gross
            BY <2>2, <3>2, ProductsOrdered
        <3>. QED BY <2>0, <2>1, <3>1, <3>2, <3>3, Bounds
    <2>. QED BY <2>1, <2>3, <2>4
<1>2. account' = account \/ \E r \in Requests : Commit(r)
    BY DEF Next, Step, vars, rows, place_order, execute_plan, Start, Goto, NextProposal, LoadAccount,
           create_order, Reserve, submit_order, record_sale, RebuildRead, RebuildWrite, Settle,
           RebuildDelete, MarkExecuted, DeadlockVictim, RollBack, Locked, Crash
<1>3. account'.cash >= 0 - (Fee + Drift)
    BY <1>1, <1>2 DEF FloorInv
<1>4. ASSUME NEW r \in Requests PROVE rq'[r].loaded.cash >= 0 - (Fee + Drift)
    <2>1. rq'[r].loaded \in {rq[r].loaded, account, Idle.loaded}
        BY LoadedFrom
    <2>. QED BY <1>0, <2>1 DEF FloorInv
<1>. QED BY <1>3, <1>4 DEF FloorInv

-----------------------------------------------------------------------------
(* What it shows.                                                           *)

\* create_order, _release_reservation: however requests overlap, fail and
\* crash, no committed reservation outlives its order.
THEOREM HoldsAreReleased == Spec => []NoStrandedHold
<1>1. TradeInv => NoStrandedHold
    BY DEF TradeInv, TradeShape, NoStrandedHold
<1>. QED BY <1>1, TradeInvariant, PTL

\* submit_order, record_sale, _rebuild_position: as long as requests come one
\* after another, cash and lots of an account are what it opened with and every
\* execution, and the rollup is the sum of the lots, whatever failed or crashed
\* in between.
THEOREM BooksAreKept == Spec => []SerialBooks
<1>1. Init => BooksInv
    BY BooksInit
<1>2. TradeInv /\ BooksInv /\ [Next]_vars => BooksInv'
    BY BooksStep
<1>3. TradeInv /\ BooksInv => SerialBooks
    BY DEF TradeInv, SerialInv, BooksInv, SerialBooks, SerialCashBalances, SerialSharesBalance,
           SerialPositionMatches
<1>. QED BY <1>1, <1>2, <1>3, TradeInvariant, PTL DEF Spec

\* execute_plan: a proposal on record as executed was executed, and without
\* overlap and crash no proposal is executed twice.
THEOREM PlansRunOnce == Spec => []PlanRunsOnce
<1>1. TradeInv => PlanRunsOnce
    BY DEF TradeInv, ExecutedInv, OnceInv, PlanRunsOnce
<1>. QED BY <1>1, TradeInvariant, PTL

\* create_order, submit_order: however requests overlap, no account is
\* overdrawn by more than the fee of an order and the drift of its price
\* between the two quotes, if a share sells for no less than the fee.
THEOREM OverdraftsAreBounded ==
    ASSUME \A p \in Prices : Fee <= p
    PROVE  Spec => []OverdraftBounded
<1>1. Init => FloorInv
    <2>1. InitCash \in Nat /\ Fee + Drift \in Nat
        BY Bounds, TradingAssumption
    <2>. QED BY <2>1 DEF Init, FloorInv, Idle
<1>2. TradeInv /\ FloorInv /\ [Next]_vars => FloorInv'
    BY FloorKept
<1>3. FloorInv => OverdraftBounded
    BY DEF FloorInv, OverdraftBounded, Drift, Largest, Asked
<1>. QED BY <1>1, <1>2, <1>3, TradeInvariant, PTL DEF Spec
=============================================================================
