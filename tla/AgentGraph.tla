----------------------------- MODULE AgentGraph -----------------------------
(***************************************************************************)
(* One analysis as the LangGraph workflow of orchestrator.py executes it:  *)
(* diagnostics and market regime side by side, research, the suitability   *)
(* and tax guardrails side by side, the gate that reconciles them and      *)
(* routes back to research, the trade plan, the approval gate and the      *)
(* report.                                                                 *)
(*                                                                         *)
(* No node ends the run: node_run turns an exception into a degradation,   *)
(* and each node states what it yields when it raised.  Every node that    *)
(* needs the client's policy resolves it again, and an officer may         *)
(* activate another version at any time.  What a screen or a model picks   *)
(* is a free choice among what the code lets through; amounts are left     *)
(* out, apart from whether a plan moves more than LARGE_TRADE_FRACTION.    *)
(* st and todo are what the checkpoint store keeps.                        *)
(***************************************************************************)
EXTENDS Naturals, FiniteSets

CONSTANTS
    Tickers,                \* the instruments the client does not hold yet
    ClassOf,                \* the asset class of each
    WashSale,               \* those sold at a loss inside the wash-sale window
    Prohibited,             \* per policy version, the instruments it rules out
    MaxVersion,             \* bound on policy versions
    MAX_RESEARCH_ATTEMPTS

ASSUME GraphAssumption ==
    /\ WashSale \subseteq Tickers
    /\ MaxVersion \in Nat \ {0}
    /\ Prohibited \in [1..MaxVersion -> SUBSET Tickers]
    /\ MAX_RESEARCH_ATTEMPTS \in Nat

VARIABLES
    st,         \* the AgentState of the run
    todo,       \* nodes of the current superstep that have not finished
    paused,     \* the approval gate has interrupted the run
    active,     \* the version of the client's policy in force
    withheld,   \* what the tax guardrail has withheld in any pass (history)
    refused     \* what suitability has refused in any pass (history)

graphVars == <<st, todo, paused, active, withheld, refused>>

Nodes == {"diagnostics", "market_regime", "stock_research", "suitability",
          "tax_awareness", "guardrail_gate", "rebalance", "approval_gate",
          "finance_report"}

NoPlan == [buys |-> {}, sells |-> FALSE, large |-> FALSE]

AgentState ==
    [ policy      : 1..MaxVersion,      \* the version snapshotted at the start
      priced      : BOOLEAN,            \* diagnostics give a total value
      confident   : BOOLEAN,            \* regime confidence over the threshold
      candidates  : SUBSET Tickers,
      recommended : SUBSET Tickers,     \* adjusted_recommendations
      rejected    : SUBSET Tickers,     \* tickers named by suitability violations
      flags       : SUBSET Tickers,     \* wash_sale_flags
      unverified  : BOOLEAN,            \* verification_failed
      excluded    : SUBSET Tickers,
      blocked     : SUBSET Tickers,     \* tax_blocked_recommendations
      attempts    : 0..MAX_RESEARCH_ATTEMPTS,
      plan        : [buys : SUBSET Tickers, sells : BOOLEAN, large : BOOLEAN],
      degraded    : SUBSET Nodes,       \* the nodes in degradations
      human       : {"undecided", "automatic", "approved", "rejected"},
      versions    : SUBSET (1..MaxVersion),   \* policy versions nodes worked from
      trail       : SUBSET (Nodes \X (0..MAX_RESEARCH_ATTEMPTS)) ]

load_client_state ==
    [ policy |-> active, priced |-> FALSE, confident |-> FALSE, candidates |-> {},
      recommended |-> {}, rejected |-> {}, flags |-> {}, unverified |-> FALSE,
      excluded |-> {}, blocked |-> {}, attempts |-> 0, plan |-> NoPlan,
      degraded |-> {}, human |-> "undecided", versions |-> {},
      trail |-> {} ]

GraphInit ==
    /\ active = 1
    /\ st = load_client_state
    /\ todo = {"diagnostics", "market_regime"}
    /\ paused = FALSE
    /\ withheld = {}
    /\ refused = {}

-----------------------------------------------------------------------------
\* degradations tells apart none, one node and several; several is Nodes.
Degraded(D, n) == IF D \subseteq {n} THEN {n} ELSE Nodes

(* node_run and finish: the node adds its audit record and, if it fell     *)
(* back or raised, a degradation; the next superstep starts when the last  *)
(* node of this one is done.                                               *)
finish(n, s, degraded, next) ==
    /\ n \in todo
    /\ st' = [s EXCEPT !.trail = @ \cup {<<n, st.attempts>>},
                       !.degraded = IF degraded THEN Degraded(@, n) ELSE @]
    /\ todo' = IF todo = {n} THEN next ELSE todo \ {n}
    /\ UNCHANGED <<paused, active, withheld, refused>>

\* The state in which a node has resolved the client's policy for itself.
PolicyResolved == [st EXCEPT !.versions = @ \cup {active}]

\* Without a priced portfolio, or if the node raised, there is no total value.
diagnostics_node ==
    \E priced, degraded \in BOOLEAN :
        /\ priced \/ degraded
        /\ finish("diagnostics", [PolicyResolved EXCEPT !.priced = priced], degraded,
                  {"stock_research"})

market_regime_node ==
    \E confident, degraded \in BOOLEAN :
        finish("market_regime", [st EXCEPT !.confident = confident], degraded,
               {"stock_research"})

\* Mutant: a screen without the exclusions of earlier passes.
Screened_Forgetful(version) == Tickers \ Prohibited[version]

\* What a screen lets through: neither the policy's exclusions nor the run's.
Screened(version) == Tickers \ (Prohibited[version] \cup st.excluded)

\* Picks of the model, or of the screen alone if the model is not to be had;
\* none if the screen is empty or the node raised.
stock_research_node ==
    \E picks \in SUBSET Screened(active), degraded \in BOOLEAN :
        /\ picks = {} => degraded
        /\ finish("stock_research", [PolicyResolved EXCEPT !.candidates = picks], degraded,
                  {"suitability", "tax_awareness"})

\* Policy, quality, risk and size checks.  Only tickers the policy rules out
\* are certain to fail.  If the node raised, nothing is recommended and the
\* violation names no ticker.
suitability_node ==
    \/ \E bad \in SUBSET st.candidates :
           /\ st.candidates \cap Prohibited[active] \subseteq bad
           /\ finish("suitability",
                     [PolicyResolved EXCEPT !.recommended = st.candidates \ bad,
                                            !.rejected = bad],
                     FALSE, {"guardrail_gate"})
    \/ finish("suitability", [st EXCEPT !.recommended = {}, !.rejected = {}],
              TRUE, {"guardrail_gate"})

\* The wash-sale flags of the candidates.  If the node raised, nothing is
\* verified.
TaxChecked == [PolicyResolved EXCEPT !.flags = st.candidates \cap WashSale,
                                     !.unverified = FALSE]

\* Mutant: a check that raised reports no flags, as a clean one does.
TaxUnchecked_FailOpen == [st EXCEPT !.flags = {}, !.unverified = FALSE]

TaxUnchecked == [st EXCEPT !.flags = {}, !.unverified = TRUE]

tax_awareness_node ==
    \/ finish("tax_awareness", TaxChecked, FALSE, {"guardrail_gate"})
    \/ finish("tax_awareness", TaxUnchecked, TRUE, {"guardrail_gate"})

-----------------------------------------------------------------------------
\* The gate sends the run back to research.
Retry(surviving) == surviving = {} /\ st.attempts < MAX_RESEARCH_ATTEMPTS

(* The gate strips what tax forbids, or everything if tax could not say,   *)
(* remembers what was turned down, and sends the run back to research      *)
(* while nothing survives and attempts are left.                           *)
guardrail_gate_node ==
    LET blocked == IF st.unverified THEN st.recommended
                                    ELSE st.recommended \cap st.flags
        surviving == st.recommended \ blocked
        s == [st EXCEPT !.recommended = surviving,
                        !.blocked = blocked,
                        !.excluded = @ \cup blocked \cup st.rejected]
    IN  /\ "guardrail_gate" \in todo
        /\ \/ /\ ~Retry(surviving)
              /\ st' = s
              /\ todo' = {"rebalance"}
           \/ /\ Retry(surviving)
              /\ st' = [s EXCEPT !.attempts = @ + 1]
              /\ todo' = {"stock_research"}
        /\ withheld' = withheld \cup blocked
        /\ refused' = refused \cup st.rejected
        /\ UNCHANGED <<paused, active>>

\* An asset class is filled with the recommendations in it or, if there are
\* none, with what a screen of that class alone gives.
Purchasable(version) ==
    {t \in Tickers :
        LET ofClass == {r \in st.recommended : ClassOf[r] = ClassOf[t]}
        IN  t \in IF ofClass # {} THEN ofClass ELSE Screened(version)}

\* Trims, then purchases; some trades may be deferred, which is a degradation.
rebalance_node ==
    \/ \E buys \in SUBSET Purchasable(active), sells, large, deferred \in BOOLEAN :
           /\ large => buys # {} \/ sells
           /\ finish("rebalance",
                     [PolicyResolved EXCEPT !.plan = [buys |-> buys, sells |-> sells,
                                                      large |-> large]],
                     deferred, {"approval_gate"})
    \/ finish("rebalance", [st EXCEPT !.plan = NoPlan], TRUE, {"approval_gate"})

-----------------------------------------------------------------------------
\* _approval_reason is not None.  A tax cost comes with a sale.
NeedsPerson ==
    \/ st.unverified
    \/ st.priced /\ st.plan.large
    \/ st.plan.sells
    \/ ~st.confident
    \/ st.recommended = {}
    \/ Cardinality(st.degraded) >= 2

\* The gate's first execution: it passes the run on, or interrupts it.
approval_gate_node ==
    /\ "approval_gate" \in todo /\ ~paused
    /\ \/ /\ ~NeedsPerson
          /\ st' = [st EXCEPT !.human = "automatic"]
          /\ todo' = {"finance_report"}
          /\ UNCHANGED paused
       \/ /\ NeedsPerson
          /\ paused' = TRUE
          /\ UNCHANGED <<st, todo>>
    /\ UNCHANGED <<active, withheld, refused>>

\* Mutant: a rejected plan stays in the state.
Decided_KeepPlan(decision) == [st EXCEPT !.human = decision]

\* The state after a person's decision; a rejected plan is emptied.
Decided(decision) ==
    [st EXCEPT !.human = decision,
               !.plan = IF decision = "rejected" THEN [@ EXCEPT !.buys = {}, !.sells = FALSE]
                                                 ELSE @]

\* The gate's execution when the run is resumed with a decision.
approval_gate_resumed(decision) ==
    /\ paused
    /\ paused' = FALSE
    /\ st' = Decided(decision)
    /\ todo' = {"finance_report"}
    /\ UNCHANGED <<active, withheld, refused>>

finance_report_node ==
    \E degraded \in BOOLEAN : finish("finance_report", st, degraded, {})

\* A node of the run takes its step.
GraphStep ==
    \/ diagnostics_node \/ market_regime_node \/ stock_research_node
    \/ suitability_node \/ tax_awareness_node \/ guardrail_gate_node
    \/ rebalance_node \/ approval_gate_node \/ finance_report_node

\* An officer puts the next version of the client's policy in force.  After
\* the plan no node reads it, so later changes are left out.
ActivatePolicy ==
    /\ active < MaxVersion
    /\ todo \cap {"approval_gate", "finance_report"} = {} /\ todo # {}
    /\ active' = active + 1
    /\ UNCHANGED <<st, todo, paused, withheld, refused>>

-----------------------------------------------------------------------------
GraphTypeOK ==
    /\ st \in AgentState
    /\ todo \subseteq Nodes
    /\ paused \in BOOLEAN
    /\ active \in 1..MaxVersion
    /\ withheld \cup refused \subseteq Tickers

(* What a guardrail turned down in any pass of the run is not in the plan  *)
(* it ends with, neither through the recommendations of a later pass nor   *)
(* through the planner's own screen (guardrail_gate_node's exclusions).    *)
WithheldNeverBought == st.plan.buys \cap (withheld \cup refused) = {}

(* The gate lets no run pass on its own that sells, that no tax check      *)
(* cleared in its last pass, or that recommends what that check flagged.   *)
UnattendedIsChecked ==
    st.human = "automatic" =>
        /\ ~st.plan.sells
        /\ st.recommended # {} /\ st.recommended \cap WashSale = {}

(* A plan that moves a large share of the portfolio is never passed        *)
(* without a person (the comment on LARGE_TRADE_FRACTION).                 *)
LargeTradeReviewed == st.human = "automatic" => ~st.plan.large

(* Every node of a run works from the policy version snapshotted at its    *)
(* start (the docstring of load_client_state).                             *)
OnePolicyPerRun == st.versions \subseteq {st.policy}

(* No purchase of a plan that passes on its own falls inside a wash-sale   *)
(* window.                                                                 *)
NoUncheckedPurchase == st.human = "automatic" => st.plan.buys \cap WashSale = {}
=============================================================================
