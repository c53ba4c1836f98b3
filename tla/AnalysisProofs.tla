---------------------------- MODULE AnalysisProofs ----------------------------
(***************************************************************************)
(* Proofs about AnalysisRun and the AgentGraph it executes, for any        *)
(* instruments, policies, reviewers, numbers of retries and faults.        *)
(***************************************************************************)
EXTENDS AnalysisRun, FiniteSetTheorems, TLAPS

USE GraphAssumption, RunAssumption DEF Decisions

----------------------------------------------------------------------------
(* Nodes *)

\* The fields that finish leaves as the node has set them.
SameFindings(s, t) ==
    /\ s.policy = t.policy /\ s.priced = t.priced /\ s.confident = t.confident
    /\ s.candidates = t.candidates /\ s.recommended = t.recommended
    /\ s.rejected = t.rejected /\ s.flags = t.flags /\ s.unverified = t.unverified
    /\ s.excluded = t.excluded /\ s.blocked = t.blocked /\ s.attempts = t.attempts
    /\ s.plan = t.plan /\ s.human = t.human /\ s.versions = t.versions

\* What the end of a node makes of the state the node returns.
LEMMA FinishEffect ==
    ASSUME GraphTypeOK, NEW n \in Nodes, NEW s \in AgentState, NEW degraded \in BOOLEAN,
           NEW next \in SUBSET Nodes, finish(n, s, degraded, next)
    PROVE  /\ st' \in AgentState /\ SameFindings(st', s)
           /\ st'.trail = s.trail \cup {<<n, st.attempts>>}
           /\ n \in todo /\ todo' = IF todo = {n} THEN next ELSE todo \ {n}
           /\ UNCHANGED <<paused, active, withheld, refused>>
<1>1. <<n, st.attempts>> \in Nodes \X (0..MAX_RESEARCH_ATTEMPTS)
    BY DEF GraphTypeOK, AgentState
<1>2. Degraded(s.degraded, n) \in SUBSET Nodes
    BY DEF Degraded, AgentState
<1>. QED BY <1>1, <1>2 DEF finish, SameFindings, AgentState

\* Node n ends, keeping what the run has found apart from what its effect says.
Turn(n, next) ==
    /\ n \in todo /\ todo' = IF todo = {n} THEN next ELSE todo \ {n}
    /\ UNCHANGED <<paused, active, withheld, refused>>
    /\ st' \in AgentState /\ st.trail \subseteq st'.trail /\ IsFiniteSet(st'.trail \ st.trail)

KeepsScreen == st'.candidates = st.candidates /\ st'.excluded = st.excluded
KeepsSuitability == st'.recommended = st.recommended /\ st'.rejected = st.rejected
KeepsTax == st'.flags = st.flags /\ st'.unverified = st.unverified
KeepsPlan == st'.plan = st.plan /\ st'.human = st.human

\* What the nodes do to the fields that the guardrails and the gates read.
Surveyed ==
    /\ \E n \in {"diagnostics", "market_regime"} : Turn(n, {"stock_research"})
    /\ KeepsScreen /\ KeepsSuitability /\ KeepsTax /\ KeepsPlan
Researched ==
    /\ Turn("stock_research", {"suitability", "tax_awareness"})
    /\ st'.candidates \cap st.excluded = {} /\ st'.excluded = st.excluded
    /\ KeepsSuitability /\ KeepsTax /\ KeepsPlan
Judged ==
    /\ Turn("suitability", {"guardrail_gate"})
    /\ st'.recommended \subseteq st.candidates /\ st'.recommended \cap st'.rejected = {}
    /\ KeepsScreen /\ KeepsTax /\ KeepsPlan
TaxLooked ==
    /\ Turn("tax_awareness", {"guardrail_gate"})
    /\ st'.unverified \/ st'.flags = st.candidates \cap WashSale
    /\ KeepsScreen /\ KeepsSuitability /\ KeepsPlan

Stripped == IF st.unverified THEN st.recommended ELSE st.recommended \cap st.flags

Gated ==
    /\ "guardrail_gate" \in todo /\ todo' \in {{"rebalance"}, {"stock_research"}}
    /\ UNCHANGED <<paused, active>>
    /\ withheld' = withheld \cup Stripped /\ refused' = refused \cup st.rejected
    /\ st' \in AgentState /\ st'.trail = st.trail
    /\ st'.recommended = st.recommended \ Stripped
    /\ st'.excluded = st.excluded \cup Stripped \cup st.rejected
    /\ st'.rejected = st.rejected /\ KeepsTax /\ KeepsPlan
Planned ==
    /\ Turn("rebalance", {"approval_gate"})
    /\ st'.plan.buys \subseteq st.recommended \cup (Tickers \ st.excluded)
    /\ st'.human = st.human /\ KeepsScreen /\ KeepsSuitability /\ KeepsTax
Passed ==
    /\ "approval_gate" \in todo /\ ~paused
    /\ \/ /\ ~NeedsPerson /\ todo' = {"finance_report"} /\ paused' = FALSE
          /\ st'.human = "automatic"
       \/ /\ todo' = todo /\ paused' = TRUE
          /\ st'.human = st.human
    /\ UNCHANGED <<active, withheld, refused>>
    /\ st' \in AgentState /\ st'.trail = st.trail
    /\ st'.plan = st.plan /\ KeepsScreen /\ KeepsSuitability /\ KeepsTax
Reported ==
    /\ Turn("finance_report", {})
    /\ KeepsScreen /\ KeepsSuitability /\ KeepsTax /\ KeepsPlan

LEMMA FinishTurns ==
    ASSUME GraphTypeOK, NEW n \in Nodes, NEW s \in AgentState, NEW degraded \in BOOLEAN,
           NEW next \in SUBSET Nodes, finish(n, s, degraded, next), s.trail = st.trail
    PROVE  Turn(n, next) /\ SameFindings(st', s)
<1>1. IsFiniteSet({<<n, st.attempts>>})
    BY FS_Singleton, Zenon
<1>2. st'.trail \ st.trail \subseteq {<<n, st.attempts>>}
    BY FinishEffect
<1>3. IsFiniteSet(st'.trail \ st.trail)
    BY <1>1, <1>2, FS_Subset
<1>. QED BY <1>3, FinishEffect DEF Turn

\* Every node has one of these effects.
LEMMA NodeEffects ==
    ASSUME GraphTypeOK, GraphStep
    PROVE  \/ Surveyed \/ Researched \/ Judged \/ TaxLooked \/ Gated \/ Planned \/ Passed \/ Reported
<1>. USE DEF Nodes
<1>0. /\ PolicyResolved \in AgentState /\ PolicyResolved.trail = st.trail
      /\ SameFindings([PolicyResolved EXCEPT !.versions = {}], [st EXCEPT !.versions = {}])
    BY DEF GraphTypeOK, PolicyResolved, AgentState, SameFindings
<1>2. CASE diagnostics_node
    <2>1. PICK priced, degraded \in BOOLEAN :
            finish("diagnostics", [PolicyResolved EXCEPT !.priced = priced], degraded, {"stock_research"})
        BY <1>2 DEF diagnostics_node
    <2>2. [PolicyResolved EXCEPT !.priced = priced] \in AgentState
        BY <1>0 DEF AgentState
    <2>3. [PolicyResolved EXCEPT !.priced = priced].trail = st.trail
        BY <1>0 DEF AgentState
    <2>4. /\ Turn("diagnostics", {"stock_research"})
          /\ SameFindings(st', [PolicyResolved EXCEPT !.priced = priced])
        BY <2>1, <2>2, <2>3, FinishTurns
    <2>. QED BY <1>0, <2>4 DEF Surveyed, GraphTypeOK, PolicyResolved, AgentState, SameFindings,
                KeepsScreen, KeepsSuitability, KeepsTax, KeepsPlan
<1>3. CASE market_regime_node
    <2>1. PICK confident, degraded \in BOOLEAN :
            finish("market_regime", [st EXCEPT !.confident = confident], degraded, {"stock_research"})
        BY <1>3 DEF market_regime_node
    <2>2. [st EXCEPT !.confident = confident] \in AgentState
        BY DEF GraphTypeOK, AgentState
    <2>3. [st EXCEPT !.confident = confident].trail = st.trail
        BY DEF GraphTypeOK, AgentState
    <2>4. /\ Turn("market_regime", {"stock_research"})
          /\ SameFindings(st', [st EXCEPT !.confident = confident])
        BY <2>1, <2>2, <2>3, FinishTurns
    <2>. QED BY <2>4 DEF Surveyed, GraphTypeOK, AgentState, SameFindings,
                KeepsScreen, KeepsSuitability, KeepsTax, KeepsPlan
<1>4. CASE stock_research_node
    <2>1. PICK picks \in SUBSET Screened(active), degraded \in BOOLEAN :
            finish("stock_research", [PolicyResolved EXCEPT !.candidates = picks], degraded,
                   {"suitability", "tax_awareness"})
        BY <1>4 DEF stock_research_node
    <2>2. [PolicyResolved EXCEPT !.candidates = picks] \in AgentState
        BY <1>0 DEF AgentState, Screened
    <2>3. [PolicyResolved EXCEPT !.candidates = picks].trail = st.trail
        BY <1>0 DEF AgentState
    <2>4. /\ Turn("stock_research", {"suitability", "tax_awareness"})
          /\ SameFindings(st', [PolicyResolved EXCEPT !.candidates = picks])
        BY <2>1, <2>2, <2>3, FinishTurns
    <2>5. picks \cap st.excluded = {}
        BY DEF Screened
    <2>. QED BY <2>4, <2>5 DEF Researched, GraphTypeOK, PolicyResolved, AgentState, SameFindings,
                KeepsSuitability, KeepsTax, KeepsPlan
<1>5. CASE suitability_node
    <2>1. ASSUME NEW s \in AgentState, NEW degraded \in BOOLEAN,
                 finish("suitability", s, degraded, {"guardrail_gate"}), s.trail = st.trail,
                 s.candidates = st.candidates, s.excluded = st.excluded, s.flags = st.flags,
                 s.unverified = st.unverified, s.plan = st.plan, s.human = st.human,
                 s.recommended \subseteq st.candidates, s.recommended \cap s.rejected = {}
          PROVE  Judged
        BY <2>1, FinishTurns DEF Judged, SameFindings, KeepsScreen, KeepsTax, KeepsPlan
    <2>2. ASSUME NEW bad \in SUBSET st.candidates,
                 finish("suitability",
                     [PolicyResolved EXCEPT !.recommended = st.candidates \ bad, !.rejected = bad],
                     FALSE, {"guardrail_gate"})
          PROVE  Judged
        <3>1. PICK s : s = [PolicyResolved EXCEPT !.recommended = st.candidates \ bad, !.rejected = bad]
            OBVIOUS
        <3>2. s \in AgentState /\ s.recommended = st.candidates \ bad /\ s.rejected = bad
            BY <1>0, <3>1 DEF GraphTypeOK, AgentState
        <3>3. /\ s.trail = st.trail /\ s.candidates = st.candidates /\ s.excluded = st.excluded
              /\ s.flags = st.flags /\ s.unverified = st.unverified
              /\ s.plan = st.plan /\ s.human = st.human
            BY <3>1 DEF GraphTypeOK, AgentState, PolicyResolved
        <3>. QED BY <2>1, <2>2, <3>1, <3>2, <3>3
    <2>3. ASSUME finish("suitability", [st EXCEPT !.recommended = {}, !.rejected = {}],
                        TRUE, {"guardrail_gate"})
          PROVE  Judged
        <3>1. PICK s : s = [st EXCEPT !.recommended = {}, !.rejected = {}]
            OBVIOUS
        <3>2. /\ s \in AgentState /\ s.recommended = {} /\ s.rejected = {}
              /\ s.trail = st.trail /\ s.candidates = st.candidates /\ s.excluded = st.excluded
              /\ s.flags = st.flags /\ s.unverified = st.unverified
              /\ s.plan = st.plan /\ s.human = st.human
            BY <3>1 DEF GraphTypeOK, AgentState
        <3>. QED BY <2>1, <2>3, <3>1, <3>2
    <2>. QED BY <1>5, <2>2, <2>3 DEF suitability_node
<1>6. CASE tax_awareness_node
    <2>1. ASSUME NEW s \in AgentState, NEW degraded \in BOOLEAN,
                 finish("tax_awareness", s, degraded, {"guardrail_gate"}), s.trail = st.trail,
                 s.candidates = st.candidates, s.excluded = st.excluded,
                 s.recommended = st.recommended, s.rejected = st.rejected,
                 s.plan = st.plan, s.human = st.human,
                 s.unverified \/ s.flags = st.candidates \cap WashSale
          PROVE  TaxLooked
        BY <2>1, FinishTurns DEF TaxLooked, SameFindings, KeepsScreen, KeepsSuitability, KeepsPlan
    <2>2. /\ TaxChecked \in AgentState /\ TaxChecked.flags = st.candidates \cap WashSale
          /\ TaxChecked.trail = st.trail
          /\ TaxChecked.candidates = st.candidates /\ TaxChecked.excluded = st.excluded
          /\ TaxChecked.recommended = st.recommended /\ TaxChecked.rejected = st.rejected
          /\ TaxChecked.plan = st.plan /\ TaxChecked.human = st.human
        BY <1>0 DEF GraphTypeOK, AgentState, TaxChecked, PolicyResolved
    <2>3. /\ TaxUnchecked \in AgentState /\ TaxUnchecked.unverified
          /\ TaxUnchecked.trail = st.trail
          /\ TaxUnchecked.candidates = st.candidates /\ TaxUnchecked.excluded = st.excluded
          /\ TaxUnchecked.recommended = st.recommended /\ TaxUnchecked.rejected = st.rejected
          /\ TaxUnchecked.plan = st.plan /\ TaxUnchecked.human = st.human
        BY DEF GraphTypeOK, AgentState, TaxUnchecked
    <2>. QED BY <1>6, <2>1, <2>2, <2>3 DEF tax_awareness_node
<1>7. CASE guardrail_gate_node
    <2>. DEFINE back == [st EXCEPT !.recommended = @ \ Stripped, !.blocked = Stripped,
                                   !.excluded = @ \cup Stripped \cup st.rejected]
    <2>1. Stripped \in SUBSET Tickers /\ st.rejected \in SUBSET Tickers
        BY DEF GraphTypeOK, AgentState, Stripped
    <2>2. /\ back \in AgentState /\ back.attempts = st.attempts /\ back.trail = st.trail
          /\ back.recommended = st.recommended \ Stripped /\ back.rejected = st.rejected
          /\ back.excluded = st.excluded \cup Stripped \cup st.rejected
          /\ back.flags = st.flags /\ back.unverified = st.unverified
          /\ back.plan = st.plan /\ back.human = st.human
        BY <2>1 DEF GraphTypeOK, AgentState
    <2>. HIDE DEF back
    <2>3. st.attempts < MAX_RESEARCH_ATTEMPTS => st.attempts + 1 \in 0..MAX_RESEARCH_ATTEMPTS
        BY DEF GraphTypeOK, AgentState
    <2>4. ASSUME NEW k \in 0..MAX_RESEARCH_ATTEMPTS, NEW s, s = [back EXCEPT !.attempts = k]
          PROVE  /\ s \in AgentState /\ s.trail = back.trail
                 /\ s.recommended = back.recommended /\ s.rejected = back.rejected
                 /\ s.excluded = back.excluded
                 /\ s.flags = back.flags /\ s.unverified = back.unverified
                 /\ s.plan = back.plan /\ s.human = back.human
        BY <2>2, <2>4 DEF AgentState
    <2>5. \/ st' = back /\ todo' = {"rebalance"}
          \/ /\ st' = [back EXCEPT !.attempts = st.attempts + 1] /\ todo' = {"stock_research"}
             /\ st.attempts < MAX_RESEARCH_ATTEMPTS
        BY <1>7, <2>2 DEF guardrail_gate_node, Retry, back, Stripped
    <2>6. /\ "guardrail_gate" \in todo /\ UNCHANGED <<paused, active>>
          /\ withheld' = withheld \cup Stripped /\ refused' = refused \cup st.rejected
        BY <1>7 DEF guardrail_gate_node, Stripped
    <2>. QED BY <2>2, <2>3, <2>4, <2>5, <2>6 DEF Gated, KeepsTax, KeepsPlan
<1>8. CASE rebalance_node
    <2>1. ASSUME NEW s \in AgentState, NEW degraded \in BOOLEAN,
                 finish("rebalance", s, degraded, {"approval_gate"}), s.trail = st.trail,
                 s.candidates = st.candidates, s.excluded = st.excluded,
                 s.recommended = st.recommended, s.rejected = st.rejected,
                 s.flags = st.flags, s.unverified = st.unverified, s.human = st.human,
                 s.plan.buys \subseteq st.recommended \cup (Tickers \ st.excluded)
          PROVE  Planned
        BY <2>1, FinishTurns DEF Planned, SameFindings, KeepsScreen, KeepsSuitability, KeepsTax
    <2>2. ASSUME NEW buys \in SUBSET Purchasable(active), NEW sells \in BOOLEAN,
                 NEW large \in BOOLEAN, NEW deferred \in BOOLEAN,
                 finish("rebalance",
                     [PolicyResolved EXCEPT !.plan = [buys |-> buys, sells |-> sells, large |-> large]],
                     deferred, {"approval_gate"})
          PROVE  Planned
        <3>1. PICK s : s = [PolicyResolved EXCEPT !.plan = [buys |-> buys, sells |-> sells, large |-> large]]
            OBVIOUS
        <3>2. s \in AgentState /\ s.plan.buys = buys
            BY <1>0, <3>1 DEF AgentState, Purchasable
        <3>3. /\ s.trail = st.trail
              /\ s.candidates = st.candidates /\ s.excluded = st.excluded
              /\ s.recommended = st.recommended /\ s.rejected = st.rejected
              /\ s.flags = st.flags /\ s.unverified = st.unverified /\ s.human = st.human
            BY <3>1 DEF GraphTypeOK, AgentState, PolicyResolved
        <3>4. buys \subseteq st.recommended \cup (Tickers \ st.excluded)
            BY DEF Purchasable, Screened
        <3>. QED BY <2>1, <2>2, <3>1, <3>2, <3>3, <3>4
    <2>3. ASSUME finish("rebalance", [st EXCEPT !.plan = NoPlan], TRUE, {"approval_gate"})
          PROVE  Planned
        <3>1. PICK s : s = [st EXCEPT !.plan = NoPlan]
            OBVIOUS
        <3>2. /\ s \in AgentState /\ s.plan.buys = {} /\ s.trail = st.trail
              /\ s.candidates = st.candidates /\ s.excluded = st.excluded
              /\ s.recommended = st.recommended /\ s.rejected = st.rejected
              /\ s.flags = st.flags /\ s.unverified = st.unverified /\ s.human = st.human
            BY <3>1 DEF GraphTypeOK, AgentState, NoPlan
        <3>. QED BY <2>1, <2>3, <3>1, <3>2
    <2>. QED BY <1>8, <2>2, <2>3 DEF rebalance_node
<1>9. CASE approval_gate_node
    <2>1. ASSUME NEW s, s = [st EXCEPT !.human = "automatic"]
          PROVE  /\ s \in AgentState /\ s.human = "automatic" /\ s.trail = st.trail
                 /\ s.plan = st.plan /\ s.candidates = st.candidates /\ s.excluded = st.excluded
                 /\ s.recommended = st.recommended /\ s.rejected = st.rejected
                 /\ s.flags = st.flags /\ s.unverified = st.unverified
        BY <2>1 DEF GraphTypeOK, AgentState
    <2>2. st \in AgentState
        BY DEF GraphTypeOK
    <2>. QED BY <1>9, <2>1, <2>2 DEF approval_gate_node, Passed, KeepsScreen, KeepsSuitability, KeepsTax
<1>10. CASE finance_report_node
    <2>1. \E degraded \in BOOLEAN : finish("finance_report", st, degraded, {})
        BY <1>10 DEF finance_report_node
    <2>2. Turn("finance_report", {}) /\ SameFindings(st', st)
        BY <2>1, FinishTurns DEF GraphTypeOK
    <2>. QED BY <2>2 DEF Reported, SameFindings, KeepsScreen, KeepsSuitability, KeepsTax, KeepsPlan
<1>. QED BY <1>2, <1>3, <1>4, <1>5, <1>6, <1>7, <1>8, <1>9, <1>10 DEF GraphStep

\* Every node keeps the types of the graph.
LEMMA GraphTyped ==
    ASSUME GraphTypeOK, GraphStep
    PROVE  /\ GraphTypeOK' /\ active' = active
           /\ st.trail \subseteq st'.trail /\ IsFiniteSet(st'.trail \ st.trail)
<1>1. ASSUME NEW n \in Nodes, NEW next \in SUBSET Nodes, Turn(n, next)
      PROVE  GraphTypeOK'
    BY <1>1 DEF GraphTypeOK, Turn
<1>2. CASE Gated
    <2>1. Stripped \in SUBSET Tickers /\ st.rejected \in SUBSET Tickers
        BY DEF GraphTypeOK, AgentState, Stripped
    <2>. QED BY <1>2, <2>1, FS_EmptySet DEF Gated, GraphTypeOK, Nodes
<1>3. CASE Passed
    BY <1>3, FS_EmptySet DEF Passed, GraphTypeOK, Nodes
<1>4. \A n : Turn(n, {}) \/ (\E next : Turn(n, next)) =>
            active' = active /\ st.trail \subseteq st'.trail /\ IsFiniteSet(st'.trail \ st.trail)
    BY DEF Turn
<1>5. CASE Surveyed \/ Researched \/ Judged \/ TaxLooked \/ Planned \/ Reported
    <2>1. \E n \in Nodes, next \in SUBSET Nodes : Turn(n, next)
        BY <1>5 DEF Surveyed, Researched, Judged, TaxLooked, Planned, Reported, Nodes
    <2>. QED BY <1>1, <1>4, <2>1
<1>. QED BY <1>2, <1>3, <1>5, NodeEffects DEF Gated, Passed

----------------------------------------------------------------------------
(* What the guardrails found, and how far the run has come *)

Opening == {"diagnostics", "market_regime"}
Guardrails == {"suitability", "tax_awareness"}

\* Nodes of a run that has no plan yet, and those that check its candidates.
BeforePlan == Opening \cup Guardrails \cup {"stock_research", "guardrail_gate", "rebalance"}
Checks == Guardrails \cup {"guardrail_gate"}

\* The run is in one superstep at a time, and only a run that stands at the
\* approval gate is paused or gets a decision.
StageInv ==
    /\ \/ todo \subseteq Opening \/ todo \subseteq Guardrails
       \/ \E n \in Nodes \ (Opening \cup Guardrails) : todo = {n}
    /\ todo \cap BeforePlan # {} => st.plan.buys = {}
    /\ (st.human = "undecided") <=> (todo \cap (BeforePlan \cup {"approval_gate"}) # {})
    /\ paused => todo = {"approval_gate"}
    /\ st.human = "rejected" => st.plan.buys = {} /\ ~st.plan.sells

\* Everything a guardrail turned down is excluded for good: the candidates and
\* the recommendations of later passes keep clear of it.
ExclusionInv ==
    /\ withheld \cup refused \subseteq st.excluded
    /\ todo \cap Checks # {} => st.candidates \cap st.excluded = {}
    /\ todo \cap Checks # {} /\ "suitability" \notin todo =>
            st.recommended \subseteq st.candidates /\ st.recommended \cap st.rejected = {}
    /\ todo = {"rebalance"} => st.recommended \cap (withheld \cup refused) = {}
    /\ WithheldNeverBought

\* Once the tax check has run, what it left unflagged is clear of wash sales.
TaxInv ==
    /\ todo \cap Checks # {} /\ "tax_awareness" \notin todo =>
            st.unverified \/ st.flags = st.candidates \cap WashSale
    /\ todo \in {{"rebalance"}, {"approval_gate"}} =>
            st.unverified \/ st.recommended \cap WashSale = {}
    /\ UnattendedIsChecked

GraphInv == StageInv /\ ExclusionInv /\ TaxInv

\* A node keeps the invariant.
LEMMA GraphStepKeeps ==
    ASSUME GraphTypeOK, GraphInv, GraphStep
    PROVE  GraphInv'
<1>. USE DEF GraphInv, Turn, KeepsScreen, KeepsSuitability, KeepsTax, KeepsPlan
<1>1. CASE Surveyed
    <2>0. PICK n \in Opening : Turn(n, {"stock_research"})
        BY <1>1 DEF Surveyed, Opening
    <2>a. todo \subseteq Opening /\ todo # {}
        BY <2>0 DEF StageInv, Opening, Guardrails, Nodes
    <2>b. todo' = {"stock_research"} \/ (todo' \subseteq Opening /\ todo' # {})
        BY <2>0, <2>a DEF Opening
    <2>c. todo' \cap BeforePlan # {} /\ todo \cap BeforePlan # {} /\ ~paused
        BY <2>a, <2>b DEF StageInv, BeforePlan, Opening
    <2>1. StageInv'
        BY <1>1, <2>0, <2>b, <2>c DEF Surveyed, StageInv, Opening, Guardrails, Nodes
    <2>2. ExclusionInv'
        BY <1>1 DEF Surveyed, StageInv, ExclusionInv, Checks, Opening, Guardrails, WithheldNeverBought, Nodes
    <2>3. TaxInv'
        BY <1>1 DEF Surveyed, StageInv, TaxInv, Checks, Opening, Guardrails, UnattendedIsChecked, Nodes
    <2>. QED BY <2>1, <2>2, <2>3
<1>2. CASE Researched
    <2>1. StageInv'
        BY <1>2 DEF Researched, StageInv, Opening, Guardrails, BeforePlan, Nodes
    <2>2. ExclusionInv'
        BY <1>2 DEF Researched, StageInv, ExclusionInv, Checks, Opening, Guardrails, WithheldNeverBought, Nodes
    <2>3. TaxInv'
        BY <1>2 DEF Researched, StageInv, TaxInv, Checks, Opening, Guardrails, UnattendedIsChecked, Nodes
    <2>. QED BY <2>1, <2>2, <2>3
<1>3. CASE Judged
    <2>1. StageInv'
        BY <1>3 DEF Judged, StageInv, Opening, Guardrails, BeforePlan, Nodes
    <2>2. ExclusionInv'
        BY <1>3 DEF Judged, StageInv, ExclusionInv, Checks, Opening, Guardrails, WithheldNeverBought, Nodes
    <2>3. TaxInv'
        BY <1>3 DEF Judged, StageInv, TaxInv, Checks, Opening, Guardrails, UnattendedIsChecked, Nodes, BeforePlan
    <2>. QED BY <2>1, <2>2, <2>3
<1>4. CASE TaxLooked
    <2>1. StageInv'
        BY <1>4 DEF TaxLooked, StageInv, Opening, Guardrails, BeforePlan, Nodes
    <2>2. ExclusionInv'
        BY <1>4 DEF TaxLooked, StageInv, ExclusionInv, Checks, Opening, Guardrails, WithheldNeverBought, Nodes
    <2>3. TaxInv'
        BY <1>4 DEF TaxLooked, StageInv, TaxInv, Checks, Opening, Guardrails, UnattendedIsChecked, Nodes
    <2>. QED BY <2>1, <2>2, <2>3
<1>5. CASE Gated
    <2>0. todo = {"guardrail_gate"} /\ st.plan.buys = {}
        BY <1>5 DEF Gated, StageInv, Opening, Guardrails, BeforePlan, Nodes
    <2>1. StageInv'
        BY <1>5, <2>0 DEF Gated, StageInv, Opening, Guardrails, BeforePlan, Nodes
    <2>2. ExclusionInv'
        BY <1>5, <2>0 DEF Gated, ExclusionInv, Checks, Guardrails, WithheldNeverBought
    <2>3. TaxInv'
        BY <1>5, <2>0 DEF Gated, StageInv, ExclusionInv, TaxInv, Checks, Guardrails, UnattendedIsChecked, Stripped, BeforePlan
    <2>. QED BY <2>1, <2>2, <2>3
<1>6. CASE Planned
    <2>0. todo = {"rebalance"} /\ todo' = {"approval_gate"}
        BY <1>6 DEF Planned, StageInv, Opening, Guardrails, Nodes
    <2>1. StageInv'
        BY <1>6, <2>0 DEF Planned, StageInv, Opening, Guardrails, BeforePlan, Nodes
    <2>2. ExclusionInv'
        BY <1>6, <2>0 DEF Planned, ExclusionInv, Checks, Guardrails, WithheldNeverBought
    <2>3. TaxInv'
        BY <1>6, <2>0 DEF Planned, StageInv, TaxInv, Checks, Guardrails, UnattendedIsChecked, BeforePlan
    <2>. QED BY <2>1, <2>2, <2>3
<1>7. CASE Passed
    <2>0. todo = {"approval_gate"}
        BY <1>7 DEF Passed, StageInv, Opening, Guardrails, Nodes
    <2>1. StageInv'
        BY <1>7, <2>0 DEF Passed, StageInv, Opening, Guardrails, BeforePlan, Nodes
    <2>2. ExclusionInv'
        BY <1>7, <2>0 DEF Passed, ExclusionInv, Checks, Guardrails, WithheldNeverBought
    <2>3. TaxInv'
        BY <1>7, <2>0 DEF Passed, StageInv, TaxInv, Checks, Guardrails, UnattendedIsChecked, NeedsPerson, BeforePlan
    <2>. QED BY <2>1, <2>2, <2>3
<1>8. CASE Reported
    <2>0. todo = {"finance_report"} /\ todo' = {}
        BY <1>8 DEF Reported, StageInv, Opening, Guardrails, Nodes
    <2>1. StageInv'
        BY <1>8, <2>0 DEF Reported, StageInv, Opening, Guardrails, BeforePlan, Nodes
    <2>2. ExclusionInv'
        BY <1>8, <2>0 DEF Reported, ExclusionInv, Checks, Guardrails, WithheldNeverBought
    <2>3. TaxInv'
        BY <1>8, <2>0 DEF Reported, TaxInv, Checks, Guardrails, UnattendedIsChecked
    <2>. QED BY <2>1, <2>2, <2>3
<1>. QED BY <1>1, <1>2, <1>3, <1>4, <1>5, <1>6, <1>7, <1>8, NodeEffects

\* What a person's decision does to the run at the gate.
LEMMA ResumedKeeps ==
    ASSUME GraphTypeOK, GraphInv, NEW d \in Decisions, approval_gate_resumed(d)
    PROVE  /\ GraphTypeOK' /\ GraphInv' /\ st'.trail = st.trail
           /\ todo' = {"finance_report"} /\ ~paused' /\ st'.human = d
<1>1. /\ paused /\ paused' = FALSE /\ todo = {"approval_gate"} /\ todo' = {"finance_report"}
      /\ UNCHANGED <<active, withheld, refused>>
    BY DEF approval_gate_resumed, GraphInv, StageInv
<1>2. /\ st' \in AgentState /\ st'.human = d /\ st'.trail = st.trail
      /\ st'.plan.buys \subseteq st.plan.buys /\ (st'.human = "rejected" => st'.plan.buys = {} /\ ~st'.plan.sells)
      /\ KeepsScreen /\ KeepsSuitability /\ KeepsTax
    <2>1. st' = Decided(d) /\ st \in AgentState
        BY DEF approval_gate_resumed, GraphTypeOK
    <2>2. CASE d = "rejected"
        BY <2>1, <2>2 DEF Decided, AgentState, KeepsScreen, KeepsSuitability, KeepsTax
    <2>3. CASE d = "approved"
        BY <2>1, <2>3 DEF Decided, AgentState, KeepsScreen, KeepsSuitability, KeepsTax
    <2>. QED BY <2>2, <2>3
<1>3. GraphTypeOK'
    BY <1>1, <1>2 DEF GraphTypeOK, Nodes
<1>4. StageInv'
    BY <1>1, <1>2 DEF StageInv, Opening, Guardrails, BeforePlan, Nodes
<1>5. ExclusionInv'
    BY <1>1, <1>2 DEF GraphInv, ExclusionInv, Checks, Guardrails, WithheldNeverBought, KeepsScreen, KeepsSuitability
<1>6. TaxInv'
    BY <1>1, <1>2 DEF TaxInv, Checks, Guardrails, UnattendedIsChecked
<1>. QED BY <1>1, <1>2, <1>3, <1>4, <1>5, <1>6 DEF GraphInv

\* A graph that is paused or has ended takes no step, and once the run is
\* decided nothing but the report is left.
LEMMA GraphStepMoves ==
    ASSUME GraphTypeOK, GraphInv, GraphStep
    PROVE  /\ ~paused /\ todo # {}
           /\ st.human # "undecided" => st'.human = st.human /\ ~paused'
<1>. USE DEF GraphInv, StageInv, Opening, Guardrails, BeforePlan, Nodes, Turn, KeepsPlan
<1>1. CASE Surveyed \/ Researched \/ Judged \/ TaxLooked
    BY <1>1 DEF Surveyed, Researched, Judged, TaxLooked
<1>2. CASE Gated \/ Planned
    BY <1>2 DEF Gated, Planned
<1>3. CASE Passed
    BY <1>3 DEF Passed
<1>4. CASE Reported
    BY <1>4 DEF Reported
<1>. QED BY <1>1, <1>2, <1>3, <1>4, NodeEffects

\* Activating another version of the policy touches nothing of the run.
LEMMA ActivationKeeps ==
    ASSUME GraphTypeOK, GraphInv, ActivatePolicy
    PROVE  GraphTypeOK' /\ GraphInv' /\ UNCHANGED <<st, todo, paused>>
<1>1. UNCHANGED <<st, todo, paused, withheld, refused>> /\ active' \in 1..MaxVersion
    BY DEF ActivatePolicy, GraphTypeOK
<1>2. GraphTypeOK'
    BY <1>1 DEF GraphTypeOK
<1>3. GraphInv'
    BY <1>1 DEF GraphInv, StageInv, ExclusionInv, TaxInv, WithheldNeverBought, UnattendedIsChecked
<1>. QED BY <1>1, <1>2, <1>3

----------------------------------------------------------------------------
(* The database *)

DbRows(trail) ==
    [approval : {"absent", "pending"} \cup Decisions,
     report : {"absent"} \cup Decisions,
     buys : SUBSET Tickers, sells : BOOLEAN, withheld : SUBSET Tickers,
     outcomes : SUBSET Tickers, batches : Nat,
     trail : SUBSET trail, records : Nat, executed : BOOLEAN]

\* What persist_run makes of the rows.
LEMMA Persisted ==
    ASSUME GraphTypeOK, IsFiniteSet(st.trail), NEW d \in DbRows(st.trail)
    PROVE  /\ persist_run(d) \in DbRows(st.trail)
           /\ persist_run(d).executed = d.executed
           /\ persist_run(d).trail = d.trail \cup st.trail
           /\ persist_run(d).records = d.records + Cardinality(st.trail \ d.trail)
           /\ paused => /\ persist_run(d).approval = "pending" /\ persist_run(d).report = d.report
                        /\ persist_run(d).buys = d.buys /\ persist_run(d).sells = d.sells
                        /\ persist_run(d).outcomes = d.outcomes
                        /\ persist_run(d).batches = d.batches
           /\ ~paused => /\ persist_run(d).approval = d.approval
                         /\ persist_run(d).report = IF st.human = "rejected" THEN "rejected" ELSE "approved"
                         /\ persist_run(d).buys \in {d.buys, st.plan.buys}
                         /\ persist_run(d).sells \in {d.sells, st.plan.sells}
                         /\ st.human = "rejected" => persist_run(d).outcomes = d.outcomes
                         /\ persist_run(d).batches \in {d.batches, 1}
<1>. DEFINE a == persist_audit_trail(d)
            b == persist_proposals(a)
            c == persist_report(b)
            e == record_recommendations(c)
            q == [a EXCEPT !.approval = "pending"]
<1>1. /\ a \in DbRows(st.trail)
      /\ a.trail = d.trail \cup st.trail /\ a.records = d.records + Cardinality(st.trail \ d.trail)
      /\ a.executed = d.executed /\ a.approval = d.approval /\ a.report = d.report
      /\ a.buys = d.buys /\ a.sells = d.sells /\ a.outcomes = d.outcomes /\ a.batches = d.batches
    <2>1. Cardinality(st.trail \ d.trail) \in Nat
        BY FS_CardinalityType, FS_Subset
    <2>2. PICK n \in Nat : n = d.records + Cardinality(st.trail \ d.trail)
        BY <2>1 DEF DbRows
    <2>3. PICK T \in SUBSET st.trail : T = d.trail \cup st.trail
        BY DEF DbRows
    <2>4. a = [d EXCEPT !.trail = T, !.records = n]
        BY <2>2, <2>3 DEF persist_audit_trail, DbRows
    <2>. HIDE DEF a
    <2>5. /\ a \in DbRows(st.trail) /\ a.trail = T /\ a.records = n
          /\ a.executed = d.executed /\ a.approval = d.approval /\ a.report = d.report
          /\ a.buys = d.buys /\ a.sells = d.sells /\ a.outcomes = d.outcomes /\ a.batches = d.batches
        BY <2>4 DEF DbRows
    <2>. QED BY <2>2, <2>3, <2>5
<1>. HIDE DEF a
<1>2. /\ b \in DbRows(st.trail)
      /\ b.trail = a.trail /\ b.records = a.records
      /\ b.executed = a.executed /\ b.approval = a.approval /\ b.report = a.report
      /\ b.buys \in {a.buys, st.plan.buys} /\ b.sells \in {a.sells, st.plan.sells}
      /\ b.outcomes = a.outcomes /\ b.batches \in {a.batches, 1}
    <2>1. st.plan.buys \in SUBSET Tickers /\ st.plan.sells \in BOOLEAN /\ st.blocked \in SUBSET Tickers
        BY DEF GraphTypeOK, AgentState
    <2>. QED BY <1>1, <2>1 DEF persist_proposals, DbRows
<1>. HIDE DEF b
<1>3. /\ c \in DbRows(st.trail)
      /\ c.trail = b.trail /\ c.records = b.records
      /\ c.executed = b.executed /\ c.approval = b.approval
      /\ c.report = IF st.human = "rejected" THEN "rejected" ELSE "approved"
      /\ c.buys = b.buys /\ c.sells = b.sells
      /\ c.outcomes = b.outcomes /\ c.batches = b.batches
    BY <1>2 DEF persist_report, DbRows
<1>. HIDE DEF c
<1>4. /\ e \in DbRows(st.trail)
      /\ e.trail = c.trail /\ e.records = c.records
      /\ e.executed = c.executed /\ e.approval = c.approval /\ e.report = c.report
      /\ e.buys = c.buys /\ e.sells = c.sells
      /\ (st.human = "rejected" => e.outcomes = c.outcomes) /\ e.batches = c.batches
    <2>1. st.recommended \in SUBSET Tickers
        BY DEF GraphTypeOK, AgentState
    <2>. QED BY <1>3, <2>1 DEF record_recommendations, DbRows
<1>. HIDE DEF e
<1>5. /\ q \in DbRows(st.trail) /\ q.approval = "pending"
      /\ q.trail = a.trail /\ q.records = a.records
      /\ q.executed = a.executed /\ q.report = a.report
      /\ q.buys = a.buys /\ q.sells = a.sells /\ q.outcomes = a.outcomes /\ q.batches = a.batches
    BY <1>1 DEF DbRows
<1>. HIDE DEF q
<1>6. persist_run(d) = IF paused THEN q ELSE e
    BY DEF persist_run, a, b, c, e, q
<1>7. CASE paused
    BY <1>1, <1>5, <1>6, <1>7
<1>8. CASE ~paused
    BY <1>1, <1>2, <1>3, <1>4, <1>6, <1>8
<1>. QED BY <1>7, <1>8

\* Who has decided what, and what the rows say of it.  The approval row is
\* written by the job that paused, and every answer of a reviewer comes later;
\* the graph knows one of those answers once it is no longer paused.
DecisionInv ==
    /\ db.approval = "absent" =>
            answers = {} /\ runner \in {"job", None} /\ \A r \in Reviewers : want[r] = None
    /\ db.approval # "absent" \/ db.report # "absent" => runner # "job"
    /\ db.approval # "absent" => paused \/ st.human \in answers
    /\ runner \in Reviewers => want[runner] # None /\ want[runner] \in answers
    /\ db.report # "absent" =>
            /\ todo = {} /\ ~paused
            /\ db.report = IF st.human = "rejected" THEN "rejected" ELSE "approved"
            /\ db.approval # "absent" => db.approval \in answers

\* Proposals and outcomes come from a run that has ended and was not rejected.
IssueInv ==
    db.buys # {} \/ db.sells \/ db.outcomes # {} \/ db.executed =>
        todo = {} /\ ~paused /\ st.human # "rejected"

RunInv ==
    /\ TypeOK /\ IsFiniteSet(st.trail) /\ GraphInv
    /\ DecisionInv /\ IssueInv /\ StoredOnce

\* The rows after persist_run, in a run that has ended or is paused.
LEMMA PersistKeeps ==
    ASSUME RunInv, todo = {} \/ paused, NEW rows, rows = persist_run(db)
    PROVE  /\ rows \in DbRows(st.trail)
           /\ paused => rows.approval = "pending" /\ rows.report = db.report
           /\ ~paused => /\ rows.approval = db.approval
                         /\ rows.report = IF st.human = "rejected" THEN "rejected" ELSE "approved"
           /\ rows.buys # {} \/ rows.sells \/ rows.outcomes # {} \/ rows.executed =>
                todo = {} /\ ~paused /\ st.human # "rejected"
           /\ rows.batches <= 1 /\ rows.records = Cardinality(rows.trail)
<1>1. db \in DbRows(st.trail)
    BY DEF RunInv, TypeOK, DbRows
<1>2. /\ rows \in DbRows(st.trail)
      /\ rows.executed = db.executed
      /\ rows.trail = db.trail \cup st.trail
      /\ rows.records = db.records + Cardinality(st.trail \ db.trail)
      /\ paused => /\ rows.approval = "pending" /\ rows.report = db.report
                   /\ rows.buys = db.buys /\ rows.sells = db.sells
                   /\ rows.outcomes = db.outcomes /\ rows.batches = db.batches
      /\ ~paused => /\ rows.approval = db.approval
                    /\ rows.report = IF st.human = "rejected" THEN "rejected" ELSE "approved"
                    /\ rows.buys \in {db.buys, st.plan.buys}
                    /\ rows.sells \in {db.sells, st.plan.sells}
                    /\ st.human = "rejected" => rows.outcomes = db.outcomes
                    /\ rows.batches \in {db.batches, 1}
    BY <1>1, Persisted DEF RunInv, TypeOK
<1>3. rows.buys # {} \/ rows.sells \/ rows.outcomes # {} \/ rows.executed =>
            todo = {} /\ ~paused /\ st.human # "rejected"
    <2>1. st.human = "rejected" => st.plan.buys = {} /\ ~st.plan.sells
        BY DEF RunInv, GraphInv, StageInv
    <2>2. CASE paused
        BY <1>2, <2>2 DEF RunInv, IssueInv
    <2>3. CASE ~paused
        BY <1>2, <2>1, <2>3 DEF RunInv, IssueInv
    <2>. QED BY <2>2, <2>3
<1>4. rows.batches <= 1
    BY <1>2 DEF RunInv, StoredOnce
<1>5. rows.records = Cardinality(rows.trail)
    <2>1. /\ IsFiniteSet(db.trail) /\ IsFiniteSet(st.trail \ db.trail)
          /\ db.trail \cap (st.trail \ db.trail) = {}
          /\ db.trail \cup (st.trail \ db.trail) = db.trail \cup st.trail
        BY <1>1, FS_Subset DEF RunInv, DbRows
    <2>2. Cardinality(db.trail \cup (st.trail \ db.trail)) =
                Cardinality(db.trail) + Cardinality(st.trail \ db.trail)
                    - Cardinality(db.trail \cap (st.trail \ db.trail))
        BY <2>1, FS_Union
    <2>3. Cardinality(db.trail \cap (st.trail \ db.trail)) = 0
        BY <2>1, FS_EmptySet
    <2>4. Cardinality(db.trail) \in Nat /\ Cardinality(st.trail \ db.trail) \in Nat
        BY <2>1, FS_CardinalityType
    <2>5. Cardinality(rows.trail) = Cardinality(db.trail) + Cardinality(st.trail \ db.trail)
        <3>1. rows.trail = db.trail \cup (st.trail \ db.trail)
            BY <1>2, <2>1
        <3>2. Cardinality(rows.trail) = Cardinality(db.trail \cup (st.trail \ db.trail))
            BY <3>1
        <3>. QED BY <2>2, <2>3, <2>4, <3>2
    <2>6. db.records = Cardinality(db.trail)
        BY DEF RunInv, StoredOnce
    <2>. QED BY <1>2, <2>5, <2>6
<1>. QED BY <1>2, <1>3, <1>4, <1>5

\* Every step of the run, of the job and of the reviewers keeps the invariant.
LEMMA RunStep ==
    ASSUME RunInv, [Next]_vars
    PROVE  RunInv'
<1>. USE DEF RunInv
\* Steps of the graph that leave rows and requests alone.
<1>A. ASSUME GraphTypeOK', GraphInv', UNCHANGED runVars,
             st.trail \subseteq st'.trail, IsFiniteSet(st'.trail),
             DecisionInv', IssueInv'
      PROVE  RunInv'
    <2>1. TypeOK'
        BY <1>A DEF TypeOK, runVars
    <2>2. StoredOnce'
        BY <1>A DEF StoredOnce, runVars
    <2>. QED BY <1>A, <2>1, <2>2
\* Steps that leave the graph alone.
<1>B. ASSUME UNCHANGED graphVars, db' \in DbRows(st.trail),
             runner' \in {"job", None} \cup Reviewers,
             want' \in [Reviewers -> Decisions \cup {None}],
             answers' \subseteq Decisions, faults' \in 0..MaxFaults,
             DecisionInv', IssueInv', StoredOnce'
      PROVE  RunInv'
    <2>1. GraphTypeOK' /\ GraphInv' /\ IsFiniteSet(st'.trail)
        BY <1>B DEF graphVars, TypeOK, GraphTypeOK, GraphInv, StageInv, ExclusionInv, TaxInv,
                    WithheldNeverBought, UnattendedIsChecked
    <2>2. TypeOK'
        BY <1>B, <2>1 DEF graphVars, TypeOK, DbRows
    <2>. QED BY <1>B, <2>1, <2>2
<1>0. /\ db \in DbRows(st.trail) /\ GraphTypeOK
      /\ runner \in {"job", None} \cup Reviewers
      /\ want \in [Reviewers -> Decisions \cup {None}]
      /\ answers \subseteq Decisions /\ faults \in 0..MaxFaults
    BY DEF TypeOK, DbRows
<1>1. CASE Invoke
    <2>1. GraphStep /\ UNCHANGED runVars
        BY <1>1 DEF Invoke
    <2>2. /\ GraphTypeOK' /\ GraphInv' /\ st.trail \subseteq st'.trail
          /\ IsFiniteSet(st'.trail \ st.trail)
        BY <1>0, <2>1, GraphTyped, GraphStepKeeps
    <2>3. IsFiniteSet(st'.trail)
        <3>1. IsFiniteSet(st.trail \cup (st'.trail \ st.trail))
            BY <2>2, FS_Union
        <3>2. st.trail \cup (st'.trail \ st.trail) = st'.trail
            BY <2>2
        <3>. QED BY <3>1, <3>2
    <2>4. /\ ~paused /\ todo # {}
          /\ st.human # "undecided" => st'.human = st.human /\ ~paused'
        BY <1>0, <2>1, GraphStepMoves
    <2>5. DecisionInv'
        BY <1>0, <2>1, <2>4 DEF DecisionInv, runVars
    <2>6. IssueInv'
        BY <2>1, <2>4 DEF IssueInv, runVars
    <2>. QED BY <1>A, <2>1, <2>2, <2>3, <2>5, <2>6
<1>2. CASE PolicyChanges
    <2>1. GraphTypeOK' /\ GraphInv' /\ UNCHANGED <<st, todo, paused>> /\ UNCHANGED runVars
        BY <1>0, <1>2, ActivationKeeps DEF PolicyChanges
    <2>2. DecisionInv' /\ IssueInv'
        BY <2>1 DEF DecisionInv, IssueInv, runVars
    <2>. QED BY <1>A, <2>1, <2>2
<1>3. CASE run_analysis_job
    <2>1. /\ runner = "job" /\ (todo = {} \/ paused) /\ db' = persist_run(db) /\ runner' = None
          /\ UNCHANGED <<graphVars, want, answers, faults>>
        BY <1>3 DEF run_analysis_job
    <2>2. /\ db' \in DbRows(st.trail)
          /\ paused => db'.approval = "pending" /\ db'.report = db.report
          /\ ~paused => /\ db'.approval = db.approval
                        /\ db'.report = IF st.human = "rejected" THEN "rejected" ELSE "approved"
          /\ db'.buys # {} \/ db'.sells \/ db'.outcomes # {} \/ db'.executed =>
                todo = {} /\ ~paused /\ st.human # "rejected"
          /\ db'.batches <= 1 /\ db'.records = Cardinality(db'.trail)
        BY <2>1, PersistKeeps
    <2>3. DecisionInv'
        <3>1. db.approval = "absent" /\ db.report = "absent"
            BY <2>1 DEF DecisionInv
        <3>. QED BY <2>1, <2>2, <3>1 DEF DecisionInv, graphVars
    <2>4. IssueInv' /\ StoredOnce'
        BY <2>1, <2>2 DEF IssueInv, StoredOnce, graphVars
    <2>. QED BY <1>0, <1>B, <2>1, <2>2, <2>3, <2>4
<1>4. CASE JobFails
    <2>1. /\ runner = "job" /\ runner' = None /\ UNCHANGED <<graphVars, db, want, answers>>
          /\ faults' \in 0..MaxFaults
        BY <1>0, <1>4 DEF JobFails
    <2>2. DecisionInv' /\ IssueInv' /\ StoredOnce'
        BY <2>1 DEF DecisionInv, IssueInv, StoredOnce, graphVars
    <2>. QED BY <1>0, <1>B, <2>1, <2>2
<1>5. CASE execute_plan
    <2>1. /\ db.buys # {} \/ db.sells
          /\ db' = [db EXCEPT !.executed = TRUE]
          /\ UNCHANGED <<graphVars, runner, want, answers, faults>>
        BY <1>5 DEF execute_plan
    <2>2. /\ db' \in DbRows(st.trail) /\ db'.approval = db.approval /\ db'.report = db.report
          /\ db'.batches = db.batches /\ db'.records = db.records /\ db'.trail = db.trail
        BY <1>0, <2>1 DEF DbRows
    <2>3. DecisionInv' /\ IssueInv' /\ StoredOnce'
        BY <2>1, <2>2 DEF DecisionInv, IssueInv, StoredOnce, graphVars
    <2>. QED BY <1>0, <1>B, <2>1, <2>2, <2>3
<1>6. ASSUME NEW r \in Reviewers, decide_run(r) PROVE RunInv'
    <2>1. /\ want[r] = None /\ db.approval = "pending"
          /\ UNCHANGED <<graphVars, db, runner, answers, faults>>
        BY <1>6 DEF decide_run
    <2>2. PICK d \in Decisions : want' = [want EXCEPT ![r] = d]
        BY <1>6 DEF decide_run
    <2>3. \A q \in Reviewers : q # r => want'[q] = want[q]
        BY <1>0, <2>2
    <2>4. DecisionInv'
        BY <2>1, <2>3 DEF DecisionInv, graphVars
    <2>5. IssueInv' /\ StoredOnce'
        BY <2>1 DEF IssueInv, StoredOnce, graphVars
    <2>. QED BY <1>0, <1>B, <2>1, <2>2, <2>4, <2>5
<1>7. ASSUME NEW r \in Reviewers, decide_approval(r) PROVE RunInv'
    <2>1. /\ want[r] # None /\ runner = None /\ runner' = r
          /\ answers' = answers \cup {want[r]}
          /\ UNCHANGED <<graphVars, db, want, faults>>
        BY <1>7 DEF decide_approval
    <2>2. want[r] \in Decisions /\ db.approval # "absent"
        BY <1>0, <2>1 DEF DecisionInv
    <2>3. DecisionInv'
        BY <2>1, <2>2 DEF DecisionInv, graphVars
    <2>4. IssueInv' /\ StoredOnce'
        BY <2>1 DEF IssueInv, StoredOnce, graphVars
    <2>. QED BY <1>0, <1>B, <2>1, <2>2, <2>3, <2>4
<1>8. ASSUME NEW r \in Reviewers, resume_client_graph(r) PROVE RunInv'
    <2>1. runner = r /\ approval_gate_resumed(want[r]) /\ UNCHANGED runVars
        BY <1>8 DEF resume_client_graph
    <2>2. want[r] \in Decisions /\ want[r] \in answers /\ db.approval # "absent"
        BY <1>0, <2>1 DEF DecisionInv
    <2>3. /\ GraphTypeOK' /\ GraphInv' /\ st'.trail = st.trail
          /\ todo' = {"finance_report"} /\ ~paused' /\ st'.human = want[r]
        BY <1>0, <2>1, <2>2, ResumedKeeps
    <2>4. paused
        BY <2>1 DEF approval_gate_resumed
    <2>5. DecisionInv'
        BY <2>1, <2>2, <2>3, <2>4 DEF DecisionInv, runVars
    <2>6. IssueInv'
        BY <2>1, <2>4 DEF IssueInv, runVars
    <2>. QED BY <1>A, <2>1, <2>3, <2>5, <2>6
<1>9. ASSUME NEW r \in Reviewers, CommitDecision(r) PROVE RunInv'
    <2>1. /\ runner = r /\ todo = {} /\ db' = [persist_run(db) EXCEPT !.approval = want[r]]
          /\ runner' = None /\ want' = [want EXCEPT ![r] = None]
          /\ UNCHANGED <<graphVars, answers, faults>>
        BY <1>9 DEF CommitDecision
    <2>2. want[r] \in Decisions /\ want[r] \in answers /\ db.approval # "absent"
        BY <1>0, <2>1 DEF DecisionInv
    <2>3. ~paused
        BY <2>1 DEF GraphInv, StageInv
    <2>4. PICK p : p = persist_run(db)
        OBVIOUS
    <2>5. /\ p \in DbRows(st.trail)
          /\ p.report = IF st.human = "rejected" THEN "rejected" ELSE "approved"
          /\ p.buys # {} \/ p.sells \/ p.outcomes # {} \/ p.executed =>
                todo = {} /\ ~paused /\ st.human # "rejected"
          /\ p.batches <= 1 /\ p.records = Cardinality(p.trail)
        BY <2>1, <2>3, <2>4, PersistKeeps
    <2>6. db' = [p EXCEPT !.approval = want[r]]
        BY <2>1, <2>4
    <2>7. /\ db' \in DbRows(st.trail) /\ db'.approval = want[r] /\ db'.report = p.report
          /\ db'.buys = p.buys /\ db'.sells = p.sells /\ db'.outcomes = p.outcomes
          /\ db'.executed = p.executed
          /\ db'.batches = p.batches /\ db'.records = p.records /\ db'.trail = p.trail
        BY <2>2, <2>5, <2>6 DEF DbRows
    <2>8. DecisionInv'
        BY <2>1, <2>2, <2>3, <2>5, <2>7 DEF DecisionInv, graphVars
    <2>9. IssueInv' /\ StoredOnce'
        BY <2>1, <2>5, <2>7 DEF IssueInv, StoredOnce, graphVars
    <2>. QED BY <1>0, <1>B, <2>1, <2>7, <2>8, <2>9
<1>10. ASSUME NEW r \in Reviewers, DecisionFails(r) PROVE RunInv'
    <2>1. /\ want[r] # None /\ runner' = IF runner = r THEN None ELSE runner
          /\ want' = [want EXCEPT ![r] = None]
          /\ UNCHANGED <<graphVars, db, answers>> /\ faults' \in 0..MaxFaults
        BY <1>0, <1>10 DEF DecisionFails
    <2>2. \A q \in Reviewers : q # r => want'[q] = want[q]
        BY <1>0, <2>1
    <2>3. DecisionInv'
        BY <1>0, <2>1, <2>2 DEF DecisionInv, graphVars
    <2>4. IssueInv' /\ StoredOnce'
        BY <2>1 DEF IssueInv, StoredOnce, graphVars
    <2>. QED BY <1>0, <1>B, <2>1, <2>3, <2>4
<1>11. CASE UNCHANGED vars
    <2>1. UNCHANGED graphVars /\ UNCHANGED runVars
        BY <1>11 DEF vars
    <2>2. DecisionInv' /\ IssueInv' /\ StoredOnce'
        BY <2>1 DEF DecisionInv, IssueInv, StoredOnce, graphVars, runVars
    <2>. QED BY <1>0, <1>B, <2>1, <2>2 DEF runVars
<1>. QED BY <1>1, <1>2, <1>3, <1>4, <1>5, <1>6, <1>7, <1>8, <1>9, <1>10, <1>11 DEF Next, Decide

LEMMA RunInvariant == Spec => []RunInv
<1>1. Init => RunInv
    <2>. SUFFICES ASSUME Init PROVE RunInv
        OBVIOUS
    <2>1. /\ st \in AgentState /\ st.plan = NoPlan /\ st.human = "undecided" /\ st.trail = {}
          /\ st.candidates = {} /\ st.recommended = {} /\ st.excluded = {}
        BY DEF Init, GraphInit, load_client_state, AgentState, NoPlan
    <2>2. /\ todo = Opening /\ paused = FALSE /\ active \in 1..MaxVersion
          /\ withheld = {} /\ refused = {}
        BY DEF Init, GraphInit, Opening
    <2>t. GraphTypeOK
        BY <2>1, <2>2 DEF GraphTypeOK, Opening, Nodes
    <2>s. StageInv
        BY <2>1, <2>2 DEF StageInv, Opening, BeforePlan, NoPlan
    <2>e. ExclusionInv
        BY <2>1, <2>2 DEF ExclusionInv, Opening, Checks, NoPlan, WithheldNeverBought
    <2>x. TaxInv
        <3>1. "diagnostics" \in todo /\ todo \cap Checks = {}
            BY <2>2 DEF Opening, Checks, Guardrails
        <3>2. todo \notin {{"rebalance"}, {"approval_gate"}}
            BY <3>1
        <3>. QED BY <2>1, <3>1, <3>2 DEF TaxInv, UnattendedIsChecked
    <2>3. GraphTypeOK /\ GraphInv
        BY <2>t, <2>s, <2>e, <2>x DEF GraphInv
    <2>4. IsFiniteSet(st.trail) /\ Cardinality({}) = 0
        BY <2>1, FS_EmptySet
    <2>5. DecisionInv /\ IssueInv /\ StoredOnce
        BY <2>4 DEF Init, DecisionInv, IssueInv, StoredOnce
    <2>6. TypeOK
        BY <2>3 DEF Init, TypeOK
    <2>. QED BY <2>3, <2>4, <2>5, <2>6 DEF RunInv
<1>2. RunInv /\ [Next]_vars => RunInv'
    BY RunStep
<1>. QED BY <1>1, <1>2, PTL DEF Spec

-----------------------------------------------------------------------------
(* The graph's state and the stored rows have the types their definitions  *)
(* give them, whoever drives the graph (state.py, run_service.py).         *)
THEOREM TypeCorrect == Spec => []TypeOK
<1>1. RunInv => TypeOK
    BY DEF RunInv
<1>. QED BY <1>1, RunInvariant, PTL

(* What the suitability or the tax guardrail turned down in any pass is    *)
(* never in the plan, for any catalogue of tickers, any number of retries  *)
(* and any version of the policy (guardrail_gate_node's exclusions).       *)
THEOREM TurnedDownIsNeverBought == Spec => []WithheldNeverBought
<1>1. RunInv => WithheldNeverBought
    BY DEF RunInv, GraphInv, ExclusionInv
<1>. QED BY <1>1, RunInvariant, PTL

(* A run that no person looked at sells nothing and recommends something,  *)
(* none of it flagged as a wash sale (approval_gate_node).                 *)
THEOREM UnattendedRunsAreChecked == Spec => []UnattendedIsChecked
<1>1. RunInv => UnattendedIsChecked
    BY DEF RunInv, GraphInv, TaxInv
<1>. QED BY <1>1, RunInvariant, PTL

(* A rejected run stores nothing to execute or to score, with any number   *)
(* of reviewers racing, failing and retrying (persist_run).                *)
THEOREM RejectionHolds == Spec => []RejectedIssuesNothing
<1>1. RunInv => RejectedIssuesNothing
    BY DEF RunInv, IssueInv, RejectedIssuesNothing, TypeOK
<1>. QED BY <1>1, RunInvariant, PTL

(* However many reviewers decide, fail and try again: the plan and the     *)
(* audit records are stored once, and reviewers who agree find their       *)
(* decision in the approval row, in the report and in the graph            *)
(* (decide_approval, persist_proposals, persist_audit_trail).              *)
THEOREM RetriedDecisionsSettle == Spec => []DecisionsSettle
<1>1. ASSUME RunInv PROVE AgreedDecisionStands
    <2>. SUFFICES ASSUME NEW d \in Decisions, answers = {d}, db.report # "absent"
                  PROVE  db.report = d /\ st.human = d /\ db.approval = d
        BY DEF AgreedDecisionStands
    <2>1. db.approval # "absent"
        BY <1>1 DEF RunInv, DecisionInv
    <2>2. db.approval = d /\ st.human = d
        BY <1>1, <2>1 DEF RunInv, DecisionInv
    <2>. QED BY <1>1, <2>2 DEF RunInv, DecisionInv, Decisions
<1>2. RunInv => DecisionsSettle
    BY <1>1 DEF RunInv, DecisionsSettle
<1>. QED BY <1>2, RunInvariant, PTL
=============================================================================
