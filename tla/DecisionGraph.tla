---------------------------- MODULE DecisionGraph ----------------------------
(***************************************************************************)
(* The graph of one deep analysis (graph.py, routing.py): data, analysts,   *)
(* debate, the trader's plan and its checks, the debate of risk, the risk   *)
(* judge (module RiskJudge), the fund manager, who may send the plan back   *)
(* once, and the report.  Nodes that are sent out together run together and *)
(* the next node waits for all of them.  The tool that runs the graph       *)
(* (agent_factory.py) ends the session and records the view when it is over.*)
(***************************************************************************)
EXTENDS RiskJudge

CONSTANTS Plans,        \* the plans the trader may answer with
          Declared      \* what the audience may have declared of its holdings

\* acts: buy or sell; priced: three prices given; sane: they hold together and
\* lie in the band; reasoned: a plan to wait says why and until when.
ASSUME PlansArePlans ==
    /\ Plans \subseteq [acts : BOOLEAN, priced : BOOLEAN, sane : BOOLEAN, reasoned : BOOLEAN]
    /\ Declared \subseteq {"yes", "no", "unknown"}

Verdicts == {"approve", "reject", "return"}

VARIABLES
    waiting,             \* the nodes sent out together that still run
    price_attempts,      \* how often a plan was sent back for its prices
    rationale_attempts,  \* how often for its missing reason
    verdict,             \* the fund manager's last decision, "none" before it
    return_count,        \* how often the fund manager sent the plan back
    report,              \* the final report is in the state
    session,             \* status of the session
    view                 \* direction of the recorded view, "none" without one

planVars == <<price_attempts, rationale_attempts>>
endVars == <<report, session, view>>
vars == <<at, inputs, judgeVars, waiting, planVars, verdict, return_count, endVars>>

-----------------------------------------------------------------------------
(* The edges of the graph that depend on nothing. *)
Edge == [fetch_data       |-> "validate_financials",
         compute_metrics  |-> "analysts_entry",
         verify_citations |-> "debate_r1_entry",
         generate_report  |-> "generate_file",
         generate_file    |-> "end"]

(* The nodes an entry sends out together, and the node that waits for them. *)
Sent == [analysts_entry  |-> {"technical", "macro", "fundamental", "sentiment"},
         debate_r1_entry |-> {"bull", "bear"},
         debate_r2_entry |-> {"bull", "bear"},
         risk_r1_entry   |-> {"aggressive", "conservative", "neutral"},
         risk_r2_entry   |-> {"aggressive", "conservative", "neutral"}]

Joined == [analysts_entry  |-> "verify_citations",
           debate_r1_entry |-> "debate_r2_entry",
           debate_r2_entry |-> "research_manager",
           risk_r1_entry   |-> "risk_r2_entry",
           risk_r2_entry   |-> "risk_judge"]

Init ==
    /\ at = "check_cache"
    /\ holds \in Declared
    /\ balanced = FALSE
    /\ prior \in {"none", "long", "short", "neutral"}
    /\ draft = NoDraft
    /\ note = [price |-> "none", rationale |-> "none", reeval |-> "none", trigger |-> "none"]
    /\ applied = "none" /\ gate = "none"
    /\ waiting = {}
    /\ price_attempts = 0 /\ rationale_attempts = 0
    /\ verdict = "none" /\ return_count = 0
    /\ report = FALSE /\ session = "running" /\ view = "none"

-----------------------------------------------------------------------------
CheckCache ==
    /\ at = "check_cache"
    /\ at' \in {"fetch_data", "validate_financials"}
    /\ UNCHANGED <<inputs, judgeVars, waiting, planVars, verdict, return_count, endVars>>

(* The balance of the statements fails, or they are missing: nothing follows. *)
ValidateFinancials ==
    /\ at = "validate_financials"
    /\ at' \in {"end", "compute_metrics"}
    /\ UNCHANGED <<inputs, judgeVars, waiting, planVars, verdict, return_count, endVars>>

GoOn ==
    /\ at \in DOMAIN Edge
    /\ at' = Edge[at]
    /\ report' = (report \/ at = "generate_report")
    /\ UNCHANGED <<inputs, judgeVars, waiting, planVars, verdict, return_count, session, view>>

SendOut ==
    /\ at \in DOMAIN Sent /\ waiting = {}
    /\ waiting' = Sent[at]
    /\ UNCHANGED <<at, inputs, judgeVars, planVars, verdict, return_count, endVars>>

NodeEnds(n) ==
    /\ at \in DOMAIN Joined /\ n \in waiting
    /\ waiting' = waiting \ {n}
    /\ at' = IF waiting' = {} THEN Joined[at] ELSE at
    /\ UNCHANGED <<inputs, judgeVars, planVars, verdict, return_count, endVars>>

(* The rating of the research manager decides whether evidence is balanced. *)
ResearchManager ==
    /\ at = "research_manager"
    /\ balanced' \in BOOLEAN
    /\ at' = "trader"
    /\ UNCHANGED <<holds, prior, judgeVars, waiting, planVars, verdict, return_count, endVars>>

-----------------------------------------------------------------------------
(* The trader's plan and validate_trade_prices, which follows it at once.   *)
(* Each of the two checks sends a plan back once in the whole analysis; its *)
(* counter is never reset, also not when the fund manager sends it back.    *)
PricesFail(p, usable) == p.acts /\ (~p.priced \/ (usable /\ ~p.sane))
ReasonFails(p) == ~p.acts /\ ~p.reasoned

\* Mutant of Counted: the key is not declared in the state, the merge drops it.
CountedNowhere(n, back) == n

Counted(n, back) == IF back THEN n + 1 ELSE n

TradePlan ==
    /\ at = "trader"
    /\ \E p \in Plans, usable \in BOOLEAN :   \* usable: band and quotes are there
          LET backForPrice == PricesFail(p, usable) /\ price_attempts < 1
              backForReason == ReasonFails(p) /\ rationale_attempts < 1
          IN /\ price_attempts' = Counted(price_attempts, backForPrice)
             /\ rationale_attempts' = Counted(rationale_attempts, backForReason)
             /\ at' = IF backForPrice \/ backForReason THEN "trader" ELSE "risk_r1_entry"
    /\ UNCHANGED <<inputs, judgeVars, waiting, verdict, return_count, endVars>>

\* Mutant of AfterRiskJudge: every decision goes on to the fund manager.
AfterRiskJudgeAlways(result) == "fund_manager"

(* The judge's last step and the routing after it. *)
AfterRiskJudge(result) == IF result = "fail" THEN "end" ELSE "fund_manager"

Judge ==
    /\ \/ Ask
       \/ Settle(AfterRiskJudge(gate))
    /\ UNCHANGED <<waiting, planVars, verdict, return_count, endVars>>

(* A verdict; the first return goes to the trader, later ones to the report. *)
AfterFundManager(v, returns) ==
    IF v = "return" /\ returns <= 1 THEN "trader" ELSE "generate_report"

FundManager ==
    /\ at = "fund_manager"
    /\ verdict' \in Verdicts
    /\ return_count' = Counted(return_count, verdict' = "return")
    /\ at' = AfterFundManager(verdict', return_count')
    /\ UNCHANGED <<inputs, judgeVars, waiting, planVars, endVars>>

(* A node raises: a call of a language model, a required source, an answer  *)
(* that does not validate.  The graph ends there.                           *)
Raise ==
    /\ at \notin {"end", "raised"}
    /\ at' = "raised" /\ waiting' = {}
    /\ UNCHANGED <<inputs, judgeVars, planVars, verdict, return_count, endVars>>

(* The graph is over: the tool stores the report and the view, or the       *)
(* failure.                                                                 *)
Close ==
    /\ at \in {"end", "raised"} /\ session = "running"
    /\ \/ /\ at = "end" /\ report
          /\ session' = "completed"
          /\ view' = Direction(draft.action)
       \/ /\ ~(at = "end" /\ report)
          /\ session' = "failed"
          /\ view' = view
    /\ UNCHANGED <<at, inputs, judgeVars, waiting, planVars, verdict, return_count, report>>

Next ==
    \/ CheckCache \/ ValidateFinancials \/ GoOn \/ SendOut
    \/ \E n \in waiting : NodeEnds(n)
    \/ ResearchManager \/ TradePlan \/ Judge \/ FundManager
    \/ Raise \/ Close

Spec == Init /\ [][Next]_vars

(* The graph is run by a thread, and every node ends: the calls of language *)
(* models and data sources have timeouts.                                   *)
FairSpec == Spec /\ WF_vars(Next)

-----------------------------------------------------------------------------
(* The decision the fund manager gets can be carried out: a sale has a type, *)
(* and an audience that declared not to own the stock is told no exit,      *)
(* whichever answer of whichever check brought the sale in.                 *)
FinalDecisionIsExecutable ==
    at = "fund_manager" => ~IsUntyped(draft) /\ ~NotExecutable(draft)

(* What the decision lacks when the fund manager gets it is told: the notes *)
(* on prices, on the reason for not acting and on the triggers say that     *)
(* something is missing, also when a later answer dropped what an earlier   *)
(* one had supplied (nodes/risk.py, the corrections after each retry).      *)
MissingIsTold ==
    at = "fund_manager" =>
        /\ PriceMissing(draft) => note.price = "missing"
        /\ RationaleMissing(draft) => note.rationale = "missing"
        /\ TriggerMissing(draft) => note.trigger = "missing"

(* Only a decision that passed the gate and has a verdict leaves the graph: *)
(* a blocked one gives no report and no view, and its session fails.        *)
OnlyJudgedDecisionsLeave ==
    /\ report => gate = "pass" /\ verdict # "none"
    /\ view # "none" => report /\ session = "completed"
    /\ session = "completed" => view = Direction(draft.action)

(* An analysis ends: plans sent back by the checks and by the fund manager  *)
(* do not go round for ever.                                                *)
SessionsEnd == <>(session # "running")

(* What the hysteresis settled stays: a decision kept at the last direction,*)
(* or taken back to a watch, reaches the fund manager with that direction   *)
(* unless it names a new fact.                                              *)
HysteresisHolds ==
    at = "fund_manager" /\ ~draft.evidence =>
        /\ applied = "kept" => Direction(draft.action) = prior
        /\ applied = "watched" => draft.action \in Idle
=============================================================================
