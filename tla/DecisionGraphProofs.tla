------------------------ MODULE DecisionGraphProofs ------------------------
(***************************************************************************)
(* Theorems about a decision session.  The pipeline first, for every set   *)
(* of drafts and plans a language model may answer with: the decision the  *)
(* fund manager gets can be carried out and its gaps are told, and nothing *)
(* but a judged decision leaves the graph.  Then the stream in which       *)
(* clients follow a session (StreamRegistry), for every set of clients,    *)
(* every queue capacity and every number of runs.                          *)
(***************************************************************************)
EXTENDS DecisionGraph, StreamRegistry, TLAPS

JudgeSteps == {"sell_type", "holdings", "price", "rationale", "reeval", "trigger",
               "gate", "final"}

NoteType == [price : Notes, rationale : Notes, reeval : Notes, trigger : Notes]

\* The decision is a draft from the judge's first answer on.
DraftOK ==
    /\ note \in NoteType
    /\ at \in JudgeSteps \cup {"fund_manager"} => draft \in Draft

\* Each gap is told from the check that asks about it to the last step.
GapsTold ==
    /\ at \in {"rationale", "reeval", "trigger", "gate", "final", "fund_manager"} =>
          (PriceMissing(draft) => note.price = "missing")
    /\ at \in {"reeval", "trigger", "gate", "final", "fund_manager"} =>
          (RationaleMissing(draft) => note.rationale = "missing")
    /\ at \in {"gate", "final", "fund_manager"} =>
          (TriggerMissing(draft) => note.trigger = "missing")

DecisionInv == DraftOK /\ GapsTold /\ FinalDecisionIsExecutable

\* Where the graph stands tells what was judged.
JudgedInv ==
    /\ at = "fund_manager" => gate = "pass"
    /\ at \in {"final"} => gate \in {"pass", "fail"}
    /\ at \in {"generate_report", "generate_file"} => gate = "pass" /\ verdict # "none"
    /\ report => at \in {"generate_file", "end", "raised"} /\ gate = "pass" /\ verdict # "none"
    /\ view # "none" => session = "completed"
    /\ session = "completed" => report /\ at = "end" /\ view = Direction(draft.action)
    /\ session \in {"running", "completed", "failed"} /\ report \in BOOLEAN

-----------------------------------------------------------------------------
(* What the deterministic changes of a draft leave. *)
LEMMA DowngradeOK ==
  ASSUME NEW d \in Draft
  PROVE  /\ DowngradeToWatch(d) \in Draft
         /\ ~PriceMissing(DowngradeToWatch(d))
         /\ ~IsExit(DowngradeToWatch(d)) /\ ~IsUntyped(DowngradeToWatch(d))
         /\ DowngradeToWatch(d).action = "watch"
BY DEF DowngradeToWatch, Draft, Actions, PriceMissing, Executing, IsExit, IsUntyped

LEMMA KeepPriorOK ==
  ASSUME NEW d \in Draft
  PROVE  KeepPrior(d) \in Draft
BY DEF KeepPrior, Draft, Actions, ActionOf

LEMMA CollapseOK ==
  ASSUME NEW d \in Draft
  PROVE  Collapse(d) \in Draft /\ ~IsUntyped(Collapse(d))
BY DEF Collapse, Draft, IsUntyped

LEMMA FinalDraftOK ==
  ASSUME NEW d \in Draft
  PROVE  /\ FinalDraft(d) \in Draft
         /\ ~IsUntyped(FinalDraft(d)) /\ ~NotExecutable(FinalDraft(d))
<1>1. Collapse(d) \in Draft /\ ~IsUntyped(Collapse(d))
  BY CollapseOK
<1>2. CASE NotExecutable(Collapse(d))
  <2>1. FinalDraft(d) = DowngradeToWatch(Collapse(d))
    BY <1>2 DEF FinalDraft
  <2>2. QED
    BY <1>1, <2>1, DowngradeOK DEF NotExecutable
<1>3. CASE ~NotExecutable(Collapse(d))
  BY <1>1, <1>3 DEF FinalDraft
<1>4. QED
  BY <1>2, <1>3

(* The answers of the model and the notes are of their types. *)
LEMMA AnswersAreDrafts == \A d \in Drafts : d \in Draft
BY DraftsAreDecisions

LEMMA NotesOK ==
  ASSUME NEW n \in Notes, NEW m \in BOOLEAN, NEW d
  PROVE  /\ Recheck(n, m) \in Notes /\ (m => Recheck(n, m) = "missing")
         /\ RecheckPrice(n, d) \in Notes
         /\ PriceMissing(d) => RecheckPrice(n, d) = "missing"
         /\ RecheckIfEmpty(n, m) \in Notes
         /\ Told(m) \in Notes /\ (m => Told(m) = "missing")
BY DEF Recheck, RecheckPrice, RecheckIfEmpty, Told, Notes

-----------------------------------------------------------------------------
(* A step that leaves the judge's state alone and does not enter it.        *)
LEMMA Elsewhere ==
  ASSUME DecisionInv, UNCHANGED <<note>>, at' \notin JudgeSteps \cup {"fund_manager"}
  PROVE  DecisionInv'
BY DEF DecisionInv, DraftOK, GapsTold, FinalDecisionIsExecutable, JudgeSteps

(* The nodes around the judge lead to none of its inner steps.              *)
LEMMA OutsideSteps ==
  ASSUME DecisionInv,
         \/ CheckCache \/ ValidateFinancials \/ GoOn
         \/ (\E n \in waiting : NodeEnds(n))
         \/ ResearchManager \/ TradePlan \/ FundManager \/ Raise
  PROVE  DecisionInv'
<1>1. CASE CheckCache \/ ValidateFinancials \/ ResearchManager \/ TradePlan \/ Raise
  BY <1>1, Elsewhere DEF CheckCache, ValidateFinancials, ResearchManager, TradePlan, Raise,
     JudgeSteps, judgeVars
<1>2. CASE GoOn
  <2>1. at' \notin JudgeSteps \cup {"fund_manager"}
    BY <1>2 DEF GoOn, Edge, JudgeSteps
  <2>2. QED
    BY <1>2, <2>1, Elsewhere DEF GoOn, judgeVars
<1>3. CASE FundManager
  BY <1>3, Elsewhere DEF FundManager, AfterFundManager, JudgeSteps, judgeVars
<1>4. ASSUME NEW n \in waiting, NodeEnds(n)
      PROVE  DecisionInv'
  <2>1. CASE at' = at
    BY <1>4, <2>1 DEF NodeEnds, judgeVars, inputs, DecisionInv, DraftOK, GapsTold,
       FinalDecisionIsExecutable, NotExecutable
  <2>2. CASE at' # at
    <3>1. at' = Joined[at]
      BY <1>4, <2>2 DEF NodeEnds
    <3>2. QED
      BY <1>4, <3>1, Elsewhere DEF NodeEnds, Joined, JudgeSteps, judgeVars
  <2>3. QED
    BY <2>1, <2>2
<1>5. QED
  BY <1>1, <1>2, <1>3, <1>4

(* The checks: a gap that is there after an answer is in the notes.         *)
LEMMA JudgeSteps1 ==
  ASSUME DecisionInv, FirstAnswer \/ AskSellType \/ AskHoldings
  PROVE  DecisionInv'
<1> USE DEF DecisionInv, DraftOK, GapsTold, FinalDecisionIsExecutable, JudgeSteps
<1>1. CASE FirstAnswer
  <2>1. draft' \in Draft
    BY <1>1, AnswersAreDrafts, KeepPriorOK, DowngradeOK DEF FirstAnswer
  <2>2. note' \in NoteType /\ at' = "sell_type"
    BY <1>1 DEF FirstAnswer, NoteType, Notes
  <2>3. QED
    BY <2>1, <2>2
<1>2. CASE AskSellType
  <2>1. draft' \in Draft
    BY <1>2, AnswersAreDrafts DEF AskSellType, Draft
  <2>2. note' \in NoteType /\ at' = "holdings"
    BY <1>2 DEF AskSellType, NoteType, Notes
  <2>3. QED
    BY <2>1, <2>2
<1>3. CASE AskHoldings
  <2>1. draft' \in Draft
    BY <1>3, AnswersAreDrafts, DowngradeOK DEF AskHoldings
  <2>2. note' \in NoteType /\ at' = "price"
    BY <1>3 DEF AskHoldings, NoteType, Notes
  <2>3. QED
    BY <2>1, <2>2
<1>4. QED
  BY <1>1, <1>2, <1>3

LEMMA JudgeSteps2 ==
  ASSUME DecisionInv, AskPrices \/ AskRationale \/ AskReeval
  PROVE  DecisionInv'
<1> USE DEF DecisionInv, DraftOK, GapsTold, FinalDecisionIsExecutable, JudgeSteps
<1>0. note.price \in Notes /\ note.rationale \in Notes
  BY DEF NoteType
<1>1. CASE AskPrices
  <2>1. draft' \in Draft
    BY <1>1, AnswersAreDrafts DEF AskPrices
  <2>2. note' \in NoteType /\ at' = "rationale"
    BY <1>1, NotesOK DEF AskPrices, NoteType, Told, Notes
  <2>3. PriceMissing(draft') => note'.price = "missing"
    BY <1>1 DEF AskPrices, NoteType, Told, PriceMissing
  <2>4. QED
    BY <2>1, <2>2, <2>3 DEF PriceMissing
<1>2. CASE AskRationale
  <2>1. draft' \in Draft
    BY <1>2, AnswersAreDrafts DEF AskRationale
  <2>2. note' \in NoteType /\ at' = "reeval"
    BY <1>2 DEF AskRationale, NoteType, Told, RecheckPrice, Notes
  <2>3. /\ PriceMissing(draft') => note'.price = "missing"
        /\ RationaleMissing(draft') => note'.rationale = "missing"
    BY <1>2 DEF AskRationale, NoteType, Told, RecheckPrice
  <2>4. QED
    BY <2>1, <2>2, <2>3 DEF PriceMissing, RationaleMissing
<1>3. CASE AskReeval
  <2>1. draft' \in Draft
    BY <1>3, AnswersAreDrafts DEF AskReeval
  <2>2. note' \in NoteType /\ at' = "trigger"
    BY <1>3 DEF AskReeval, NoteType, Told, RecheckPrice, Recheck, Notes
  <2>3. /\ PriceMissing(draft') => note'.price = "missing"
        /\ RationaleMissing(draft') => note'.rationale = "missing"
    BY <1>3 DEF AskReeval, NoteType, Recheck, RecheckPrice
  <2>4. QED
    BY <2>1, <2>2, <2>3 DEF PriceMissing, RationaleMissing
<1>4. QED
  BY <1>1, <1>2, <1>3

LEMMA JudgeSteps3 ==
  ASSUME DecisionInv, AskTrigger \/ AskGate
  PROVE  DecisionInv'
<1> USE DEF DecisionInv, DraftOK, GapsTold, FinalDecisionIsExecutable, JudgeSteps
<1>1. CASE AskTrigger
  <2>1. draft' \in Draft
    BY <1>1, AnswersAreDrafts DEF AskTrigger
  <2>2. note' \in NoteType /\ at' = "gate"
    BY <1>1 DEF AskTrigger, NoteType, Told, RecheckPrice, Recheck, RecheckIfEmpty, Notes
  <2>3. /\ PriceMissing(draft') => note'.price = "missing"
        /\ RationaleMissing(draft') => note'.rationale = "missing"
        /\ TriggerMissing(draft') => note'.trigger = "missing"
    BY <1>1 DEF AskTrigger, NoteType, Recheck, RecheckPrice, Told
  <2>4. QED
    BY <2>1, <2>2, <2>3 DEF PriceMissing, RationaleMissing, TriggerMissing
<1>2. CASE AskGate
  <2>1. draft' \in Draft /\ at' = "final"
    BY <1>2, AnswersAreDrafts DEF AskGate
  <2>2. (note' = note /\ draft' = draft) \/ note' = GateNote(draft')
    BY <1>2 DEF AskGate
  <2>3. note' \in NoteType
    BY <2>2 DEF GateNote, NoteType, RecheckPrice, Recheck, Notes
  <2>4. /\ PriceMissing(draft') => note'.price = "missing"
        /\ RationaleMissing(draft') => note'.rationale = "missing"
        /\ TriggerMissing(draft') => note'.trigger = "missing"
    <3>1. CASE note' = note /\ draft' = draft
      BY <1>2, <3>1 DEF AskGate
    <3>2. CASE note' = GateNote(draft')
      BY <3>2 DEF GateNote, Recheck, RecheckPrice
    <3>3. QED
      BY <2>2, <3>1, <3>2
  <2>5. QED
    BY <2>1, <2>3, <2>4 DEF PriceMissing, RationaleMissing, TriggerMissing
<1>3. QED
  BY <1>1, <1>2

(* The last step: what it changes, it tells again.                          *)
LEMMA SettleStep ==
  ASSUME DecisionInv, NEW next, next \in {"end", "fund_manager"}, Settle(next)
  PROVE  DecisionInv'
<1> USE DEF DecisionInv, DraftOK, GapsTold, FinalDecisionIsExecutable, JudgeSteps
<1>1. draft \in Draft /\ at = "final" /\ at' = next /\ draft' = FinalDraft(draft) /\ holds' = holds
  BY DEF Settle, inputs
<1>2. draft' \in Draft /\ ~IsUntyped(draft') /\ ~NotExecutable(draft')
  BY <1>1, FinalDraftOK
<1>3. CollapsedNote \in NoteType
  BY DEF CollapsedNote, NoteType, Notes
<1>4. CASE NotExecutable(Collapse(draft))
  <2>1. note' = FinalNote(CollapsedNote, draft')
    BY <1>4 DEF Settle
  <2>2. draft' = DowngradeToWatch(Collapse(draft))
    BY <1>1, <1>4 DEF FinalDraft
  <2>3. ~PriceMissing(draft') /\ draft'.action = "watch"
    BY <1>1, <2>2, CollapseOK, DowngradeOK
  <2>4. note' \in NoteType
    BY <1>3, <2>1 DEF FinalNote, NoteType, RecheckPrice, Recheck, RecheckIfEmpty, Notes
  <2>5. /\ RationaleMissing(draft') => note'.rationale = "missing"
        /\ TriggerMissing(draft') => note'.trigger = "missing"
    BY <2>1 DEF FinalNote, Recheck, TriggerMissing
  <2>6. QED
    BY <1>1, <1>2, <2>3, <2>4, <2>5 DEF NotExecutable, PriceMissing, RationaleMissing, TriggerMissing
<1>5. CASE ~NotExecutable(Collapse(draft))
  <2>1. note' = CollapsedNote /\ draft' = Collapse(draft)
    BY <1>1, <1>5 DEF Settle, FinalDraft
  <2>2. CASE IsUntyped(draft)
    <3>1. note'.price = "missing" /\ draft'.action = "sell"
      BY <1>1, <2>1, <2>2 DEF CollapsedNote, NoteType, Collapse, IsUntyped, Draft
    <3>2. QED
      BY <1>1, <1>2, <1>3, <2>1, <3>1 DEF NotExecutable, RationaleMissing, TriggerMissing, Idle,
         PriceMissing
  <2>3. CASE ~IsUntyped(draft)
    <3>1. note' = note /\ draft' = draft
      BY <2>1, <2>3 DEF CollapsedNote, Collapse
    <3>2. QED
      BY <1>1, <1>2, <3>1 DEF NotExecutable, PriceMissing, RationaleMissing, TriggerMissing
  <2>4. QED
    BY <2>2, <2>3
<1>6. QED
  BY <1>4, <1>5

LEMMA DecisionStep == DecisionInv /\ [Next]_vars => DecisionInv'
<1> SUFFICES ASSUME DecisionInv, [Next]_vars
             PROVE  DecisionInv'
  OBVIOUS
<1>1. CASE SendOut \/ Close \/ UNCHANGED vars
  BY <1>1 DEF SendOut, Close, vars, judgeVars, inputs, DecisionInv, DraftOK, GapsTold,
     FinalDecisionIsExecutable, NotExecutable, JudgeSteps
<1>2. CASE Judge
  <2>1. CASE Ask
    BY <2>1, JudgeSteps1, JudgeSteps2, JudgeSteps3 DEF Ask
  <2>2. CASE Settle(AfterRiskJudge(gate))
    BY <2>2, SettleStep DEF AfterRiskJudge
  <2>3. QED
    BY <1>2, <2>1, <2>2 DEF Judge
<1>3. QED
  BY <1>1, <1>2, OutsideSteps DEF Next

LEMMA DecisionHolds == Spec => []DecisionInv
<1>1. Init => DecisionInv
  BY DEF Init, DecisionInv, DraftOK, GapsTold, FinalDecisionIsExecutable, JudgeSteps, NoteType, Notes
<1>2. QED
  BY <1>1, DecisionStep, PTL DEF Spec

(* Whatever drafts the model answers with, the decision the fund manager    *)
(* gets has a type if it is a sale, and is no exit for an audience that     *)
(* declared not to own the stock (risk_judge).                              *)
THEOREM ExecutableDecisions == Spec => []FinalDecisionIsExecutable
<1>1. DecisionInv => FinalDecisionIsExecutable
  BY DEF DecisionInv
<1>2. QED
  BY <1>1, DecisionHolds, PTL

(* Whatever the later answers drop, the notes tell what the decision lacks. *)
THEOREM GapsAreTold == Spec => []MissingIsTold
<1>1. DecisionInv => MissingIsTold
  BY DEF DecisionInv, GapsTold, MissingIsTold
<1>2. QED
  BY <1>1, DecisionHolds, PTL

-----------------------------------------------------------------------------
(* What leaves the graph was judged.                                        *)
LEMMA JudgedStep == JudgedInv /\ [Next]_vars => JudgedInv'
<1> SUFFICES ASSUME JudgedInv, [Next]_vars
             PROVE  JudgedInv'
  OBVIOUS
<1> USE DEF JudgedInv
<1>1. CASE CheckCache \/ ValidateFinancials \/ SendOut \/ ResearchManager \/ TradePlan \/ Raise
  <2>1. CASE CheckCache \/ ValidateFinancials
    BY <2>1 DEF CheckCache, ValidateFinancials, judgeVars, endVars
  <2>2. CASE SendOut
    BY <2>2 DEF SendOut, judgeVars, endVars
  <2>3. CASE ResearchManager
    BY <2>3 DEF ResearchManager, judgeVars, endVars
  <2>4. CASE TradePlan
    <3>1. at = "trader" /\ at' \in {"trader", "risk_r1_entry"}
          /\ UNCHANGED <<draft, gate, verdict, report, session, view>>
      BY <2>4 DEF TradePlan, judgeVars, endVars
    <3>2. QED
      BY <3>1
  <2>5. CASE Raise
    <3>1. at' = "raised" /\ session # "completed" /\ view = "none"
          /\ UNCHANGED <<gate, verdict, report, session, view>>
      BY <2>5 DEF Raise, judgeVars, endVars
    <3>2. QED
      BY <3>1
  <2>6. QED
    BY <1>1, <2>1, <2>2, <2>3, <2>4, <2>5
<1>2. CASE GoOn
  <2>1. UNCHANGED <<draft, gate, verdict, session, view>> /\ session # "completed"
    BY <1>2 DEF GoOn, Edge, judgeVars
  <2>2. \/ at \in {"generate_report"} /\ at' = "generate_file" /\ report' = TRUE
        \/ at = "generate_file" /\ at' = "end" /\ report' = report
        \/ /\ at \notin {"generate_report", "generate_file", "end", "raised"}
           /\ at' \in {"validate_financials", "analysts_entry", "debate_r1_entry"}
           /\ report' = report
    <3>1. at \in DOMAIN Edge /\ at' = Edge[at] /\ report' = (report \/ at = "generate_report")
      BY <1>2 DEF GoOn
    <3>2. CASE at = "generate_report"
      BY <3>1, <3>2 DEF Edge
    <3>3. CASE at # "generate_report"
      BY <3>1, <3>3 DEF Edge
    <3>4. QED
      BY <3>2, <3>3
  <2>3. CASE at = "generate_report"
    BY <2>1, <2>2, <2>3
  <2>4. CASE at = "generate_file"
    BY <2>1, <2>2, <2>4
  <2>5. CASE at \notin {"generate_report", "generate_file"}
    <3>1. /\ at \notin {"generate_file", "end", "raised"} /\ report' = report
          /\ at' \in {"validate_financials", "analysts_entry", "debate_r1_entry"}
      BY <2>2, <2>5
    <3>2. ~report
      BY <3>1
    <3>3. report' = FALSE
      BY <3>1, <3>2
    <3>4. QED
      BY <2>1, <3>1, <3>3
  <2>6. QED
    BY <2>3, <2>4, <2>5
<1>3. ASSUME NEW n \in waiting, NodeEnds(n)
      PROVE  JudgedInv'
  <2>1. at \in DOMAIN Joined /\ at' \in {at, Joined[at]}
    BY <1>3 DEF NodeEnds
  <2>2. QED
    BY <1>3, <2>1 DEF NodeEnds, Joined, judgeVars, endVars
<1>4. CASE Judge
  <2>1. UNCHANGED <<verdict, report, session, view>> /\ ~report /\ session # "completed"
    BY <1>4 DEF Judge, Ask, endVars, FirstAnswer, AskSellType, AskHoldings, AskPrices,
       AskRationale, AskReeval, AskTrigger, AskGate, Settle
  <2>2. CASE AskGate
    BY <2>1, <2>2 DEF AskGate
  <2>3. CASE FirstAnswer \/ AskSellType \/ AskHoldings \/ AskPrices \/ AskRationale
             \/ AskReeval \/ AskTrigger
    BY <2>1, <2>3 DEF FirstAnswer, AskSellType, AskHoldings, AskPrices, AskRationale,
       AskReeval, AskTrigger
  <2>4. CASE Settle(AfterRiskJudge(gate))
    BY <2>1, <2>4 DEF Settle, AfterRiskJudge
  <2>5. QED
    BY <1>4, <2>2, <2>3, <2>4 DEF Judge, Ask
<1>5. CASE FundManager
  BY <1>5 DEF FundManager, AfterFundManager, Verdicts, judgeVars, endVars
<1>6. CASE Close
  <2>1. CASE at = "end" /\ report
    BY <1>6, <2>1 DEF Close, judgeVars
  <2>2. CASE ~(at = "end" /\ report)
    <3>1. session' = "failed" /\ view' = view /\ view = "none"
      BY <1>6, <2>2 DEF Close
    <3>2. QED
      BY <1>6, <3>1 DEF Close, judgeVars
  <2>3. QED
    BY <2>1, <2>2
<1>7. CASE UNCHANGED vars
  BY <1>7 DEF vars, judgeVars, endVars
<1>8. QED
  BY <1>1, <1>2, <1>3, <1>4, <1>5, <1>6, <1>7 DEF Next

(* A report and a view come only from a decision that passed the gate on    *)
(* prices and that has a verdict of the fund manager.                       *)
THEOREM LeavesJudged == Spec => []OnlyJudgedDecisionsLeave
<1>1. Init => JudgedInv
  BY DEF Init, JudgedInv
<1>2. JudgedInv => OnlyJudgedDecisionsLeave
  BY DEF JudgedInv, OnlyJudgedDecisionsLeave
<1>3. QED
  BY <1>1, <1>2, JudgedStep, PTL DEF Spec

-----------------------------------------------------------------------------
(***************************************************************************)
(* The stream of a session.  StreamInv is the inductive invariant: the     *)
(* server writes at most one terminal event of a run, counting the threads *)
(* nobody waits for, and what a client has not got yet is in its queue, is *)
(* lost, or is just being handed out, as long as nothing was dropped.      *)
(***************************************************************************)

EventTypes == {"token", "done", "error", "interrupted"}
Events == [run : Nat, type : EventTypes]

\* The stages that write a terminal event, and the stages before any of them.
Ends == {"done", "error", "auto_done", "auto_error"}
Opening == {"created", "starting", "generating", "token", "completing", "failing"}
Statuses == {"starting", "completing", "failing", "interrupting"}

\* A terminal event of the run `r` is in the journal; one is on its way there in
\* a thread nobody waits for.
Closed(r) == \E i \in DOMAIN journal :
             journal[i].run = r /\ journal[i].type \in Terminals
Closing(r) == \E call \in detached : call.run = r /\ call.stage \in Ends

TaskOK ==
    /\ task \in [run : Nat, stage : Stages, seq : Nat]
    /\ terminal \in BOOLEAN
    /\ task.seq # 0 => /\ task.stage \in Ends \cup {"token"}
                       /\ task.seq \in DOMAIN journal
                       /\ journal[task.seq].run = task.run

TablesOK ==
    /\ journal \in Seq(Events)
    /\ \A i \in DOMAIN journal : journal[i].run <= task.run
    /\ detached \subseteq [run : Nat, stage : Statuses \cup Ends \cup {"token"}]
    /\ \A call \in detached : call.run <= task.run

\* Of a run one terminal event is written at most, wherever it is on its way.
OneEnd ==
    /\ \A call \in detached : call.stage \in Ends => ~Closed(call.run)
    /\ \A call, other \in detached :
          call.stage \in Ends /\ other.stage \in Ends /\ call.run = other.run => call = other
    /\ task.stage \in Ends /\ task.seq = 0 => ~Closed(task.run) /\ ~Closing(task.run)
    /\ Active /\ ~terminal =>
          ~Closed(task.run) /\ ~Closing(task.run) /\ task.stage \notin Ends
    /\ task.stage \in Opening => ~terminal

ServerInv == TaskOK /\ TablesOK /\ OneEnd /\ TerminalClosesItsRun

-----------------------------------------------------------------------------
LEMMA StageNames ==
  /\ DOMAIN StatusOf = Statuses
  /\ DOMAIN EventOf = Ends \cup {"token"}
  /\ Stages = Statuses \cup Ends \cup {"token", "over", "created", "generating"}
  /\ EventOf["token"] = "token"
  /\ \A stage \in Ends : EventOf[stage] \in {"done", "error"}
BY DEF StatusOf, EventOf, Stages, Statuses, Ends

\* What a step may do to the journal: nothing, or one more row.
LEMMA Appended ==
  ASSUME NEW j \in Seq(Events), NEW e \in Events
  PROVE  /\ Append(j, e) \in Seq(Events)
         /\ Len(Append(j, e)) = Len(j) + 1
         /\ DOMAIN j = 1 .. Len(j) /\ Len(j) \in Nat
         /\ DOMAIN Append(j, e) = DOMAIN j \cup {Len(j) + 1}
         /\ Len(j) + 1 \notin DOMAIN j
         /\ Append(j, e)[Len(j) + 1] = e
         /\ \A i \in DOMAIN j : Append(j, e)[i] = j[i]
OBVIOUS

\* A row of the task's run, or of a detached call, goes into the journal.
LEMMA RowWritten ==
  ASSUME ServerInv, NEW e \in Events, journal' = Append(journal, e), lost \subseteq lost',
         e.run <= task.run,
         \/ Len(journal) + 1 \in lost'
         \/ e.run = task.run /\ ~Closed(task.run),
         e.type \in Terminals => ~Closed(e.run)
  PROVE  /\ TerminalClosesItsRun'
         /\ \A r : Closed(r)' <=> Closed(r) \/ (e.run = r /\ e.type \in Terminals)
<1>1. journal \in Seq(Events)
  BY DEF ServerInv, TablesOK
<1> DEFINE n == Len(journal) + 1
<1>2. /\ DOMAIN journal' = DOMAIN journal \cup {n}
      /\ n \notin DOMAIN journal /\ DOMAIN journal = 1 .. Len(journal) /\ Len(journal) \in Nat
      /\ journal'[n] = e
      /\ \A i \in DOMAIN journal : journal'[i] = journal[i]
  BY <1>1, Appended
<1>3. \A r : Closed(r)' <=> Closed(r) \/ (e.run = r /\ e.type \in Terminals)
  BY <1>2 DEF Closed
<1>4. \A i, j \in DOMAIN journal' : i < j /\ Closes(i, j)' => j \in lost'
  <2> SUFFICES ASSUME NEW i \in DOMAIN journal', NEW j \in DOMAIN journal', i < j,
                      Closes(i, j)', j \notin lost'
               PROVE  FALSE
    OBVIOUS
  <2>1. CASE j # n
    <3>1. j \in DOMAIN journal /\ i \in DOMAIN journal
      BY <1>2, <2>1
    <3>2. Closes(i, j)
      BY <1>2, <3>1 DEF Closes
    <3> QED
      BY <3>1, <3>2 DEF ServerInv, TerminalClosesItsRun
  <2>2. CASE j = n
    <3>1. i \in DOMAIN journal /\ journal'[i] = journal[i] /\ journal[i] \in Events
      BY <1>1, <1>2, <2>2
    <3>2. journal[i].run <= task.run /\ e.run = task.run /\ journal[i].run \in Nat
      BY <2>2, <3>1 DEF ServerInv, TablesOK, Events
    <3>3. journal[i].run = task.run /\ journal[i].type \in Terminals
      BY <1>2, <2>2, <3>1, <3>2 DEF Closes, Events
    <3> QED
      BY <2>2, <3>1, <3>3 DEF Closed
  <2> QED
    BY <2>1, <2>2
<1>5. \A i, j \in DOMAIN journal' :
         /\ {journal'[i].type, journal'[j].type} \subseteq Terminals
         /\ journal'[i].run = journal'[j].run
         => i = j
  <2> TAKE i, j \in DOMAIN journal'
  <2> HAVE {journal'[i].type, journal'[j].type} \subseteq Terminals
           /\ journal'[i].run = journal'[j].run
  <2>1. CASE i # n /\ j # n
    BY <1>2, <2>1 DEF ServerInv, TerminalClosesItsRun
  <2>2. CASE i = n /\ j # n
    BY <1>2, <2>2 DEF Closed
  <2>3. CASE i # n /\ j = n
    BY <1>2, <2>3 DEF Closed
  <2> QED
    BY <2>1, <2>2, <2>3
<1> QED
  BY <1>3, <1>4, <1>5 DEF TerminalClosesItsRun

\* Steps that write no row.
LEMMA NoRowWritten ==
  ASSUME ServerInv, journal' = journal, lost \subseteq lost'
  PROVE  TerminalClosesItsRun' /\ \A r : Closed(r)' <=> Closed(r)
BY DEF ServerInv, TerminalClosesItsRun, Closed, Closes

LEMMA InitServer ==
  ASSUME StreamInit
  PROVE  ServerInv
<1>1. /\ journal = << >> /\ detached = {} /\ terminal = FALSE
      /\ task = [run |-> 0, stage |-> "over", seq |-> 0]
  BY DEF StreamInit
<1>2. TaskOK
  BY <1>1, StageNames DEF TaskOK
<1>3. DOMAIN journal = {} /\ TablesOK
  BY <1>1 DEF TablesOK
<1>4. OneEnd
  BY <1>1, <1>3 DEF OneEnd, Closed, Closing, Active, Ends, Opening
<1>5. TerminalClosesItsRun
  BY <1>3 DEF TerminalClosesItsRun
<1> QED
  BY <1>2, <1>3, <1>4, <1>5 DEF ServerInv

LEMMA StartStep ==
  ASSUME ServerInv, Start
  PROVE  ServerInv'
<1>1. /\ task' = [run |-> task.run + 1, stage |-> "created", seq |-> 0] /\ terminal' = FALSE
      /\ journal' = journal /\ detached' = detached /\ lost' = lost
  BY DEF Start
<1>2. TerminalClosesItsRun' /\ \A r : Closed(r)' <=> Closed(r)
  BY <1>1, NoRowWritten
<1>3. task.run \in Nat /\ task'.run = task.run + 1 /\ task'.seq = 0 /\ task'.stage = "created"
  BY <1>1 DEF ServerInv, TaskOK
<1>4. TaskOK'
  <2>1. task' \in [run : Nat, stage : Stages, seq : Nat]
    BY <1>1, <1>3, StageNames
  <2>2. terminal' \in BOOLEAN
    BY <1>1
  <2> QED
    BY <1>3, <2>1, <2>2 DEF TaskOK
<1>5. /\ \A i \in DOMAIN journal : journal[i].run \in Nat /\ journal[i].run <= task.run
      /\ \A call \in detached : call.run \in Nat /\ call.run <= task.run
  <2>1. \A i \in DOMAIN journal : journal[i].run \in Nat /\ journal[i].run <= task.run
    <3>1. \A i \in DOMAIN journal : journal[i] \in Events /\ journal[i].run <= task.run
      BY DEF ServerInv, TablesOK
    <3> QED
      BY <3>1 DEF Events
  <2>2. \A call \in detached : call.run \in Nat /\ call.run <= task.run
    BY DEF ServerInv, TablesOK
  <2> QED
    BY <2>1, <2>2
<1>6. TablesOK'
  <2>1. /\ \A i \in DOMAIN journal : journal[i].run <= task'.run
        /\ \A call \in detached : call.run <= task'.run
    BY <1>3, <1>5
  <2> QED
    BY <1>1, <2>1 DEF ServerInv, TablesOK
<1>7. ~Closed(task'.run) /\ ~Closing(task'.run)
  BY <1>3, <1>5 DEF Closed, Closing
<1>8. OneEnd'
  BY <1>1, <1>2, <1>3, <1>7 DEF ServerInv, OneEnd, Closing, Active, Ends, Opening
<1> QED
  BY <1>2, <1>4, <1>6, <1>8 DEF ServerInv

\* The task goes on to another stage and writes nothing.
LEMMA Entered ==
  ASSUME ServerInv, NEW stage \in Stages, Enter(stage),
         UNCHANGED <<journal, detached>>, lost \subseteq lost', terminal' \in BOOLEAN,
         stage \in Ends => ~Closed(task.run) /\ ~Closing(task.run) /\ terminal',
         stage \in Opening => ~terminal',
         stage # "over" /\ ~terminal' => ~Closed(task.run) /\ ~Closing(task.run)
  PROVE  ServerInv'
<1>1. /\ task' = [run |-> task.run, stage |-> stage, seq |-> 0]
  BY DEF ServerInv, TaskOK, Enter
<1>2. TerminalClosesItsRun' /\ \A r : Closed(r)' <=> Closed(r)
  BY NoRowWritten
<1>3. TaskOK'
  BY <1>1 DEF ServerInv, TaskOK
<1>4. TablesOK'
  BY <1>1 DEF ServerInv, TablesOK
<1>5. OneEnd'
  BY <1>1, <1>2 DEF ServerInv, OneEnd, Closing, Active
<1> QED
  BY <1>2, <1>3, <1>4, <1>5 DEF ServerInv

LEMMA FirstStepStep ==
  ASSUME ServerInv, FirstStep
  PROVE  ServerInv'
<1>1. /\ task.stage = "created" /\ Enter("starting") /\ terminal' = terminal
      /\ journal' = journal /\ detached' = detached /\ lost' = lost
  BY DEF FirstStep
<1>2. ~terminal /\ ~Closed(task.run) /\ ~Closing(task.run) /\ terminal \in BOOLEAN
  BY <1>1 DEF ServerInv, OneEnd, TaskOK, Opening, Active
<1>3. "starting" \in Stages \ (Ends \cup {"over"})
  BY StageNames DEF Ends, Statuses
<1> QED
  BY <1>1, <1>2, <1>3, Entered

LEMMA GenerateStep ==
  ASSUME ServerInv, Generate
  PROVE  ServerInv'
<1>1. /\ task.stage = "generating" /\ terminal' = terminal
      /\ journal' = journal /\ detached' = detached /\ lost' = lost
  BY DEF Generate
<1>2. ~terminal /\ ~Closed(task.run) /\ ~Closing(task.run) /\ terminal \in BOOLEAN
  BY <1>1 DEF ServerInv, OneEnd, TaskOK, Opening, Active
<1>3. PICK stage \in {"token", "completing", "failing"} : Enter(stage)
  BY DEF Generate
<1>4. stage \in Stages \ (Ends \cup {"over"})
  BY StageNames DEF Ends, Statuses
<1> QED
  BY <1>1, <1>2, <1>3, <1>4, Entered

\* The end of a task leaves nothing behind that could write a second terminal event.
LEMMA Left ==
  ASSUME ServerInv, NEW stage \in {"over", "interrupting"}, Enter(stage), Active,
         \/ detached' = detached
         \/ Waiting /\ detached' = detached \cup {Call},
         lost \subseteq lost', terminal' \in BOOLEAN,
         \/ journal' = journal /\ (stage = "over" \/ terminal' = terminal)
         \/ /\ journal' = Append(journal, [run |-> task.run, type |-> "interrupted"])
            /\ ~terminal /\ terminal'
  PROVE  ServerInv'
<1>1. task' = [run |-> task.run, stage |-> stage, seq |-> 0] /\ task.run \in Nat
  BY DEF ServerInv, TaskOK, Enter
<1>2. stage \in Stages \ (Ends \cup Opening)
  BY StageNames DEF Ends, Opening, Statuses
<1>3. TaskOK'
  BY <1>1, <1>2 DEF TaskOK
<1>4. ASSUME Waiting
      PROVE  /\ Call.run = task.run /\ Call.stage = task.stage
             /\ Call \in [run : Nat, stage : Statuses \cup Ends \cup {"token"}]
  BY <1>1, <1>4, StageNames DEF Call, Waiting
<1>5. /\ detached' \subseteq [run : Nat, stage : Statuses \cup Ends \cup {"token"}]
      /\ \A call \in detached' : call.run <= task.run
  BY <1>1, <1>4 DEF ServerInv, TablesOK
<1>6. \A call, other \in detached' :
         call.stage \in Ends /\ other.stage \in Ends /\ call.run = other.run => call = other
  BY <1>4 DEF ServerInv, OneEnd, Closing, Waiting
<1>7. /\ \A call \in detached' : call.stage \in Ends => ~Closed(call.run)
      /\ ~terminal => ~Closed(task.run)
                      /\ \A call \in detached' : call.stage \in Ends => call.run # task.run
  BY <1>4 DEF ServerInv, OneEnd, Closing, Waiting
<1>8. CASE journal' = journal
  <2>1. TerminalClosesItsRun' /\ \A r : Closed(r)' <=> Closed(r)
    BY <1>8, NoRowWritten
  <2>2. TablesOK'
    BY <1>1, <1>5, <1>8 DEF ServerInv, TablesOK
  <2>3. OneEnd'
    BY <1>1, <1>2, <1>6, <1>7, <1>8, <2>1 DEF OneEnd, Active, Closing
  <2> QED
    BY <1>3, <2>1, <2>2, <2>3 DEF ServerInv
<1>9. CASE /\ journal' = Append(journal, [run |-> task.run, type |-> "interrupted"])
           /\ ~terminal /\ terminal'
  <2> DEFINE e == [run |-> task.run, type |-> "interrupted"]
  <2>1. e \in Events
    BY <1>1 DEF Events, EventTypes
  <2>2. e.run = task.run
    OBVIOUS
  <2> HIDE DEF e
  <2>3. journal' = Append(journal, e)
    BY <1>9 DEF e
  <2>4. TerminalClosesItsRun' /\ \A r : Closed(r)' => Closed(r) \/ r = task.run
    <3>1. e.run <= task.run
      BY <1>1, <2>2
    <3> QED
      BY <1>7, <1>9, <2>1, <2>2, <2>3, <3>1, RowWritten
  <2>5. TablesOK'
    <3>1. /\ journal' \in Seq(Events)
          /\ DOMAIN journal' = DOMAIN journal \cup {Len(journal) + 1}
          /\ \A i \in DOMAIN journal : journal'[i] = journal[i]
          /\ journal'[Len(journal) + 1] = e
      BY <2>1, <2>3, Appended DEF ServerInv, TablesOK
    <3>2. \A i \in DOMAIN journal' : journal'[i].run <= task.run
      BY <1>1, <2>2, <3>1 DEF ServerInv, TablesOK
    <3> QED
      BY <1>1, <1>5, <3>1, <3>2 DEF TablesOK
  <2>6. OneEnd'
    BY <1>1, <1>2, <1>6, <1>7, <1>9, <2>4 DEF OneEnd, Active, Closing
  <2> QED
    BY <1>3, <2>4, <2>5, <2>6 DEF ServerInv
<1> QED
  BY <1>8, <1>9

LEMMA InterruptServer ==
  ASSUME ServerInv, InterruptRun, Active,
         \/ detached' = detached
         \/ Waiting /\ detached' = detached \cup {Call},
         lost \subseteq lost'
  PROVE  ServerInv'
<1>1. Enter("over") /\ terminal' = TRUE
  BY DEF InterruptRun, RunOver
<1>2. \/ journal' = journal
      \/ journal' = Append(journal, [run |-> task.run, type |-> "interrupted"]) /\ ~terminal
  BY DEF InterruptRun, Marked
<1> QED
  BY <1>1, <1>2, Left

LEMMA PublishServer ==
  ASSUME ServerInv, NEW stage \in Ends, NEW table, PublishTerminal(stage, table),
          Active,
         UNCHANGED <<journal, detached, lost>>
  PROVE  ServerInv'
<1>1. CASE terminal
  <2>1. Enter("over") /\ terminal' = terminal
    BY <1>1 DEF PublishTerminal, Marked, RunOver
  <2> QED
    BY <2>1, Left DEF ServerInv, TaskOK
<1>2. CASE ~terminal
  <2>1. Enter(stage) /\ terminal' = TRUE
    BY <1>2 DEF PublishTerminal, Marked
  <2>2. ~Closed(task.run) /\ ~Closing(task.run)
    BY <1>2 DEF ServerInv, OneEnd
  <2>3. stage \in Stages \ Opening
    BY StageNames DEF Ends, Opening
  <2> QED
    BY <2>1, <2>2, <2>3, Entered
<1> QED
  BY <1>1, <1>2

LEMMA WriteStatusStep ==
  ASSUME ServerInv, WriteStatus
  PROVE  ServerInv'
<1>1. /\ task.stage \in Statuses /\ Active
      /\ journal' = journal \/ task.stage = "interrupting"
      /\ detached' = detached /\ lost' = lost
  BY StageNames DEF WriteStatus, Statuses, Active
<1>2. CASE task.stage = "starting"
  <2>1. Enter("generating") /\ journal' = journal /\ terminal' = terminal
    BY <1>2 DEF WriteStatus
  <2>2. ~terminal /\ ~Closed(task.run) /\ ~Closing(task.run) /\ terminal \in BOOLEAN
    BY <1>2 DEF ServerInv, OneEnd, TaskOK, Opening, Active
  <2>3. "generating" \in Stages \ (Ends \cup {"over"})
    BY StageNames DEF Ends, Statuses
  <2> QED
    BY <1>1, <2>1, <2>2, <2>3, Entered
<1>3. CASE task.stage = "completing"
  <2>1. PublishTerminal("done", clients) /\ journal' = journal
    BY <1>3 DEF WriteStatus
  <2> QED
    BY <1>1, <2>1, PublishServer DEF Ends
<1>4. CASE task.stage = "failing"
  <2>1. PublishTerminal("error", clients) /\ journal' = journal
    BY <1>4 DEF WriteStatus
  <2> QED
    BY <1>1, <2>1, PublishServer DEF Ends
<1>5. CASE task.stage = "interrupting"
  <2>1. InterruptRun
    BY <1>5 DEF WriteStatus
  <2> QED
    BY <1>1, <2>1, InterruptServer
<1> QED
  BY <1>1, <1>2, <1>3, <1>4, <1>5 DEF Statuses

LEMMA CommitServer ==
  ASSUME ServerInv, Commit
  PROVE  ServerInv'
<1> DEFINE e == [run |-> task.run, type |-> EventOf[task.stage]]
           n == Len(journal) + 1
<1>1. /\ task.stage \in Ends \cup {"token"} /\ task.seq = 0
      /\ journal' = Append(journal, e) /\ task' = [task EXCEPT !.seq = n]
      /\ terminal' = terminal /\ detached' = detached /\ lost' = lost
  BY StageNames DEF Commit
<1>2. e \in Events /\ e.run = task.run /\ task.run \in Nat
      /\ (e.type \in Terminals => task.stage \in Ends)
  BY <1>1, StageNames DEF ServerInv, TaskOK, Events, EventTypes, Ends, Terminals
<1> HIDE DEF e
<1>3. Active /\ ~Closed(task.run) /\ (task.stage \in Ends => ~Closing(task.run))
  BY <1>1 DEF ServerInv, OneEnd, Active, Ends, Opening
<1>4. /\ TerminalClosesItsRun'
      /\ \A r : Closed(r)' <=> Closed(r) \/ (e.run = r /\ e.type \in Terminals)
  <2>1. e.run <= task.run
    BY <1>2
  <2> QED
    BY <1>1, <1>2, <1>3, <2>1, RowWritten
<1>5. /\ journal' \in Seq(Events) /\ n \in Nat \ {0}
      /\ DOMAIN journal' = DOMAIN journal \cup {n}
      /\ \A i \in DOMAIN journal : journal'[i] = journal[i]
      /\ journal'[n] = e
  BY <1>1, <1>2, Appended DEF ServerInv, TablesOK
<1> HIDE DEF n
<1>6. task' = [run |-> task.run, stage |-> task.stage, seq |-> n]
      /\ task'.run = task.run /\ task'.stage = task.stage /\ task'.seq = n
  BY <1>1 DEF ServerInv, TaskOK
<1>7. TaskOK'
  <2>1. task' \in [run : Nat, stage : Stages, seq : Nat]
    BY <1>5, <1>6 DEF ServerInv, TaskOK
  <2> QED
    BY <1>1, <1>2, <1>5, <1>6, <2>1 DEF ServerInv, TaskOK
<1>8. TablesOK'
  <2>1. \A i \in DOMAIN journal' : journal'[i].run <= task.run
    BY <1>2, <1>5 DEF ServerInv, TablesOK
  <2> QED
    BY <1>1, <1>5, <1>6, <2>1 DEF ServerInv, TablesOK
<1>9. OneEnd'
  BY <1>1, <1>2, <1>3, <1>4, <1>5, <1>6 DEF ServerInv, OneEnd,
         Active, Closing, Ends, Opening
<1> QED
  BY <1>4, <1>7, <1>8, <1>9 DEF ServerInv

LEMMA CommitFailsServer ==
  ASSUME ServerInv, CommitFails
  PROVE  ServerInv'
<1>1. /\ task.stage \in Ends \cup {"token"} /\ task.seq = 0 /\ Active
      /\ journal' = journal /\ detached' = detached /\ lost' = lost
  BY StageNames DEF CommitFails, Active, Ends
<1>2. /\ ~Closed(task.run)
      /\ task.stage \in Ends => ~Closing(task.run) /\ terminal
      /\ task.stage = "token" => ~Closing(task.run) /\ ~terminal
      /\ terminal \in BOOLEAN
  BY <1>1 DEF ServerInv, OneEnd, Opening, TaskOK
<1>3. /\ {"failing", "auto_error"} \subseteq Stages /\ "failing" \notin Ends
      /\ "auto_error" \in Ends \ Opening
  BY StageNames DEF Statuses, Ends, Opening
<1>4. CASE task.stage = "token"
  <2>1. Enter("failing") /\ terminal' = terminal
    BY <1>4 DEF CommitFails
  <2> QED
    BY <1>1, <1>2, <1>3, <1>4, <2>1, Entered
<1>5. CASE task.stage = "done"
  <2>1. Enter("failing") /\ terminal' = FALSE
    BY <1>5 DEF CommitFails
  <2> QED
    BY <1>1, <1>2, <1>3, <1>5, <2>1, Entered DEF Ends
<1>6. CASE task.stage = "error"
  <2>1. Enter("auto_error") /\ terminal' = terminal
    BY <1>6 DEF CommitFails
  <2> QED
    BY <1>1, <1>2, <1>3, <1>6, <2>1, Entered DEF Ends
<1>7. CASE task.stage \in {"auto_done", "auto_error"}
  <2>1. Enter("over") /\ terminal' = terminal
    BY <1>7 DEF CommitFails, RunOver
  <2> QED
    BY <1>1, <1>2, <2>1, Left
<1> QED
  BY <1>1, <1>4, <1>5, <1>6, <1>7 DEF Ends

LEMMA FanOutServer ==
  ASSUME ServerInv, FanOut
  PROVE  ServerInv'
<1> DEFINE after == Offer(clients, task.run, task.seq)
<1>1. /\ task.stage \in Ends \cup {"token"} /\ Active /\ task.seq # 0
      /\ journal' = journal /\ detached' = detached /\ lost' = lost
  BY DEF FanOut, ServerInv, TaskOK, Active, Ends
<1>2. CASE task.stage = "token"
  <2>1. Enter("generating") /\ terminal' = terminal
    BY <1>2 DEF FanOut
  <2>2. ~terminal /\ ~Closed(task.run) /\ ~Closing(task.run) /\ terminal \in BOOLEAN
    BY <1>1, <1>2 DEF ServerInv, OneEnd, TaskOK, Opening
  <2>3. "generating" \in Stages \ (Ends \cup {"over"})
    BY StageNames DEF Ends, Statuses
  <2> QED
    BY <1>1, <2>1, <2>2, <2>3, Entered
<1>3. CASE task.stage = "done"
  <2>1. PublishTerminal("auto_done", after)
    BY <1>3 DEF FanOut
  <2> QED
    BY <1>1, <2>1, PublishServer DEF Ends
<1>4. CASE task.stage = "error"
  <2>1. PublishTerminal("auto_error", after)
    BY <1>4 DEF FanOut
  <2> QED
    BY <1>1, <2>1, PublishServer DEF Ends
<1>5. CASE task.stage \in {"auto_done", "auto_error"}
  <2>1. Enter("over") /\ terminal' = terminal
    BY <1>5 DEF FanOut, RunOver
  <2> QED
    BY <1>1, <2>1, Left DEF ServerInv, TaskOK
<1> QED
  BY <1>1, <1>2, <1>3, <1>4, <1>5 DEF Ends

LEMMA CancelServer ==
  ASSUME ServerInv, Cancel
  PROVE  ServerInv'
<1>1. /\ Active /\ lost \subseteq lost' /\ terminal \in BOOLEAN
      /\ \/ detached' = detached
         \/ Waiting /\ detached' = detached \cup {Call}
  BY DEF Cancel, Abandon, ServerInv, TaskOK
<1>2. CASE task.stage \in {"failing", "error", "interrupting"}
  <2>1. InterruptRun
    BY <1>2 DEF Cancel
  <2> QED
    BY <1>1, <2>1, InterruptServer
<1>3. CASE task.stage \in {"starting", "generating", "token", "completing", "done"}
  <2>1. Enter("interrupting") /\ journal' = journal /\ terminal' = terminal
    BY <1>3 DEF Cancel
  <2> QED
    BY <1>1, <2>1, Left
<1>4. CASE task.stage \in {"created", "auto_done", "auto_error"}
  <2>1. Enter("over") /\ journal' = journal /\ terminal' = terminal
    BY <1>4 DEF Cancel, RunOver
  <2> QED
    BY <1>1, <2>1, Left
<1> QED
  BY <1>1, <1>2, <1>3, <1>4, StageNames DEF ServerInv, TaskOK, Active, Ends, Statuses

\* A detached publish is the only terminal event of its run, and its row counts as lost.
LEMMA FinishDetachedServer ==
  ASSUME ServerInv, NEW call \in detached, FinishDetached(call)
  PROVE  ServerInv'
<1>1. /\ detached' = detached \ {call} /\ task' = task /\ terminal' = terminal
      /\ call.run \in Nat /\ call.run <= task.run
      /\ call.stage \in Statuses \cup Ends \cup {"token"}
  BY DEF FinishDetached, ServerInv, TablesOK
<1>2. CASE call.stage \in Statuses
  <2>1. journal' = journal /\ lost' = lost
    BY <1>2, StageNames DEF FinishDetached
  <2>2. TerminalClosesItsRun' /\ \A r : Closed(r)' <=> Closed(r)
    BY <2>1, NoRowWritten
  <2>3. TaskOK' /\ TablesOK' /\ OneEnd'
    BY <1>1, <2>1, <2>2 DEF ServerInv, TaskOK, TablesOK, OneEnd, Active, Closing
  <2> QED
    BY <2>2, <2>3 DEF ServerInv
<1>3. CASE call.stage \notin Statuses
  <2> DEFINE e == [run |-> call.run, type |-> EventOf[call.stage]]
             n == Len(journal) + 1
  <2>1. journal' = Append(journal, e) /\ lost' = lost \cup {n}
    BY <1>3, StageNames DEF FinishDetached
  <2>2. e \in Events /\ e.run = call.run
          /\ (e.type \in Terminals => call.stage \in Ends)
    BY <1>1, <1>3, StageNames DEF Events, EventTypes, Ends, Terminals
  <2> HIDE DEF e
  <2>3. call.stage \in Ends => ~Closed(call.run)
    BY DEF ServerInv, OneEnd
  <2>4. /\ TerminalClosesItsRun'
        /\ \A r : Closed(r)' <=> Closed(r) \/ (e.run = r /\ e.type \in Terminals)
    BY <1>1, <2>1, <2>2, <2>3, RowWritten
  <2>5. /\ journal' \in Seq(Events)
        /\ DOMAIN journal' = DOMAIN journal \cup {n}
        /\ \A i \in DOMAIN journal : journal'[i] = journal[i]
        /\ journal'[n] = e
    BY <2>1, <2>2, Appended DEF ServerInv, TablesOK
  <2> HIDE DEF n
  <2>6. TaskOK'
    BY <1>1, <2>5 DEF ServerInv, TaskOK
  <2>7. TablesOK'
    BY <1>1, <2>2, <2>5 DEF ServerInv, TablesOK
  <2>8. OneEnd'
    BY <1>1, <2>2, <2>4 DEF ServerInv, OneEnd, Active, Closing
  <2> QED
    BY <2>4, <2>6, <2>7, <2>8 DEF ServerInv
<1> QED
  BY <1>2, <1>3

LEMMA RestartServer ==
  ASSUME ServerInv, Restart
  PROVE  ServerInv'
<1>1. /\ Enter("over") /\ detached' = {} /\ lost \subseteq lost'
      /\ journal' = journal /\ terminal' = terminal
  BY DEF Restart
<1>2. task' = [run |-> task.run, stage |-> "over", seq |-> 0]
  BY <1>1 DEF ServerInv, TaskOK, Enter
<1>3. TerminalClosesItsRun' /\ \A r : Closed(r)' <=> Closed(r)
  BY <1>1, NoRowWritten
<1>4. TaskOK'
  BY <1>1, <1>2, StageNames DEF ServerInv, TaskOK
<1>5. TablesOK'
  BY <1>1, <1>2 DEF ServerInv, TablesOK
<1>6. OneEnd'
  BY <1>1, <1>2 DEF OneEnd, Active, Ends, Opening
<1> QED
  BY <1>3, <1>4, <1>5, <1>6 DEF ServerInv

LEMMA ServerUnchanged ==
  ASSUME ServerInv, UNCHANGED serverVars
  PROVE  ServerInv'
BY DEF serverVars, ServerInv, TaskOK, TablesOK, OneEnd, Active, Closed, Closing,
   TerminalClosesItsRun, Closes

LEMMA ServerStep ==
  ASSUME ServerInv, [StreamNext]_streamVars
  PROVE  ServerInv'
<1>1. CASE \E c \in Clients :
              \/ \E after \in 0 .. Len(journal) : Subscribe(c, after)
              \/ Replay(c) \/ ReadMissed(c) \/ Take(c) \/ Leave(c)
  <2>1. UNCHANGED serverVars
    BY <1>1 DEF Subscribe, Replay, ReadMissed,
           Take, Leave, Update
  <2> QED
    BY <2>1, ServerUnchanged
<1>2. CASE UNCHANGED streamVars
  BY <1>2, ServerUnchanged DEF streamVars
<1>3. CASE \E call \in detached : FinishDetached(call)
  BY <1>3, FinishDetachedServer
<1> QED
  BY <1>1, <1>2, <1>3, StartStep, FirstStepStep, GenerateStep, WriteStatusStep, CommitServer,
     CommitFailsServer, FanOutServer, CancelServer, RestartServer DEF StreamNext

-----------------------------------------------------------------------------
(* The clients.  A server is a record of what they can see of it.          *)

ClientStages == {"gone", "replay", "catch_up", "live", "ended"}
ClientRecord == [pc : ClientStages, run : Nat, after : Nat, upto : Nat, queue : Seq(Nat),
                 got : SUBSET Nat, slow : BOOLEAN]

Servers == [journal : Seq(Events), lost : SUBSET Nat, run : Nat, active : BOOLEAN, seq : Nat]

Server == [journal |-> journal, lost |-> lost, run |-> task.run, active |-> Active,
           seq |-> task.seq]

Queued(m) == {m.queue[k] : k \in DOMAIN m.queue}
Follows(m, v) == v.active /\ v.run = m.run

\* What it got is without holes, and it has seen the end of its run.
Gapless(m, v) ==
    \A seq \in m.got : \A earlier \in m.after + 1 .. seq : earlier \in m.got \cup v.lost
SawTheEnd(m, v) ==
    m.pc = "ended" /\ m.run # 0 =>
        \/ \E i \in m.got : v.journal[i].run = m.run /\ v.journal[i].type \in Terminals
        \/ ~Follows(m, v)

\* Every queued row is one of its run; an end in the queue is the end of its run.
QueueOK(m, v) ==
    /\ \A seq \in Queued(m) \ {0} : seq \in DOMAIN v.journal /\ v.journal[seq].run = m.run
    /\ 0 \in Queued(m) => ~Follows(m, v)

\* In front of a queued row nothing is missing; behind the last one only the row
\* that is just being handed out.
Complete(m, v) ==
    m.pc \in {"catch_up", "live"} =>
        /\ \A k \in DOMAIN m.queue :
              \A e \in m.after + 1 .. m.queue[k] :
                 e \in m.got \cup v.lost \cup {m.queue[h] : h \in 1 .. k}
        /\ ~m.slow /\ Follows(m, v) =>
              \A e \in m.after + 1 .. Len(v.journal) :
                 e \in m.got \cup v.lost \cup Queued(m) \cup {v.seq}

ReadSoFar(m, v) ==
    /\ m.after <= Len(v.journal) /\ m.got \subseteq DOMAIN v.journal
    /\ m.pc = "replay" => m.got = {} /\ m.upto = m.after
    /\ m.pc = "catch_up" => m.after <= m.upto /\ m.got = m.after + 1 .. m.upto

ClientOK(m, v) ==
    /\ m \in ClientRecord
    /\ m.run <= v.run
    /\ ReadSoFar(m, v)
    /\ QueueOK(m, v)
    /\ Complete(m, v)
    /\ Gapless(m, v)
    /\ SawTheEnd(m, v)

\* The server goes on without handing anything out.
Grows(v, w) ==
    /\ Len(v.journal) <= Len(w.journal)
    /\ \A i \in DOMAIN v.journal : w.journal[i] = v.journal[i]
    /\ v.lost \subseteq w.lost
    /\ v.run <= w.run
    /\ w.active => v.active \/ v.run < w.run
    /\ w.active /\ w.run = v.run =>
          \A e \in DOMAIN w.journal :
             e \in (DOMAIN v.journal \ {v.seq}) \cup w.lost \cup {w.seq}

LEMMA Grown ==
  ASSUME NEW m, NEW v \in Servers, NEW w \in Servers, ClientOK(m, v), Grows(v, w)
  PROVE  ClientOK(m, w)
<1>1. /\ m.run \in Nat /\ m.after \in Nat /\ m.upto \in Nat /\ m.queue \in Seq(Nat)
      /\ m.got \subseteq Nat /\ m.run <= v.run
  BY DEF ClientOK, ClientRecord
<1>2. /\ v.run \in Nat /\ w.run \in Nat /\ v.run <= w.run
      /\ DOMAIN v.journal = 1 .. Len(v.journal) /\ DOMAIN w.journal = 1 .. Len(w.journal)
      /\ Len(v.journal) \in Nat /\ Len(w.journal) \in Nat
      /\ DOMAIN v.journal \subseteq DOMAIN w.journal
  BY DEF Servers, Grows
<1>3. Follows(m, w) => Follows(m, v) /\ w.run = v.run /\ w.active
  BY <1>1, <1>2 DEF Follows, Grows
<1>4. ReadSoFar(m, w)
  BY <1>1, <1>2 DEF ClientOK, ReadSoFar
<1>5. QueueOK(m, w)
  BY <1>2, <1>3 DEF ClientOK, QueueOK, Grows
<1>6. Gapless(m, w)
  BY DEF ClientOK, Gapless, Grows
<1>7. SawTheEnd(m, w)
  BY <1>2, <1>3 DEF ClientOK, SawTheEnd, ReadSoFar, Grows
<1>8. Complete(m, w)
  <2> SUFFICES ASSUME m.pc \in {"catch_up", "live"}
               PROVE  Complete(m, w)
    BY DEF Complete
  <2>1. \A k \in DOMAIN m.queue :
           \A e \in m.after + 1 .. m.queue[k] :
              e \in m.got \cup w.lost \cup {m.queue[h] : h \in 1 .. k}
    BY DEF ClientOK, Complete, Grows
  <2>2. ASSUME ~m.slow, Follows(m, w), NEW e \in m.after + 1 .. Len(w.journal)
        PROVE  e \in m.got \cup w.lost \cup Queued(m) \cup {w.seq}
    <3>1. e \in DOMAIN w.journal
      BY <1>1, <1>2
    <3>2. CASE e \in w.lost \cup {w.seq}
      BY <3>2
    <3>3. CASE e \in DOMAIN v.journal \ {v.seq}
      <4>1. e \in m.after + 1 .. Len(v.journal)
        BY <1>1, <1>2, <3>3
      <4>2. e \in m.got \cup v.lost \cup Queued(m) \cup {v.seq}
        BY <1>3, <2>2, <4>1 DEF ClientOK, Complete
      <4> QED
        BY <3>3, <4>2 DEF Grows
    <3> QED
      BY <1>3, <2>2, <3>1, <3>2, <3>3 DEF Grows
  <2> QED
    BY <2>1, <2>2 DEF Complete
<1> QED
  BY <1>1, <1>2, <1>4, <1>5, <1>6, <1>7, <1>8 DEF ClientOK

-----------------------------------------------------------------------------
(* Handing out.                                                            *)

\* One more item at the end of a queue.
LEMMA Queueing ==
  ASSUME NEW q \in Seq(Nat), NEW item \in Nat
  PROVE  /\ Append(q, item) \in Seq(Nat)
         /\ DOMAIN q = 1 .. Len(q) /\ Len(q) \in Nat
         /\ DOMAIN Append(q, item) = 1 .. (Len(q) + 1)
         /\ Append(q, item)[Len(q) + 1] = item
         /\ \A k \in DOMAIN q : Append(q, item)[k] = q[k]
OBVIOUS

\* A put changes the queue or the flag of the client.
LEMMA PutCases ==
  ASSUME NEW m \in ClientRecord, NEW item \in Nat
  PROVE  /\ Put(m, item) \in ClientRecord
         /\ Put(m, item).pc = m.pc /\ Put(m, item).run = m.run
         /\ Put(m, item).after = m.after /\ Put(m, item).upto = m.upto
         /\ Put(m, item).got = m.got
         /\ \/ Put(m, item).slow /\ Put(m, item).queue = m.queue
            \/ /\ ~m.slow /\ ~Put(m, item).slow
               /\ Put(m, item).queue = Append(m.queue, item)
<1>1. m.queue \in Seq(Nat) /\ Append(m.queue, item) \in Seq(Nat)
  BY DEF ClientRecord
<1>2. CASE m.slow
  BY <1>2 DEF Put
<1>3. CASE ~m.slow /\ Len(m.queue) < SUBSCRIBER_QUEUE_MAX
  <2> DEFINE q == Append(m.queue, item)
  <2>1. Put(m, item) = [m EXCEPT !.queue = q]
    BY <1>3 DEF Put
  <2>2. q \in Seq(Nat) /\ q = Append(m.queue, item)
    BY <1>1
  <2> HIDE DEF q
  <2>3. [m EXCEPT !.queue = q] \in ClientRecord
    BY <2>2 DEF ClientRecord
  <2> QED
    BY <1>3, <2>1, <2>2, <2>3 DEF ClientRecord
<1>4. CASE ~m.slow /\ ~(Len(m.queue) < SUBSCRIBER_QUEUE_MAX)
  <2>1. Put(m, item) = [m EXCEPT !.slow = TRUE]
    BY <1>4 DEF Put
  <2> QED
    BY <2>1 DEF ClientRecord
<1> QED
  BY <1>2, <1>3, <1>4

Announced(v) == [v EXCEPT !.seq = 0]
Over(v) == [v EXCEPT !.active = FALSE, !.seq = 0]

\* The row that is being handed out goes to the clients of the run.
LEMMA RowPut ==
  ASSUME NEW m, NEW v \in Servers, ClientOK(m, v), v.active,
         v.seq \in DOMAIN v.journal, v.journal[v.seq].run = v.run
  PROVE  ClientOK(IF Listens(m, v.run) THEN Put(m, v.seq) ELSE m, Announced(v))
<1> DEFINE w == Announced(v)
<1>1. /\ w \in Servers /\ w.journal = v.journal /\ w.lost = v.lost /\ w.run = v.run
      /\ w.active = v.active /\ w.seq = 0
  BY DEF Announced, Servers
<1> HIDE DEF w
<1>2. /\ m \in ClientRecord /\ m.queue \in Seq(Nat) /\ m.after \in Nat
      /\ v.seq \in Nat \ {0} /\ Len(v.journal) \in Nat
      /\ DOMAIN v.journal = 1 .. Len(v.journal)
  BY DEF ClientOK, ClientRecord, Servers
<1>3. CASE ~Listens(m, v.run)
  <2>1. Follows(m, w) => m.pc \notin {"catch_up", "live"}
    BY <1>1, <1>3 DEF Follows, Listens
  <2>2. ReadSoFar(m, w) /\ QueueOK(m, w) /\ Gapless(m, w) /\ SawTheEnd(m, w)
    BY <1>1 DEF ClientOK, ReadSoFar, QueueOK, Gapless, SawTheEnd, Follows
  <2>3. Complete(m, w)
    BY <1>1, <2>1 DEF ClientOK, Complete
  <2> QED
    BY <1>1, <1>3, <2>2, <2>3 DEF ClientOK, w
<1>4. CASE Listens(m, v.run)
  <2> DEFINE n == Put(m, v.seq)
  <2>1. /\ n \in ClientRecord /\ n.pc = m.pc /\ n.run = m.run /\ n.after = m.after
        /\ n.upto = m.upto /\ n.got = m.got
        /\ \/ n.slow /\ n.queue = m.queue
           \/ ~m.slow /\ ~n.slow /\ n.queue = Append(m.queue, v.seq)
    BY <1>2, PutCases
  <2> HIDE DEF n
  <2>2. m.run = v.run /\ m.pc # "ended"
    BY <1>4 DEF Listens
  <2>3. /\ DOMAIN m.queue = 1 .. Len(m.queue) /\ Len(m.queue) \in Nat
        /\ n.queue = Append(m.queue, v.seq) =>
              /\ DOMAIN n.queue = 1 .. (Len(m.queue) + 1)
              /\ n.queue[Len(m.queue) + 1] = v.seq
              /\ \A k \in DOMAIN m.queue : n.queue[k] = m.queue[k]
    BY <1>2, Queueing
  <2>4. /\ Queued(n) \subseteq Queued(m) \cup {v.seq}
        /\ n.queue = Append(m.queue, v.seq) => Queued(m) \cup {v.seq} \subseteq Queued(n)
    BY <2>1, <2>3 DEF Queued
  <2>5. ReadSoFar(n, w) /\ Gapless(n, w) /\ SawTheEnd(n, w)
    BY <1>1, <2>1, <2>2 DEF ClientOK, ReadSoFar, Gapless, SawTheEnd
  <2>6. QueueOK(n, w)
    BY <1>1, <1>2, <2>1, <2>2, <2>4 DEF ClientOK, QueueOK, Follows
  <2>7. Complete(n, w)
    <3> SUFFICES ASSUME m.pc \in {"catch_up", "live"}
                 PROVE  Complete(n, w)
      BY <2>1 DEF Complete
    <3>1. /\ \A k \in DOMAIN m.queue :
                \A e \in m.after + 1 .. m.queue[k] :
                   e \in m.got \cup v.lost \cup {m.queue[h] : h \in 1 .. k}
          /\ ~m.slow =>
                \A e \in m.after + 1 .. Len(v.journal) :
                   e \in m.got \cup v.lost \cup Queued(m) \cup {v.seq}
      BY <2>2 DEF ClientOK, Complete, Follows
    <3>2. CASE n.slow /\ n.queue = m.queue
      BY <1>1, <2>1, <3>1, <3>2 DEF Complete
    <3>3. CASE ~m.slow /\ ~n.slow /\ n.queue = Append(m.queue, v.seq)
      <4>1. ASSUME NEW k \in DOMAIN m.queue, NEW e \in n.after + 1 .. n.queue[k]
            PROVE  e \in n.got \cup w.lost \cup {n.queue[h] : h \in 1 .. k}
        <5>1. e \in m.got \cup v.lost \cup {m.queue[h] : h \in 1 .. k}
          BY <2>1, <2>3, <3>1, <3>3, <4>1
        <5>2. \A h \in 1 .. k : h \in DOMAIN m.queue /\ n.queue[h] = m.queue[h]
          BY <2>3, <3>3
        <5> QED
          BY <1>1, <2>1, <5>1, <5>2
      <4>2. ASSUME ~n.slow, NEW e \in n.after + 1 .. Len(w.journal)
            PROVE  e \in n.got \cup w.lost \cup Queued(n)
        BY <1>1, <2>1, <2>4, <3>1, <3>3, <4>2
      <4>3. ASSUME NEW e \in n.after + 1 .. v.seq
            PROVE  e \in n.got \cup w.lost \cup {n.queue[h] : h \in 1 .. Len(m.queue) + 1}
        <5>1. e \in m.got \cup v.lost \cup Queued(m) \cup {v.seq}
          BY <1>2, <2>1, <3>1, <3>3, <4>3
        <5>2. \A h \in DOMAIN m.queue : h \in 1 .. Len(m.queue) + 1 /\ n.queue[h] = m.queue[h]
          BY <2>3, <3>3
        <5>3. Len(m.queue) + 1 \in 1 .. Len(m.queue) + 1 /\ n.queue[Len(m.queue) + 1] = v.seq
          BY <2>3, <3>3
        <5> QED
          BY <1>1, <2>1, <5>1, <5>2, <5>3 DEF Queued
      <4>4. ASSUME NEW k \in DOMAIN n.queue, NEW e \in n.after + 1 .. n.queue[k]
            PROVE  e \in n.got \cup w.lost \cup {n.queue[h] : h \in 1 .. k}
        <5>1. CASE k \in DOMAIN m.queue
          BY <4>1, <4>4, <5>1
        <5>2. CASE k = Len(m.queue) + 1
          BY <2>3, <3>3, <4>3, <4>4, <5>2
        <5> QED
          BY <2>3, <3>3, <5>1, <5>2
      <4> QED
        BY <1>1, <4>2, <4>4 DEF Complete
    <3> QED
      BY <2>1, <3>2, <3>3
  <2> QED
    BY <1>1, <1>4, <2>1, <2>2, <2>5, <2>6, <2>7 DEF ClientOK, n, w
<1> QED
  BY <1>3, <1>4

\* The end of the stream goes to the clients of the run.
LEMMA EndPut ==
  ASSUME NEW m, NEW v \in Servers, ClientOK(m, v)
  PROVE  ClientOK(IF Listens(m, v.run)
                   THEN Put(m, EndOfStream) ELSE m, Over(v))
<1> DEFINE w == Over(v)
<1>1. /\ w \in Servers /\ w.journal = v.journal /\ w.lost = v.lost /\ w.run = v.run
      /\ w.active = FALSE /\ w.seq = 0
  BY DEF Over, Servers
<1> HIDE DEF w
<1>2. ~Follows(m, w)
  BY <1>1 DEF Follows
<1>3. CASE ~Listens(m, v.run)
  <2>1. ReadSoFar(m, w) /\ QueueOK(m, w) /\ Gapless(m, w) /\ SawTheEnd(m, w)
    BY <1>1, <1>2 DEF ClientOK, ReadSoFar, QueueOK, Gapless, SawTheEnd
  <2>2. Complete(m, w)
    BY <1>1, <1>2 DEF ClientOK, Complete
  <2> QED
    BY <1>1, <1>3, <2>1, <2>2 DEF ClientOK, w
<1>4. CASE Listens(m, v.run)
  <2> DEFINE n == Put(m, EndOfStream)
  <2>1. /\ n \in ClientRecord /\ n.pc = m.pc /\ n.run = m.run /\ n.after = m.after
        /\ n.upto = m.upto /\ n.got = m.got
        /\ \/ n.slow /\ n.queue = m.queue
           \/ ~m.slow /\ ~n.slow /\ n.queue = Append(m.queue, 0)
    BY PutCases DEF ClientOK, EndOfStream
  <2> HIDE DEF n
  <2>2. /\ DOMAIN m.queue = 1 .. Len(m.queue) /\ Len(m.queue) \in Nat
        /\ n.queue = Append(m.queue, 0) =>
              /\ DOMAIN n.queue = 1 .. (Len(m.queue) + 1)
              /\ n.queue[Len(m.queue) + 1] = 0
              /\ \A k \in DOMAIN m.queue : n.queue[k] = m.queue[k]
    <3>1. m.queue \in Seq(Nat)
      BY DEF ClientOK, ClientRecord
    <3> QED
      BY <3>1, Queueing
  <2>3. Queued(n) \subseteq Queued(m) \cup {0}
    BY <2>1, <2>2 DEF Queued
  <2>4. ReadSoFar(n, w) /\ Gapless(n, w) /\ SawTheEnd(n, w)
    BY <1>1, <1>4, <2>1 DEF ClientOK, ReadSoFar, Gapless, SawTheEnd, Listens
  <2>5. ~Follows(n, w)
    BY <1>1 DEF Follows
  <2>6. QueueOK(n, w)
    BY <1>1, <2>1, <2>3, <2>5 DEF ClientOK, QueueOK
  <2>7. Complete(n, w)
    <3> SUFFICES ASSUME m.pc \in {"catch_up", "live"}, NEW k \in DOMAIN n.queue,
                        NEW e \in n.after + 1 .. n.queue[k]
                 PROVE  e \in n.got \cup w.lost \cup {n.queue[h] : h \in 1 .. k}
      BY <2>1, <2>5 DEF Complete
    <3>1. CASE k \in DOMAIN m.queue
      <4>1. n.queue[k] = m.queue[k] /\ \A h \in 1 .. k : n.queue[h] = m.queue[h]
        BY <2>1, <2>2, <3>1
      <4>2. e \in m.got \cup v.lost \cup {m.queue[h] : h \in 1 .. k}
        BY <2>1, <3>1, <4>1 DEF ClientOK, Complete
      <4> QED
        BY <1>1, <2>1, <4>1, <4>2
    <3>2. CASE k \notin DOMAIN m.queue
      <4>1. n.queue[k] = 0 /\ n.after \in Nat
        BY <2>1, <2>2, <3>2 DEF ClientRecord
      <4> QED
        BY <4>1
    <3> QED
      BY <3>1, <3>2
  <2> QED
    BY <1>1, <1>4, <2>1, <2>4, <2>6, <2>7 DEF ClientOK, n, w
<1> QED
  BY <1>3, <1>4

ClientsOK(table, v) ==
    /\ table \in [Clients -> ClientRecord]
    /\ \A c \in Clients : ClientOK(table[c], v)

LEMMA AllGrown ==
  ASSUME NEW table, NEW v \in Servers, NEW w \in Servers, ClientsOK(table, v), Grows(v, w)
  PROVE  ClientsOK(table, w)
BY Grown DEF ClientsOK

LEMMA RowOffered ==
  ASSUME NEW table, NEW v \in Servers, ClientsOK(table, v), v.active,
         v.seq \in DOMAIN v.journal, v.journal[v.seq].run = v.run
  PROVE  ClientsOK(Offer(table, v.run, v.seq), Announced(v))
<1>1. \A c \in Clients : ClientOK(Offer(table, v.run, v.seq)[c], Announced(v))
  BY RowPut DEF ClientsOK, Offer
<1> QED
  BY <1>1 DEF ClientsOK, ClientOK, Offer

LEMMA EndOffered ==
  ASSUME NEW table, NEW v \in Servers, ClientsOK(table, v)
  PROVE  ClientsOK(Offer(table, v.run, EndOfStream), Over(v))
<1>1. \A c \in Clients : ClientOK(Offer(table, v.run, EndOfStream)[c], Over(v))
  BY EndPut DEF ClientsOK, Offer
<1> QED
  BY <1>1 DEF ClientsOK, ClientOK, Offer

-----------------------------------------------------------------------------
StreamInv ==
    /\ ServerInv
    /\ lost \subseteq Nat
    /\ ClientsOK(clients, Server)

LEMMA ServerIsOne ==
  ASSUME ServerInv, lost \subseteq Nat
  PROVE  Server \in Servers
BY DEF ServerInv, TaskOK, TablesOK, Server, Servers, Active

LEMMA ServerIsOneNext ==
  ASSUME ServerInv', lost' \subseteq Nat
  PROVE  Server' \in Servers
BY DEF ServerInv, TaskOK, TablesOK, Server, Servers, Active

\* The rows a step writes are announced, lost or being handed out afterwards.
LEMMA ServerGrows ==
  ASSUME ServerInv, lost \subseteq lost', task'.run \in Nat,
         \/ journal' = journal
         \/ \E e \in Events : journal' = Append(journal, e)
                              /\ Len(journal) + 1 \in lost' \cup {task'.seq},
         \/ task'.run = task.run /\ (Active' => Active)
         \/ task'.run > task.run,
         Active' => task.seq \in {0, task'.seq} \cup lost' \/ task'.run > task.run
  PROVE  Grows(Server, Server')
<1>1. journal \in Seq(Events) /\ task.run \in Nat
  BY DEF ServerInv, TablesOK, TaskOK
<1>2. /\ Len(journal) <= Len(journal')
      /\ \A i \in DOMAIN journal : journal'[i] = journal[i]
      /\ \A e \in DOMAIN journal' : e \in DOMAIN journal \/ e \in lost' \cup {task'.seq}
      /\ 0 \notin DOMAIN journal
  <2>1. CASE journal' = journal
    BY <1>1, <2>1
  <2>2. ASSUME NEW e \in Events, journal' = Append(journal, e),
               Len(journal) + 1 \in lost' \cup {task'.seq}
        PROVE  <1>2!1 /\ <1>2!2 /\ <1>2!3 /\ <1>2!4
    BY <1>1, <2>2, Appended
  <2> QED
    BY <2>1, <2>2
<1>3. /\ Server.journal = journal /\ Server.lost = lost /\ Server.run = task.run
      /\ Server.active = Active /\ Server.seq = task.seq
      /\ Server'.journal = journal' /\ Server'.lost = lost' /\ Server'.run = task'.run
      /\ Server'.active = Active' /\ Server'.seq = task'.seq
  BY DEF Server
<1> QED
  BY <1>1, <1>2, <1>3 DEF Grows

LEMMA QuietStep ==
  ASSUME StreamInv, ServerInv', lost' \subseteq Nat, clients' = clients, Grows(Server, Server')
  PROVE  StreamInv'
<1>1. Server \in Servers /\ Server' \in Servers
  BY ServerIsOne, ServerIsOneNext DEF StreamInv
<1>2. ClientsOK(clients, Server')
  BY <1>1, AllGrown DEF StreamInv
<1> QED
  BY <1>2 DEF StreamInv

LEMMA OverStep ==
  ASSUME StreamInv, ServerInv', lost' \subseteq Nat, lost \subseteq lost', journal' = journal,
         RunOver(clients)
  PROVE  StreamInv'
<1> DEFINE v == Over(Server)
<1>1. Server \in Servers /\ Server' \in Servers /\ v \in Servers
  BY ServerIsOne, ServerIsOneNext DEF StreamInv, Over, Servers
<1>2. clients' = Offer(clients, Server.run, EndOfStream) /\ ~Active'
      /\ task'.run = task.run
  BY DEF RunOver, Enter, Server, Active, StreamInv, ServerInv, TaskOK
<1>3. ClientsOK(clients', v)
  BY <1>1, <1>2, EndOffered DEF StreamInv
<1>4. /\ v.journal = journal /\ v.lost = lost /\ v.run = task.run
      /\ Server'.journal = journal /\ Server'.lost = lost' /\ Server'.run = task.run
      /\ ~Server'.active /\ task.run \in Nat /\ Len(journal) \in Nat
  BY <1>2 DEF Server, Over, StreamInv, ServerInv, TaskOK, TablesOK
<1> HIDE DEF v
<1>5. Grows(v, Server')
  BY <1>4 DEF Grows
<1>6. ClientsOK(clients', Server')
  BY <1>1, <1>3, <1>5, AllGrown
<1> QED
  BY <1>6 DEF StreamInv

LEMMA InterruptStep ==
  ASSUME StreamInv, ServerInv', lost' \subseteq Nat, lost \subseteq lost',
          InterruptRun, Active,
         task.seq \in {0} \cup lost'
  PROVE  StreamInv'
<1>1. CASE RunOver(clients) /\ journal' = journal
  BY <1>1, OverStep
<1>2. CASE /\ journal' = Append(journal, [run |-> task.run, type |-> "interrupted"])
           /\ RunOver(Offer(clients, task.run, Len(journal) + 1))
  <2> DEFINE e == [run |-> task.run, type |-> "interrupted"]
             n == Len(journal) + 1
             v == [journal |-> journal', lost |-> lost',
                   run |-> task.run, active |-> TRUE, seq |-> n]
             table == Offer(clients, task.run, n)
  <2>1. task.run \in Nat /\ journal \in Seq(Events) /\ e \in Events /\ e.run = task.run
        /\ journal' = Append(journal, e)
    BY <1>2 DEF StreamInv, ServerInv, TaskOK, TablesOK, Events, EventTypes
  <2> HIDE DEF e
  <2>2. /\ journal' \in Seq(Events) /\ Len(journal') = n /\ Len(journal) \in Nat /\ n \in Nat
        /\ DOMAIN journal' = DOMAIN journal \cup {n} /\ DOMAIN journal = 1 .. Len(journal)
        /\ journal'[n] = e /\ \A i \in DOMAIN journal : journal'[i] = journal[i]
    BY <2>1, Appended
  <2>3. /\ v.journal = journal' /\ v.lost = lost' /\ v.run = task.run /\ v.active /\ v.seq = n
        /\ v \in Servers
    BY <2>1, <2>2 DEF Servers
  <2>4. /\ Server.journal = journal /\ Server.lost = lost /\ Server.run = task.run
        /\ Server.active /\ Server.seq = task.seq
    BY DEF Server
  <2> HIDE DEF v, n
  <2>5. Grows(Server, v)
    <3>1. Len(journal) <= Len(journal') /\ 0 \notin DOMAIN journal
      BY <2>2 DEF n
    <3> QED
      BY <2>1, <2>2, <2>3, <2>4, <3>1 DEF Grows
  <2>6. Server \in Servers /\ Server' \in Servers
    BY ServerIsOne, ServerIsOneNext DEF StreamInv
  <2>7. ClientsOK(clients, v)
    BY <2>3, <2>5, <2>6, AllGrown DEF StreamInv
  <2>8. ClientsOK(table, Announced(v)) /\ Announced(v) \in Servers
    BY <2>1, <2>2, <2>3, <2>7, RowOffered DEF Announced, Servers
  <2>9. Announced(v).run = task.run
    BY <2>3 DEF Announced
  <2> DEFINE w == Over(Announced(v))
  <2>10. ClientsOK(Offer(table, task.run, EndOfStream), w) /\ w \in Servers
    BY <2>8, <2>9, EndOffered DEF Over, Servers
  <2>11. clients' = Offer(table, task.run, EndOfStream)
        /\ ~Active' /\ task'.run = task.run
    BY <1>2 DEF RunOver, Enter, Active, StreamInv, ServerInv, TaskOK, n
  <2>12. /\ w.journal = journal' /\ w.lost = lost' /\ w.run = task.run
         /\ Server'.journal = journal' /\ Server'.lost = lost' /\ Server'.run = task.run
         /\ ~Server'.active
    BY <2>3, <2>11 DEF Server, Over, Announced
  <2> HIDE DEF w, table
  <2>13. Grows(w, Server')
    BY <2>1, <2>2, <2>12 DEF Grows
  <2>14. ClientsOK(clients', Server')
    BY <2>6, <2>10, <2>11, <2>13, AllGrown
  <2> QED
    BY <2>14 DEF StreamInv
<1> QED
  BY <1>1, <1>2 DEF InterruptRun

LEMMA FanOutStep ==
  ASSUME StreamInv, ServerInv', FanOut
  PROVE  StreamInv'
<1> DEFINE after == Offer(clients, task.run, task.seq)
           v == Announced(Server)
<1>1. /\ task.seq # 0 /\ journal' = journal /\ lost' = lost
      /\ task.stage \in Ends \cup {"token"} /\ Active
      /\ task.run \in Nat /\ journal \in Seq(Events)
      /\ task.seq \in DOMAIN journal /\ journal[task.seq].run = task.run
  BY DEF FanOut, StreamInv, ServerInv, TaskOK, TablesOK, Active, Ends
<1>2. /\ Server.journal = journal /\ Server.lost = lost /\ Server.run = task.run
      /\ Server.active /\ Server.seq = task.seq
  BY <1>1 DEF Server
<1>3. Server \in Servers /\ Server' \in Servers
  BY <1>1, ServerIsOne, ServerIsOneNext DEF StreamInv
<1>4. ClientsOK(after, v) /\ v \in Servers
  BY <1>1, <1>2, <1>3, RowOffered DEF StreamInv, Announced, Servers
<1>5. /\ v.journal = journal /\ v.lost = lost /\ v.run = task.run /\ v.active /\ v.seq = 0
  BY <1>2 DEF Announced, Servers
<1>6. \/ \E stage \in Stages : Enter(stage) /\ clients' = after
      \/ RunOver(after)
  BY <1>1, StageNames DEF FanOut, PublishTerminal, Ends
<1> HIDE DEF v, after
<1>7. /\ task'.run = task.run
      /\ Server'.journal = journal /\ Server'.lost = lost /\ Server'.run = task.run
  BY <1>1, <1>6 DEF Enter, RunOver, StreamInv, ServerInv, TaskOK, Server
<1>8. CASE \E stage \in Stages : Enter(stage) /\ clients' = after
  <2>1. Grows(v, Server')
    BY <1>1, <1>5, <1>7 DEF Grows
  <2>2. ClientsOK(clients', Server')
    BY <1>3, <1>4, <1>8, <2>1, AllGrown
  <2> QED
    BY <1>1, <2>2 DEF StreamInv
<1>9. CASE RunOver(after)
  <2> DEFINE w == Over(v)
  <2>1. /\ ClientsOK(Offer(after, task.run, EndOfStream), w) /\ w \in Servers
    BY <1>4, <1>5, EndOffered DEF Over, Servers
  <2>2. clients' = Offer(after, task.run, EndOfStream) /\ ~Active'
    BY <1>9 DEF RunOver, Enter, Active, StreamInv, ServerInv, TaskOK
  <2>3. /\ w.journal = journal /\ w.lost = lost /\ w.run = task.run /\ ~Server'.active
    BY <1>5, <2>2 DEF Over, Server
  <2> HIDE DEF w
  <2>4. Grows(w, Server')
    BY <1>1, <1>7, <2>3 DEF Grows
  <2>5. ClientsOK(clients', Server')
    BY <1>3, <2>1, <2>2, <2>4, AllGrown
  <2> QED
    BY <1>1, <2>5 DEF StreamInv
<1> QED
  BY <1>6, <1>8, <1>9

LEMMA LostStep ==
  ASSUME StreamInv, [StreamNext]_streamVars
  PROVE  lost \subseteq lost' /\ lost' \subseteq Nat
<1>1. task.seq \in Nat /\ Len(journal) + 1 \in Nat
  BY DEF StreamInv, ServerInv, TaskOK, TablesOK
<1>2. CASE Cancel \/ Restart
                \/ \E call \in detached : FinishDetached(call)
  BY <1>1, <1>2 DEF StreamInv, Cancel, Abandon, Restart,
         FinishDetached
<1>3. CASE lost' = lost
  BY <1>3 DEF StreamInv
<1> QED
  BY <1>2, <1>3 DEF StreamNext, Start, FirstStep, WriteStatus,
     Generate, Commit, CommitFails, FanOut, Subscribe,
     Replay, ReadMissed, Take, Leave, Update,
     streamVars, serverVars

\* The steps of the server that hand nothing out.
LEMMA SilentStep ==
  ASSUME StreamInv, ServerInv', lost \subseteq lost', lost' \subseteq Nat,
         \/ Start \/ FirstStep \/ Generate \/ Commit
         \/ \E call \in detached : FinishDetached(call)
  PROVE  StreamInv'
<1>1. task \in [run : Nat, stage : Stages, seq : Nat] /\ journal \in Seq(Events)
      /\ task' \in [run : Nat, stage : Stages, seq : Nat]
      /\ (task.seq # 0 => task.stage \in Ends \cup {"token"})
  BY DEF StreamInv, ServerInv, TaskOK, TablesOK
<1>2. clients' = clients
  BY DEF Start, FirstStep, Generate, Commit, FinishDetached
<1>3. CASE Start
  <2>1. journal' = journal /\ task'.run > task.run
    BY <1>1, <1>3 DEF Start
  <2> QED
    BY <1>1, <1>2, <2>1, ServerGrows, QuietStep DEF StreamInv
<1>4. CASE FirstStep \/ Generate
  <2>1. journal' = journal /\ task'.run = task.run /\ Active /\ task.seq = 0
    BY <1>1, <1>4 DEF FirstStep, Generate, Enter, Active, Ends
  <2> QED
    BY <1>1, <1>2, <2>1, ServerGrows, QuietStep DEF StreamInv
<1>5. CASE Commit
  <2> DEFINE e == [run |-> task.run, type |-> EventOf[task.stage]]
  <2>1. /\ journal' = Append(journal, e) /\ task'.run = task.run /\ task.seq = 0
        /\ task'.seq = Len(journal) + 1 /\ task.stage \in Ends \cup {"token"}
    BY <1>1, <1>5, StageNames DEF Commit
  <2>2. e \in Events
    BY <1>1, <2>1, StageNames DEF Events, EventTypes
  <2>3. Active
    BY <2>1 DEF Active, Ends
  <2> HIDE DEF e
  <2> QED
    BY <1>1, <1>2, <2>1, <2>2, <2>3, ServerGrows, QuietStep DEF StreamInv
<1>6. ASSUME NEW call \in detached, FinishDetached(call)
      PROVE  StreamInv'
  <2>1. /\ task' = task
        /\ call.run \in Nat /\ call.stage \in Statuses \cup Ends \cup {"token"}
    BY <1>6 DEF FinishDetached, StreamInv, ServerInv, TablesOK
  <2>2. CASE call.stage \in Statuses
    <3>1. journal' = journal
      BY <1>6, <2>2, StageNames DEF FinishDetached
    <3>2. Active' => Active
      BY <2>1 DEF Active
    <3> QED
      BY <1>1, <1>2, <2>1, <3>1, <3>2, ServerGrows, QuietStep DEF StreamInv
  <2>3. CASE call.stage \notin Statuses
    <3> DEFINE e == [run |-> call.run, type |-> EventOf[call.stage]]
    <3>1. journal' = Append(journal, e) /\ Len(journal) + 1 \in lost'
      BY <1>6, <2>3, StageNames DEF FinishDetached
    <3>2. e \in Events
      BY <2>1, <2>3, StageNames DEF Events, EventTypes
    <3>3. Active' => Active
      BY <2>1 DEF Active
    <3> HIDE DEF e
    <3> QED
      BY <1>1, <1>2, <2>1, <3>1, <3>2, <3>3, ServerGrows, QuietStep DEF StreamInv
  <2> QED
    BY <2>2, <2>3
<1> QED
  BY <1>3, <1>4, <1>5, <1>6

\* The task enters a stage and hands nothing out.
LEMMA EnterStep ==
  ASSUME StreamInv, ServerInv', lost \subseteq lost', lost' \subseteq Nat, Active,
         NEW stage, Enter(stage), journal' = journal, clients' = clients,
         task.seq \in {0} \cup lost'
  PROVE  StreamInv'
<1>1. task'.run = task.run /\ task'.seq = 0 /\ task.run \in Nat
  BY DEF Enter, StreamInv, ServerInv, TaskOK
<1> QED
  BY <1>1, ServerGrows, QuietStep DEF StreamInv

LEMMA PublishStep ==
  ASSUME StreamInv, ServerInv', lost' = lost, journal' = journal, Active, task.seq = 0,
         NEW stage, PublishTerminal(stage, clients)
  PROVE  StreamInv'
<1>1. CASE RunOver(clients)
  BY <1>1, OverStep DEF StreamInv
<1>2. CASE Enter(stage) /\ clients' = clients
  BY <1>2, EnterStep DEF StreamInv
<1> QED
  BY <1>1, <1>2 DEF PublishTerminal

LEMMA WriteStatusClients ==
  ASSUME StreamInv, ServerInv', WriteStatus
  PROVE  StreamInv'
<1>1. /\ task.stage \in Statuses /\ Active /\ lost' = lost /\ lost \subseteq Nat
      /\ task.seq = 0
  BY StageNames DEF WriteStatus, Statuses, Active,
         StreamInv, ServerInv, TaskOK, Ends
<1>2. CASE task.stage = "starting"
  <2>1. Enter("generating") /\ journal' = journal /\ clients' = clients
    BY <1>2 DEF WriteStatus
  <2> QED
    BY <1>1, <2>1, EnterStep
<1>3. CASE task.stage = "completing"
  <2>1. PublishTerminal("done", clients) /\ journal' = journal
    BY <1>3 DEF WriteStatus
  <2> QED
    BY <1>1, <2>1, PublishStep
<1>4. CASE task.stage = "failing"
  <2>1. PublishTerminal("error", clients) /\ journal' = journal
    BY <1>4 DEF WriteStatus
  <2> QED
    BY <1>1, <2>1, PublishStep
<1>5. CASE task.stage = "interrupting"
  <2>1. InterruptRun
    BY <1>5 DEF WriteStatus
  <2> QED
    BY <1>1, <2>1, InterruptStep
<1> QED
  BY <1>1, <1>2, <1>3, <1>4, <1>5 DEF Statuses

LEMMA CommitFailsClients ==
  ASSUME StreamInv, ServerInv', CommitFails
  PROVE  StreamInv'
<1>1. /\ task.stage \in Ends \cup {"token"} /\ task.seq = 0 /\ Active
      /\ journal' = journal /\ lost' = lost /\ lost \subseteq Nat
  BY StageNames DEF CommitFails, Active, Ends, StreamInv
<1>2. \/ RunOver(clients)
      \/ \E stage \in {"failing", "auto_error"} : Enter(stage) /\ clients' = clients
  BY <1>1 DEF CommitFails, Ends
<1> QED
  BY <1>1, <1>2, OverStep, EnterStep

LEMMA CancelClients ==
  ASSUME StreamInv, ServerInv', lost \subseteq lost', lost' \subseteq Nat, Cancel
  PROVE  StreamInv'
<1>1. Active /\ task.seq \in {0} \cup lost'
  BY DEF Cancel, Abandon
<1>2. CASE task.stage \in {"failing", "error", "interrupting"}
  <2>1. InterruptRun
    BY <1>2 DEF Cancel
  <2> QED
    BY <1>1, <2>1, InterruptStep
<1>3. CASE task.stage \in {"starting", "generating", "token", "completing", "done"}
  <2>1. Enter("interrupting") /\ journal' = journal /\ clients' = clients
    BY <1>3 DEF Cancel
  <2> QED
    BY <1>1, <2>1, EnterStep
<1>4. CASE task.stage = "created"
  <2>1. Enter("over") /\ journal' = journal /\ clients' = clients
    BY <1>4 DEF Cancel
  <2> QED
    BY <1>1, <2>1, EnterStep
<1>5. CASE task.stage \in {"auto_done", "auto_error"}
  <2>1. RunOver(clients) /\ journal' = journal
    BY <1>5 DEF Cancel
  <2> QED
    BY <1>1, <2>1, OverStep
<1> QED
  BY <1>1, <1>2, <1>3, <1>4, <1>5, StageNames
  DEF StreamInv, ServerInv, TaskOK, Active, Ends, Statuses

-----------------------------------------------------------------------------
(* What the clients do.                                                    *)

LEMMA GoneIsOK ==
  ASSUME NEW v \in Servers
  PROVE  ClientOK(Gone, v)
<1>1. Gone \in ClientRecord /\ Gone.run = 0
      /\ Gone.pc = "gone" /\ Gone.after = 0
      /\ Gone.got = {} /\ Gone.queue = << >>
  BY DEF Gone, ClientRecord, ClientStages
<1>2. v.run \in Nat /\ Len(v.journal) \in Nat
  BY DEF Servers
<1>3. Queued(Gone) = {}
  BY <1>1 DEF Queued
<1> QED
  BY <1>1, <1>2, <1>3 DEF ClientOK, ReadSoFar, QueueOK, Complete, Gapless, SawTheEnd

LEMMA RestartClients ==
  ASSUME StreamInv, ServerInv', lost' \subseteq Nat, Restart
  PROVE  StreamInv'
<1>1. Server' \in Servers
  BY ServerIsOneNext
<1>2. clients' = [c \in Clients |-> Gone]
  BY DEF Restart
<1>3. ClientOK(Gone, Server') /\ Gone \in ClientRecord
  BY <1>1, GoneIsOK DEF ClientOK
<1>4. ClientsOK(clients', Server')
  BY <1>2, <1>3 DEF ClientsOK
<1> QED
  BY <1>4 DEF StreamInv

LEMMA ClientUpdated ==
  ASSUME StreamInv, ServerInv', NEW c \in Clients, NEW m, ClientOK(m, Server),
          Update(c, m)
  PROVE  StreamInv'
<1>1. clients' = [clients EXCEPT ![c] = m] /\ Server' = Server /\ lost' = lost
  BY DEF Update, Server, serverVars, Active
<1>2. m \in ClientRecord
  BY DEF ClientOK
<1>3. ClientsOK(clients', Server)
  BY <1>1, <1>2 DEF StreamInv, ClientsOK
<1> QED
  BY <1>1, <1>3 DEF StreamInv

\* What the client-side steps start from.
LEMMA ClientFacts ==
  ASSUME StreamInv, NEW c \in Clients
  PROVE  LET m == clients[c]
         IN  /\ ClientOK(m, Server) /\ m \in ClientRecord
             /\ m.run \in Nat /\ m.after \in Nat /\ m.upto \in Nat
             /\ m.got \subseteq Nat /\ m.queue \in Seq(Nat)
             /\ Server.journal = journal /\ Server.lost = lost /\ Server.run = task.run
             /\ Len(journal) \in Nat /\ DOMAIN journal = 1 .. Len(journal)
             /\ lost \subseteq Nat /\ task.run \in Nat
BY DEF StreamInv, ClientsOK, ClientOK, ClientRecord, Server, ServerInv, TaskOK, TablesOK

LEMMA SubscribeStep ==
  ASSUME StreamInv, ServerInv', NEW c \in Clients, NEW after \in 0 .. Len(journal),
         Subscribe(c, after)
  PROVE  StreamInv'
<1> DEFINE run == IF Active THEN task.run ELSE 0
           m == [Gone EXCEPT !.pc = "replay", !.after = after, !.upto = after,
                                    !.run = run]
<1>1. run \in Nat /\ run <= task.run /\ after \in Nat /\ after <= Len(journal)
      /\ Server.run = task.run /\ Server.journal = journal
  BY ClientFacts
<1>2. Update(c, m)
  BY DEF Subscribe
<1> HIDE DEF run
<1>3. /\ m \in ClientRecord /\ m.pc = "replay" /\ m.run = run /\ m.after = after
      /\ m.upto = after /\ m.got = {} /\ m.queue = << >>
  <2>1. Gone \in ClientRecord /\ Gone.got = {} /\ Gone.queue = << >>
    BY DEF Gone, ClientRecord, ClientStages
  <2>2. "replay" \in ClientStages
    BY DEF ClientStages
  <2> QED
    BY <1>1, <2>1, <2>2 DEF ClientRecord
<1> HIDE DEF m
<1>4. Queued(m) = {}
  BY <1>3 DEF Queued
<1>5. ClientOK(m, Server)
  BY <1>1, <1>3, <1>4 DEF ClientOK, ReadSoFar, QueueOK, Complete, Gapless, SawTheEnd
<1> QED
  BY <1>2, <1>5, ClientUpdated

LEMMA ReplayStep ==
  ASSUME StreamInv, ServerInv', NEW c \in Clients, Replay(c)
  PROVE  StreamInv'
<1> DEFINE m == clients[c]
           pc == IF m.run = 0 THEN "ended" ELSE "catch_up"
           got == m.got \cup (m.upto + 1 .. Len(journal))
           n == [m EXCEPT !.got = got, !.upto = Len(journal), !.pc = pc]
<1>1. /\ ClientOK(m, Server) /\ m \in ClientRecord
      /\ m.run \in Nat /\ m.after \in Nat /\ m.upto \in Nat
      /\ m.got \subseteq Nat /\ m.queue \in Seq(Nat)
      /\ Server.journal = journal /\ Server.lost = lost /\ Server.run = task.run
      /\ Len(journal) \in Nat /\ DOMAIN journal = 1 .. Len(journal)
  BY ClientFacts
<1>2. m.pc = "replay" /\ Update(c, n)
  BY DEF Replay
<1> HIDE DEF m
<1>3. /\ m.got = {} /\ m.upto = m.after /\ m.after <= Len(journal)
  BY <1>1, <1>2 DEF ClientOK, ReadSoFar
<1>4. /\ got = m.after + 1 .. Len(journal) /\ got \subseteq DOMAIN journal
      /\ got \in SUBSET Nat
  BY <1>1, <1>3
<1>5. pc \in ClientStages /\ pc \notin {"replay", "live"} /\ (pc = "ended" => m.run = 0)
  BY DEF ClientStages
<1> HIDE DEF got, pc
<1>6. /\ n \in ClientRecord /\ n.pc = pc /\ n.run = m.run /\ n.after = m.after
      /\ n.upto = Len(journal) /\ n.got = got /\ n.queue = m.queue
  BY <1>1, <1>4, <1>5 DEF ClientRecord
<1> HIDE DEF n
<1>7. ReadSoFar(n, Server) /\ SawTheEnd(n, Server)
  BY <1>1, <1>3, <1>4, <1>5, <1>6 DEF ReadSoFar, SawTheEnd
<1>8. QueueOK(n, Server) /\ Queued(n) = Queued(m)
  BY <1>1, <1>6 DEF ClientOK, QueueOK, Queued, Follows
<1>9. Gapless(n, Server)
  BY <1>1, <1>4, <1>6 DEF Gapless
<1>10. Complete(n, Server)
  <2>1. ASSUME NEW k \in DOMAIN n.queue, NEW e \in n.after + 1 .. n.queue[k]
        PROVE  e \in got
    <3>1. n.queue[k] = 0 \/ n.queue[k] \in DOMAIN journal
      BY <1>1, <1>8 DEF QueueOK, Queued
    <3>2. n.queue[k] \in Nat /\ n.queue[k] <= Len(journal)
      BY <1>1, <3>1
    <3> QED
      BY <1>1, <1>4, <1>6, <2>1, <3>2
  <2> QED
    BY <1>1, <1>4, <1>6, <2>1 DEF Complete
<1>11. n.run <= Server.run
  BY <1>1, <1>6 DEF ClientOK
<1> QED
  BY <1>2, <1>6, <1>7, <1>8, <1>9, <1>10, <1>11, ClientUpdated DEF ClientOK

LEMMA ReadMissedStep ==
  ASSUME StreamInv, ServerInv', NEW c \in Clients, ReadMissed(c)
  PROVE  StreamInv'
<1> DEFINE m == clients[c]
           missed == IF lastSeq[m.run] > m.upto THEN m.upto + 1 .. Len(journal) ELSE {}
           got == m.got \cup missed
           n == [m EXCEPT !.got = got, !.pc = "live"]
<1>1. /\ ClientOK(m, Server) /\ m \in ClientRecord
      /\ m.run \in Nat /\ m.after \in Nat /\ m.upto \in Nat
      /\ m.got \subseteq Nat /\ m.queue \in Seq(Nat)
      /\ Server.journal = journal /\ Server.lost = lost /\ Server.run = task.run
      /\ Len(journal) \in Nat /\ DOMAIN journal = 1 .. Len(journal)
  BY ClientFacts
<1>2. m.pc = "catch_up" /\ Update(c, n)
  BY DEF ReadMissed
<1>3. missed = {} \/ missed = m.upto + 1 .. Len(journal)
  OBVIOUS
<1> HIDE DEF m, missed
<1>4. m.after <= m.upto /\ m.got = m.after + 1 .. m.upto /\ m.got \subseteq DOMAIN journal
  BY <1>1, <1>2 DEF ClientOK, ReadSoFar
<1>5. m.got \subseteq got /\ got \subseteq DOMAIN journal
      /\ \A seq \in got : \A e \in m.after + 1 .. seq : e \in got
  BY <1>1, <1>3, <1>4
<1> HIDE DEF got
<1>6. got \in SUBSET Nat /\ "live" \in ClientStages
  BY <1>1, <1>5 DEF ClientStages
<1>7. /\ n \in ClientRecord /\ n.pc = "live" /\ n.run = m.run /\ n.after = m.after
      /\ n.upto = m.upto /\ n.got = got /\ n.queue = m.queue /\ n.slow = m.slow
  BY <1>1, <1>6 DEF ClientRecord
<1> HIDE DEF n
<1>8. ReadSoFar(n, Server) /\ SawTheEnd(n, Server) /\ Gapless(n, Server)
  BY <1>1, <1>5, <1>7 DEF ClientOK, ReadSoFar, SawTheEnd, Gapless
<1>9. QueueOK(n, Server) /\ Queued(n) = Queued(m)
  BY <1>1, <1>7 DEF ClientOK, QueueOK, Queued, Follows
<1>10. Complete(n, Server)
  BY <1>1, <1>2, <1>5, <1>7, <1>9 DEF ClientOK, Complete, Follows
<1>11. n.run <= Server.run
  BY <1>1, <1>7 DEF ClientOK
<1> QED
  BY <1>2, <1>7, <1>8, <1>9, <1>10, <1>11, ClientUpdated DEF ClientOK

\* The head of a queue and what is left of it.
LEMMA Dequeued ==
  ASSUME NEW q \in Seq(Nat), q # << >>
  PROVE  /\ Head(q) = q[1] /\ 1 \in DOMAIN q /\ Head(q) \in Nat
         /\ Tail(q) \in Seq(Nat)
         /\ \A k \in DOMAIN Tail(q) : /\ k \in Nat \ {0} /\ k + 1 \in DOMAIN q
                                     /\ Tail(q)[k] = q[k + 1]
                                     /\ \A h \in 1 .. k :
                                           h \in DOMAIN Tail(q) /\ Tail(q)[h] = q[h + 1]
         /\ \A k \in DOMAIN q : k = 1 \/ (k - 1 \in DOMAIN Tail(q) /\ Tail(q)[k - 1] = q[k])
OBVIOUS

LEMMA TakeStep ==
  ASSUME StreamInv, ServerInv', NEW c \in Clients, Take(c)
  PROVE  StreamInv'
<1> DEFINE m == clients[c]
           item == Head(m.queue)
           got == m.got \cup ({item} \ {EndOfStream})
           rest == Tail(m.queue)
           pc == IF EndsStream(item) THEN "ended" ELSE m.pc
           n == [m EXCEPT !.got = got, !.queue = rest, !.pc = pc]
<1>1. /\ ClientOK(m, Server) /\ m \in ClientRecord
      /\ m.run \in Nat /\ m.after \in Nat /\ m.upto \in Nat
      /\ m.got \subseteq Nat /\ m.queue \in Seq(Nat)
      /\ Server.journal = journal /\ Server.lost = lost /\ Server.run = task.run
      /\ Len(journal) \in Nat /\ DOMAIN journal = 1 .. Len(journal)
  BY ClientFacts
<1>2. m.pc = "live" /\ m.queue # << >> /\ Update(c, n)
  BY DEF Take
<1> HIDE DEF m
<1>3. /\ item = m.queue[1] /\ 1 \in DOMAIN m.queue /\ item \in Nat /\ rest \in Seq(Nat)
      /\ \A k \in DOMAIN rest : /\ k \in Nat \ {0} /\ k + 1 \in DOMAIN m.queue
                               /\ rest[k] = m.queue[k + 1]
                               /\ \A h \in 1 .. k :
                                     h \in DOMAIN rest /\ rest[h] = m.queue[h + 1]
      /\ \A k \in DOMAIN m.queue :
            k = 1 \/ (k - 1 \in DOMAIN rest /\ rest[k - 1] = m.queue[k])
  BY <1>1, <1>2, Dequeued
<1> HIDE DEF item, rest
<1>4. /\ item \in Queued(m)
      /\ item # 0 => item \in DOMAIN journal /\ journal[item].run = m.run
      /\ item = 0 => ~Follows(m, Server)
  BY <1>1, <1>3 DEF ClientOK, QueueOK, Queued
<1>5. /\ got = IF item = 0 THEN m.got ELSE m.got \cup {item}
      /\ m.got \subseteq got /\ got \subseteq DOMAIN journal
  BY <1>1, <1>4 DEF ClientOK, ReadSoFar, EndOfStream
<1>6. pc \in {"live", "ended"}
      /\ (pc = "ended" => item = 0 \/ journal[item].type \in Terminals)
  BY <1>2 DEF EndsStream, EndOfStream
<1> HIDE DEF got, pc
<1>7. /\ n \in ClientRecord /\ n.pc = pc /\ n.run = m.run /\ n.after = m.after
      /\ n.upto = m.upto /\ n.got = got /\ n.queue = rest /\ n.slow = m.slow
  BY <1>1, <1>3, <1>5, <1>6 DEF ClientRecord, ClientStages
<1> HIDE DEF n
<1>8. Queued(n) \subseteq Queued(m) /\ Queued(m) \subseteq Queued(n) \cup {item}
  BY <1>3, <1>7 DEF Queued
<1>9. ReadSoFar(n, Server) /\ QueueOK(n, Server) /\ n.run <= Server.run
  BY <1>1, <1>5, <1>6, <1>7, <1>8 DEF ClientOK, ReadSoFar, QueueOK, Follows
<1>10. SawTheEnd(n, Server)
  BY <1>1, <1>4, <1>5, <1>6, <1>7 DEF SawTheEnd, Follows
<1>11. Gapless(n, Server)
  <2>1. \A e \in m.after + 1 .. item : e \in m.got \cup lost \cup {item}
    <3>1. \A e \in m.after + 1 .. item : e \in m.got \cup lost \cup {m.queue[h] : h \in 1 .. 1}
      BY <1>1, <1>2, <1>3 DEF ClientOK, Complete
    <3> QED
      BY <1>3, <3>1
  <2> QED
    BY <1>1, <1>3, <1>5, <1>7, <2>1 DEF ClientOK, Gapless
<1>12. Complete(n, Server)
  <2>1. ASSUME NEW k \in DOMAIN rest, NEW e \in m.after + 1 .. rest[k]
        PROVE  e \in got \cup lost \cup {rest[h] : h \in 1 .. k}
    <3>1. e \in m.got \cup lost \cup {m.queue[h] : h \in 1 .. (k + 1)}
      BY <1>1, <1>2, <1>3, <2>1 DEF ClientOK, Complete
    <3>2. CASE e \in m.got \cup lost
      BY <1>5, <3>2
    <3>3. ASSUME NEW h \in 1 .. (k + 1), e = m.queue[h]
          PROVE  e \in got \cup lost \cup {rest[i] : i \in 1 .. k}
      <4>1. CASE h = 1
        <5>1. e # 0
          BY <1>1, <1>3, <2>1
        <5> QED
          BY <1>3, <1>5, <3>3, <4>1, <5>1
      <4>2. CASE h # 1
        <5>1. h - 1 \in 1 .. k /\ (h - 1) + 1 = h
          BY <1>3, <2>1, <4>2
        <5>2. rest[h - 1] = m.queue[h]
          BY <1>3, <2>1, <5>1
        <5> QED
          BY <3>3, <5>1, <5>2
      <4> QED
        BY <4>1, <4>2
    <3> QED
      BY <3>1, <3>2, <3>3
  <2>2. ASSUME ~m.slow, Follows(m, Server), NEW e \in m.after + 1 .. Len(journal)
        PROVE  e \in got \cup lost \cup Queued(n) \cup {Server.seq}
    <3>1. e \in m.got \cup lost \cup Queued(m) \cup {Server.seq} /\ e # 0
      BY <1>1, <1>2, <2>2 DEF ClientOK, Complete
    <3> QED
      BY <1>5, <1>8, <3>1
  <2> QED
    BY <1>1, <1>7, <2>1, <2>2 DEF Complete, Follows
<1> QED
  BY <1>2, <1>7, <1>9, <1>10, <1>11, <1>12, ClientUpdated DEF ClientOK

LEMMA LeaveStep ==
  ASSUME StreamInv, ServerInv', NEW c \in Clients, Leave(c)
  PROVE  StreamInv'
<1>1. Server \in Servers
  BY ServerIsOne DEF StreamInv
<1> QED
  BY <1>1, GoneIsOK, ClientUpdated DEF Leave

-----------------------------------------------------------------------------
LEMMA InitStream ==
  ASSUME StreamInit
  PROVE  StreamInv
<1>1. ServerInv /\ lost \subseteq Nat
  BY InitServer DEF StreamInit
<1>2. Server \in Servers
  BY <1>1, ServerIsOne
<1>3. ClientOK(Gone, Server) /\ Gone \in ClientRecord
  BY <1>2, GoneIsOK DEF ClientOK
<1>4. ClientsOK(clients, Server)
  BY <1>3 DEF StreamInit, ClientsOK
<1> QED
  BY <1>1, <1>4 DEF StreamInv

LEMMA StreamStep ==
  ASSUME StreamInv, [StreamNext]_streamVars
  PROVE  StreamInv'
<1>1. ServerInv'
  BY ServerStep DEF StreamInv
<1>2. lost \subseteq lost' /\ lost' \subseteq Nat
  BY LostStep
<1>3. CASE Start \/ FirstStep \/ Generate \/ Commit
           \/ \E call \in detached : FinishDetached(call)
  BY <1>1, <1>2, <1>3, SilentStep
<1>4. CASE WriteStatus
  BY <1>1, <1>4, WriteStatusClients
<1>5. CASE CommitFails
  BY <1>1, <1>5, CommitFailsClients
<1>6. CASE FanOut
  BY <1>1, <1>6, FanOutStep
<1>7. CASE Cancel
  BY <1>1, <1>2, <1>7, CancelClients
<1>8. CASE Restart
  BY <1>1, <1>2, <1>8, RestartClients
<1>9. CASE \E c \in Clients :
              \/ \E after \in 0 .. Len(journal) : Subscribe(c, after)
              \/ Replay(c) \/ ReadMissed(c) \/ Take(c) \/ Leave(c)
  BY <1>1, <1>9, SubscribeStep, ReplayStep, ReadMissedStep, TakeStep, LeaveStep
<1>10. CASE UNCHANGED streamVars
  <2>1. Server' = Server /\ clients' = clients /\ lost' = lost
    BY <1>10 DEF streamVars, serverVars, Server, Active
  <2> QED
    BY <1>1, <2>1 DEF StreamInv
<1> QED
  BY <1>3, <1>4, <1>5, <1>6, <1>7, <1>8, <1>9, <1>10 DEF StreamNext

(***************************************************************************)
(* StreamInv holds in every reachable state of a stream.                   *)
(***************************************************************************)
THEOREM StreamInvariant == StreamSpec => []StreamInv
<1>1. StreamInit => StreamInv
  BY InitStream
<1>2. StreamInv /\ [StreamNext]_streamVars => StreamInv'
  BY StreamStep
<1> QED
  BY <1>1, <1>2, PTL DEF StreamSpec

(***************************************************************************)
(* No client sees a gap, wherever a task was cancelled between writing an  *)
(* event and handing it out, except for the rows nobody handed out         *)
(* (subscribe, _publish).                                                  *)
(***************************************************************************)
THEOREM NothingIsMissed == StreamSpec => []NoHoles
<1>1. StreamInv => NoHoles
  BY DEF StreamInv, ClientsOK, ClientOK, Gapless, NoHoles, Server
<1> QED
  BY <1>1, StreamInvariant, PTL

(***************************************************************************)
(* A run has at most one terminal event, and nothing is written after it   *)
(* but by threads of a cancelled publish (_try_mark_terminal).             *)
(***************************************************************************)
THEOREM OneTerminalEvent == StreamSpec => []TerminalClosesItsRun
<1>1. StreamInv => TerminalClosesItsRun
  BY DEF StreamInv, ServerInv
<1> QED
  BY <1>1, StreamInvariant, PTL

(***************************************************************************)
(* A stream that has ended has shown its client the terminal event of the  *)
(* run it followed, or that run is over (subscribe).                       *)
(***************************************************************************)
THEOREM EndIsSeen == StreamSpec => []StreamsEndWithTheirRun
<1>1. StreamInv => StreamsEndWithTheirRun
  BY DEF StreamInv, ClientsOK, ClientOK, SawTheEnd,
         StreamsEndWithTheirRun, Followed, Follows, Server
<1> QED
  BY <1>1, StreamInvariant, PTL
=============================================================================
