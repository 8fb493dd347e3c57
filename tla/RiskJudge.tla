------------------------------ MODULE RiskJudge ------------------------------
(***************************************************************************)
(* The risk judge of the decision pipeline (nodes/risk.py): the model that  *)
(* writes the final decision is asked once and then asked again, at most    *)
(* once per check, by a fixed sequence of checks.  Every answer replaces    *)
(* the WHOLE draft, so that an answer given to one check may undo what an   *)
(* earlier check had settled; the later checks never ask about it again,    *)
(* they only correct the notes that the fund manager and the report read.   *)
(*                                                                          *)
(* A draft is a record of what the checks look at:                          *)
(*   action     "buy", "sell", "watch" or "hold"                            *)
(*   type       of a sell: "exit", "short", or "none" when not declared     *)
(*   priced     entry, stop and target are all given                        *)
(*   scheduled  the schedule of an exit is given                            *)
(*   reason     the reason for not acting is given                          *)
(*   reeval     at least one condition for looking again is given           *)
(*   trigger    one of the two trigger prices of a watch is given           *)
(*   evidence   the reasoning names a new fact                              *)
(*   wrong      the pieces of text whose prices contradict the indicators   *)
(***************************************************************************)
EXTENDS Naturals, Sequences, SequencesExt

CONSTANTS Drafts,            \* the drafts the language model may answer with
          NoDraft,           \* no decision yet
          CheckerMayFail     \* may the checker of prices raise

Actions == {"buy", "sell", "watch", "hold"}
Executing == {"buy", "sell"}
Idle == {"watch", "hold"}

Draft == [action : Actions, type : {"none", "exit", "short"},
          priced : BOOLEAN, scheduled : BOOLEAN, reason : BOOLEAN, reeval : BOOLEAN,
          trigger : BOOLEAN, evidence : BOOLEAN, wrong : Seq(STRING)]

\* Only a sell has a type: the validator of TradeDecision drops it elsewhere.
ASSUME DraftsAreDecisions ==
    /\ Drafts \subseteq Draft
    /\ \A d \in Drafts : d.type # "none" => d.action = "sell"
    /\ NoDraft \notin Draft
    /\ CheckerMayFail \in BOOLEAN

\* What a note says: nothing, that something asked for is still missing, or
\* that the matter was answered, is not applicable or was overtaken.
Notes == {"none", "missing", "answered"}

VARIABLES
    at,         \* the node of the graph, and inside the judge its next check
    holds,      \* does the audience own the stock: "yes", "no", "unknown"
    balanced,   \* the research manager's rating is neutral
    prior,      \* direction of the last view of the stock in the window
    draft,      \* the decision as it stands
    note,       \* [price, rationale, reeval, trigger -> Notes]
    applied,    \* what the hysteresis did: "none", "kept", "watched"
    gate        \* result of the check of prices: "none", "pass", "fail"

judgeVars == <<draft, note, applied, gate>>
inputs == <<holds, balanced, prior>>

Direction(action) == CASE action = "buy" -> "long" [] action = "sell" -> "short"
                       [] OTHER -> "neutral"
ActionOf(direction) == CASE direction = "long" -> "buy" [] direction = "short" -> "sell"
                         [] OTHER -> "watch"

IsExit(d) == d.action = "sell" /\ d.type = "exit"
IsUntyped(d) == d.action = "sell" /\ d.type = "none"

(* What is missing in a draft, as the checks define it. *)
PriceMissing(d) == /\ d.action \in Executing
                   /\ IF IsExit(d) THEN ~d.scheduled ELSE ~d.priced
RationaleMissing(d) == d.action \in Idle /\ ~(d.reason /\ d.reeval)
TriggerMissing(d) == d.action = "watch" /\ ~d.trigger

(* A flip, or an executing action on balanced evidence, that names no fact. *)
IsFlip(d) == prior # "none" /\ prior # Direction(d.action)
NeedsReaffirm(d) == ~d.evidence /\ (IsFlip(d) \/ (balanced /\ d.action \in Executing))

(* A sale that the audience cannot make: it is known not to own the stock. *)
NotExecutable(d) == holds = "no" /\ IsExit(d)

DowngradeToWatch(d) ==
    [d EXCEPT !.action = "watch", !.type = "none", !.priced = FALSE,
              !.scheduled = FALSE, !.reason = TRUE]

KeepPrior(d) ==
    [d EXCEPT !.action = ActionOf(prior),
              !.type = IF prior = "short" THEN "exit" ELSE "none",
              !.priced = FALSE, !.scheduled = FALSE,
              !.reason = @ \/ prior = "neutral"]

(* The corrections of the notes after a later answer or a later change. *)
Recheck(n, missing) == IF missing THEN "missing" ELSE n
RecheckPrice(n, d) == IF PriceMissing(d) THEN "missing"
                      ELSE IF n = "none" THEN "none" ELSE "answered"
RecheckIfEmpty(n, missing) == IF n = "none" /\ missing THEN "missing" ELSE n

Told(missing) == IF missing THEN "missing" ELSE "answered"

-----------------------------------------------------------------------------
(* The first answer, and the one request to reaffirm it. *)
FirstAnswer ==
    /\ at = "risk_judge"
    /\ note' = [price |-> "none", rationale |-> "none", reeval |-> "none", trigger |-> "none"]
    /\ \E d \in Drafts :
          \/ /\ ~NeedsReaffirm(d)
             /\ draft' = d /\ applied' = "none"
          \/ /\ NeedsReaffirm(d)
             /\ \E again \in Drafts :
                   \/ /\ ~NeedsReaffirm(again)
                      /\ draft' = again /\ applied' = "none"
                   \/ /\ NeedsReaffirm(again) /\ IsFlip(again)
                      /\ draft' = KeepPrior(again) /\ applied' = "kept"
                   \/ /\ NeedsReaffirm(again) /\ ~IsFlip(again)
                      /\ draft' = DowngradeToWatch(again) /\ applied' = "watched"
    /\ gate' = "none"
    /\ at' = "sell_type"
    /\ UNCHANGED inputs

(* A sell without a type: asked once, then taken for an exit. *)
AskSellType ==
    /\ at = "sell_type"
    /\ at' = "holdings"
    /\ \/ /\ ~IsUntyped(draft)
          /\ UNCHANGED <<draft, note>>
       \/ /\ IsUntyped(draft)
          /\ \E d \in Drafts : draft' = IF IsUntyped(d) THEN [d EXCEPT !.type = "exit"] ELSE d
          /\ note' = [note EXCEPT !.price = "answered"]
    /\ UNCHANGED <<applied, gate, inputs>>

(* An exit for an audience without the stock: asked once, then a watch. *)
AskHoldings ==
    /\ at = "holdings"
    /\ at' = "price"
    /\ \/ /\ ~NotExecutable(draft)
          /\ UNCHANGED <<draft, note>>
       \/ /\ NotExecutable(draft)
          /\ \E d \in Drafts : draft' = IF NotExecutable(d) THEN DowngradeToWatch(d) ELSE d
          /\ note' = [note EXCEPT !.price = "none"]
    /\ UNCHANGED <<applied, gate, inputs>>

AskPrices ==
    /\ at = "price"
    /\ at' = "rationale"
    /\ \/ /\ ~PriceMissing(draft)
          /\ UNCHANGED <<draft, note>>
       \/ /\ PriceMissing(draft)
          /\ draft' \in Drafts
          /\ note' = [note EXCEPT !.price = Told(PriceMissing(draft'))]
    /\ UNCHANGED <<applied, gate, inputs>>

AskRationale ==
    /\ at = "rationale"
    /\ at' = "reeval"
    /\ \/ /\ ~RationaleMissing(draft)
          /\ UNCHANGED <<draft, note>>
       \/ /\ RationaleMissing(draft)
          /\ draft' \in Drafts
          /\ note' = [note EXCEPT !.rationale = Told(RationaleMissing(draft')),
                                  !.price = RecheckPrice(@, draft')]
    /\ UNCHANGED <<applied, gate, inputs>>

AskReeval ==
    /\ at = "reeval"
    /\ at' = "trigger"
    /\ \/ /\ draft.action \notin Executing \/ draft.reeval
          /\ UNCHANGED <<draft, note>>
       \/ /\ draft.action \in Executing /\ ~draft.reeval
          /\ draft' \in Drafts
          /\ note' = [note EXCEPT !.reeval = Told(~draft'.reeval),
                                  !.price = RecheckPrice(@, draft'),
                                  !.rationale = Recheck(@, RationaleMissing(draft'))]
    /\ UNCHANGED <<applied, gate, inputs>>

AskTrigger ==
    /\ at = "trigger"
    /\ at' = "gate"
    /\ \/ /\ ~TriggerMissing(draft)
          /\ UNCHANGED <<draft, note>>
       \/ /\ TriggerMissing(draft)
          /\ draft' \in Drafts
          /\ note' = [note EXCEPT !.trigger = Told(TriggerMissing(draft')),
                                  !.price = RecheckPrice(@, draft'),
                                  !.rationale = Recheck(@, RationaleMissing(draft')),
                                  !.reeval = RecheckIfEmpty(@, ~draft'.reeval)]
    /\ UNCHANGED <<applied, gate, inputs>>

(* What the checker of prices reports of a draft: it fails open. *)
Found(d) == {d.wrong} \cup (IF CheckerMayFail THEN {<<>>} ELSE {})

(* The residue is worse than the first finding: longer, or about new text. *)
Worse(first, residue) ==
    \/ Len(residue) > Len(first)
    \/ ~(ToSet(residue) \subseteq ToSet(first))

\* Mutant of GateNote: only the note on prices is corrected.
GateNotePriceOnly(d) == [note EXCEPT !.price = RecheckPrice(@, d)]

GateNote(d) ==
    [price |-> RecheckPrice(note.price, d),
     rationale |-> Recheck(note.rationale, RationaleMissing(d)),
     reeval |-> Recheck(note.reeval, ~d.reeval),
     trigger |-> Recheck(note.trigger, TriggerMissing(d))]

(* The gate on prices: asked once, and a residue that is worse blocks.      *)
(* Whether the gate is repaired or argued with, the notes are corrected.    *)
AskGate ==
    /\ at = "gate"
    /\ at' = "final"
    /\ \E first \in Found(draft) :
          \/ /\ first = <<>>
             /\ gate' = "pass"
             /\ UNCHANGED <<draft, note>>
          \/ /\ first # <<>>
             /\ draft' \in Drafts
             /\ note' = GateNote(draft')
             /\ \E residue \in Found(draft') :
                   gate' = IF Worse(first, residue) THEN "fail" ELSE "pass"
    /\ UNCHANGED <<applied, inputs>>

(* No request is left: a sell without a type is an exit, an exit that the   *)
(* audience cannot make is a watch.                                         *)
Collapse(d) == IF IsUntyped(d) THEN [d EXCEPT !.type = "exit"] ELSE d

FinalNote(n, d) ==
    [price |-> RecheckPrice(n.price, d),
     rationale |-> Recheck(n.rationale, RationaleMissing(d)),
     reeval |-> RecheckIfEmpty(n.reeval, ~d.reeval),
     trigger |-> Recheck(n.trigger, ~d.trigger)]

\* Mutant of FinalDraft: the sale is given a type after the last look at the
\* holdings, not before it.
FinalDraftTypedLast(d) == Collapse(IF NotExecutable(d) THEN DowngradeToWatch(d) ELSE d)

FinalDraft(d) == IF NotExecutable(Collapse(d)) THEN DowngradeToWatch(Collapse(d)) ELSE Collapse(d)

CollapsedNote == IF IsUntyped(draft) THEN [note EXCEPT !.price = "missing"] ELSE note

Settle(next) ==
    /\ at = "final"
    /\ at' = next
    /\ draft' = FinalDraft(draft)
    /\ note' = IF NotExecutable(Collapse(draft)) THEN FinalNote(CollapsedNote, draft')
               ELSE CollapsedNote
    /\ UNCHANGED <<applied, gate, inputs>>

Ask == \/ FirstAnswer \/ AskSellType \/ AskHoldings \/ AskPrices
       \/ AskRationale \/ AskReeval \/ AskTrigger \/ AskGate
=============================================================================
