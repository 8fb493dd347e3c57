----------------------- MODULE OperatedCohortProofs -----------------------
(***************************************************************************)
(* Theorems about the writes that a user confirms, the settings of the     *)
(* cohort, the record of its days and its budgets, for any number of       *)
(* sessions, writes, previews, requests, stocks and batches.               *)
(*                                                                         *)
(* The invariant for ConfirmedOnce adds that a preview which was used up   *)
(* can never be confirmed again: its token has left the table, and tokens  *)
(* are new.  The one for TriggerFollowsSettings says where a request that  *)
(* is alone stands between what is stored and what is registered.  The one *)
(* for DayIsTold says what a batch knows of the rows of its day, the one   *)
(* for BudgetsBind what it has counted of them.                            *)
(***************************************************************************)
EXTENDS OperatedCohort, SetSums, TLAPS

Messages == [no : Nat, confirms : BOOLEAN]
Previews == [session : Sessions, write : Writes, at : Nat, message : Nat]
Grants == [token : Nat, session : Sessions, write : Writes, at : Nat, message : Messages]

TypesOK ==
    /\ clock \in Nat
    /\ message \in [Sessions -> Messages]
    /\ issued \in Seq(Previews)
    /\ granted \in Seq(Grants)

PendingOK == pending \subseteq DOMAIN issued

\* Covered, for a given table of previews.
CoveredBy(previews, g) ==
    /\ g.token \in DOMAIN previews
    /\ previews[g.token].session = g.session /\ previews[g.token].write = g.write
    /\ g.at < previews[g.token].at + TOKEN_TTL_SECONDS
    /\ g.message.confirms

UsedUp == \A i \in DOMAIN granted : granted[i].token \notin pending

ConfirmInv == TypesOK /\ PendingOK /\ UsedUp /\ ConfirmedOnce

\* What is fresh can still be confirmed, and has not expired.
LEMMA FreshIsPending ==
    Fresh \subseteq pending /\ \A t \in Fresh : clock < issued[t].at + TOKEN_TTL_SECONDS
BY DEF Fresh

\* What _find_pending returns is fresh, and was issued for this session and write.
LEMMA FoundIsFor ==
    ASSUME NEW s, NEW w, NEW token, NEW t \in Found(s, w, token)
    PROVE  t \in Fresh /\ IsFor(t, s, w)
BY DEF Found, Newest

LEMMA InitInv == ConfirmInit => ConfirmInv
BY DEF ConfirmInit, ConfirmInv, TypesOK, PendingOK, UsedUp, ConfirmedOnce, NoMessage, Messages

\* A step that issues and grants nothing can only take previews away.
LEMMA QuietStep ==
    ASSUME ConfirmInv, TypesOK', pending' \subseteq pending, UNCHANGED <<issued, granted>>
    PROVE  ConfirmInv'
BY DEF ConfirmInv, PendingOK, UsedUp, ConfirmedOnce, Covered, IsFor

LEMMA TickInv == ConfirmInv /\ Tick => ConfirmInv'
<1> SUFFICES ASSUME ConfirmInv, Tick PROVE ConfirmInv'
    OBVIOUS
<1>1. TypesOK'
    BY DEF ConfirmInv, TypesOK, Tick
<1> QED
    BY <1>1, QuietStep DEF Tick

LEMMA SayInv ==
    ASSUME NEW s \in Sessions, ConfirmInv, Say(s)
    PROVE  ConfirmInv'
<1>1. message[s].no + 1 \in Nat
    BY DEF ConfirmInv, TypesOK, Messages
<1>2. TypesOK'
    BY <1>1 DEF ConfirmInv, TypesOK, Say, Messages
<1> QED
    BY <1>2, QuietStep DEF Say

LEMMA ForgetInv == ConfirmInv /\ Forget => ConfirmInv'
<1> SUFFICES ASSUME ConfirmInv, Forget PROVE ConfirmInv'
    OBVIOUS
<1>1. TypesOK'
    BY DEF ConfirmInv, TypesOK, Forget, NoMessage, Messages
<1> QED
    BY <1>1, QuietStep DEF Forget

LEMMA RefuseInv ==
    ASSUME NEW s \in Sessions, NEW w \in Writes, NEW token, ConfirmInv, Refuse(s, w, token)
    PROVE  ConfirmInv'
<1>1. TypesOK'
    BY DEF ConfirmInv, TypesOK, Refuse
<1> QED
    BY <1>1, QuietStep, FreshIsPending DEF Refuse

\* A new preview has a new token, which nothing that was granted can have.
LEMMA PreviewInv ==
    ASSUME NEW s \in Sessions, NEW w \in Writes, ConfirmInv, Preview(s, w)
    PROVE  ConfirmInv'
<1> DEFINE new == [session |-> s, write |-> w, at |-> clock, message |-> message[s].no]
<1>1. new \in Previews
    BY DEF ConfirmInv, TypesOK, Messages, Previews
<1>2. TypesOK'
    BY <1>1 DEF ConfirmInv, TypesOK, Preview
<1>3. DOMAIN issued' = DOMAIN issued \cup {Len(issued) + 1}
    BY <1>1 DEF ConfirmInv, TypesOK, Preview
<1>4. \A t \in DOMAIN issued : issued'[t] = issued[t]
    BY <1>1 DEF ConfirmInv, TypesOK, Preview
<1>5. Len(issued) + 1 \notin DOMAIN issued
    BY DEF ConfirmInv, TypesOK
<1>6. \A i \in DOMAIN granted : granted[i].token \in DOMAIN issued
    BY DEF ConfirmInv, ConfirmedOnce, Covered
<1>7. PendingOK'
    BY <1>3, FreshIsPending DEF ConfirmInv, PendingOK, Preview
<1>8. UsedUp'
    BY <1>5, <1>6, FreshIsPending DEF ConfirmInv, UsedUp, Preview
<1>9. ConfirmedOnce'
    BY <1>3, <1>4, <1>6 DEF ConfirmInv, ConfirmedOnce, Covered, IsFor, Preview
<1> QED
    BY <1>2, <1>7, <1>8, <1>9 DEF ConfirmInv

\* A confirmation takes a token that was never used before.
LEMMA GrantInv ==
    ASSUME NEW s \in Sessions, NEW w \in Writes, NEW token, ConfirmInv, Grant(s, w, token)
    PROVE  ConfirmInv'
<1> DEFINE new(t) == [token |-> t, session |-> s, write |-> w, at |-> clock, message |-> message[s]]
<1>1. PICK t \in Found(s, w, token) : pending' = Fresh \ {t} /\ granted' = Append(granted, new(t))
    BY DEF Grant
<1>2. t \in Fresh /\ t \in pending /\ IsFor(t, s, w) /\ clock < issued[t].at + TOKEN_TTL_SECONDS
    BY FoundIsFor, FreshIsPending
<1>3. t \in DOMAIN issued /\ t \in Nat
    BY <1>2 DEF ConfirmInv, TypesOK, PendingOK
<1>4. new(t) \in Grants
    BY <1>3 DEF ConfirmInv, TypesOK, Grants
<1>5. TypesOK'
    BY <1>1, <1>4 DEF ConfirmInv, TypesOK, Grant
<1>6. DOMAIN granted' = DOMAIN granted \cup {Len(granted) + 1}
    BY <1>1, <1>4 DEF ConfirmInv, TypesOK
<1>7. granted'[Len(granted) + 1] = new(t) /\ \A i \in DOMAIN granted : granted'[i] = granted[i]
    BY <1>1, <1>4 DEF ConfirmInv, TypesOK
<1>8. UNCHANGED issued
    BY DEF Grant
<1>9. \A i \in DOMAIN granted : granted[i].token # t
    BY <1>2 DEF ConfirmInv, UsedUp
<1>10. PendingOK'
    BY <1>1, <1>8, FreshIsPending DEF ConfirmInv, PendingOK
<1>11. UsedUp'
    BY <1>1, <1>6, <1>7, FreshIsPending DEF ConfirmInv, UsedUp
<1>12. \A i \in DOMAIN granted' : CoveredBy(issued', granted'[i])
    <2>1. CoveredBy(issued, new(t))
        BY <1>2, <1>3 DEF CoveredBy, IsFor, Grant
    <2>2. \A i \in DOMAIN granted : CoveredBy(issued, granted[i])
        BY DEF ConfirmInv, ConfirmedOnce, Covered, CoveredBy, IsFor
    <2>3. \A i \in DOMAIN granted' : i \in DOMAIN granted \/ i = Len(granted) + 1
        BY <1>6
    <2> QED
        BY <1>7, <1>8, <2>1, <2>2, <2>3
<1>13. \A i, j \in DOMAIN granted' : granted'[i].token = granted'[j].token => i = j
    BY <1>6, <1>7, <1>9 DEF ConfirmInv, ConfirmedOnce
<1>14. ConfirmedOnce'
    BY <1>12, <1>13 DEF ConfirmedOnce, Covered, CoveredBy, IsFor
<1> QED
    BY <1>5, <1>10, <1>11, <1>14 DEF ConfirmInv

LEMMA ConfirmStep == ConfirmInv /\ [ConfirmNext]_confirmVars => ConfirmInv'
<1> SUFFICES ASSUME ConfirmInv, [ConfirmNext]_confirmVars PROVE ConfirmInv'
    OBVIOUS
<1>1. CASE Tick
    BY <1>1, TickInv
<1>2. ASSUME NEW s \in Sessions, Say(s) PROVE ConfirmInv'
    BY <1>2, SayInv
<1>3. ASSUME NEW s \in Sessions, NEW w \in Writes, Call(s, w) PROVE ConfirmInv'
    BY <1>3, PreviewInv, GrantInv, RefuseInv DEF Call
<1>4. CASE Forget
    BY <1>4, ForgetInv
<1>5. CASE UNCHANGED confirmVars
    BY <1>5, QuietStep DEF confirmVars, ConfirmInv, TypesOK
<1> QED
    BY <1>1, <1>2, <1>3, <1>4, <1>5 DEF ConfirmNext

\* The composed system takes the steps of the confirmations, or leaves them alone.
LEMMA NextConfirms == [Next]_vars => [ConfirmNext]_confirmVars
<1> SUFFICES ASSUME [Next]_vars PROVE [ConfirmNext]_confirmVars
    OBVIOUS
<1>1. CASE Converse
    BY <1>1 DEF Converse, ConfirmNext, Call
<1>2. ASSUME NEW s \in Sessions, NEW w \in Writes, Confirm(s, w) PROVE ConfirmNext
    BY <1>2 DEF Confirm, ConfirmNext, Call
<1>3. CASE RunTask \/ RunScheduled \/ RunBatch
    BY <1>3 DEF RunTask, RunScheduled, RunBatch
<1>4. CASE ChangeSettings \/ PassDay
    BY <1>4 DEF ChangeSettings, PassDay
<1>5. CASE Die
    BY <1>5 DEF Die, ConfirmNext
<1>6. CASE UNCHANGED vars
    BY <1>6 DEF vars
<1> QED
    BY <1>1, <1>2, <1>3, <1>4, <1>5, <1>6 DEF Next

(***************************************************************************)
(* However many sessions talk to the model and whatever the model calls,   *)
(* each write that operator/confirmation.py lets through has consumed a    *)
(* preview of its own: of the same session, action and parameters, not     *)
(* expired, with a word of confirmation in the message of the user.        *)
(***************************************************************************)
THEOREM WritesAreConfirmedOnce == Spec => []ConfirmedOnce
<1>1. Init => ConfirmInv
    BY InitInv DEF Init
<1>2. ConfirmInv /\ [Next]_vars => ConfirmInv'
    BY ConfirmStep, NextConfirms
<1>3. ConfirmInv => ConfirmedOnce
    BY DEF ConfirmInv
<1> QED
    BY <1>1, <1>2, <1>3, PTL DEF Spec

-----------------------------------------------------------------------------
(* The settings.                                                           *)

EditType == [stage : {"idle", "written", "read"}, on : BOOLEAN, time : Times \cup {0}]

\* One request at a time, as long as nothing has overlapped.
Alone == ~disturbed => \A e, f \in Editors : Busy(e) /\ Busy(f) => e = f

\* What a lone request has read is what is stored.
ReadIsStored ==
    ~disturbed => \A e \in Editors : editing[e].stage = "read" => editing[e].time = settings.time

SettingsInv ==
    /\ editing \in [Editors -> EditType]
    /\ settings \in [on : BOOLEAN, time : Times]
    /\ Alone
    /\ ReadIsStored
    /\ TriggerFollowsSettings

LEMMA SettingsInit == Init => SettingsInv
BY DEF Init, CohortInit, SettingsInv, EditType, NotEditing, Alone, ReadIsStored, Busy,
       TriggerFollowsSettings

LEMMA EditInv ==
    ASSUME NEW e \in Editors, NEW on \in BOOLEAN, NEW time \in Times,
           SettingsInv, Edit(e, on, time)
    PROVE  SettingsInv'
<1>1. editing' \in [Editors -> EditType] /\ settings' \in [on : BOOLEAN, time : Times]
    BY DEF SettingsInv, EditType, Edit
<1>2. /\ editing'[e].stage = "written"
      /\ \A f \in Editors : f # e => editing'[f] = editing[f]
    BY DEF SettingsInv, Edit
<1>3. ~disturbed' => ~disturbed /\ \A f \in Editors : ~Busy(f)
    BY DEF Edit
<1>4. Alone' /\ ReadIsStored'
    BY <1>2, <1>3 DEF Alone, ReadIsStored, Busy
<1>5. TriggerFollowsSettings'
    BY <1>2 DEF TriggerFollowsSettings, Busy
<1> QED
    BY <1>1, <1>4, <1>5 DEF SettingsInv

LEMMA ReadBackInv ==
    ASSUME NEW e \in Editors, SettingsInv, ReadBack(e)
    PROVE  SettingsInv'
<1>1. editing' \in [Editors -> EditType] /\ settings' \in [on : BOOLEAN, time : Times]
    BY DEF SettingsInv, EditType, ReadBack
<1>2. /\ Busy(e) /\ editing'[e].stage = "read" /\ editing'[e].time = settings.time
      /\ \A f \in Editors : f # e => editing'[f] = editing[f]
    BY DEF SettingsInv, ReadBack, Busy
<1>3. UNCHANGED <<settings, disturbed, trigger>>
    BY DEF ReadBack
<1>4. Alone' /\ ReadIsStored'
    BY <1>2, <1>3 DEF SettingsInv, Alone, ReadIsStored, Busy
<1>5. TriggerFollowsSettings'
    BY <1>2 DEF TriggerFollowsSettings, Busy
<1> QED
    BY <1>1, <1>4, <1>5 DEF SettingsInv

LEMMA RescheduleInv ==
    ASSUME NEW e \in Editors, SettingsInv, Reschedule(e)
    PROVE  SettingsInv'
<1>1. editing' \in [Editors -> EditType] /\ settings' \in [on : BOOLEAN, time : Times]
    BY DEF SettingsInv, EditType, NotEditing, Reschedule
<1>2. /\ editing'[e].stage = "idle"
      /\ \A f \in Editors : f # e => editing'[f] = editing[f]
    BY DEF SettingsInv, Reschedule, NotEditing
<1>3. UNCHANGED <<settings, disturbed>> /\ trigger' = editing[e].time
    BY DEF Reschedule
<1>4. ~disturbed => editing[e].time = settings.time
    BY DEF SettingsInv, ReadIsStored, Reschedule
<1>5. Alone' /\ ReadIsStored'
    BY <1>2, <1>3 DEF SettingsInv, Alone, ReadIsStored, Busy
<1>6. TriggerFollowsSettings'
    BY <1>3, <1>4 DEF TriggerFollowsSettings
<1> QED
    BY <1>1, <1>5, <1>6 DEF SettingsInv

LEMMA EditFailsInv ==
    ASSUME NEW e \in Editors, SettingsInv, EditFails(e)
    PROVE  SettingsInv'
<1>1. editing' \in [Editors -> EditType] /\ settings' \in [on : BOOLEAN, time : Times]
    BY DEF SettingsInv, EditType, NotEditing, EditFails
<1>2. disturbed'
    BY DEF EditFails
<1> QED
    BY <1>1, <1>2 DEF SettingsInv, Alone, ReadIsStored, TriggerFollowsSettings

LEMMA RestartInv == SettingsInv /\ Restart => SettingsInv'
BY DEF SettingsInv, Restart, EditType, NotEditing, Alone, ReadIsStored, Busy,
       TriggerFollowsSettings

\* Everything else leaves the settings and the trigger as they are.
LEMMA QuietSettings ==
    ASSUME SettingsInv, UNCHANGED <<settings, editing, disturbed, trigger>>
    PROVE  SettingsInv'
BY DEF SettingsInv, Alone, ReadIsStored, Busy, TriggerFollowsSettings

(***************************************************************************)
(* For any number of requests, restarts at any point included: while no    *)
(* change of the cohort's settings is under way, the registered trigger    *)
(* has the stored time, unless two changes overlapped or one failed.       *)
(***************************************************************************)
THEOREM TriggersFollowSettings == Spec => []TriggerFollowsSettings
<1>1. Init => SettingsInv
    BY SettingsInit
<1>2. SettingsInv /\ [Next]_vars => SettingsInv'
    <2> SUFFICES ASSUME SettingsInv, [Next]_vars PROVE SettingsInv'
        OBVIOUS
    <2>1. CASE Converse \/ \E s \in Sessions, w \in Writes : Confirm(s, w)
        BY <2>1, QuietSettings DEF Converse, Confirm, cohortVars, settingsVars
    <2>2. CASE RunTask \/ RunScheduled
        BY <2>2, QuietSettings DEF RunTask, RunScheduled, Start, cohortVars, settingsVars
    <2>3. CASE RunBatch
        BY <2>3, QuietSettings DEF RunBatch, BatchStep, Begin, GiveUp, Finish, SkipDone, Skip,
                                   Analyse, Outcome, settingsVars
    <2>4. CASE ChangeSettings
        BY <2>4, EditInv, ReadBackInv, RescheduleInv, EditFailsInv DEF ChangeSettings, EditStep
    <2>5. CASE PassDay
        BY <2>5, QuietSettings DEF PassDay, NextDay
    <2>6. CASE Die
        BY <2>6, RestartInv DEF Die
    <2>7. CASE UNCHANGED vars
        BY <2>7, QuietSettings DEF vars, cohortVars, settingsVars
    <2> QED
        BY <2>1, <2>2, <2>3, <2>4, <2>5, <2>6, <2>7 DEF Next
<1>3. SettingsInv => TriggerFollowsSettings
    BY DEF SettingsInv
<1> QED
    BY <1>1, <1>2, <1>3, PTL DEF Spec

-----------------------------------------------------------------------------
(* The record of a day.  The invariant relates what a batch has read when it *)
(* began, and where it stands in the list, to the rows.                      *)

Outcomes == {"success", "failure", "skipped"}
Reasons == {"none", "exception", "quota", "budget", "budget_daily", "budget_unknown"}

RowType == [stock : Nat, day : Nat, batch : Nat, status : Outcomes, reason : Reasons, tokens : Nat]

Fields == {"stage", "no", "day", "next", "done", "today", "estimate", "spent", "unknown",
           "stop", "gap"}

DayTypes ==
    /\ day \in Nat
    /\ rows \in Seq(RowType)
    /\ batch = [f \in Fields |-> batch[f]]
    /\ batch.no \in Nat /\ batch.day \in Nat /\ batch.next \in Nat /\ batch.stop \in Reasons

Live == batch.stage \in {"loop", "analysing"}

RowsTold ==
    \A i, j \in DOMAIN rows :
        i < j /\ rows[i].day = rows[j].day =>
            /\ rows[i].status = "success" => rows[i].stock # rows[j].stock
            /\ rows[i].status = "failure" /\ rows[i].reason = "quota" => ~Analysed(j)

\* Where a batch is in its list: what has succeeded is known to it or behind it.
PlaceOK ==
    /\ batch.stage = "called" => batch.next = 1
    /\ batch.stage = "analysing" => batch.stop = "none" /\ batch.next \notin batch.done
    /\ Live => /\ batch.done \subseteq Successful(batch.day)
               /\ \A i \in RowsOf(batch.day) : rows[i].status = "success" =>
                      rows[i].stock \in batch.done \/ rows[i].stock < batch.next

\* A quota failure of the day has stopped the batch.
QuotaOK == Live /\ QuotaHit(batch.day) => batch.stop # "none"

\* What is behind the batch is told.
BehindTold ==
    Live /\ ~batch.gap =>
        \A stock \in 1 .. batch.next - 1 :
            \/ stock \in Successful(batch.day)
            \/ \E i \in DOMAIN rows : rows[i].batch = batch.no /\ rows[i].stock = stock

DayInv == DayTypes /\ RowsTold /\ PlaceOK /\ QuotaOK /\ BehindTold

LEMMA DayInvTells == DayInv => DayIsTold
BY DEF DayInv, RowsTold, BehindTold, DayIsTold, Live

LEMMA DayInit == Init => DayInv
BY DEF Init, CohortInit, NoBatch, DayInv, DayTypes, Fields, RowsTold, PlaceOK, QuotaOK,
       BehindTold, Live, Reasons

\* One more row.
LEMMA MoreRows ==
    ASSUME rows \in Seq(RowType), NEW r \in RowType, rows' = Append(rows, r)
    PROVE  /\ rows' \in Seq(RowType)
           /\ DOMAIN rows' = DOMAIN rows \cup {Len(rows) + 1}
           /\ Len(rows) + 1 \notin DOMAIN rows
           /\ rows'[Len(rows) + 1] = r
           /\ \A i \in DOMAIN rows : rows'[i] = rows[i] /\ i < Len(rows) + 1
OBVIOUS

LEMMA RowsAreRows ==
    ASSUME rows \in Seq(RowType), NEW i \in DOMAIN rows
    PROVE  rows[i].stock \in Nat
<1>1. rows[i] \in RowType
    OBVIOUS
<1> QED
    BY <1>1 DEF RowType

\* A batch that is neither in its list nor about to begin.
LEMMA OutsideTold ==
    ASSUME DayTypes', RowsTold, UNCHANGED rows, ~Live',
           batch'.stage = "called" => batch'.next = 1
    PROVE  DayInv'
<1>1. RowsTold'
    BY DEF RowsTold, Analysed
<1> QED
    BY <1>1 DEF DayInv, PlaceOK, QuotaOK, BehindTold, Live

LEMMA BeginTold ==
    ASSUME DayInv, Begin
    PROVE  DayInv'
<1>1. /\ batch'.stage = "loop" /\ batch'.day = day /\ batch'.done = Successful(day)
      /\ batch'.next = 1 /\ batch'.no = batch.no /\ batch'.stop = Preflight(day)
      /\ batch' = [f \in Fields |-> batch'[f]]
      /\ UNCHANGED <<day, rows>>
    BY DEF Begin, DayInv, DayTypes, PlaceOK, Fields
<1>2. DayTypes'
    BY <1>1 DEF DayInv, DayTypes, Preflight, Reasons
<1>3. RowsTold'
    BY <1>1 DEF DayInv, RowsTold, Analysed
<1>4. PlaceOK'
    <2>1. \A i \in RowsOf(day) : rows[i].status = "success" => rows[i].stock \in Successful(day)
        BY DEF Successful
    <2> QED
        BY <1>1, <2>1 DEF PlaceOK, Live, Successful, RowsOf
<1>5. QuotaOK'
    BY <1>1 DEF QuotaOK, QuotaHit, RowsOf, Preflight
<1>6. BehindTold'
    BY <1>1 DEF BehindTold
<1> QED
    BY <1>2, <1>3, <1>4, <1>5, <1>6 DEF DayInv

\* The batch goes on to the next stock, with a row of this one or without.
LEMMA InsertTold ==
    ASSUME DayInv, Live, batch.next \notin batch.done, UNCHANGED day,
           NEW r \in RowType, r.stock = batch.next, r.day = batch.day, r.batch = batch.no,
           r.status \in {"success", "failure"} => ~QuotaHit(batch.day),
           NEW now, now = [f \in Fields |-> now[f]], now.stage = "loop",
           now.no = batch.no, now.day = batch.day, now.done = batch.done,
           now.next = batch.next + 1, now.gap = batch.gap,
           QuotaHit(batch.day) \/ (r.status = "failure" /\ r.reason = "quota") => now.stop # "none",
           now.stop \in Reasons,
           Insert(r, now)
    PROVE  DayInv'
<1>1. /\ batch'.stage = "loop" /\ batch'.no = batch.no /\ batch'.day = batch.day
      /\ batch'.done = batch.done /\ batch'.next = batch.next + 1 /\ batch'.stop = now.stop
      /\ batch' = [f \in Fields |-> batch'[f]]
      /\ ~batch'.gap => ~batch.gap /\ rows' = Append(rows, r)
      /\ rows' = Append(rows, r) \/ rows' = rows
    BY DEF Insert, Fields
<1>2. batch.next \in Nat /\ batch.day \in Nat /\ rows \in Seq(RowType)
    BY DEF DayInv, DayTypes
<1>3. CASE rows' = rows
    <2>1. DayTypes' /\ RowsTold'
        BY <1>1, <1>2, <1>3 DEF DayInv, DayTypes, RowsTold, Analysed
    <2>2. PlaceOK'
        <3>1. \A i \in RowsOf(batch.day) : rows[i].stock \in Nat
            BY <1>2, RowsAreRows DEF RowsOf
        <3> QED
            BY <1>1, <1>2, <1>3, <3>1 DEF DayInv, PlaceOK, Live, Successful, RowsOf
    <2>3. QuotaOK' /\ (batch'.gap \/ rows' = Append(rows, r))
        BY <1>1, <1>3 DEF QuotaOK, QuotaHit, RowsOf
    <2>4. rows' # Append(rows, r)
        BY <1>2, <1>3, MoreRows
    <2> QED
        BY <2>1, <2>2, <2>3, <2>4 DEF DayInv, BehindTold
<1>4. CASE rows' = Append(rows, r)
    <2> DEFINE n == Len(rows) + 1
    <2>1. /\ rows' \in Seq(RowType)
          /\ DOMAIN rows' = DOMAIN rows \cup {n} /\ n \notin DOMAIN rows
          /\ rows'[n] = r
          /\ \A i \in DOMAIN rows : rows'[i] = rows[i] /\ i < n
        BY <1>2, <1>4, MoreRows
    <2>2. DOMAIN rows \subseteq Nat /\ n \in Nat
        BY <1>2
    <2> HIDE DEF n
    <2>3. DayTypes'
        BY <1>1, <1>2, <2>1 DEF DayInv, DayTypes
    <2>4. RowsTold'
        <3> SUFFICES ASSUME NEW i \in DOMAIN rows', NEW j \in DOMAIN rows', i < j,
                            rows'[i].day = rows'[j].day
                     PROVE  /\ rows'[i].status = "success" => rows'[i].stock # rows'[j].stock
                            /\ rows'[i].status = "failure" /\ rows'[i].reason = "quota"
                               => rows'[j].status \notin {"success", "failure"}
            BY DEF RowsTold, Analysed
        <3>1. i \in DOMAIN rows
            BY <2>1, <2>2
        <3>2. CASE j \in DOMAIN rows
            BY <2>1, <3>1, <3>2 DEF DayInv, RowsTold, Analysed
        <3>3. CASE j = n
            <4>1. i \in RowsOf(batch.day) /\ rows'[i] = rows[i]
                BY <2>1, <3>1, <3>3 DEF RowsOf
            <4>2. rows[i].status = "success" =>
                     rows[i].stock \in batch.done \/ rows[i].stock < batch.next
                BY <4>1 DEF DayInv, PlaceOK
            <4>3. rows[i].status = "failure" /\ rows[i].reason = "quota" => QuotaHit(batch.day)
                BY <4>1 DEF QuotaHit
            <4> QED
                BY <1>2, <2>1, <3>3, <4>1, <4>2, <4>3
        <3> QED
            BY <2>1, <3>2, <3>3
    <2>5. Successful(batch.day) \subseteq Successful(batch.day)'
        BY <1>1, <2>1 DEF Successful, RowsOf
    <2>6. PlaceOK'
        <3>1. ASSUME NEW i \in RowsOf(batch.day)', rows'[i].status = "success"
              PROVE  rows'[i].stock \in batch'.done \/ rows'[i].stock < batch'.next
            <4>1. CASE i \in DOMAIN rows
                <5>1. rows'[i] = rows[i] /\ i \in RowsOf(batch.day) /\ rows[i].stock \in Nat
                    BY <1>1, <1>2, <2>1, <3>1, <4>1, RowsAreRows DEF RowsOf
                <5> QED
                    BY <1>1, <1>2, <3>1, <5>1 DEF DayInv, PlaceOK
            <4>2. CASE i = n
                BY <1>1, <1>2, <2>1, <4>2
            <4> QED
                BY <2>1, <3>1, <4>1, <4>2 DEF RowsOf
        <3> QED
            BY <1>1, <2>5, <3>1 DEF DayInv, PlaceOK, Live
    <2>7. QuotaOK'
        <3>1. QuotaHit(batch.day)' => QuotaHit(batch.day) \/ (r.status = "failure" /\ r.reason = "quota")
            BY <1>1, <2>1 DEF QuotaHit, RowsOf
        <3> QED
            BY <1>1, <3>1 DEF QuotaOK
    <2>8. BehindTold'
        <3> SUFFICES ASSUME ~batch'.gap, NEW stock \in 1 .. batch'.next - 1
                     PROVE  \/ stock \in Successful(batch.day)'
                            \/ \E i \in DOMAIN rows' : /\ rows'[i].batch = batch.no
                                                       /\ rows'[i].stock = stock
            BY <1>1 DEF BehindTold
        <3>1. stock \in 1 .. batch.next - 1 \/ stock = batch.next
            BY <1>1, <1>2
        <3>2. CASE stock = batch.next
            BY <2>1, <3>2
        <3>3. CASE stock \in 1 .. batch.next - 1
            BY <1>1, <2>1, <2>5, <3>3 DEF DayInv, BehindTold
        <3> QED
            BY <3>1, <3>2, <3>3
    <2> QED
        BY <2>3, <2>4, <2>6, <2>7, <2>8 DEF DayInv
<1> QED
    BY <1>1, <1>3, <1>4

LEMMA SkipDoneTold ==
    ASSUME DayInv, NEW stock, SkipDone(stock)
    PROVE  DayInv'
<1>1. /\ batch'.stage = "loop" /\ batch.stage = "loop" /\ batch'.next = batch.next + 1
      /\ batch' = [f \in Fields |-> batch'[f]]
      /\ \A f \in Fields \ {"next"} : batch'[f] = batch[f]
      /\ batch.next \in batch.done
      /\ UNCHANGED <<day, rows>>
    BY DEF SkipDone, Turn, DayInv, DayTypes, Fields
<1>2. /\ batch'.no = batch.no /\ batch'.day = batch.day /\ batch'.done = batch.done
      /\ batch'.stop = batch.stop /\ batch'.gap = batch.gap /\ batch.next \in Nat
    BY <1>1 DEF Fields, DayInv, DayTypes
<1>3. DayTypes' /\ RowsTold'
    BY <1>1, <1>2 DEF DayInv, DayTypes, RowsTold, Analysed
<1>4. PlaceOK'
    <2>1. \A i \in RowsOf(batch.day) : rows[i].stock \in Nat
        BY RowsAreRows DEF DayInv, DayTypes, RowsOf
    <2> QED
        BY <1>1, <1>2, <2>1 DEF DayInv, PlaceOK, Live, Successful, RowsOf
<1>5. QuotaOK'
    BY <1>1, <1>2 DEF DayInv, QuotaOK, QuotaHit, RowsOf, Live
<1>6. BehindTold'
    <2> SUFFICES ASSUME ~batch.gap, NEW s \in 1 .. batch'.next - 1
                 PROVE  \/ s \in Successful(batch.day)
                        \/ \E i \in DOMAIN rows : rows[i].batch = batch.no /\ rows[i].stock = s
        BY <1>1, <1>2 DEF BehindTold, Successful, RowsOf
    <2>1. s \in 1 .. batch.next - 1 \/ s = batch.next
        BY <1>1, <1>2
    <2>2. batch.next \in Successful(batch.day)
        BY <1>1 DEF DayInv, PlaceOK, Live
    <2> QED
        BY <1>1, <2>1, <2>2 DEF DayInv, BehindTold, Live
<1> QED
    BY <1>3, <1>4, <1>5, <1>6 DEF DayInv

LEMMA SkipTold ==
    ASSUME DayInv, NEW stock \in Stocks, Skip(stock)
    PROVE  DayInv'
<1> DEFINE r == Row(stock, "skipped", Stop, Unknown)
           now == [batch EXCEPT !.next = @ + 1, !.stop = Stop]
<1>1. batch.stage = "loop" /\ batch.next = stock /\ stock \notin batch.done /\ Stop # "none"
      /\ Insert(r, now) /\ UNCHANGED day
    BY DEF Skip, Turn
<1>2. stock \in Nat /\ batch = [f \in Fields |-> batch[f]]
    BY CohortAssumption DEF Stocks, DayInv, DayTypes
<1>3. Stop \in Reasons /\ (batch.stop # "none" => Stop # "none")
    BY DEF Stop, Reasons, DayInv, DayTypes
<1>4. /\ r \in RowType /\ r.stock = batch.next /\ r.day = batch.day /\ r.batch = batch.no
      /\ r.status = "skipped"
    BY <1>1, <1>2, <1>3 DEF Row, RowType, Outcomes, Unknown, DayInv, DayTypes
<1>5. /\ now = [f \in Fields |-> now[f]] /\ now.stage = "loop" /\ now.no = batch.no
      /\ now.day = batch.day /\ now.done = batch.done /\ now.next = batch.next + 1
      /\ now.gap = batch.gap /\ now.stop = Stop
    BY <1>1, <1>2 DEF Fields
<1> HIDE DEF r, now
<1> QED
    BY <1>1, <1>3, <1>4, <1>5, InsertTold DEF Live

LEMMA AnalyseTold ==
    ASSUME DayInv, NEW stock, Analyse(stock)
    PROVE  DayInv'
<1>1. /\ batch'.stage = "analysing" /\ batch.stage = "loop"
      /\ batch' = [f \in Fields |-> batch'[f]]
      /\ \A f \in Fields \ {"stage"} : batch'[f] = batch[f]
      /\ batch.next \notin batch.done /\ batch.stop = "none"
      /\ UNCHANGED <<day, rows>>
    BY DEF Analyse, Turn, Stop, DayInv, DayTypes, Fields
<1>2. /\ batch'.no = batch.no /\ batch'.day = batch.day /\ batch'.done = batch.done
      /\ batch'.stop = batch.stop /\ batch'.gap = batch.gap /\ batch'.next = batch.next
    BY <1>1 DEF Fields
<1>3. DayTypes' /\ RowsTold'
    BY <1>1, <1>2 DEF DayInv, DayTypes, RowsTold, Analysed
<1>4. PlaceOK'
    BY <1>1, <1>2 DEF DayInv, PlaceOK, Live, Successful, RowsOf
<1>5. QuotaOK'
    BY <1>1, <1>2 DEF DayInv, QuotaOK, QuotaHit, RowsOf, Live
<1>6. BehindTold'
    BY <1>1, <1>2 DEF DayInv, BehindTold, Live, Successful, RowsOf
<1> QED
    BY <1>3, <1>4, <1>5, <1>6 DEF DayInv

LEMMA OutcomeTold ==
    ASSUME DayInv, NEW stock \in Stocks, Outcome(stock)
    PROVE  DayInv'
<1>1. PICK reason \in {"none", "exception", "quota"}, tokens \in Costs \cup {Unknown} :
         Insert(Row(stock, IF reason = "none" THEN "success" ELSE "failure", reason, tokens),
                After(reason, tokens))
    BY DEF Outcome
<1> DEFINE r == Row(stock, IF reason = "none" THEN "success" ELSE "failure", reason, tokens)
           now == After(reason, tokens)
<1>2. batch.stage = "analysing" /\ batch.next = stock /\ UNCHANGED day
      /\ batch.stop = "none" /\ batch.next \notin batch.done
    BY DEF Outcome, DayInv, PlaceOK
<1>3. stock \in Nat /\ tokens \in Nat /\ batch = [f \in Fields |-> batch[f]]
    BY CohortAssumption DEF Stocks, DayInv, DayTypes, Unknown
<1>4. ~QuotaHit(batch.day)
    BY <1>2 DEF DayInv, QuotaOK, Live
<1>5. r \in RowType /\ r.stock = batch.next /\ r.day = batch.day /\ r.batch = batch.no
      /\ r.reason = reason
    <2> DEFINE outcome == IF reason = "none" THEN "success" ELSE "failure"
    <2>1. outcome \in Outcomes /\ reason \in Reasons
        BY DEF Outcomes, Reasons
    <2>2. r = Row(stock, outcome, reason, tokens)
        OBVIOUS
    <2> HIDE DEF outcome, r
    <2> QED
        BY <1>2, <1>3, <2>1, <2>2 DEF Row, RowType, DayInv, DayTypes
<1>6. /\ now = [f \in Fields |-> now[f]] /\ now.stage = "loop" /\ now.no = batch.no
      /\ now.day = batch.day /\ now.done = batch.done /\ now.next = batch.next + 1
      /\ now.gap = batch.gap /\ (reason = "quota" => now.stop = "quota") /\ now.stop \in Reasons
    BY <1>3 DEF After, Fields, Reasons
<1> HIDE DEF r, now
<1>7. Insert(r, now)
    BY <1>1 DEF r, now
<1> QED
    BY <1>2, <1>4, <1>5, <1>6, <1>7, InsertTold DEF Live

LEMMA LeavesTold ==
    ASSUME DayInv, Start \/ GiveUp \/ Finish \/ Restart
    PROVE  DayInv'
<1>1. /\ batch'.stage \in {"idle", "called"} /\ batch'.next = 1
      /\ batch' = [f \in Fields |-> batch'[f]]
      /\ batch'.no \in Nat /\ batch'.day \in Nat /\ batch'.stop \in Reasons
      /\ UNCHANGED <<day, rows>>
    BY DEF Start, GiveUp, Finish, Restart, NoBatch, Fields, Reasons, DayInv, DayTypes
<1>2. DayTypes'
    BY <1>1 DEF DayInv, DayTypes
<1> QED
    BY <1>1, <1>2, OutsideTold DEF DayInv, Live

LEMMA QuietTold ==
    ASSUME DayInv, UNCHANGED <<rows, batch>>, day' \in Nat
    PROVE  DayInv'
<1>1. DayTypes' /\ RowsTold'
    BY DEF DayInv, DayTypes, RowsTold, Analysed
<1>2. PlaceOK' /\ QuotaOK' /\ BehindTold'
    BY DEF DayInv, PlaceOK, QuotaOK, BehindTold, Live, Successful, RowsOf, QuotaHit
<1> QED
    BY <1>1, <1>2 DEF DayInv

(***************************************************************************)
(* For any list, budgets, costs, days, batches and failing writes: nothing *)
(* is recorded of a stock after its success on a day, nothing is analysed  *)
(* after a recorded quota failure of the day, and what a batch has left    *)
(* behind is told by the table, unless a row could not be written.         *)
(***************************************************************************)
THEOREM DaysAreTold == Spec => []DayIsTold
<1>1. Init => DayInv
    BY DayInit
<1>2. DayInv /\ [Next]_vars => DayInv'
    <2> SUFFICES ASSUME DayInv, [Next]_vars PROVE DayInv'
        OBVIOUS
    <2>1. day \in Nat
        BY DEF DayInv, DayTypes
    <2>2. CASE Converse \/ \E s \in Sessions, w \in Writes : Confirm(s, w)
        BY <2>1, <2>2, QuietTold DEF Converse, Confirm, cohortVars
    <2>3. CASE RunTask \/ RunScheduled
        BY <2>1, <2>3, QuietTold, LeavesTold DEF RunTask, RunScheduled, cohortVars
    <2>4. CASE RunBatch
        BY <2>4, BeginTold, LeavesTold, SkipDoneTold, SkipTold, AnalyseTold, OutcomeTold
           DEF RunBatch, BatchStep
    <2>5. CASE ChangeSettings
        BY <2>1, <2>5, QuietTold DEF ChangeSettings
    <2>6. CASE PassDay
        BY <2>1, <2>6, QuietTold DEF PassDay, NextDay
    <2>7. CASE Die
        BY <2>7, LeavesTold DEF Die
    <2>8. CASE UNCHANGED vars
        BY <2>1, <2>8, QuietTold DEF vars, cohortVars
    <2> QED
        BY <2>2, <2>3, <2>4, <2>5, <2>6, <2>7, <2>8 DEF Next
<1>3. DayInv => DayIsTold
    BY DayInvTells
<1> QED
    BY <1>1, <1>2, <1>3, PTL DEF Spec

-----------------------------------------------------------------------------
(* The budgets.  The invariant relates what is on record of a day and of a *)
(* batch to what the batch has counted, and that to the budgets.  A row    *)
(* that could not be written is counted but not recorded: hence "<=".      *)

TokensIn(t) == [i \in DOMAIN t |-> t[i].tokens]
Recorded(S) == SumOf(TokensIn(rows), S)
UnknownIn(b) == {i \in AnalysedIn(b) : rows[i].tokens = Unknown}

WithinButOne(S, budget, estimate) ==
    \/ Recorded(S) <= budget
    \/ \E i \in S : Recorded(S \ {i}) + estimate <= budget

CostsKnown ==
    \A i \in DOMAIN rows : rows[i].tokens \in Costs \cup {Unknown} /\ rows[i].batch <= batch.no

\* A batch counts from zero, and nothing has its number before it begins.
CalledOK ==
    batch.stage = "called" => /\ batch.spent = 0 /\ batch.unknown = 0
                              /\ \A i \in DOMAIN rows : rows[i].batch # batch.no

CountsOK ==
    /\ {batch.today, batch.estimate, batch.spent, batch.unknown} \subseteq Nat
    /\ Live => /\ Cheapest <= batch.estimate
               /\ Recorded(RowsOf(batch.day)) <= batch.today + batch.spent
               /\ Recorded(AnalysedIn(batch.no)) <= batch.spent
               /\ Cardinality(UnknownIn(batch.no)) <= batch.unknown

\* A batch that has not stopped is within its limits.
GoingOK ==
    /\ Live /\ batch.stop = "none" => batch.spent < RunBudget /\ batch.unknown < UNKNOWN_LIMIT
    /\ batch.stage = "analysing" =>
          batch.today + batch.spent + batch.estimate <= DailyBudget

RecordOK ==
    /\ \A d \in Nat : WithinButOne(AnalysedOn(d), DailyBudget, Cheapest)
    /\ \A b \in Nat : /\ WithinButOne(AnalysedIn(b), RunBudget, 1)
                      /\ Cardinality(UnknownIn(b)) <= UNKNOWN_LIMIT

BudgetInv == DayInv /\ CostsKnown /\ CalledOK /\ CountsOK /\ GoingOK /\ RecordOK

\* What stands in the rows.
LEMMA RowFacts ==
    ASSUME rows \in Seq(RowType)
    PROVE  /\ IsFiniteSet(DOMAIN rows)
           /\ \A i \in DOMAIN rows : rows[i].tokens \in Nat /\ TokensIn(rows)[i] = rows[i].tokens
<1>1. IsFiniteSet(DOMAIN rows)
    <2>1. Len(rows) \in Nat /\ DOMAIN rows = 1 .. Len(rows)
        OBVIOUS
    <2>2. IsFiniteSet(1 .. Len(rows))
        BY <2>1, FS_Interval
    <2> QED
        BY <2>1, <2>2
<1>2. \A i \in DOMAIN rows : rows[i] \in RowType
    OBVIOUS
<1> QED
    BY <1>1, <1>2 DEF RowType, TokensIn

LEMMA RecordedInNat ==
    ASSUME rows \in Seq(RowType), NEW S \in SUBSET DOMAIN rows
    PROVE  IsFiniteSet(S) /\ Recorded(S) \in Nat
<1>1. IsFiniteSet(S)
    BY RowFacts, FS_Subset
<1> QED
    BY <1>1, RowFacts, NatSum DEF Recorded

\* The sum of the batch is the library's.
LEMMA SpentIsSum ==
    ASSUME rows \in Seq(RowType), NEW S \in SUBSET DOMAIN rows
    PROVE  Spent(S) = Recorded(S)
<1> DEFINE Body(h) == h = [T \in SUBSET S |-> IF T = {} THEN 0 ELSE
                 rows[CHOOSE x \in T : TRUE].tokens + h[T \ {CHOOSE x \in T : TRUE}]]
<1>1. \A T \in SUBSET S : T # {} => (CHOOSE x \in T : TRUE) \in DOMAIN rows
    OBVIOUS
<1>2. \A h : Body(h) <=> Adds(h, TokensIn(rows), S)
    BY <1>1 DEF Adds, Picked, TokensIn
<1>3. Spent(S) = (CHOOSE h : Body(h))[S]
    BY DEF Spent, MapThenSumSet, MapThenFoldSet
<1>4. IsFiniteSet(S)
    BY RecordedInNat
<1> HIDE DEF Body
<1> QED
    BY <1>2, <1>3, <1>4, SumsExist, SumOfPart DEF Recorded

\* The upper quartile of some analyses is the cost of one of them.
LEMMA RankBelow ==
    ASSUME NEW n \in Nat \ {0}
    PROVE  Rank(n) \in Nat /\ Rank(n) < n
<1> DEFINE k == 3 * (n - 1)
           q == k \div 4
           r == k % 4
<1>1. k \in Nat /\ k < 3 * n
    OBVIOUS
<1> HIDE DEF k
<1>2. k = 4 * q + r /\ q \in Nat /\ r \in 0 .. 3
    BY <1>1
<1>3. Rank(n) \in {q, q + 1} /\ (Rank(n) = q + 1 => r >= 2)
    <2>1. Rank(n) = IF r > 2 \/ (r = 2 /\ q % 2 = 1) THEN q + 1 ELSE q
        BY DEF Rank, k
    <2> HIDE DEF q, r
    <2> QED
        BY <1>2, <2>1
<1> HIDE DEF q, r
<1>4. k = 3 * n - 3
    BY DEF k
<1> QED
    BY <1>1, <1>2, <1>3, <1>4

LEMMA EstimateIsCost ==
    ASSUME rows \in Seq(RowType), CostsKnown
    PROVE  Estimate \in Costs \cup {DEFAULT_ESTIMATE}
<1> DEFINE samples == {i \in DOMAIN rows : rows[i].status = "success" /\ rows[i].tokens # Unknown}
           prices == {rows[i].tokens : i \in samples}
           upTo(c) == Cardinality({i \in samples : rows[i].tokens <= c})
           Quartile(c) == /\ Rank(Cardinality(samples)) < upTo(c)
                          /\ \A lower \in prices :
                                lower < c => upTo(lower) <= Rank(Cardinality(samples))
<1>1. Estimate = IF samples = {} THEN DEFAULT_ESTIMATE ELSE CHOOSE c \in prices : Quartile(c)
    BY DEF Estimate
<1>2. prices \subseteq Costs /\ prices \subseteq Nat
    BY CohortAssumption DEF CostsKnown
<1>3. ASSUME samples # {}
      PROVE  \E c \in prices : Quartile(c)
    <2>1. IsFiniteSet(samples) /\ samples \subseteq DOMAIN rows
        BY RecordedInNat
    <2>2. Cardinality(samples) \in Nat \ {0}
        BY <1>3, <2>1, FS_CardinalityType, FS_EmptySet
    <2> DEFINE rank == Rank(Cardinality(samples))
               good == {c \in prices : rank < upTo(c)}
    <2>3. rank \in Nat /\ rank < Cardinality(samples)
        BY <2>2, RankBelow
    <2>4. PICK top \in samples : \A i \in samples : rows[i].tokens <= rows[top].tokens
        <3>1. \A i \in samples : TokensIn(rows)[i] = rows[i].tokens /\ TokensIn(rows)[i] \in Nat
            BY <2>1, RowFacts
        <3>2. \E x \in samples : \A y \in samples : TokensIn(rows)[y] <= TokensIn(rows)[x]
            <4> HIDE DEF samples
            <4> QED
                BY <1>3, <2>1, <3>1, LargestValue
        <3> QED
            BY <3>1, <3>2
    <2>5. rows[top].tokens \in good
        <3>1. {i \in samples : rows[i].tokens <= rows[top].tokens} = samples
            BY <2>4
        <3> QED
            BY <2>3, <3>1
    <2>6. PICK c \in good : \A other \in good : c <= other
        <3>1. good \in SUBSET Nat /\ good # {}
            BY <1>2, <2>5
        <3> HIDE DEF good
        <3> QED
            BY <3>1, LeastNumber
    <2>7. ASSUME NEW lower \in prices, lower < c
          PROVE  upTo(lower) <= rank
        <3>1. lower \notin good
            <4>1. c \in Nat /\ lower \in Nat
                BY <1>2
            <4> HIDE DEF good
            <4> QED
                BY <2>6, <2>7, <4>1
        <3>2. upTo(lower) \in Nat
            <4>1. {i \in samples : rows[i].tokens <= lower} \in SUBSET samples
                OBVIOUS
            <4> QED
                BY <2>1, <4>1, FS_Subset, FS_CardinalityType
        <3>3. ~(rank < upTo(lower))
            BY <3>1
        <3> HIDE DEF rank, upTo
        <3> QED
            BY <2>3, <3>2, <3>3
    <2> QED
        BY <2>6, <2>7
<1>4. CASE samples = {}
    BY <1>1, <1>4
<1>5. CASE samples # {}
    <2> HIDE DEF Quartile, prices
    <2> QED
        BY <1>1, <1>2, <1>3, <1>5
<1> QED
    BY <1>4, <1>5

\* No analysis is estimated at less than the cheapest.
LEMMA CheapestIsLeast ==
    /\ Cheapest \in Nat
    /\ \A c \in Costs \cup {DEFAULT_ESTIMATE} : Cheapest <= c
<1> DEFINE all == Costs \cup {DEFAULT_ESTIMATE}
<1>1. all \in SUBSET Nat /\ all # {}
    BY CohortAssumption
<1>2. PICK c \in all : \A other \in all : c <= other
    <2> HIDE DEF all
    <2> QED
        BY <1>1, LeastNumber
<1>3. Cheapest \in all /\ \A other \in all : Cheapest <= other
    BY <1>2 DEF Cheapest
<1> QED
    BY <1>1, <1>3

LEMMA BudgetsFollow == BudgetInv => BudgetsBind
<1> SUFFICES ASSUME BudgetInv PROVE BudgetsBind
    OBVIOUS
<1>1. rows \in Seq(RowType)
    BY DEF BudgetInv, DayInv, DayTypes
<1>2. ASSUME NEW S \in SUBSET DOMAIN rows, NEW budget, NEW estimate, WithinButOne(S, budget, estimate)
      PROVE  FitsButOne(S, budget, estimate)
    <2>1. \A T \in SUBSET S : Spent(T) = Recorded(T)
        BY <1>1, SpentIsSum
    <2>2. S \in SUBSET S /\ \A i \in S : S \ {i} \in SUBSET S
        OBVIOUS
    <2> QED
        BY <1>2, <2>1, <2>2 DEF WithinButOne, FitsButOne
<1>3. \A d, b : AnalysedOn(d) \in SUBSET DOMAIN rows /\ AnalysedIn(b) \in SUBSET DOMAIN rows
    BY DEF AnalysedOn, AnalysedIn, RowsOf
<1>4. \A d \in 1 .. LastDay : d \in Nat
    OBVIOUS
<1>5. \A b \in 1 .. MaxBatches : b \in Nat
    OBVIOUS
<1> QED
    BY <1>2, <1>3, <1>4, <1>5 DEF BudgetInv, RecordOK, UnknownIn, BudgetsBind

LEMMA BudgetInit == Init => BudgetInv
<1> SUFFICES ASSUME Init PROVE BudgetInv
    OBVIOUS
<1>1. rows = << >> /\ batch = NoBatch(0) /\ DayInv
    BY DayInit DEF Init, CohortInit
<1>2. DOMAIN rows = {} /\ batch.stage = "idle" /\ batch.no = 0
      /\ batch.today = 0 /\ batch.estimate = 0 /\ batch.spent = 0 /\ batch.unknown = 0
    BY <1>1 DEF NoBatch
<1>3. /\ \A d : AnalysedOn(d) = {}
      /\ \A b : AnalysedIn(b) = {} /\ UnknownIn(b) = {}
    BY <1>2 DEF AnalysedOn, AnalysedIn, UnknownIn, RowsOf
<1>4. Recorded({}) = 0 /\ Cardinality({}) = 0
    BY FS_EmptySet, SumStep DEF Recorded
<1>5. RecordOK
    BY <1>3, <1>4, CohortAssumption DEF RecordOK, WithinButOne
<1> QED
    BY <1>1, <1>2, <1>5 DEF BudgetInv, CostsKnown, CalledOK, CountsOK, GoingOK, Live

\* What the record adds up to depends on the rows only.
LEMMA RecordStays ==
    ASSUME UNCHANGED rows
    PROVE  /\ TokensIn(rows)' = TokensIn(rows)
           /\ \A d : AnalysedOn(d)' = AnalysedOn(d) /\ RowsOf(d)' = RowsOf(d)
           /\ \A b : AnalysedIn(b)' = AnalysedIn(b) /\ UnknownIn(b)' = UnknownIn(b)
           /\ RecordOK => RecordOK'
<1>1. TokensIn(rows)' = TokensIn(rows)
    BY DEF TokensIn
<1>2. \A d : AnalysedOn(d)' = AnalysedOn(d) /\ RowsOf(d)' = RowsOf(d)
    BY DEF AnalysedOn, Analysed, RowsOf
<1>3. \A b : AnalysedIn(b)' = AnalysedIn(b) /\ UnknownIn(b)' = UnknownIn(b)
    BY DEF AnalysedIn, Analysed, UnknownIn
<1>4. ASSUME RecordOK PROVE RecordOK'
    BY <1>1, <1>2, <1>3, <1>4 DEF RecordOK, WithinButOne, Recorded
<1> QED
    BY <1>1, <1>2, <1>3, <1>4

\* The record stays, and the batch is not in its list.
LEMMA OutsideBudget ==
    ASSUME BudgetInv, DayInv', UNCHANGED rows, ~Live', batch'.no \in Nat, batch'.no >= batch.no,
           batch'.today = 0, batch'.estimate = 0, batch'.spent = 0, batch'.unknown = 0,
           batch'.stage = "called" => batch'.no > batch.no
    PROVE  BudgetInv'
<1>1. /\ batch.no \in Nat
      /\ \A i \in DOMAIN rows : rows[i].batch \in Nat
    <2>1. \A i \in DOMAIN rows : rows[i] \in RowType
        BY DEF BudgetInv, DayInv, DayTypes
    <2> QED
        BY <2>1 DEF BudgetInv, DayInv, DayTypes, RowType
<1>2. CostsKnown' /\ CalledOK'
    BY <1>1 DEF BudgetInv, CostsKnown, CalledOK
<1>3. CountsOK' /\ GoingOK'
    <2>1. {batch.today, batch.estimate, batch.spent, batch.unknown}' \subseteq Nat
        OBVIOUS
    <2> QED
        BY <2>1 DEF CountsOK, GoingOK, Live
<1> QED
    BY <1>2, <1>3, RecordStays DEF BudgetInv

LEMMA BeginBudget ==
    ASSUME BudgetInv, Begin
    PROVE  BudgetInv'
<1>1. DayInv'
    BY BeginTold DEF BudgetInv
<1>2. /\ batch'.stage = "loop" /\ batch'.day = day /\ batch'.no = batch.no
      /\ batch'.today = Spent(RowsOf(day)) /\ batch'.estimate = Estimate
      /\ batch'.spent = 0 /\ batch'.unknown = 0
      /\ UNCHANGED rows
    BY DEF Begin, BudgetInv, DayInv, DayTypes, CalledOK, Fields
<1>3. rows \in Seq(RowType) /\ RowsOf(day) \in SUBSET DOMAIN rows
    BY DEF BudgetInv, DayInv, DayTypes, RowsOf
<1>4. Spent(RowsOf(day)) = Recorded(RowsOf(day)) /\ Recorded(RowsOf(day)) \in Nat
    BY <1>3, SpentIsSum, RecordedInNat
<1>5. Estimate \in Nat /\ Cheapest <= Estimate
    BY <1>3, EstimateIsCost, CheapestIsLeast, CohortAssumption DEF BudgetInv
<1>6. AnalysedIn(batch.no) = {} /\ UnknownIn(batch.no) = {}
    BY DEF BudgetInv, CalledOK, Begin, AnalysedIn, UnknownIn
<1>7. Recorded({}) = 0 /\ Cardinality({}) = 0
    BY FS_EmptySet, SumStep DEF Recorded
<1>8. /\ Recorded(RowsOf(batch.day))' = batch'.today
      /\ Recorded(AnalysedIn(batch.no))' = 0
      /\ Cardinality(UnknownIn(batch.no))' = 0
    <2>1. RowsOf(batch.day)' = RowsOf(day)
        BY <1>2 DEF RowsOf
    <2>2. AnalysedIn(batch.no)' = {} /\ UnknownIn(batch.no)' = {}
        BY <1>2, <1>6 DEF AnalysedIn, UnknownIn, Analysed
    <2> QED
        BY <1>2, <1>4, <1>7, <2>1, <2>2, RecordStays DEF Recorded
<1>9. CountsOK'
    BY <1>2, <1>4, <1>5, <1>8 DEF CountsOK
<1>10. GoingOK'
    BY <1>2, CohortAssumption DEF GoingOK
<1>11. CostsKnown' /\ CalledOK'
    BY <1>2 DEF BudgetInv, CostsKnown, CalledOK
<1> QED
    BY <1>1, <1>2, <1>9, <1>10, <1>11, RecordStays DEF BudgetInv

\* Neither the record changes nor what the batch has counted.
LEMMA QuietBudget ==
    ASSUME BudgetInv, DayInv', UNCHANGED rows,
           batch'.stage \in {"loop", "analysing"} => Live,
           batch'.stage = "called" => batch.stage = "called",
           \A f \in {"no", "day", "today", "estimate", "spent", "unknown", "stop"} :
              batch'[f] = batch[f],
           batch'.stage = "analysing" =>
              batch.stage = "analysing" \/ batch.today + batch.spent + batch.estimate <= DailyBudget
    PROVE  BudgetInv'
<1>1. /\ batch'.no = batch.no /\ batch'.day = batch.day /\ batch'.today = batch.today
      /\ batch'.estimate = batch.estimate /\ batch'.spent = batch.spent
      /\ batch'.unknown = batch.unknown /\ batch'.stop = batch.stop
    OBVIOUS
<1>2. CostsKnown' /\ CalledOK'
    BY <1>1 DEF BudgetInv, CostsKnown, CalledOK
<1>3. /\ Recorded(RowsOf(batch.day))' = Recorded(RowsOf(batch.day))
      /\ Recorded(AnalysedIn(batch.no))' = Recorded(AnalysedIn(batch.no))
      /\ Cardinality(UnknownIn(batch.no))' = Cardinality(UnknownIn(batch.no))
    <2>1. /\ RowsOf(batch.day)' = RowsOf(batch.day)
          /\ AnalysedIn(batch.no)' = AnalysedIn(batch.no)
          /\ UnknownIn(batch.no)' = UnknownIn(batch.no)
        BY <1>1 DEF AnalysedIn, UnknownIn, Analysed, RowsOf
    <2> QED
        BY <2>1, RecordStays DEF Recorded
<1>4. CountsOK' /\ GoingOK'
    BY <1>1, <1>3 DEF BudgetInv, CountsOK, GoingOK, Live
<1> QED
    BY <1>2, <1>4, RecordStays DEF BudgetInv

\* The record with one more row.
LEMMA MoreRecorded ==
    ASSUME rows \in Seq(RowType), NEW r \in RowType, rows' = Append(rows, r),
           NEW n, n = Len(rows) + 1
    PROVE  /\ n \notin DOMAIN rows
           /\ \A S \in SUBSET DOMAIN rows :
                 /\ SumOf(TokensIn(rows'), S) = Recorded(S)
                 /\ SumOf(TokensIn(rows'), S \cup {n}) = r.tokens + Recorded(S)
           /\ \A d : RowsOf(d)' = RowsOf(d) \cup (IF r.day = d THEN {n} ELSE {})
           /\ \A d : AnalysedOn(d)' =
                 AnalysedOn(d) \cup (IF r.day = d /\ r.status # "skipped" THEN {n} ELSE {})
           /\ \A b : AnalysedIn(b)' =
                 AnalysedIn(b) \cup (IF r.batch = b /\ r.status # "skipped" THEN {n} ELSE {})
           /\ \A b : UnknownIn(b)' =
                 UnknownIn(b) \cup (IF r.batch = b /\ r.status # "skipped" /\ r.tokens = Unknown
                                    THEN {n} ELSE {})
<1>1. /\ DOMAIN rows' = DOMAIN rows \cup {n} /\ n \notin DOMAIN rows
      /\ rows'[n] = r /\ \A i \in DOMAIN rows : rows'[i] = rows[i]
    BY MoreRows
<1>2. r.status \in {"success", "failure", "skipped"} /\ r.tokens \in Nat
    BY DEF RowType, Outcomes
<1>3. /\ \A i \in DOMAIN rows : TokensIn(rows')[i] = TokensIn(rows)[i]
      /\ TokensIn(rows')[n] = r.tokens
    BY <1>1 DEF TokensIn
<1>4. ASSUME NEW S \in SUBSET DOMAIN rows
      PROVE  /\ SumOf(TokensIn(rows'), S) = SumOf(TokensIn(rows), S)
             /\ SumOf(TokensIn(rows'), S \cup {n}) = r.tokens + SumOf(TokensIn(rows), S)
    <2>1. IsFiniteSet(S)
        BY RecordedInNat
    <2>2. \A i \in S : TokensIn(rows)[i] = TokensIn(rows')[i] /\ TokensIn(rows)[i] \in Int
        BY <1>3, RowFacts
    <2>3. SumOf(TokensIn(rows'), S) = SumOf(TokensIn(rows), S)
        BY <2>1, <2>2, SumOfSame
    <2>4. SumOf(TokensIn(rows'), S \cup {n}) = TokensIn(rows')[n] + SumOf(TokensIn(rows), S)
        <3>1. n \notin S /\ TokensIn(rows')[n] \in Int
            BY <1>1, <1>2, <1>3
        <3> QED
            BY <2>1, <2>2, <3>1, SumGrows
    <2> QED
        BY <1>3, <2>3, <2>4
<1>5. \A d : RowsOf(d)' = RowsOf(d) \cup (IF r.day = d THEN {n} ELSE {})
    BY <1>1 DEF RowsOf
<1>6. \A d : AnalysedOn(d)' =
             AnalysedOn(d) \cup (IF r.day = d /\ r.status # "skipped" THEN {n} ELSE {})
    BY <1>1, <1>2 DEF AnalysedOn, Analysed, RowsOf
<1>7. \A b : AnalysedIn(b)' =
             AnalysedIn(b) \cup (IF r.batch = b /\ r.status # "skipped" THEN {n} ELSE {})
    BY <1>1, <1>2 DEF AnalysedIn, Analysed
<1>8. \A b : UnknownIn(b)' =
             UnknownIn(b) \cup (IF r.batch = b /\ r.status # "skipped" /\ r.tokens = Unknown
                                THEN {n} ELSE {})
    BY <1>1, <1>2 DEF UnknownIn, AnalysedIn, Analysed
<1> QED
    BY <1>1, <1>4, <1>5, <1>6, <1>7, <1>8 DEF Recorded

\* An analysis that was allowed is the one by which a budget may be exceeded.
LEMMA OneMore ==
    ASSUME NEW S, NEW n, n \notin S, NEW budget, NEW estimate,
           SumOf(TokensIn(rows'), S) + estimate <= budget
    PROVE  WithinButOne(S \cup {n}, budget, estimate)'
<1>1. (S \cup {n}) \ {n} = S
    OBVIOUS
<1> QED
    BY <1>1 DEF WithinButOne, Recorded

\* The batch goes on after a stock that it has skipped or analysed, and whose row was
\* written or not.
LEMMA InsertBudget ==
    ASSUME BudgetInv, DayInv', Live,
           NEW r \in RowType, r.day = batch.day, r.batch = batch.no,
           r.tokens \in Costs \cup {Unknown},
           r.status # "skipped" => batch.stage = "analysing" /\ batch.stop = "none",
           batch'.stage = "loop", batch'.no = batch.no, batch'.day = batch.day,
           batch'.today = batch.today, batch'.estimate = batch.estimate,
           batch'.spent = batch.spent + r.tokens,
           batch'.unknown = batch.unknown
                + (IF r.status # "skipped" /\ r.tokens = Unknown THEN 1 ELSE 0),
           batch'.stop = "none" => /\ batch'.spent < RunBudget
                                   /\ batch'.unknown < UNKNOWN_LIMIT,
           rows' = Append(rows, r) \/ rows' = rows
    PROVE  BudgetInv'
<1>1. /\ rows \in Seq(RowType) /\ r.tokens \in Nat /\ batch.no \in Nat /\ batch.day \in Nat
      /\ batch.today \in Nat /\ batch.estimate \in Nat /\ batch.spent \in Nat
      /\ batch.unknown \in Nat /\ Cheapest \in Nat
    BY CheapestIsLeast DEF BudgetInv, DayInv, DayTypes, CountsOK, RowType
<1>2. /\ batch'.spent \in Nat /\ batch'.spent >= batch.spent
      /\ batch'.unknown \in Nat /\ batch'.unknown >= batch.unknown
    BY <1>1
<1>3. /\ Cheapest <= batch.estimate
      /\ Recorded(RowsOf(batch.day)) <= batch.today + batch.spent
      /\ Recorded(AnalysedIn(batch.no)) <= batch.spent
      /\ Cardinality(UnknownIn(batch.no)) <= batch.unknown
    BY DEF BudgetInv, CountsOK
<1>4. /\ \A d : RowsOf(d) \in SUBSET DOMAIN rows /\ AnalysedOn(d) \in SUBSET DOMAIN rows
      /\ \A b : AnalysedIn(b) \in SUBSET DOMAIN rows /\ UnknownIn(b) \in SUBSET DOMAIN rows
    BY DEF RowsOf, AnalysedOn, AnalysedIn, UnknownIn
<1>5. \A S \in SUBSET DOMAIN rows : IsFiniteSet(S) /\ Recorded(S) \in Nat /\ Cardinality(S) \in Nat
    BY <1>1, RecordedInNat, FS_CardinalityType
<1>6. GoingOK'
    BY DEF GoingOK, Live
<1>9. /\ Recorded(RowsOf(batch.day)) \in Nat
      /\ Recorded(AnalysedIn(batch.no)) \in Nat
      /\ Cardinality(UnknownIn(batch.no)) \in Nat
    BY <1>4, <1>5
<1>7. CASE rows' = rows
    <2>1. CostsKnown' /\ CalledOK'
        BY <1>7 DEF BudgetInv, CostsKnown, CalledOK
    <2>2. /\ Recorded(RowsOf(batch.day))' = Recorded(RowsOf(batch.day))
          /\ Recorded(AnalysedIn(batch.no))' = Recorded(AnalysedIn(batch.no))
          /\ Cardinality(UnknownIn(batch.no))' = Cardinality(UnknownIn(batch.no))
        BY <1>7, RecordStays DEF Recorded
    <2>3. CountsOK'
        <3>1. Recorded(RowsOf(batch.day))' <= batch'.today + batch'.spent
            BY <1>1, <1>2, <1>3, <1>9, <2>2
        <3>2. Recorded(AnalysedIn(batch.no))' <= batch'.spent
            BY <1>1, <1>2, <1>3, <1>9, <2>2
        <3>3. Cardinality(UnknownIn(batch.no))' <= batch'.unknown
            <4>1. Cardinality(UnknownIn(batch.no)) <= batch'.unknown
                BY <1>1, <1>2, <1>3, <1>9
            <4> QED
                BY <2>2, <4>1
        <3> QED
            BY <1>1, <1>2, <1>3, <3>1, <3>2, <3>3 DEF CountsOK
    <2> QED
        BY <1>6, <1>7, <2>1, <2>3, RecordStays DEF BudgetInv
<1>8. CASE rows' = Append(rows, r)
    <2> DEFINE n == Len(rows) + 1
    <2>1. /\ n \notin DOMAIN rows
          /\ \A S \in SUBSET DOMAIN rows :
                /\ SumOf(TokensIn(rows'), S) = Recorded(S)
                /\ SumOf(TokensIn(rows'), S \cup {n}) = r.tokens + Recorded(S)
          /\ \A d : RowsOf(d)' = RowsOf(d) \cup (IF r.day = d THEN {n} ELSE {})
          /\ \A d : AnalysedOn(d)' =
                AnalysedOn(d) \cup (IF r.day = d /\ r.status # "skipped" THEN {n} ELSE {})
          /\ \A b : AnalysedIn(b)' =
                AnalysedIn(b) \cup (IF r.batch = b /\ r.status # "skipped" THEN {n} ELSE {})
          /\ \A b : UnknownIn(b)' =
                UnknownIn(b) \cup (IF r.batch = b /\ r.status # "skipped" /\ r.tokens = Unknown
                                   THEN {n} ELSE {})
        BY <1>1, <1>8, MoreRecorded
    <2>2. CostsKnown' /\ CalledOK'
        <3>1. /\ DOMAIN rows' = DOMAIN rows \cup {n}
              /\ rows'[n] = r /\ \A i \in DOMAIN rows : rows'[i] = rows[i]
            BY <1>1, <1>8, MoreRows
        <3> HIDE DEF n
        <3> QED
            BY <1>1, <3>1 DEF BudgetInv, CostsKnown, CalledOK
    <2> HIDE DEF n
    <2>3. Recorded(RowsOf(batch.day))' <= batch'.today + batch'.spent
        <3>1. Recorded(RowsOf(batch.day))' = r.tokens + Recorded(RowsOf(batch.day))
            BY <1>4, <2>1 DEF Recorded
        <3> QED
            BY <1>1, <1>3, <1>4, <1>5, <3>1
    <2>4. /\ r.status = "skipped" => Recorded(AnalysedIn(batch.no))' = Recorded(AnalysedIn(batch.no))
          /\ r.status # "skipped" => Recorded(AnalysedIn(batch.no))'
                                      = r.tokens + Recorded(AnalysedIn(batch.no))
        BY <1>4, <2>1 DEF Recorded
    <2>5. Recorded(AnalysedIn(batch.no))' <= batch'.spent
        BY <1>1, <1>2, <1>3, <1>4, <1>5, <2>4
    <2>6. Cardinality(UnknownIn(batch.no))' <= batch'.unknown
        <3>1. UnknownIn(batch.no)' =
                UnknownIn(batch.no) \cup (IF r.status # "skipped" /\ r.tokens = Unknown
                                          THEN {n} ELSE {})
            BY <2>1
        <3>2. Cardinality(UnknownIn(batch.no) \cup {n}) = Cardinality(UnknownIn(batch.no)) + 1
            BY <1>4, <1>5, <2>1, FS_AddElement
        <3>3. CASE r.status # "skipped" /\ r.tokens = Unknown
            <4>1. UnknownIn(batch.no)' = UnknownIn(batch.no) \cup {n}
                BY <3>1, <3>3
            <4>2. Cardinality(UnknownIn(batch.no) \cup {n}) <= batch'.unknown
                BY <1>1, <1>3, <1>9, <3>2, <3>3
            <4> QED
                BY <4>1, <4>2
        <3>4. CASE ~(r.status # "skipped" /\ r.tokens = Unknown)
            <4>1. UnknownIn(batch.no)' = UnknownIn(batch.no)
                BY <3>1, <3>4
            <4>2. Cardinality(UnknownIn(batch.no)) <= batch'.unknown
                BY <1>1, <1>2, <1>3, <1>9
            <4> QED
                BY <4>1, <4>2
        <3> QED
            BY <3>3, <3>4
    <2>7. CountsOK'
        BY <1>1, <1>2, <1>3, <2>3, <2>5, <2>6 DEF CountsOK
    <2>8. ASSUME r.status # "skipped"
          PROVE  /\ batch.today + batch.spent + batch.estimate <= DailyBudget
                 /\ batch.spent < RunBudget /\ batch.unknown < UNKNOWN_LIMIT
        BY <2>8 DEF BudgetInv, GoingOK
    <2>9. ASSUME NEW S \in SUBSET DOMAIN rows, NEW budget, NEW estimate,
                 WithinButOne(S, budget, estimate)
          PROVE  \/ SumOf(TokensIn(rows'), S) <= budget
                 \/ \E i \in S : SumOf(TokensIn(rows'), S \ {i}) + estimate <= budget
        <3>1. \A i \in S : S \ {i} \in SUBSET DOMAIN rows
            OBVIOUS
        <3> QED
            BY <2>1, <2>9, <3>1 DEF WithinButOne
    <2>10. ASSUME NEW d \in Nat
           PROVE  WithinButOne(AnalysedOn(d), DailyBudget, Cheapest)'
        <3>1. CASE r.day = d /\ r.status # "skipped"
            <4>1. AnalysedOn(d)' = AnalysedOn(d) \cup {n} /\ n \notin AnalysedOn(d)
                BY <1>4, <2>1, <3>1
            <4>2. Recorded(AnalysedOn(d)) <= Recorded(RowsOf(d))
                <5>1. AnalysedOn(d) \in SUBSET RowsOf(d)
                    BY DEF AnalysedOn
                <5>2. \A i \in RowsOf(d) : TokensIn(rows)[i] \in Nat
                    BY <1>1, <1>4, RowFacts
                <5> QED
                    BY <1>4, <1>5, <5>1, <5>2, SumOfLarger DEF Recorded
            <4>3. Recorded(AnalysedOn(d)) + Cheapest <= DailyBudget
                <5>1. d = batch.day /\ Recorded(AnalysedOn(d)) \in Nat
                    BY <1>4, <1>5, <3>1
                <5>2. Recorded(AnalysedOn(d)) <= batch.today + batch.spent
                    BY <1>1, <1>3, <1>9, <4>2, <5>1
                <5>3. batch.today + batch.spent + batch.estimate <= DailyBudget
                      /\ DailyBudget \in Nat
                    BY <2>8, <3>1, CohortAssumption
                <5> QED
                    BY <1>1, <1>3, <5>1, <5>2, <5>3
            <4>4. SumOf(TokensIn(rows'), AnalysedOn(d)) + Cheapest <= DailyBudget
                BY <1>4, <2>1, <4>3
            <4> QED
                BY <4>1, <4>4, OneMore DEF WithinButOne, Recorded
        <3>2. CASE ~(r.day = d /\ r.status # "skipped")
            <4>1. AnalysedOn(d)' = AnalysedOn(d)
                BY <2>1, <3>2
            <4>2. WithinButOne(AnalysedOn(d), DailyBudget, Cheapest)
                BY DEF BudgetInv, RecordOK
            <4> QED
                <5>1. AnalysedOn(d) \in SUBSET DOMAIN rows
                    BY <1>4
                <5> QED
                    BY <2>9, <4>1, <4>2, <5>1 DEF WithinButOne, Recorded
        <3> QED
            BY <3>1, <3>2
    <2>11. ASSUME NEW b \in Nat
           PROVE  WithinButOne(AnalysedIn(b), RunBudget, 1)'
        <3>1. CASE r.batch = b /\ r.status # "skipped"
            <4>1. AnalysedIn(b)' = AnalysedIn(b) \cup {n} /\ n \notin AnalysedIn(b)
                BY <1>4, <2>1, <3>1
            <4>2. Recorded(AnalysedIn(b)) + 1 <= RunBudget
                <5>1. b = batch.no /\ batch.spent < RunBudget /\ RunBudget \in Nat
                    BY <2>8, <3>1, CohortAssumption
                <5> QED
                    BY <1>1, <1>3, <1>9, <5>1
            <4>3. SumOf(TokensIn(rows'), AnalysedIn(b)) + 1 <= RunBudget
                BY <1>4, <2>1, <4>2
            <4> QED
                BY <4>1, <4>3, OneMore DEF WithinButOne, Recorded
        <3>2. CASE ~(r.batch = b /\ r.status # "skipped")
            <4>1. AnalysedIn(b)' = AnalysedIn(b)
                BY <2>1, <3>2
            <4>2. WithinButOne(AnalysedIn(b), RunBudget, 1)
                BY DEF BudgetInv, RecordOK
            <4> QED
                <5>1. AnalysedIn(b) \in SUBSET DOMAIN rows
                    BY <1>4
                <5> QED
                    BY <2>9, <4>1, <4>2, <5>1 DEF WithinButOne, Recorded
        <3> QED
            BY <3>1, <3>2
    <2>12. ASSUME NEW b \in Nat
           PROVE  Cardinality(UnknownIn(b))' <= UNKNOWN_LIMIT
        <3>1. Cardinality(UnknownIn(b)) <= UNKNOWN_LIMIT
            BY DEF BudgetInv, RecordOK
        <3>2. CASE r.batch = b /\ r.status # "skipped" /\ r.tokens = Unknown
            <4>1. UnknownIn(b)' = UnknownIn(b) \cup {n}
                BY <2>1, <3>2
            <4>2. Cardinality(UnknownIn(b) \cup {n}) = Cardinality(UnknownIn(b)) + 1
                BY <1>4, <1>5, <2>1, FS_AddElement
            <4>3. Cardinality(UnknownIn(b)) + 1 <= UNKNOWN_LIMIT
                <5>1. b = batch.no /\ batch.unknown < UNKNOWN_LIMIT /\ UNKNOWN_LIMIT \in Nat
                    BY <2>8, <3>2, CohortAssumption
                <5> QED
                    BY <1>1, <1>3, <1>9, <5>1
            <4> QED
                BY <4>1, <4>2, <4>3
        <3>3. CASE ~(r.batch = b /\ r.status # "skipped" /\ r.tokens = Unknown)
            BY <2>1, <3>1, <3>3
        <3> QED
            BY <3>2, <3>3
    <2>13. RecordOK'
        BY <2>10, <2>11, <2>12 DEF RecordOK
    <2> QED
        BY <1>6, <2>2, <2>7, <2>13 DEF BudgetInv
<1> QED
    BY <1>7, <1>8

LEMMA SkipDoneBudget ==
    ASSUME BudgetInv, NEW stock, SkipDone(stock)
    PROVE  BudgetInv'
<1>1. DayInv'
    BY SkipDoneTold DEF BudgetInv
<1>2. batch.stage = "loop" /\ batch = [f \in Fields |-> batch[f]]
      /\ batch' = [batch EXCEPT !.next = @ + 1] /\ UNCHANGED rows
    BY DEF SkipDone, Turn, BudgetInv, DayInv, DayTypes
<1>3. \A f \in Fields \ {"next"} : batch'[f] = batch[f]
    BY <1>2 DEF Fields
<1>4. batch'.stage = "loop" /\ Live
    BY <1>2, <1>3 DEF Fields, Live
<1>5. \A f \in {"no", "day", "today", "estimate", "spent", "unknown", "stop"} : batch'[f] = batch[f]
    BY <1>3 DEF Fields
<1> QED
    BY <1>1, <1>2, <1>4, <1>5, QuietBudget

LEMMA AnalyseBudget ==
    ASSUME BudgetInv, NEW stock, Analyse(stock)
    PROVE  BudgetInv'
<1>1. DayInv'
    BY AnalyseTold DEF BudgetInv
<1>2. batch.stage = "loop" /\ Stop = "none" /\ batch = [f \in Fields |-> batch[f]]
      /\ batch' = [batch EXCEPT !.stage = "analysing"] /\ UNCHANGED rows
    BY DEF Analyse, Turn, BudgetInv, DayInv, DayTypes
<1>3. \A f \in Fields \ {"stage"} : batch'[f] = batch[f]
    BY <1>2 DEF Fields
<1>4. batch'.stage = "analysing" /\ Live
    BY <1>2 DEF Fields, Live
<1>5. \A f \in {"no", "day", "today", "estimate", "spent", "unknown", "stop"} : batch'[f] = batch[f]
    BY <1>3 DEF Fields
<1>6. batch.today + batch.spent + batch.estimate <= DailyBudget
    <2>1. batch.today \in Nat /\ batch.spent \in Nat /\ batch.estimate \in Nat /\ DailyBudget \in Nat
        BY CohortAssumption DEF BudgetInv, CountsOK
    <2>2. ~(batch.today + batch.spent + batch.estimate > DailyBudget)
        BY <1>2 DEF Stop
    <2> QED
        BY <2>1, <2>2
<1> QED
    BY <1>1, <1>2, <1>4, <1>5, <1>6, QuietBudget

LEMMA SkipBudget ==
    ASSUME BudgetInv, NEW stock \in Stocks, Skip(stock)
    PROVE  BudgetInv'
<1> DEFINE r == Row(stock, "skipped", Stop, Unknown)
           now == [batch EXCEPT !.next = @ + 1, !.stop = Stop]
<1>1. DayInv'
    BY SkipTold DEF BudgetInv
<1>2. batch.stage = "loop" /\ Stop # "none" /\ Insert(r, now)
    BY DEF Skip, Turn
<1>3. /\ stock \in Nat /\ Stop \in Reasons
      /\ batch = [f \in Fields |-> batch[f]] /\ batch.no \in Nat /\ batch.day \in Nat
      /\ batch.spent \in Nat /\ batch.unknown \in Nat
    BY CohortAssumption DEF Stocks, Stop, Reasons, BudgetInv, CountsOK, DayInv, DayTypes
<1>4. /\ r \in RowType /\ r.day = batch.day /\ r.batch = batch.no /\ r.status = "skipped"
      /\ r.tokens = Unknown
    BY <1>3 DEF Row, RowType, Outcomes, Unknown
<1>5. /\ now = [f \in Fields |-> now[f]] /\ now.stage = "loop" /\ now.no = batch.no
      /\ now.day = batch.day /\ now.today = batch.today /\ now.estimate = batch.estimate
      /\ now.spent = batch.spent /\ now.unknown = batch.unknown /\ now.stop = Stop
    BY <1>2, <1>3 DEF Fields
<1> HIDE DEF r, now
<1>6. (rows' = Append(rows, r) \/ rows' = rows)
      /\ \A f \in Fields \ {"gap"} : batch'[f] = now[f]
    BY <1>2, <1>5 DEF Insert, Fields
<1>7. /\ batch'.stage = "loop" /\ batch'.no = batch.no
      /\ batch'.day = batch.day /\ batch'.today = batch.today /\ batch'.estimate = batch.estimate
      /\ batch'.spent = batch.spent /\ batch'.unknown = batch.unknown /\ batch'.stop # "none"
    BY <1>2, <1>5, <1>6 DEF Fields
<1>8. batch'.spent = batch.spent + r.tokens /\ batch'.unknown = batch.unknown + 0
    BY <1>3, <1>4, <1>7 DEF Unknown
<1>9. batch'.unknown = batch.unknown
                        + (IF r.status # "skipped" /\ r.tokens = Unknown THEN 1 ELSE 0)
    BY <1>4, <1>8
<1> QED
    BY <1>1, <1>2, <1>4, <1>6, <1>7, <1>8, <1>9, InsertBudget DEF Live

LEMMA OutcomeBudget ==
    ASSUME BudgetInv, NEW stock \in Stocks, Outcome(stock)
    PROVE  BudgetInv'
<1>1. PICK reason \in {"none", "exception", "quota"}, tokens \in Costs \cup {Unknown} :
         Insert(Row(stock, IF reason = "none" THEN "success" ELSE "failure", reason, tokens),
                After(reason, tokens))
    BY DEF Outcome
<1> DEFINE outcome == IF reason = "none" THEN "success" ELSE "failure"
           r == Row(stock, outcome, reason, tokens)
           now == After(reason, tokens)
<1>2. DayInv'
    BY OutcomeTold DEF BudgetInv
<1>3. batch.stage = "analysing" /\ batch.stop = "none"
    BY DEF Outcome, BudgetInv, DayInv, PlaceOK
<1>4. /\ stock \in Nat /\ tokens \in Nat /\ {RunBudget, UNKNOWN_LIMIT} \subseteq Nat
      /\ batch = [f \in Fields |-> batch[f]] /\ batch.no \in Nat /\ batch.day \in Nat
      /\ batch.spent \in Nat /\ batch.unknown \in Nat
    BY CohortAssumption DEF Stocks, Unknown, BudgetInv, CountsOK, DayInv, DayTypes
<1>5. /\ r \in RowType /\ r.day = batch.day /\ r.batch = batch.no /\ r.status # "skipped"
      /\ r.tokens = tokens
    <2>1. outcome \in Outcomes /\ outcome # "skipped" /\ reason \in Reasons
        BY DEF Outcomes, Reasons
    <2> HIDE DEF outcome
    <2> QED
        BY <1>4, <2>1 DEF Row, RowType
<1>6. /\ now = [f \in Fields |-> now[f]] /\ now.stage = "loop" /\ now.no = batch.no
      /\ now.day = batch.day /\ now.today = batch.today /\ now.estimate = batch.estimate
      /\ now.spent = batch.spent + tokens
      /\ now.unknown = batch.unknown + (IF tokens = Unknown THEN 1 ELSE 0)
    BY <1>4 DEF After, Fields
<1>7. now.stop = "none" => now.spent < RunBudget /\ now.unknown < UNKNOWN_LIMIT
    <2> DEFINE spent == batch.spent + tokens
               unknown == batch.unknown + (IF tokens = Unknown THEN 1 ELSE 0)
    <2>1. now.stop = IF reason = "quota" THEN "quota"
                     ELSE IF spent >= RunBudget THEN "budget"
                     ELSE IF unknown >= UNKNOWN_LIMIT THEN "budget_unknown" ELSE "none"
        BY <1>4 DEF After, Fields
    <2>2. spent \in Nat /\ unknown \in Nat /\ now.spent = spent /\ now.unknown = unknown
        BY <1>4, <1>6
    <2> HIDE DEF spent, unknown, now
    <2> QED
        BY <1>4, <2>1, <2>2
<1> HIDE DEF r, now, outcome
<1>8. Insert(r, now)
    BY <1>1 DEF r, now, outcome
<1>9. (rows' = Append(rows, r) \/ rows' = rows)
      /\ \A f \in Fields \ {"gap"} : batch'[f] = now[f]
    BY <1>6, <1>8 DEF Insert, Fields
<1>10. /\ batch'.stage = "loop" /\ batch'.no = batch.no
       /\ batch'.day = batch.day /\ batch'.today = batch.today /\ batch'.estimate = batch.estimate
       /\ batch'.spent = now.spent /\ batch'.unknown = now.unknown /\ batch'.stop = now.stop
    BY <1>6, <1>9 DEF Fields
<1>11. /\ batch'.spent = batch.spent + r.tokens
       /\ batch'.unknown = batch.unknown
                        + (IF r.status # "skipped" /\ r.tokens = Unknown THEN 1 ELSE 0)
       /\ batch'.stop = "none" => batch'.spent < RunBudget /\ batch'.unknown < UNKNOWN_LIMIT
    BY <1>5, <1>6, <1>7, <1>10
<1> QED
    BY <1>2, <1>3, <1>5, <1>9, <1>10, <1>11, InsertBudget DEF Live

LEMMA LeavesBudget ==
    ASSUME BudgetInv, Start \/ GiveUp \/ Finish \/ Restart
    PROVE  BudgetInv'
<1>1. DayInv'
    BY LeavesTold DEF BudgetInv
<1>2. batch.no \in Nat
    BY DEF BudgetInv, DayInv, DayTypes
<1>3. CASE Start
    <2>1. /\ batch'.stage = "called" /\ batch'.no = batch.no + 1 /\ UNCHANGED rows
          /\ batch'.today = 0 /\ batch'.estimate = 0 /\ batch'.spent = 0 /\ batch'.unknown = 0
        BY <1>3 DEF Start, NoBatch
    <2> QED
        BY <1>1, <1>2, <2>1, OutsideBudget DEF Live
<1>4. CASE GiveUp \/ Finish \/ Restart
    <2>1. /\ batch'.stage = "idle" /\ batch'.no = batch.no /\ UNCHANGED rows
          /\ batch'.today = 0 /\ batch'.estimate = 0 /\ batch'.spent = 0 /\ batch'.unknown = 0
        BY <1>4 DEF GiveUp, Finish, Restart, NoBatch
    <2> QED
        BY <1>1, <1>2, <2>1, OutsideBudget DEF Live
<1> QED
    BY <1>3, <1>4

LEMMA IdleBudget ==
    ASSUME BudgetInv, UNCHANGED <<rows, batch>>, day' \in Nat
    PROVE  BudgetInv'
<1>1. DayInv'
    BY QuietTold DEF BudgetInv
<1>2. batch.stage \in {"loop", "analysing"} => Live
    BY DEF Live
<1> QED
    BY <1>1, <1>2, QuietBudget

(***************************************************************************)
(* For any list, budgets, costs, days, batches, restarts and failing       *)
(* writes: what is on record for a day or a batch exceeds its budget by    *)
(* one analysis at most, whose estimate still fitted, and no batch has     *)
(* more analyses of unknown cost than the limit allows.                    *)
(***************************************************************************)
THEOREM BudgetsAreKept == Spec => []BudgetsBind
<1>1. Init => BudgetInv
    BY BudgetInit
<1>2. BudgetInv /\ [Next]_vars => BudgetInv'
    <2> SUFFICES ASSUME BudgetInv, [Next]_vars PROVE BudgetInv'
        OBVIOUS
    <2>1. day \in Nat
        BY DEF BudgetInv, DayInv, DayTypes
    <2>2. CASE Converse \/ \E s \in Sessions, w \in Writes : Confirm(s, w)
        BY <2>1, <2>2, IdleBudget DEF Converse, Confirm, cohortVars
    <2>3. CASE RunTask \/ RunScheduled
        BY <2>1, <2>3, IdleBudget, LeavesBudget DEF RunTask, RunScheduled, cohortVars
    <2>4. CASE RunBatch
        BY <2>4, BeginBudget, LeavesBudget, SkipDoneBudget, SkipBudget, AnalyseBudget,
           OutcomeBudget DEF RunBatch, BatchStep
    <2>5. CASE ChangeSettings
        BY <2>1, <2>5, IdleBudget DEF ChangeSettings
    <2>6. CASE PassDay
        BY <2>1, <2>6, IdleBudget DEF PassDay, NextDay
    <2>7. CASE Die
        BY <2>7, LeavesBudget DEF Die
    <2>8. CASE UNCHANGED vars
        BY <2>1, <2>8, IdleBudget DEF vars, cohortVars
    <2> QED
        BY <2>2, <2>3, <2>4, <2>5, <2>6, <2>7, <2>8 DEF Next
<1>3. BudgetInv => BudgetsBind
    BY BudgetsFollow
<1> QED
    BY <1>1, <1>2, <1>3, PTL DEF Spec
=============================================================================
