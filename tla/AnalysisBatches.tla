--------------------------- MODULE AnalysisBatches ---------------------------
(***************************************************************************)
(* Who hands analyses to the queue, and what the tables say of it: the     *)
(* daily batch over the pool (screening/pool_analysis.py), the batch that  *)
(* reports trigger (screening/report_trigger.py) and the click on an item  *)
(* of the watch list (api.py), on one day.                                 *)
(*                                                                         *)
(* A batch runs in a thread of its own and reads and writes one row per    *)
(* statement; the session, its row and its place in the queue are three    *)
(* things, and the process may end between any two.  A second batch may    *)
(* begin while the first one goes on: a job that has waited for 120        *)
(* seconds fails and is tried again, and the end points have no lock.      *)
(*                                                                         *)
(* A pick is what is analysed once: a stock of the pool, a stock of a      *)
(* report, or an item of the watch list.  Queue and runs are as much of    *)
(* AnalysisQueue as a session that is handed over more than once needs.    *)
(***************************************************************************)
EXTENDS Naturals, Sequences, FiniteSets

CONSTANTS
    PoolList,     \* the picks of the pool in the order of their rank, cut to the cap
    ReportList,   \* the picks of all reports, report after report
    Items,        \* the picks of the watch list
    Limit,        \* _max_concurrency
    MAX_SYMBOLS,  \* stocks per report
    DAILY_MAX,    \* analyses per day, beyond which reports trigger none
    Callers,      \* threads of batches and requests
    MaxSessions, MaxCalls, MaxMishaps  \* bounds

Elements(list) == {list[i] : i \in DOMAIN list}

PoolPicks == Elements(PoolList)
ReportPicks == Elements(ReportList)
Listed == PoolPicks \cup ReportPicks   \* the picks that have a row in one of the tables
Picks == Listed \cup Items

\* A pick is <<source, stock>>; the source of a report's pick is the report.
Source(pick) == pick[1]
Symbol(pick) == pick[2]

ASSUME BatchesAssumption ==
    /\ PoolList \in Seq(PoolPicks) /\ ReportList \in Seq(ReportPicks)
    /\ Items \cap Listed = {} /\ PoolPicks \cap ReportPicks = {}
    /\ IsFiniteSet(Items)
    /\ {Limit, MAX_SYMBOLS} \subseteq Nat \ {0}
    /\ {DAILY_MAX, MaxSessions, MaxCalls, MaxMishaps} \subseteq Nat

VARIABLES
    sessions,   \* sessions.status
    made,     \* the pick that a session was made for
    rows,     \* pool_analysis_runs, report_analysis_runs and event_watchlist
    loop,     \* _MAIN_LOOP is set
    posted,   \* calls of enqueue that wait for the event loop
    waiting,  \* entries of the queue that are queued, in order
    held,     \* entries that are running: each holds a place
    live,     \* sessions whose thread runs
    caller,   \* what each batch or request is doing
    calls,    \* how many callers have begun
    mishaps,  \* restarts, and calls of a store that have raised
    sent,     \* history: sessions that have been handed over
    unlucky,  \* history: sessions of which a run has failed or a hand-over was refused
    loose     \* history: picks of two overlapping callers, or whose mark was lost

placeVars == <<waiting, held, live>>
history == <<sent, unlucky, loose>>
batchesVars == <<sessions, made, rows, loop, posted, placeVars, caller, calls, mishaps, history>>

Sessions == 1 .. MaxSessions
None == 0
Ends == {"completed", "failed"}   \* "failed" stands for "interrupted" as well

NoRow == [status |-> "none", session |-> None]
Idle == [kind |-> "none", pc |-> "idle", todo |-> << >>, session |-> None,
         stale |-> {}, found |-> "none", used |-> 0, done |-> {}]

BatchesInit ==
    /\ sessions = [s \in Sessions |-> "none"]
    /\ made = [s \in Sessions |-> << >>]
    /\ rows = [p \in Picks |-> NoRow]
    /\ loop = TRUE
    /\ posted = << >> /\ waiting = << >> /\ held = << >>
    /\ live = {}
    /\ caller = [c \in Callers |-> Idle]
    /\ calls = 0 /\ mishaps = 0
    /\ sent = {} /\ unlucky = {} /\ loose = {}

-----------------------------------------------------------------------------
At(c, pc) == caller[c].pc = pc
Become(c, new) == caller' = [caller EXCEPT ![c] = new]
Pick(c) == Head(caller[c].todo)

\* INSERT ... ON CONFLICT DO UPDATE: a row is replaced, whatever it has become by now.
Write(pick, session, state) ==
    rows' = [rows EXCEPT ![pick] = [status |-> state, session |-> session]]

\* A call of a store raises, or the process ends.
Mishap == mishaps < MaxMishaps /\ mishaps' = mishaps + 1

\* The batch goes on with the next of its list.
Passed(me) == [me EXCEPT !.pc = "look", !.todo = Tail(@), !.session = None]
Pass(c) == Become(c, Passed(caller[c]))

-----------------------------------------------------------------------------
(* The queue, and the runs behind it.                                      *)

\* enqueue and a watcher end with a promotion: the first that waits gets a free place.
\* PipelineRunner.start leaves a thread alone that runs for the session already.
GivePlace(line, places) ==
    IF line # << >> /\ Len(places) < Limit
    THEN /\ waiting' = Tail(line)
         /\ held' = Append(places, Head(line))
         /\ live' = live \cup {Head(line)}
    ELSE /\ waiting' = line
         /\ held' = places
         /\ UNCHANGED live

\* call_soon_threadsafe: the loop runs what was posted, in order.
EnterQueue ==
    /\ posted # << >>
    /\ posted' = Tail(posted)
    /\ GivePlace(Append(waiting, Head(posted)), held)
    /\ UNCHANGED <<sessions, made, rows, loop, caller, calls, mishaps, history>>

\* A run ends with a saved report or without.  A session that was handed over again is not
\* set to running before.
RunEnds(s) ==
    /\ s \in live
    /\ live' = live \ {s}
    /\ \E outcome \in Ends :
          /\ sessions' = [sessions EXCEPT ![s] = outcome]
          /\ unlucky' = IF outcome = "failed" THEN unlucky \cup {s} ELSE unlucky
    /\ UNCHANGED <<made, rows, loop, posted, waiting, held, caller, calls, mishaps, sent, loose>>

\* The watcher of an entry finds the session at an end, and gives the place to the next.
FreePlace(i) ==
    /\ i \in DOMAIN held
    /\ sessions[held[i]] \in Ends
    /\ GivePlace(waiting, SubSeq(held, 1, i - 1) \o SubSeq(held, i + 1, Len(held)))
    /\ UNCHANGED <<sessions, made, rows, loop, posted, caller, calls, mishaps, history>>

-----------------------------------------------------------------------------
(* The beginnings.                                                         *)

\* What the picks of two batches that overlap owe each other is not kept.
Upset(c, kind) ==
    UNION {IF {kind, caller[d].kind} = {"pool"} THEN PoolPicks ELSE ReportPicks :
           d \in {d \in Callers \ {c} : caller[d].kind \in {"pool", "report"}}}

Begin(c) ==
    /\ loop
    /\ At(c, "idle")
    /\ calls < MaxCalls
    /\ calls' = calls + 1
    /\ UNCHANGED <<sessions, made, rows, loop, posted, placeVars, mishaps, sent, unlucky>>

\* prepare_pool_analysis_batch begins with the rows that are not final.
BeginPool(c) ==
    /\ Begin(c)
    /\ LET open == {p \in PoolPicks : rows[p].status \in {"queued", "dispatch_failed"}}
       IN  Become(c, [Idle EXCEPT !.kind = "pool", !.pc = "heal",
                      !.stale = {<<p, rows[p].session>> : p \in open}])
    /\ loose' = loose \cup Upset(c, "pool")

Used == Cardinality({p \in Listed : rows[p].status # "none"})

\* prepare_report_analysis_batch counts the day first.
BeginReport(c) ==
    /\ Begin(c)
    /\ Become(c, [Idle EXCEPT !.kind = "report", !.pc = "look", !.used = Used,
                              !.todo = ReportList])
    /\ loose' = loose \cup Upset(c, "report")

\* events_watchlist_analyze: an item with a session is answered at once.
Click(c, item) ==
    /\ rows[item] = NoRow
    /\ Begin(c)
    /\ Become(c, [Idle EXCEPT !.kind = "click", !.pc = "create", !.todo = <<item>>])
    /\ loose' = IF \E d \in Callers \ {c} : caller[d].todo = <<item>>
                THEN loose \cup {item} ELSE loose

-----------------------------------------------------------------------------
(* reconcile_pool_analysis_runs: the ends of sessions are written into the *)
(* rows, one after the other, as the table was when it was read.           *)

\* get_session: a session that is not at its end is passed over.
HealRead(c) ==
    /\ At(c, "heal")
    /\ \E old \in caller[c].stale :
          LET next == [caller[c] EXCEPT !.stale = @ \ {old}]
          IN  Become(c, IF sessions[old[2]] \in Ends
                        THEN [next EXCEPT !.pc = "healed", !.todo = <<old[1]>>,
                                          !.session = old[2], !.found = sessions[old[2]]]
                        ELSE next)
    /\ UNCHANGED <<sessions, made, rows, loop, posted, placeVars, calls, mishaps, history>>

\* _SESSION_TERMINAL_STATUS
HealWrite(c) ==
    /\ At(c, "healed")
    /\ Write(Pick(c), caller[c].session, caller[c].found)
    /\ Become(c, [Idle EXCEPT !.kind = "pool", !.pc = "heal", !.stale = caller[c].stale])
    /\ UNCHANGED <<sessions, made, loop, posted, placeVars, calls, mishaps, history>>

\* Then the pool is read, also when a store has raised.
ReadPool(c) ==
    /\ \/ At(c, "heal") /\ caller[c].stale = {} /\ UNCHANGED mishaps
       \/ (At(c, "heal") \/ At(c, "healed")) /\ Mishap
    /\ Become(c, [Idle EXCEPT !.kind = "pool", !.pc = "look", !.todo = PoolList])
    /\ UNCHANGED <<sessions, made, rows, loop, posted, placeVars, calls, history>>

-----------------------------------------------------------------------------
(* What the tables know of a pick.                                         *)

\* The pick is worked on, with the session of its row if it has one.
Take(c, session) ==
    Become(c, [caller[c] EXCEPT !.session = session,
                                !.pc = IF session = None THEN "create" ELSE "hand"])

\* Left out: what a pool that is empty or out of date lists, reports that are too old or
\* were not asked for, and stocks that are suspended or out of scope.
LeaveOut(c) ==
    /\ At(c, "look") /\ caller[c].todo # << >>
    /\ Pass(c)
    /\ UNCHANGED <<sessions, made, rows, loop, posted, placeVars, calls, mishaps, history>>

\* Mutant of Settled: a queued stock is taken up again.
SettledWhenCompleted(row) == row.status = "completed"

\* A stock of the pool that is queued or completed is not taken up again.
Settled(row) == row.status \in {"queued", "completed"}

LookPool(c) ==
    /\ caller[c].kind = "pool" /\ At(c, "look") /\ caller[c].todo # << >>
    /\ IF Settled(rows[Pick(c)]) THEN Pass(c) ELSE Take(c, rows[Pick(c)].session)
    /\ UNCHANGED <<sessions, made, rows, loop, posted, placeVars, calls, mishaps, history>>

\* per_doc: what this batch has handed over of the report.
PerReport(c) == Cardinality({p \in caller[c].done : Source(p) = Source(Pick(c))})

\* A pick with a row is a duplicate, unless its session could not be handed over.
LookReport(c) ==
    /\ caller[c].kind = "report" /\ At(c, "look") /\ caller[c].todo # << >>
    /\ IF PerReport(c) < MAX_SYMBOLS /\ rows[Pick(c)].status \in {"none", "dispatch_failed"}
       THEN Become(c, [caller[c] EXCEPT !.pc = "today", !.session = rows[Pick(c)].session])
       ELSE Pass(c)
    /\ UNCHANGED <<sessions, made, rows, loop, posted, placeVars, calls, mishaps, history>>

\* _already_today: the stock has a row of the pool or of another report.
AlreadyToday(pick) ==
    \E p \in Listed \ {pick} : Symbol(p) = Symbol(pick) /\ rows[p].status # "none"

LookToday(c) ==
    /\ At(c, "today")
    /\ IF AlreadyToday(Pick(c)) \/ caller[c].used + Cardinality(caller[c].done) >= DAILY_MAX
       THEN Pass(c) ELSE Take(c, caller[c].session)
    /\ UNCHANGED <<sessions, made, rows, loop, posted, placeVars, calls, mishaps, history>>

\* The list is at its end.
Finish(c) ==
    /\ At(c, "look") /\ caller[c].todo = << >>
    /\ Become(c, Idle)
    /\ UNCHANGED <<sessions, made, rows, loop, posted, placeVars, calls, mishaps, history>>

-----------------------------------------------------------------------------
(* create_analysis_session, and what is recorded of it.                    *)

Fresh(s) == sessions[s] = "none" /\ \A t \in Sessions : t < s => sessions[t] # "none"

\* create_session
Create(c) ==
    /\ At(c, "create")
    /\ \E s \in Sessions :
          /\ Fresh(s)
          /\ sessions' = [sessions EXCEPT ![s] = "clarifying"]
          /\ made' = [made EXCEPT ![s] = Pick(c)]
          /\ Become(c, [caller[c] EXCEPT !.pc = "open", !.session = s])
    /\ UNCHANGED <<rows, loop, posted, placeVars, calls, mishaps, history>>

\* A request marks its item afterwards.
AfterOpen(kind) == IF kind = "click" THEN "hand" ELSE "record"

\* update_session_for_clarify
OpenSession(c) ==
    /\ At(c, "open")
    /\ sessions' = [sessions EXCEPT ![caller[c].session] = "running"]
    /\ Become(c, [caller[c] EXCEPT !.pc = AfterOpen(caller[c].kind)])
    /\ UNCHANGED <<made, rows, loop, posted, placeVars, calls, mishaps, history>>

\* The creation raises: the row says so, and the session, if there is one, is forgotten.
\* A request just ends.
CreateFails(c) ==
    /\ Mishap
    /\ \/ caller[c].pc \in {"create", "open", "record"}
       \/ At(c, "hand") /\ caller[c].kind = "click"
    /\ IF caller[c].kind = "click" THEN Become(c, Idle) /\ UNCHANGED rows
       ELSE Pass(c) /\ Write(Pick(c), None, "session_failed")
    /\ UNCHANGED <<sessions, made, loop, posted, placeVars, calls, history>>

Record(c) ==
    /\ At(c, "record")
    /\ Write(Pick(c), caller[c].session, "queued")
    /\ Become(c, [caller[c] EXCEPT !.pc = "hand"])
    /\ UNCHANGED <<sessions, made, loop, posted, placeVars, calls, mishaps, history>>

\* A write that raises ends the batch or the request.
RecordFails(c) ==
    /\ Mishap
    /\ caller[c].pc \in {"record", "confirm", "mark"}
    /\ Become(c, Idle)
    /\ loose' = IF At(c, "mark") THEN loose \cup {Pick(c)} ELSE loose
    /\ UNCHANGED <<sessions, made, rows, loop, posted, placeVars, calls, sent, unlucky>>

-----------------------------------------------------------------------------
(* The hand-over.                                                          *)

\* _enqueue_pool_analysis posts to the loop.  The batch over the pool records that once more,
\* the one of the reports only counts it.
Post(c) ==
    /\ At(c, "hand") /\ caller[c].kind # "click"
    /\ loop
    /\ posted' = Append(posted, caller[c].session)
    /\ sent' = sent \cup {caller[c].session}
    /\ Become(c, IF caller[c].kind = "pool" THEN [caller[c] EXCEPT !.pc = "confirm"]
                 ELSE [Passed(caller[c]) EXCEPT !.done = @ \cup {Pick(c)}])
    /\ UNCHANGED <<sessions, made, rows, loop, placeVars, calls, mishaps, unlucky, loose>>

\* Mutant of Refuse: nothing is recorded when there is no loop.
RefuseSilently(c) ==
    /\ At(c, "hand") /\ caller[c].kind # "click"
    /\ ~loop
    /\ unlucky' = unlucky \cup {caller[c].session}
    /\ Pass(c)
    /\ UNCHANGED <<sessions, made, rows, loop, posted, placeVars, calls, mishaps, sent, loose>>

\* Without a loop the session is left to another batch.
Refuse(c) ==
    /\ At(c, "hand") /\ caller[c].kind # "click"
    /\ ~loop
    /\ Write(Pick(c), caller[c].session, "dispatch_failed")
    /\ unlucky' = unlucky \cup {caller[c].session}
    /\ Pass(c)
    /\ UNCHANGED <<sessions, made, loop, posted, placeVars, calls, mishaps, sent, loose>>

Confirm(c) ==
    /\ At(c, "confirm")
    /\ Write(Pick(c), caller[c].session, "queued")
    /\ Pass(c)
    /\ UNCHANGED <<sessions, made, loop, posted, placeVars, calls, mishaps, history>>

\* A request is on the loop itself and calls enqueue; the item is marked afterwards.
HandOnLoop(c) ==
    /\ At(c, "hand") /\ caller[c].kind = "click"
    /\ GivePlace(Append(waiting, caller[c].session), held)
    /\ sent' = sent \cup {caller[c].session}
    /\ Become(c, [caller[c] EXCEPT !.pc = "mark"])
    /\ UNCHANGED <<sessions, made, rows, loop, posted, calls, mishaps, unlucky, loose>>

\* mark_watchlist_analyzing
Mark(c) ==
    /\ At(c, "mark")
    /\ Write(Pick(c), caller[c].session, "analyzing")
    /\ Become(c, Idle)
    /\ UNCHANGED <<sessions, made, loop, posted, placeVars, calls, mishaps, history>>

-----------------------------------------------------------------------------
(* The process.                                                            *)

\* _lifespan ends: threads go on until the process ends, and find no loop.
Shutdown ==
    /\ loop
    /\ loop' = FALSE
    /\ UNCHANGED <<sessions, made, rows, posted, placeVars, caller, calls, mishaps, history>>

\* The process ends, at any step, and begins again: mark_swept_failed ends the sessions
\* that say they are running.
Reboot ==
    /\ Mishap
    /\ loop' = TRUE
    /\ posted' = << >> /\ waiting' = << >> /\ held' = << >> /\ live' = {}
    /\ caller' = [c \in Callers |-> Idle]
    /\ sessions' = [s \in Sessions |-> IF sessions[s] = "running" THEN "failed" ELSE sessions[s]]
    /\ unlucky' = unlucky \cup live \cup {s \in Sessions : sessions[s] = "running"}
    /\ loose' = loose \cup {Pick(c) : c \in {d \in Callers : At(d, "mark")}}
    /\ UNCHANGED <<made, rows, calls, sent>>

Step(c) ==
    \/ HealRead(c) \/ HealWrite(c) \/ ReadPool(c)
    \/ LeaveOut(c) \/ LookPool(c) \/ LookReport(c) \/ LookToday(c) \/ Finish(c)
    \/ Create(c) \/ OpenSession(c) \/ CreateFails(c) \/ Record(c) \/ RecordFails(c)
    \/ Post(c) \/ Refuse(c) \/ Confirm(c) \/ HandOnLoop(c) \/ Mark(c)

BatchesNext ==
    \/ \E c \in Callers : \/ BeginPool(c) \/ BeginReport(c)
                          \/ \E item \in Items : Click(c, item)
                          \/ Step(c)
    \/ EnterQueue
    \/ \E s \in Sessions : RunEnds(s)
    \/ \E i \in 1 .. Limit : FreePlace(i)
    \/ Shutdown
    \/ Reboot

BatchesSpec == BatchesInit /\ [][BatchesNext]_batchesVars

-----------------------------------------------------------------------------
\* The step hands the session over.
HandedOver(s) ==
    \E c \in Callers :
        /\ At(c, "hand") /\ caller[c].session = s
        /\ caller'[c].pc \in {"confirm", "mark"} \/ Pick(c) \in caller'[c].done

(***************************************************************************)
(* Nothing is forgotten: a row that says queued, or an item that says it   *)
(* is analysed, has a session that is at its end, in the queue, on its way *)
(* to it, or about to be handed over, over shutdowns, restarts, failed     *)
(* writes and batches that overlap.  What is at its end is healed or       *)
(* taken up by the next batch (pool_analysis.py).                          *)
(***************************************************************************)
QueuedIsWorkedOn ==
    \A p \in Picks : rows[p].status \in {"queued", "analyzing"} =>
        LET s == rows[p].session
        IN  \/ sessions[s] \in Ends
            \/ s \in Elements(posted) \cup Elements(waiting) \cup live
            \/ \E c \in Callers : At(c, "hand") /\ caller[c].session = s

\* A pick has one session, and a report has no stock analysed that has been listed already.
Rivals(earlier, later) ==
    \/ earlier = later
    \/ /\ later \in ReportPicks /\ earlier \in Listed
       /\ Symbol(earlier) = Symbol(later)

(***************************************************************************)
(* Nothing is analysed twice: a pick has one session, which is handed over *)
(* again only after its run has failed or its hand-over was refused, and   *)
(* what reports trigger is no stock that the pool or another report has    *)
(* had handed over before (the keys of the two tables, _already_today, and *)
(* already_started of the watch list).  Two batches of one kind that       *)
(* overlap, two clicks that do, and a mark that was lost are excepted.     *)
(***************************************************************************)
AnalysedOnce ==
    [][\A s \in Sessions : HandedOver(s) /\ made[s] \notin loose' =>
          \A t \in sent : Rivals(made[t], made[s]) => t = s /\ s \in unlucky]_batchesVars

\* Not kept: an analysis that has been completed is not handed over again.
CompletedIsFinal == [][\A s \in Sessions : HandedOver(s) => sessions[s] # "completed"]_batchesVars

\* Not kept: no more threads run than there are places.
RunsWithinLimit == Cardinality(live) <= Limit

=============================================================================
