------------------------ MODULE BackgroundRunsProofs ------------------------
(***************************************************************************)
(* Theorems about work that runs in the background and is told by a row:   *)
(* the threads of PipelineRunner with the rows of their sessions, and the  *)
(* jobs with the rows of the run history.                                  *)
(*                                                                         *)
(* Every thread of PipelineRunner lives the life that AnalysisRun promises *)
(* to the queue, for any number of analyses, whether or not the store and  *)
(* the starts may fail.  Every step changes at most one run and one row    *)
(* (a restart apart); the proof says of each what the pair becomes, and    *)
(* which step of AnalysisRun that is.                                      *)
(*                                                                         *)
(* For every set of jobs and every number of restarts, a job never runs    *)
(* twice at a time, no lock is left behind, and, while the clock is not    *)
(* stepped back, the sweep of stale rows never ends the row of a run in    *)
(* progress.                                                               *)
(***************************************************************************)
EXTENDS PipelineRunner, JobRuns, TLAPS

Stats == Final \cup {"absent", "running", "deleted"}

Leaving == {"interrupting", "expiring", "handling", "handled", "closing", "closed"}

\* What a run and the row of its session have to do with each other.
Sound(r, s) ==
    /\ s = "absent" => r.stage = "none"
    /\ r.stage = "none" => r = NoRun
    \* the report is not saved twice, nor after a failure
    /\ r.stage \in {"generating", "received"} /\ r.event # "error" /\ ~r.reported =>
          s \in {"running", "deleted"}
    \* a thread that leaves its loop has ended its session, or has an excuse
    /\ s = "running" => ~r.reported /\ r.event # "error"
    /\ s = "running" /\ r.stage \in Leaving => r.cancel \/ r.fault

Inv == RunnerTypeOK /\ \A a \in Analyses : Sound(run[a], status[a])

\* The run and the row of one session become `new` and `stat`.
Moves(a, new, stat) ==
    /\ run' = [run EXCEPT ![a] = new]
    /\ status' = [status EXCEPT ![a] = stat]
    /\ journal' \in [Analyses -> SUBSET Kept]

-----------------------------------------------------------------------------
(* A sound pair keeps the invariant.                                       *)

LEMMA Moved ==
    ASSUME Inv, NEW a \in Analyses, NEW new \in Runs, NEW stat \in Stats,
           Moves(a, new, stat), Sound(new, stat)
    PROVE  Inv'
<1>1. run' \in [Analyses -> Runs] /\ status' \in [Analyses -> Stats]
    BY DEF Inv, RunnerTypeOK, Moves, Stats
<1>2. \A b \in Analyses : Sound(run[b], status[b])'
    <2> SUFFICES ASSUME NEW b \in Analyses PROVE Sound(run'[b], status'[b])
        BY DEF Sound
    <2>1. CASE b = a
        BY <2>1 DEF Moves, Inv, RunnerTypeOK
    <2>2. CASE b # a
        <3>1. run'[b] = run[b] /\ status'[b] = status[b]
            BY <2>2 DEF Moves, Inv, RunnerTypeOK
        <3> QED BY <3>1 DEF Inv
    <2> QED BY <2>1, <2>2
<1>3. \A b \in Analyses : Live(b)' => status'[b] # "absent"
    BY <1>2 DEF Sound, Live, Life
<1> QED
    BY <1>1, <1>2, <1>3 DEF Inv, RunnerTypeOK, Moves, Stats

-----------------------------------------------------------------------------
(* What a move of one run and one row is in AnalysisRun.                   *)

Excused(r) == r.cancel \/ r.fault

\* The variables of AnalysisRun.
threads == [a \in Analyses |-> Life(run[a])]
reports == [a \in Analyses |-> run[a].reported]
excuses == [a \in Analyses |-> run[a].cancel \/ run[a].fault]

LEMMA Change ==
    ASSUME Inv, NEW a \in Analyses, NEW new \in Runs, NEW stat \in Stats, Moves(a, new, stat)
    PROVE  /\ threads' = [threads EXCEPT ![a] = Life(new)]
           /\ reports' = [reports EXCEPT ![a] = new.reported]
           /\ excuses' = [excuses EXCEPT ![a] = Excused(new)]
           /\ status' = [status EXCEPT ![a] = stat]
           /\ status \in [Analyses -> Stats]
<1> status \in [Analyses -> Stats] /\ run \in [Analyses -> Runs]
    BY DEF Inv, RunnerTypeOK, Stats
<1> QED
    BY DEF Moves, threads, reports, excuses, Excused

LEMMA IsStutter ==
    ASSUME Inv, NEW a \in Analyses, NEW new \in Runs, Moves(a, new, status[a]),
           Life(new) = Life(run[a]), new.reported = run[a].reported,
           Excused(new) = Excused(run[a])
    PROVE  UNCHANGED A!runVars
<1>0. status[a] \in Stats
    BY DEF Inv, RunnerTypeOK, Stats
<1>1. /\ threads' = [threads EXCEPT ![a] = Life(new)]
      /\ reports' = [reports EXCEPT ![a] = new.reported]
      /\ excuses' = [excuses EXCEPT ![a] = Excused(new)]
      /\ status' = [status EXCEPT ![a] = status[a]]
      /\ status \in [Analyses -> Stats]
    BY <1>0, Change
<1>2. threads' = threads /\ reports' = reports /\ excuses' = excuses /\ status' = status
    BY <1>1 DEF threads, reports, excuses, Excused
<1> QED
    BY <1>2 DEF A!runVars, threads, reports, excuses

\* The store raises, or somebody asks for a cancel.
LEMMA IsExcuse ==
    ASSUME Inv, NEW a \in Analyses, NEW new \in Runs, Moves(a, new, status[a]),
           Life(new) = Life(run[a]), Life(new) # "none",
           new.reported = run[a].reported, Excused(new)
    PROVE  /\ A!Cancel(a)
           /\ StoreMayFail /\ Live(a) => A!Suffer(a)
<1>0. status[a] \in Stats
    BY DEF Inv, RunnerTypeOK, Stats
<1>1. /\ threads' = [threads EXCEPT ![a] = Life(new)]
      /\ reports' = [reports EXCEPT ![a] = new.reported]
      /\ excuses' = [excuses EXCEPT ![a] = Excused(new)]
      /\ status' = [status EXCEPT ![a] = status[a]]
      /\ status \in [Analyses -> Stats]
    BY <1>0, Change
<1>2. threads' = threads /\ reports' = reports /\ status' = status
    BY <1>1 DEF threads, reports
<1>3. excuses' = [excuses EXCEPT ![a] = TRUE]
    BY <1>1
<1> QED
    BY <1>2, <1>3 DEF A!Cancel, A!Suffer, A!Excuse, threads, reports, excuses, Live

LEMMA IsFail ==
    ASSUME Inv, NEW a \in Analyses, NEW new \in Runs, Live(a),
           Moves(a, new, IF status[a] = "deleted" THEN "deleted" ELSE "failed"),
           Life(new) = "live", new.reported = run[a].reported,
           Excused(new) = Excused(run[a])
    PROVE  A!Fail(a)
<1> DEFINE stat == IF status[a] = "deleted" THEN "deleted" ELSE "failed"
<1>0. stat \in Stats
    BY DEF Stats, Final
<1>1. /\ threads' = [threads EXCEPT ![a] = Life(new)]
      /\ reports' = [reports EXCEPT ![a] = new.reported]
      /\ excuses' = [excuses EXCEPT ![a] = Excused(new)]
      /\ status' = [status EXCEPT ![a] = stat]
      /\ status \in [Analyses -> Stats]
    BY <1>0, Change
<1>2. threads' = threads /\ reports' = reports /\ excuses' = excuses
    BY <1>1 DEF threads, reports, excuses, Excused, Live
<1>3. status' = IF status[a] = "deleted" THEN status ELSE [status EXCEPT ![a] = "failed"]
    BY <1>1
<1> QED
    BY <1>2, <1>3 DEF A!Fail, A!SetStatus, threads, reports, excuses, Live

LEMMA IsComplete ==
    ASSUME Inv, NEW a \in Analyses, NEW new \in Runs, Live(a),
           status[a] \in {"running", "deleted"}, ~run[a].reported,
           Moves(a, new, IF status[a] = "deleted" THEN "deleted" ELSE "completed"),
           Life(new) = "live", new.reported, Excused(new) = Excused(run[a])
    PROVE  A!Complete(a)
<1> DEFINE stat == IF status[a] = "deleted" THEN "deleted" ELSE "completed"
<1>0. stat \in Stats
    BY DEF Stats, Final
<1>1. /\ threads' = [threads EXCEPT ![a] = Life(new)]
      /\ reports' = [reports EXCEPT ![a] = new.reported]
      /\ excuses' = [excuses EXCEPT ![a] = Excused(new)]
      /\ status' = [status EXCEPT ![a] = stat]
      /\ status \in [Analyses -> Stats]
    BY <1>0, Change
<1>2. threads' = threads /\ excuses' = excuses
    BY <1>1 DEF threads, excuses, Excused, Live
<1>3. reports' = [reports EXCEPT ![a] = TRUE]
    BY <1>1 DEF Runs
<1>4. status' = IF status[a] = "deleted" THEN status ELSE [status EXCEPT ![a] = "completed"]
    BY <1>1
<1> QED
    BY <1>2, <1>3, <1>4 DEF A!Complete, A!SetStatus, threads, reports, excuses, Live

LEMMA IsEnd ==
    ASSUME Inv, NEW a \in Analyses, NEW new \in Runs, Live(a), Moves(a, new, status[a]),
           Life(new) = "ended", new.reported = run[a].reported,
           Excused(new) = Excused(run[a]) \/ (StoreMayFail /\ Excused(new)),
           status[a] = "running" => Excused(new)
    PROVE  A!End(a)
<1>0. status[a] \in Stats
    BY DEF Inv, RunnerTypeOK, Stats
<1>1. /\ threads' = [threads EXCEPT ![a] = Life(new)]
      /\ reports' = [reports EXCEPT ![a] = new.reported]
      /\ excuses' = [excuses EXCEPT ![a] = Excused(new)]
      /\ status' = [status EXCEPT ![a] = status[a]]
      /\ status \in [Analyses -> Stats]
    BY <1>0, Change
<1>2. reports' = reports /\ status' = status
    BY <1>1 DEF reports
<1>3. threads' = [threads EXCEPT ![a] = "ended"]
    BY <1>1
<1>4. excuses' = excuses \/ (StoreMayFail /\ excuses' = [excuses EXCEPT ![a] = TRUE])
    BY <1>1 DEF excuses, Excused
<1>5. status[a] = "running" => excuses'[a]
    BY <1>1 DEF excuses
<1> QED
    BY <1>2, <1>3, <1>4, <1>5 DEF A!End, A!Excuse, threads, reports, excuses, Live

-----------------------------------------------------------------------------
(* The steps of the generator.  The store's answers make new pairs of a    *)
(* run and a row; each is sound, and is one step of AnalysisRun.           *)

Simulated == Inv' /\ [A!RunNext]_A!runVars

\* A thread goes on, without anything that AnalysisRun sees.
LEMMA Unseen ==
    ASSUME Inv, NEW a \in Analyses, NEW new \in Runs, Moves(a, new, status[a]),
           Sound(new, status[a]), Life(new) = Life(run[a]),
           new.reported = run[a].reported, Excused(new) = Excused(run[a])
    PROVE  Simulated
<1>1. status[a] \in Stats
    BY DEF Inv, RunnerTypeOK, Stats
<1> QED
    BY <1>1, Moved, IsStutter DEF Simulated

\* A thread meets an exception of the store.
LEMMA Raised ==
    ASSUME Inv, NEW a \in Analyses, NEW stage \in Leaving, NEW pending \in BOOLEAN,
           Live(a), Raise(a, stage, pending), UNCHANGED status,
           journal' \in [Analyses -> SUBSET Kept]
    PROVE  Simulated
<1> DEFINE new == [run[a] EXCEPT !.stage = stage, !.event = "none", !.pending = pending,
                                 !.fault = TRUE]
<1>1. run[a] \in Runs /\ status[a] \in Stats /\ Sound(run[a], status[a])
    BY DEF Inv, RunnerTypeOK, Stats
<1>2. new \in Runs
    BY <1>1 DEF Runs, Leaving
<1>3. Moves(a, new, status[a])
    BY <1>1 DEF Raise, Goto, Moves, Inv, RunnerTypeOK
<1>4. Sound(new, status[a])
    BY <1>1 DEF Sound, Leaving, Live, Life, Runs
<1>5. Life(new) = "live" /\ Life(run[a]) = "live"
    BY <1>1 DEF Live, Life, Leaving, Runs
<1>6. new.reported = run[a].reported /\ Excused(new)
    BY <1>1 DEF Runs, Excused
<1>7. A!Suffer(a)
    BY <1>2, <1>3, <1>5, <1>6, IsExcuse DEF Raise
<1> QED
    BY <1>1, <1>2, <1>3, <1>4, <1>7, Moved DEF Simulated, A!RunNext, A!ThreadStep

LEMMA StepProgress ==
    ASSUME Inv, NEW a \in Analyses, Progress(a)
    PROVE  Simulated
<1>1. run[a] \in Runs /\ status[a] \in Stats /\ Sound(run[a], status[a])
    BY DEF Inv, RunnerTypeOK, Stats
<1>2. PICK kind \in {"thinking", "node"} : Goto(a, Yield(a, kind))
    BY DEF Progress
<1> DEFINE new == Yield(a, kind)
<1>3. new \in Runs /\ new.reported = run[a].reported /\ Excused(new) = Excused(run[a])
    BY <1>1 DEF Yield, Runs, Excused
<1>4. Moves(a, new, status[a])
    BY <1>1, <1>2 DEF Progress, Goto, Moves, Inv, RunnerTypeOK
<1>5. Sound(new, status[a]) /\ Life(new) = Life(run[a])
    BY <1>1 DEF Progress, Working, Yield, Sound, Leaving, Life, Runs
<1> QED
    BY <1>3, <1>4, <1>5, Unseen

LEMMA StepReport ==
    ASSUME Inv, NEW a \in Analyses, Report(a)
    PROVE  Simulated
<1>1. run[a] \in Runs /\ status[a] \in Stats /\ Sound(run[a], status[a])
    BY DEF Inv, RunnerTypeOK, Stats
<1> DEFINE new == [Yield(a, "report_ready") EXCEPT !.reported = TRUE]
           stat == IF status[a] = "deleted" THEN "deleted" ELSE "completed"
<1>2. new \in Runs /\ new.reported /\ Excused(new) = Excused(run[a]) /\ stat \in Stats
    BY <1>1 DEF Yield, Runs, Excused, Stats, Final
<1>3. Moves(a, new, stat)
    BY <1>1 DEF Report, Goto, SetStatus, Moves, Inv, RunnerTypeOK
<1>4. /\ Sound(new, stat) /\ Life(new) = "live" /\ Live(a) /\ ~run[a].reported
      /\ status[a] \in {"running", "deleted"}
    BY <1>1 DEF Report, Working, Yield, Sound, Leaving, Live, Life, Runs
<1>5. A!Complete(a)
    BY <1>2, <1>3, <1>4, IsComplete
<1> QED
    BY <1>2, <1>3, <1>4, <1>5, Moved DEF Simulated, A!RunNext, A!ThreadStep

\* The session fails, and the thread goes on to another stage.
LEMMA Failed ==
    ASSUME Inv, NEW a \in Analyses, NEW new \in Runs, Live(a), SetStatus(a, "failed"),
           Goto(a, new), UNCHANGED journal, Life(new) = "live",
           new.reported = run[a].reported, Excused(new) = Excused(run[a]),
           new.stage \in Leaving \/ new.event = "error"
    PROVE  Simulated
<1>1. run[a] \in Runs /\ status[a] \in Stats /\ Sound(run[a], status[a])
    BY DEF Inv, RunnerTypeOK, Stats
<1> DEFINE stat == IF status[a] = "deleted" THEN "deleted" ELSE "failed"
<1>2. stat \in Stats
    BY DEF Stats, Final
<1>3. Moves(a, new, stat)
    BY <1>1 DEF Goto, SetStatus, Moves, Inv, RunnerTypeOK
<1>4. Sound(new, stat)
    BY DEF Sound, Leaving, Life
<1>5. A!Fail(a)
    BY <1>3, IsFail
<1> QED
    BY <1>2, <1>3, <1>4, <1>5, Moved DEF Simulated, A!RunNext, A!ThreadStep

LEMMA StepBreak ==
    ASSUME Inv, NEW a \in Analyses, Break(a)
    PROVE  Simulated
<1>1. run[a] \in Runs
    BY DEF Inv, RunnerTypeOK
<1> DEFINE new == Yield(a, "error")
<1>2. /\ new \in Runs /\ new.reported = run[a].reported /\ Excused(new) = Excused(run[a])
      /\ Life(new) = "live" /\ new.event = "error" /\ Live(a)
    BY <1>1 DEF Break, Working, Yield, Runs, Excused, Live, Life
<1> QED
    BY <1>2, Failed DEF Break

LEMMA StepBreakOut ==
    ASSUME Inv, NEW a \in Analyses, BreakOut(a)
    PROVE  Simulated
<1>1. run[a] \in Runs /\ journal \in [Analyses -> SUBSET Kept]
    BY DEF Inv, RunnerTypeOK
<1>2. run[a].pending \in BOOLEAN /\ Live(a)
    BY <1>1 DEF BreakOut, Working, Runs, Live, Life
<1> QED
    BY <1>1, <1>2, Raised DEF BreakOut, Leaving

LEMMA StepExhaust ==
    ASSUME Inv, NEW a \in Analyses, Exhaust(a)
    PROVE  Simulated
<1>1. run[a] \in Runs /\ status[a] \in Stats /\ Sound(run[a], status[a])
    BY DEF Inv, RunnerTypeOK, Stats
<1> DEFINE new == [run[a] EXCEPT !.stage = "closing", !.event = "none"]
<1>2. new \in Runs /\ new.reported = run[a].reported /\ Excused(new) = Excused(run[a])
    BY <1>1 DEF Runs, Excused
<1>3. Moves(a, new, status[a])
    BY <1>1 DEF Exhaust, Goto, Moves, Inv, RunnerTypeOK
<1>4. Sound(new, status[a]) /\ Life(new) = Life(run[a])
    BY <1>1 DEF Exhaust, Sound, Leaving, Life, Runs
<1> QED
    BY <1>2, <1>3, <1>4, Unseen

-----------------------------------------------------------------------------
(* The steps of the runner.                                                *)

LEMMA StepSeeCancel ==
    ASSUME Inv, NEW a \in Analyses, SeeCancel(a)
    PROVE  Simulated
<1>1. run[a] \in Runs /\ status[a] \in Stats /\ Sound(run[a], status[a])
    BY DEF Inv, RunnerTypeOK, Stats
<1> DEFINE new == Ending(a, "interrupting")
<1>2. new \in Runs /\ new.reported = run[a].reported /\ Excused(new) = Excused(run[a])
    BY <1>1 DEF Ending, Runs, Excused
<1>3. Moves(a, new, status[a])
    BY <1>1 DEF SeeCancel, Goto, Moves, Inv, RunnerTypeOK
<1>4. Sound(new, status[a]) /\ Life(new) = Life(run[a])
    BY <1>1 DEF SeeCancel, Ending, Sound, Leaving, Life, Runs
<1> QED
    BY <1>2, <1>3, <1>4, Unseen

LEMMA StepTimeOut ==
    ASSUME Inv, NEW a \in Analyses, TimeOut(a)
    PROVE  Simulated
<1>1. run[a] \in Runs /\ journal \in [Analyses -> SUBSET Kept]
    BY DEF Inv, RunnerTypeOK
<1>2. Live(a) /\ run[a].pending \in BOOLEAN
    BY <1>1 DEF TimeOut, Runs, Live, Life
<1>3. CASE SetStatus(a, "failed") /\ Goto(a, Ending(a, "expiring"))
    <2> DEFINE new == Ending(a, "expiring")
    <2>1. /\ new \in Runs /\ new.reported = run[a].reported /\ Excused(new) = Excused(run[a])
          /\ Life(new) = "live" /\ new.stage \in Leaving
        BY <1>1 DEF Ending, Runs, Excused, Life, Leaving
    <2> QED
        BY <1>2, <1>3, <2>1, Failed DEF TimeOut
<1>4. CASE Raise(a, "handling", run[a].pending) /\ UNCHANGED status
    BY <1>1, <1>2, <1>4, Raised DEF TimeOut, Leaving
<1> QED
    BY <1>3, <1>4 DEF TimeOut

LEMMA Written ==
    ASSUME Inv, NEW a \in Analyses, NEW kind, Publish(a, kind)
    PROVE  journal' \in [Analyses -> SUBSET Kept]
BY DEF Inv, RunnerTypeOK, Publish, Kept, Terminal

LEMMA StepDispatch ==
    ASSUME Inv, NEW a \in Analyses, Dispatch(a)
    PROVE  Simulated
<1> DEFINE kind == run[a].event
           next == [run[a] EXCEPT !.stage = "generating",
                                  !.event = IF kind = "error" THEN "error" ELSE "none"]
<1>1. run[a] \in Runs /\ status[a] \in Stats /\ Sound(run[a], status[a]) /\ Live(a)
    BY DEF Inv, RunnerTypeOK, Stats, Dispatch, Live, Life
<1>2. UNCHANGED status /\ run[a].stage = "received"
    BY DEF Dispatch
<1>3. journal' \in [Analyses -> SUBSET Kept]
    BY Written DEF Dispatch, Inv, RunnerTypeOK, Raise
\* the loop goes on with the next event
<1>4. ASSUME NEW pending \in BOOLEAN, Goto(a, [next EXCEPT !.pending = pending])
      PROVE  Simulated
    <2> DEFINE new == [next EXCEPT !.pending = pending]
    <2>1. new \in Runs /\ new.reported = run[a].reported /\ Excused(new) = Excused(run[a])
        BY <1>1 DEF Runs, Excused
    <2>2. Moves(a, new, status[a])
        BY <1>1, <1>2, <1>3, <1>4 DEF Goto, Moves, Inv, RunnerTypeOK
    <2>3. Sound(new, status[a]) /\ Life(new) = Life(run[a])
        BY <1>1, <1>2 DEF Sound, Leaving, Life, Runs
    <2> QED
        BY <2>1, <2>2, <2>3, Unseen
\* the report could not be written, which is only logged
<1>5. ASSUME StoreMayFail, Goto(a, [next EXCEPT !.pending = FALSE, !.fault = TRUE])
      PROVE  Simulated
    <2> DEFINE new == [next EXCEPT !.pending = FALSE, !.fault = TRUE]
    <2>1. new \in Runs /\ new.reported = run[a].reported /\ Excused(new)
        BY <1>1 DEF Runs, Excused
    <2>2. Moves(a, new, status[a])
        BY <1>1, <1>2, <1>3, <1>5 DEF Goto, Moves, Inv, RunnerTypeOK
    <2>3. Sound(new, status[a]) /\ Life(new) = Life(run[a]) /\ Life(new) # "none"
        BY <1>1, <1>2 DEF Sound, Leaving, Life, Runs
    <2>4. A!Suffer(a)
        BY <1>1, <1>5, <2>1, <2>2, <2>3, IsExcuse
    <2> QED
        BY <1>1, <2>1, <2>2, <2>3, <2>4, Moved DEF Simulated, A!RunNext, A!ThreadStep
\* anything else that raises ends in the handler
<1>6. ASSUME NEW pending \in BOOLEAN, Raise(a, "handling", pending)
      PROVE  Simulated
    BY <1>1, <1>2, <1>3, <1>6, Raised DEF Leaving
<1> QED
    BY <1>4, <1>5, <1>6 DEF Dispatch

LEMMA StepHandle ==
    ASSUME Inv, NEW a \in Analyses, Handle(a)
    PROVE  Simulated
<1>1. run[a] \in Runs /\ journal \in [Analyses -> SUBSET Kept]
    BY DEF Inv, RunnerTypeOK
<1>2. Live(a) /\ run[a].pending \in BOOLEAN
    BY <1>1 DEF Handle, Runs, Live, Life
<1>3. CASE SetStatus(a, "failed") /\ Goto(a, [run[a] EXCEPT !.stage = "handled"])
    <2> DEFINE new == [run[a] EXCEPT !.stage = "handled"]
    <2>1. /\ new \in Runs /\ new.reported = run[a].reported /\ Excused(new) = Excused(run[a])
          /\ Life(new) = "live" /\ new.stage \in Leaving
        BY <1>1 DEF Runs, Excused, Life, Leaving
    <2> QED
        BY <1>2, <1>3, <2>1, Failed DEF Handle
<1>4. CASE Raise(a, "closing", run[a].pending) /\ UNCHANGED status
    BY <1>1, <1>2, <1>4, Raised DEF Handle, Leaving
<1> QED
    BY <1>3, <1>4 DEF Handle

LEMMA StepEnd ==
    ASSUME Inv, NEW a \in Analyses, End(a)
    PROVE  Simulated
<1> DEFINE left == [run[a] EXCEPT !.stage = "closing", !.pending = FALSE, !.terminal = TRUE]
<1>1. run[a] \in Runs /\ status[a] \in Stats /\ Sound(run[a], status[a]) /\ Live(a)
    BY DEF Inv, RunnerTypeOK, Stats, End, Live, Life
<1>2. UNCHANGED status /\ run[a].stage \in {"interrupting", "expiring", "handled"}
    BY DEF End
<1>3. journal' \in [Analyses -> SUBSET Kept]
    BY Written DEF End, Inv, RunnerTypeOK
<1>4. CASE Goto(a, left)
    <2>1. left \in Runs /\ left.reported = run[a].reported /\ Excused(left) = Excused(run[a])
        BY <1>1 DEF Runs, Excused
    <2>2. Moves(a, left, status[a])
        BY <1>1, <1>2, <1>3, <1>4 DEF Goto, Moves, Inv, RunnerTypeOK
    <2>3. Sound(left, status[a]) /\ Life(left) = Life(run[a])
        BY <1>1, <1>2 DEF Sound, Leaving, Life, Runs
    <2> QED
        BY <2>1, <2>2, <2>3, Unseen
<1>5. CASE StoreMayFail /\ Goto(a, [left EXCEPT !.fault = TRUE])
    <2> DEFINE new == [left EXCEPT !.fault = TRUE]
    <2>1. new \in Runs /\ new.reported = run[a].reported /\ Excused(new)
        BY <1>1 DEF Runs, Excused
    <2>2. Moves(a, new, status[a])
        BY <1>1, <1>2, <1>3, <1>5 DEF Goto, Moves, Inv, RunnerTypeOK
    <2>3. Sound(new, status[a]) /\ Life(new) = Life(run[a]) /\ Life(new) # "none"
        BY <1>1, <1>2 DEF Sound, Leaving, Life, Runs
    <2>4. A!Suffer(a)
        BY <1>1, <1>5, <2>1, <2>2, <2>3, IsExcuse
    <2> QED
        BY <1>1, <2>1, <2>2, <2>3, <2>4, Moved DEF Simulated, A!RunNext, A!ThreadStep
<1>6. ASSUME NEW stage \in {"handling", "closing"}, Raise(a, stage, FALSE)
      PROVE  Simulated
    BY <1>1, <1>2, <1>3, <1>6, Raised DEF Leaving
<1> QED
    BY <1>4, <1>5, <1>6 DEF End

LEMMA StepClose ==
    ASSUME Inv, NEW a \in Analyses, Close(a)
    PROVE  Simulated
<1> DEFINE after == [run[a] EXCEPT !.stage = "closed", !.pending = FALSE]
<1>1. run[a] \in Runs /\ status[a] \in Stats /\ Sound(run[a], status[a]) /\ Live(a)
    BY DEF Inv, RunnerTypeOK, Stats, Close, Live, Life
<1>2. UNCHANGED status /\ run[a].stage = "closing"
    BY DEF Close
<1>3. journal' \in [Analyses -> SUBSET Kept]
    BY Written DEF Close, Inv, RunnerTypeOK
<1>4. CASE Goto(a, after)
    <2>1. after \in Runs /\ after.reported = run[a].reported /\ Excused(after) = Excused(run[a])
        BY <1>1 DEF Runs, Excused
    <2>2. Moves(a, after, status[a])
        BY <1>1, <1>2, <1>3, <1>4 DEF Goto, Moves, Inv, RunnerTypeOK
    <2>3. Sound(after, status[a]) /\ Life(after) = Life(run[a])
        BY <1>1, <1>2 DEF Sound, Leaving, Life, Runs
    <2> QED
        BY <2>1, <2>2, <2>3, Unseen
<1>5. CASE StoreMayFail /\ Goto(a, [after EXCEPT !.fault = TRUE])
    <2> DEFINE new == [after EXCEPT !.fault = TRUE]
    <2>1. new \in Runs /\ new.reported = run[a].reported /\ Excused(new)
        BY <1>1 DEF Runs, Excused
    <2>2. Moves(a, new, status[a])
        BY <1>1, <1>2, <1>3, <1>5 DEF Goto, Moves, Inv, RunnerTypeOK
    <2>3. Sound(new, status[a]) /\ Life(new) = Life(run[a]) /\ Life(new) # "none"
        BY <1>1, <1>2 DEF Sound, Leaving, Life, Runs
    <2>4. A!Suffer(a)
        BY <1>1, <1>5, <2>1, <2>2, <2>3, IsExcuse
    <2> QED
        BY <1>1, <2>1, <2>2, <2>3, <2>4, Moved DEF Simulated, A!RunNext, A!ThreadStep
\* the flush raises in the finally
<1>6. CASE StoreMayFail /\ Goto(a, [Gone(a, "dead") EXCEPT !.fault = TRUE])
    <2> DEFINE new == [Gone(a, "dead") EXCEPT !.fault = TRUE]
    <2>1. new \in Runs /\ new.reported = run[a].reported /\ Excused(new)
        BY <1>1 DEF Gone, Runs, Excused
    <2>2. Moves(a, new, status[a])
        BY <1>1, <1>2, <1>3, <1>6 DEF Goto, Moves, Inv, RunnerTypeOK
    <2>3. Sound(new, status[a]) /\ Life(new) = "ended"
        BY <1>1, <1>2 DEF Gone, Sound, Leaving, Life, Runs
    <2>4. A!End(a)
        BY <1>1, <1>6, <2>1, <2>2, <2>3, IsEnd
    <2> QED
        BY <1>1, <2>1, <2>2, <2>3, <2>4, Moved DEF Simulated, A!RunNext, A!ThreadStep
<1> QED
    BY <1>4, <1>5, <1>6 DEF Close

LEMMA StepSetDone ==
    ASSUME Inv, NEW a \in Analyses, SetDone(a)
    PROVE  Simulated
<1>1. run[a] \in Runs /\ status[a] \in Stats /\ Sound(run[a], status[a]) /\ Live(a)
    BY DEF Inv, RunnerTypeOK, Stats, SetDone, Live, Life
<1> DEFINE new == Gone(a, "over")
<1>2. new \in Runs /\ new.reported = run[a].reported /\ Excused(new) = Excused(run[a])
    BY <1>1 DEF Gone, Runs, Excused
<1>3. Moves(a, new, status[a])
    BY <1>1 DEF SetDone, Goto, Moves, Inv, RunnerTypeOK
<1>4. Sound(new, status[a]) /\ Life(new) = "ended"
    BY <1>1 DEF SetDone, Gone, Sound, Leaving, Life, Runs
<1>5. status[a] = "running" => Excused(new)
    BY <1>1, <1>2 DEF SetDone, Sound, Leaving, Excused
<1>6. A!End(a)
    BY <1>1, <1>2, <1>3, <1>4, <1>5, IsEnd
<1> QED
    BY <1>1, <1>2, <1>3, <1>4, <1>6, Moved DEF Simulated, A!RunNext, A!ThreadStep

LEMMA StepThread ==
    ASSUME Inv, NEW a \in Analyses, ThreadStep(a)
    PROVE  Simulated
BY StepProgress, StepReport, StepBreak, StepBreakOut, StepExhaust, StepSeeCancel, StepTimeOut,
   StepDispatch, StepHandle, StepEnd, StepClose, StepSetDone DEF ThreadStep

-----------------------------------------------------------------------------
(* The calls from outside.                                                 *)

LEMMA StepOpen ==
    ASSUME Inv, NEW a \in Analyses, Open(a)
    PROVE  Simulated
<1>1. run \in [Analyses -> Runs] /\ Sound(run[a], status[a])
    BY DEF Inv, RunnerTypeOK
<1>2. Moves(a, run[a], "running") /\ "running" \in Stats
    BY <1>1 DEF Open, Moves, Inv, RunnerTypeOK, Stats
<1>3. Sound(run[a], "running")
    BY <1>1 DEF Open, Sound, NoRun, Leaving
<1>4. A!Open(a)
    BY <1>1 DEF Open, A!Open, threads, reports, excuses
<1> QED
    BY <1>1, <1>2, <1>3, <1>4, Moved DEF Simulated, A!RunNext

LEMMA StepStart ==
    ASSUME Inv, NEW a \in Analyses, Start(a)
    PROVE  Simulated
<1>1. run[a] \in Runs /\ status[a] \in Stats /\ Sound(run[a], status[a])
    BY DEF Inv, RunnerTypeOK, Stats
<1>2. PICK stage \in {"generating", "dead"} :
          /\ Goto(a, [NoRun EXCEPT !.stage = stage])
          /\ stage = "dead" => StartMayFail
    BY DEF Start
<1> DEFINE new == [NoRun EXCEPT !.stage = stage]
<1>3. new \in Runs
    BY DEF NoRun, Runs
<1>4. Moves(a, new, status[a])
    BY <1>1, <1>2 DEF Start, Goto, Moves, Inv, RunnerTypeOK
<1>5. Sound(new, status[a])
    BY <1>1 DEF Start, Sound, NoRun, Leaving
<1>6. run[a] = NoRun
    BY <1>1 DEF Start, Sound
<1>7. /\ threads' = [threads EXCEPT ![a] = Life(new)]
      /\ reports' = [reports EXCEPT ![a] = new.reported]
      /\ excuses' = [excuses EXCEPT ![a] = Excused(new)]
      /\ status' = status
    BY <1>1, <1>3, <1>4, Change DEF Start
<1>8. reports' = reports /\ excuses' = excuses
    <2>1. new.reported = run[a].reported /\ Excused(new) = Excused(run[a])
        BY <1>6 DEF Excused, NoRun
    <2> QED
        BY <1>7, <2>1 DEF reports, excuses, Excused
<1>9. threads' = [threads EXCEPT ![a] = IF stage = "dead" THEN "ended" ELSE "live"]
    BY <1>7 DEF Life, NoRun
<1>10. threads[a] = "none"
    BY <1>6 DEF threads, Life, NoRun
<1>11. A!Start(a)
    <2>1. threads' = [b \in Analyses |-> IF b \notin {a} THEN threads[b]
                                         ELSE IF stage = "dead" THEN "ended" ELSE "live"]
        BY <1>9 DEF threads
    <2>2. CASE stage = "generating"
        <3>1. A!StartAll({a}, {})
            BY <2>1, <2>2 DEF A!StartAll, threads
        <3> QED
            BY <3>1, <1>7, <1>8, <1>10 DEF Start, A!Start, threads, reports, excuses
    <2>3. CASE stage = "dead"
        <3>1. A!StartAll({a}, {a})
            BY <2>1, <2>3 DEF A!StartAll, threads
        <3> QED
            BY <1>2, <2>3, <3>1, <1>7, <1>8, <1>10 DEF Start, A!Start, threads, reports, excuses
    <2> QED
        BY <2>2, <2>3
<1> QED
    BY <1>1, <1>3, <1>4, <1>5, <1>11, Moved DEF Simulated, A!RunNext

LEMMA StepCancel ==
    ASSUME Inv, NEW a \in Analyses, CancelRun(a)
    PROVE  Simulated
<1>1. run[a] \in Runs /\ status[a] \in Stats /\ Sound(run[a], status[a])
    BY DEF Inv, RunnerTypeOK, Stats
<1> DEFINE new == [run[a] EXCEPT !.cancel = TRUE]
<1>2. new \in Runs /\ new.reported = run[a].reported /\ Excused(new)
    BY <1>1 DEF Runs, Excused
<1>3. Moves(a, new, status[a])
    BY <1>1 DEF CancelRun, Goto, Moves, Inv, RunnerTypeOK
<1>4. Sound(new, status[a]) /\ Life(new) = Life(run[a]) /\ Life(new) # "none"
    BY <1>1 DEF CancelRun, IsRunning, Sound, Leaving, Life, Runs
<1>5. A!Cancel(a)
    BY <1>2, <1>3, <1>4, IsExcuse
<1> QED
    BY <1>1, <1>2, <1>3, <1>4, <1>5, Moved DEF Simulated, A!RunNext

LEMMA StepDelete ==
    ASSUME Inv, NEW a \in Analyses, Delete(a)
    PROVE  Simulated
<1>1. run \in [Analyses -> Runs] /\ Sound(run[a], status[a])
    BY DEF Inv, RunnerTypeOK
<1>2. Moves(a, run[a], "deleted") /\ "deleted" \in Stats
    BY <1>1 DEF Delete, Moves, Inv, RunnerTypeOK, Stats
<1>3. Sound(run[a], "deleted")
    BY <1>1 DEF Delete, Sound
<1>4. A!Delete(a)
    BY <1>1 DEF Delete, A!Delete, threads, reports, excuses
<1> QED
    BY <1>1, <1>2, <1>3, <1>4, Moved DEF Simulated, A!RunNext

LEMMA StepRestart ==
    ASSUME Inv, Restart
    PROVE  Simulated
<1>1. /\ run \in [Analyses -> Runs] /\ status \in [Analyses -> Stats]
      /\ \A a \in Analyses : Sound(run[a], status[a])
    BY DEF Inv, RunnerTypeOK, Stats
<1> DEFINE new(a) == IF status[a] = "absent" THEN NoRun ELSE Gone(a, "lost")
           stat(a) == IF status[a] = "running" THEN "interrupted" ELSE status[a]
<1>2. \A a \in Analyses :
          /\ new(a) \in Runs /\ stat(a) \in Stats /\ Sound(new(a), stat(a))
          /\ new(a).reported = run[a].reported /\ new(a).cancel = run[a].cancel
          /\ new(a).fault = run[a].fault
          /\ Life(new(a)) = IF status[a] = "absent" THEN "none" ELSE "ended"
    <2> SUFFICES ASSUME NEW a \in Analyses
                 PROVE  /\ new(a) \in Runs /\ stat(a) \in Stats /\ Sound(new(a), stat(a))
                        /\ new(a).reported = run[a].reported /\ new(a).cancel = run[a].cancel
                        /\ new(a).fault = run[a].fault
                        /\ Life(new(a)) = IF status[a] = "absent" THEN "none" ELSE "ended"
        OBVIOUS
    <2>1. CASE status[a] = "absent"
        <3>1. run[a] = NoRun /\ new(a) = NoRun /\ stat(a) = "absent"
            BY <1>1, <2>1 DEF Sound
        <3> QED
            BY <1>1, <2>1, <3>1 DEF Life, NoRun
    <2>2. CASE status[a] # "absent"
        <3>1. new(a) = Gone(a, "lost") /\ run[a] \in Runs
            BY <1>1, <2>2
        <3>2. /\ new(a) \in Runs /\ new(a).stage = "lost" /\ new(a).reported = run[a].reported
              /\ new(a).cancel = run[a].cancel /\ new(a).fault = run[a].fault
            BY <3>1 DEF Gone, Runs
        <3>3. stat(a) \in Stats /\ stat(a) \notin {"running", "absent"}
            BY <1>1, <2>2 DEF Stats, Final
        <3>4. Sound(new(a), stat(a))
            BY <3>2, <3>3 DEF Sound, Leaving
        <3> QED
            BY <2>2, <3>2, <3>3, <3>4 DEF Life
    <2> QED
        BY <2>1, <2>2
<1>3. \A a \in Analyses : run'[a] = new(a) /\ status'[a] = stat(a)
    BY DEF Restart
<1>4. run' = [a \in Analyses |-> new(a)] /\ status' = [a \in Analyses |-> stat(a)]
    BY DEF Restart
<1> HIDE DEF new, stat
<1>5. Inv'
    <2>1. run' \in [Analyses -> Runs] /\ status' \in [Analyses -> Stats]
        BY <1>2, <1>4
    <2>2. \A a \in Analyses : Sound(run[a], status[a])'
        <3> SUFFICES ASSUME NEW a \in Analyses PROVE Sound(run'[a], status'[a])
            BY DEF Sound
        <3> QED
            BY <1>2, <1>3
    <2>3. \A a \in Analyses : Live(a)' => status'[a] # "absent"
        BY <2>2 DEF Sound, Live, Life
    <2>4. journal' \in [Analyses -> SUBSET Kept]
        BY DEF Restart, Inv, RunnerTypeOK
    <2> QED
        BY <2>1, <2>2, <2>3, <2>4 DEF Inv, RunnerTypeOK, Stats
<1>6. A!RestartRuns
    <2>1. threads' = [a \in Analyses |-> IF status[a] = "absent" THEN "none" ELSE "ended"]
        BY <1>2, <1>3 DEF threads
    <2>2. reports' = reports /\ excuses' = excuses
        BY <1>2, <1>3 DEF reports, excuses
    <2> QED
        BY <2>1, <2>2 DEF Restart, A!RestartRuns, threads, reports, excuses
<1> QED
    BY <1>5, <1>6 DEF Simulated, A!RunNext

-----------------------------------------------------------------------------
LEMMA Initially ==
    ASSUME Init
    PROVE  Inv /\ A!RunInit
<1>1. NoRun \in Runs
    BY DEF NoRun, Runs
<1>2. Inv
    BY <1>1 DEF Init, Inv, RunnerTypeOK, Sound, NoRun, Leaving, Live, Life
<1>3. A!RunInit
    BY DEF Init, A!RunInit, NoRun, Life
<1> QED
    BY <1>2, <1>3

LEMMA Step ==
    ASSUME Inv, [Next]_vars
    PROVE  Simulated
<1>1. CASE UNCHANGED vars
    <2>1. UNCHANGED <<status, journal, run>>
        BY <1>1 DEF vars
    <2>2. Inv'
        BY <2>1 DEF Inv, RunnerTypeOK, Live, Life, Sound
    <2>3. UNCHANGED A!runVars
        BY <2>1 DEF A!runVars
    <2> QED
        BY <2>2, <2>3 DEF Simulated
<1>2. CASE Next
    BY <1>2, StepOpen, StepStart, StepThread, StepCancel, StepDelete, StepRestart DEF Next
<1> QED
    BY <1>1, <1>2

(***************************************************************************)
(* The types of the runner's variables, and that no thread lives without a *)
(* session, hold for any number of analyses.                               *)
(***************************************************************************)
THEOREM TypeCorrect == Spec => []RunnerTypeOK
<1>1. Init => Inv
    BY Initially
<1>2. Inv /\ [Next]_vars => Inv'
    BY Step DEF Simulated
<1>3. Inv => RunnerTypeOK
    BY DEF Inv
<1> QED
    BY <1>1, <1>2, <1>3, PTL DEF Spec

(***************************************************************************)
(* The thread of pipeline_runner.py and the generator it drives implement  *)
(* the life that the queue relies on: a session is completed once and not  *)
(* after a failure, and no thread ends with a session that says running    *)
(* unless it was cancelled or the store has raised.                        *)
(***************************************************************************)
THEOREM RunnerImplementsRun == Spec => Implements
<1>1. Init => Inv /\ A!RunInit
    BY Initially
<1>2. Inv /\ [Next]_vars => Inv' /\ [A!RunNext]_A!runVars
    BY Step DEF Simulated
<1> QED
    BY <1>1, <1>2, PTL DEF Spec, Implements, A!RunSpec

-----------------------------------------------------------------------------
(* What the journal says.  At every stage of a run that nobody has excused  *)
(* the journal is known: nothing terminal before the end, then what the     *)
(* status says.                                                            *)

Excuse(r, s) == r.cancel \/ r.fault \/ s = "deleted"

Agrees(s, j) ==
    /\ "error" \in j <=> s = "failed"
    /\ s = "completed" => "report_ready" \in j
    /\ "interrupted" \notin j

\* On the way through the loop: the event in hand is not written yet.
OnTheWay(r, s, j) ==
    /\ r.stage \in {"generating", "received"} /\ r.event \in {"none", "thinking", "node"} =>
          /\ j \cap Terminal = {}
          /\ s = IF r.reported THEN "completed" ELSE "running"
          /\ r.reported => "report_ready" \in j
    /\ r.stage \in {"generating", "received"} /\ r.event = "report_ready" =>
          r.stage = "received" /\ r.reported /\ s = "completed" /\ j \cap Terminal = {}
    /\ r.stage = "received" /\ r.event = "error" => s = "failed" /\ j \cap Terminal = {}
    /\ r.stage = "generating" /\ r.event = "error" => s = "failed" /\ Agrees(s, j)
    /\ r.stage = "expiring" => s = "failed" /\ j \cap Terminal = {}

Told(r, s, j) ==
    /\ r.stage = "none" => j = {}
    /\ r.stage \in {"handling", "handled"} => r.fault
    /\ r.stage = "interrupting" => r.cancel
    /\ r.terminal => r.stage \in {"closing", "closed"}
    /\ r.stage \in {"closed", "over"} \/ (r.stage = "closing" /\ r.terminal) =>
          j \cap Terminal # {} \/ r.fault \/ s = "deleted"
    /\ ~Excuse(r, s) => /\ OnTheWay(r, s, j)
                        /\ r.stage \in {"closing", "closed", "over"} => Agrees(s, j)

TellInv == \A a \in Analyses : Told(run[a], status[a], journal[a])

\* A step that touches one session keeps the invariant if it keeps it there.
LEMMA TellOne ==
    ASSUME TellInv, NEW a \in Analyses, Told(run'[a], status'[a], journal'[a]),
           \A b \in Analyses \ {a} :
               run'[b] = run[b] /\ status'[b] = status[b] /\ journal'[b] = journal[b]
    PROVE  TellInv'
<1> SUFFICES ASSUME NEW b \in Analyses PROVE Told(run'[b], status'[b], journal'[b])
    BY DEF TellInv, Told, OnTheWay, Agrees, Excuse
<1>1. CASE b = a
    BY <1>1
<1>2. CASE b # a
    <2>1. Told(run[b], status[b], journal[b])
        BY DEF TellInv
    <2> QED
        BY <1>2, <2>1
<1> QED
    BY <1>1, <1>2

LEMMA Publishing ==
    ASSUME Inv, NEW a \in Analyses, NEW kind, Publish(a, kind)
    PROVE  /\ \A b \in Analyses \ {a} : journal'[b] = journal[b]
           /\ journal'[a] \in {journal[a], journal[a] \cup {kind}}
           /\ kind \notin Kept => journal'[a] = journal[a]
           /\ kind \in Kept /\ (kind \in Terminal => journal[a] \cap Terminal = {}) =>
                  journal'[a] = journal[a] \cup {kind}
           /\ kind \in Terminal => journal'[a] \cap Terminal # {}
<1>1. journal \in [Analyses -> SUBSET Kept]
    BY DEF Inv, RunnerTypeOK
<1>2. CASE /\ kind \in Kept
           /\ journal' = [journal EXCEPT ![a] = @ \cup {kind}]
    BY <1>1, <1>2
<1>3. CASE /\ kind \notin Kept \/ (kind \in Terminal /\ journal[a] \cap Terminal # {})
           /\ UNCHANGED journal
    BY <1>1, <1>3 DEF Kept
<1> QED
    BY <1>2, <1>3 DEF Publish

\* What is known of the session of a step, and where its new run and status are found.
Known(a) ==
    /\ run[a] \in Runs /\ status[a] \in Stats
    /\ Sound(run[a], status[a]) /\ Told(run[a], status[a], journal[a])

LEMMA KnownHere ==
    ASSUME Inv, TellInv, NEW a \in Analyses
    PROVE  Known(a)
BY DEF Inv, RunnerTypeOK, TellInv, Known, Stats

LEMMA Going ==
    ASSUME Inv, NEW a \in Analyses, NEW new, Goto(a, new)
    PROVE  run'[a] = new /\ \A b \in Analyses \ {a} : run'[b] = run[b]
BY DEF Inv, RunnerTypeOK, Goto

LEMMA Setting ==
    ASSUME Inv, NEW a \in Analyses, NEW new, SetStatus(a, new)
    PROVE  /\ status'[a] = IF status[a] = "deleted" THEN "deleted" ELSE new
           /\ \A b \in Analyses \ {a} : status'[b] = status[b]
BY DEF Inv, RunnerTypeOK, SetStatus

\* A run that the store has struck owes nothing but its stage.
LEMMA Struck ==
    ASSUME NEW r, NEW s, NEW j, r.fault, r.stage \notin {"none", "interrupting"}, ~r.terminal
    PROVE  Told(r, s, j)
BY DEF Told, Excuse

LEMMA RaisedTold ==
    ASSUME Inv, TellInv, NEW a \in Analyses, NEW stage \in {"handling", "closing"}, NEW pending,
           run[a].stage \notin {"closing", "closed"}, Raise(a, stage, pending),
           \A b \in Analyses \ {a} : status'[b] = status[b] /\ journal'[b] = journal[b]
    PROVE  TellInv'
<1> DEFINE new == [run[a] EXCEPT !.stage = stage, !.event = "none", !.pending = pending,
                                 !.fault = TRUE]
<1>1. Known(a)
    BY KnownHere
<1>2. run'[a] = new /\ \A b \in Analyses \ {a} : run'[b] = run[b]
    BY Going DEF Raise
<1>3. new.fault /\ new.stage = stage /\ ~new.terminal
    BY <1>1 DEF Known, Runs, Told
<1>4. Told(new, status'[a], journal'[a])
    BY <1>3, Struck
<1> QED
    BY <1>2, <1>4, TellOne

LEMMA TellGenerator ==
    ASSUME Inv, TellInv, NEW a \in Analyses,
           Progress(a) \/ Report(a) \/ Break(a) \/ BreakOut(a) \/ Exhaust(a)
    PROVE  TellInv'
<1>1. Known(a)
    BY KnownHere
<1>2. UNCHANGED journal
    BY DEF Progress, Report, Break, BreakOut, Exhaust
<1>3. CASE Progress(a)
    <2>1. PICK kind \in {"thinking", "node"} : Goto(a, Yield(a, kind))
        BY <1>3 DEF Progress
    <2>2. Told(Yield(a, kind), status[a], journal[a])
        BY <1>1, <1>3 DEF Progress, Working, Yield, Known, Runs, Told, OnTheWay, Agrees, Excuse
    <2> QED
        BY <1>2, <1>3, <2>1, <2>2, Going, TellOne DEF Progress
<1>4. CASE Report(a)
    <2> DEFINE new == [Yield(a, "report_ready") EXCEPT !.reported = TRUE]
    <2>1. Told(new, status'[a], journal[a])
        BY <1>1, <1>4, Setting
        DEF Report, Working, Yield, Known, Runs, Told, OnTheWay, Agrees, Excuse
    <2> QED
        BY <1>2, <1>4, <2>1, Going, Setting, TellOne DEF Report
<1>5. CASE Break(a)
    <2>1. Told(Yield(a, "error"), status'[a], journal[a])
        BY <1>1, <1>5, Setting
        DEF Break, Working, Yield, Known, Runs, Told, OnTheWay, Agrees, Excuse
    <2> QED
        BY <1>2, <1>5, <2>1, Going, Setting, TellOne DEF Break
<1>6. CASE BreakOut(a)
    BY <1>2, <1>6, RaisedTold DEF BreakOut, Working
<1>7. CASE Exhaust(a)
    <2> DEFINE new == [run[a] EXCEPT !.stage = "closing", !.event = "none"]
    <2>1. Told(new, status[a], journal[a])
        BY <1>1, <1>7 DEF Exhaust, Known, Runs, Told, OnTheWay, Agrees, Excuse, Terminal
    <2> QED
        BY <1>2, <1>7, <2>1, Going, TellOne DEF Exhaust
<1> QED
    BY <1>3, <1>4, <1>5, <1>6, <1>7

LEMMA TellLoop ==
    ASSUME Inv, TellInv, NEW a \in Analyses, SeeCancel(a) \/ TimeOut(a) \/ Handle(a)
    PROVE  TellInv'
<1>1. Known(a)
    BY KnownHere
<1>2. UNCHANGED journal
    BY DEF SeeCancel, TimeOut, Handle
<1>3. CASE SeeCancel(a)
    <2>1. Told(Ending(a, "interrupting"), status[a], journal[a])
        BY <1>1, <1>3 DEF SeeCancel, Ending, Known, Runs, Told, Excuse
    <2> QED
        BY <1>2, <1>3, <2>1, Going, TellOne DEF SeeCancel
<1>4. CASE TimeOut(a)
    <2>1. CASE SetStatus(a, "failed") /\ Goto(a, Ending(a, "expiring"))
        <3>1. Told(Ending(a, "expiring"), status'[a], journal[a])
            BY <1>1, <1>4, <2>1, Setting
            DEF TimeOut, Ending, Known, Runs, Told, OnTheWay, Excuse
        <3> QED
            BY <1>2, <2>1, <3>1, Going, Setting, TellOne
    <2>2. CASE Raise(a, "handling", run[a].pending) /\ UNCHANGED status
        BY <1>2, <1>4, <2>2, RaisedTold DEF TimeOut
    <2> QED
        BY <1>4, <2>1, <2>2 DEF TimeOut
<1>5. CASE Handle(a)
    <2> DEFINE new == [run[a] EXCEPT !.stage = "handled"]
    <2>1. CASE SetStatus(a, "failed") /\ Goto(a, new)
        <3>1. new.fault /\ new.stage = "handled" /\ ~new.terminal
            BY <1>1, <1>5 DEF Handle, Known, Runs, Told
        <3>2. Told(new, status'[a], journal'[a])
            BY <3>1, Struck
        <3> QED
            BY <1>2, <2>1, <3>2, Going, Setting, TellOne
    <2>2. CASE Raise(a, "closing", run[a].pending) /\ UNCHANGED status
        BY <1>2, <1>5, <2>2, RaisedTold DEF Handle
    <2> QED
        BY <1>5, <2>1, <2>2 DEF Handle
<1> QED
    BY <1>3, <1>4, <1>5

LEMMA TellDispatch ==
    ASSUME Inv, TellInv, NEW a \in Analyses, Dispatch(a)
    PROVE  TellInv'
<1> DEFINE kind == run[a].event
           next == [run[a] EXCEPT !.stage = "generating",
                                  !.event = IF kind = "error" THEN "error" ELSE "none"]
<1>1. Known(a) /\ run[a].stage = "received" /\ UNCHANGED status /\ ~run[a].cancel
    BY KnownHere DEF Dispatch
<1>2. CASE kind = "thinking" /\ Goto(a, [next EXCEPT !.pending = TRUE]) /\ UNCHANGED journal
    <2>1. Told([next EXCEPT !.pending = TRUE], status[a], journal[a])
        BY <1>1, <1>2 DEF Known, Runs, Told, OnTheWay, Excuse
    <2> QED
        BY <1>1, <1>2, <2>1, Going, TellOne
<1>3. CASE Goto(a, [next EXCEPT !.pending = FALSE]) /\ Publish(a, kind)
    <2> DEFINE new == [next EXCEPT !.pending = FALSE]
    <2>1. /\ new.stage = "generating" /\ ~new.terminal
          /\ new.event = IF kind = "error" THEN "error" ELSE "none"
          /\ new.fault = run[a].fault /\ new.cancel = run[a].cancel
          /\ new.reported = run[a].reported
        BY <1>1 DEF Known, Runs, Told
    <2>2. Told(new, status[a], journal'[a])
        <3> HIDE DEF new
        <3> SUFFICES ASSUME ~Excuse(new, status[a])
                     PROVE  OnTheWay(new, status[a], journal'[a])
            BY <2>1 DEF Told
        <3>1. OnTheWay(run[a], status[a], journal[a])
            BY <1>1, <2>1 DEF Known, Told, Excuse
        <3>2. CASE kind \in {"none", "thinking", "node"}
            <4>1. journal'[a] = journal[a]
                BY <1>3, <3>2, Publishing DEF Kept, Terminal
            <4> QED
                BY <1>1, <2>1, <3>1, <3>2, <4>1 DEF OnTheWay
        <3>3. CASE kind = "report_ready"
            <4>1. journal'[a] = journal[a] \cup {"report_ready"}
                BY <1>3, <3>3, Publishing DEF Kept, Terminal
            <4> QED
                BY <1>1, <2>1, <3>1, <3>3, <4>1 DEF OnTheWay, Terminal
        <3>4. CASE kind = "error"
            <4>1. journal[a] \cap Terminal = {} /\ status[a] = "failed"
                BY <1>1, <3>1, <3>4 DEF OnTheWay
            <4>2. journal'[a] = journal[a] \cup {"error"}
                BY <1>3, <3>4, <4>1, Publishing DEF Kept, Terminal
            <4> QED
                BY <1>1, <2>1, <3>4, <4>1, <4>2 DEF OnTheWay, Agrees, Terminal
        <3> QED
            BY <1>1, <3>2, <3>3, <3>4 DEF Known, Runs
    <2> QED
        BY <1>1, <1>3, <2>2, Going, Publishing, TellOne
<1>4. CASE Goto(a, [next EXCEPT !.pending = FALSE, !.fault = TRUE]) /\ UNCHANGED journal
    <2> DEFINE new == [next EXCEPT !.pending = FALSE, !.fault = TRUE]
    <2>1. new.fault /\ new.stage = "generating" /\ ~new.terminal
        BY <1>1 DEF Known, Runs, Told
    <2>2. Told(new, status'[a], journal'[a])
        BY <2>1, Struck
    <2> QED
        BY <1>1, <1>4, <2>2, Going, TellOne
<1>5. CASE Raise(a, "handling", FALSE) /\ (UNCHANGED journal \/ Publish(a, kind))
    BY <1>1, <1>5, Publishing, RaisedTold
<1>6. CASE Raise(a, "handling", TRUE) /\ UNCHANGED journal
    BY <1>1, <1>6, RaisedTold
<1> QED
    BY <1>2, <1>3, <1>4, <1>5, <1>6 DEF Dispatch

LEMMA TellEnd ==
    ASSUME Inv, TellInv, NEW a \in Analyses, End(a)
    PROVE  TellInv'
<1> DEFINE kind == IF run[a].stage = "interrupting" THEN "interrupted" ELSE "error"
           left == [run[a] EXCEPT !.stage = "closing", !.pending = FALSE, !.terminal = TRUE]
<1>1. /\ Known(a) /\ UNCHANGED status
      /\ run[a].stage \in {"interrupting", "expiring", "handled"}
    BY KnownHere DEF End
<1>2. CASE Goto(a, left) /\ Publish(a, kind)
    <2>1. kind \in Terminal /\ kind \in Kept
        BY DEF Terminal, Kept
    <2>2. journal'[a] \cap Terminal # {}
        BY <1>2, <2>1, Publishing
    <2>3. left.stage = "closing" /\ left.fault = run[a].fault /\ left.cancel = run[a].cancel
        BY <1>1 DEF Known, Runs
    <2>4. Told(left, status[a], journal'[a])
        <3> HIDE DEF left
        <3> SUFFICES ASSUME ~Excuse(left, status[a])
                     PROVE  Agrees(status[a], journal'[a])
            BY <2>2, <2>3 DEF Told, OnTheWay
        <3>1. run[a].stage = "expiring" /\ OnTheWay(run[a], status[a], journal[a])
            BY <1>1, <2>3 DEF Known, Told, Excuse
        <3>2. status[a] = "failed" /\ journal[a] \cap Terminal = {}
            BY <3>1 DEF OnTheWay
        <3>3. journal'[a] = journal[a] \cup {"error"}
            BY <1>2, <2>1, <3>1, <3>2, Publishing
        <3> QED
            BY <3>2, <3>3 DEF Agrees, Terminal
    <2> QED
        BY <1>1, <1>2, <2>4, Going, Publishing, TellOne
<1>3. CASE Goto(a, [left EXCEPT !.fault = TRUE]) /\ UNCHANGED journal
    <2> DEFINE new == [left EXCEPT !.fault = TRUE]
    <2>1. new.fault /\ new.stage = "closing"
        BY <1>1 DEF Known, Runs
    <2>2. Told(new, status'[a], journal'[a])
        BY <2>1 DEF Told, Excuse
    <2> QED
        BY <1>1, <1>3, <2>2, Going, TellOne
<1>4. ASSUME NEW stage \in {"handling", "closing"}, Raise(a, stage, FALSE), UNCHANGED journal
      PROVE  TellInv'
    BY <1>1, <1>4, RaisedTold
<1> QED
    BY <1>2, <1>3, <1>4 DEF End

LEMMA TellClose ==
    ASSUME Inv, TellInv, NEW a \in Analyses, Close(a) \/ SetDone(a)
    PROVE  TellInv'
<1>1. Known(a) /\ UNCHANGED status
    BY KnownHere DEF Close, SetDone
<1> DEFINE after == [run[a] EXCEPT !.stage = "closed", !.pending = FALSE]
<1>2. /\ after.stage = "closed" /\ after.fault = run[a].fault /\ after.cancel = run[a].cancel
    BY <1>1 DEF Known, Runs
<1>3. CASE Close(a) /\ run[a].terminal /\ Goto(a, after) /\ UNCHANGED journal
    <2>1. Told(after, status[a], journal[a])
        BY <1>1, <1>2, <1>3 DEF Close, Known, Told, OnTheWay, Excuse
    <2> QED
        BY <1>1, <1>3, <2>1, Going, TellOne
<1>4. CASE Close(a) /\ Goto(a, after) /\ Publish(a, "done")
    <2>1. "done" \in Terminal
        BY DEF Terminal
    <2>2. journal'[a] \cap Terminal # {} /\ journal'[a] \in {journal[a], journal[a] \cup {"done"}}
        BY <1>4, <2>1, Publishing
    <2>3. Told(after, status[a], journal'[a])
        BY <1>1, <1>2, <1>4, <2>2 DEF Close, Known, Told, OnTheWay, Agrees, Excuse
    <2> QED
        BY <1>1, <1>4, <2>3, Going, Publishing, TellOne
<1>5. CASE Goto(a, [after EXCEPT !.fault = TRUE]) /\ UNCHANGED journal
    <2> DEFINE new == [after EXCEPT !.fault = TRUE]
    <2>1. new.fault /\ new.stage = "closed"
        BY <1>1 DEF Known, Runs
    <2>2. Told(new, status'[a], journal'[a])
        BY <2>1 DEF Told, Excuse
    <2> QED
        BY <1>1, <1>5, <2>2, Going, TellOne
<1>6. CASE Goto(a, [Gone(a, "dead") EXCEPT !.fault = TRUE]) /\ UNCHANGED journal
    <2> DEFINE new == [Gone(a, "dead") EXCEPT !.fault = TRUE]
    <2>1. new.fault /\ new.stage = "dead" /\ ~new.terminal
        BY <1>1 DEF Known, Runs, Gone
    <2>2. Told(new, status'[a], journal'[a])
        BY <2>1, Struck
    <2> QED
        BY <1>1, <1>6, <2>2, Going, TellOne
<1>7. CASE SetDone(a)
    <2>1. Told(Gone(a, "over"), status[a], journal[a])
        BY <1>1, <1>7 DEF SetDone, Gone, Known, Runs, Told, OnTheWay, Excuse
    <2> QED
        BY <1>7, <2>1, Going, TellOne DEF SetDone
<1> QED
    BY <1>3, <1>4, <1>5, <1>6, <1>7 DEF Close

LEMMA TellOutside ==
    ASSUME Inv, TellInv, NEW a \in Analyses,
           Open(a) \/ Start(a) \/ CancelRun(a) \/ Delete(a)
    PROVE  TellInv'
<1>1. Known(a) /\ status \in [Analyses -> Stats] /\ journal \in [Analyses -> SUBSET Kept]
    BY KnownHere DEF Inv, RunnerTypeOK, Stats
<1>2. CASE Open(a)
    <2>1. status'[a] = "running" /\ \A b \in Analyses \ {a} : status'[b] = status[b]
        BY <1>1, <1>2 DEF Open
    <2>2. Told(run[a], "running", journal[a])
        BY <1>1, <1>2 DEF Open, Known, Sound, NoRun, Told, OnTheWay
    <2> QED
        BY <1>2, <2>1, <2>2, TellOne DEF Open
<1>3. CASE Start(a)
    <2>1. PICK stage \in {"generating", "dead"} : Goto(a, [NoRun EXCEPT !.stage = stage])
        BY <1>3 DEF Start
    <2>2. Told([NoRun EXCEPT !.stage = stage], status[a], journal[a])
        BY <1>1, <1>3 DEF Start, Known, NoRun, Told, OnTheWay, Excuse
    <2> QED
        BY <1>3, <2>1, <2>2, Going, TellOne DEF Start
<1>4. CASE CancelRun(a)
    <2> DEFINE new == [run[a] EXCEPT !.cancel = TRUE]
    <2>1. Told(new, status[a], journal[a])
        BY <1>1, <1>4 DEF CancelRun, IsRunning, Known, Runs, Told, Excuse
    <2> QED
        BY <1>4, <2>1, Going, TellOne DEF CancelRun
<1>5. CASE Delete(a)
    <2>1. /\ status'[a] = "deleted" /\ journal'[a] = {}
          /\ \A b \in Analyses \ {a} : status'[b] = status[b] /\ journal'[b] = journal[b]
        BY <1>1, <1>5 DEF Delete
    <2>2. Told(run[a], "deleted", {})
        BY <1>1 DEF Known, Told, Excuse
    <2> QED
        BY <1>5, <2>1, <2>2, TellOne DEF Delete
<1> QED
    BY <1>2, <1>3, <1>4, <1>5

LEMMA TellRestart ==
    ASSUME Inv, TellInv, Restart
    PROVE  TellInv'
<1> SUFFICES ASSUME NEW a \in Analyses PROVE Told(run'[a], status'[a], journal'[a])
    BY DEF TellInv, Told, OnTheWay, Agrees, Excuse
<1>1. Known(a)
    BY KnownHere
<1>2. CASE status[a] = "absent"
    <2>1. run'[a] = NoRun /\ run[a] = NoRun /\ journal'[a] = journal[a]
        BY <1>1, <1>2 DEF Restart, Known, Sound
    <2> QED
        BY <1>1, <2>1 DEF Known, NoRun, Told, OnTheWay
<1>3. CASE status[a] # "absent"
    <2>1. run'[a].stage = "lost" /\ ~run'[a].terminal
        BY <1>1, <1>3 DEF Restart, Gone, Known, Runs
    <2> QED
        BY <2>1 DEF Told, OnTheWay
<1> QED
    BY <1>2, <1>3

(***************************************************************************)
(* When a runner has finished, the journal has a terminal event and tells  *)
(* what the row tells, whatever was collected, cancelled, timed out or     *)
(* raised in between, for any number of analyses.                          *)
(***************************************************************************)
THEOREM JournalIsTold == Spec => []JournalTellsOutcome
<1>1. Init => Inv /\ TellInv
    <2> SUFFICES ASSUME Init PROVE TellInv
        BY Initially
    <2> QED
        BY DEF Init, TellInv, Told, OnTheWay, NoRun
<1>2. Inv /\ TellInv /\ [Next]_vars => Inv' /\ TellInv'
    <2> SUFFICES ASSUME Inv, TellInv, [Next]_vars PROVE TellInv'
        BY Step DEF Simulated
    <2>1. CASE UNCHANGED vars
        BY <2>1 DEF vars, TellInv, Told, OnTheWay, Agrees, Excuse
    <2>2. CASE Next
        BY <2>2, TellGenerator, TellLoop, TellDispatch, TellEnd, TellClose, TellOutside,
           TellRestart DEF Next, ThreadStep
    <2> QED
        BY <2>1, <2>2
<1>3. TellInv => JournalTellsOutcome
    BY DEF TellInv, Told, JournalTellsOutcome, Explained, Excuse, Agrees
<1> QED
    BY <1>1, <1>2, <1>3, PTL DEF Spec

-----------------------------------------------------------------------------
(* The jobs and the run history.                                           *)

\* A caller that has inserted its row knows it; one that records has a result.
RunsOK ==
    \A c \in Callers :
        /\ callers[c].pc \in InsideStages \ {"insert"} => callers[c].run \in DOMAIN rows
        /\ callers[c].pc = "record" => callers[c].result \in {"ok", "failed"}

LocksOK ==
    /\ \A c \in Callers : Inside(c) => callers[c].job \in locks
    /\ SingleFlight
    /\ LocksHaveHolders

\* Nothing moves while the process is down.
DownOK ==
    ~up => /\ start < MaxStarts
           /\ callers = [c \in Callers |-> Idle]
           /\ sweeps = [s \in Sweepers |-> NoSweep]
           /\ plan = {}

JobsInv == JobsTypeOK /\ RunsOK /\ LocksOK /\ DownOK

-----------------------------------------------------------------------------
LEMMA IdleIsCaller == Idle \in Caller /\ Idle.pc = "idle" /\ Idle.run = 0
BY JobsAssumption DEF Idle, Caller, Stages

LEMMA NoSweepIsSweep == NoSweep \in Sweep /\ NoSweep.pc = "idle"
BY DEF NoSweep, Sweep

LEMMA InitJobsInv ==
  ASSUME JobsInit
  PROVE  JobsInv
<1>1. \A c \in Callers : callers[c] = Idle
  BY DEF JobsInit
<1>2. JobsTypeOK
  BY JobsAssumption, IdleIsCaller, NoSweepIsSweep DEF JobsInit, JobsTypeOK
<1>3. RunsOK
  BY <1>1, IdleIsCaller DEF RunsOK, InsideStages
<1>4. LocksOK
  BY <1>1, IdleIsCaller DEF JobsInit, LocksOK, SingleFlight, LocksHaveHolders, Inside, InsideStages
<1>5. DownOK
  BY DEF JobsInit, DownOK
<1> QED
  BY <1>2, <1>3, <1>4, <1>5 DEF JobsInv

\* A step of one caller, told by what it makes of the caller and of the lock.
LEMMA CallerStep ==
  ASSUME JobsInv, NEW c \in Callers, up, NEW new \in Caller,
         callers' = [callers EXCEPT ![c] = new],
         UNCHANGED <<now, tradingDay, up, start, sweeps>>,
         DOMAIN rows \subseteq DOMAIN rows', DOMAIN rows' \subseteq 1 .. MaxRuns,
         rows' \in [DOMAIN rows' -> JobRow],
         active' \subseteq DOMAIN rows', plan' \subseteq Jobs,
         new.pc \in InsideStages \ {"insert"} => new.run \in DOMAIN rows',
         new.pc = "record" => new.result \in {"ok", "failed"},
         \/ /\ Inside(c) <=> new.pc \in InsideStages
            /\ Inside(c) => new.job = callers[c].job
            /\ locks' = locks
         \/ /\ ~Inside(c) /\ new.pc \in InsideStages
            /\ new.job \notin locks /\ locks' = locks \cup {new.job}
         \/ /\ Inside(c) /\ new.pc \notin InsideStages
            /\ locks' = locks \ {callers[c].job}
  PROVE  JobsInv'
<1>1. /\ callers \in [Callers -> Caller]
      /\ callers' \in [Callers -> Caller]
      /\ callers'[c] = new
      /\ \A d \in Callers : d # c => callers'[d] = callers[d]
  BY DEF JobsInv, JobsTypeOK
<1>2. locks \subseteq Jobs /\ new.job \in Jobs
  BY DEF JobsInv, JobsTypeOK, Caller
<1>3. JobsTypeOK'
  BY <1>1, <1>2 DEF JobsInv, JobsTypeOK
<1>4. RunsOK'
  BY <1>1 DEF JobsInv, RunsOK
<1>5. LocksOK'
  <2>1. /\ \A d \in Callers : Inside(d) => callers[d].job \in locks
        /\ \A d, e \in Callers : Inside(d) /\ Inside(e) /\ callers[d].job = callers[e].job => d = e
        /\ \A j \in locks : \E d \in Callers : Inside(d) /\ callers[d].job = j
    BY DEF JobsInv, LocksOK, SingleFlight, LocksHaveHolders
  <2>2. /\ Inside(c)' <=> new.pc \in InsideStages
        /\ \A d \in Callers : d # c => (Inside(d)' <=> Inside(d))
    BY <1>1 DEF Inside
  <2> HIDE DEF Inside, InsideStages
  <2>3. \A d \in Callers : Inside(d)' => callers'[d].job \in locks'
    BY <1>1, <2>1, <2>2
  <2>4. \A d, e \in Callers :
            Inside(d)' /\ Inside(e)' /\ callers'[d].job = callers'[e].job => d = e
    BY <1>1, <2>1, <2>2
  <2>5. \A j \in locks' : \E d \in Callers : Inside(d)' /\ callers'[d].job = j
    BY <1>1, <2>1, <2>2
  <2> QED
    BY <2>3, <2>4, <2>5 DEF LocksOK, SingleFlight, LocksHaveHolders
<1>6. DownOK'
  BY DEF DownOK
<1> QED
  BY <1>3, <1>4, <1>5, <1>6 DEF JobsInv

\* A caller that is not idle runs in a process that is up.
LEMMA BusyIsUp ==
  ASSUME JobsInv, NEW c \in Callers, callers[c].pc # "idle"
  PROVE  up
BY IdleIsCaller DEF JobsInv, DownOK

\* Ending a row keeps the table's rows and types.
LEMMA RowWritten ==
  ASSUME JobsInv, NEW r, NEW end \in {"ok", "failed"},
         rows' = [rows EXCEPT ![r].status = end]
  PROVE  DOMAIN rows' = DOMAIN rows /\ rows' \in [DOMAIN rows' -> JobRow]
BY DEF JobsInv, JobsTypeOK, JobRow

LEMMA AfterRunIsOutside ==
  ASSUME JobsInv, NEW c \in Callers, NEW result \in {"none", "ok", "failed", "lost"}
  PROVE  /\ AfterRun(c, result) \in Caller
         /\ AfterRun(c, result).pc \in {"idle", "acquire", "mark_retries"}
<1> DEFINE me == callers[c]
<1>1. me \in Caller
  BY DEF JobsInv, JobsTypeOK
<1>2. CASE c \notin Jobs \/ result = "ok"
  BY <1>2, IdleIsCaller DEF AfterRun
<1>3. CASE c \in Jobs /\ result # "ok" /\ me.attempt < MAX_ATTEMPTS
  <2>1. AfterRun(c, result) =
            [pc |-> "acquire", job |-> me.job, run |-> 0, attempt |-> me.attempt + 1,
             result |-> "none"]
    BY <1>1, <1>3 DEF AfterRun, Caller
  <2> QED
    BY <1>1, <1>3, <2>1, JobsAssumption DEF Caller, Stages
<1>4. CASE c \in Jobs /\ result # "ok" /\ ~(me.attempt < MAX_ATTEMPTS)
  <2>1. AfterRun(c, result) =
            [pc |-> "mark_retries", job |-> me.job,
             run |-> IF result = "lost" THEN 0 ELSE me.run, attempt |-> me.attempt,
             result |-> me.result]
    BY <1>1, <1>4 DEF AfterRun, Caller
  <2> QED
    BY <1>1, <2>1, JobsAssumption DEF Caller, Stages
<1> QED
  BY <1>2, <1>3, <1>4

-----------------------------------------------------------------------------
(* The actions of a caller.                                                *)

LEMMA MoveIsRecord ==
  ASSUME JobsInv, NEW c \in Callers, NEW pc \in Stages, Move(c, pc)
  PROVE  \E new \in Caller :
            /\ new = [callers[c] EXCEPT !.pc = pc]
            /\ new.pc = pc /\ new.job = callers[c].job /\ new.run = callers[c].run
            /\ new.result = callers[c].result
            /\ callers' = [callers EXCEPT ![c] = new]
BY DEF JobsInv, JobsTypeOK, Move, Caller

LEMMA AcquireInv ==
  ASSUME JobsInv, NEW c \in Callers, Acquire(c)
  PROVE  JobsInv'
<1>1. up /\ ~Inside(c)
  BY BusyIsUp DEF Acquire, At, Inside, InsideStages
<1>2. CASE callers[c].job \in locks
  <2>1. callers' = [callers EXCEPT ![c] = Idle] /\ locks' = locks
    BY <1>2 DEF Acquire
  <2> QED
    BY <1>1, <2>1, IdleIsCaller, CallerStep
    DEF Acquire, dayVars, JobsInv, JobsTypeOK, InsideStages
<1>3. CASE callers[c].job \notin locks
  <2>1. Move(c, "insert") /\ locks' = locks \cup {callers[c].job}
    BY <1>3 DEF Acquire
  <2>2. PICK new \in Caller :
            /\ new.pc = "insert" /\ new.job = callers[c].job
            /\ callers' = [callers EXCEPT ![c] = new]
    BY <2>1, MoveIsRecord DEF Stages
  <2> QED
    BY <1>1, <1>3, <2>1, <2>2, CallerStep
    DEF Acquire, dayVars, JobsInv, JobsTypeOK, InsideStages
<1> QED
  BY <1>2, <1>3

LEMMA InsertRowInv ==
  ASSUME JobsInv, NEW c \in Callers, InsertRow(c)
  PROVE  JobsInv'
<1>1. up /\ Inside(c)
  BY BusyIsUp DEF InsertRow, At, Inside, InsideStages
<1>2. PICK r \in 1 .. MaxRuns, early \in {FALSE, ClockMayStepBack} :
          /\ rows' = [q \in DOMAIN rows \cup {r} |-> IF q = r THEN Row(c, early) ELSE rows[q]]
          /\ callers' = [callers EXCEPT ![c] = [@ EXCEPT !.pc = "mark", !.run = r]]
  BY DEF InsertRow
<1> DEFINE new == [callers[c] EXCEPT !.pc = "mark", !.run = r]
<1>3. callers[c] \in Caller /\ callers \in [Callers -> Caller]
  BY DEF JobsInv, JobsTypeOK
<1>4. /\ new \in Caller
      /\ new.pc = "mark" /\ new.run = r /\ new.job = callers[c].job
      /\ callers' = [callers EXCEPT ![c] = new]
  <2>1. r \in 0 .. MaxRuns /\ "mark" \in Stages
    BY JobsAssumption DEF Stages
  <2> QED
    BY <1>2, <1>3, <2>1 DEF Caller
<1>5. Row(c, early) \in JobRow
  BY <1>3, JobsAssumption DEF Row, JobRow, Source, Callers, Caller, JobsInv, JobsTypeOK
<1>6. DOMAIN rows' = DOMAIN rows \cup {r} /\ rows' \in [DOMAIN rows' -> JobRow]
  BY <1>2, <1>5 DEF JobsInv, JobsTypeOK
<1> QED
  BY <1>1, <1>4, <1>6, CallerStep
  DEF InsertRow, dayVars, JobsInv, JobsTypeOK, InsideStages, Inside

LEMMA InsertFailsInv ==
  ASSUME JobsInv, NEW c \in Callers, InsertFails(c)
  PROVE  JobsInv'
<1>1. up /\ Inside(c)
  BY BusyIsUp DEF InsertFails, At, Inside, InsideStages
<1> DEFINE new == AfterRun(c, "failed")
<1>2. new \in Caller /\ new.pc \in {"idle", "acquire", "mark_retries"}
  BY AfterRunIsOutside
<1> HIDE DEF new
<1> QED
  BY <1>1, <1>2, CallerStep DEF new, InsertFails, dayVars, JobsInv, JobsTypeOK, InsideStages

LEMMA MarkActiveInv ==
  ASSUME JobsInv, NEW c \in Callers, MarkActive(c)
  PROVE  JobsInv'
<1>1. up /\ Inside(c) /\ callers[c].run \in DOMAIN rows
  BY BusyIsUp DEF MarkActive, At, Inside, InsideStages, JobsInv, RunsOK
<1>2. PICK new \in Caller :
          /\ new.pc = "work" /\ new.job = callers[c].job /\ new.run = callers[c].run
          /\ callers' = [callers EXCEPT ![c] = new]
  BY MoveIsRecord DEF MarkActive, Stages
<1> QED
  BY <1>1, <1>2, CallerStep DEF MarkActive, dayVars, JobsInv, JobsTypeOK, InsideStages

LEMMA WorkInv ==
  ASSUME JobsInv, NEW c \in Callers, Work(c)
  PROVE  JobsInv'
<1>1. up /\ Inside(c) /\ callers[c].run \in DOMAIN rows
  BY BusyIsUp DEF Work, At, Inside, InsideStages, JobsInv, RunsOK
<1>2. PICK result \in {"ok", "failed"} :
          callers' = [callers EXCEPT ![c].pc = "record", ![c].result = result]
  BY DEF Work
<1> DEFINE new == [callers[c] EXCEPT !.pc = "record", !.result = result]
<1>3. callers[c] \in Caller /\ callers \in [Callers -> Caller]
  BY DEF JobsInv, JobsTypeOK
<1>4. /\ new \in Caller
      /\ new.pc = "record" /\ new.result = result
      /\ new.run = callers[c].run /\ new.job = callers[c].job
      /\ callers' = [callers EXCEPT ![c] = new]
  BY <1>2, <1>3 DEF Caller, Stages
<1> QED
  BY <1>1, <1>4, CallerStep DEF Work, dayVars, JobsInv, JobsTypeOK, InsideStages

LEMMA RecordInv ==
  ASSUME JobsInv, NEW c \in Callers, Record(c)
  PROVE  JobsInv'
<1>1. /\ up /\ Inside(c) /\ callers[c].run \in DOMAIN rows
      /\ callers[c].result \in {"ok", "failed"}
  BY BusyIsUp DEF Record, At, Inside, InsideStages, JobsInv, RunsOK
<1>2. PICK new \in Caller :
          /\ new.pc = "leave" /\ new.job = callers[c].job /\ new.run = callers[c].run
          /\ callers' = [callers EXCEPT ![c] = new]
  BY MoveIsRecord DEF Record, Stages
<1>3. DOMAIN rows' = DOMAIN rows /\ rows' \in [DOMAIN rows' -> JobRow]
  BY <1>1 DEF Record, JobsInv, JobsTypeOK, JobRow, Skips
<1> QED
  BY <1>1, <1>2, <1>3, CallerStep DEF Record, dayVars, JobsInv, JobsTypeOK, InsideStages

LEMMA RecordFailsInv ==
  ASSUME JobsInv, NEW c \in Callers, RecordFails(c)
  PROVE  JobsInv'
<1>1. up /\ Inside(c) /\ callers[c].run \in DOMAIN rows
  BY BusyIsUp DEF RecordFails, At, Inside, InsideStages, JobsInv, RunsOK
<1> DEFINE result == IF callers[c].result = "ok" THEN "lost" ELSE callers[c].result
           new == [callers[c] EXCEPT !.pc = "leave", !.result = result]
<1>2. callers[c] \in Caller /\ callers \in [Callers -> Caller]
  BY DEF JobsInv, JobsTypeOK
<1>3. /\ new \in Caller
      /\ new.pc = "leave" /\ new.run = callers[c].run /\ new.job = callers[c].job
      /\ callers' = [callers EXCEPT ![c] = new]
  BY <1>2 DEF RecordFails, Caller, Stages
<1> QED
  BY <1>1, <1>3, CallerStep DEF RecordFails, dayVars, JobsInv, JobsTypeOK, InsideStages

LEMMA LeaveInv ==
  ASSUME JobsInv, NEW c \in Callers, Leave(c)
  PROVE  JobsInv'
<1>1. up /\ Inside(c)
  BY BusyIsUp DEF Leave, At, Inside, InsideStages
<1> DEFINE new == AfterRun(c, callers[c].result)
<1>2. new \in Caller /\ new.pc \in {"idle", "acquire", "mark_retries"}
  BY AfterRunIsOutside DEF JobsInv, JobsTypeOK, Caller
<1> HIDE DEF new
<1> QED
  BY <1>1, <1>2, CallerStep DEF new, Leave, dayVars, JobsInv, JobsTypeOK, InsideStages

LEMMA MarkRetriesInv ==
  ASSUME JobsInv, NEW c \in Callers, MarkRetries(c)
  PROVE  JobsInv'
<1>1. up /\ ~Inside(c)
  BY BusyIsUp DEF MarkRetries, At, Inside, InsideStages
<1>2. DOMAIN rows' = DOMAIN rows /\ rows' \in [DOMAIN rows' -> JobRow]
  BY RowWritten DEF MarkRetries, JobsInv, JobsTypeOK
<1> QED
  BY <1>1, <1>2, IdleIsCaller, CallerStep
  DEF MarkRetries, dayVars, JobsInv, JobsTypeOK, InsideStages

LEMMA RunStepInv ==
  ASSUME JobsInv, NEW c \in Callers, RunStep(c)
  PROVE  JobsInv'
BY AcquireInv, InsertRowInv, InsertFailsInv, MarkActiveInv, WorkInv, RecordInv,
   RecordFailsInv, LeaveInv, MarkRetriesInv DEF RunStep

-----------------------------------------------------------------------------
(* The sweep, the catch-up and the day.                                    *)

\* A step that moves no caller.
LEMMA OtherStep ==
  ASSUME JobsInv, up, UNCHANGED <<now, tradingDay, up, start, active, locks, callers>>,
         DOMAIN rows' = DOMAIN rows, rows' \in [DOMAIN rows' -> JobRow],
         sweeps' \in [Sweepers -> Sweep], plan' \subseteq Jobs
  PROVE  JobsInv'
<1>1. JobsTypeOK'
  BY DEF JobsInv, JobsTypeOK
<1>2. RunsOK'
  BY DEF JobsInv, RunsOK
<1>3. LocksOK'
  BY DEF JobsInv, LocksOK, SingleFlight, LocksHaveHolders, Inside
<1>4. DownOK'
  BY DEF DownOK
<1> QED
  BY <1>1, <1>2, <1>3, <1>4 DEF JobsInv

LEMMA SweepingIsUp ==
  ASSUME JobsInv, NEW s \in Sweepers, sweeps[s].pc # "idle"
  PROVE  up
BY NoSweepIsSweep DEF JobsInv, DownOK

LEMMA SweepStepInv ==
  ASSUME JobsInv, NEW s \in Sweepers, SweepStep(s)
  PROVE  JobsInv'
<1>1. /\ sweeps \in [Sweepers -> Sweep] /\ sweeps[s] \in Sweep
      /\ active \subseteq 1 .. MaxRuns
      /\ DOMAIN rows \subseteq 1 .. MaxRuns
      /\ rows \in [DOMAIN rows -> JobRow] /\ plan \subseteq Jobs
  BY DEF JobsInv, JobsTypeOK
<1>2. up
  BY SweepingIsUp DEF SweepStep, SweepRead, SweepList, SweepWrite, SweepDone
<1>3. CASE SweepRead(s)
  <2>1. sweeps' \in [Sweepers -> Sweep]
    BY <1>1, <1>3 DEF SweepRead, Sweep
  <2> QED
    BY <1>1, <1>2, <1>3, <2>1, OtherStep DEF SweepRead, dayVars
<1>4. CASE SweepList(s)
  <2>1. Stale(sweeps[s].ids) \subseteq 1 .. MaxRuns
    BY <1>1 DEF Stale
  <2>2. sweeps' \in [Sweepers -> Sweep]
    BY <1>1, <1>4, <2>1 DEF SweepList, Sweep
  <2> QED
    BY <1>1, <1>2, <1>4, <2>2, OtherStep DEF SweepList, dayVars
<1>5. CASE SweepWrite(s)
  <2>1. PICK r \in sweeps[s].ids :
            /\ rows' = [rows EXCEPT ![r].status = "failed"]
            /\ sweeps' = [sweeps EXCEPT ![s].ids = @ \ {r}]
    BY <1>5 DEF SweepWrite
  <2>2. DOMAIN rows' = DOMAIN rows /\ rows' \in [DOMAIN rows' -> JobRow]
    BY <2>1, RowWritten
  <2>3. sweeps' \in [Sweepers -> Sweep]
    BY <1>1, <2>1 DEF Sweep
  <2> QED
    BY <1>1, <1>2, <1>5, <2>2, <2>3, OtherStep DEF SweepWrite, dayVars
<1>6. CASE SweepDone(s)
  <2>1. sweeps' \in [Sweepers -> Sweep]
    BY <1>1, <1>6 DEF SweepDone, Sweep
  <2> QED
    BY <1>1, <1>2, <1>6, <2>1, OtherStep DEF SweepDone, dayVars
<1> QED
  BY <1>3, <1>4, <1>5, <1>6 DEF SweepStep

LEMMA PollInv ==
  ASSUME JobsInv, Poll
  PROVE  JobsInv'
<1>1. sweeps' \in [Sweepers -> Sweep]
  BY DEF Poll, JobsInv, JobsTypeOK, Sweep
<1> QED
  BY <1>1, OtherStep DEF Poll, dayVars, JobsInv, JobsTypeOK

LEMMA PlanCatchUpInv ==
  ASSUME JobsInv, PlanCatchUp
  PROVE  JobsInv'
<1>1. CatchUp \in Sweepers /\ up
  BY SweepingIsUp DEF PlanCatchUp, Sweepers
<1>2. sweeps' \in [Sweepers -> Sweep]
  BY NoSweepIsSweep DEF PlanCatchUp, JobsInv, JobsTypeOK
<1>3. plan' \subseteq Jobs
  BY DEF PlanCatchUp, DueJobs
<1> QED
  BY <1>1, <1>2, <1>3, OtherStep DEF PlanCatchUp, dayVars, JobsInv, JobsTypeOK

LEMMA StartingIsCaller ==
  ASSUME NEW job \in Jobs
  PROVE  Starting(job) \in Caller /\ Starting(job).pc = "acquire"
<1>1. 0 \in 0 .. MaxRuns /\ 1 \in 0 .. MAX_ATTEMPTS
  BY JobsAssumption
<1> QED
  BY <1>1 DEF Starting, Caller, Stages

LEMMA RunPlannedInv ==
  ASSUME JobsInv, NEW job \in Jobs, RunPlanned(job)
  PROVE  JobsInv'
<1>1. CatchUp \in Callers /\ up /\ ~Inside(CatchUp)
  BY IdleIsCaller DEF Callers, RunPlanned, NextPlanned, JobsInv, DownOK, Inside, InsideStages
<1>2. callers' = [callers EXCEPT ![CatchUp] = Starting(job)] /\ plan' \subseteq Jobs
  BY DEF RunPlanned, JobsInv, JobsTypeOK
<1> QED
  BY <1>1, <1>2, StartingIsCaller, CallerStep
  DEF RunPlanned, dayVars, JobsInv, JobsTypeOK, InsideStages

LEMMA RunByHandInv ==
  ASSUME JobsInv, NEW job \in Jobs, RunByHand(job)
  PROVE  JobsInv'
<1>1. Manual \in Callers /\ up /\ ~Inside(Manual)
  BY IdleIsCaller DEF Callers, RunByHand, Inside, InsideStages
<1> QED
  BY <1>1, StartingIsCaller, CallerStep
  DEF RunByHand, dayVars, JobsInv, JobsTypeOK, InsideStages

LEMMA TickInv ==
  ASSUME JobsInv, Tick
  PROVE  JobsInv'
<1>1. \A c \in Callers : callers'[c] = callers[c] \/ (c \in Jobs /\ callers'[c] = Starting(c)
                                                      /\ up /\ callers[c] = Idle)
  BY DEF Tick
<1>2. callers' \in [Callers -> Caller]
  BY <1>1, StartingIsCaller DEF Tick, JobsInv, JobsTypeOK
<1>3. \A c \in Callers : Inside(c)' <=> Inside(c)
  BY <1>1, StartingIsCaller, IdleIsCaller DEF Inside, InsideStages
<1>4. \A c \in Callers : Inside(c) => callers'[c] = callers[c]
  BY <1>1, IdleIsCaller DEF Inside, InsideStages
<1>5. JobsTypeOK'
  <2>1. now' \in 0 .. MaxTime
    BY JobsAssumption DEF Tick, JobsInv, JobsTypeOK
  <2> QED
    BY <1>2, <2>1 DEF Tick, JobsInv, JobsTypeOK
<1>6. RunsOK'
  BY <1>1, StartingIsCaller DEF Tick, JobsInv, RunsOK, InsideStages
<1>7. LocksOK'
  BY <1>3, <1>4 DEF Tick, JobsInv, LocksOK, SingleFlight, LocksHaveHolders
<1>8. DownOK'
  BY DEF Tick, JobsInv, DownOK
<1> QED
  BY <1>5, <1>6, <1>7, <1>8 DEF JobsInv

LEMMA CrashInv ==
  ASSUME JobsInv, Crash
  PROVE  JobsInv'
<1>1. \A c \in Callers : callers'[c] = Idle
  BY DEF Crash
<1>2. JobsTypeOK'
  BY IdleIsCaller, NoSweepIsSweep DEF Crash, JobsInv, JobsTypeOK
<1>3. RunsOK'
  BY <1>1, IdleIsCaller DEF RunsOK, InsideStages
<1>4. LocksOK'
  BY <1>1, IdleIsCaller DEF Crash, LocksOK, SingleFlight, LocksHaveHolders, Inside, InsideStages
<1>5. DownOK'
  BY DEF Crash, DownOK
<1> QED
  BY <1>2, <1>3, <1>4, <1>5 DEF JobsInv

LEMMA StartProcessInv ==
  ASSUME JobsInv, StartProcess
  PROVE  JobsInv'
<1>1. start' \in 1 .. MaxStarts
  BY JobsAssumption DEF StartProcess, JobsInv, JobsTypeOK, DownOK
<1>2. sweeps' \in [Sweepers -> Sweep]
  BY DEF StartProcess, JobsInv, JobsTypeOK, Sweep
<1>3. JobsTypeOK'
  BY <1>1, <1>2 DEF StartProcess, JobsInv, JobsTypeOK
<1>4. RunsOK'
  BY DEF StartProcess, JobsInv, RunsOK
<1>5. LocksOK'
  BY DEF StartProcess, JobsInv, LocksOK, SingleFlight, LocksHaveHolders, Inside
<1>6. DownOK'
  BY DEF StartProcess, DownOK
<1> QED
  BY <1>3, <1>4, <1>5, <1>6 DEF JobsInv

LEMMA StutterInv ==
  ASSUME JobsInv, UNCHANGED jobsVars
  PROVE  JobsInv'
<1>1. JobsTypeOK'
  BY DEF JobsInv, JobsTypeOK, jobsVars
<1>2. RunsOK' /\ LocksOK' /\ DownOK'
  BY DEF JobsInv, RunsOK, LocksOK, SingleFlight, LocksHaveHolders, Inside, DownOK, jobsVars
<1> QED
  BY <1>1, <1>2 DEF JobsInv

-----------------------------------------------------------------------------
(***************************************************************************)
(* The invariant of run_job, the sweep, the catch-up and the restarts.     *)
(***************************************************************************)
THEOREM JobsInvariant == JobsSpec => []JobsInv
<1>1. ASSUME JobsInv, [JobsNext]_jobsVars
      PROVE  JobsInv'
  BY <1>1, RunStepInv, SweepStepInv, PollInv, PlanCatchUpInv, RunPlannedInv, RunByHandInv,
     TickInv, CrashInv, StartProcessInv, StutterInv DEF JobsNext
<1> QED
  BY InitJobsInv, <1>1, PTL DEF JobsSpec

(***************************************************************************)
(* Every variable keeps its type.                                          *)
(***************************************************************************)
THEOREM JobTypes == JobsSpec => []JobsTypeOK
<1>1. JobsInv => JobsTypeOK
  BY DEF JobsInv
<1> QED
  BY <1>1, JobsInvariant, PTL

(***************************************************************************)
(* No job runs twice at a time, whether the scheduler, the operator, the   *)
(* catch-up or a retry starts it (the per-job lock of run_job).            *)
(***************************************************************************)
THEOREM NoJobRunsTwice == JobsSpec => []SingleFlight
<1>1. JobsInv => SingleFlight
  BY DEF JobsInv, LocksOK
<1> QED
  BY <1>1, JobsInvariant, PTL

(***************************************************************************)
(* A failing history leaves no job locked (the finally of run_job).        *)
(***************************************************************************)
THEOREM NoLockIsLeftBehind == JobsSpec => []LocksHaveHolders
<1>1. JobsInv => LocksHaveHolders
  BY DEF JobsInv, LocksOK
<1> QED
  BY <1>1, JobsInvariant, PTL

-----------------------------------------------------------------------------
(* The rows of the runs in progress, while the clock is not stepped back.  *)

OwnerStages == {"mark", "work", "record", "leave", "mark_retries"}
Owner(c) == callers[c].pc \in OwnerStages /\ callers[c].run # 0

\* A row has one owner, and a sweep only ever holds rows of dead processes.
LiveInv ==
    /\ \A c \in Callers : callers[c].pc \in {"acquire", "insert"} => callers[c].run = 0
    /\ \A c \in Callers : Owner(c) => callers[c].run \in DOMAIN rows
    /\ \A c, d \in Callers : Owner(c) /\ Owner(d) /\ callers[c].run = callers[d].run => c = d
    /\ \A c \in Callers : Running(c) => /\ callers[c].run # 0
                                        /\ rows[callers[c].run].status = "running"
                                        /\ rows[callers[c].run].start = start
    /\ \A r \in DOMAIN rows : rows[r].early = FALSE
    /\ \A s \in Sweepers : sweeps[s].pc = "write" =>
           \A r \in sweeps[s].ids : r \in DOMAIN rows /\ rows[r].start < start

LEMMA InitLiveInv ==
  ASSUME JobsInit
  PROVE  LiveInv
<1>1. \A c \in Callers : callers[c] = Idle
  BY DEF JobsInit
<1>2. \A s \in Sweepers : sweeps[s] = NoSweep
  BY DEF JobsInit
<1>3. DOMAIN rows = {}
  BY DEF JobsInit
<1> QED
  BY <1>1, <1>2, <1>3, IdleIsCaller, NoSweepIsSweep DEF LiveInv, Owner, OwnerStages, Running

\* A caller's step touches no row but the one it owns or the one it inserts.
LEMMA LiveCallerStep ==
  ASSUME JobsInv, LiveInv, NEW c \in Callers, NEW new \in Caller,
         callers' = [callers EXCEPT ![c] = new], UNCHANGED <<start, sweeps>>,
         DOMAIN rows \subseteq DOMAIN rows',
         \A r \in DOMAIN rows' : rows'[r].early = FALSE,
         \A r \in DOMAIN rows : /\ rows'[r].start = rows[r].start
                                /\ rows'[r] = rows[r] \/ (Owner(c) /\ r = callers[c].run),
         new.pc \in {"acquire", "insert"} => new.run = 0,
         new.pc \in OwnerStages /\ new.run # 0 =>
            /\ new.run \in DOMAIN rows'
            /\ new.run \notin DOMAIN rows \/ (Owner(c) /\ new.run = callers[c].run),
         new.pc \in {"mark", "work", "record"} =>
            new.run # 0 /\ rows'[new.run].status = "running" /\ rows'[new.run].start = start
  PROVE  LiveInv'
<1>1. /\ callers'[c] = new
      /\ \A d \in Callers : d # c => callers'[d] = callers[d]
  BY DEF JobsInv, JobsTypeOK
<1>2. /\ \A d \in Callers : Owner(d) => callers[d].run \in DOMAIN rows
      /\ \A d, e \in Callers : Owner(d) /\ Owner(e) /\ callers[d].run = callers[e].run => d = e
  BY DEF LiveInv
<1>3. /\ \A d \in Callers : d # c => (Owner(d)' <=> Owner(d))
      /\ Owner(c)' <=> (new.pc \in OwnerStages /\ new.run # 0)
  BY <1>1 DEF Owner
<1>4. \A d \in Callers : callers'[d].pc \in {"acquire", "insert"} => callers'[d].run = 0
  BY <1>1 DEF LiveInv
<1>5. \A d \in Callers : Owner(d)' => callers'[d].run \in DOMAIN rows'
  BY <1>1, <1>2, <1>3
<1>6. \A d, e \in Callers : Owner(d)' /\ Owner(e)' /\ callers'[d].run = callers'[e].run => d = e
  BY <1>1, <1>2, <1>3
<1>7. \A d \in Callers : Running(d)' => /\ callers'[d].run # 0
                                        /\ rows'[callers'[d].run].status = "running"
                                        /\ rows'[callers'[d].run].start = start'
  <2> SUFFICES ASSUME NEW d \in Callers, Running(d)'
               PROVE  /\ callers'[d].run # 0
                      /\ rows'[callers'[d].run].status = "running"
                      /\ rows'[callers'[d].run].start = start'
    OBVIOUS
  <2>1. CASE d = c
    BY <1>1, <2>1 DEF Running
  <2>2. CASE d # c
    <3>1. Running(d) /\ callers'[d] = callers[d]
      BY <1>1, <2>2 DEF Running
    <3>2. Owner(d) /\ callers[d].run \in DOMAIN rows
      BY <1>2, <3>1 DEF LiveInv, Owner, Running, OwnerStages
    <3>3. rows'[callers[d].run] = rows[callers[d].run]
      BY <1>2, <2>2, <3>2
    <3> QED
      BY <3>1, <3>3 DEF LiveInv
  <2> QED
    BY <2>1, <2>2
<1>8. \A s \in Sweepers : sweeps'[s].pc = "write" =>
           \A r \in sweeps'[s].ids : r \in DOMAIN rows' /\ rows'[r].start < start'
  BY DEF LiveInv
<1> QED
  BY <1>4, <1>5, <1>6, <1>7, <1>8 DEF LiveInv

\* A step that moves no caller and writes no row.
LEMMA LiveOtherStep ==
  ASSUME LiveInv, UNCHANGED <<start, rows, callers>>,
         \A s \in Sweepers : sweeps'[s].pc = "write" =>
             \A r \in sweeps'[s].ids : r \in DOMAIN rows /\ rows[r].start < start
  PROVE  LiveInv'
BY DEF LiveInv, Owner, Running

LEMMA AfterRunOwns ==
  ASSUME JobsInv, NEW c \in Callers, NEW result \in {"none", "ok", "failed", "lost"}
  PROVE  /\ AfterRun(c, result).pc = "acquire" => AfterRun(c, result).run = 0
         /\ AfterRun(c, result).run \in {0, callers[c].run}
<1>1. callers[c] \in Caller
  BY DEF JobsInv, JobsTypeOK
<1> QED
  BY <1>1, IdleIsCaller DEF AfterRun, Caller

\* The steps of a caller that leave the table alone.
LEMMA LiveSilentStep ==
  ASSUME JobsInv, LiveInv, NEW c \in Callers, NEW new \in Caller,
         callers' = [callers EXCEPT ![c] = new], UNCHANGED <<start, sweeps, rows>>,
         new.run \in {0, callers[c].run},
         new.pc \in {"acquire", "insert"} => new.run = 0,
         new.pc \in OwnerStages => Owner(c) \/ new.run = 0,
         new.pc \in {"mark", "work", "record"} => Running(c) /\ new.run = callers[c].run
  PROVE  LiveInv'
BY LiveCallerStep DEF LiveInv

LEMMA LiveRunStep ==
  ASSUME JobsInv, LiveInv, ~ClockMayStepBack, NEW c \in Callers, RunStep(c)
  PROVE  LiveInv'
<1>1. callers[c] \in Caller /\ callers \in [Callers -> Caller]
  BY DEF JobsInv, JobsTypeOK
<1>2. CASE Acquire(c)
  <2>1. callers[c].run = 0
    BY <1>2 DEF Acquire, At, LiveInv
  <2>2. CASE callers[c].job \in locks
    <3>1. callers' = [callers EXCEPT ![c] = Idle] /\ UNCHANGED <<start, sweeps, rows>>
      BY <1>2, <2>2 DEF Acquire, dayVars
    <3> QED
      BY <3>1, IdleIsCaller, LiveSilentStep DEF OwnerStages
  <2>3. CASE callers[c].job \notin locks
    <3>1. Move(c, "insert") /\ UNCHANGED <<start, sweeps, rows>>
      BY <1>2, <2>3 DEF Acquire, dayVars
    <3>2. PICK new \in Caller : /\ new.pc = "insert" /\ new.run = callers[c].run
                                /\ callers' = [callers EXCEPT ![c] = new]
      BY <3>1, MoveIsRecord DEF Stages
    <3> QED
      BY <2>1, <3>1, <3>2, LiveSilentStep DEF OwnerStages
  <2> QED
    BY <2>2, <2>3
<1>3. CASE InsertRow(c)
  <2>1. PICK r \in 1 .. MaxRuns, early \in {FALSE, ClockMayStepBack} :
            /\ NextRunId(r)
            /\ rows' = [q \in DOMAIN rows \cup {r} |-> IF q = r THEN Row(c, early) ELSE rows[q]]
            /\ callers' = [callers EXCEPT ![c] = [@ EXCEPT !.pc = "mark", !.run = r]]
    BY <1>3 DEF InsertRow
  <2> DEFINE new == [callers[c] EXCEPT !.pc = "mark", !.run = r]
  <2>2. r \in 0 .. MaxRuns /\ r # 0 /\ "mark" \in Stages
    BY JobsAssumption DEF Stages
  <2>3. /\ new \in Caller /\ new.pc = "mark" /\ new.run = r
        /\ callers' = [callers EXCEPT ![c] = new]
    BY <1>1, <2>1, <2>2 DEF Caller
  <2>4. r \notin DOMAIN rows
    BY <2>1 DEF NextRunId
  <2>5. /\ DOMAIN rows' = DOMAIN rows \cup {r}
        /\ rows'[r] = Row(c, early)
        /\ \A q \in DOMAIN rows : rows'[q] = rows[q]
    BY <2>1, <2>4
  <2>6. rows'[r].status = "running" /\ rows'[r].start = start /\ rows'[r].early = FALSE
    <3>1. early = FALSE
      BY JobsAssumption
    <3> QED
      BY <2>5, <3>1 DEF Row
  <2>7. UNCHANGED <<start, sweeps>>
    BY <1>3 DEF InsertRow, dayVars
  <2>8. \A q \in DOMAIN rows' : rows'[q].early = FALSE
    BY <2>5, <2>6 DEF LiveInv
  <2> HIDE DEF new
  <2> QED
    BY <2>2, <2>3, <2>4, <2>5, <2>6, <2>7, <2>8, LiveCallerStep
<1>4. CASE InsertFails(c)
  <2> DEFINE new == AfterRun(c, "failed")
  <2>1. callers[c].run = 0
    BY <1>4 DEF InsertFails, At, LiveInv
  <2>2. /\ new \in Caller /\ new.pc \in {"idle", "acquire", "mark_retries"} /\ new.run = 0
        /\ callers' = [callers EXCEPT ![c] = new] /\ UNCHANGED <<start, sweeps, rows>>
    BY <1>4, <2>1, AfterRunIsOutside, AfterRunOwns DEF InsertFails, dayVars
  <2> HIDE DEF new
  <2> QED
    BY <2>2, LiveSilentStep
<1>5. CASE MarkActive(c)
  <2>1. Move(c, "work") /\ UNCHANGED <<start, sweeps, rows>> /\ Running(c)
    BY <1>5 DEF MarkActive, dayVars, At, Running
  <2>2. PICK new \in Caller : /\ new.pc = "work" /\ new.run = callers[c].run
                              /\ callers' = [callers EXCEPT ![c] = new]
    BY <2>1, MoveIsRecord DEF Stages
  <2> QED
    BY <2>1, <2>2, LiveSilentStep DEF LiveInv, Owner, OwnerStages, Running
<1>6. CASE Work(c)
  <2>1. PICK result \in {"ok", "failed"} :
            callers' = [callers EXCEPT ![c].pc = "record", ![c].result = result]
    BY <1>6 DEF Work
  <2> DEFINE new == [callers[c] EXCEPT !.pc = "record", !.result = result]
  <2>2. /\ new \in Caller /\ new.pc = "record" /\ new.run = callers[c].run
        /\ callers' = [callers EXCEPT ![c] = new]
    BY <1>1, <2>1 DEF Caller, Stages
  <2>3. UNCHANGED <<start, sweeps, rows>> /\ Running(c) /\ Owner(c)
    BY <1>6 DEF Work, dayVars, At, Running, LiveInv, Owner, OwnerStages
  <2> HIDE DEF new
  <2> QED
    BY <2>2, <2>3, LiveSilentStep
<1>7. CASE Record(c)
  <2>1. PICK new \in Caller : /\ new.pc = "leave" /\ new.run = callers[c].run
                              /\ callers' = [callers EXCEPT ![c] = new]
    BY <1>7, MoveIsRecord DEF Record, Stages
  <2>2. Owner(c) /\ callers[c].run \in DOMAIN rows
    BY <1>7 DEF Record, At, Running, LiveInv, Owner, OwnerStages
  <2>3. rows \in [DOMAIN rows -> JobRow]
    BY DEF JobsInv, JobsTypeOK
  <2>4. /\ DOMAIN rows' = DOMAIN rows
        /\ \A r \in DOMAIN rows :
              /\ rows'[r].start = rows[r].start /\ rows'[r].early = rows[r].early
              /\ rows'[r] = rows[r] \/ r = callers[c].run
    BY <1>7, <2>3 DEF Record, JobRow
  <2>5. UNCHANGED <<start, sweeps>>
    BY <1>7 DEF Record, dayVars
  <2>6. \A r \in DOMAIN rows' : rows'[r].early = FALSE
    BY <2>4 DEF LiveInv
  <2> QED
    BY <2>1, <2>2, <2>4, <2>5, <2>6, LiveCallerStep
<1>8. CASE RecordFails(c)
  <2> DEFINE new == [callers[c] EXCEPT !.pc = "leave",
                        !.result = IF callers[c].result = "ok" THEN "lost" ELSE callers[c].result]
  <2>1. /\ new \in Caller /\ new.pc = "leave" /\ new.run = callers[c].run
        /\ callers' = [callers EXCEPT ![c] = new]
    BY <1>1, <1>8 DEF RecordFails, Caller, Stages
  <2>2. UNCHANGED <<start, sweeps, rows>> /\ Owner(c)
    BY <1>8 DEF RecordFails, dayVars, At, Running, LiveInv, Owner, OwnerStages
  <2> HIDE DEF new
  <2> QED
    BY <2>1, <2>2, LiveSilentStep
<1>9. CASE Leave(c)
  <2> DEFINE new == AfterRun(c, callers[c].result)
  <2>1. /\ new \in Caller /\ new.pc \in {"idle", "acquire", "mark_retries"}
        /\ new.run \in {0, callers[c].run} /\ (new.pc = "acquire" => new.run = 0)
    BY <1>1, AfterRunIsOutside, AfterRunOwns DEF Caller
  <2>2. /\ callers' = [callers EXCEPT ![c] = new] /\ UNCHANGED <<start, sweeps, rows>>
        /\ callers[c].run # 0 => Owner(c)
    BY <1>9 DEF Leave, dayVars, At, Owner, OwnerStages
  <2> HIDE DEF new
  <2> QED
    BY <2>1, <2>2, LiveSilentStep
<1>10. CASE MarkRetries(c)
  <2>1. callers' = [callers EXCEPT ![c] = Idle] /\ UNCHANGED <<start, sweeps>>
    BY <1>10 DEF MarkRetries, dayVars
  <2>2. CASE rows' = rows
    BY <2>1, <2>2, IdleIsCaller, LiveSilentStep DEF OwnerStages
  <2>3. CASE callers[c].run # 0 /\ rows' = [rows EXCEPT ![callers[c].run].status = "failed"]
    <3>1. Owner(c)
      BY <1>10, <2>3 DEF MarkRetries, At, Owner, OwnerStages
    <3>2. rows \in [DOMAIN rows -> JobRow]
      BY DEF JobsInv, JobsTypeOK
    <3>3. /\ DOMAIN rows' = DOMAIN rows
          /\ \A r \in DOMAIN rows :
                /\ rows'[r].start = rows[r].start /\ rows'[r].early = rows[r].early
                /\ rows'[r] = rows[r] \/ r = callers[c].run
      BY <2>3, <3>2 DEF JobRow
    <3>4. \A r \in DOMAIN rows' : rows'[r].early = FALSE
      BY <3>3 DEF LiveInv
    <3> QED
      BY <2>1, <3>1, <3>3, <3>4, IdleIsCaller, LiveCallerStep DEF OwnerStages
  <2> QED
    BY <1>10, <2>2, <2>3 DEF MarkRetries
<1> QED
  BY <1>2, <1>3, <1>4, <1>5, <1>6, <1>7, <1>8, <1>9, <1>10 DEF RunStep

LEMMA LiveSweepStep ==
  ASSUME JobsInv, LiveInv, NEW s \in Sweepers, SweepStep(s)
  PROVE  LiveInv'
<1>1. /\ sweeps \in [Sweepers -> Sweep] /\ rows \in [DOMAIN rows -> JobRow]
  BY DEF JobsInv, JobsTypeOK
<1>2. CASE SweepRead(s)
  BY <1>1, <1>2, LiveOtherStep DEF SweepRead, dayVars, LiveInv
<1>3. CASE SweepList(s)
  <2>1. \A r \in Stale(sweeps[s].ids) : r \in DOMAIN rows /\ rows[r].start < start
    BY DEF Stale, StartedEarlier, LiveInv
  <2> QED
    BY <1>1, <1>3, <2>1, LiveOtherStep DEF SweepList, dayVars, LiveInv
<1>4. CASE SweepWrite(s)
  <2>1. PICK r \in sweeps[s].ids :
            /\ rows' = [rows EXCEPT ![r].status = "failed"]
            /\ sweeps' = [sweeps EXCEPT ![s].ids = @ \ {r}]
    BY <1>4 DEF SweepWrite
  <2>2. r \in DOMAIN rows /\ rows[r].start < start
    BY <1>4 DEF SweepWrite, LiveInv
  <2>3. /\ DOMAIN rows' = DOMAIN rows
        /\ \A q \in DOMAIN rows :
              /\ rows'[q].start = rows[q].start /\ rows'[q].early = rows[q].early
              /\ rows'[q] = rows[q] \/ q = r
    BY <1>1, <2>1 DEF JobRow
  <2>4. UNCHANGED <<callers, start>>
    BY <1>4 DEF SweepWrite, dayVars
  <2>5. start \in Nat
    BY DEF JobsInv, JobsTypeOK
  <2>6. \A c \in Callers : Running(c) => callers[c].run \in DOMAIN rows /\ callers[c].run # r
    BY <2>2, <2>5 DEF LiveInv, Running, Owner, OwnerStages
  <2>7. \A c \in Callers : Running(c)' => /\ callers'[c].run # 0
                                          /\ rows'[callers'[c].run].status = "running"
                                          /\ rows'[callers'[c].run].start = start'
    BY <2>3, <2>4, <2>6 DEF LiveInv, Running
  <2>8. \A t \in Sweepers : sweeps'[t].pc = "write" =>
           \A q \in sweeps'[t].ids : q \in DOMAIN rows' /\ rows'[q].start < start'
    BY <1>1, <2>1, <2>3, <2>4 DEF LiveInv, Sweep
  <2>9. /\ \A c \in Callers : callers'[c].pc \in {"acquire", "insert"} => callers'[c].run = 0
        /\ \A c \in Callers : Owner(c)' => callers'[c].run \in DOMAIN rows'
        /\ \A c, d \in Callers : Owner(c)' /\ Owner(d)' /\ callers'[c].run = callers'[d].run => c = d
        /\ \A q \in DOMAIN rows' : rows'[q].early = FALSE
    BY <2>3, <2>4 DEF LiveInv, Owner
  <2> QED
    BY <2>7, <2>8, <2>9 DEF LiveInv
<1>5. CASE SweepDone(s)
  BY <1>1, <1>5, LiveOtherStep DEF SweepDone, dayVars, LiveInv
<1> QED
  BY <1>2, <1>3, <1>4, <1>5 DEF SweepStep

\* A caller that was idle, or whose process is gone, begins anew.
LEMMA LiveReset ==
  ASSUME LiveInv, rows' = rows,
         \A c \in Callers : \/ callers'[c] = callers[c] /\ start' = start
                            \/ callers'[c].run = 0 /\ callers'[c].pc \in {"idle", "acquire"},
         \A s \in Sweepers : sweeps'[s].pc # "write" \/ UNCHANGED <<sweeps, start>>
  PROVE  LiveInv'
<1>1. \A c \in Callers : Owner(c)' => Owner(c) /\ callers'[c] = callers[c]
  BY DEF Owner
<1>2. \A c \in Callers : Running(c)' =>
            Running(c) /\ callers'[c] = callers[c] /\ start' = start
  BY DEF Running
<1> QED
  BY <1>1, <1>2 DEF LiveInv

LEMMA LiveNext ==
  ASSUME JobsInv, LiveInv, ~ClockMayStepBack, [JobsNext]_jobsVars
  PROVE  LiveInv'
<1>1. /\ sweeps \in [Sweepers -> Sweep] /\ callers \in [Callers -> Caller]
  BY DEF JobsInv, JobsTypeOK
<1>2. \A job \in Jobs : Starting(job).run = 0 /\ Starting(job).pc = "acquire"
  BY DEF Starting
<1>3. CASE Poll
  BY <1>1, <1>3, LiveOtherStep DEF Poll, dayVars, LiveInv, Sweep
<1>4. CASE PlanCatchUp
  BY <1>1, <1>4, NoSweepIsSweep, LiveOtherStep DEF PlanCatchUp, dayVars, LiveInv
<1>5. ASSUME NEW job \in Jobs, RunPlanned(job) PROVE LiveInv'
  BY <1>1, <1>2, <1>5, LiveReset DEF RunPlanned, dayVars
<1>6. ASSUME NEW job \in Jobs, RunByHand(job) PROVE LiveInv'
  BY <1>1, <1>2, <1>6, LiveReset DEF RunByHand, dayVars
<1>7. CASE Tick
  BY <1>2, <1>7, LiveReset DEF Tick
<1>8. CASE Crash
  BY <1>8, IdleIsCaller, NoSweepIsSweep, LiveReset DEF Crash
<1>9. CASE StartProcess
  <2>1. /\ \A c \in Callers : callers'[c] = Idle
        /\ \A s \in Sweepers : sweeps[s] = NoSweep
    BY <1>9 DEF StartProcess, JobsInv, DownOK
  <2>2. \A s \in Sweepers : sweeps'[s].pc # "write"
    BY <1>1, <1>9, <2>1, NoSweepIsSweep DEF StartProcess, Sweep
  <2> QED
    BY <1>9, <2>1, <2>2, IdleIsCaller, LiveReset DEF StartProcess
<1>10. CASE UNCHANGED jobsVars
  BY <1>10, LiveOtherStep DEF jobsVars, LiveInv
<1> QED
  BY <1>3, <1>4, <1>5, <1>6, <1>7, <1>8, <1>9, <1>10, LiveRunStep, LiveSweepStep DEF JobsNext

\* A caller that does not move keeps its run.
LEMMA SameStageSameRun ==
  ASSUME JobsInv, [JobsNext]_jobsVars, NEW c \in Callers, Running(c), callers'[c].pc = callers[c].pc
  PROVE  callers'[c].run = callers[c].run
<1>1. callers \in [Callers -> Caller]
  BY DEF JobsInv, JobsTypeOK
<1>2. ASSUME NEW d \in Callers, RunStep(d)
      PROVE  callers'[c] = callers[c]
  <2>1. \A e \in Callers : e # d => callers'[e] = callers[e]
    BY <1>1, <1>2
    DEF RunStep, Acquire, InsertRow, InsertFails, MarkActive, Work, Record, RecordFails, Leave,
        MarkRetries, Move
  <2>2. d # c
    <3> SUFFICES ASSUME d = c PROVE FALSE
      OBVIOUS
    <3>1. MarkActive(c) \/ Work(c) \/ Record(c) \/ RecordFails(c)
      BY <1>2 DEF RunStep, Running, At, Acquire, InsertRow, InsertFails, Leave, MarkRetries
    <3>2. callers'[c].pc # callers[c].pc
      BY <1>1, <3>1 DEF MarkActive, Work, Record, RecordFails, At, Move, Caller
    <3> QED
      BY <3>2
  <2> QED
    BY <2>1, <2>2
<1>3. CASE \E s \in Sweepers : SweepStep(s)
  BY <1>3 DEF SweepStep, SweepRead, SweepList, SweepWrite, SweepDone
<1>4. CASE Poll \/ PlanCatchUp \/ StartProcess \/ UNCHANGED jobsVars
  BY <1>4 DEF Poll, PlanCatchUp, StartProcess, jobsVars
<1>5. ASSUME NEW job \in Jobs, RunPlanned(job) \/ RunByHand(job)
      PROVE  callers'[c] = callers[c]
  BY <1>1, <1>5, IdleIsCaller DEF RunPlanned, RunByHand, Running
<1>6. CASE Tick
  BY <1>6, IdleIsCaller DEF Tick, Running
<1>7. CASE Crash
  BY <1>7, IdleIsCaller DEF Crash, Running
<1> QED
  BY <1>2, <1>3, <1>4, <1>5, <1>6, <1>7 DEF JobsNext

(***************************************************************************)
(* While no row is stamped before the process that wrote it started, the   *)
(* sweep never ends the row of a run in progress, however stale the set of *)
(* active runs is that it decides on (the time stamp of                    *)
(* sweep_stale_running is enough; a clock that is stepped back breaks it). *)
(***************************************************************************)
THEOREM SweepSparesLiveRuns ==
  ASSUME ~ClockMayStepBack
  PROVE  JobsSpec => LiveRunsStay
<1>1. JobsInit => JobsInv /\ LiveInv
  BY InitJobsInv, InitLiveInv
<1>2. JobsInv /\ LiveInv /\ [JobsNext]_jobsVars => (JobsInv /\ LiveInv)'
  BY LiveNext, RunStepInv, SweepStepInv, PollInv, PlanCatchUpInv, RunPlannedInv,
     RunByHandInv, TickInv, CrashInv, StartProcessInv, StutterInv DEF JobsNext
<1>3. JobsInv /\ LiveInv /\ LiveInv' /\ [JobsNext]_jobsVars =>
        [\A c \in Callers : Running(c) /\ callers'[c].pc = callers[c].pc
            => rows'[callers[c].run].status = "running"]_jobsVars
  <2> SUFFICES ASSUME JobsInv, LiveInv', [JobsNext]_jobsVars, NEW c \in Callers, Running(c),
                      callers'[c].pc = callers[c].pc
               PROVE  rows'[callers[c].run].status = "running"
    OBVIOUS
  <2>1. callers'[c].run = callers[c].run
    BY SameStageSameRun
  <2>2. Running(c)'
    BY DEF Running
  <2> QED
    BY <2>1, <2>2 DEF LiveInv
<1> QED
  BY <1>1, <1>2, <1>3, PTL DEF JobsSpec, LiveRunsStay

-----------------------------------------------------------------------------
(* The catch-up.                                                           *)

Mine(r) == rows[r].source = CatchUp /\ rows[r].start = start

HoldsRow(c) == callers[c].pc \in {"mark", "work", "record", "leave"}

\* Every run writes its own row, and rows of later processes do not exist yet.
RowsOwned ==
    /\ \A r \in DOMAIN rows : rows[r].start <= start
    /\ \A c \in Callers : HoldsRow(c) => /\ rows[callers[c].run].source = Source(c)
                                         /\ rows[callers[c].run].start = start

\* What is planned comes after what this process has caught up; nothing has been caught up
\* before the plan, and nothing is planned behind a skipped snapshot.
PlanOK ==
    /\ sweeps[CatchUp].pc # "idle" => /\ plan = {} /\ callers[CatchUp].pc = "idle"
                                      /\ \A r \in DOMAIN rows : ~Mine(r)
    /\ \A j \in plan : /\ \A r \in DOMAIN rows : Mine(r) => FireTime[rows[r].job] < FireTime[j]
                       /\ callers[CatchUp].pc # "idle" =>
                              FireTime[callers[CatchUp].job] < FireTime[j]
    /\ \A r \in DOMAIN rows : Mine(r) /\ rows[r].skipped =>
           plan = {} \/ (callers[CatchUp].pc = "leave" /\ Skips(CatchUp))

\* The run in progress is the latest one of the catch-up.
HeadOK ==
    /\ callers[CatchUp].pc \in {"acquire", "insert"} =>
           \A r \in DOMAIN rows : Mine(r) =>
               FireTime[rows[r].job] < FireTime[callers[CatchUp].job] /\ ~rows[r].skipped
    /\ callers[CatchUp].pc \in {"mark", "work", "record"} =>
           \A r \in DOMAIN rows : Mine(r) => r <= callers[CatchUp].run /\ ~rows[r].skipped

OrderInv == RowsOwned /\ PlanOK /\ HeadOK /\ CatchUpInOrder

CatchUpRow(r) == r \in DOMAIN rows /\ rows[r].source = CatchUp

\* No row is added, and none changes what the order is about.
RowsKept ==
    /\ DOMAIN rows' = DOMAIN rows
    /\ \A r \in DOMAIN rows : /\ rows'[r].job = rows[r].job
                              /\ rows'[r].source = rows[r].source
                              /\ rows'[r].start = rows[r].start
                              /\ CatchUpRow(r) => rows'[r].skipped = rows[r].skipped

LEMMA NameOfCatchUp == CatchUp \notin Jobs /\ CatchUp \in Callers /\ CatchUp \in Sweepers
BY JobsAssumption DEF CatchUp, Callers, Sweepers

LEMMA SourceIsCatchUp ==
  ASSUME NEW c \in Callers, Source(c) = CatchUp
  PROVE  c = CatchUp
BY DEF Source, CatchUp

\* A step that leaves the catch-up's caller and plan alone.
LEMMA OrderElsewhere ==
  ASSUME JobsInv, OrderInv, RowsKept, UNCHANGED <<start, tradingDay, plan>>,
         callers'[CatchUp] = callers[CatchUp],
         \A c \in Callers : HoldsRow(c)' => HoldsRow(c) /\ callers'[c].run = callers[c].run,
         sweeps'[CatchUp].pc # "idle" => sweeps[CatchUp].pc # "idle"
  PROVE  OrderInv'
<1>1. \A c \in Callers : HoldsRow(c) => callers[c].run \in DOMAIN rows
  BY DEF HoldsRow, JobsInv, RunsOK, InsideStages
<1>2. RowsOwned'
  BY <1>1 DEF OrderInv, RowsOwned, RowsKept, HoldsRow
<1>3. PlanOK'
  BY DEF OrderInv, PlanOK, RowsKept, CatchUpRow, Mine, Skips
<1>4. HeadOK'
  BY DEF OrderInv, HeadOK, RowsKept, CatchUpRow, Mine
<1>5. CatchUpInOrder'
  BY DEF OrderInv, CatchUpInOrder, CaughtUp, RowsKept, CatchUpRow
<1> QED
  BY <1>2, <1>3, <1>4, <1>5 DEF OrderInv

\* A step of the catch-up's caller that adds no row, told by what it makes of the caller.
LEMMA OrderCatchUpStep ==
  ASSUME JobsInv, OrderInv, RowsKept, UNCHANGED <<start, tradingDay, sweeps>>,
         NEW new, callers' = [callers EXCEPT ![CatchUp] = new],
         callers[CatchUp].pc # "idle", new.pc # "acquire",
         new.pc # "idle" => new.job = callers[CatchUp].job,
         new.pc \in {"mark", "work", "record", "leave"} =>
             HoldsRow(CatchUp) /\ new.run = callers[CatchUp].run,
         new.pc = "insert" => callers[CatchUp].pc = "acquire",
         new.pc \in {"mark", "work", "record"} =>
             callers[CatchUp].pc \in {"mark", "work", "record"},
         plan' = plan \/ plan' = {},
         callers[CatchUp].pc = "leave" /\ Skips(CatchUp) => plan' = {}
  PROVE  OrderInv'
<1>1. \A c \in Callers : HoldsRow(c) => callers[c].run \in DOMAIN rows
  BY DEF HoldsRow, JobsInv, RunsOK, InsideStages
<1>2. /\ callers'[CatchUp] = new
      /\ \A c \in Callers \ {CatchUp} : callers'[c] = callers[c]
  BY NameOfCatchUp DEF JobsInv, JobsTypeOK
<1>3. RowsOwned'
  <2>1. \A c \in Callers : HoldsRow(c)' => HoldsRow(c) /\ callers'[c].run = callers[c].run
    BY <1>2 DEF HoldsRow
  <2> QED
    BY <1>1, <2>1 DEF OrderInv, RowsOwned, RowsKept, HoldsRow
<1>4. PlanOK'
  BY <1>2 DEF OrderInv, PlanOK, RowsKept, CatchUpRow, Mine
<1>5. HeadOK'
  BY <1>2 DEF OrderInv, HeadOK, RowsKept, CatchUpRow, Mine
<1>6. CatchUpInOrder'
  BY DEF OrderInv, CatchUpInOrder, CaughtUp, RowsKept, CatchUpRow
<1> QED
  BY <1>3, <1>4, <1>5, <1>6 DEF OrderInv

LEMMA OrderInsertRow ==
  ASSUME JobsInv, OrderInv, NEW c \in Callers, InsertRow(c)
  PROVE  OrderInv'
<1>1. PICK r \in 1 .. MaxRuns, early \in {FALSE, ClockMayStepBack} :
          /\ NextRunId(r)
          /\ rows' = [q \in DOMAIN rows \cup {r} |-> IF q = r THEN Row(c, early) ELSE rows[q]]
          /\ callers' = [callers EXCEPT ![c] = [@ EXCEPT !.pc = "mark", !.run = r]]
  BY DEF InsertRow
<1>2. /\ callers[c] \in Caller /\ callers[c].pc = "insert"
      /\ UNCHANGED <<start, tradingDay, sweeps, plan>>
  BY DEF InsertRow, At, dayVars, JobsInv, JobsTypeOK
<1>3. /\ callers'[c].pc = "mark" /\ callers'[c].run = r /\ callers'[c].job = callers[c].job
      /\ \A d \in Callers \ {c} : callers'[d] = callers[d]
  BY <1>1, <1>2 DEF JobsInv, JobsTypeOK, Caller
<1>4. /\ DOMAIN rows' = DOMAIN rows \cup {r}
      /\ \A q \in DOMAIN rows : q < r /\ rows'[q] = rows[q]
      /\ r \notin DOMAIN rows
  BY <1>1 DEF NextRunId, JobsInv, JobsTypeOK
<1>5. /\ rows'[r].source = Source(c) /\ rows'[r].start = start /\ ~rows'[r].skipped
      /\ rows'[r].job = callers[c].job
  BY <1>1 DEF Row
<1>6. DOMAIN rows \subseteq 1 .. MaxRuns /\ start \in 1 .. MaxStarts /\ plan \subseteq Jobs
  BY DEF JobsInv, JobsTypeOK
<1>7. RowsOwned'
  <2>1. \A q \in DOMAIN rows' : rows'[q].start <= start'
    BY <1>2, <1>4, <1>5, <1>6 DEF OrderInv, RowsOwned
  <2>2. \A d \in Callers : HoldsRow(d)' => /\ rows'[callers'[d].run].source = Source(d)
                                           /\ rows'[callers'[d].run].start = start'
    <3> SUFFICES ASSUME NEW d \in Callers, HoldsRow(d)'
                 PROVE  /\ rows'[callers'[d].run].source = Source(d)
                        /\ rows'[callers'[d].run].start = start'
      OBVIOUS
    <3>1. CASE d = c
      BY <1>2, <1>3, <1>5, <3>1
    <3>2. CASE d # c
      <4>1. HoldsRow(d) /\ callers'[d] = callers[d]
        BY <1>3, <3>2 DEF HoldsRow
      <4>2. callers[d].run \in DOMAIN rows
        BY <4>1 DEF HoldsRow, JobsInv, RunsOK, InsideStages
      <4> QED
        BY <1>2, <1>4, <4>1, <4>2 DEF OrderInv, RowsOwned
    <3> QED
      BY <3>1, <3>2
  <2> QED
    BY <2>1, <2>2 DEF RowsOwned
<1>8. CASE c = CatchUp
  <2>1. sweeps[CatchUp].pc = "idle"
    BY <1>2, <1>8 DEF OrderInv, PlanOK
  <2>2. \A q \in DOMAIN rows : Mine(q) =>
            FireTime[rows[q].job] < FireTime[callers[c].job] /\ ~rows[q].skipped
    BY <1>2, <1>8 DEF OrderInv, HeadOK
  <2>3. \A q \in DOMAIN rows : Mine(q)' <=> Mine(q)
    BY <1>2, <1>4 DEF Mine
  <2>4. PlanOK'
    <3>1. \A j \in plan : FireTime[callers[c].job] < FireTime[j]
      BY <1>2, <1>8 DEF OrderInv, PlanOK
    <3>2. \A j \in plan : \A q \in DOMAIN rows : Mine(q) => FireTime[rows[q].job] < FireTime[j]
      BY DEF OrderInv, PlanOK
    <3> QED
      BY <1>2, <1>3, <1>4, <1>5, <1>8, <2>1, <2>2, <2>3, <3>1, <3>2 DEF PlanOK
  <2>5. HeadOK'
    BY <1>3, <1>4, <1>5, <1>6, <1>8, <2>2, <2>3 DEF HeadOK
  <2>6. CatchUpInOrder'
    <3> SUFFICES ASSUME NEW q \in DOMAIN rows', NEW p \in DOMAIN rows', CaughtUp(q, p)'
                 PROVE  FireTime[rows'[q].job] < FireTime[rows'[p].job] /\ ~rows'[q].skipped
      BY DEF CatchUpInOrder
    <3>1. q \in DOMAIN rows
      BY <1>4, <1>6 DEF CaughtUp
    <3>2. CASE p = r
      <4>1. Mine(q)
        BY <1>4, <1>5, <3>1, <3>2 DEF CaughtUp, Mine
      <4> QED
        BY <1>4, <1>5, <2>2, <3>1, <3>2, <4>1
    <3>3. CASE p # r
      BY <1>4, <3>1, <3>3 DEF OrderInv, CatchUpInOrder, CaughtUp
    <3> QED
      BY <3>2, <3>3
  <2> QED
    BY <1>7, <2>4, <2>5, <2>6 DEF OrderInv
<1>9. CASE c # CatchUp
  <2>1. rows'[r].source # CatchUp /\ callers'[CatchUp] = callers[CatchUp]
    BY <1>3, <1>5, <1>9, SourceIsCatchUp, NameOfCatchUp
  <2>2. /\ \A q \in DOMAIN rows : Mine(q)' <=> Mine(q)
        /\ ~Mine(r)'
    BY <1>2, <1>4, <2>1 DEF Mine
  <2>3. PlanOK'
    BY <1>2, <1>4, <2>1, <2>2 DEF OrderInv, PlanOK, Skips
  <2>4. HeadOK'
    BY <1>2, <1>4, <2>1, <2>2 DEF OrderInv, HeadOK
  <2>5. CatchUpInOrder'
    BY <1>4, <2>1 DEF OrderInv, CatchUpInOrder, CaughtUp
  <2> QED
    BY <1>7, <2>3, <2>4, <2>5 DEF OrderInv
<1> QED
  BY <1>8, <1>9

LEMMA UnchangedIsKept ==
  ASSUME UNCHANGED rows
  PROVE  RowsKept
BY DEF RowsKept

\* Writing a status keeps what the order is about, and so does recording another run.
LEMMA StatusIsKept ==
  ASSUME JobsInv, NEW r, NEW end, rows' = [rows EXCEPT ![r].status = end]
  PROVE  RowsKept
BY DEF RowsKept, JobsInv, JobsTypeOK, JobRow

LEMMA OrderRunElsewhere ==
  ASSUME JobsInv, OrderInv, NEW c \in Callers, RunStep(c), c # CatchUp, ~InsertRow(c)
  PROVE  OrderInv'
<1>1. /\ callers'[CatchUp] = callers[CatchUp]
      /\ \A d \in Callers \ {c} : callers'[d] = callers[d]
      /\ UNCHANGED <<start, tradingDay, sweeps>>
  BY NameOfCatchUp DEF RunStep, Acquire, InsertFails, MarkActive, Work, Record, RecordFails,
     Leave, MarkRetries, Move, dayVars, JobsInv, JobsTypeOK
<1>2. plan' = plan
  BY DEF RunStep, Acquire, InsertFails, MarkActive, Work, Record, RecordFails, Leave, MarkRetries
<1>3. callers[c] \in Caller /\ callers \in [Callers -> Caller]
  BY DEF JobsInv, JobsTypeOK
<1>4. HoldsRow(c)' => HoldsRow(c) /\ callers'[c].run = callers[c].run
  <2>1. CASE Acquire(c)
    BY <1>3, <2>1, IdleIsCaller DEF Acquire, Move, HoldsRow, Caller
  <2>2. CASE InsertFails(c) \/ Leave(c)
    <3>1. callers[c].result \in {"none", "ok", "failed", "lost"}
      BY <1>3 DEF Caller
    <3>2. callers'[c].pc \in {"idle", "acquire", "mark_retries"}
      BY <1>3, <2>2, <3>1, AfterRunIsOutside DEF InsertFails, Leave
    <3> QED
      BY <3>2 DEF HoldsRow
  <2>3. CASE MarkActive(c) \/ Work(c) \/ Record(c) \/ RecordFails(c)
    BY <1>3, <2>3 DEF MarkActive, Work, Record, RecordFails, At, Move, HoldsRow, Caller
  <2>4. CASE MarkRetries(c)
    BY <1>3, <2>4, IdleIsCaller DEF MarkRetries, HoldsRow
  <2> QED
    BY <2>1, <2>2, <2>3, <2>4 DEF RunStep
<1>5. RowsKept
  <2>1. CASE Record(c)
    <3>1. /\ callers[c].run \in DOMAIN rows
          /\ rows[callers[c].run].source # CatchUp
      BY <2>1, SourceIsCatchUp
      DEF Record, At, HoldsRow, OrderInv, RowsOwned, JobsInv, RunsOK, InsideStages
    <3> QED
      BY <2>1, <3>1 DEF Record, RowsKept, CatchUpRow, JobsInv, JobsTypeOK, JobRow
  <2>2. CASE MarkRetries(c)
    BY <2>2, StatusIsKept, UnchangedIsKept DEF MarkRetries
  <2>3. CASE UNCHANGED rows
    BY <2>3, UnchangedIsKept
  <2> QED
    BY <2>1, <2>2, <2>3
    DEF RunStep, Acquire, InsertFails, MarkActive, Work, RecordFails, Leave
<1>6. \A d \in Callers : HoldsRow(d)' => HoldsRow(d) /\ callers'[d].run = callers[d].run
  <2> SUFFICES ASSUME NEW d \in Callers, HoldsRow(d)'
               PROVE  HoldsRow(d) /\ callers'[d].run = callers[d].run
    OBVIOUS
  <2>1. CASE d = c
    BY <1>4, <2>1
  <2>2. CASE d # c
    BY <1>1, <2>2 DEF HoldsRow
  <2> QED
    BY <2>1, <2>2
<1> QED
  BY <1>1, <1>2, <1>5, <1>6, OrderElsewhere

LEMMA OrderRecord ==
  ASSUME JobsInv, OrderInv, Record(CatchUp)
  PROVE  OrderInv'
<1> DEFINE c == CatchUp
           row == callers[CatchUp].run
<1>1. /\ callers[c] \in Caller /\ callers[c].pc = "record" /\ c \in Callers
      /\ row \in DOMAIN rows /\ Mine(row)
      /\ UNCHANGED <<start, tradingDay, sweeps, plan>>
  BY NameOfCatchUp DEF Record, At, dayVars, JobsInv, JobsTypeOK, RunsOK, InsideStages,
     OrderInv, RowsOwned, HoldsRow, Source, Mine
<1>2. /\ callers'[c].pc = "leave" /\ callers'[c].run = row /\ callers'[c].job = callers[c].job
      /\ callers'[c].result = callers[c].result
      /\ \A d \in Callers \ {c} : callers'[d] = callers[d]
  BY <1>1 DEF Record, Move, JobsInv, JobsTypeOK, Caller
<1>3. /\ DOMAIN rows' = DOMAIN rows
      /\ \A r \in DOMAIN rows : /\ rows'[r].job = rows[r].job
                                /\ rows'[r].source = rows[r].source
                                /\ rows'[r].start = rows[r].start
                                /\ r # row => rows'[r].skipped = rows[r].skipped
      /\ rows'[row].skipped = Skips(c)
  BY <1>1 DEF Record, JobsInv, JobsTypeOK, JobRow
<1>4. /\ \A r \in DOMAIN rows : Mine(r) => r <= row /\ ~rows[r].skipped
      /\ \A r \in DOMAIN rows : Mine(r)' <=> Mine(r)
  BY <1>1, <1>3 DEF OrderInv, HeadOK, Mine
<1>5. RowsOwned'
  <2>1. \A d \in Callers : HoldsRow(d)' => HoldsRow(d) /\ callers'[d].run = callers[d].run
    BY <1>1, <1>2 DEF HoldsRow
  <2>2. \A d \in Callers : HoldsRow(d) => callers[d].run \in DOMAIN rows
    BY DEF HoldsRow, JobsInv, RunsOK, InsideStages
  <2> QED
    BY <1>1, <1>3, <2>1, <2>2 DEF OrderInv, RowsOwned
<1>6. PlanOK'
  <2>1. Skips(c)' <=> Skips(c)
    BY <1>1, <1>2 DEF Skips
  <2> QED
    BY <1>1, <1>2, <1>3, <1>4, <2>1 DEF OrderInv, PlanOK
<1>7. HeadOK'
  BY <1>2 DEF HeadOK
<1>8. CatchUpInOrder'
  <2> SUFFICES ASSUME NEW q \in DOMAIN rows, NEW p \in DOMAIN rows, CaughtUp(q, p)'
               PROVE  FireTime[rows'[q].job] < FireTime[rows'[p].job] /\ ~rows'[q].skipped
    BY <1>3 DEF CatchUpInOrder
  <2>1. CaughtUp(q, p)
    BY <1>3 DEF CaughtUp
  <2>2. q # row
    <3> SUFFICES ASSUME q = row PROVE FALSE
      OBVIOUS
    <3>1. Mine(p) /\ q < p
      BY <1>1, <2>1 DEF CaughtUp, Mine
    <3>2. p \in Nat /\ q \in Nat
      BY DEF JobsInv, JobsTypeOK
    <3> QED
      BY <1>4, <3>1, <3>2
  <2> QED
    BY <1>3, <2>1, <2>2 DEF OrderInv, CatchUpInOrder
<1> QED
  BY <1>5, <1>6, <1>7, <1>8 DEF OrderInv

LEMMA OrderCatchUpRun ==
  ASSUME JobsInv, OrderInv, RunStep(CatchUp), ~InsertRow(CatchUp), ~Record(CatchUp)
  PROVE  OrderInv'
<1> DEFINE c == CatchUp
<1>1. /\ c \in Callers /\ c \notin Jobs /\ callers[c] \in Caller
      /\ callers \in [Callers -> Caller]
  BY NameOfCatchUp DEF JobsInv, JobsTypeOK
<1>2. \A result : result = "ok" \/ c \notin Jobs => AfterRun(c, result) = Idle
  BY DEF AfterRun
<1>3. UNCHANGED <<start, tradingDay, sweeps>>
  BY DEF RunStep, Acquire, InsertFails, MarkActive, Work, RecordFails, Leave, MarkRetries,
     dayVars
<1>4. CASE callers' = [callers EXCEPT ![c] = Idle] /\ UNCHANGED plan /\ RowsKept
           /\ callers[c].pc \notin {"idle", "leave"}
  BY <1>3, <1>4, IdleIsCaller, OrderCatchUpStep
<1>5. CASE Acquire(c)
  <2>1. CASE Move(c, "insert")
    <3> DEFINE new == [callers[c] EXCEPT !.pc = "insert"]
    <3>1. new.pc = "insert" /\ new.job = callers[c].job
      BY <1>1 DEF Caller
    <3> HIDE DEF new
    <3>2. callers' = [callers EXCEPT ![c] = new]
      BY <1>1, <2>1 DEF new, Move
    <3> QED
      BY <1>3, <1>5, <3>1, <3>2, UnchangedIsKept, OrderCatchUpStep DEF Acquire, At
  <2> QED
    BY <1>4, <1>5, <2>1, UnchangedIsKept DEF Acquire, At
<1>6. CASE InsertFails(c)
  BY <1>1, <1>2, <1>4, <1>6, UnchangedIsKept DEF InsertFails, At
<1>7. CASE MarkActive(c)
  <2> DEFINE new == [callers[c] EXCEPT !.pc = "work"]
  <2>1. new.pc = "work" /\ new.job = callers[c].job /\ new.run = callers[c].run
    BY <1>1 DEF Caller
  <2> HIDE DEF new
  <2>2. callers' = [callers EXCEPT ![c] = new]
    BY <1>1, <1>7 DEF new, MarkActive, Move
  <2> QED
    BY <1>3, <1>7, <2>1, <2>2, UnchangedIsKept, OrderCatchUpStep DEF MarkActive, At, HoldsRow
<1>8. CASE Work(c)
  <2>1. PICK result \in {"ok", "failed"} :
            callers' = [callers EXCEPT ![c].pc = "record", ![c].result = result]
    BY <1>8 DEF Work
  <2> DEFINE new == [callers[c] EXCEPT !.pc = "record", !.result = result]
  <2>2. new.pc = "record" /\ new.job = callers[c].job /\ new.run = callers[c].run
    BY <1>1 DEF Caller
  <2> HIDE DEF new
  <2>3. callers' = [callers EXCEPT ![c] = new]
    BY <1>1, <2>1 DEF new
  <2> QED
    BY <1>3, <1>8, <2>2, <2>3, UnchangedIsKept, OrderCatchUpStep DEF Work, At, HoldsRow
<1>9. CASE RecordFails(c)
  <2> DEFINE result == IF callers[c].result = "ok" THEN "lost" ELSE callers[c].result
             new == [callers[c] EXCEPT !.pc = "leave", !.result = result]
  <2>1. new.pc = "leave" /\ new.job = callers[c].job /\ new.run = callers[c].run
    BY <1>1 DEF Caller
  <2>2. callers' = [callers EXCEPT ![c] = new]
    BY <1>1, <1>9 DEF RecordFails
  <2> HIDE DEF new
  <2> QED
    BY <1>3, <1>9, <2>1, <2>2, UnchangedIsKept, OrderCatchUpStep DEF RecordFails, At, HoldsRow
<1>10. CASE Leave(c)
  <2>1. callers' = [callers EXCEPT ![c] = Idle] /\ callers[c].pc = "leave"
    BY <1>1, <1>2, <1>10 DEF Leave, At
  <2> QED
    BY <1>3, <1>10, <2>1, IdleIsCaller, UnchangedIsKept, OrderCatchUpStep DEF Leave
<1>11. CASE MarkRetries(c)
  BY <1>4, <1>11, StatusIsKept, UnchangedIsKept DEF MarkRetries, At
<1> QED
  BY <1>5, <1>6, <1>7, <1>8, <1>9, <1>10, <1>11 DEF RunStep

LEMMA OrderSweepStep ==
  ASSUME JobsInv, OrderInv, NEW s \in Sweepers, SweepStep(s)
  PROVE  OrderInv'
<1>1. UNCHANGED <<start, tradingDay, plan, callers>>
  BY DEF SweepStep, SweepRead, SweepList, SweepWrite, SweepDone, dayVars
<1>2. RowsKept
  <2>1. CASE SweepWrite(s)
    BY <2>1, StatusIsKept DEF SweepWrite
  <2> QED
    BY <2>1, UnchangedIsKept DEF SweepStep, SweepRead, SweepList, SweepDone
<1>3. sweeps \in [Sweepers -> Sweep] /\ sweeps[s].pc # "idle"
  BY DEF SweepStep, SweepRead, SweepList, SweepWrite, SweepDone, JobsInv, JobsTypeOK
<1>4. sweeps'[CatchUp].pc # "idle" => sweeps[CatchUp].pc # "idle"
  <2>1. \A t \in Sweepers \ {s} : sweeps'[t] = sweeps[t]
    BY <1>3 DEF SweepStep, SweepRead, SweepList, SweepWrite, SweepDone
  <2> QED
    BY <1>3, <2>1, NameOfCatchUp
<1> QED
  BY <1>1, <1>2, <1>4, OrderElsewhere DEF HoldsRow

LEMMA OrderPlan ==
  ASSUME JobsInv, OrderInv, PlanCatchUp
  PROVE  OrderInv'
<1>1. /\ plan = {} /\ callers[CatchUp].pc = "idle" /\ \A r \in DOMAIN rows : ~Mine(r)
      /\ UNCHANGED <<start, tradingDay, rows, callers>>
  BY DEF PlanCatchUp, OrderInv, PlanOK, dayVars
<1>2. sweeps'[CatchUp].pc = "idle"
  BY NameOfCatchUp, NoSweepIsSweep DEF PlanCatchUp, JobsInv, JobsTypeOK
<1>3. RowsOwned' /\ HeadOK' /\ CatchUpInOrder'
  BY <1>1 DEF OrderInv, RowsOwned, HoldsRow, HeadOK, CatchUpInOrder, CaughtUp
<1>4. PlanOK'
  BY <1>1, <1>2 DEF PlanOK, Mine
<1> QED
  BY <1>3, <1>4 DEF OrderInv

LEMMA OrderRunPlanned ==
  ASSUME JobsInv, OrderInv, NEW job \in Jobs, RunPlanned(job)
  PROVE  OrderInv'
<1>1. /\ job \in plan /\ plan' = plan \ {job} /\ callers[CatchUp].pc = "idle"
      /\ UNCHANGED <<start, tradingDay, rows, sweeps>>
  BY IdleIsCaller DEF RunPlanned, NextPlanned, dayVars
<1>2. /\ callers'[CatchUp].pc = "acquire" /\ callers'[CatchUp].job = job
      /\ \A c \in Callers \ {CatchUp} : callers'[c] = callers[c]
  BY NameOfCatchUp DEF RunPlanned, Starting, JobsInv, JobsTypeOK
<1>3. \A j \in plan' : FireTime[job] < FireTime[j]
  <2> SUFFICES ASSUME NEW j \in plan' PROVE FireTime[job] < FireTime[j]
    OBVIOUS
  <2>1. j \in Jobs /\ j # job /\ FireTime[j] \in Nat /\ FireTime[job] \in Nat
    BY <1>1, JobsAssumption DEF JobsInv, JobsTypeOK
  <2>2. FireTime[j] # FireTime[job] /\ ~(FireTime[j] < FireTime[job])
    BY <1>1, <2>1, JobsAssumption DEF RunPlanned, NextPlanned, Earlier
  <2> QED
    BY <2>1, <2>2
<1>4. \A r \in DOMAIN rows : Mine(r) => FireTime[rows[r].job] < FireTime[job] /\ ~rows[r].skipped
  BY <1>1 DEF OrderInv, PlanOK
<1>5. RowsOwned'
  BY <1>1, <1>2 DEF OrderInv, RowsOwned, HoldsRow
<1>6. PlanOK'
  BY <1>1, <1>2, <1>3, <1>4 DEF OrderInv, PlanOK, Mine
<1>7. HeadOK'
  BY <1>1, <1>2, <1>4 DEF HeadOK, Mine
<1>8. CatchUpInOrder'
  BY <1>1 DEF OrderInv, CatchUpInOrder, CaughtUp
<1> QED
  BY <1>5, <1>6, <1>7, <1>8 DEF OrderInv

\* The clock, the operator and a poll only start other callers.
LEMMA OrderOutside ==
  ASSUME JobsInv, OrderInv, Tick \/ Poll \/ \E job \in Jobs : RunByHand(job)
  PROVE  OrderInv'
<1>1. UNCHANGED <<start, tradingDay, plan, rows>>
  BY DEF Tick, Poll, RunByHand, dayVars
<1>2. \A c \in Callers : callers'[c] = callers[c] \/ (c # CatchUp /\ callers'[c].pc = "acquire")
  BY NameOfCatchUp, StartingIsCaller
  DEF Tick, Poll, RunByHand, CatchUp, Manual, JobsInv, JobsTypeOK
<1>3. sweeps'[CatchUp].pc # "idle" => sweeps[CatchUp].pc # "idle"
  BY NameOfCatchUp DEF Tick, Poll, RunByHand, CatchUp, JobsInv, JobsTypeOK
<1> QED
  BY <1>1, <1>2, <1>3, UnchangedIsKept, OrderElsewhere, NameOfCatchUp DEF HoldsRow

LEMMA OrderProcess ==
  ASSUME JobsInv, OrderInv, Crash \/ StartProcess
  PROVE  OrderInv'
<1>1. \A c \in Callers : callers'[c].pc = "idle"
  BY IdleIsCaller DEF Crash, StartProcess, JobsInv, DownOK
<1>2. plan' = {} /\ UNCHANGED <<rows, tradingDay>>
  BY DEF Crash, StartProcess, JobsInv, DownOK
<1>3. start \in Nat /\ \A r \in DOMAIN rows : rows[r].start \in Nat /\ rows[r].start <= start
  BY DEF JobsInv, JobsTypeOK, JobRow, OrderInv, RowsOwned
<1>4. start' = start \/ start' = start + 1
  BY DEF Crash, StartProcess
<1>5. RowsOwned'
  BY <1>1, <1>2, <1>3, <1>4 DEF RowsOwned, HoldsRow
<1>6. PlanOK'
  <2>1. CASE Crash
    BY <1>1, <1>2, <2>1, NameOfCatchUp, NoSweepIsSweep DEF Crash, PlanOK
  <2>2. CASE StartProcess
    <3>1. \A r \in DOMAIN rows : rows[r].start # start'
      BY <1>3, <2>2 DEF StartProcess
    <3> QED
      BY <1>1, <1>2, <3>1, NameOfCatchUp DEF PlanOK, Mine
  <2> QED
    BY <2>1, <2>2
<1>7. HeadOK'
  BY <1>1, NameOfCatchUp DEF HeadOK
<1>8. CatchUpInOrder'
  BY <1>2 DEF OrderInv, CatchUpInOrder, CaughtUp
<1> QED
  BY <1>5, <1>6, <1>7, <1>8 DEF OrderInv

LEMMA InitOrderInv ==
  ASSUME JobsInit
  PROVE  OrderInv
<1>1. rows = << >> /\ DOMAIN rows = {} /\ plan = {}
  BY DEF JobsInit
<1>2. callers[CatchUp].pc = "idle" /\ \A c \in Callers : callers[c].pc = "idle"
  BY NameOfCatchUp, IdleIsCaller DEF JobsInit
<1> QED
  BY <1>1, <1>2 DEF OrderInv, RowsOwned, HoldsRow, PlanOK, HeadOK, CatchUpInOrder

(***************************************************************************)
(* What a process catches up, it catches up in the order of the day and    *)
(* once, and nothing behind a snapshot that it finds skipped               *)
(* (run_catch_up), for any jobs, whoever else runs them, whatever write of *)
(* the history fails, and over any number of restarts.                     *)
(***************************************************************************)
THEOREM CatchesUpInOrder == JobsSpec => []CatchUpInOrder
<1>1. JobsInit => JobsInv /\ OrderInv
  BY InitJobsInv, InitOrderInv
<1>2. JobsInv /\ OrderInv /\ [JobsNext]_jobsVars => (JobsInv /\ OrderInv)'
  <2> SUFFICES ASSUME JobsInv, OrderInv, [JobsNext]_jobsVars PROVE JobsInv' /\ OrderInv'
    OBVIOUS
  <2>1. JobsInv'
    BY RunStepInv, SweepStepInv, PollInv, PlanCatchUpInv, RunPlannedInv, RunByHandInv,
       TickInv, CrashInv, StartProcessInv, StutterInv DEF JobsNext
  <2>2. OrderInv'
    <3>1. ASSUME NEW c \in Callers, RunStep(c) PROVE OrderInv'
      BY <3>1, OrderInsertRow, OrderRecord, OrderCatchUpRun, OrderRunElsewhere
    <3>2. CASE UNCHANGED jobsVars
      BY <3>2, UnchangedIsKept, OrderElsewhere DEF jobsVars, HoldsRow
    <3> QED
      BY <3>1, <3>2, OrderSweepStep, OrderPlan, OrderRunPlanned, OrderOutside, OrderProcess
      DEF JobsNext
  <2> QED
    BY <2>1, <2>2
<1>3. OrderInv => CatchUpInOrder
  BY DEF OrderInv
<1> QED
  BY <1>1, <1>2, <1>3, PTL DEF JobsSpec
=============================================================================
