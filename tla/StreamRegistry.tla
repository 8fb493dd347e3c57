--------------------------- MODULE StreamRegistry ---------------------------
(***************************************************************************)
(* The event stream of one chat session (stream_registry.py, the journal   *)
(* of session_store.py, the chat task of api.py): a background task writes *)
(* every event to the journal and then hands it to the queues of the       *)
(* connected clients; a client reads the journal from its cursor and goes  *)
(* on with its queue.                                                      *)
(*                                                                         *)
(* Tasks and clients are coroutines of one event loop: what a coroutine    *)
(* does between two awaits is one step.  Blocking calls go to worker       *)
(* threads (asyncio.to_thread).  A cancel wakes the task at once, but the  *)
(* call it waited for is not undone: it is dropped if no thread had taken  *)
(* it, and otherwise goes on by itself (`detached`).                       *)
(*                                                                         *)
(* A stage of the task names what it waits for.  Runs are numbered, and a  *)
(* run's SessionStream goes by its number.                                 *)
(***************************************************************************)
EXTENDS Naturals, Sequences, FiniteSets

CONSTANTS
    Clients,              \* connections that follow the session
    SUBSCRIBER_QUEUE_MAX, \* capacity of a client's queue (256)
    JournalMayFail,       \* whether append_session_event may raise
    MaxRuns, MaxTokens    \* bounds: runs of the session, events of a run

ASSUME StreamAssumption ==
    /\ SUBSCRIBER_QUEUE_MAX \in Nat \ {0}
    /\ JournalMayFail \in BOOLEAN
    /\ MaxRuns \in Nat /\ MaxTokens \in Nat

VARIABLES
    journal,    \* session_events: row i has seq i
    status,     \* sessions.status
    task,       \* the latest run: its number, its stage, the seq it has just written
    terminal,   \* terminalPublished of its stream
    lastSeq,    \* lastSeq of every run's stream
    detached,   \* calls in worker threads that nobody waits for any more
    lost,       \* history: rows whose publisher was gone before it could fan out
    clients

serverVars == <<journal, status, task, terminal, lastSeq, detached, lost>>
streamVars == <<serverVars, clients>>

Terminals == {"done", "error", "interrupted"}
Runs == 1 .. MaxRuns

\* What a stage writes: a status of the session, or an event of the journal.
StatusOf == [starting |-> "running", completing |-> "completed",
             failing |-> "failed", interrupting |-> "interrupted"]
EventOf == [token |-> "token", done |-> "done", error |-> "error",
            auto_done |-> "done", auto_error |-> "error"]
Stages == DOMAIN StatusOf \cup DOMAIN EventOf \cup {"over", "created", "generating"}

Gone == [pc |-> "gone", run |-> 0, after |-> 0, upto |-> 0, queue |-> << >>, got |-> {},
         slow |-> FALSE]

StreamInit ==
    /\ journal = << >>
    /\ status = "completed"
    /\ task = [run |-> 0, stage |-> "over", seq |-> 0]
    /\ terminal = FALSE
    /\ lastSeq = [r \in Runs |-> 0]
    /\ detached = {}
    /\ lost = {}
    /\ clients = [c \in Clients |-> Gone]

Active == task.stage # "over"

-----------------------------------------------------------------------------
(* Fan-out: an event (its seq) or the end (0) for every queue of a stream. *)

EndOfStream == 0

Listens(client, r) == client.run = r /\ client.pc \in {"replay", "catch_up", "live"}

\* Mutant of Put: a client that missed an event stays on the list.
PutStaysListed(client, item) ==
    IF Len(client.queue) < SUBSCRIBER_QUEUE_MAX
    THEN [client EXCEPT !.queue = Append(@, item)]
    ELSE [client EXCEPT !.slow = TRUE]

\* A client whose queue is full is taken off the list; the None that should
\* tell it so does not fit either.
Put(client, item) ==
    IF client.slow THEN client
    ELSE IF Len(client.queue) < SUBSCRIBER_QUEUE_MAX
         THEN [client EXCEPT !.queue = Append(@, item)]
    ELSE [client EXCEPT !.slow = TRUE]

Offer(table, r, item) ==
    [c \in Clients |-> IF Listens(table[c], r) THEN Put(table[c], item) ELSE table[c]]

-----------------------------------------------------------------------------
(* The task: _run_chat_task inside _run_task.                              *)

Enter(stage) == task' = [task EXCEPT !.stage = stage, !.seq = 0]

\* registry.start: refused while a task is active (409 session_busy).
Start ==
    /\ ~Active
    /\ task.run < MaxRuns
    /\ task' = [run |-> task.run + 1, stage |-> "created", seq |-> 0]
    /\ terminal' = FALSE
    /\ UNCHANGED <<journal, status, lastSeq, detached, lost, clients>>

FirstStep ==
    /\ task.stage = "created"
    /\ Enter("starting")
    /\ UNCHANGED <<journal, status, terminal, lastSeq, detached, lost, clients>>

\* Mutant of Marked: every terminal event passes.
NeverMarked == FALSE

\* _try_mark_terminal: the first terminal event of a run is let through.
Marked == terminal

\* _notify_and_cleanup in the finally of _run_task.
RunOver(table) ==
    /\ Enter("over")
    /\ clients' = Offer(table, task.run, EndOfStream)

\* A terminal event is published at `stage` unless the run already has one.
PublishTerminal(stage, table) ==
    IF Marked
    THEN RunOver(table) /\ UNCHANGED terminal
    ELSE /\ Enter(stage)
         /\ terminal' = TRUE
         /\ clients' = table

\* _publish_sync in the CancelledError branch, which no await interrupts.
InterruptRun ==
    /\ \/ /\ ~Marked
          /\ journal' = Append(journal, [run |-> task.run, type |-> "interrupted"])
          /\ lastSeq' = [lastSeq EXCEPT ![task.run] = Len(journal) + 1]
          /\ RunOver(Offer(clients, task.run, Len(journal) + 1))
       \/ /\ Marked \/ JournalMayFail
          /\ RunOver(clients)
          /\ UNCHANGED <<journal, lastSeq>>
    /\ terminal' = TRUE

\* update_session_status returns, and the task goes on.
WriteStatus ==
    /\ task.stage \in DOMAIN StatusOf
    /\ status' = StatusOf[task.stage]
    /\ CASE task.stage = "starting" ->
              /\ Enter("generating")
              /\ UNCHANGED <<journal, terminal, lastSeq, clients>>
         [] task.stage = "completing" ->
              PublishTerminal("done", clients) /\ UNCHANGED <<journal, lastSeq>>
         [] task.stage = "failing" ->
              PublishTerminal("error", clients) /\ UNCHANGED <<journal, lastSeq>>
         [] task.stage = "interrupting" -> InterruptRun
    /\ UNCHANGED <<detached, lost>>

TokensOf(r) == {i \in DOMAIN journal : journal[i] = [run |-> r, type |-> "token"]}

\* The agent yields an event, ends, or raises.
Generate ==
    /\ task.stage = "generating"
    /\ \/ Cardinality(TokensOf(task.run)) < MaxTokens /\ Enter("token")
       \/ Enter("completing")
       \/ Enter("failing")
    /\ UNCHANGED <<journal, status, terminal, lastSeq, detached, lost, clients>>

\* append_session_event commits: MAX(seq) + 1 in one statement.
Commit ==
    /\ task.stage \in DOMAIN EventOf
    /\ task.seq = 0
    /\ journal' = Append(journal, [run |-> task.run, type |-> EventOf[task.stage]])
    /\ task' = [task EXCEPT !.seq = Len(journal) + 1]
    /\ UNCHANGED <<status, terminal, lastSeq, detached, lost, clients>>

\* It raises, for a terminal event five times: publish_terminal releases the mark,
\* and the exception of the run goes its way up to _run_task.
CommitFails ==
    /\ JournalMayFail
    /\ task.stage \in DOMAIN EventOf
    /\ task.seq = 0
    /\ CASE task.stage = "token" -> Enter("failing") /\ UNCHANGED <<terminal, clients>>
         [] task.stage = "done" ->
              Enter("failing") /\ terminal' = FALSE /\ UNCHANGED clients
         [] task.stage = "error" ->
              Enter("auto_error") /\ UNCHANGED <<terminal, clients>>
         [] OTHER -> RunOver(clients) /\ UNCHANGED terminal
    /\ UNCHANGED <<journal, status, lastSeq, detached, lost>>

\* The task wakes up after the commit and fans the event out; the events of
\* _run_task come after those of the chat task.
FanOut ==
    /\ task.seq # 0
    /\ lastSeq' = [lastSeq EXCEPT ![task.run] = task.seq]
    /\ LET after == Offer(clients, task.run, task.seq)
       IN  CASE task.stage = "token" ->
                  Enter("generating") /\ clients' = after /\ UNCHANGED terminal
             [] task.stage = "done" -> PublishTerminal("auto_done", after)
             [] task.stage = "error" -> PublishTerminal("auto_error", after)
             [] OTHER -> RunOver(after) /\ UNCHANGED terminal
    /\ UNCHANGED <<journal, status, detached, lost>>

-----------------------------------------------------------------------------
(* Cancel: task.cancel() and the CancelledError at the task's next step.   *)

Call == [run |-> task.run, stage |-> task.stage]
Waiting == /\ task.stage \in DOMAIN StatusOf \cup DOMAIN EventOf
           /\ task.seq = 0

\* The call in a worker thread goes on or never begins; a row that is written
\* already is not fanned out.
Abandon ==
    /\ detached' \in (IF Waiting THEN {detached, detached \cup {Call}} ELSE {detached})
    /\ lost' = IF task.seq # 0 THEN lost \cup {task.seq} ELSE lost

\* The except CancelledError of _run_chat_task covers its try block only; a
\* task that has not begun never reaches any handler.
Cancel ==
    /\ Active
    /\ Abandon
    /\ CASE task.stage = "created" ->
              /\ Enter("over")
              /\ UNCHANGED <<journal, terminal, lastSeq, clients>>
         [] task.stage \in {"starting", "generating", "token", "completing", "done"} ->
              /\ Enter("interrupting")
              /\ UNCHANGED <<journal, terminal, lastSeq, clients>>
         [] task.stage \in {"failing", "error", "interrupting"} -> InterruptRun
         [] OTHER -> RunOver(clients) /\ UNCHANGED <<journal, terminal, lastSeq>>
    /\ UNCHANGED status

\* A detached call comes to its end.
FinishDetached(call) ==
    /\ call \in detached
    /\ detached' = detached \ {call}
    /\ IF call.stage \in DOMAIN StatusOf
       THEN status' = StatusOf[call.stage] /\ UNCHANGED <<journal, lost>>
       ELSE /\ journal' = Append(journal, [run |-> call.run, type |-> EventOf[call.stage]])
            /\ lost' = lost \cup {Len(journal) + 1}
            /\ UNCHANGED status
    /\ UNCHANGED <<task, terminal, lastSeq, clients>>

\* The process dies and starts again: the tables stay, a running session is
\* marked interrupted.
Restart ==
    /\ status' = IF status = "running" THEN "interrupted" ELSE status
    /\ Enter("over")
    /\ detached' = {}
    /\ lost' = IF task.seq # 0 THEN lost \cup {task.seq} ELSE lost
    /\ clients' = [c \in Clients |-> Gone]
    /\ UNCHANGED <<journal, terminal, lastSeq>>

-----------------------------------------------------------------------------
(* The clients: the generator `subscribe`.                                 *)

Update(c, client) == clients' = [clients EXCEPT ![c] = client] /\ UNCHANGED serverVars

\* The queue is registered before the journal is read.
Subscribe(c, after) ==
    /\ clients[c] = Gone
    /\ Update(c, [Gone EXCEPT !.pc = "replay", !.after = after, !.upto = after,
                              !.run = IF Active THEN task.run ELSE 0])

\* Mutant of Replay: a terminal event of an earlier run ends the stream.
ReplayUntilTerminal(c) ==
    /\ clients[c].pc = "replay"
    /\ LET me == clients[c]
           new == me.upto + 1 .. Len(journal)
       IN  Update(c, [me EXCEPT !.got = @ \cup new, !.upto = Len(journal),
                                !.pc = IF me.run = 0 \/ \E i \in new : journal[i].type \in Terminals
                                       THEN "ended" ELSE "catch_up"])

\* Terminal events of the journal do not end the stream; without a run to
\* follow it ends after the replay.
Replay(c) ==
    /\ clients[c].pc = "replay"
    /\ LET me == clients[c]
       IN  Update(c, [me EXCEPT !.got = @ \cup (me.upto + 1 .. Len(journal)),
                                !.upto = Len(journal),
                                !.pc = IF me.run = 0 THEN "ended" ELSE "catch_up"])

ReadMissed(c) ==
    /\ clients[c].pc = "catch_up"
    /\ LET me == clients[c]
           missed == IF lastSeq[me.run] > me.upto THEN me.upto + 1 .. Len(journal) ELSE {}
       IN  Update(c, [me EXCEPT !.got = @ \cup missed, !.pc = "live"])

EndsStream(item) == item = EndOfStream \/ journal[item].type \in Terminals

Take(c) ==
    /\ clients[c].pc = "live"
    /\ clients[c].queue # << >>
    /\ LET me == clients[c]
           item == Head(me.queue)
       IN  Update(c, [me EXCEPT !.got = @ \cup ({item} \ {EndOfStream}),
                                !.queue = Tail(@),
                                !.pc = IF EndsStream(item) THEN "ended" ELSE @])

\* The connection is closed, before or after the end of the stream.
Leave(c) ==
    /\ clients[c] # Gone
    /\ Update(c, Gone)

StreamNext ==
    \/ Start \/ FirstStep \/ WriteStatus \/ Generate
    \/ Commit \/ CommitFails \/ FanOut
    \/ Cancel
    \/ \E call \in detached : FinishDetached(call)
    \/ Restart
    \/ \E c \in Clients :
          \/ \E after \in 0 .. Len(journal) : Subscribe(c, after)
          \/ Replay(c) \/ ReadMissed(c) \/ Take(c) \/ Leave(c)

StreamSpec == StreamInit /\ [][StreamNext]_streamVars

-----------------------------------------------------------------------------

(***************************************************************************)
(* No client ever sees a gap: of what follows its cursor it has got every  *)
(* event before the last one it got, except for rows whose publisher was   *)
(* cancelled between writing and handing out (openspec session-streaming:  *)
(* replay and live events join without omission).                          *)
(***************************************************************************)
NoHoles ==
    \A c \in Clients : \A seq \in clients[c].got :
        \A earlier \in clients[c].after + 1 .. seq : earlier \in clients[c].got \cup lost

(***************************************************************************)
(* A run has at most one terminal event in the journal, and nothing of it  *)
(* or of an earlier run is written after it, except by the threads of a    *)
(* cancelled publish (terminal events are deduplicated per run).           *)
(***************************************************************************)
Closes(i, j) == \/ journal[i].run > journal[j].run
                \/ journal[i].run = journal[j].run /\ journal[i].type \in Terminals

TerminalClosesItsRun ==
    /\ \A i, j \in DOMAIN journal : i < j /\ Closes(i, j) => j \in lost
    /\ \A i, j \in DOMAIN journal :
          /\ {journal[i].type, journal[j].type} \subseteq Terminals
          /\ journal[i].run = journal[j].run
          => i = j

(***************************************************************************)
(* A client that followed a run and whose stream has ended has seen the    *)
(* end of the run: its terminal event, or the run is over (a terminal      *)
(* event of an earlier run in the replay does not end the stream).         *)
(***************************************************************************)
Followed(client) == client.pc = "ended" /\ client.run # 0

StreamsEndWithTheirRun ==
    \A c \in Clients : Followed(clients[c]) =>
        \/ \E i \in clients[c].got : journal[i].run = clients[c].run /\ journal[i].type \in Terminals
        \/ ~ (Active /\ task.run = clients[c].run)

-----------------------------------------------------------------------------
(* What the documentation says and the code does not do.                   *)

(***************************************************************************)
(* "After a cancel the session's status becomes interrupted" (openspec     *)
(* session-streaming, scenario on explicit cancels; nothing is left        *)
(* running): a session that says running has a run.                        *)
(***************************************************************************)
RunningSessionsRun == status = "running" => Active
=============================================================================
