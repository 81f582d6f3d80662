---------------------------- MODULE RunLifecycle -----------------------------
(***************************************************************************)
(* hookprobe's runs (service.py, runs.py, notify.py): a session is opened, *)
(* its turns queue for a slot, run in the engine, end by their own result, *)
(* the clock, a person's Stop, a shutdown or a crash, are booked with      *)
(* their bill, and report back to the pipe.                                *)
(*                                                                         *)
(* The service is one event loop: an action is what runs between two       *)
(* awaits.  Of a run record its status, the turn it is on, how many turns  *)
(* are booked and for how much, whether an engine session is known and the *)
(* two counters that bound unasked work are kept.  A bill is 1 or 0, where *)
(* 0 is free or not counted.  The engine answers as it likes.  The run     *)
(* files take every write.                                                 *)
(***************************************************************************)
EXTENDS Integers, FiniteSets, FiniteSetsExt

CONSTANTS
    Sessions,       \* session keys
    Relay,          \* those the event door opened: metered, and reported back
    MaxConcurrent,  \* settings.max_concurrent, the semaphore's size
    Budget,         \* settings.budget_usd, in bills; 0 for off
    MaxResumes,     \* _MAX_RESUMES
    MaxAutoRetries, \* _MAX_AUTO_RETRIES
    MaxAsks,        \* bound: runs, follow-ups and retries asked for
    MaxStops,       \* bound: presses of Stop
    MaxRestarts     \* bound: shutdowns and crashes

ASSUME RunAssumption ==
    /\ IsFiniteSet(Sessions) /\ Relay \subseteq Sessions
    /\ MaxConcurrent \in Nat \ {0} /\ Budget \in Nat
    /\ MaxResumes \in Nat /\ MaxAutoRetries \in Nat
    /\ MaxAsks \in Nat /\ MaxStops \in Nat /\ MaxRestarts \in Nat

VARIABLES
    run,        \* RunStore._runs: the record in memory
    disk,       \* the run files
    task,       \* RunService._running: the session's _execute task
    engine,     \* engine turns alive, listened to or not
    handle,     \* engine._interrupt: the turn that an interrupt reaches
    stopReq,    \* RunService._stop_requested
    closers,    \* tasks of _interrupt_then_cancel
    posts,      \* return deliveries in hand, by session and turn
    closing,    \* shutdown() has cancelled the tasks; the process still lives
    unasked,    \* history: turns spawned for a session that nobody asked for
    adrift,     \* history: sessions whose task was cancelled in the backoff
    returned,   \* history: deliveries that were sent or given up
    cut,        \* history: deliveries lost with the process
    asks, stops, restarts

stored  == <<run, disk>>
turns   == <<task, engine, handle>>
stopped == <<stopReq, closers>>
hist    == <<unasked, adrift, returned, cut>>
bounds  == <<asks, stops, restarts>>
vars    == <<stored, turns, stopped, posts, closing, hist, bounds>>

Statuses == {"none", "running", "completed", "failed"}
Phases   == {"queued", "turn", "wind", "backoff"}

Record == [status: Statuses, id: Nat, booked: Nat, spent: Nat, sid: BOOLEAN,
           resumes: 0..MaxResumes, autos: 0..MaxAutoRetries]
Task   == [phase: Phases, id: Nat]
Turn   == Sessions \X Nat
Closer == [of: Sessions, id: Nat, phase: {"ask", "grace"}]

Unborn == [status |-> "none", id |-> 0, booked |-> 0, spent |-> 0, sid |-> FALSE,
           resumes |-> 0, autos |-> 0]
NoTask == [phase |-> "none"]
NoTurn == <<"none", 0>>

Running(s)  == run[s].status = "running"
Finished(r) == r.status \in {"completed", "failed"}
Serving     == ~closing

\* The session's task listens to this engine turn.
Listens(s) == task[s].phase \in {"turn", "wind"}
Own(s)     == <<s, task[s].id>>
InSlot     == {s \in Sessions : Listens(s)}

Bills(recs, S) == MapThenSumSet(LAMBDA s : recs[s].spent, S)

\* The meter, over what is booked.
BudgetOut(recs) == Budget > 0 /\ Bills(recs, Sessions) >= Budget

\* A new run_id.
Opened(r) == [r EXCEPT !.status = "running", !.id = @ + 1]

\* One more entry of run.turns.
Booked(r, bill) == [r EXCEPT !.booked = @ + 1, !.spent = @ + bill]

Settled(r, status, bill) == [Booked(r, bill) EXCEPT !.status = status]

CanResume(recs, s) ==
    recs[s].sid /\ recs[s].resumes < MaxResumes /\ ~BudgetOut(recs)

Resumed(r) == Opened([Booked(r, 0) EXCEPT !.resumes = @ + 1])

Post(s, r) == IF s \in Relay THEN {<<s, r.id>>} ELSE {}

\* The record as written to its file.
Write(s, r) ==
    /\ run' = [run EXCEPT ![s] = r]
    /\ disk' = [disk EXCEPT ![s] = r]

\* The turn is booked, the run finished and its report on its way.
Settle(s, r) ==
    /\ Write(s, r)
    /\ posts' = posts \cup Post(s, r)

Spawn(s, r) ==
    /\ Write(s, r)
    /\ stopReq' = stopReq \ {s}
    /\ task' = [task EXCEPT ![s] = [phase |-> "queued", id |-> r.id]]
    /\ UNCHANGED <<engine, handle, closers, posts>>

LeaveTask(s) == task' = [task EXCEPT ![s] = NoTask]

\* The engine's coroutine ends; its finally clears the one handle there is.
EngineDrops(t) ==
    /\ engine' = engine \ {t}
    /\ handle' = NoTurn

-----------------------------------------------------------------------------
(* Asking for work.                                                        *)

Ask == Serving /\ asks < MaxAsks /\ asks' = asks + 1

\* A new run: refused by the door's meter, answered from a runbook or an
\* earlier report, or spawned.
Start(s) ==
    /\ Ask /\ run[s] = Unborn
    /\ LET r == Opened(Unborn) IN
       \/ /\ s \in Relay /\ BudgetOut(run)
          /\ Settle(s, Settled(r, "failed", 0))
          /\ UNCHANGED <<turns, stopped>>
       \/ /\ ~(s \in Relay /\ BudgetOut(run))
          /\ \/ Settle(s, Settled(r, "completed", 0)) /\ UNCHANGED <<turns, stopped>>
             \/ Spawn(s, r)
    /\ UNCHANGED <<closing, hist, stops, restarts>>

\* A follow-up: a reply in the thread, a re-fire, the console.
Continue(s) ==
    /\ Ask /\ Finished(run[s]) /\ run[s].sid
    /\ Spawn(s, Opened(run[s]))
    /\ UNCHANGED <<closing, hist, stops, restarts>>

Retry(s) ==
    /\ Ask /\ run[s].status = "failed"
    /\ Spawn(s, Opened(run[s]))
    /\ UNCHANGED <<closing, hist, stops, restarts>>

-----------------------------------------------------------------------------
(* A turn.                                                                 *)

\* The slot is free.  A relay run meets the meter once more.
EnterSlot(s) ==
    /\ task[s].phase = "queued" /\ Cardinality(InSlot) < MaxConcurrent
    /\ \/ /\ s \in Relay /\ BudgetOut(run)
          /\ Settle(s, Settled(run[s], "failed", 0))
          /\ LeaveTask(s)
          /\ UNCHANGED <<engine, handle>>
       \/ /\ ~(s \in Relay /\ BudgetOut(run))
          /\ task' = [task EXCEPT ![s].phase = "turn"]
          /\ engine' = engine \cup {Own(s)}
          /\ handle' = Own(s)
          /\ UNCHANGED <<stored, posts>>
    /\ UNCHANGED <<stopped, closing, hist, bounds>>

\* The engine names its session: on_event writes the run down at once.
SessionKnown(t) ==
    /\ t \in engine /\ ~run[t[1]].sid
    /\ Write(t[1], [run[t[1]] EXCEPT !.sid = TRUE])
    /\ UNCHANGED <<turns, stopped, posts, closing, hist, bounds>>

\* A failure of the moment, or a context summary in place of an answer, gets
\* one more turn after a pause.  Nothing is written before the pause ends.
RetryTransient(s, r, bill) ==
    /\ run[s].autos < MaxAutoRetries /\ ~BudgetOut(run)
    /\ run' = [run EXCEPT ![s] = Opened([Booked(r, bill) EXCEPT !.autos = @ + 1])]
    /\ task' = [task EXCEPT ![s].phase = "backoff"]
    /\ UNCHANGED <<disk, posts>>

\* The turn this task listens to ends with a result or an exception.  A turn
\* the clock interrupted fails whatever it answers.
TurnEnds(s) ==
    /\ Listens(s)
    /\ EngineDrops(Own(s))
    /\ \E bill \in {0, 1}, sid \in {run[s].sid, TRUE} :
          LET r == [run[s] EXCEPT !.sid = sid] IN
          \/ /\ task[s].phase = "turn"
             /\ Settle(s, Settled(r, "completed", bill)) /\ LeaveTask(s)
          \/ Settle(s, Settled(r, "failed", bill)) /\ LeaveTask(s)
          \/ RetryTransient(s, r, bill)
    /\ UNCHANGED <<stopped, closing, hist, bounds>>

BackoffEnds(s) ==
    /\ task[s].phase = "backoff"
    /\ Spawn(s, run[s])
    /\ unasked' = [unasked EXCEPT ![s] = @ + 1]
    /\ UNCHANGED <<closing, adrift, returned, cut, bounds>>

\* Seeded fault: a turn the clock killed is settled and not reported.
KilledSilently(s) ==
    /\ EngineDrops(Own(s))
    /\ Write(s, Settled(run[s], "failed", 0))
    /\ LeaveTask(s)
    /\ UNCHANGED posts

Killed(s) ==
    /\ EngineDrops(Own(s))
    /\ Settle(s, Settled(run[s], "failed", 0))
    /\ LeaveTask(s)

\* Seeded fault: a turn the interrupt does not reach is waited for.
TimeoutWaits(s) ==
    /\ task[s].phase = "turn" /\ handle # NoTurn
    /\ task' = [task EXCEPT ![s].phase = "wind"]
    /\ UNCHANGED <<stored, engine, handle, posts, stopped, closing, hist, bounds>>

\* The clock of a turn ran out: asked to wind down, or killed where the
\* interrupt does not land.
Timeout(s) ==
    /\ task[s].phase = "turn"
    /\ \/ /\ handle # NoTurn
          /\ task' = [task EXCEPT ![s].phase = "wind"]
          /\ UNCHANGED <<stored, engine, handle, posts>>
       \/ Killed(s)
    /\ UNCHANGED <<stopped, closing, hist, bounds>>

GraceOver(s) ==
    /\ task[s].phase = "wind"
    /\ Killed(s)
    /\ UNCHANGED <<stopped, closing, hist, bounds>>

\* A turn whose task was cancelled goes on behind the shield, unheard.
UnheardEnds(t) ==
    /\ t \in engine /\ ~(Listens(t[1]) /\ Own(t[1]) = t)
    /\ EngineDrops(t)
    /\ UNCHANGED <<stored, task, stopped, posts, closing, hist, bounds>>

-----------------------------------------------------------------------------
(* Stop.                                                                   *)

Stop(s) ==
    /\ Serving /\ stops < MaxStops
    /\ Running(s) /\ task[s] # NoTask
    /\ stopReq' = stopReq \cup {s}
    /\ closers' = closers \cup {[of |-> s, id |-> task[s].id, phase |-> "ask"]}
    /\ stops' = stops + 1
    /\ UNCHANGED <<stored, turns, posts, closing, hist, asks, restarts>>

\* CancelledError in a task a person stopped.  A turn is shielded; one being
\* wound down is not; the backoff lies outside the handler.
Cancelled(s) ==
    \/ /\ task[s].phase = "backoff"
       /\ LeaveTask(s)
       /\ adrift' = adrift \cup {s}
       /\ UNCHANGED <<stored, engine, handle, posts, stopReq>>
    \/ /\ task[s].phase \in {"queued", "turn", "wind"}
       /\ IF task[s].phase = "wind" THEN EngineDrops(Own(s)) ELSE UNCHANGED <<engine, handle>>
       /\ Settle(s, Settled(run[s], "failed", 0))
       /\ LeaveTask(s)
       /\ stopReq' = stopReq \ {s}
       /\ UNCHANGED adrift

Awaits(c) == task[c.of] # NoTask /\ task[c.of].id = c.id

\* task.cancel(), which does nothing to a task that is done.
Cancel(c) ==
    /\ closers' = closers \ {c}
    /\ \/ Awaits(c) /\ Cancelled(c.of)
       \/ ~Awaits(c) /\ UNCHANGED <<stored, turns, posts, stopReq, adrift>>

\* The interrupt reaches whichever turn the engine's one handle names.
CloserAsks(c) ==
    /\ c \in closers /\ c.phase = "ask"
    /\ \/ /\ handle # NoTurn
          /\ closers' = (closers \ {c}) \cup {[c EXCEPT !.phase = "grace"]}
          /\ UNCHANGED <<stored, turns, posts, stopReq, adrift>>
       \/ Cancel(c)
    /\ UNCHANGED <<closing, unasked, returned, cut, bounds>>

\* The turn wound down in time, or the grace is over.
CloserEnds(c) ==
    /\ c \in closers /\ c.phase = "grace"
    /\ Cancel(c)
    /\ UNCHANGED <<closing, unasked, returned, cut, bounds>>

-----------------------------------------------------------------------------
(* The return leg and the process.                                         *)

\* Sent or given up after its attempts: either writes the run down again.
DeliveryEnds(p) ==
    /\ p \in posts
    /\ posts' = posts \ {p}
    /\ returned' = returned \cup {p}
    /\ Write(p[1], run[p[1]])
    /\ UNCHANGED <<turns, stopped, closing, unasked, adrift, cut, bounds>>

\* A run a shutdown cancels fails, unless the next boot can continue it.
Handled(s) == task[s].phase \in {"queued", "turn", "wind"}
Fails(s)   == Handled(s) /\ (s \in stopReq \/ ~CanResume(run, s))
Failing    == {s \in Sessions : Fails(s)}

Shutdown ==
    /\ Serving /\ restarts < MaxRestarts
    /\ restarts' = restarts + 1
    /\ closing' = TRUE
    /\ run' = [s \in Sessions |-> IF s \in Failing THEN Settled(run[s], "failed", 0) ELSE run[s]]
    /\ disk' = [s \in Sessions |-> IF Handled(s) THEN run'[s] ELSE disk[s]]
    /\ posts' = posts \cup UNION {Post(s, run[s]) : s \in Failing}
    /\ task' = [s \in Sessions |-> NoTask]
    /\ engine' = engine \ {Own(s) : s \in {q \in Sessions : task[q].phase = "wind"}}
    /\ handle' = IF \E s \in Sessions : task[s].phase = "wind" THEN NoTurn ELSE handle
    /\ stopReq' = stopReq \ Failing
    /\ UNCHANGED <<closers, hist, asks, stops>>

\* recover_orphans, over what the files say.
Orphan(s)    == disk[s].status = "running"
Recovered(s) ==
    IF ~Orphan(s) THEN disk[s]
    ELSE IF CanResume(disk, s) THEN Resumed(disk[s])
    ELSE Settled(disk[s], "failed", 0)
Continued == {s \in Sessions : Orphan(s) /\ CanResume(disk, s)}

Boot ==
    /\ run' = [s \in Sessions |-> Recovered(s)]
    /\ disk' = run'
    /\ task' = [s \in Sessions |-> IF s \in Continued
                                   THEN [phase |-> "queued", id |-> Recovered(s).id]
                                   ELSE NoTask]
    /\ posts' = UNION {Post(s, disk[s]) : s \in {q \in Sessions : Orphan(q)} \ Continued}
    /\ unasked' = [s \in Sessions |-> unasked[s] + (IF s \in Continued THEN 1 ELSE 0)]
    /\ cut' = cut \cup posts
    /\ engine' = {} /\ handle' = NoTurn
    /\ stopReq' = {} /\ closers' = {} /\ adrift' = {}
    /\ closing' = FALSE
    /\ UNCHANGED <<returned, asks, stops>>

\* The container comes back after a shutdown, or after a crash at any point.
Restart ==
    /\ Boot
    /\ \/ closing /\ UNCHANGED restarts
       \/ Serving /\ restarts < MaxRestarts /\ restarts' = restarts + 1

-----------------------------------------------------------------------------
Init ==
    /\ run = [s \in Sessions |-> Unborn] /\ disk = run
    /\ task = [s \in Sessions |-> NoTask]
    /\ engine = {} /\ handle = NoTurn
    /\ stopReq = {} /\ closers = {} /\ posts = {}
    /\ closing = FALSE
    /\ unasked = [s \in Sessions |-> 0]
    /\ adrift = {} /\ returned = {} /\ cut = {}
    /\ asks = 0 /\ stops = 0 /\ restarts = 0

Next ==
    \/ \E s \in Sessions :
          \/ Start(s) \/ Continue(s) \/ Retry(s)
          \/ EnterSlot(s) \/ TurnEnds(s) \/ BackoffEnds(s)
          \/ Timeout(s) \/ GraceOver(s) \/ Stop(s)
    \/ \E t \in engine : SessionKnown(t) \/ UnheardEnds(t)
    \/ \E c \in closers : CloserAsks(c) \/ CloserEnds(c)
    \/ \E p \in posts : DeliveryEnds(p)
    \/ Shutdown \/ Restart

\* The loop runs what is ready, every clock runs out, and a stopped container
\* is started again.  The engine owes nothing.
Fairness ==
    /\ \A s \in Sessions :
          /\ WF_vars(EnterSlot(s)) /\ WF_vars(BackoffEnds(s))
          /\ WF_vars(Timeout(s)) /\ WF_vars(GraceOver(s))
    /\ WF_vars(closing /\ Restart)

Spec == Init /\ [][Next]_vars /\ Fairness

-----------------------------------------------------------------------------
(* Properties.                                                             *)

TypeOK ==
    /\ run \in [Sessions -> Record] /\ disk \in [Sessions -> Record]
    /\ task \in [Sessions -> Task \cup {NoTask}]
    /\ engine \subseteq Turn /\ handle \in Turn \cup {NoTurn}
    /\ stopReq \subseteq Sessions /\ closers \subseteq Closer
    /\ posts \subseteq Turn /\ closing \in BOOLEAN
    /\ unasked \in [Sessions -> Nat] /\ adrift \subseteq Sessions
    /\ returned \subseteq Turn /\ cut \subseteq Turn
    /\ asks \in 0..MaxAsks /\ stops \in 0..MaxStops /\ restarts \in 0..MaxRestarts

\* Whoever ends a turn first (its result, the clock, Stop, a shutdown, the
\* next boot), it is booked exactly once, in memory and in the run's file.
BookedOnce ==
    \A s \in Sessions : \A r \in {run[s], disk[s]} :
        r.booked = IF r.status = "running" THEN r.id - 1 ELSE r.id

\* Through crashes, restarts and provider failures, a session spends at most
\* one resume and one retry nobody asked for.
UnaskedBounded ==
    \A s \in Sessions : unasked[s] <= MaxResumes + MaxAutoRetries

\* The newest report of a finished relay run is on its way, has been sent or
\* given up, or was lost with the process that was sending it.
ReportInHand ==
    \A s \in Relay : Finished(run[s]) => <<s, run[s].id>> \in posts \cup returned \cup cut

\* A finished run is moved by nothing but a request for more: not by a late
\* cancel, the clock of an older turn, a delivery, a crash or a boot.
SettledStays ==
    [][\A s \in Sessions :
          Finished(run[s]) /\ asks' = asks =>
              /\ run'[s].status = run[s].status
              /\ run'[s].id = run[s].id /\ run'[s].booked = run[s].booked]_vars

\* While the process serves, the only run without a task to finish it is one
\* whose task was cancelled between a lost attempt and its retry.
OnlyBackoffStrands ==
    \A s \in Sessions : Running(s) /\ Serving => task[s] # NoTask \/ s \in adrift

\* Every run that is not set adrift reaches an end, whatever the engine does.
Settles ==
    \A s \in Sessions : Running(s) ~> (Finished(run[s]) \/ s \in adrift)

\* What _execute says of a run, that it must always reach a final state: while
\* the process serves, a running run has a task that will finish it.
HasTask ==
    \A s \in Sessions : Running(s) /\ Serving => task[s] # NoTask
=============================================================================
