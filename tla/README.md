# hookstack, verified

TLA+ models, TLC runs and TLAPS proofs about hookstack: a
pipe that routes alerts (`hookrelay`), a judge that asks a model whether an
alert matters (`hookjudge`), an investigator that runs an agent on it and may
propose and carry out a fix (`hookprobe`), and the pieces that hang them into a
chat (`deploy/`). All four are asyncio Python over SQLite or JSON files. Their
bugs are not in arithmetic: they are in what happens between two awaits, two
services or two lives of a process. That is what is modelled.

Every definition is translated from the code; `PROJECT.json` maps each one to
its lines. A definition whose comment begins "Seeded fault" is not the program:
it is a plausible slip of the definition below it, kept so that each property
can be shown to catch something.

## Contents

1. [The system](#1-the-system)
2. [The modules](#2-the-modules)
3. [The runs, their bounds and what they show](#3-the-runs)
4. [Fairness](#4-fairness)
5. [What is proved](#5-what-is-proved)
6. [Where the code and its words part](#6-findings)
7. [What is not modelled](#7-not-modelled)
8. [Plan](#8-plan)

## 1. The system

    sender --POST /hook/{source}--> hookrelay --deliveries--> chat, hookjudge, hookprobe
                                       ^  ^                            |         |
                                       |  +------- return leg ---------+         |
                                       +---------- report, notices --------------+
    person --press--> lark-bridge --/card/action--> hookrelay --> hookjudge (ruling)
                                                              --> hookprobe (approve, follow up)
    person --reply--> lark-bridge --/hook--> hookrelay --> the node whose card it is under
    watch (timer) --reads chats--> hookprobe round --posts through the signer--> hookrelay
    hookprobe --tool calls--> tool gate, proxy --> the outside

Every arrow is an HTTP POST with a timeout, signed by a shared secret, retried
by its sender and possibly seen twice by its receiver. Services share no
memory and no table. What each keeps:

| Component | State | Operations | What is hard | What makes it correct |
|---|---|---|---|---|
| relay: front door | `pending_signatures`, `spent_signatures`, `events`, `decisions`; the fuse's arrivals in memory | acquire / renew / complete / release a signature, fuse, stages, record, answer | copies and restatements in flight together, a lease that runs out under a running handler, a crash before the signature is spent | a signature completes once per window; an answered 200 has an event |
| relay: configuration | one document on file, the one running | boot, PUT, reload; choose a template, read, fingerprint | stages before dedup decide what a fingerprint reads | what is accepted can be read; a bad document changes nothing |
| relay: stages | silences; the event being walked | filter, set, silence, ask a brain, route, explain | silences move and the brain is late while an event waits | what is routed was let through by every stage before it |
| relay: threads | the ledger of events, cards and sessions | look a reply up, walk its chain up and down | reports, notices and other replies land meanwhile | a reply stays in the operation of the card it is under |
| relay: fold | events folded into one card per condition, `settle_folds` | fold on arrival, settle later | flapping, a recovery between reading and carding | a firing condition is one somebody was told of |
| relay: outbox | `deliveries`, breakers and limiter in memory | enqueue, drain per channel, book, defer, retry, purge, reload | many writers of a row the worker holds; a probe slot claimed across awaits; a crash between answer and booking | no row forgotten, none called sent that was not, everything settles |
| relay: card actions | `card_actions` (a token is spent once), silences | press, silence, forward, record | the token is spent before the work is done | a card that says accepted was acted on |
| relay: escalation, absence | marks on events and sources | scan, mark, enqueue; claim, alarm, clear | marked first, alarmed afterwards | an absence is said once |
| relay, judge: self-alarm | a time and a count in memory | tell, fold, send, give back | concurrent failures while a send is out | every failure is in a message or still counted |
| judge: intake | `intake`, `judgements`, locks and a semaphore in memory | accept, judge, record, cross off, replay at boot | tens of seconds between reading a prior verdict and recording one; kills between 202 and verdict | no alert lost, paid once per window, order kept |
| judge: verdict | the remembered form of an answer, the rows verdicts are reused from | reuse, ask, retry, step down a form, fall to the keyword floor | blank, failed and reused answers decide who is woken | nobody is let sleep but on a model's word |
| judge: return leg | the return columns of `judgements` | tick, post, book, purge | a page walked over awaits; a reply that is lost | every return ends; a counted card exists |
| judge: rulings | labels, `ai_rulings`, bursts | file a press, record a ruling | presses in any order, again, after a row judged twice | the latest ruling stands |
| probe: runs | `runs/*.json`, tasks in memory | start, turn, stop, follow up, retry, recover at boot, report | a clock, a person and the agent racing to end one turn; restart mid-turn | a turn is booked once and reported once |
| probe: answers without an engine | runs, rulings, runbooks, recoveries | coalesce, answer from a ruling, a runbook or the last report, or look again | notices, answers and late rulings land on the runs an answer reads | an answer never rests on an answer |
| probe: procedures | `remediations/*.json`, allowlist files | propose, approve, execute step by step, settle | files that change under the press; death between steps | what runs is what was read, once, in order; the account of a crash is true |
| probe: the condition around a procedure | runs, proposals, notices | re-fire, recover, follow up, evidence, outcome | events that cross the approval or the verification window; evidence that cannot be saved | a proposal whose run moved never runs; the verdict told stands |
| probe: memory | `suggestions.json`, the memory file | queue a line, answer, apply, edit | two processes and an editor on one volume; writes that fail | what a run asks to remember waits for its answer |
| probe: library | a runbook, its manifest, history and proposal | case, consolidation, ruling, review, edit, restore | each writes from what it read earlier; eight versions kept | a write keeps the version it displaces |
| probe: audit | a chained file per day, a head | append, report the head, verify | writers race across midnight; somebody edits the file | what adds up before a head that left the box is what it was then |
| probe: runtimes, gate, hooks | the flags of a spawned gate, one interrupt handle | begin, stream, end, stop; allow or refuse a call | several turns on one engine; a gate that cannot be spawned | one posture for every runtime; an ungated turn is the last |
| probe: alarm, posture | streak and quiet window; the measured record | book a failure, page, keep quiet; measure and watch | a page swallowed or failed; a measuring program that is missing; answers in part | quiet is earned; no silence is a pass, but three known ones |
| deploy: bridge | the bus, two consumers, cards in the chat | consume, recycle, post, thread | a bus that died looks like a quiet night | recycles are a silence apart |
| deploy: watch, signer | cursors, round files, slots of two rounds | scan, stage, post, note, replay, give up; count, refund | death between post and note; rounds that overlap | what people wrote reaches a run; a ceiling holds |
| deploy: tool gate, proxy | a ledger; nothing | relay a batch, dial | a connection that fails before or after the tools ran; a row that cannot be written; a name re-pointed | rows tell what reached the tools; what is dialled was vetted |

`PROJECT.json` lists every component (also those that keep no state) under
`components` and every hazard, at its line, under `hazards`, each with the
properties that would catch it.

## 2. The modules

| Module | Models | Checked in | Proved in |
|---|---|---|---|
| `Delivery` | the outbox worker of `hookrelay/delivery.py`, `breaker.py`, the writers of the table in `store.py` | `MCDelivery`, `MCDesk` | `DeliveryProofs` |
| `Outbox` | what the table promises: the abstract specification of `Delivery` | `MCDelivery` | `DeliveryProofs` |
| `FrontDoor` | `POST /hook/{source}`: `app.py: hook`, `store.py`'s signatures, `fuse.py`, the dedup stage, `record_event` | `MCFrontDoor` | `FrontDoorProofs` |
| `Config` | `hookrelay/config.py`, `app.py`'s boot, PUT and reload, the reading of payloads in `templates.py`, `extract.py` | `MCFrontDoor` | `FrontDoorProofs` |
| `Walk` | `hookrelay/pipeline.py`, `processors.py`: filter, set, silence, http, routes; `/explain` | `MCFrontDoor` | `FrontDoorProofs` |
| `Thread` | a reply: `ThreadLookupProcessor`, `store.py: thread_context`, `round_trip`; `hookprobe/events.py`, `handoff.py`, notices | `MCFrontDoor` | `FrontDoorProofs` |
| `Refire` | `hookprobe`'s answers without an engine: `service.py: start`, `_refire_answer`, the runbook and ruling answers, follow-ups, dispatch | `MCFrontDoor`, `Refire` | `FrontDoorProofs` |
| `Fold`, `Cards`, `Vigil` | `hookrelay`'s fold and sweep, its buttons up to both receivers, its hourly round and its self-alarm (both in `Vigil`) | `MCDesk` | `DeskProofs` |
| `Judge` | `hookjudge/app.py` and `store.py` from `POST /events` to the crossing off | `Judge` | `JudgeProofs` |
| `Verdict` | `hookjudge/contract.py`, `judge.py`: what an event states and what is answered of it | `MCNode` | `NodeProofs` |
| `ReturnLeg` | `hookjudge/app.py: _return_once`, the worker loop, the return columns | `ReturnLeg` | `ReturnLeg` |
| `RunLifecycle` | `service.py`, `runs.py`, `notify.py`: a run from its first turn to its last report, over stops, clocks, shutdowns and boots | `RunLifecycle` | `RunLifecycleProofs` |
| `Turn` | one engine with one interrupt handle under several turns | `Turn` | |
| `Procedure` | `hookprobe/remediation.py`: propose, approve, reject, execute, settle_interrupted | `MCProcedure` | `ProcedureProofs` |
| `Remediation` | `service.py`, `events.py`, `actions.py`: everything around a procedure that can make it out of date, and its outcome | `MCNode` | `NodeProofs` |
| `Library`, `Memory` | `distill.py`, `distill_loop.py`, `library.py`; `suggestions.py` and the memory file | `MCNode` | `NodeProofs` |
| `Audit` | `audit.py`: the chained record of tool calls | `MCNode` | `NodeProofs` |
| `Hooks`, `Runtime` | `gate.py`, `guard.py`, `inputs.py` and the engine's hooks; the three runtimes and the rehearsal | `MCNode` | `NodeProofs` |
| `Outage`, `Posture` | `service.py`'s streaks and `notify.py`'s quiet window; `posture.py` and its watch | `MCNode` | `NodeProofs` |
| `Bridge`, `Watch`, `Signer`, `Egress` | `deploy/`: the chat bridge, the watch, and the three sidecars (the tool gate and the proxy are in `Egress`) | `MCDesk` | `DeskProofs` |
| `Entry`, `Desk`, `Node` | nothing of their own: what stands behind the relay's door, what goes out and comes back, and what the two brains keep beside their runs, part by part | `MCFrontDoor`, `MCDesk`, `MCNode` | `FrontDoorProofs`, `DeskProofs`, `NodeProofs` |

How state and actions correspond to the code:

**Steps.** An action runs from one `await` that may suspend to the next, or,
where threads and processes run beside each other (`Memory`, `Audit`, `Signer`,
`Bridge`), from one access of what they share to the next. A
block under the store's write lock is one action, whatever statements it holds.
`Delivery` splits a drain into choosing (`Post`, `DeferForRate`, ...), the
peer's answer and its booking; `Judge` splits a judgement into each read of the
ledger, the model call and the record; `Procedure` keeps the event loop
explicitly (`onLoop`) because `execute` runs several saves without an await.
`FrontDoor` splits a handler at each call of the store. `RunLifecycle` splits a
turn at each await of `_execute` (the slot, the engine, the wind-down, the pause
before a retry) and a Stop at each await of `_interrupt_then_cancel`; a
`CancelledError` is delivered where the task awaits, so the place of the task
says which handler sees it. The engine's turn is a task of its own (`shield`),
with one interrupt handle for all of them.

**Time.** `Delivery`, `Judge` and `ReturnLeg` keep ages and waits, not
timestamps, so that no clock grows: `lag` is how old a batch's one reading of
the clock is when a timestamp taken from it is written. The modules that relate
instants far apart (`Procedure`, `Remediation`, `FrontDoor`, `Refire`, `Cards`,
`Fold`, `Vigil`, `Signer`, ...) keep a clock bounded by `MaxTime`. `RunLifecycle`
has no clock: every timeout may run out at any moment and, by fairness, does. A
unit of time stands for whatever makes the windows of the instance comparable.

**Text.** A title, a name, a verdict's wording is a model value; where the code
decides by what a text looks like (`Verdict`: a recovery, a drill; `Hooks`: the
guard's rules) a text is the set of matchers that find something in it, and
where the order of its parts decides (`is_recovery` over an event's fields) that
order is kept.

**Crashes.** Each service may die between any two actions. Tables and files
stay; batches, locks, breakers, fuses, leases' holders and tasks go. Boot-time
work (`replay`, `settle_interrupted`, `recover_orphans`, the sweep) is part of
the restart where the code does it before it serves, and an action of its own
where it does not.

**Failures.** An exception that the code catches is the branch it takes; one
that it does not catch ends the handler where it stands (`Abandon`, `Fail`,
`Raise`, `Fault`). Each kind is bounded by a constant.

**History variables** (`tries`, `accepted`, `judged`, `carded`, `readOf`,
`starts`, `good`, `active`, `overtaken`, the `done`, `heard`, `behind`
and `life` of a request, `unasked`, `adrift`, `returned`, `cut`, `acts`, `cuts`,
the watch's `judged`, `given` and `gap`, the gate's `reached`, the runtime's
`after`, the memory's `answered`) record what happened for the properties; no guard
reads them, but to keep to a bound. `told` of `Remediation` is also the code's
table of notice keys.

**Composition.** `Remediation` sees a procedure as one action between approval
and ending; `Procedure` sees the investigation only as `moved`. `Remediation` takes a run's
turn and a restart as whole actions, `RunLifecycle` takes what a turn says as a
choice of completed or failed, and `Refire` takes a run as the report it ends in.
`Judge` sees a judgement as a choice and the return leg as the moment a row stops
being owed; `Verdict` makes that choice, `ReturnLeg` sees the judge
as the action that records a row. `Delivery` sees the front door as `Enqueue`,
`FrontDoor` sees the stages after dedup as a choice between routed and held and
the outbox as the last half of `Record`; `Walk` makes that choice. `Cards` and
`Thread` cross the services: the one follows a press from the bridge to the
judge and the investigator, the other a reply from the chat to the node and its
report back. The interfaces are
one column or one row wide, and each side leaves the other free to do more than
it does.

`Entry`, `Desk` and `Node` put several modules into one specification. Each
module is a *part*: an initial state picks the part that runs, the variables of
the others rest at 0, and the parts share no state. The reachable states are the
sum of the parts', never their product, and a property speaks of its own part.
All three keep every constant of their parts, so that what is proved of them is
proved of each part for all values; `MCFrontDoor`, `MCDesk` and `MCNode` only
give the small ones.

## 3. The runs

Every run is one `.cfg`. "Passes" is an exhaustive search of the instance.

| Run | Instance | Shows |
|---|---|---|
| `outbox_settles` (`MCDeliveryLive.cfg`) | 2 channels, one limited, 2 rows, batches of 1, 2 attempts, an operator's retry, 1 crash, 1 escaped exception; fair | the worker implements `Outbox` across a crash and a failed drain; every queued row is settled, unless an exception escaped |
| `judge_storm` (`MCJudge.cfg`) | 2 conditions of one rule, 3 alerts, 2 in flight, budget of one call | a condition is paid for once per window |
| `judge_replay` (`MCJudgeReplay.cfg`) | 2 conditions, 2 alerts, 1 in flight, a restart whose page of the intake is one row, an exception, an unreadable row; fair | no accepted alert is lost; order is kept and every accepted alert is judged, unless a judgement raised or the boot left the alert off its page |
| `returns` | 2 rows, page of 1, 2 attempts, restart with changed settings, exception, retention; fair | cards counted exist, every return ends |
| `procedure` | 2 procedures of 2 steps on one host, a rewrite, a list edit, a restart, a failed save; fair | what starts is what was read; receipts are true; an approved procedure ends |
| `runs` | 1 run the pipe opened and 1 a person opened, 1 slot, a budget of 1 bill, 2 asks, 1 Stop, 2 shutdowns or crashes, 1 resume, 1 retry; fair | a report is in hand; a run ends whatever the engine does, unless set adrift in the backoff |
| `door` (`MCFrontDoor.cfg`) | the front door (2 copies and an unsigned restatement, lease = replay = 1, dedup window 2, fuse of 1, restart, exception); 315 readings and 26 variants of a document; 5 stages and 1 event; 5 events of a chat; 4 runs over 5 instants, a recovery kept for 3 | `OncePerSignature`, `NamesAreReadable`, `RoutedWasLetThrough`, `ChatStaysInItsChain`, `NoAnswerCitesAnAnswer` |
| `desk` (`MCDesk.cfg`) | ten parts: the outbox (2 channels, one limited and taken in and out of the config, 2 rows in one batch), cards (5 buttons, 2 requests), fold (3 events, 9 instants, a look-back of 8), vigil, alarm (4 failures), watch (a plain and a batched feed, 2 news, 1 fault), signer (3 posts), gate (batches up to 3), egress, bridge | `BatchStillOwed` and one property of each other part |
| `node` (`MCNode.cfg`) | nine parts: the condition around a procedure (2 runs of 2 turns, 2 proposals, a restart, a lost save of evidence), audit (2 calls, one written twice, 2 days of which a reader opens 1 or 2, 2 edits), library (2 sessions, 2 versions kept), hooks (every posture and call), runtime (2 turns), outage (2 kinds, a restart), posture (a listed, an asked and a simulated grant, any part of a measurement silent), verdict (3 kinds of alert, 3 rows), memory (2 processes, 2 lines, a queue of 2) | `OvertakenNeverRuns`, `ToldStands`, and one property of each other part |

What each property says is stated above its definition, and what the violation
runs `runs_adrift`, `turns_crossed` and `recovery_missed` show under
[Findings](#6-findings). A module with a proof module
leaves its `TypeOK` to the theorem `TypeCorrect`, and what is proved as it
stands (`AttemptsPaidFor`, `DeathIsEarned`, `OnceInOrder`, `GateHonoured`,
`QuietPeriod`, `BothSure`, `SequentialOnce`, `BookedOnce`, `UnaskedBounded`,
`OnlyBackoffStrands`, `SettledStays`) has no run of its own: a run is spent on
what is not proved, or on what a run shows better.

**Why the bounds are enough.** Each bound is named in its module. They are set
so that the case a property is about happens, which the seeded faults confirm:
each property of each passing run is broken by a plausible slip in a mapped
definition under that run's own bounds. Two channels show isolation, since a
drain touches one; two rows in one batch are the least of which one is held while
the other is settled. Two alerts of one condition and one of another are the least that
contend for the lock and for the semaphore at once. Two procedures of two steps
with a command in common are the least that have an order, a stop on the first
failure and a shared key. Two copies and a restatement are the least where
a lease is lost and taken over while the alert goes through by another way. Two
runs on one slot are the least that queue, share the engine's one handle and
meet each other's bill; three asks with one restart, one run with four asks, two
stops and three restarts, and two relay runs on two slots were searched too and
agree. Five instants and four runs let a condition be looked at, answered,
recover and fire again, with a notice between. Two processes and two lines are
the least where each rewrites a file from what it read before the other wrote.
Two audited calls, one of which may be written twice, leave a line on either side
of a midnight and one between choosing its file and its lock, and two rewrites
let the second hide in a log that the first already put in order; three calls
were searched too and agree. A replay, a give-up and a batch of the watch each
take one message beside another. Three judgements let a quiet be passed on twice, by the rule and then by
the condition. One restart and one exception are enough to reach
every intermediate state they can expose. Windows are one or two units, so that
inside, at the edge and past it are all reached; where both sides of an edge differ (`<` and
`<=`) a seeded fault shows that the run tells them apart.

Deadlock is not checked where the clock, the rows or the requests of the
instance are bounded: a bounded system may really stop. `SYMMETRY` is used
where no property or definition tells the permuted values apart, and never in a
liveness run.

## 4. Fairness

* `Delivery!FairSpec`: the loop is a timer (`WF` on starting and ending a
  batch), time passes, and a drain that can move does, because every post has
  an HTTP timeout. Nothing is promised of operators, reloads or crashes, and a
  row is settled in spite of a crash because the table survives it. `Settles`
  excuses the behaviours in which an exception escaped a drain: a half-open
  probe whose booking raises is not given back (`delivery.py:231`), and its
  channel's rows are deferred until the process restarts.
* `Judge!FairSpec`: the event loop runs a task that can run; the lock is FIFO
  and the semaphore is freed, since a model call ends or times out. Weak
  fairness of each task's own step is enough, because `Enter` serves in order.
* `ReturnLeg!FairSpec`: one loop, one task, and time.
* `Procedure!LiveSpec`: an executing task goes on; a command ends or is killed
  at its timeout. A restart is not assumed; when one happens, the rows it found
  running are settled in it.
* `RunLifecycle!Spec`: the loop gives a free slot to a task that waits for one,
  the pause before a retry, the turn's timeout and the wind-down's grace run
  out, and a stopped container is started again. Nothing is promised of the
  engine, of a Stop's background task or of the peer a report goes to: `Settles`
  shows that the clock alone ends every run that has a task.

No fairness is assumed of senders, persons, peers' answers being good, purges
or restarts. The runs `door`, `desk`, `node` and `judge_storm` check safety only
and state none.

## 5. What is proved

`tlapm` checks every proof from nothing, for all values of the constants under
the named assumptions of each module (`DeliveryAssumption`, `PowersOfTwo`, ...).

**`DeliveryProofs`.** Two inductive invariants and two results about steps.

* `StructInv` is the structure: `TypeOK`, no row past the id counter, a queued
  row has attempts left, a suspended drain has a row in hand, and
  `BatchStillOwed` itself. `BatchStillOwed` is not inductive alone: a new row
  must overwrite nothing, a retry takes dead rows only and a purge settled ones
  only, and a booking must not touch a sibling's rows. It gives `TypeCorrect`
  and `SnapshotStaysTrue`: `UPDATE ... WHERE id = ?` is enough in this worker,
  no status guard is needed.
* `LedgerInv` adds the histories: a row under way was tried once more than its
  snapshot says (`TriedOnce`), a row answered with success is among the
  accepted (`OkAccepted`), and `AttemptsPaidFor`. It gives `NoAttemptBurned`.
* `DeathsEarned` and `DeliveryImplementsOutbox`: `DrainStatus`, `EnqueueStatus`
  and `OtherStatus` say which rows each action may move between which states;
  the refinement maps a row's status to its promise, and every step moves the
  promises as a step of `Outbox` does, or moves none.

**`FrontDoorProofs`.** Of the front door, four layers, each over the first.

* `DoorInv`: `TypeOK`, a request on the ledger is past its record
  (`Unrepeated`), and what `Record` writes is complete (`Ready`).
* `OnceInv`, for `OncePerSignature`: while a signature is leased, every
  completion of it is out of the window (`LeaseAlone`), so whoever holds it may
  complete; the table of spent signatures remembers the newest completion until
  it, too, is out of the window (`SpentRemembers`), so a signature that looks
  unspent is. Neither is inductive without the other.
* `SureInv`, for `BothSure`: a request at `complete` or `reply` has its event
  (`PastRecord`), and a spent signature has an event of one of its requests
  (`SpentOnEvent`), so the 200 given to a replay is true.
* `ClearInv`, for `SequentialOnce`: a routed request was clear of every event
  of its alert that was on the ledger when it entered (`RoutedClear`), events
  dedup (`Undecided`). Two handlers in flight together escape it (see Findings).

The other parts of `Entry` follow as those of `Desk` and `Node` do below.

**`ProcedureProofs`.** Every safety property of `Procedure`, in three layers.

* `FileInv`: `TypeOK`, the next proposal overwrites nothing (`Unused`), and a
  task that is about to run a command is at one its procedure has (`Named`),
  without which what is appended to `starts` has no type. It gives
  `TypeCorrect` and, since no step but `Gate` brings a task to the start of a
  command, `ListsAreReadAgain`.
* `RunInv` adds, for each proposal (`Fit`), how far its file knows what its task
  does: what started and what exited 0 lies within the results on file and the
  step in flight (`Accounted`), a task's place agrees with both and its copy is
  what the presser read (`InStep`), nothing runs of what nobody approved
  (`Untouched`). It gives `RunsWhatWasRead`, `OnceEachInOrder` and
  `ReceiptsTrue`: the record is saved before the spawn and the result after the
  exit, so the file is behind by one step at most and says which.
* `QuietInv` adds, while no file is rewritten: what a procedure in force holds
  is what was read (`Reads`), its ending is stamped no earlier than its last
  command (`Timed`), and of two that share a key one had ended and cooled when
  the other was approved (`Apart`). `QuietPeriod` alone is not inductive: it
  does not say that the earlier one has stopped. It gives `TargetsRest`. The
  hypothesis is needed: `cooling` takes its keys from the file, so rewriting
  a running procedure's file moves the hold to other targets.

**`RunLifecycleProofs`.** Two layers.

* `RunInv`: records are sound (`RunsSound`: every turn but the one in flight is
  booked, and no counter is past its bound), only a running run has a task
  (`Tasked`), and what is finished is on file as it is in memory (`OnDisk`).
  `Tasked` is what makes `BookedOnce` inductive: whoever ends a turn finds its
  task there, and takes it away in the step that books it. It gives
  `TypeCorrect` and `TurnsBookedOnce`.
* `Good`, session by session: turns nobody asked for are covered by the counters
  on the file, and by those in memory with the retry still in its pause
  (`CountOf`), a finished record has its report somewhere, on file as in memory
  (`ReportOf`), and a running run is held by a task or set adrift (`HeldOf`).
  The file's half of the first two is needed because a boot reads only that.
  It gives `UnaskedIsBounded`, `ReportsInHand` and `StrandedOnlyInBackoff`; and
  with `OnDisk`, which tells the boot that a finished run is no orphan,
  `SettledRunsStay`.

**`JudgeProofs`.** One invariant of structure, and three on top of it.

* `Sound`: `TypeOK`, alerts are numbered without a gap and owned once
  (`AlertsNumbered`), the count of a condition's lock is the number of tasks that
  share it (`LockShared`), and a task about to record has a verdict. It gives
  `TypeCorrect` and, with itself, `AlertsKept`.
* `OldestOwns`: of the tasks of one condition the oldest is the only one past the
  lock (`OneAtATime`). It rests on `LockShared`: a lock that is thrown away when
  its count reaches 0 must not be one that another task is about to take.
* `Paid` adds `AsksOutside`: while a task asks the model, no paid row of its
  condition is inside the window. `PaidOncePerWindow` says nothing of
  a task that has read and not yet written; this does (`PaidOnce`).
* `Ordered` adds `InOrder`: no row is of a younger alert than one still waiting.
  What a boot leaves off its page of the intake waits for another boot while newer
  alerts are judged: `offPage` remembers it, and `JudgedInOrder` excepts those
  alerts and no others, with no assumption on how long the page is.

**`ReturnLeg`** proves its own `CountsOnlyCards`: a page lists owed rows only,
the row in hand is on it, and an answer that says "routed" was given after the
pipe routed it (`IInv`, which has `TypeOK` too).

**`DeskProofs`, `NodeProofs`, and what `FrontDoorProofs` says of the stages behind
the door.** A step is a step of the part that runs and moves no other
(`StepOfPart`), so each property is proved from its own part alone.

| Theorem | The invariant, and why the property alone will not do |
|---|---|
| `FingerprintsAreRead` | `RunsAccepted`: the document that runs is one the loader took. That its names are readable is then a fact about the loader's vocabulary (`VocabularyIsRead`), for any document |
| `RoutedLetThrough` | `WalkInv`: past the stage that asks, no silence the event found there covers it under the title it was last asked about, whatever a `set` stage or the brain writes on it before or after (`WritingKeeps`). Assumes that such a stage exists (`SilenceIsAsked`) |
| `ChatIsOfItsChain` | `ThreadInv`: whatever is quoted on the ledger is earlier and of one operation with what quotes it, back to the card, and so is the reply that waits to be recorded |
| `AnswersCiteNoAnswer` | `RefireInv`: what was the newest look when an answer was given is so of the runs before it (`Grounded`), whatever is opened, ruled or recovered since; and the firings a look answered are counted before one more is |
| `CardsTellTheTruth` | `ActedIsDone`: an arrival that got as far as `acted` left its silence or its press in a table, so the answer painted later is true whoever died meanwhile |
| `CardsKeepTheLatest` | `RulingsOrdered`: a judgement's ruling is no older than any press filed on it, which is what makes a stale press lose whenever it lands. Of the judge's rows only: the investigator's `record_ruling` (`service.py:1024`) keeps the last to arrive |
| `CardsActOnce` | `ClaimedOnce`: what nobody claimed was not acted on, what is being handed on is claimed and not acted on yet |
| `FoldTellsOfFirings` | `SweepOwes`: what the last sweep found held for a window is still before the sweep in progress, or the last card tells of it. A card older than the look-back says nothing in the property, as the sweep no longer sees it; that the look-back is a number is the only assumption |
| `VigilSaysOnce` | `EscalatedOnce`, `AlarmedOnce`: both stamps are written before what they stand for, and a claim is kept until the source has spoken since the reading it was made on |
| `SignerKeepsCeiling` | `RoundsCounted`: a counted round put no more through than its count says, and one that is no longer counted never will be again, though its posts may still be out. Of posts since the signer last started: the counts are in its memory |
| `GateRowsAreTrue` | `GateInv`: nothing of a batch is on the ledger or arrived before it is judged, and a batch arrives whole or not at all; a call that arrived and has no row is in `unlogged`, since `Ledger.write` is best effort (`sidecars/common.py:62`) |
| `EgressDialsVetted` | `EgressInv`: the addresses still to try are those that were looked up and vetted for that name |
| `BridgeRecyclesApart` | `BridgeInv`: the clock of the silence starts again with each recycle, so it never runs ahead of the clock since the last one |
| `WatchMissesOnlyTheGap` | `WatchInv`: what no settled round holds is ahead of the committed cursors, or in the picks of the scan under way, in the digest staged beside the cursors that pass it, or in the run they were posted to (`Covers`, read at each place the scan may die) |
| `AlarmCountsAll` | `AlarmInv`: the failures that started are as many as those reported, suppressed, and held by posts under way. The sum over the posts is the number of pairs of a post and one of its failures (`SummedIsShares`), so one more failure or one more post is one more element of a set, and no induction over the sum is needed |
| `FixRefusesTheOvertaken` | Of turns and recoveries on the proposal's own run, which is where the press looks. `FixInv`: numbers only grow, a proposal's cursor trails its run (`CursorsTrail`), and what was overtaken is answered already or would be refused as moved (`OvertakenMoved`): no step of any run takes a turn or a recovery back |
| `FixStandsByItsWord` | `FixInv` again: a told outcome is on the row, or the window is over and says it from then on (`Stands`), and a recovery after the fix is on the row (`RecoveryIsOnTheRow`). For any number of lost saves; a fix without a window, and one whose recovery could not be saved, are not spoken of, for there it is false (see Findings) |
| `HooksHoldOnePosture` | `HooksInv`: the tool hooks each answer for tools of their own, so at most one refuses, and for the reason of the one decision (`HooksAgree`) |
| `RuntimeStopsAtUngated` | `RuntimeInv`: a turn that showed itself ungated has marked its runtime broken for this life of the node |
| `PostureTakesNoSilence` | `PostureInv`: a measurement without an error allows all its credentials reach but what no error tells of (`MeasuredIsReached`): rows left out of a list, a role that did not show |
| `OutageEarnsItsQuiet` | `OutageInv`: a channel that was used has its post under way, or one heard since |
| `VerdictIsAnswered` | `VerdictInv`: every quiet row goes back to a row in which a model said no, and a model's quiet row is its own word |
| `LibraryDestroysNothing` | an action property: what a write displaces is in the history in that same step. Assumes two kept versions at least (`LibraryAssumption`; the code keeps eight, `distill.py:319`), as a restore displaces one and prunes in one step |
| `MemoryKeepsFacts` | `MemoryInv`: the queue is the filed rows in their order, with the answers given; whoever holds the queue's lock read what is in it and nobody else holds it (`Locked`); a task whose rows are not written yet is still in its process's hands (`Due`); the memory, every copy of it and every open page hold vouched lines only |
| `AuditTellsOfTampering` | `AuditInv`: of every head that left and the log as it read then, there is a chain of digests from the one to the other (`ChainTo`). The invariant speaks of heads and of no line on disk, so no edit can touch it; a log that adds up and still has the head is, link by link, that same chain read backwards, for as long as its links go |

Formulas that were wrong and were found by proving them:

* `QuietWasAnswered` asked that a quiet verdict and the answer it goes back to
  share a condition or a rule. A recovery is served from its condition, whose own
  verdict may have come from its rule, and the recovery's title gives another rule
  (`RuleKey` falls back on the title): it is two steps from the answer, not one.
  The property says which two, and the run has that recovery and three rows.
* `NothingIsDestroyed` is false where one version is kept, which nothing in the
  model excluded.
* `NamesAreReadable` is false of a template whose payloads another one always
  takes first (`Unreached`).
* `NoAnswerCitesAnAnswer` counted every answer that rests on a report. The code
  counts investigations only, and leaves out the synthetic (`service.py:527` to
  `549`): a drill may be answered from a report once the cap is reached. It also
  said that answers rest on runs that looked; what vouches for a runbook need not
  have (see Findings).
* `TamperShows` said that no edit goes unseen, of edits that keep every link. With
  links stripped or a beginning deleted that is false, and so is it of files past the reader's window. It now says what every such edit leaves
  true: what still adds up before a head that left is what it was.
* `ToldStands` is false of a fix without a window and of one whose recovery could
  not be saved.
* `OnlyKnownSilencesPass` said that no silence at all reads as held: three do.
* `RowsTellWhatReached` took every row to be written.
* `FiringIsTold` held under an assumption that kept every card inside the sweep's
  look-back, and `ArrivalOrder` under one that kept every alert on the boot's page.
  Both now except what ages out or falls off, and assume nothing.

Where the model was put in another form so that it can be reasoned about, it says
the same: `Memory` picks the n-th line of a text by its place (`At`), and `Audit`
cuts the sequence at the number of lines of earlier days, where both filtered
sequences before. Two assumptions on constants are the modelling's own: a
stand-in value is none of the values it stands beside (`Nobody` of `Watch`,
`Tidied` of `Audit`, the silences of `Posture`).

Out of this prover's reach, and left to TLC: liveness and `ENABLED` (`Settles`,
`EveryAlertJudged`, `ApprovedEnds`), and anything that needs an induction over
data or a `RECURSIVE` operator (no module here declares one). Every
safety property that a run checks is proved. What a run shows of a
composite's part it shows of that module on its own, as the parts share nothing.

## 6. Findings

Each is a violation run: TLC's counterexample from the model of the code against
a sentence of the repository (quoted in `PROJECT.json`).

| Run | What happens |
|---|---|
| `runs_adrift` | A Stop whose cancel lands in the pause before a retry kills the task outside the handler that settles runs: the run stays `running`, and neither stop, retry nor a follow-up is let in until the next boot. |
| `turns_crossed` | The engine keeps one interrupt handle and the service runs two turns at once: a stop or a clock meant for the first interrupts the second. |
| `recovery_missed` | A recovery is written on the run of its condition that ended last, a notice included; the answer that is given for nothing reads no notices, so the next firing is answered from the episode that is over. |

Also seen while modelling; the models behave so, and no run is kept for them.
Where a sentence of the repository says otherwise it is named.

**The pipe**

* outbox: a half-open probe whose booking raises is never given back
  (`delivery.py:231`), though "every promise ends in exactly
  one of sent / dead" (`store.py:4`); `Settles` excuses it.
* front door: dedup reads the ledger outside the transaction that inserts
  (`processors.py:98`), so two restatements in flight are both routed, although
  `store.py:182` says the race is closed. A third copy names the second as its
  first event, and each repeat extends the dedup window (`store.py:193`).
* the walk: the brain may rename an event after the silence stage
  (`processors.py:550`), and the name it goes out under is then one nobody asked
  the silences about; `RoutedWasLetThrough` speaks of the title that was asked. A
  brain's answer that is no JSON object is no case of `on_error`: it raises out of
  the walk (`Judge`'s last disjunct) and the event is not recorded.
* configuration: a `set` stage that writes a constant into the only fingerprint
  field is accepted; so are the fields of a template that another always claims
  before (`NamesAreReadable` excepts these as `Unreached`). `GET /config` masks
  inline secrets and a `PUT` of that text makes the mask the secret. A request
  read under the old document is walked under the new one. A silence pressed on
  a card stores the recorded, cut title; the stage compares the full one.
* threads: a notice returns under a session of its own and becomes the newest
  return that carried one, so later replies in that chain are declined, where
  `store.py:773` says such a return "is the investigation a follow-up continues".
  A reply carries the session too, so the reply after it gets `lark-thread` as
  its return source (`store.py:811` says the door the report came through).
* fold: a recovery folded by a race is never sent though the last card says
  firing; after a settle the window counts from the original arrival. Absence: a
  door that speaks between the look and the alarm is reported silent.
* cards: a second press after a 409 or a crash is told "already recorded" though
  nothing was; the bridge paints ✗ after 15 s while the pipe recorded the press;
  a redelivery answered `in_flight` counts as delivered though the handoff may
  later fail; a handoff whose answer was lost is made again; an alert that was
  judged again has a new row, on which an older press delivered again stands alone;
  `record_ruling` of
  the investigator (`service.py:1024`) takes the last to arrive, the judge the
  last to be pressed.

**The judge**

* the boot replay reads one page of intake (`store.py:261`), so rows past
  it wait for another restart, behind newer alerts (`offPage`); a replayed alert past the reuse window, or whose
  first verdict fell back to the rules, is billed again (`app.py:428`).
* return leg: the page is cut by the attempt clock before backoff is looked at
  (`store.py:569`), so rows not yet due hide one that is; a return that is dead
  may have been taken by the pipe, its reply lost (`app.py:327`).
* verdict: every 200 renews the remembered form (`judge.py:607`), so under steady
  traffic it is never "re-negotiated after this long" (`judge.py:414`).
  `is_recovery` joins the values of all fields and reads the end of the text, so
  `status=resolved` followed by another field is no recovery, where
  `contract.py` speaks of "a STRUCTURED state field". A 200 whose body is no
  object raises outside the handler and the alert is lost, with an alarm.

**The investigator**

* runs: a cancelled task leaves its turn in the engine behind the shield
  (`service.py:1413`), unheard and unbooked; after a Stop and a retry two turns
  may run on one engine session, and more than `max_concurrent` in all, where
  `runs.py:199` bounds the unbooked by that. A turn a person stopped that ends in a transient error is retried,
  and one that ends in an answer completes. `retry` is documented as not gated
  by the budget (`service.py:717`), but a relay run meets the meter at its slot.
  Retries are counted per run where the docstring says per turn
  (`service.py:2008`). A lost attempt's bill is in memory only until the pause
  before the retry ends. A report not yet taken at a restart is not sent again
  (`ReportInHand` allows `cut`). A late delivery overwrites the `return_status`
  and `finished_at` of a newer turn (`notify.py:201`). "timed out after 1500s
  (interrupted...)" contains the marker "500" and is retried (`engine.py:536`).
* answers without an engine: "recently verified" counts any run of the title that
  ended lately, failed, refused or a drill's, where the docstring of
  `_runbook_answer` wants "a REAL run"; `_vouching_run` takes any useful ruling in
  the window, also when a newer look failed, and leaves out runbook answers and
  drills only (`service.py:604`), where `service.py:440` says that "only a REAL
  useful run vouches" and `service.py:587` "the most recent REAL investigation". A
  press resolves to the newest run with its correlation id (`events.py:465`), which
  may be a notice that copied it: TLC finds a `useful` filed on a notice, and the
  next firing answered on its word, in five steps. `run_rulings.py`
  says a ruling "gates nothing, spends nothing"; it licenses these answers.
* fix: a notice is a run of its condition and can take the recovery meant for
  the investigation (`service.py:1242`), which leaves a waiting procedure
  approvable (`OvertakenNeverRuns` is of the proposal's own run); the same steps proposed again get the
  old row, whose cursor has moved (`service.py:1587`); a re-fire that opens a
  session of its own or meets a spent budget is no evidence (`events.py:846`);
  two refusals share a notice key, so the second is silent (`service.py:1758`);
  with the window turned off ("0 turns it off", `settings.py:260`) the sweep tells
  "held" at once (`remediation.py:1010`), the next firing its run claims stamps
  "did not hold" (`remediation.py:1043`) and nobody is told, where
  `remediation.py:1029` says "the first answer stands" and `service.py:1919` that
  "the evidence is stamped once"; inside a window the same follows from a recovery
  whose stamp could not be saved (`remediation.py:1055`). `ToldStands` excepts these
  two, which TLC finds within seven steps without the exceptions.
* procedure: a later step that needs a shell passes every gate of the press,
  which asks `step_deny_reason` only, and is refused at its turn by `argv_for`
  (`remediation.py:775`, `906`), although a half executable proposal is to be
  "refused whole" (`remediation.py:702`).
* memory: the editor's `PUT /v1/memory` takes no lock and carries no version,
  where `_write_memory` says both write under one; a save of a page opened
  earlier wipes a line accepted meanwhile. A row is marked accepted before its line is written, so a write that
  fails loses it: a second press reads "already resolved". `FactsAreKept` asks of
  the memory only that nothing stands there unapproved. No door records the
  approval a "sampling review" is said to give, so no class earns a tier by record.
* library: restoring a withdrawn runbook always fails, restoring the oldest of
  the kept versions prunes it; a consolidation run that fails records no attempt,
  so each later investigation pays for another; a write that failed is not tried
  again once the manifest is full, as its count then grows no more, where
  `distill_loop.py:104` wants one run per `threshold` new cases.
  A consolidation drafted from an older manifest overwrites what landed since
  (the version is kept). Kept versions are sorted by the second in their names:
  after a clock set back, or ten writes in one second, a full history prunes the
  version that was just displaced. `Library!Snapshot` keeps them by position, that
  is, it takes the clock to run forward and writes to be a second apart, and
  `NothingIsDestroyed` is shown under that.
* audit: a writer that chose yesterday's file and waits for the lock behind one
  that chose today's makes an honest chain read as broken; so does a head whose
  write failed after its line, and an unchained line, which the docstring says is
  "never treated as a break". Readers open the newest seven files
  (`audit.py:42`): what is older is unread, and a head in it reads as gone. A line
  rewritten without its link, with the links of all lines before it taken out, or a
  beginning deleted, is counted as a gap (`audit.py:174`, `194`): the chain is
  intact and the head that left is still in it, where `audit.py:28` says "an edit or
  a deletion after the fact stops the chain" and `audit.py:116` "a record rewritten
  here later fails twice". `TamperShows` says what remains: what such an edit leaves
  linked is what it was. A turn over midnight is judged ungated, as `consulted` and `trips` read today's
  file only (`engine_codex.py:119`).
* gate: only the spawned gate records `output_secret` (`gate.py:431`), though
  "both mechanisms call it"; a spawned engine's line over 64 KiB raises and the
  child is left running.
* alarm: a page swallowed by the quiet window still starts six hours of silence
  about its kind. A turn that is cut is not asked whether its gate was consulted.
* posture: three silences read as a boundary that holds: `can-i --list` that
  answers in part and exits 0 (`posture.py:242`), a metadata service that does not
  answer in a second (`posture.py:302`), and a CLI that finds no credentials
  (`posture.py:327`), where `unverifiable` is what an unanswered question gives
  elsewhere. `OnlyKnownSilencesPass` names them.
* replay: one stop ends every rehearsal in flight. A run's changes to its inputs
  are lost when its turn raises.

**The deployment**

* watch: a message posted while Jira is asked, after the clock was read, lies
  behind the cursor and is never fetched (`watch_scan.py`; the property's `gap`);
  a batched feed that keeps failing is never given up; the note that a chat could
  not be reached is marked given though its round was lost.
* signer: a post of a round older than both kept ones fails; an answer cut after
  the door took the signal gives the slot back.
* tool gate: its ledger is best effort (`sidecars/common.py:62`), so a call may run
  with no row (`unlogged`).
* bridge: a thread post that times out raises after the card has landed, and the
  retried delivery posts it again; the messages consumer may open the bus itself.

## 7. Not modelled

The live board (a set of subscribers that wakes pages), reports, pages, metrics,
telemetry and work lists that only read, retention and export (they delete and
copy files by age), the forwarder, and what only formats: templates' rendering,
adapters, redaction, prompts, prices, wire formats, signature arithmetic. They
keep no state that two actors share. Build, release and demonstration scripts
are no part of the running system. The record by which a person sets the tiers of
automation is left out, as only a page reads it. What is
abstracted inside the modelled components is said in each component's note in
`PROJECT.json`.

Abstractions that matter to a reader of the results:

* SQLite's write lock is taken as exclusive and its commits as durable.
* `Delivery`: a reload changes which channels exist, not their limits.
* A webhook's outcome at the peer is a choice; what the peer does with it is
  the peer's own module.
* `Procedure`: output, redaction, the audit chain and a command's effect are
  out; a command is a name. A child process that outlives the service is out.
* `Remediation`: what an agent finds is a choice; retention of runs is out.
* `RunLifecycle`: a bill is one or nothing; a session of the pipe is one a
  report goes back for; `return_status`, `finished_at`, what a report says, and
  the page of 1000 runs the boot looks at are out; files take every write.
* `FrontDoor`: one source, verification already passed; the stages after dedup
  are a choice between routed and held; a fingerprint is an alert's name.
* `Config`: a field of a template reads the payload's key of the same name; the
  condition of a `set` stage is out. `Walk`: a condition is the set of values it
  accepts; of the extracted fields there is one, and the body, which no stage
  reads, is out.
* `Thread`: chains are shorter than the eight hops up and five down at which the
  walk stops. `Refire`: no two stamps are equal; one condition title.
* `Hooks`: a rule's expression is a class of calls, a path what it resolves to.
* `Runtime`: rates are as stated; what an agent says is out. `Library`, `Memory`:
  a case, a line is a value. `Watch`: no two messages share a second.
* The bus, the chat, Jira, the cluster and the agents' programs are third
  parties: they answer as they like.

## 8. Plan

What is left, in this order:

1. Abstract specifications: the watch as a log read from a cursor, the audit file
   as an append-only sequence.
2. In `Delivery`, the limits made part of the config that a reload changes.
3. Compositions: `Delivery` with `Judge` and `ReturnLeg` as the round trip of
   an alert, which ends in a card or in a dead row somebody can see.
