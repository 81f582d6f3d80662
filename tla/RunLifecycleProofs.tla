-------------------------- MODULE RunLifecycleProofs --------------------------
(***************************************************************************)
(* Theorems about RunLifecycle, for all sessions and every bound.          *)
(***************************************************************************)
EXTENDS RunLifecycle, TLAPS

-----------------------------------------------------------------------------
(***************************************************************************)
(* Records.  A sound record has booked every turn but the one in flight;   *)
(* each way a turn begins or ends leads from one to another.               *)
(***************************************************************************)
Sound == {r \in Record : r.booked = IF r.status = "running" THEN r.id - 1 ELSE r.id}

LEMMA UnbornSound == Unborn \in Sound /\ Unborn.status = "none"
BY RunAssumption DEF Unborn, Sound, Record, Statuses

\* One more turn on a record that has booked all it has.
LEMMA OpenedSound ==
  ASSUME NEW r \in Record, r.booked = r.id
  PROVE  /\ Opened(r) \in Sound
         /\ Opened(r).status = "running" /\ Opened(r).id = r.id + 1
         /\ Opened(r).resumes = r.resumes /\ Opened(r).autos = r.autos
<1>1. r.id \in Nat /\ r.id + 1 \in Nat
  BY DEF Record
<1>2. Opened(r) \in Record
  BY <1>1 DEF Opened, Record, Statuses
<1>3. /\ Opened(r).status = "running" /\ Opened(r).id = r.id + 1
      /\ Opened(r).booked = r.booked
      /\ Opened(r).resumes = r.resumes /\ Opened(r).autos = r.autos
  BY DEF Opened, Record
<1>. QED BY <1>1, <1>2, <1>3 DEF Sound

\* Booking changes the two counters of the ledger and nothing else.
LEMMA BookedRecord ==
  ASSUME NEW r \in Record, NEW bill \in {0, 1}
  PROVE  /\ Booked(r, bill) \in Record
         /\ Booked(r, bill).booked = r.booked + 1
         /\ Booked(r, bill).id = r.id /\ Booked(r, bill).status = r.status
         /\ Booked(r, bill).resumes = r.resumes /\ Booked(r, bill).autos = r.autos
         /\ Booked(r, bill).sid = r.sid
<1> DEFINE booked == r.booked + 1
           spent  == r.spent + bill
<1>1. booked \in Nat /\ spent \in Nat
  BY DEF Record
<1>2. Booked(r, bill) \in Record
  <2>1. Booked(r, bill) = [r EXCEPT !.booked = booked, !.spent = spent]
    BY DEF Booked, Record
  <2> HIDE DEF booked, spent
  <2>2. [r EXCEPT !.booked = booked, !.spent = spent] \in Record
    BY <1>1 DEF Record
  <2>. QED BY <2>1, <2>2
<1>3. Booked(r, bill).booked = r.booked + 1
  BY DEF Booked, Record
<1>4. /\ Booked(r, bill).id = r.id /\ Booked(r, bill).status = r.status
      /\ Booked(r, bill).resumes = r.resumes /\ Booked(r, bill).autos = r.autos
      /\ Booked(r, bill).sid = r.sid
  BY DEF Booked, Record
<1>. QED BY <1>2, <1>3, <1>4

\* A running record that is settled is sound and finished.
LEMMA SettledSound ==
  ASSUME NEW r \in Sound, r.status = "running",
         NEW status \in {"completed", "failed"}, NEW bill \in {0, 1}
  PROVE  /\ Settled(r, status, bill) \in Sound
         /\ Settled(r, status, bill).status = status
         /\ Settled(r, status, bill).id = r.id
         /\ Settled(r, status, bill).resumes = r.resumes
         /\ Settled(r, status, bill).autos = r.autos
         /\ Finished(Settled(r, status, bill))
<1>1. r \in Record /\ r.booked = r.id - 1 /\ r.id \in Nat
  BY DEF Sound, Record
<1> DEFINE b == Booked(r, bill)
<1>2. b \in Record /\ b.booked = r.booked + 1 /\ b.id = r.id
      /\ b.resumes = r.resumes /\ b.autos = r.autos
  BY <1>1, BookedRecord
<1>3. Settled(r, status, bill) = [b EXCEPT !.status = status]
  BY DEF Settled
<1> HIDE DEF b
<1>4. [b EXCEPT !.status = status] \in Record
  BY <1>2 DEF Record, Statuses
<1>5. [b EXCEPT !.status = status].status = status
      /\ [b EXCEPT !.status = status].id = r.id
      /\ [b EXCEPT !.status = status].booked = r.id
      /\ [b EXCEPT !.status = status].resumes = r.resumes
      /\ [b EXCEPT !.status = status].autos = r.autos
  BY <1>1, <1>2 DEF Record
<1>. QED BY <1>3, <1>4, <1>5 DEF Sound, Finished

\* The retry of a running record: one turn booked, one opened, one counted.
LEMMA RetriedSound ==
  ASSUME NEW r \in Sound, r.status = "running", NEW bill \in {0, 1},
         r.autos < MaxAutoRetries
  PROVE  LET n == Opened([Booked(r, bill) EXCEPT !.autos = @ + 1]) IN
         /\ n \in Sound /\ n.status = "running"
         /\ n.resumes = r.resumes /\ n.autos = r.autos + 1
<1>1. r \in Record /\ r.booked = r.id - 1 /\ r.id \in Nat
  BY DEF Sound, Record
<1> DEFINE b == Booked(r, bill)
           c == [b EXCEPT !.autos = @ + 1]
<1>2. b \in Record /\ b.booked = r.booked + 1 /\ b.id = r.id
      /\ b.resumes = r.resumes /\ b.autos = r.autos
  BY <1>1, BookedRecord
<1> HIDE DEF b
<1>3. c \in Record /\ c.booked = c.id /\ c.resumes = r.resumes /\ c.autos = r.autos + 1
  BY <1>1, <1>2, RunAssumption DEF Record
<1> HIDE DEF c
<1>4. Opened(c) \in Sound /\ Opened(c).status = "running"
      /\ Opened(c).resumes = r.resumes /\ Opened(c).autos = r.autos + 1
  BY <1>3, OpenedSound
<1>. QED BY <1>4 DEF b, c

\* The resume of one left mid-flight.
LEMMA ResumedSound ==
  ASSUME NEW r \in Sound, r.status = "running", r.resumes < MaxResumes
  PROVE  /\ Resumed(r) \in Sound /\ Resumed(r).status = "running"
         /\ Resumed(r).resumes = r.resumes + 1 /\ Resumed(r).autos = r.autos
<1>1. r \in Record /\ r.booked = r.id - 1 /\ r.id \in Nat
  BY DEF Sound, Record
<1> DEFINE b == Booked(r, 0)
           c == [b EXCEPT !.resumes = @ + 1]
<1>2. b \in Record /\ b.booked = r.booked + 1 /\ b.id = r.id
      /\ b.resumes = r.resumes /\ b.autos = r.autos
  BY <1>1, BookedRecord
<1> HIDE DEF b
<1>3. c \in Record /\ c.booked = c.id /\ c.autos = r.autos /\ c.resumes = r.resumes + 1
  BY <1>1, <1>2, RunAssumption DEF Record
<1> HIDE DEF c
<1>4. Opened(c) \in Sound /\ Opened(c).status = "running"
      /\ Opened(c).autos = r.autos /\ Opened(c).resumes = r.resumes + 1
  BY <1>3, OpenedSound
<1>. QED BY <1>4 DEF b, c, Resumed

\* Learning the engine's session keeps a record as it is.
LEMMA KnownSound ==
  ASSUME NEW r \in Sound, NEW sid \in BOOLEAN
  PROVE  LET n == [r EXCEPT !.sid = sid] IN
         /\ n \in Sound /\ n.status = r.status /\ n.id = r.id /\ n.booked = r.booked
         /\ n.resumes = r.resumes /\ n.autos = r.autos
BY DEF Sound, Record

-----------------------------------------------------------------------------
(***************************************************************************)
(* The first layer: sound records in memory and on disk, a task only for a *)
(* running run, and a finished run on disk as it is in memory.             *)
(***************************************************************************)
RunsSound == run \in [Sessions -> Sound] /\ disk \in [Sessions -> Sound]

LoopTyped ==
    /\ task \in [Sessions -> Task \cup {NoTask}]
    /\ engine \subseteq Turn /\ handle \in Turn \cup {NoTurn}
    /\ stopReq \subseteq Sessions /\ closers \subseteq Closer
    /\ posts \subseteq Turn /\ closing \in BOOLEAN

HistTyped ==
    /\ unasked \in [Sessions -> Nat] /\ adrift \subseteq Sessions
    /\ returned \subseteq Turn /\ cut \subseteq Turn
    /\ asks \in 0..MaxAsks /\ stops \in 0..MaxStops /\ restarts \in 0..MaxRestarts

\* Only a running run has a task.
Tasked == \A s \in Sessions : task[s] # NoTask => Running(s)

\* What is finished is on file.
OnDisk == \A s \in Sessions : Finished(run[s]) => disk[s] = run[s]

RunInv == RunsSound /\ LoopTyped /\ HistTyped /\ Tasked /\ OnDisk

LEMMA RunTyped == RunInv => TypeOK /\ BookedOnce
BY DEF RunInv, RunsSound, LoopTyped, HistTyped, TypeOK, BookedOnce, Sound

\* A record written for one session, whose task is there only if it runs.
LEMMA Written ==
  ASSUME RunInv, NEW s \in Sessions, NEW r \in Sound, Write(s, r),
         task'[s] # NoTask => r.status = "running",
         \A q \in Sessions \ {s} : task'[q] # NoTask => task[q] # NoTask
  PROVE  /\ RunsSound' /\ Tasked' /\ OnDisk'
         /\ run'[s] = r /\ disk'[s] = r
         /\ \A q \in Sessions \ {s} : run'[q] = run[q] /\ disk'[q] = disk[q]
<1>1. run \in [Sessions -> Sound] /\ disk \in [Sessions -> Sound]
  BY DEF RunInv, RunsSound
<1>2. /\ run' \in [Sessions -> Sound] /\ disk' \in [Sessions -> Sound]
      /\ run'[s] = r /\ disk'[s] = r
      /\ \A q \in Sessions \ {s} : run'[q] = run[q] /\ disk'[q] = disk[q]
  BY <1>1 DEF Write
<1>3. Tasked'
  BY <1>2 DEF RunInv, Tasked, Running
<1>4. OnDisk'
  BY <1>2 DEF RunInv, OnDisk
<1>. QED BY <1>2, <1>3, <1>4 DEF RunsSound

\* Records untouched, tasks at most fewer.
LEMMA Unwritten ==
  ASSUME RunInv, UNCHANGED stored,
         \A q \in Sessions : task'[q] # NoTask => task[q] # NoTask
  PROVE  RunsSound' /\ Tasked' /\ OnDisk'
BY DEF RunInv, RunsSound, Tasked, OnDisk, stored, Running

\* A settled turn's report is on its way.
LEMMA PostTyped ==
  ASSUME NEW s \in Sessions, NEW r \in Record
  PROVE  Post(s, r) \subseteq Turn
BY DEF Post, Turn, Record

\* What a listening task is, and what the phases say of it.
LEMMA TaskTyped ==
  ASSUME RunInv, NEW s \in Sessions, task[s].phase \in Phases
  PROVE  /\ task[s] \in Task /\ task[s] # NoTask
         /\ Own(s) \in Turn /\ Running(s)
<1>1. task[s] # NoTask
  BY DEF NoTask, Phases
<1>2. task[s] \in Task
  BY <1>1 DEF RunInv, LoopTyped
<1>3. Own(s) \in Turn
  BY <1>2 DEF Own, Turn, Task
<1>. QED BY <1>1, <1>2, <1>3 DEF RunInv, Tasked

LEMMA RunInit == Init => RunInv
<1> SUFFICES ASSUME Init PROVE RunInv
  OBVIOUS
<1>1. RunsSound
  BY UnbornSound DEF Init, RunsSound
<1>2. LoopTyped
  BY DEF Init, LoopTyped
<1>3. HistTyped
  BY RunAssumption DEF Init, HistTyped
<1>4. Tasked
  BY DEF Init, Tasked
<1>5. OnDisk
  BY DEF Init, OnDisk
<1>. QED BY <1>1, <1>2, <1>3, <1>4, <1>5 DEF RunInv

\* A turn spawned on a sound, running record.
LEMMA Spawned ==
  ASSUME RunInv, NEW s \in Sessions, NEW r \in Sound, r.status = "running",
         Spawn(s, r), UNCHANGED closing
  PROVE  RunsSound' /\ Tasked' /\ OnDisk' /\ LoopTyped'
<1>1. r.id \in Nat
  BY DEF Sound, Record
<1> DEFINE new == [phase |-> "queued", id |-> r.id]
<1>2. new \in Task
  BY <1>1 DEF Task, Phases
<1>3. Write(s, r) /\ stopReq' = stopReq \ {s} /\ task' = [task EXCEPT ![s] = new]
      /\ UNCHANGED <<engine, handle, closers, posts>>
  BY DEF Spawn
<1> HIDE DEF new
<1>4. task \in [Sessions -> Task \cup {NoTask}]
  BY DEF RunInv, LoopTyped
<1>5. /\ task' \in [Sessions -> Task \cup {NoTask}]
      /\ \A q \in Sessions \ {s} : task'[q] = task[q]
  BY <1>2, <1>3, <1>4
<1>6. LoopTyped'
  BY <1>3, <1>5 DEF RunInv, LoopTyped
<1>. QED BY <1>3, <1>5, <1>6, Written

\* A turn that was in flight, settled, its task gone.
LEMMA SettledAway ==
  ASSUME RunInv, NEW s \in Sessions, NEW r \in Sound, Settle(s, r), LeaveTask(s),
         engine' \subseteq engine, handle' \in {handle, NoTurn},
         stopReq' \subseteq stopReq, closers' \subseteq Closer, UNCHANGED closing
  PROVE  RunsSound' /\ Tasked' /\ OnDisk' /\ LoopTyped'
<1>1. Write(s, r) /\ posts' = posts \cup Post(s, r) /\ r \in Record
  BY DEF Settle, Sound
<1>2. task \in [Sessions -> Task \cup {NoTask}]
  BY DEF RunInv, LoopTyped
<1>3. /\ task' \in [Sessions -> Task \cup {NoTask}] /\ task'[s] = NoTask
      /\ \A q \in Sessions \ {s} : task'[q] = task[q]
  BY <1>2 DEF LeaveTask
<1>4. posts' \subseteq Turn
  BY <1>1, PostTyped DEF RunInv, LoopTyped
<1>5. LoopTyped'
  BY <1>3, <1>4 DEF RunInv, LoopTyped
<1>. QED BY <1>1, <1>3, <1>5, Written

\* What an action of asking leaves in the histories.
LEMMA HistKept ==
  ASSUME RunInv, UNCHANGED hist, UNCHANGED <<stops, restarts>>,
         asks' \in {asks, asks + 1}, asks' <= MaxAsks
  PROVE  HistTyped'
BY RunAssumption DEF RunInv, HistTyped, hist

LEMMA RunAsked ==
  ASSUME RunInv, NEW s \in Sessions, Start(s) \/ Continue(s) \/ Retry(s)
  PROVE  RunInv'
<1>0. run[s] \in Sound /\ run[s] \in Record /\ asks \in 0..MaxAsks
  BY DEF RunInv, RunsSound, HistTyped, Sound
<1>1. HistTyped'
  BY <1>0, HistKept, RunAssumption DEF Start, Continue, Retry, Ask, hist
<1>2. UNCHANGED closing
  BY DEF Start, Continue, Retry
<1>3. CASE Start(s)
  <2> DEFINE r == Opened(Unborn)
  <2>1. r \in Sound /\ r.status = "running" /\ run[s] = Unborn
    BY <1>3, UnbornSound, OpenedSound DEF Start, Sound, Unborn
  <2>2. r = Opened(Unborn)
    OBVIOUS
  <2> HIDE DEF r
  <2>3. ASSUME NEW status \in {"completed", "failed"}, Settle(s, Settled(r, status, 0)),
               UNCHANGED <<turns, stopped>>
        PROVE  RunInv'
    <3>1. Settled(r, status, 0) \in Sound
      BY <2>1, SettledSound
    <3>2. task[s] = NoTask
      BY <2>1 DEF RunInv, Tasked, Running, Unborn
    <3>3. task' = task
      BY <2>3 DEF turns
    <3>4. LeaveTask(s)
      BY <3>2, <3>3 DEF LeaveTask, RunInv, LoopTyped
    <3>5. RunsSound' /\ Tasked' /\ OnDisk' /\ LoopTyped'
      BY <1>2, <2>3, <3>1, <3>4, SettledAway DEF turns, stopped, RunInv, LoopTyped
    <3>. QED BY <1>1, <3>5 DEF RunInv
  <2>4. ASSUME Spawn(s, r) PROVE RunInv'
    BY <1>1, <1>2, <2>1, <2>4, Spawned DEF RunInv
  <2>. QED BY <1>3, <2>2, <2>3, <2>4 DEF Start
<1>4. CASE Continue(s) \/ Retry(s)
  <2>1. Finished(run[s]) /\ Spawn(s, Opened(run[s]))
    BY <1>4 DEF Continue, Retry, Finished
  <2>2. Opened(run[s]) \in Sound /\ Opened(run[s]).status = "running"
    BY <1>0, <2>1, OpenedSound DEF Sound, Finished
  <2>. QED BY <1>1, <1>2, <2>1, <2>2, Spawned DEF RunInv
<1>. QED BY <1>3, <1>4

\* Histories and bounds that a step leaves alone keep their types.
LEMMA HistStill ==
  ASSUME RunInv, UNCHANGED <<hist, bounds>> PROVE HistTyped'
BY DEF RunInv, HistTyped, hist, bounds

LEMMA RunSlot ==
  ASSUME RunInv, NEW s \in Sessions, EnterSlot(s) PROVE RunInv'
<1>1. Running(s) /\ task[s] \in Task /\ Own(s) \in Turn /\ run[s] \in Sound
  BY TaskTyped DEF EnterSlot, Phases, RunInv, RunsSound
<1>2. HistTyped' /\ UNCHANGED closing
  BY HistStill DEF EnterSlot
<1>3. CASE Settle(s, Settled(run[s], "failed", 0)) /\ LeaveTask(s) /\ UNCHANGED <<engine, handle>>
  <2>1. Settled(run[s], "failed", 0) \in Sound
    BY <1>1, SettledSound DEF Running
  <2>2. RunsSound' /\ Tasked' /\ OnDisk' /\ LoopTyped'
    BY <1>2, <1>3, <2>1, SettledAway DEF EnterSlot, stopped, RunInv, LoopTyped
  <2>. QED BY <1>2, <2>2 DEF RunInv
<1>4. CASE /\ task' = [task EXCEPT ![s].phase = "turn"]
           /\ engine' = engine \cup {Own(s)} /\ handle' = Own(s)
           /\ UNCHANGED <<stored, posts>>
  <2>1. /\ task' \in [Sessions -> Task \cup {NoTask}]
        /\ \A q \in Sessions : task'[q] # NoTask => task[q] # NoTask
    BY <1>1, <1>4 DEF RunInv, LoopTyped, Task, Phases, NoTask
  <2>2. LoopTyped'
    BY <1>1, <1>2, <1>4, <2>1 DEF EnterSlot, stopped, RunInv, LoopTyped
  <2>. QED BY <1>2, <1>4, <2>1, <2>2, Unwritten DEF RunInv
<1>. QED BY <1>3, <1>4 DEF EnterSlot

LEMMA RunKnown ==
  ASSUME RunInv, NEW t \in engine, SessionKnown(t) PROVE RunInv'
<1> DEFINE s == t[1]
           r == [run[s] EXCEPT !.sid = TRUE]
<1>1. s \in Sessions /\ run[s] \in Sound
  BY DEF RunInv, RunsSound, LoopTyped, Turn
<1>2. r \in Sound /\ r.status = run[s].status /\ Write(s, r)
  BY <1>1, KnownSound DEF SessionKnown
<1>3. UNCHANGED <<turns, stopped, posts, closing, hist, bounds>>
  BY DEF SessionKnown
<1> HIDE DEF s, r
<1>4. task[s] # NoTask => r.status = "running"
  BY <1>1, <1>2 DEF RunInv, Tasked, Running
<1>5. RunsSound' /\ Tasked' /\ OnDisk'
  BY <1>1, <1>2, <1>3, <1>4, Written DEF turns
<1>6. LoopTyped'
  BY <1>3 DEF RunInv, LoopTyped, turns, stopped
<1>. QED BY <1>3, <1>5, <1>6, HistStill DEF RunInv

\* The three endings of a turn that is listened to.
LEMMA RunTurnEnds ==
  ASSUME RunInv, NEW s \in Sessions, TurnEnds(s) PROVE RunInv'
<1>1. /\ Running(s) /\ task[s] \in Task /\ run[s] \in Sound /\ run[s].sid \in BOOLEAN
  BY TaskTyped DEF TurnEnds, Listens, Phases, RunInv, RunsSound, Sound, Record
<1>2. HistTyped' /\ UNCHANGED <<closing, stopped>> /\ EngineDrops(Own(s))
  BY HistStill DEF TurnEnds
<1>3. PICK bill \in {0, 1}, sid \in {run[s].sid, TRUE} :
        LET r == [run[s] EXCEPT !.sid = sid] IN
        \/ /\ task[s].phase = "turn"
           /\ Settle(s, Settled(r, "completed", bill)) /\ LeaveTask(s)
        \/ Settle(s, Settled(r, "failed", bill)) /\ LeaveTask(s)
        \/ RetryTransient(s, r, bill)
  BY DEF TurnEnds
<1> DEFINE r == [run[s] EXCEPT !.sid = sid]
<1>4. r \in Sound /\ r.status = "running" /\ r.autos = run[s].autos
  <2>1. sid \in BOOLEAN
    BY <1>1
  <2>2. /\ r \in Sound /\ r.status = run[s].status /\ r.autos = run[s].autos
    BY <1>1, <2>1, KnownSound
  <2>. QED BY <1>1, <2>2 DEF Running
<1>5. \/ \E status \in {"completed", "failed"} : Settle(s, Settled(r, status, bill)) /\ LeaveTask(s)
      \/ RetryTransient(s, r, bill)
  BY <1>3
<1> HIDE DEF r
<1>6. CASE \E status \in {"completed", "failed"} : Settle(s, Settled(r, status, bill)) /\ LeaveTask(s)
  <2>1. PICK status \in {"completed", "failed"} : Settle(s, Settled(r, status, bill)) /\ LeaveTask(s)
    BY <1>6
  <2>2. Settled(r, status, bill) \in Sound
    BY <1>4, SettledSound
  <2>3. RunsSound' /\ Tasked' /\ OnDisk' /\ LoopTyped'
    BY <1>2, <2>1, <2>2, SettledAway DEF EngineDrops, stopped, RunInv, LoopTyped
  <2>. QED BY <1>2, <2>3 DEF RunInv
<1>7. CASE RetryTransient(s, r, bill)
  <2> DEFINE n == Opened([Booked(r, bill) EXCEPT !.autos = @ + 1])
  <2>1. n \in Sound /\ n.status = "running"
    BY <1>4, <1>7, RetriedSound DEF RetryTransient
  <2>2. run' = [run EXCEPT ![s] = n] /\ task' = [task EXCEPT ![s].phase = "backoff"]
        /\ UNCHANGED <<disk, posts>>
    BY <1>7 DEF RetryTransient
  <2> HIDE DEF n
  <2>3. RunsSound' /\ run'[s] = n /\ \A q \in Sessions \ {s} : run'[q] = run[q]
    BY <2>1, <2>2 DEF RunInv, RunsSound
  <2>4. /\ task' \in [Sessions -> Task \cup {NoTask}]
        /\ \A q \in Sessions \ {s} : task'[q] = task[q]
    BY <1>1, <2>2 DEF RunInv, LoopTyped, Task, Phases
  <2>5. Tasked' /\ OnDisk'
    BY <2>1, <2>2, <2>3, <2>4 DEF RunInv, Tasked, OnDisk, Running, Finished
  <2>6. LoopTyped'
    BY <1>2, <2>2, <2>4 DEF EngineDrops, stopped, RunInv, LoopTyped
  <2>. QED BY <1>2, <2>3, <2>5, <2>6 DEF RunInv
<1>. QED BY <1>5, <1>6, <1>7

\* The pause is over: what was held in memory is written and queued.
LEMMA RunBackoff ==
  ASSUME RunInv, NEW s \in Sessions, BackoffEnds(s) PROVE RunInv'
<1>1. Running(s) /\ run[s] \in Sound
  BY TaskTyped DEF BackoffEnds, Phases, RunInv, RunsSound
<1>2. Spawn(s, run[s]) /\ UNCHANGED closing
  BY DEF BackoffEnds
<1>3. HistTyped'
  BY DEF BackoffEnds, RunInv, HistTyped, bounds
<1>. QED BY <1>1, <1>2, <1>3, Spawned DEF RunInv, Running

LEMMA RunKilled ==
  ASSUME RunInv, NEW s \in Sessions, Running(s), Killed(s),
         UNCHANGED <<stopped, closing, hist, bounds>>
  PROVE  RunInv'
<1>1. Settled(run[s], "failed", 0) \in Sound
  BY SettledSound DEF RunInv, RunsSound, Running
<1>2. RunsSound' /\ Tasked' /\ OnDisk' /\ LoopTyped'
  BY <1>1, SettledAway DEF Killed, EngineDrops, stopped, RunInv, LoopTyped
<1>. QED BY <1>2, HistStill DEF RunInv

LEMMA RunClock ==
  ASSUME RunInv, NEW s \in Sessions, Timeout(s) \/ GraceOver(s) PROVE RunInv'
<1>1. Running(s) /\ task[s] \in Task
  BY TaskTyped DEF Timeout, GraceOver, Phases
<1>2. UNCHANGED <<stopped, closing, hist, bounds>>
  BY DEF Timeout, GraceOver
<1>3. CASE Killed(s)
  BY <1>1, <1>2, <1>3, RunKilled
<1>4. CASE task' = [task EXCEPT ![s].phase = "wind"] /\ UNCHANGED <<stored, engine, handle, posts>>
  <2>1. /\ task' \in [Sessions -> Task \cup {NoTask}]
        /\ \A q \in Sessions : task'[q] # NoTask => task[q] # NoTask
    BY <1>1, <1>4, TaskTyped DEF RunInv, LoopTyped, Task, Phases, Timeout, GraceOver, NoTask
  <2>2. LoopTyped'
    BY <1>2, <1>4, <2>1 DEF stopped, RunInv, LoopTyped
  <2>. QED BY <1>2, <1>4, <2>1, <2>2, Unwritten, HistStill DEF RunInv
<1>. QED BY <1>3, <1>4 DEF Timeout, GraceOver

\* Nobody listens, or nothing but a request to stop is noted.
LEMMA RunUnheard ==
  ASSUME RunInv, NEW t \in engine, UnheardEnds(t) PROVE RunInv'
<1>1. UNCHANGED <<stored, task, stopped, posts, closing, hist, bounds>> /\ EngineDrops(t)
  BY DEF UnheardEnds
<1>2. LoopTyped'
  BY <1>1 DEF EngineDrops, stopped, RunInv, LoopTyped
<1>. QED BY <1>1, <1>2, Unwritten, HistStill DEF RunInv

LEMMA RunStop ==
  ASSUME RunInv, NEW s \in Sessions, Stop(s) PROVE RunInv'
<1>1. task[s] \in Task
  BY DEF Stop, RunInv, LoopTyped
<1>2. LoopTyped'
  BY <1>1 DEF Stop, turns, RunInv, LoopTyped, Closer, Task
<1>3. HistTyped'
  BY RunAssumption DEF Stop, RunInv, HistTyped, hist
<1>. QED BY <1>2, <1>3, Unwritten DEF Stop, turns, RunInv

\* What a cancel does to a task, and to a run whose task is in the backoff.
LEMMA RunCancelled ==
  ASSUME RunInv, NEW s \in Sessions, Cancelled(s),
         closers' \subseteq Closer, UNCHANGED <<closing, unasked, returned, cut, bounds>>
  PROVE  RunInv'
<1>1. Running(s) /\ task[s] \in Task /\ run[s] \in Sound
  BY TaskTyped DEF Cancelled, Phases, RunInv, RunsSound
<1>2. HistTyped'
  BY DEF Cancelled, RunInv, HistTyped, bounds
<1>3. CASE task[s].phase = "backoff" /\ LeaveTask(s) /\ UNCHANGED <<stored, engine, handle, posts, stopReq>>
  <2>1. /\ task' \in [Sessions -> Task \cup {NoTask}]
        /\ \A q \in Sessions : task'[q] # NoTask => task[q] # NoTask
    BY <1>3 DEF LeaveTask, RunInv, LoopTyped
  <2>2. LoopTyped'
    BY <1>3, <2>1 DEF RunInv, LoopTyped
  <2>. QED BY <1>2, <1>3, <2>1, <2>2, Unwritten DEF RunInv
<1>4. CASE /\ Settle(s, Settled(run[s], "failed", 0)) /\ LeaveTask(s)
           /\ EngineDrops(Own(s)) \/ UNCHANGED <<engine, handle>>
           /\ stopReq' = stopReq \ {s}
  <2>1. Settled(run[s], "failed", 0) \in Sound
    BY <1>1, SettledSound DEF Running
  <2>2. engine' \subseteq engine /\ handle' \in {handle, NoTurn}
    BY <1>4 DEF EngineDrops
  <2>3. RunsSound' /\ Tasked' /\ OnDisk' /\ LoopTyped'
    BY <1>4, <2>1, <2>2, SettledAway
  <2>. QED BY <1>2, <2>3 DEF RunInv
<1>. QED BY <1>3, <1>4 DEF Cancelled

LEMMA RunCancel ==
  ASSUME RunInv, NEW c \in closers, Cancel(c),
         UNCHANGED <<closing, unasked, returned, cut, bounds>>
  PROVE  RunInv'
<1>1. c.of \in Sessions /\ closers' \subseteq Closer
  BY DEF RunInv, LoopTyped, Closer, Cancel
<1>2. CASE Cancelled(c.of)
  BY <1>1, <1>2, RunCancelled
<1>3. CASE UNCHANGED <<stored, turns, posts, stopReq, adrift>>
  <2>1. LoopTyped'
    BY <1>1, <1>3 DEF RunInv, LoopTyped, turns
  <2>2. HistTyped'
    BY <1>3 DEF RunInv, HistTyped, bounds
  <2>. QED BY <1>3, <2>1, <2>2, Unwritten DEF RunInv, turns
<1>. QED BY <1>2, <1>3 DEF Cancel

LEMMA RunCloser ==
  ASSUME RunInv, NEW c \in closers, CloserAsks(c) \/ CloserEnds(c) PROVE RunInv'
<1>1. UNCHANGED <<closing, unasked, returned, cut, bounds>>
  BY DEF CloserAsks, CloserEnds
<1>2. CASE Cancel(c)
  BY <1>1, <1>2, RunCancel
<1>3. CASE /\ closers' = (closers \ {c}) \cup {[c EXCEPT !.phase = "grace"]}
           /\ UNCHANGED <<stored, turns, posts, stopReq, adrift>>
  <2>1. LoopTyped'
    BY <1>1, <1>3 DEF RunInv, LoopTyped, turns, Closer
  <2>2. HistTyped'
    BY <1>1, <1>3 DEF RunInv, HistTyped, bounds
  <2>. QED BY <1>3, <2>1, <2>2, Unwritten DEF RunInv, turns
<1>. QED BY <1>2, <1>3 DEF CloserAsks, CloserEnds

\* A delivery writes the run down as it is.
LEMMA RunDelivery ==
  ASSUME RunInv, NEW p \in posts, DeliveryEnds(p) PROVE RunInv'
<1>1. p[1] \in Sessions /\ run[p[1]] \in Sound /\ p \in Turn
  BY DEF RunInv, RunsSound, LoopTyped, Turn
<1>2. Write(p[1], run[p[1]]) /\ UNCHANGED task
  BY DEF DeliveryEnds, turns
<1>3. RunsSound' /\ Tasked' /\ OnDisk'
  BY <1>1, <1>2, Written DEF RunInv, Tasked, Running
<1>4. LoopTyped'
  BY DEF DeliveryEnds, turns, stopped, RunInv, LoopTyped
<1>5. HistTyped'
  BY <1>1 DEF DeliveryEnds, RunInv, HistTyped, bounds
<1>. QED BY <1>3, <1>4, <1>5 DEF RunInv

\* Every task is gone; what it left is settled, or stands as it was.
LEMMA RunShutdown == RunInv /\ Shutdown => RunInv'
<1> SUFFICES ASSUME RunInv, Shutdown PROVE RunInv'
  OBVIOUS
<1>1. /\ run' = [s \in Sessions |-> IF s \in Failing THEN Settled(run[s], "failed", 0) ELSE run[s]]
      /\ disk' = [s \in Sessions |-> IF Handled(s) THEN run'[s] ELSE disk[s]]
      /\ posts' = posts \cup UNION {Post(s, run[s]) : s \in Failing}
      /\ task' = [s \in Sessions |-> NoTask]
  BY DEF Shutdown
<1>2. \A s \in Sessions : run[s] \in Sound /\ run[s] \in Record /\ disk[s] \in Sound
  BY DEF RunInv, RunsSound, Sound
<1>3. \A s \in Sessions : Handled(s) => Running(s)
  BY TaskTyped DEF Handled, Phases
<1>4. \A s \in Failing : s \in Sessions /\ Handled(s)
  BY DEF Failing, Fails
<1>5. \A s \in Failing : Settled(run[s], "failed", 0) \in Sound
  BY <1>2, <1>3, <1>4, SettledSound DEF Running
<1>6. run' \in [Sessions -> Sound]
  BY <1>1, <1>2, <1>5
<1>7. disk' \in [Sessions -> Sound]
  BY <1>1, <1>2, <1>6
<1>8. OnDisk'
  <2> SUFFICES ASSUME NEW s \in Sessions, Finished(run'[s]) PROVE disk'[s] = run'[s]
    BY DEF OnDisk
  <2>1. CASE Handled(s)
    BY <1>1, <2>1
  <2>2. CASE ~Handled(s)
    <3>1. run'[s] = run[s] /\ disk'[s] = disk[s]
      BY <1>1, <1>4, <2>2
    <3>. QED BY <3>1 DEF RunInv, OnDisk
  <2>. QED BY <2>1, <2>2
<1>9. Tasked'
  BY <1>1 DEF Tasked
<1>10. posts' \subseteq Turn
  <2>1. \A s \in Failing : Post(s, run[s]) \subseteq Turn
    BY <1>2, <1>4, PostTyped
  <2>. QED BY <1>1, <2>1 DEF RunInv, LoopTyped
<1>11. LoopTyped'
  <2>1. engine' \subseteq engine /\ handle' \in {handle, NoTurn} /\ stopReq' \subseteq stopReq
        /\ UNCHANGED closers /\ closing' = TRUE
    BY DEF Shutdown
  <2>. QED BY <1>1, <1>10, <2>1 DEF RunInv, LoopTyped
<1>12. HistTyped'
  BY RunAssumption DEF Shutdown, RunInv, HistTyped, hist
<1>. QED BY <1>6, <1>7, <1>8, <1>9, <1>11, <1>12 DEF RunInv, RunsSound

\* What the boot makes of a file: continued, failed, or left alone.
LEMMA RecoveredSound ==
  ASSUME RunInv, NEW s \in Sessions
  PROVE  /\ Recovered(s) \in Sound
         /\ s \in Continued =>
              /\ Recovered(s).status = "running"
              /\ Recovered(s).resumes = disk[s].resumes + 1
              /\ Recovered(s).autos = disk[s].autos
         /\ s \notin Continued /\ Orphan(s) =>
              /\ Finished(Recovered(s)) /\ Recovered(s).id = disk[s].id
              /\ Recovered(s).resumes = disk[s].resumes
              /\ Recovered(s).autos = disk[s].autos
         /\ ~Orphan(s) => Recovered(s) = disk[s]
         /\ s \in Continued <=> Recovered(s).status = "running"
<1>1. disk[s] \in Sound
  BY DEF RunInv, RunsSound
<1>2. CASE ~Orphan(s)
  BY <1>1, <1>2 DEF Recovered, Orphan, Continued
<1>3. CASE Orphan(s) /\ CanResume(disk, s)
  <2>1. disk[s].status = "running" /\ disk[s].resumes < MaxResumes
    BY <1>3 DEF Orphan, CanResume
  <2>2. Recovered(s) = Resumed(disk[s]) /\ s \in Continued
    BY <1>3 DEF Recovered, Continued
  <2>. QED BY <1>1, <1>3, <2>1, <2>2, ResumedSound
<1>4. CASE Orphan(s) /\ ~CanResume(disk, s)
  <2>1. disk[s].status = "running"
    BY <1>4 DEF Orphan
  <2>2. Recovered(s) = Settled(disk[s], "failed", 0) /\ s \notin Continued
    BY <1>4 DEF Recovered, Continued
  <2>. QED BY <1>1, <1>4, <2>1, <2>2, SettledSound
<1>. QED BY <1>2, <1>3, <1>4

LEMMA RunRestart == RunInv /\ Restart => RunInv'
<1> SUFFICES ASSUME RunInv, Restart PROVE RunInv'
  OBVIOUS
<1>1. /\ run' = [s \in Sessions |-> Recovered(s)] /\ disk' = run'
      /\ task' = [s \in Sessions |-> IF s \in Continued
                                     THEN [phase |-> "queued", id |-> Recovered(s).id]
                                     ELSE NoTask]
      /\ posts' = UNION {Post(s, disk[s]) : s \in {q \in Sessions : Orphan(q)} \ Continued}
  BY DEF Restart, Boot
<1>2. RunsSound'
  BY <1>1, RecoveredSound DEF RunsSound
<1>3. OnDisk'
  BY <1>1 DEF OnDisk
<1>4. \A s \in Sessions : Recovered(s).id \in Nat
  BY RecoveredSound DEF Sound, Record
<1>5. task' \in [Sessions -> Task \cup {NoTask}]
  BY <1>1, <1>4 DEF Task, Phases
<1>6. Tasked'
  BY <1>1, RecoveredSound DEF Tasked, Running
<1>7. posts' \subseteq Turn
  <2>1. \A s \in Sessions : Post(s, disk[s]) \subseteq Turn
    BY PostTyped DEF RunInv, RunsSound, Sound
  <2>. QED BY <1>1, <2>1
<1>8. LoopTyped'
  <2>1. engine' = {} /\ handle' = NoTurn /\ stopReq' = {} /\ closers' = {} /\ closing' = FALSE
    BY DEF Restart, Boot
  <2>. QED BY <1>5, <1>7, <2>1 DEF LoopTyped
<1>9. HistTyped'
  <2>1. unasked' \in [Sessions -> Nat]
    BY DEF Restart, Boot, RunInv, HistTyped
  <2>2. cut' \subseteq Turn
    BY DEF Restart, Boot, RunInv, HistTyped, LoopTyped
  <2>3. restarts' \in 0..MaxRestarts
    BY RunAssumption DEF Restart, RunInv, HistTyped
  <2>. QED BY <2>1, <2>2, <2>3 DEF Restart, Boot, RunInv, HistTyped
<1>. QED BY <1>2, <1>3, <1>6, <1>8, <1>9 DEF RunInv

\* Every step keeps the first layer.
LEMMA RunStep == RunInv /\ [Next]_vars => RunInv'
<1> SUFFICES ASSUME RunInv, [Next]_vars PROVE RunInv'
  OBVIOUS
<1>1. ASSUME NEW s \in Sessions, Start(s) \/ Continue(s) \/ Retry(s) PROVE RunInv'
  BY <1>1, RunAsked
<1>2. ASSUME NEW s \in Sessions, EnterSlot(s) \/ TurnEnds(s) \/ BackoffEnds(s) PROVE RunInv'
  BY <1>2, RunSlot, RunTurnEnds, RunBackoff
<1>3. ASSUME NEW s \in Sessions, Timeout(s) \/ GraceOver(s) \/ Stop(s) PROVE RunInv'
  BY <1>3, RunClock, RunStop
<1>4. ASSUME NEW t \in engine, SessionKnown(t) \/ UnheardEnds(t) PROVE RunInv'
  BY <1>4, RunKnown, RunUnheard
<1>5. ASSUME NEW c \in closers, CloserAsks(c) \/ CloserEnds(c) PROVE RunInv'
  BY <1>5, RunCloser
<1>6. ASSUME NEW p \in posts, DeliveryEnds(p) PROVE RunInv'
  BY <1>6, RunDelivery
<1>7. CASE Shutdown
  BY <1>7, RunShutdown
<1>8. CASE Restart
  BY <1>8, RunRestart
<1>9. CASE UNCHANGED vars
  <2>1. UNCHANGED <<stored, turns, stopped, posts, closing, hist, bounds>>
    BY <1>9 DEF vars
  <2>2. LoopTyped'
    BY <2>1 DEF RunInv, LoopTyped, turns, stopped
  <2>. QED BY <2>1, <2>2, Unwritten, HistStill DEF RunInv, turns
<1>. QED BY <1>1, <1>2, <1>3, <1>4, <1>5, <1>6, <1>7, <1>8, <1>9 DEF Next

LEMMA RunAlways == Spec => []RunInv
BY RunInit, RunStep, PTL DEF Spec

\* Records, tasks, turns and histories keep their types: no path spends a
\* second resume or a second retry of one run.
THEOREM TypeCorrect == Spec => []TypeOK
BY RunAlways, RunTyped, PTL

\* The result, the clock, Stop, a shutdown and the boot race for a turn, and
\* whichever ends it, it is booked once, in memory and on file.
THEOREM TurnsBookedOnce == Spec => []BookedOnce
BY RunAlways, RunTyped, PTL

-----------------------------------------------------------------------------
(***************************************************************************)
(* The second layer, session by session: what nobody asked for is counted  *)
(* on the record and on its file before it is spent, every finished record *)
(* has its report somewhere, and only the backoff lets go of a run.        *)
(***************************************************************************)
Reports == posts \cup returned \cup cut

CountOf(s) ==
    /\ unasked[s] <= disk[s].resumes + disk[s].autos
    /\ unasked[s] + (IF task[s].phase = "backoff" THEN 1 ELSE 0) <= run[s].resumes + run[s].autos

ReportOf(s) ==
    s \in Relay => \A r \in {run[s], disk[s]} : Finished(r) => <<s, r.id>> \in Reports

HeldOf(s) == Running(s) /\ Serving => task[s] # NoTask \/ s \in adrift

Good(s) == CountOf(s) /\ ReportOf(s) /\ HeldOf(s)

\* A finished run is not moved unless somebody asked.
Stays(s) ==
    Finished(run[s]) /\ asks' = asks =>
        /\ run'[s].status = run[s].status
        /\ run'[s].id = run[s].id /\ run'[s].booked = run[s].booked

Fine(s) == Good(s)' /\ Stays(s)

\* A session the step passes by.
LEMMA Bystander ==
  ASSUME NEW s \in Sessions, Good(s), Reports \subseteq Reports', closing' = closing,
         run'[s] = run[s], disk'[s] = disk[s], task'[s] = task[s],
         unasked'[s] = unasked[s], s \in adrift => s \in adrift'
  PROVE  Fine(s)
BY DEF Fine, Good, CountOf, ReportOf, HeldOf, Stays, Running, Serving

\* A record written with its counters as they were.
LEMMA WrittenGood ==
  ASSUME NEW s \in Sessions, NEW r, Good(s), Reports \subseteq Reports',
         run'[s] = r, disk'[s] = r, unasked'[s] = unasked[s],
         r.resumes = run[s].resumes, r.autos = run[s].autos,
         run[s].resumes \in Nat, run[s].autos \in Nat, unasked[s] \in Nat,
         task'[s].phase = "backoff" => task[s].phase = "backoff",
         s \in Relay /\ Finished(r) => <<s, r.id>> \in Reports',
         r.status = "running" /\ ~closing' => task'[s] # NoTask \/ s \in adrift'
  PROVE  Good(s)'
<1>1. CountOf(s)'
  BY DEF Good, CountOf
<1>2. ReportOf(s)'
  BY DEF ReportOf
<1>3. HeldOf(s)'
  BY DEF HeldOf, Running, Serving
<1>. QED BY <1>1, <1>2, <1>3 DEF Good

\* What the first layer says of one session.
LEMMA OneSession ==
  ASSUME RunInv, NEW s \in Sessions
  PROVE  /\ run[s] \in Sound /\ run[s] \in Record /\ disk[s] \in Sound
         /\ run[s].resumes \in Nat /\ run[s].autos \in Nat
         /\ disk[s].resumes \in Nat /\ disk[s].autos \in Nat
         /\ unasked[s] \in Nat /\ run[s].id \in Nat
         /\ task[s] # NoTask => Running(s) /\ ~Finished(run[s])
BY RunAssumption DEF RunInv, RunsSound, HistTyped, Tasked, Sound, Record, Running, Finished

\* A running turn that is settled: its report is in hand, its task gone.
LEMMA SettledFine ==
  ASSUME RunInv, NEW s \in Sessions, Good(s), NEW r \in Sound, r.status = "running",
         r.resumes = run[s].resumes, r.autos = run[s].autos, ~Finished(run[s]),
         NEW status \in {"completed", "failed"}, NEW bill \in {0, 1},
         Settle(s, Settled(r, status, bill)), task'[s] = NoTask,
         unasked' = unasked, returned \subseteq returned', cut \subseteq cut'
  PROVE  Fine(s)
<1> DEFINE n == Settled(r, status, bill)
<1>1. /\ n \in Sound /\ n.status = status /\ n.id = r.id /\ Finished(n)
      /\ n.resumes = run[s].resumes /\ n.autos = run[s].autos
  BY SettledSound
<1> HIDE DEF n
<1>2. Write(s, n) /\ posts' = posts \cup Post(s, n)
  BY DEF Settle, n
<1>3. run'[s] = n /\ disk'[s] = n
  BY <1>2 DEF Write, RunInv, RunsSound
<1>4. Reports \subseteq Reports' /\ (s \in Relay => <<s, n.id>> \in Reports')
  BY <1>2 DEF Reports, Post
<1>5. task'[s].phase # "backoff"
  BY DEF NoTask
<1>6. Good(s)'
  BY <1>1, <1>3, <1>4, <1>5, OneSession, WrittenGood
<1>. QED BY <1>6 DEF Fine, Stays

\* A turn spawned because somebody asked.
LEMMA SpawnedFine ==
  ASSUME RunInv, NEW s \in Sessions, Good(s), NEW r \in Sound, r.status = "running",
         r.resumes = run[s].resumes, r.autos = run[s].autos,
         Spawn(s, r), asks' # asks, unasked' = unasked,
         returned' = returned, cut' = cut
  PROVE  Fine(s)
<1>1. /\ run'[s] = r /\ disk'[s] = r /\ posts' = posts
      /\ task'[s] = [phase |-> "queued", id |-> r.id]
  BY DEF Spawn, Write, RunInv, RunsSound, LoopTyped
<1>2. task'[s] # NoTask /\ task'[s].phase # "backoff"
  BY <1>1 DEF NoTask
<1>3. Reports \subseteq Reports'
  BY <1>1 DEF Reports
<1>4. Good(s)'
  BY <1>1, <1>2, <1>3, OneSession, WrittenGood DEF Finished
<1>. QED BY <1>4 DEF Fine, Stays

AllGood == \A s \in Sessions : Good(s)
AllFine == \A s \in Sessions : Fine(s)

\* A step that writes one session passes the others by.
LEMMA OthersFine ==
  ASSUME RunInv, AllGood, NEW s \in Sessions, NEW r, Write(s, r) \/ UNCHANGED stored \/ (run' = [run EXCEPT ![s] = r] /\ UNCHANGED disk),
         \A q \in Sessions \ {s} : task'[q] = task[q],
         \A q \in Sessions \ {s} : unasked'[q] = unasked[q],
         adrift \subseteq adrift', closing' = closing, Reports \subseteq Reports'
  PROVE  \A q \in Sessions \ {s} : Fine(q)
<1> SUFFICES ASSUME NEW q \in Sessions \ {s} PROVE Fine(q)
  OBVIOUS
<1>1. run'[q] = run[q] /\ disk'[q] = disk[q]
  BY DEF Write, stored, RunInv, RunsSound
<1>. QED BY <1>1, Bystander DEF AllGood

\* What spawning and leaving do to the other sessions' tasks.
LEMMA TasksApart ==
  ASSUME RunInv, NEW s \in Sessions, NEW new,
         task' = [task EXCEPT ![s] = new] \/ UNCHANGED task
  PROVE  \A q \in Sessions \ {s} : task'[q] = task[q]
BY DEF RunInv, LoopTyped

LEMMA AskedFine ==
  ASSUME RunInv, AllGood, NEW s \in Sessions, Start(s) \/ Continue(s) \/ Retry(s)
  PROVE  AllFine
<1>1. /\ asks \in Nat /\ asks' = asks + 1
      /\ UNCHANGED <<unasked, adrift, returned, cut, closing>> /\ Good(s)
  BY DEF Start, Continue, Retry, Ask, hist, RunInv, HistTyped, AllGood
<1>2. asks' # asks
  BY <1>1
<1>3. ASSUME NEW r \in Sound, r.status = "running", r.resumes = run[s].resumes,
             r.autos = run[s].autos, Spawn(s, r)
      PROVE  AllFine
  <2>1. Fine(s)
    BY <1>1, <1>2, <1>3, SpawnedFine
  <2>2. Write(s, r) /\ UNCHANGED posts /\ \A q \in Sessions \ {s} : task'[q] = task[q]
    BY <1>3, TasksApart DEF Spawn
  <2>3. \A q \in Sessions \ {s} : Fine(q)
    BY <1>1, <2>2, OthersFine DEF Reports
  <2>. QED BY <2>1, <2>3 DEF AllFine
<1>4. CASE Start(s)
  <2> DEFINE r == Opened(Unborn)
  <2>1. /\ r \in Sound /\ r.status = "running" /\ run[s] = Unborn
        /\ r.resumes = Unborn.resumes /\ r.autos = Unborn.autos
    BY <1>4, UnbornSound, OpenedSound DEF Start, Sound, Unborn
  <2>2. r = Opened(Unborn)
    OBVIOUS
  <2> HIDE DEF r
  <2>3. ASSUME NEW status \in {"completed", "failed"}, Settle(s, Settled(r, status, 0)),
               UNCHANGED <<turns, stopped>>
        PROVE  AllFine
    <3>1. task[s] = NoTask /\ task' = task /\ ~Finished(run[s])
      BY <2>1, <2>3, OneSession DEF turns, Running, Unborn, Finished
    <3>2. Fine(s)
      BY <1>1, <2>1, <2>3, <3>1, SettledFine
    <3>3. Write(s, Settled(r, status, 0)) /\ posts \subseteq posts'
      BY <2>3 DEF Settle
    <3>4. \A q \in Sessions \ {s} : Fine(q)
      BY <1>1, <3>1, <3>3, OthersFine DEF Reports
    <3>. QED BY <3>2, <3>4 DEF AllFine
  <2>. QED BY <1>3, <1>4, <2>1, <2>2, <2>3 DEF Start
<1>5. CASE Continue(s) \/ Retry(s)
  <2>1. Finished(run[s]) /\ Spawn(s, Opened(run[s])) /\ run[s] \in Sound /\ run[s] \in Record
    BY <1>5, OneSession DEF Continue, Retry, Finished
  <2>2. /\ Opened(run[s]) \in Sound /\ Opened(run[s]).status = "running"
        /\ Opened(run[s]).resumes = run[s].resumes /\ Opened(run[s]).autos = run[s].autos
    BY <2>1, OpenedSound DEF Sound, Finished
  <2>. QED BY <1>3, <2>1, <2>2
<1>. QED BY <1>4, <1>5

\* A step that moves tasks, turns or requests to stop and no record: whoever
\* loses a task is set adrift, and nobody comes to the backoff.
LEMMA UnwrittenFine ==
  ASSUME RunInv, AllGood, UNCHANGED stored, UNCHANGED closing,
         unasked' = unasked, adrift \subseteq adrift', Reports \subseteq Reports',
         \A s \in Sessions : /\ task[s] # NoTask => task'[s] # NoTask \/ s \in adrift'
                             /\ task'[s].phase = "backoff" => task[s].phase = "backoff"
  PROVE  AllFine
<1> SUFFICES ASSUME NEW s \in Sessions PROVE Fine(s)
  BY DEF AllFine
<1>1. /\ unasked[s] \in Nat /\ run[s].resumes \in Nat /\ run[s].autos \in Nat
      /\ Good(s) /\ run' = run /\ disk' = disk
  BY OneSession DEF AllGood, stored
<1>2. CountOf(s)'
  BY <1>1 DEF Good, CountOf
<1>3. ReportOf(s)'
  BY <1>1 DEF Good, ReportOf
<1>4. HeldOf(s)'
  BY <1>1 DEF Good, HeldOf, Running, Serving
<1>. QED BY <1>1, <1>2, <1>3, <1>4 DEF Fine, Good, Stays

LEMMA SlotFine ==
  ASSUME RunInv, AllGood, NEW s \in Sessions, EnterSlot(s) PROVE AllFine
<1>1. /\ UNCHANGED <<unasked, adrift, returned, cut, closing>> /\ Good(s)
      /\ Running(s) /\ ~Finished(run[s]) /\ run[s] \in Sound /\ task[s] \in Task
  BY TaskTyped, OneSession DEF EnterSlot, hist, AllGood, Phases
<1>2. CASE Settle(s, Settled(run[s], "failed", 0)) /\ LeaveTask(s)
  <2>1. task'[s] = NoTask /\ \A q \in Sessions \ {s} : task'[q] = task[q]
    BY <1>2 DEF LeaveTask, RunInv, LoopTyped
  <2>2. Fine(s)
    BY <1>1, <1>2, <2>1, SettledFine DEF Running
  <2>3. Write(s, Settled(run[s], "failed", 0)) /\ posts \subseteq posts'
    BY <1>2 DEF Settle
  <2>4. \A q \in Sessions \ {s} : Fine(q)
    BY <1>1, <2>1, <2>3, OthersFine DEF Reports
  <2>. QED BY <2>2, <2>4 DEF AllFine
<1>3. CASE task' = [task EXCEPT ![s].phase = "turn"] /\ UNCHANGED <<stored, posts>>
  <2>1. \A q \in Sessions : /\ task[q] # NoTask => task'[q] # NoTask
                            /\ task'[q].phase = "backoff" => task[q].phase = "backoff"
    BY <1>1, <1>3 DEF RunInv, LoopTyped, Task, NoTask, Phases
  <2>. QED BY <1>1, <1>3, <2>1, UnwrittenFine DEF Reports
<1>. QED BY <1>2, <1>3 DEF EnterSlot

\* A turn settled by a step that moves the other sessions in nothing.
LEMMA SettledAll ==
  ASSUME RunInv, AllGood, NEW s \in Sessions, NEW r \in Sound, r.status = "running",
         r.resumes = run[s].resumes, r.autos = run[s].autos, Running(s),
         NEW status \in {"completed", "failed"}, NEW bill \in {0, 1},
         Settle(s, Settled(r, status, bill)), LeaveTask(s),
         UNCHANGED <<unasked, adrift, returned, cut, closing>>
  PROVE  AllFine
<1>1. task'[s] = NoTask /\ \A q \in Sessions \ {s} : task'[q] = task[q]
  BY DEF LeaveTask, RunInv, LoopTyped
<1>2. Fine(s)
  BY <1>1, SettledFine DEF AllGood, Running, Finished
<1>3. Write(s, Settled(r, status, bill)) /\ posts \subseteq posts'
  BY DEF Settle
<1>4. \A q \in Sessions \ {s} : Fine(q)
  BY <1>1, <1>3, OthersFine DEF Reports
<1>. QED BY <1>2, <1>4 DEF AllFine

\* A record written again with the status, turn and counters it had.
LEMMA RewrittenFine ==
  ASSUME RunInv, AllGood, NEW s \in Sessions, NEW r, Write(s, r),
         r.status = run[s].status, r.id = run[s].id, r.booked = run[s].booked,
         r.resumes = run[s].resumes, r.autos = run[s].autos,
         Reports \subseteq Reports', UNCHANGED <<task, unasked, adrift, closing>>
  PROVE  AllFine
<1>1. run'[s] = r /\ disk'[s] = r
  BY DEF Write, RunInv, RunsSound
<1>2. /\ s \in Relay /\ Finished(r) => <<s, r.id>> \in Reports'
      /\ r.status = "running" /\ ~closing' => task'[s] # NoTask \/ s \in adrift'
  BY DEF AllGood, Good, ReportOf, HeldOf, Finished, Running, Serving
<1>3. Good(s)'
  BY <1>1, <1>2, OneSession, WrittenGood DEF AllGood
<1>4. Fine(s)
  BY <1>1, <1>3 DEF Fine, Stays
<1>5. \A q \in Sessions \ {s} : Fine(q)
  BY OthersFine
<1>. QED BY <1>4, <1>5 DEF AllFine

LEMMA KnownFine ==
  ASSUME RunInv, AllGood, NEW t \in engine, SessionKnown(t) PROVE AllFine
<1> DEFINE s == t[1]
           r == [run[s] EXCEPT !.sid = TRUE]
<1>1. s \in Sessions /\ run[s] \in Sound
  BY DEF RunInv, RunsSound, LoopTyped, Turn
<1>2. /\ r.status = run[s].status /\ r.id = run[s].id /\ r.booked = run[s].booked
      /\ r.resumes = run[s].resumes /\ r.autos = run[s].autos
  BY <1>1, KnownSound
<1>3. Write(s, r) /\ UNCHANGED <<turns, posts, closing, hist>>
  BY DEF SessionKnown
<1> HIDE DEF s, r
<1>. QED BY <1>1, <1>2, <1>3, RewrittenFine DEF turns, hist, Reports

LEMMA TurnEndsFine ==
  ASSUME RunInv, AllGood, NEW s \in Sessions, TurnEnds(s) PROVE AllFine
<1>1. /\ Running(s) /\ task[s] \in Task /\ task[s].phase # "backoff" /\ task[s] # NoTask
      /\ run[s] \in Sound /\ run[s].sid \in BOOLEAN
  BY TaskTyped DEF TurnEnds, Listens, Phases, RunInv, RunsSound, Sound, Record
<1>2. UNCHANGED <<unasked, adrift, returned, cut, closing>>
  BY DEF TurnEnds, hist
<1>3. PICK bill \in {0, 1}, sid \in {run[s].sid, TRUE} :
        LET r == [run[s] EXCEPT !.sid = sid] IN
        \/ /\ task[s].phase = "turn"
           /\ Settle(s, Settled(r, "completed", bill)) /\ LeaveTask(s)
        \/ Settle(s, Settled(r, "failed", bill)) /\ LeaveTask(s)
        \/ RetryTransient(s, r, bill)
  BY DEF TurnEnds
<1> DEFINE r == [run[s] EXCEPT !.sid = sid]
<1>4. /\ r \in Sound /\ r.status = "running"
      /\ r.resumes = run[s].resumes /\ r.autos = run[s].autos
  <2>1. sid \in BOOLEAN
    BY <1>1
  <2>2. /\ r \in Sound /\ r.status = run[s].status
        /\ r.resumes = run[s].resumes /\ r.autos = run[s].autos
    BY <1>1, <2>1, KnownSound
  <2>. QED BY <1>1, <2>2 DEF Running
<1>5. \/ \E status \in {"completed", "failed"} : Settle(s, Settled(r, status, bill)) /\ LeaveTask(s)
      \/ RetryTransient(s, r, bill)
  BY <1>3
<1> HIDE DEF r
<1>6. CASE \E status \in {"completed", "failed"} : Settle(s, Settled(r, status, bill)) /\ LeaveTask(s)
  BY <1>1, <1>2, <1>4, <1>6, SettledAll
<1>7. CASE RetryTransient(s, r, bill)
  <2> DEFINE n == Opened([Booked(r, bill) EXCEPT !.autos = @ + 1])
  <2>1. n.status = "running" /\ n.resumes = run[s].resumes /\ n.autos = run[s].autos + 1
    BY <1>4, <1>7, RetriedSound DEF RetryTransient
  <2>2. run' = [run EXCEPT ![s] = n] /\ task' = [task EXCEPT ![s].phase = "backoff"]
        /\ UNCHANGED <<disk, posts>>
    BY <1>7 DEF RetryTransient
  <2> HIDE DEF n
  <2>3. /\ run'[s] = n /\ disk'[s] = disk[s]
        /\ task'[s] = [task[s] EXCEPT !.phase = "backoff"]
        /\ \A q \in Sessions \ {s} : task'[q] = task[q]
    BY <2>2 DEF RunInv, RunsSound, LoopTyped
  <2>4. task'[s].phase = "backoff" /\ task'[s] # NoTask
    BY <1>1, <2>3 DEF Task, NoTask
  <2>5. Good(s)
    BY DEF AllGood
  <2>6. CountOf(s)'
    BY <1>1, <1>2, <2>1, <2>3, <2>4, <2>5, OneSession DEF Good, CountOf
  <2>7. ReportOf(s)'
    BY <1>2, <2>1, <2>2, <2>3, <2>5 DEF Good, ReportOf, Reports, Finished
  <2>8. HeldOf(s)' /\ Stays(s)
    BY <1>1, <2>4 DEF HeldOf, Stays, Running, Finished
  <2>9. \A q \in Sessions \ {s} : Fine(q)
    BY <1>2, <2>2, <2>3, OthersFine DEF Reports
  <2>. QED BY <2>6, <2>7, <2>8, <2>9 DEF Fine, Good, AllFine
<1>. QED BY <1>5, <1>6, <1>7

\* The retry is counted by now, in memory, and this writes it down.
LEMMA BackoffFine ==
  ASSUME RunInv, AllGood, NEW s \in Sessions, BackoffEnds(s) PROVE AllFine
<1>1. /\ Spawn(s, run[s]) /\ UNCHANGED <<closing, adrift, returned, cut>>
      /\ unasked' = [unasked EXCEPT ![s] = @ + 1] /\ task[s].phase = "backoff"
  BY DEF BackoffEnds
<1>2. Running(s) /\ Good(s) /\ unasked \in [Sessions -> Nat]
  BY TaskTyped DEF BackoffEnds, Phases, AllGood, RunInv, HistTyped
<1>3. /\ run'[s] = run[s] /\ disk'[s] = run[s] /\ posts' = posts
      /\ task'[s] = [phase |-> "queued", id |-> run[s].id] /\ unasked'[s] = unasked[s] + 1
  BY <1>1, <1>2 DEF Spawn, Write, RunInv, RunsSound, LoopTyped
<1>4. task'[s] # NoTask /\ task'[s].phase # "backoff"
  BY <1>3 DEF NoTask
<1>5. CountOf(s)'
  BY <1>1, <1>2, <1>3, <1>4, OneSession DEF Good, CountOf
<1>6. ReportOf(s)' /\ HeldOf(s)' /\ Stays(s)
  BY <1>2, <1>3, <1>4 DEF ReportOf, HeldOf, Stays, Finished, Running
<1>7. \A q \in Sessions \ {s} : Fine(q)
  <2>1. Write(s, run[s]) /\ \A q \in Sessions \ {s} : task'[q] = task[q] /\ unasked'[q] = unasked[q]
    BY <1>1, <1>2, TasksApart DEF Spawn
  <2>. QED BY <1>1, <1>3, <2>1, OthersFine DEF Reports
<1>. QED BY <1>5, <1>6, <1>7 DEF Fine, Good, AllFine

LEMMA ClockFine ==
  ASSUME RunInv, AllGood, NEW s \in Sessions, Timeout(s) \/ GraceOver(s) PROVE AllFine
<1>1. Running(s) /\ task[s] \in Task /\ run[s] \in Sound
  BY TaskTyped, OneSession DEF Timeout, GraceOver, Phases
<1>2. UNCHANGED <<unasked, adrift, returned, cut, closing>>
  BY DEF Timeout, GraceOver, hist
<1>3. CASE Killed(s)
  BY <1>1, <1>2, <1>3, SettledAll DEF Killed, Running
<1>4. CASE task' = [task EXCEPT ![s].phase = "wind"] /\ UNCHANGED <<stored, posts>>
  <2>1. \A q \in Sessions : /\ task[q] # NoTask => task'[q] # NoTask
                            /\ task'[q].phase = "backoff" => task[q].phase = "backoff"
    BY <1>1, <1>4 DEF RunInv, LoopTyped, Task, NoTask
  <2>. QED BY <1>2, <1>4, <2>1, UnwrittenFine DEF Reports
<1>. QED BY <1>3, <1>4 DEF Timeout, GraceOver

LEMMA QuietFine ==
  ASSUME RunInv, AllGood, UNCHANGED <<stored, task, posts, closing, hist>> PROVE AllFine
BY UnwrittenFine DEF hist, Reports

\* A cancel settles the turn it ends, or sets adrift the run it finds between
\* two attempts.
LEMMA CancelFine ==
  ASSUME RunInv, AllGood, NEW c \in closers, Cancel(c),
         UNCHANGED <<closing, unasked, returned, cut, bounds>>
  PROVE  AllFine
<1> DEFINE s == c.of
<1>1. s \in Sessions
  BY DEF RunInv, LoopTyped, Closer
<1>2. c.of = s
  OBVIOUS
<1> HIDE DEF s
<1>3. CASE UNCHANGED <<stored, turns, posts, stopReq, adrift>>
  BY <1>3, QuietFine DEF turns, hist
<1>4. CASE Cancelled(s)
  <2>1. CASE /\ task[s].phase = "backoff" /\ LeaveTask(s) /\ adrift' = adrift \cup {s}
             /\ UNCHANGED <<stored, posts>>
    <3>1. \A q \in Sessions : /\ task[q] # NoTask => task'[q] # NoTask \/ q \in adrift'
                              /\ task'[q].phase = "backoff" => task[q].phase = "backoff"
      BY <1>1, <2>1 DEF LeaveTask, RunInv, LoopTyped, NoTask
    <3>. QED BY <2>1, <3>1, UnwrittenFine DEF Reports
  <2>2. CASE /\ Settle(s, Settled(run[s], "failed", 0)) /\ LeaveTask(s)
             /\ UNCHANGED adrift /\ task[s].phase \in Phases
    <3>1. Running(s) /\ run[s] \in Sound
      BY <1>1, <2>2, TaskTyped, OneSession
    <3>. QED BY <1>1, <2>2, <3>1, SettledAll DEF Running
  <2>. QED BY <1>4, <2>1, <2>2 DEF Cancelled, Phases
<1>. QED BY <1>2, <1>3, <1>4 DEF Cancel

LEMMA CloserFine ==
  ASSUME RunInv, AllGood, NEW c \in closers, CloserAsks(c) \/ CloserEnds(c) PROVE AllFine
<1>1. UNCHANGED <<closing, unasked, returned, cut, bounds>>
  BY DEF CloserAsks, CloserEnds
<1>2. CASE Cancel(c)
  BY <1>1, <1>2, CancelFine
<1>3. CASE UNCHANGED <<stored, turns, posts, stopReq, adrift>>
  BY <1>1, <1>3, QuietFine DEF turns, hist
<1>. QED BY <1>2, <1>3 DEF CloserAsks, CloserEnds

LEMMA DeliveryFine ==
  ASSUME RunInv, AllGood, NEW p \in posts, DeliveryEnds(p) PROVE AllFine
<1>1. p[1] \in Sessions
  BY DEF RunInv, LoopTyped, Turn
<1>2. /\ Write(p[1], run[p[1]]) /\ UNCHANGED <<task, unasked, adrift, closing>>
      /\ Reports \subseteq Reports'
  BY DEF DeliveryEnds, turns, Reports
<1>. QED BY <1>1, <1>2, RewrittenFine

\* The cancelled are settled with their report, or keep their record for the
\* next boot; nobody is served meanwhile.
LEMMA ShutdownFine ==
  ASSUME RunInv, AllGood, Shutdown PROVE AllFine
<1> SUFFICES ASSUME NEW s \in Sessions PROVE Fine(s)
  BY DEF AllFine
<1>1. /\ run' = [q \in Sessions |-> IF q \in Failing THEN Settled(run[q], "failed", 0) ELSE run[q]]
      /\ disk' = [q \in Sessions |-> IF Handled(q) THEN run'[q] ELSE disk[q]]
      /\ posts' = posts \cup UNION {Post(q, run[q]) : q \in Failing}
      /\ task' = [q \in Sessions |-> NoTask] /\ closing' = TRUE
      /\ UNCHANGED <<unasked, returned, cut, asks>>
  BY DEF Shutdown, hist
<1>2. /\ task'[s] = NoTask /\ task'[s].phase # "backoff" /\ HeldOf(s)'
      /\ Reports \subseteq Reports' /\ Good(s) /\ unasked'[s] = unasked[s]
  BY <1>1 DEF HeldOf, Serving, NoTask, Reports, AllGood
<1>3. CASE s \in Failing
  <2> DEFINE n == Settled(run[s], "failed", 0)
  <2>1. Handled(s) /\ task[s] # NoTask
    BY <1>3 DEF Failing, Fails, Handled, NoTask
  <2>2. Running(s) /\ ~Finished(run[s]) /\ run[s] \in Sound
    BY <2>1, OneSession
  <2>3. /\ n.id = run[s].id /\ Finished(n) /\ n.status = "failed"
        /\ n.resumes = run[s].resumes /\ n.autos = run[s].autos
    BY <2>2, SettledSound DEF Running
  <2>4. run'[s] = n /\ disk'[s] = n
    BY <1>1, <1>3, <2>1
  <2>5. s \in Relay => <<s, run[s].id>> \in posts'
    BY <1>1, <1>3 DEF Post
  <2> HIDE DEF n
  <2>6. s \in Relay /\ Finished(n) => <<s, n.id>> \in Reports'
    BY <2>3, <2>5 DEF Reports
  <2>7. Good(s)'
    BY <1>1, <1>2, <2>3, <2>4, <2>6, OneSession, WrittenGood
  <2>. QED BY <2>2, <2>7 DEF Fine, Stays
<1>4. CASE s \notin Failing
  <2>1. run'[s] = run[s] /\ disk'[s] \in {disk[s], run[s]}
    BY <1>1, <1>4
  <2>2. CountOf(s)'
    BY <1>2, <2>1, OneSession DEF Good, CountOf
  <2>3. ReportOf(s)'
    BY <1>2, <2>1 DEF Good, ReportOf
  <2>. QED BY <1>2, <2>1, <2>2, <2>3 DEF Fine, Good, Stays
<1>. QED BY <1>3, <1>4

\* What is continued was counted before its file is read again; what is not is
\* failed with its report; what was finished was on file.
LEMMA RestartFine ==
  ASSUME RunInv, AllGood, Restart PROVE AllFine
<1> SUFFICES ASSUME NEW s \in Sessions PROVE Fine(s)
  BY DEF AllFine
<1>1. /\ run' = [q \in Sessions |-> Recovered(q)] /\ disk' = run'
      /\ task' = [q \in Sessions |-> IF q \in Continued
                                     THEN [phase |-> "queued", id |-> Recovered(q).id]
                                     ELSE NoTask]
      /\ posts' = UNION {Post(q, disk[q]) : q \in {o \in Sessions : Orphan(o)} \ Continued}
      /\ unasked' = [q \in Sessions |-> unasked[q] + (IF q \in Continued THEN 1 ELSE 0)]
      /\ cut' = cut \cup posts /\ UNCHANGED returned
  BY DEF Restart, Boot
<1>2. /\ run'[s] = Recovered(s) /\ disk'[s] = Recovered(s) /\ Good(s)
      /\ Reports \subseteq Reports' /\ task'[s].phase # "backoff"
      /\ task'[s] # NoTask <=> s \in Continued
  BY <1>1 DEF Reports, NoTask, AllGood
<1>3. Recovered(s).resumes \in Nat /\ Recovered(s).autos \in Nat
  BY RecoveredSound, RunAssumption DEF Sound, Record
<1>4. CountOf(s)'
  <2>1. unasked[s] <= disk[s].resumes + disk[s].autos
    BY <1>2 DEF Good, CountOf
  <2>2. CASE s \in Continued
    <3>1. unasked'[s] = unasked[s] + 1
      BY <1>1, <2>2
    <3>2. Recovered(s).resumes = disk[s].resumes + 1 /\ Recovered(s).autos = disk[s].autos
      BY <2>2, RecoveredSound
    <3>. QED BY <1>2, <2>1, <3>1, <3>2, OneSession DEF CountOf
  <2>3. CASE s \notin Continued
    <3>1. unasked'[s] = unasked[s]
      BY <1>1, <2>3, OneSession
    <3>2. Recovered(s).resumes = disk[s].resumes /\ Recovered(s).autos = disk[s].autos
      BY <2>3, RecoveredSound
    <3>. QED BY <1>2, <2>1, <3>1, <3>2, OneSession DEF CountOf
  <2>. QED BY <2>2, <2>3
<1>5. ReportOf(s)'
  <2> SUFFICES ASSUME s \in Relay, Finished(Recovered(s))
               PROVE  <<s, Recovered(s).id>> \in Reports'
    BY <1>2 DEF ReportOf
  <2>1. s \notin Continued
    BY RecoveredSound DEF Finished
  <2>2. CASE Orphan(s)
    <3>1. Recovered(s).id = disk[s].id
      BY <2>1, <2>2, RecoveredSound
    <3>2. <<s, disk[s].id>> \in posts'
      BY <1>1, <2>1, <2>2 DEF Post
    <3>. QED BY <3>1, <3>2 DEF Reports
  <2>3. CASE ~Orphan(s)
    <3>1. Recovered(s) = disk[s]
      BY <2>3 DEF Recovered
    <3>. QED BY <1>2, <3>1 DEF Good, ReportOf
  <2>. QED BY <2>2, <2>3
<1>6. HeldOf(s)'
  BY <1>2, RecoveredSound DEF HeldOf, Running
<1>7. Stays(s)
  <2> SUFFICES ASSUME Finished(run[s]) PROVE run'[s] = run[s]
    BY DEF Stays
  <2>1. disk[s] = run[s]
    BY DEF RunInv, OnDisk
  <2>2. ~Orphan(s)
    BY <2>1 DEF Orphan, Finished
  <2>. QED BY <1>2, <2>1, <2>2 DEF Recovered
<1>. QED BY <1>4, <1>5, <1>6, <1>7 DEF Fine, Good

-----------------------------------------------------------------------------
Moves == AllGood' /\ \A s \in Sessions : Stays(s)

LEMMA GoodInit == Init => AllGood
<1> SUFFICES ASSUME Init, NEW s \in Sessions PROVE Good(s)
  BY DEF AllGood
<1>1. run[s] = Unborn /\ disk[s] = Unborn /\ task[s] = NoTask /\ unasked[s] = 0
  BY DEF Init
<1>2. CountOf(s)
  BY <1>1 DEF CountOf, Unborn, NoTask
<1>3. ReportOf(s) /\ HeldOf(s)
  BY <1>1 DEF ReportOf, HeldOf, Unborn, Finished, Running
<1>. QED BY <1>2, <1>3 DEF Good

\* Every step keeps the second layer, and moves no finished run unasked.
LEMMA GoodStep == RunInv /\ AllGood /\ [Next]_vars => Moves
<1> SUFFICES ASSUME RunInv, AllGood, [Next]_vars PROVE AllFine
  BY DEF Moves, AllFine, Fine, AllGood
<1>1. ASSUME NEW s \in Sessions, Start(s) \/ Continue(s) \/ Retry(s) PROVE AllFine
  BY <1>1, AskedFine
<1>2. ASSUME NEW s \in Sessions, EnterSlot(s) \/ TurnEnds(s) \/ BackoffEnds(s) PROVE AllFine
  BY <1>2, SlotFine, TurnEndsFine, BackoffFine
<1>3. ASSUME NEW s \in Sessions, Timeout(s) \/ GraceOver(s) PROVE AllFine
  BY <1>3, ClockFine
<1>4. ASSUME NEW s \in Sessions, Stop(s) PROVE AllFine
  BY <1>4, QuietFine DEF Stop, turns
<1>5. ASSUME NEW t \in engine, SessionKnown(t) \/ UnheardEnds(t) PROVE AllFine
  BY <1>5, KnownFine, QuietFine DEF UnheardEnds
<1>6. ASSUME NEW c \in closers, CloserAsks(c) \/ CloserEnds(c) PROVE AllFine
  BY <1>6, CloserFine
<1>7. ASSUME NEW p \in posts, DeliveryEnds(p) PROVE AllFine
  BY <1>7, DeliveryFine
<1>8. CASE Shutdown
  BY <1>8, ShutdownFine
<1>9. CASE Restart
  BY <1>9, RestartFine
<1>10. CASE UNCHANGED vars
  BY <1>10, QuietFine DEF vars, turns
<1>. QED BY <1>1, <1>2, <1>3, <1>4, <1>5, <1>6, <1>7, <1>8, <1>9, <1>10 DEF Next

LEMMA GoodAlways == Spec => [](RunInv /\ AllGood)
<1>1. RunInv /\ AllGood /\ [Next]_vars => AllGood'
  BY GoodStep DEF Moves
<1>. QED BY RunInit, RunStep, GoodInit, <1>1, PTL DEF Spec

\* Whatever crashes, shutdowns and provider failures come, in any order, no
\* session gets more turns it was not asked for than a resume bound and a
\* retry bound allow: each is counted on file before the next can be spawned.
THEOREM UnaskedIsBounded == Spec => []UnaskedBounded
<1>1. RunInv /\ AllGood => UnaskedBounded
  <2> SUFFICES ASSUME RunInv, AllGood, NEW s \in Sessions
               PROVE  unasked[s] <= MaxResumes + MaxAutoRetries
    BY DEF UnaskedBounded
  <2>1. disk[s] \in Record /\ unasked[s] <= disk[s].resumes + disk[s].autos
    BY OneSession DEF AllGood, Good, CountOf, Sound
  <2>2. disk[s].resumes \in 0..MaxResumes /\ disk[s].autos \in 0..MaxAutoRetries
    BY <2>1 DEF Record
  <2>. QED BY <2>1, <2>2, OneSession, RunAssumption
<1>. QED BY <1>1, GoodAlways, PTL

\* However a relay run ended, the report of its newest turn is on its way, was
\* sent or given up, or went down with the process that was sending it.
THEOREM ReportsInHand == Spec => []ReportInHand
<1>1. RunInv /\ AllGood => ReportInHand
  BY RunAssumption DEF AllGood, Good, ReportOf, ReportInHand, Reports
<1>. QED BY <1>1, GoodAlways, PTL

\* A running run has its task as long as the process serves, unless a cancel
\* caught it between a lost attempt and its retry.
THEOREM StrandedOnlyInBackoff == Spec => []OnlyBackoffStrands
<1>1. AllGood => OnlyBackoffStrands
  BY DEF AllGood, Good, HeldOf, OnlyBackoffStrands
<1>. QED BY <1>1, GoodAlways, PTL

\* Late cancels, old clocks, deliveries, crashes and boots leave a finished
\* run's turn, end and ledger alone.
THEOREM SettledRunsStay == Spec => SettledStays
<1>1. RunInv /\ AllGood /\ [Next]_vars =>
        [\A s \in Sessions :
            Finished(run[s]) /\ asks' = asks =>
                /\ run'[s].status = run[s].status
                /\ run'[s].id = run[s].id /\ run'[s].booked = run[s].booked]_vars
  BY GoodStep DEF Moves, Stays
<1>. QED BY <1>1, GoodAlways, PTL DEF Spec, SettledStays
=============================================================================
