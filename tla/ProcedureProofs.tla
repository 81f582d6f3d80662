-------------------------- MODULE ProcedureProofs --------------------------
(***************************************************************************)
(* Theorems about Procedure, for all procedures, targets, lists, windows   *)
(* and bounds.                                                             *)
(***************************************************************************)
EXTENDS Procedure, FiniteSetTheorems, SequenceTheorems, TLAPS

\* A procedure is a non-empty list of commands.
LEMMA StepsType ==
  ASSUME NEW q \in Procedures
  PROVE  /\ StepsOf[q] \in Seq(Commands) /\ Len(StepsOf[q]) \in Nat
         /\ \A i \in 1..Len(StepsOf[q]) : StepsOf[q][i] \in Commands
BY ProcedureAssumption

\* What Written and Ending leave in the row of p, and in no other.
Copied(p, results, inflight) ==
    [row[p] EXCEPT !.proc = task[p].proc, !.results = results, !.inflight = inflight]

Ended(p) == [Copied(p, task[p].at - 1, FALSE) EXCEPT
               !.status = IF task[p].failed THEN "failed" ELSE "executed", !.executed = now]

LEMMA WrittenRow ==
  ASSUME NEW p \in Props, row \in [Props -> RowType], NEW n, NEW b
  PROVE  Written(p, n, b) = [row EXCEPT ![p] = Copied(p, n, b)]
BY DEF Written, Copied, RowType

LEMMA EndingRow ==
  ASSUME NEW p \in Props, row \in [Props -> RowType]
  PROVE  Ending(p) = [row EXCEPT ![p] = Ended(p)]
<1>1. Written(p, task[p].at - 1, FALSE) = [row EXCEPT ![p] = Copied(p, task[p].at - 1, FALSE)]
  BY WrittenRow
<1>. QED BY <1>1 DEF Ending, Ended

-----------------------------------------------------------------------------
(***************************************************************************)
(* The first layer: types, what a command needs to have a type, and that   *)
(* the next proposal overwrites nothing.                                   *)
(***************************************************************************)
Unused == \A p \in Props : p >= nextProp => row[p].status = "none"

\* A row on file and a task have a procedure, and a task that is about to run a
\* command, or runs it, is at one of the procedure's.
Named ==
  \A p \in Props :
     /\ row[p].status # "none" => row[p].proc \in Procedures
     /\ task[p].phase # "none" => task[p].proc \in Procedures
     /\ task[p].phase \in {"spawn", "command"} => MoreOf(p)

FileInv == TypeOK /\ Unused /\ Named

\* What a row and a task start from.
LEMMA Blank ==
  /\ NoRow \in RowType /\ NoRow.status = "none"
  /\ NoRow.results = 0 /\ NoRow.inflight = FALSE /\ NoRow.interrupted = FALSE
  /\ NoTask \in TaskType /\ NoTask.phase = "none" /\ NoTask.at = 1 /\ NoTask.failed = FALSE
BY ProcedureAssumption DEF NoRow, NoTask, RowType, TaskType

LEMMA FileInit == Init => FileInv
<1> SUFFICES ASSUME Init PROVE FileInv
  OBVIOUS
<1>1. NoRow \in RowType /\ NoTask \in TaskType
  BY Blank
<1>2. Unused
  BY Blank DEF Init, Unused
<1>3. \A p \in Props : task[p].phase = "none"
  BY Blank DEF Init
<1>4. \A p \in Props : starts[p] \in Seq(StartType)
  BY DEF Init
<1>5. TypeOK
  BY <1>1, <1>3, <1>4, ProcedureAssumption DEF Init, TypeOK
<1>6. Named
  BY Blank DEF Init, Named
<1>. QED BY <1>2, <1>5, <1>6 DEF FileInv

\* What TypeOK says of the variables beside the row and the task.
RestType ==
    /\ now \in 1..MaxTime /\ nextProp \in 1..(MaxProposals + 1) /\ moved \subseteq Props
    /\ onLoop \in Props \cup {0}
    /\ allowed \subseteq Commands /\ highAllowed \subseteq HighRisk
    /\ readOf \in [Props -> Procedures \cup {None}]
    /\ starts \in [Props -> Seq(StartType)] /\ good \in [Props -> SUBSET Nat]
    /\ active \in [Props -> 0..MaxTime]
    /\ rewrites \in Nat /\ edits \in Nat /\ crashes \in Nat /\ faults \in Nat

LEMMA FileRest == FileInv => RestType
BY DEF FileInv, TypeOK, RestType

\* One proposal, and where it stands.
LEMMA FileRow ==
  ASSUME FileInv, NEW p \in Props
  PROVE  /\ row[p] \in RowType /\ task[p] \in TaskType
         /\ now \in 0..MaxTime /\ nextProp \in Nat
         /\ row = [row EXCEPT ![p] = row[p]] /\ task = [task EXCEPT ![p] = task[p]]
         /\ p >= nextProp => row[p].status = "none"
         /\ task[p].phase # "none" => row[p].status = "running"
         /\ row[p].status # "none" => row[p].proc \in Procedures
         /\ task[p].phase # "none" => task[p].proc \in Procedures
         /\ task[p].phase \in {"spawn", "command"} => MoreOf(p)
BY ProcedureAssumption DEF FileInv, TypeOK, Unused, Named

\* A step that gives p a new row and a new task.
LEMMA Stepped ==
  ASSUME FileInv, NEW p \in Props, NEW r \in RowType, NEW t \in TaskType,
         row' = [row EXCEPT ![p] = r], task' = [task EXCEPT ![p] = t],
         t.phase # "none" => r.status = "running",
         p >= nextProp' => r.status = "none",
         r.status # "none" => r.proc \in Procedures,
         t.phase # "none" => t.proc \in Procedures,
         t.phase \in {"spawn", "command"} => t.at <= Len(StepsOf[t.proc]),
         nextProp' >= nextProp, RestType'
  PROVE  FileInv'
<1>1. row' \in [Props -> RowType] /\ task' \in [Props -> TaskType]
  BY DEF FileInv, TypeOK
<1>2. row'[p] = r /\ task'[p] = t
  BY DEF FileInv, TypeOK
<1>3. \A q \in Props \ {p} : row'[q] = row[q] /\ task'[q] = task[q]
  BY DEF FileInv, TypeOK
<1>4. \A q \in Props : task'[q].phase # "none" => row'[q].status = "running"
  BY <1>2, <1>3 DEF FileInv, TypeOK
<1>5. \A q \in Props : q >= nextProp' => q >= nextProp
  BY DEF FileInv, TypeOK, Props, RestType
<1>6. Unused'
  BY <1>2, <1>3, <1>5 DEF FileInv, Unused
<1>7. TypeOK'
  BY <1>1, <1>4 DEF RestType, TypeOK
<1>8. Named'
  BY <1>2, <1>3 DEF FileInv, Named, MoreOf, Steps
<1>. QED BY <1>6, <1>7, <1>8 DEF FileInv

LEMMA FilePropose ==
  ASSUME FileInv, NEW q \in Procedures, Propose(q)
  PROVE  FileInv'
<1> DEFINE new == [NoRow EXCEPT !.status = "proposed", !.proc = q, !.created = now]
<1>1. nextProp \in Props /\ nextProp' = nextProp + 1
  BY ProcedureAssumption DEF FileInv, TypeOK, Propose, Props
<1>2. new \in RowType /\ new.proc = q
  BY <1>1, FileRow, Blank DEF RowType
<1>3. row' = [row EXCEPT ![nextProp] = new]
  BY DEF Propose
<1>4. task[nextProp] \in TaskType /\ task[nextProp].phase = "none"
  BY <1>1, FileRow DEF Props
<1>5. task' = [task EXCEPT ![nextProp] = task[nextProp]]
  BY <1>1, FileRow DEF Propose, exec
<1>6. RestType'
  <2>1. nextProp' \in 1..(MaxProposals + 1)
    BY <1>1, ProcedureAssumption DEF Props
  <2>. QED BY <2>1, FileRest DEF RestType, Propose, exec, lists, ran, count
<1>7. nextProp' >= nextProp /\ ~(nextProp >= nextProp')
  BY <1>1 DEF Props
<1> HIDE DEF new
<1>. QED BY <1>1, <1>2, <1>3, <1>4, <1>5, <1>6, <1>7, Stepped

LEMMA FileDeciding ==
  ASSUME FileInv, NEW p \in Props, Deciding(p)
  PROVE  FileInv'
<1>0. /\ row[p] \in RowType /\ now \in 0..MaxTime /\ nextProp \in Nat
      /\ task[p].phase # "none" => row[p].status = "running"
      /\ p >= nextProp => row[p].status = "none"
      /\ row[p].status # "none" => row[p].proc \in Procedures
  BY FileRow
<1>1. ASSUME NEW q \in Procedures, Approve(p, q) PROVE FileInv'
  <2> DEFINE r == [row[p] EXCEPT !.status = "running", !.approved = now]
             t == [NoTask EXCEPT !.phase = "gate", !.proc = row[p].proc]
  <2>1. r \in RowType /\ r.status = "running" /\ r.proc = row[p].proc
    BY <1>0 DEF RowType
  <2>2. t \in TaskType /\ t.phase = "gate" /\ t.proc = row[p].proc
    BY <1>0, Blank DEF RowType, TaskType
  <2>3. row' = [row EXCEPT ![p] = r]
    BY <1>1 DEF Approve, FileInv, TypeOK, RowType
  <2>4. task' = [task EXCEPT ![p] = t]
    BY <1>1 DEF Approve
  <2>5. nextProp' = nextProp /\ ~(p >= nextProp') /\ row[p].proc \in Procedures
    BY <1>0, <1>1 DEF Approve, Proposed, With
  <2>6. RestType'
    BY <1>1, FileRest DEF RestType, Approve, lists, ran, count
  <2> HIDE DEF r, t
  <2>7. nextProp' >= nextProp
    BY <1>0, <2>5
  <2>. QED BY <2>1, <2>2, <2>3, <2>4, <2>5, <2>6, <2>7, Stepped
<1>2. ASSUME NEW s \in {"superseded", "rejected"}, p \in Proposed,
             row' = [row EXCEPT ![p].status = s],
             UNCHANGED <<now, nextProp, moved, exec, lists, readOf, ran, count>>
      PROVE  FileInv'
  <2> DEFINE r == [row[p] EXCEPT !.status = s]
  <2>1. r \in RowType /\ r.proc = row[p].proc
    BY <1>0 DEF RowType
  <2>2. row' = [row EXCEPT ![p] = r]
    BY <1>2 DEF FileInv, TypeOK, RowType
  <2>3. /\ nextProp' = nextProp /\ ~(p >= nextProp') /\ task[p].phase = "none"
        /\ row[p].proc \in Procedures
    BY <1>0, <1>2 DEF Proposed, With
  <2>4. task' = [task EXCEPT ![p] = task[p]] /\ task[p] \in TaskType
    BY <1>2, FileRow DEF exec
  <2>5. RestType'
    BY <1>2, FileRest DEF RestType, exec, lists, ran, count
  <2> HIDE DEF r
  <2>6. nextProp' >= nextProp
    BY <1>0, <2>3
  <2>. QED BY <2>1, <2>2, <2>3, <2>4, <2>5, <2>6, Stepped
<1>3. ASSUME NEW q \in Procedures, Supersede(p, q) PROVE FileInv'
  BY <1>2, <1>3 DEF Supersede
<1>4. CASE Reject(p)
  BY <1>2, <1>4 DEF Reject
<1>5. CASE MoveOn(p)
  BY <1>5 DEF MoveOn, FileInv, TypeOK, Unused, Named, MoreOf, Steps, files, exec, lists, ran, count
<1>. QED BY <1>1, <1>3, <1>4, <1>5 DEF Deciding

\* What a save leaves of the row of p.
LEMMA CopiedType ==
  ASSUME FileInv, NEW p \in Props, NEW n \in Nat, NEW b \in BOOLEAN
  PROVE  /\ Copied(p, n, b) \in RowType
         /\ Copied(p, n, b).status = row[p].status
         /\ Copied(p, n, b).results = n /\ Copied(p, n, b).inflight = b
         /\ Copied(p, n, b).proc = task[p].proc
         /\ Copied(p, n, b).interrupted = row[p].interrupted
         /\ Copied(p, n, b).approved = row[p].approved
<1>1. row[p] \in RowType /\ task[p].proc \in Procedures \cup {None}
  BY FileRow DEF TaskType
<1>. QED BY <1>1 DEF Copied, RowType

LEMMA EndedType ==
  ASSUME FileInv, NEW p \in Props
  PROVE  /\ Ended(p) \in RowType /\ Ended(p).status \in {"executed", "failed"}
         /\ Ended(p).results = task[p].at - 1 /\ Ended(p).inflight = FALSE
         /\ Ended(p).proc = task[p].proc /\ Ended(p).executed = now
         /\ Ended(p).interrupted = row[p].interrupted
         /\ Ended(p).approved = row[p].approved
<1> DEFINE c == Copied(p, task[p].at - 1, FALSE)
<1>1. task[p].at - 1 \in Nat /\ now \in 0..MaxTime
  BY FileRow DEF TaskType
<1>2. /\ c \in RowType /\ c.results = task[p].at - 1 /\ c.inflight = FALSE
      /\ c.proc = task[p].proc /\ c.interrupted = row[p].interrupted
      /\ c.approved = row[p].approved
  BY <1>1, CopiedType
<1> HIDE DEF c
<1>3. Ended(p) = [c EXCEPT !.status = IF task[p].failed THEN "failed" ELSE "executed",
                           !.executed = now]
  BY DEF Ended, c
<1>. QED BY <1>1, <1>2, <1>3 DEF RowType

LEMMA FileExecuting ==
  ASSUME FileInv, NEW p \in Props, Executing(p)
  PROVE  FileInv'
<1>0. /\ row[p] \in RowType /\ task[p] \in TaskType /\ now \in 0..MaxTime /\ nextProp \in Nat
      /\ task[p].at \in Nat \ {0} /\ task[p].at + 1 \in Nat \ {0} /\ task[p].at - 1 \in Nat
      /\ row = [row EXCEPT ![p] = row[p]]
      /\ task[p].phase # "none" => row[p].status = "running"
      /\ p >= nextProp => row[p].status = "none"
  BY FileRow DEF TaskType
<1>1. task[p].phase # "none" /\ nextProp' = nextProp
  BY DEF Executing, Gate, Refuse, Spawn, CannotExec, Close, Exits, Turn, files
<1>2. /\ row[p].status = "running" /\ ~(p >= nextProp')
      /\ task[p].proc \in Procedures /\ row[p].proc \in Procedures
  BY <1>0, <1>1, FileRow
<1>3. ASSUME NEW ok \in BOOLEAN, Saves(ok)
      PROVE  rewrites' \in Nat /\ edits' \in Nat /\ crashes' \in Nat /\ faults' \in Nat
  BY <1>3, FileRest DEF RestType, Saves
<1>4. ASSUME NEW n \in Nat, NEW b \in BOOLEAN, row' = Written(p, n, b),
             NEW t \in TaskType, task' = [task EXCEPT ![p] = t], RestType',
             t.phase # "none" => t.proc = task[p].proc,
             t.phase \in {"spawn", "command"} => t.at <= Len(Steps(p))
      PROVE  FileInv'
  <2>1. row' = [row EXCEPT ![p] = Copied(p, n, b)]
    BY <1>4, WrittenRow DEF FileInv, TypeOK
  <2>2. /\ Copied(p, n, b) \in RowType /\ Copied(p, n, b).status = "running"
        /\ Copied(p, n, b).proc = task[p].proc
    BY <1>2, CopiedType
  <2>3. nextProp' >= nextProp
    BY <1>0, <1>1
  <2>. QED BY <1>2, <1>4, <2>1, <2>2, <2>3, Stepped DEF Steps
<1>5. ASSUME row' = row, NEW t \in TaskType, task' = [task EXCEPT ![p] = t], RestType',
             t.phase # "none" => t.proc = task[p].proc,
             t.phase \in {"spawn", "command"} => t.at <= Len(Steps(p))
      PROVE  FileInv'
  <2>1. row' = [row EXCEPT ![p] = row[p]] /\ nextProp' >= nextProp
    BY <1>0, <1>1, <1>5
  <2>. QED BY <1>0, <1>2, <1>5, <2>1, Stepped DEF Steps
<1>6. CASE Gate(p)
  <2>1. PICK ok \in BOOLEAN :
           /\ Saves(ok)
           /\ task' = [task EXCEPT ![p].phase = IF ok THEN "spawn" ELSE "close", ![p].failed = ~ok]
           /\ row' = IF ok THEN Written(p, task[p].at - 1, TRUE) ELSE row
           /\ onLoop' = IF ok THEN 0 ELSE p
    BY <1>6 DEF Gate
  <2> DEFINE t == [task[p] EXCEPT !.phase = IF ok THEN "spawn" ELSE "close", !.failed = ~ok]
  <2>2. /\ t \in TaskType /\ t.proc = task[p].proc
        /\ t.phase \in {"spawn", "command"} => t.at <= Len(Steps(p))
    BY <1>0, <1>6 DEF TaskType, Gate, MoreOf
  <2>3. task' = [task EXCEPT ![p] = t]
    BY <2>1 DEF FileInv, TypeOK, TaskType
  <2>4. RestType'
    BY <1>3, <1>6, <2>1, FileRest DEF RestType, Gate, lists, ran
  <2> HIDE DEF t
  <2>. QED BY <1>0, <1>4, <1>5, <2>1, <2>2, <2>3, <2>4
<1>7. CASE Refuse(p)
  <2> DEFINE t == [task[p] EXCEPT !.at = @ + 1, !.failed = TRUE, !.phase = "close"]
  <2>1. t \in TaskType /\ t.proc = task[p].proc /\ t.phase = "close"
    BY <1>0 DEF TaskType
  <2>2. task' = [task EXCEPT ![p] = t] /\ row' = row
    BY <1>7 DEF Refuse, files, FileInv, TypeOK, TaskType
  <2>3. RestType'
    BY <1>7, FileRest DEF RestType, Refuse, files, lists, ran, count
  <2> HIDE DEF t
  <2>. QED BY <1>5, <2>1, <2>2, <2>3
<1>8. CASE Spawn(p)
  <2> DEFINE t == [task[p] EXCEPT !.phase = "command"]
             s == [step |-> task[p].at, cmd |-> Command(p)]
  <2>1. MoreOf(p)
    BY <1>8, FileRow DEF Spawn
  <2>2. t \in TaskType /\ t.proc = task[p].proc /\ t.at = task[p].at
    BY <1>0 DEF TaskType
  <2>3. task' = [task EXCEPT ![p] = t] /\ row' = row
    BY <1>8 DEF Spawn, files, FileInv, TypeOK, TaskType
  <2>4. Command(p) \in Commands
    BY <1>0, <1>2, <2>1, StepsType DEF Command, Steps, MoreOf
  <2>5. s \in StartType
    BY <1>0, <2>4 DEF StartType
  <2>6. starts' = [starts EXCEPT ![p] = Append(starts[p], s)]
    BY <1>8 DEF Spawn
  <2> HIDE DEF t, s
  <2>7. starts' \in [Props -> Seq(StartType)]
    <3>1. Append(starts[p], s) \in Seq(StartType)
      BY <2>5, FileRest, AppendProperties DEF RestType
    <3>. QED BY <2>6, <3>1, FileRest DEF RestType
  <2>8. RestType'
    BY <1>0, <1>8, <2>7, FileRest DEF RestType, Spawn, files, lists, count
  <2>. QED BY <1>5, <2>1, <2>2, <2>3, <2>8 DEF MoreOf
<1>9. ASSUME NEW zero \in BOOLEAN, Booked(p, zero), RestType' PROVE FileInv'
  <2>1. PICK ok \in BOOLEAN :
          IF ok
          THEN /\ task' = [task EXCEPT ![p].at = @ + 1, ![p].failed = ~zero,
                                       ![p].phase = AfterStep(zero)]
               /\ row' = Written(p, task[p].at, FALSE)
          ELSE task' = [task EXCEPT ![p] = NoTask] /\ row' = row
    BY <1>9 DEF Booked
  <2>2. CASE ok
    <3> DEFINE t == [task[p] EXCEPT !.at = @ + 1, !.failed = ~zero, !.phase = AfterStep(zero)]
    <3>1. t \in TaskType /\ t.proc = task[p].proc /\ t.phase \in {"gate", "close"}
      BY <1>0 DEF TaskType, AfterStep
    <3>2. task' = [task EXCEPT ![p] = t]
      BY <2>1, <2>2 DEF FileInv, TypeOK, TaskType
    <3> HIDE DEF t
    <3>. QED BY <1>0, <1>4, <1>9, <2>1, <2>2, <3>1, <3>2
  <2>3. CASE ~ok
    BY <1>5, <1>9, <2>1, <2>3, Blank
  <2>. QED BY <2>2, <2>3
<1>10. ASSUME NEW zero \in BOOLEAN, Exits(p, zero) PROVE FileInv'
  <2>1. /\ rewrites' \in Nat /\ edits' \in Nat /\ crashes' \in Nat /\ faults' \in Nat
        /\ onLoop' \in Props \cup {0}
    BY <1>3, <1>10, FileRest DEF RestType, Exits, Booked
  <2>2. good' \in [Props -> SUBSET Nat] /\ active' \in [Props -> 0..MaxTime]
    BY <1>0, <1>10, FileRest DEF RestType, Exits
  <2>3. RestType'
    BY <1>10, <2>1, <2>2, FileRest DEF RestType, Exits, lists
  <2>. QED BY <1>9, <1>10, <2>3 DEF Exits
<1>11. CASE CannotExec(p)
  <2>1. /\ rewrites' \in Nat /\ edits' \in Nat /\ crashes' \in Nat /\ faults' \in Nat
        /\ onLoop' \in Props \cup {0}
    BY <1>3, <1>11, FileRest DEF RestType, CannotExec, Booked
  <2>2. RestType'
    BY <1>11, <2>1, FileRest DEF RestType, CannotExec, lists, ran
  <2>. QED BY <1>9, <1>11, <2>2 DEF CannotExec
<1>12. CASE Close(p)
  <2>1. PICK ok \in BOOLEAN : Saves(ok) /\ row' = IF ok THEN Ending(p) ELSE row
    BY <1>12 DEF Close
  <2>2. task' = [task EXCEPT ![p] = NoTask] /\ onLoop' = 0
    BY <1>12 DEF Close
  <2>3. RestType'
    BY <1>3, <1>12, <2>1, <2>2, FileRest DEF RestType, Close, lists, ran
  <2>4. CASE ok
    <3>1. row' = [row EXCEPT ![p] = Ended(p)]
      BY <2>1, <2>4, EndingRow DEF FileInv, TypeOK
    <3>2. Ended(p) \in RowType /\ Ended(p).proc \in Procedures
      BY <1>2, EndedType
    <3>3. nextProp' >= nextProp
      BY <1>0, <1>1
    <3>. QED BY <1>2, <2>2, <2>3, <3>1, <3>2, <3>3, Blank, Stepped
  <2>5. CASE ~ok
    BY <1>5, <2>1, <2>2, <2>3, <2>5, Blank
  <2>. QED BY <2>4, <2>5
<1>. QED BY <1>6, <1>7, <1>8, <1>10, <1>11, <1>12 DEF Executing

\* A settled row of a dead process, or its row as it was.
LEMMA SettledType ==
  ASSUME FileInv, NEW p \in Props
  PROVE  /\ Settle(p) \in RowType /\ Settle(p).status = "failed"
         /\ Settle(p).proc = row[p].proc /\ Settle(p).executed = now
         /\ Settle(p).results = row[p].results /\ Settle(p).inflight = row[p].inflight
         /\ Settle(p).approved = row[p].approved
BY FileRow DEF Settle, RowType

LEMMA FileBoot ==
  ASSUME FileInv, NEW lost \in SUBSET With({"running"}), Boot(lost)
  PROVE  FileInv'
<1> DEFINE settled == With({"running"}) \ lost
<1>1. /\ row' = [p \in Props |-> IF p \in settled THEN Settle(p) ELSE row[p]]
      /\ task' = [p \in Props |-> NoTask]
  BY DEF Boot
<1>2. \A p \in settled : row[p].status = "running"
  BY DEF With
<1> HIDE DEF settled
<1>3. \A p \in Props : row'[p] \in RowType
  BY <1>1, SettledType, FileRow
<1>4. row' \in [Props -> RowType] /\ task' \in [Props -> TaskType]
  BY <1>1, <1>3, Blank
<1>5. \A p \in Props : task'[p].phase = "none"
  BY <1>1, Blank
<1>6. Cardinality(lost) \in Nat
  <2>1. IsFiniteSet(Props)
    BY ProcedureAssumption, FS_Interval DEF Props
  <2>2. IsFiniteSet(lost)
    BY <2>1, FS_Subset DEF With
  <2>. QED BY <2>2, FS_CardinalityType
<1>7. RestType'
  <2>1. faults' \in Nat /\ crashes' \in Nat
    BY <1>6, FileRest DEF RestType, Boot
  <2>2. active' \in [Props -> 0..MaxTime]
    BY FileRest, FileRow DEF RestType, Boot
  <2>. QED BY <2>1, <2>2, FileRest DEF RestType, Boot, lists
<1>8. TypeOK'
  BY <1>4, <1>5, <1>7 DEF TypeOK, RestType
<1>9. Unused'
  <2>. SUFFICES ASSUME NEW p \in Props, p >= nextProp' PROVE row'[p].status = "none"
    BY DEF Unused
  <2>1. row[p].status = "none"
    BY FileRow DEF Boot
  <2>2. p \notin settled
    BY <1>2, <2>1
  <2>. QED BY <1>1, <2>1, <2>2
<1>10. Named'
  <2>. SUFFICES ASSUME NEW p \in Props, row'[p].status # "none"
                PROVE  row'[p].proc \in Procedures
    BY <1>5 DEF Named
  <2>1. row[p].status # "none" => row[p].proc \in Procedures
    BY FileRow
  <2>2. CASE p \in settled
    BY <1>1, <1>2, <2>1, <2>2, SettledType
  <2>3. CASE p \notin settled
    BY <1>1, <2>1, <2>3
  <2>. QED BY <2>2, <2>3
<1>. QED BY <1>8, <1>9, <1>10 DEF FileInv

LEMMA FileOutside ==
  ASSUME FileInv,
         \/ Tick
         \/ \E c \in Commands : EditLists(c)
         \/ \E p \in Props, q \in Procedures : Rewrite(p, q)
  PROVE  FileInv'
<1>1. CASE Tick
  BY <1>1, ProcedureAssumption DEF Tick, FileInv, TypeOK, Unused, Named, MoreOf, Steps, files, exec, lists, ran, count
<1>2. ASSUME NEW c \in Commands, EditLists(c) PROVE FileInv'
  <2>1. allowed' \subseteq Commands /\ highAllowed' \subseteq HighRisk /\ edits' \in Nat
    BY <1>2, FileRest DEF RestType, EditLists, Toggled
  <2>. QED BY <1>2, <2>1
           DEF EditLists, FileInv, TypeOK, Unused, Named, MoreOf, Steps, files, exec, ran
<1>3. ASSUME NEW p \in Props, NEW q \in Procedures, Rewrite(p, q) PROVE FileInv'
  <2> DEFINE r == [row[p] EXCEPT !.proc = q]
  <2>1. r \in RowType /\ r.status = row[p].status /\ r.proc = q
    BY FileRow DEF RowType
  <2>2. row' = [row EXCEPT ![p] = r]
    BY <1>3 DEF Rewrite, FileInv, TypeOK, RowType
  <2>3. task' = [task EXCEPT ![p] = task[p]] /\ task[p] \in TaskType
    BY <1>3, FileRow DEF Rewrite, exec
  <2>4. nextProp' = nextProp /\ nextProp' >= nextProp
    BY <1>3, FileRow DEF Rewrite
  <2>5. RestType'
    BY <1>3, FileRest DEF RestType, Rewrite, exec, lists, ran
  <2> HIDE DEF r
  <2>. QED BY <2>1, <2>2, <2>3, <2>4, <2>5, FileRow, Stepped DEF MoreOf, Steps
<1>. QED BY <1>1, <1>2, <1>3

\* One step per kind of actor.
LEMMA FileStep == FileInv /\ [Next]_vars => FileInv'
<1> SUFFICES ASSUME FileInv, [Next]_vars PROVE FileInv'
  OBVIOUS
<1>1. ASSUME NEW q \in Procedures, Propose(q) PROVE FileInv'
  BY <1>1, FilePropose
<1>2. ASSUME NEW p \in Props, Deciding(p) \/ Executing(p) PROVE FileInv'
  BY <1>2, FileDeciding, FileExecuting
<1>3. ASSUME NEW lost \in SUBSET With({"running"}), Boot(lost) PROVE FileInv'
  BY <1>3, FileBoot
<1>4. CASE UNCHANGED vars
  BY <1>4 DEF vars, FileInv, TypeOK, Unused, Named, MoreOf, Steps, files, exec, lists, ran, count
<1>. QED BY <1>1, <1>2, <1>3, <1>4, FileOutside DEF Next

\* The proposal files, the executing tasks, the lists and the histories keep
\* their types, and only a row on disk as running has a task: what approve,
\* execute and settle_interrupted write is never half a row.
THEOREM TypeCorrect == Spec => []TypeOK
<1>1. Init => FileInv
  BY FileInit
<1>2. FileInv /\ [Next]_vars => FileInv'
  BY FileStep
<1>3. FileInv => TypeOK
  BY DEF FileInv
<1>. QED BY <1>1, <1>2, <1>3, PTL DEF Spec

-----------------------------------------------------------------------------
(***************************************************************************)
(* The second layer: how far the file knows what the task does.  Between   *)
(* the record that a step starts and the record of its result the file     *)
(* says so (`inflight`), so the commands that started are those it counts  *)
(* and the one it has in flight.  A task works from its own copy of the    *)
(* procedure, which is what the presser read.                              *)
(***************************************************************************)
Decided == {"running", "executed", "failed"}

Known(p) == row[p].results + (IF row[p].inflight THEN 1 ELSE 0)

\* Nothing of a procedure that nobody approved has run.
Untouched(p) ==
    row[p].status \notin Decided =>
        /\ starts[p] = <<>> /\ good[p] = {}
        /\ row[p].results = 0 /\ row[p].inflight = FALSE

Accounted(p) == Len(starts[p]) <= Known(p) /\ good[p] \subseteq 1..Known(p)

\* Where a task is, what has started and what the file says.
InStep(p) ==
    LET before == task[p].at - 1 IN
    /\ task[p].phase # "none" => readOf[p] = task[p].proc
    /\ task[p].phase \in {"gate", "spawn"} => Len(starts[p]) = before
    /\ task[p].phase = "command" => Len(starts[p]) = before + 1
    /\ task[p].phase \in {"gate", "spawn", "command"} =>
           /\ 1..before \subseteq good[p]
           /\ row[p].results = before
           /\ row[p].inflight = (task[p].phase # "gate")
    /\ task[p].phase = "close" => Len(starts[p]) <= before /\ good[p] \subseteq 1..before

\* ApprovedAsRead and OnceInOrder, of one proposal.
AsWritten(p) ==
    \A i \in 1..Len(starts[p]) :
        /\ readOf[p] # None
        /\ i <= Len(StepsOf[readOf[p]]) /\ starts[p][i].cmd = StepsOf[readOf[p]][i]
        /\ starts[p][i].step = i /\ (i < Len(starts[p]) => i \in good[p])

Fit(p) == Untouched(p) /\ Accounted(p) /\ InStep(p) /\ AsWritten(p)

RunInv == FileInv /\ \A p \in Props : Fit(p)

LEMMA RunInit == Init => RunInv
<1> SUFFICES ASSUME Init, NEW p \in Props PROVE Fit(p)
  BY FileInit DEF RunInv
<1>1. /\ row[p].results = 0 /\ row[p].inflight = FALSE /\ task[p].phase = "none"
      /\ starts[p] = <<>> /\ good[p] = {} /\ Len(starts[p]) = 0
  BY Blank DEF Init
<1>. QED BY <1>1 DEF Fit, Untouched, Accounted, Known, InStep, AsWritten

\* What a proposal's account does not depend on.
LEMMA FitStays ==
  ASSUME NEW p \in Props, Fit(p),
         row'[p].results = row[p].results, row'[p].inflight = row[p].inflight,
         row[p].status \in Decided => row'[p].status \in Decided,
         task'[p] = task[p] \/ task'[p].phase = "none",
         starts'[p] = starts[p], good'[p] = good[p], readOf'[p] = readOf[p]
  PROVE  Fit(p)'
<1>1. Untouched(p)'
  BY DEF Fit, Untouched
<1>2. Accounted(p)'
  BY DEF Fit, Accounted, Known
<1>3. InStep(p)'
  BY DEF Fit, InStep
<1>4. AsWritten(p)'
  BY DEF Fit, AsWritten
<1>. QED BY <1>1, <1>2, <1>3, <1>4 DEF Fit

LEMMA RunPropose ==
  ASSUME RunInv, NEW q \in Procedures, Propose(q), NEW p \in Props
  PROVE  Fit(p)'
<1>1. Fit(p) /\ FileInv
  BY DEF RunInv
<1>2. CASE p = nextProp
  <2>1. row'[p] = [NoRow EXCEPT !.status = "proposed", !.proc = q, !.created = now]
    BY <1>1, <1>2 DEF Propose, FileInv, TypeOK
  <2>2. row'[p].results = 0 /\ row'[p].inflight = FALSE
    BY <2>1, Blank DEF RowType
  <2>3. row[p].status = "none"
    BY <1>1, <1>2, FileRow
  <2>. QED BY <1>1, <2>2, <2>3, FitStays DEF Fit, Untouched, Decided, Propose, exec, ran
<1>3. CASE p # nextProp
  <2>1. row'[p] = row[p]
    BY <1>1, <1>3 DEF Propose, FileInv, TypeOK
  <2>. QED BY <1>1, <2>1, FitStays DEF Propose, exec, ran
<1>. QED BY <1>2, <1>3

\* The press: nothing has run, and the task takes the version that was read.
LEMMA RunApprove ==
  ASSUME RunInv, NEW q \in Procedures, NEW p \in Props, Approve(p, q)
  PROVE  Fit(p)'
<1>0. Fit(p) /\ FileInv /\ row[p] \in RowType
  BY FileRow DEF RunInv
<1>1. row'[p] = [row[p] EXCEPT !.status = "running", !.approved = now]
  BY <1>0 DEF Approve, FileInv, TypeOK, RowType
<1>2. /\ row'[p].status = "running" /\ row'[p].results = row[p].results
      /\ row'[p].inflight = row[p].inflight
  BY <1>0, <1>1 DEF RowType
<1>3. task'[p].phase = "gate" /\ task'[p].at = 1 /\ task'[p].proc = row[p].proc
  <2>1. task'[p] = [NoTask EXCEPT !.phase = "gate", !.proc = row[p].proc]
    BY <1>0 DEF Approve, FileInv, TypeOK
  <2>. QED BY <2>1, Blank DEF TaskType
<1>4. readOf'[p] = row[p].proc
  BY <1>0 DEF Approve, AsRead, FileInv, TypeOK
<1>5. /\ starts[p] = <<>> /\ good[p] = {} /\ Len(starts[p]) = 0
      /\ row[p].results = 0 /\ row[p].inflight = FALSE
  BY <1>0 DEF Fit, Untouched, Approve, Proposed, With, Decided
<1>6. starts'[p] = starts[p] /\ good'[p] = good[p]
  BY DEF Approve, ran
<1>7. Untouched(p)' /\ Accounted(p)' /\ AsWritten(p)'
  BY <1>2, <1>5, <1>6 DEF Untouched, Accounted, AsWritten, Known, Decided
<1>8. InStep(p)'
  <2>1. task'[p].at - 1 = 0 /\ 1..0 = {}
    BY <1>3
  <2>2. 1..(task'[p].at - 1) \subseteq good'[p]
    BY <2>1
  <2>. QED BY <1>2, <1>3, <1>4, <1>5, <1>6, <2>1, <2>2 DEF InStep
<1>. QED BY <1>7, <1>8 DEF Fit

LEMMA RunDeciding ==
  ASSUME RunInv, NEW p \in Props, Deciding(p), NEW q \in Props
  PROVE  Fit(q)'
<1>0. Fit(q) /\ FileInv /\ row[q] \in RowType /\ row[p] \in RowType
  BY FileRow DEF RunInv
<1>1. ASSUME NEW c \in Procedures, Approve(p, c) PROVE Fit(q)'
  <2>1. CASE q = p
    BY <1>1, <2>1, RunApprove
  <2>2. CASE q # p
    <3>1. row'[q] = row[q] /\ task'[q] = task[q] /\ readOf'[q] = readOf[q]
      BY <1>0, <1>1, <2>2 DEF Approve, FileInv, TypeOK
    <3>. QED BY <1>0, <1>1, <3>1, FitStays DEF Approve, ran
  <2>. QED BY <2>1, <2>2
<1>2. ASSUME NEW s \in {"superseded", "rejected"}, p \in Proposed,
             row' = [row EXCEPT ![p].status = s], UNCHANGED <<exec, readOf, ran>>
      PROVE  Fit(q)'
  <2>1. row[p].status \notin Decided
    BY <1>2 DEF Proposed, With, Decided
  <2>2. row'[q].results = row[q].results /\ row'[q].inflight = row[q].inflight
    BY <1>0, <1>2 DEF FileInv, TypeOK, RowType
  <2>3. row[q].status \in Decided => row'[q].status \in Decided
    BY <1>0, <1>2, <2>1 DEF FileInv, TypeOK, RowType
  <2>. QED BY <1>0, <1>2, <2>2, <2>3, FitStays DEF exec, ran
<1>3. ASSUME NEW c \in Procedures, Supersede(p, c) PROVE Fit(q)'
  BY <1>2, <1>3 DEF Supersede
<1>4. CASE Reject(p)
  BY <1>2, <1>4 DEF Reject
<1>5. CASE MoveOn(p)
  BY <1>0, <1>5, FitStays DEF MoveOn, files, exec, ran
<1>. QED BY <1>1, <1>3, <1>4, <1>5 DEF Deciding

\* Where an executing task stands.
LEMMA AtWork ==
  ASSUME RunInv, NEW p \in Props, task[p].phase # "none"
  PROVE  /\ FileInv /\ Fit(p) /\ row[p] \in RowType /\ task[p] \in TaskType
         /\ task[p].at \in Nat \ {0} /\ task[p].at - 1 \in Nat /\ row[p].status = "running"
         /\ Len(starts[p]) \in Nat /\ starts[p] \in Seq(StartType) /\ good[p] \subseteq Nat
         /\ readOf[p] = task[p].proc /\ task[p].proc \in Procedures
<1>1. FileInv /\ Fit(p)
  BY DEF RunInv
<1>2. row[p] \in RowType /\ task[p] \in TaskType /\ row[p].status = "running"
      /\ task[p].proc \in Procedures
  BY <1>1, FileRow
<1>3. starts[p] \in Seq(StartType) /\ good[p] \subseteq Nat
  BY <1>1, FileRest DEF RestType
<1>. QED BY <1>1, <1>2, <1>3 DEF TaskType, Fit, InStep

\* The record that a step is starting, and a save of it that failed.
LEMMA RunGate ==
  ASSUME RunInv, NEW p \in Props, Gate(p)
  PROVE  Fit(p)'
<1>0. task[p].phase = "gate"
  BY DEF Gate, Turn
<1>1. /\ FileInv /\ Fit(p) /\ task[p] \in TaskType /\ task[p].at - 1 \in Nat
      /\ row[p].status = "running" /\ readOf[p] = task[p].proc
      /\ Len(starts[p]) = task[p].at - 1 /\ 1..(task[p].at - 1) \subseteq good[p]
      /\ row[p].results = task[p].at - 1 /\ row[p].inflight = FALSE
  BY <1>0, AtWork DEF Fit, InStep
<1>2. PICK ok \in BOOLEAN :
         /\ task' = [task EXCEPT ![p].phase = IF ok THEN "spawn" ELSE "close", ![p].failed = ~ok]
         /\ row' = IF ok THEN Written(p, task[p].at - 1, TRUE) ELSE row
  BY DEF Gate
<1>3. UNCHANGED <<starts, good, readOf>>
  BY DEF Gate, ran
<1>4. /\ task'[p].phase = IF ok THEN "spawn" ELSE "close"
      /\ task'[p].at = task[p].at /\ task'[p].proc = task[p].proc
  BY <1>1, <1>2 DEF FileInv, TypeOK, TaskType
<1>5. good[p] \subseteq 1..(task[p].at - 1)
  BY <1>1 DEF Fit, Accounted, Known
<1>6. AsWritten(p)'
  BY <1>1, <1>3 DEF Fit, AsWritten
<1>7. CASE ok
  <2>0. PICK m \in Nat, b \in BOOLEAN : m = task[p].at - 1 /\ b = TRUE
    BY <1>1
  <2>1. row \in [Props -> RowType] /\ row' = Written(p, m, b)
    BY <1>1, <1>2, <1>7, <2>0 DEF FileInv, TypeOK
  <2>2. row'[p] = Copied(p, m, b)
    BY <2>1, WrittenRow
  <2>3. /\ row'[p].status = "running" /\ row'[p].results = task[p].at - 1
        /\ row'[p].inflight = TRUE
    <3>1. /\ Copied(p, m, b).status = row[p].status /\ Copied(p, m, b).results = m
          /\ Copied(p, m, b).inflight = b
      BY <1>1, CopiedType
    <3>. QED BY <1>1, <2>0, <2>2, <3>1
  <2>4. Accounted(p)' /\ Untouched(p)'
    BY <1>1, <1>3, <1>5, <2>3 DEF Accounted, Known, Untouched, Decided
  <2>5. InStep(p)'
    BY <1>1, <1>3, <1>4, <1>7, <2>3 DEF InStep
  <2>. QED BY <1>6, <2>4, <2>5 DEF Fit
<1>8. CASE ~ok
  <2>1. Accounted(p)' /\ Untouched(p)'
    BY <1>1, <1>2, <1>3, <1>8 DEF Fit, Accounted, Known, Untouched, Decided
  <2>2. InStep(p)'
    BY <1>1, <1>3, <1>4, <1>5, <1>8 DEF InStep
  <2>. QED BY <1>6, <2>1, <2>2 DEF Fit
<1>. QED BY <1>7, <1>8

LEMMA RunRefuse ==
  ASSUME RunInv, NEW p \in Props, Refuse(p)
  PROVE  Fit(p)'
<1>0. task[p].phase = "gate"
  BY DEF Refuse, Turn
<1>1. /\ FileInv /\ Fit(p) /\ task[p] \in TaskType /\ task[p].at \in Nat \ {0}
      /\ row[p].status = "running" /\ readOf[p] = task[p].proc
      /\ Len(starts[p]) = task[p].at - 1
      /\ row[p].results = task[p].at - 1 /\ row[p].inflight = FALSE
  BY <1>0, AtWork DEF Fit, InStep
<1>2. UNCHANGED <<row, starts, good, readOf>>
  BY DEF Refuse, files, ran
<1>3. /\ task'[p].phase = "close" /\ task'[p].at = task[p].at + 1
      /\ task'[p].proc = task[p].proc
  BY <1>1 DEF Refuse, FileInv, TypeOK, TaskType
<1>4. good[p] \subseteq 1..(task[p].at - 1)
  BY <1>1 DEF Fit, Accounted, Known
<1>5. AsWritten(p)' /\ Accounted(p)' /\ Untouched(p)'
  BY <1>1, <1>2 DEF Fit, AsWritten, Accounted, Known, Untouched
<1>6. InStep(p)'
  BY <1>1, <1>2, <1>3, <1>4 DEF InStep
<1>. QED BY <1>5, <1>6 DEF Fit

\* The command starts: it is the one that was read, in its place, and the one
\* before it exited 0.
LEMMA RunSpawn ==
  ASSUME RunInv, NEW p \in Props, Spawn(p)
  PROVE  Fit(p)'
<1>0. task[p].phase = "spawn"
  BY DEF Spawn
<1>1. /\ FileInv /\ Fit(p) /\ task[p] \in TaskType /\ task[p].at \in Nat \ {0}
      /\ row[p].status = "running" /\ readOf[p] = task[p].proc /\ task[p].proc \in Procedures
      /\ Len(starts[p]) = task[p].at - 1 /\ 1..(task[p].at - 1) \subseteq good[p]
      /\ row[p].results = task[p].at - 1 /\ row[p].inflight = TRUE
      /\ starts[p] \in Seq(StartType) /\ good[p] \subseteq 1..(task[p].at - 1 + 1)
  BY <1>0, AtWork DEF Fit, InStep, Accounted, Known
<1>2. UNCHANGED <<row, good, readOf>>
  BY DEF Spawn, files
<1>3. task'[p].phase = "command" /\ task'[p].at = task[p].at /\ task'[p].proc = task[p].proc
  BY <1>1 DEF Spawn, FileInv, TypeOK, TaskType
<1>4. MoreOf(p)
  BY <1>0, <1>1, FileRow
<1> DEFINE new == [step |-> task[p].at, cmd |-> Command(p)]
<1>5. new.step = task[p].at /\ new.cmd = StepsOf[readOf[p]][task[p].at]
  BY <1>1 DEF Command, Steps
<1>6. new \in StartType
  <2>1. Command(p) \in Commands
    BY <1>1, <1>4, StepsType DEF Command, Steps, MoreOf
  <2>. QED BY <1>1, <2>1 DEF StartType
<1>7. starts'[p] = Append(starts[p], new)
  BY <1>1, FileRest DEF Spawn, RestType
<1> HIDE DEF new
<1>8. /\ Len(starts'[p]) = task[p].at
      /\ \A i \in 1..(task[p].at - 1) : starts'[p][i] = starts[p][i]
      /\ starts'[p][task[p].at] = new
  BY <1>1, <1>6, <1>7, AppendProperties
<1>9. AsWritten(p)'
  <2>. SUFFICES ASSUME NEW i \in 1..Len(starts'[p])
                PROVE  /\ readOf'[p] # None
                       /\ i <= Len(StepsOf[readOf'[p]])
                       /\ starts'[p][i].cmd = StepsOf[readOf'[p]][i]
                       /\ starts'[p][i].step = i
                       /\ i < Len(starts'[p]) => i \in good'[p]
    BY DEF AsWritten
  <2>1. readOf[p] # None
    BY <1>1, ProcedureAssumption
  <2>2. CASE i = task[p].at
    BY <1>1, <1>2, <1>4, <1>5, <1>8, <2>1, <2>2 DEF MoreOf, Steps
  <2>3. CASE i # task[p].at
    <3>1. i \in 1..(task[p].at - 1) /\ i \in 1..Len(starts[p])
      BY <1>1, <1>8, <2>3
    <3>2. /\ i <= Len(StepsOf[readOf[p]]) /\ starts[p][i].cmd = StepsOf[readOf[p]][i]
          /\ starts[p][i].step = i
      BY <1>1, <3>1 DEF Fit, AsWritten
    <3>. QED BY <1>1, <1>2, <1>8, <2>1, <3>1, <3>2
  <2>. QED BY <2>2, <2>3
<1>10. Accounted(p)' /\ Untouched(p)'
  BY <1>1, <1>2, <1>8 DEF Accounted, Known, Untouched, Decided
<1>11. InStep(p)'
  <2>1. Len(starts'[p]) = task'[p].at - 1 + 1
    BY <1>1, <1>3, <1>8
  <2>. QED BY <1>1, <1>2, <1>3, <2>1 DEF InStep
<1>. QED BY <1>9, <1>10, <1>11 DEF Fit

\* A result is booked: of a command that ended, or of one that never began.
Lands(p, zero) ==
    /\ Booked(p, zero) /\ starts' = starts /\ readOf' = readOf
    /\ \/ task[p].phase = "spawn" /\ ~zero /\ good' = good
       \/ /\ task[p].phase = "command"
          /\ good' = IF zero THEN [good EXCEPT ![p] = @ \cup {task[p].at}] ELSE good

LEMMA RunBooked ==
  ASSUME RunInv, NEW p \in Props, NEW zero \in BOOLEAN, Lands(p, zero)
  PROVE  Fit(p)'
<1> DEFINE n == task[p].at
<1> USE DEF Lands
<1>0. /\ FileInv /\ Fit(p) /\ task[p] \in TaskType /\ n \in Nat \ {0} /\ n - 1 \in Nat
      /\ row[p].status = "running" /\ readOf[p] = task[p].proc
      /\ Len(starts[p]) \in Nat /\ task[p].phase \in {"spawn", "command"}
  BY AtWork
<1>1. /\ FileInv /\ Fit(p) /\ task[p] \in TaskType /\ n \in Nat \ {0} /\ n - 1 \in Nat
      /\ row[p].status = "running" /\ readOf[p] = task[p].proc
      /\ Len(starts[p]) \in Nat /\ Len(starts[p]) <= n
      /\ task[p].phase = "command" => Len(starts[p]) = n
      /\ 1..(n - 1) \subseteq good[p] /\ good[p] \subseteq 1..n
      /\ row[p].results = n - 1 /\ row[p].inflight = TRUE
  <2>1. /\ 1..(n - 1) \subseteq good[p] /\ row[p].results = n - 1 /\ row[p].inflight = TRUE
        /\ task[p].phase = "spawn" => Len(starts[p]) = n - 1
        /\ task[p].phase = "command" => Len(starts[p]) = n - 1 + 1
    BY <1>0 DEF Fit, InStep
  <2>2. good[p] \subseteq 1..n
    BY <1>0, <2>1 DEF Fit, Accounted, Known
  <2>. QED BY <1>0, <2>1, <2>2
<1>2. /\ good[p] \subseteq good'[p] /\ good'[p] \subseteq 1..n
      /\ zero => Len(starts[p]) = n /\ 1..n \subseteq good'[p]
  <2>1. good'[p] = good[p] \/ (zero /\ good'[p] = good[p] \cup {n} /\ task[p].phase = "command")
    BY <1>1 DEF FileInv, TypeOK
  <2>2. zero => good'[p] = good[p] \cup {n} /\ task[p].phase = "command"
    BY <1>1 DEF FileInv, TypeOK
  <2>3. good'[p] \subseteq 1..n
    BY <1>1, <2>1
  <2>4. ASSUME zero PROVE 1..n \subseteq good'[p]
    BY <1>1, <2>2, <2>4
  <2>. QED BY <1>1, <2>1, <2>2, <2>3, <2>4
<1> HIDE DEF n
<1>3. AsWritten(p)'
  BY <1>1, <1>2 DEF Fit, AsWritten
<1>4. PICK ok \in BOOLEAN :
        IF ok
        THEN /\ task' = [task EXCEPT ![p].at = @ + 1, ![p].failed = ~zero,
                                     ![p].phase = AfterStep(zero)]
             /\ row' = Written(p, task[p].at, FALSE)
        ELSE task' = [task EXCEPT ![p] = NoTask] /\ row' = row
  BY DEF Booked
<1>5. CASE ok
  <2>1. /\ task'[p].at = n + 1 /\ task'[p].proc = task[p].proc
        /\ task'[p].phase = IF zero THEN "gate" ELSE "close"
    BY <1>1, <1>4, <1>5 DEF FileInv, TypeOK, TaskType, AfterStep, n
  <2>2. PICK b \in BOOLEAN : b = FALSE
    OBVIOUS
  <2>3. row \in [Props -> RowType] /\ row' = Written(p, n, b)
    BY <1>1, <1>4, <1>5, <2>2 DEF FileInv, TypeOK, n
  <2>4. row'[p].status = "running" /\ row'[p].results = n /\ row'[p].inflight = FALSE
    <3>1. row'[p] = Copied(p, n, b)
      BY <2>3, WrittenRow
    <3>. QED BY <1>1, <2>2, <3>1, CopiedType
  <2>5. Accounted(p)' /\ Untouched(p)'
    BY <1>1, <1>2, <2>4 DEF Accounted, Known, Untouched, Decided
  <2>6. task'[p].at - 1 = n
    BY <1>1, <2>1
  <2>7. InStep(p)'
    BY <1>1, <1>2, <2>1, <2>4, <2>6 DEF InStep
  <2>. QED BY <1>3, <2>5, <2>7 DEF Fit
<1>6. CASE ~ok
  <2>1. task'[p].phase = "none" /\ row' = row
    BY <1>1, <1>4, <1>6, Blank DEF FileInv, TypeOK
  <2>2. Accounted(p)' /\ Untouched(p)'
    BY <1>1, <1>2, <2>1 DEF Accounted, Known, Untouched, Decided
  <2>3. InStep(p)'
    BY <2>1 DEF InStep
  <2>. QED BY <1>3, <2>2, <2>3 DEF Fit
<1>. QED BY <1>5, <1>6

\* The last write: what it says of the results holds of what started.
LEMMA RunClose ==
  ASSUME RunInv, NEW p \in Props, Close(p)
  PROVE  Fit(p)'
<1>0. task[p].phase \in {"gate", "close"}
  BY DEF Close, Turn
<1>1. /\ FileInv /\ Fit(p) /\ row[p].status = "running" /\ task[p].at - 1 \in Nat
      /\ Len(starts[p]) \in Nat
  BY <1>0, AtWork
<1>2. Len(starts[p]) <= task[p].at - 1 /\ good[p] \subseteq 1..(task[p].at - 1)
  <2>1. CASE task[p].phase = "gate"
    <3>1. /\ Len(starts[p]) = task[p].at - 1
          /\ row[p].results = task[p].at - 1 /\ row[p].inflight = FALSE
      BY <1>1, <2>1 DEF Fit, InStep
    <3>. QED BY <1>1, <3>1 DEF Fit, Accounted, Known
  <2>2. CASE task[p].phase = "close"
    BY <1>1, <2>2 DEF Fit, InStep
  <2>. QED BY <1>0, <2>1, <2>2
<1>3. UNCHANGED <<starts, good, readOf>>
  BY DEF Close, ran
<1>4. task'[p].phase = "none"
  BY <1>1, Blank DEF Close, FileInv, TypeOK
<1>5. PICK ok \in BOOLEAN : row' = IF ok THEN Ending(p) ELSE row
  BY DEF Close
<1>6. CASE ok
  <2>1. row \in [Props -> RowType] /\ row' = Ending(p)
    BY <1>1, <1>5, <1>6 DEF FileInv, TypeOK
  <2>2. row'[p] = Ended(p)
    BY <2>1, EndingRow
  <2>3. /\ row'[p].status \in Decided /\ row'[p].results = task[p].at - 1
        /\ row'[p].inflight = FALSE
    BY <1>1, <2>2, EndedType DEF Decided
  <2>4. Accounted(p)' /\ Untouched(p)'
    BY <1>1, <1>2, <1>3, <2>3 DEF Accounted, Known, Untouched
  <2>5. InStep(p)' /\ AsWritten(p)'
    BY <1>1, <1>3, <1>4 DEF Fit, InStep, AsWritten
  <2>. QED BY <2>4, <2>5 DEF Fit
<1>7. CASE ~ok
  BY <1>1, <1>3, <1>4, <1>5, <1>7, FitStays
<1>. QED BY <1>6, <1>7

\* A task's step leaves the other proposals alone.
LEMMA OthersStay ==
  ASSUME FileInv, NEW p \in Props, Executing(p), NEW q \in Props \ {p}
  PROVE  /\ row'[q] = row[q] /\ task'[q] = task[q] /\ readOf'[q] = readOf[q]
         /\ starts'[q] = starts[q] /\ good'[q] = good[q] /\ active'[q] = active[q]
<1>0. row \in [Props -> RowType] /\ task \in [Props -> TaskType] /\ RestType
  BY FileRest DEF FileInv, TypeOK
<1>1. \A n, b : Written(p, n, b)[q] = row[q]
  BY <1>0 DEF Written
<1>2. Ending(p)[q] = row[q]
  BY <1>0, EndingRow
<1>3. CASE Gate(p)
  BY <1>0, <1>1, <1>3 DEF Gate, ran
<1>4. CASE Refuse(p)
  BY <1>0, <1>4 DEF Refuse, files, ran
<1>5. CASE Spawn(p)
  BY <1>0, <1>5 DEF Spawn, files, RestType
<1>6. ASSUME NEW zero \in BOOLEAN, Booked(p, zero)
      PROVE  row'[q] = row[q] /\ task'[q] = task[q]
  BY <1>0, <1>1, <1>6 DEF Booked
<1>7. CASE CannotExec(p)
  BY <1>6, <1>7 DEF CannotExec, ran
<1>8. ASSUME NEW zero \in BOOLEAN, Exits(p, zero)
      PROVE  /\ good'[q] = good[q] /\ active'[q] = active[q]
             /\ starts' = starts /\ readOf' = readOf /\ Booked(p, zero)
  BY <1>0, <1>8 DEF Exits, RestType
<1>9. CASE Close(p)
  BY <1>0, <1>2, <1>9 DEF Close, ran
<1>. QED BY <1>3, <1>4, <1>5, <1>6, <1>7, <1>8, <1>9 DEF Executing

LEMMA RunExecuting ==
  ASSUME RunInv, NEW p \in Props, Executing(p), NEW q \in Props
  PROVE  Fit(q)'
<1>1. CASE q # p
  BY <1>1, OthersStay, FitStays DEF RunInv
<1>2. ASSUME NEW zero \in BOOLEAN, Exits(p, zero) PROVE Fit(p)'
  <2>1. Lands(p, zero)
    BY <1>2 DEF Exits, Lands
  <2>. QED BY <2>1, RunBooked
<1>3. ASSUME CannotExec(p) PROVE Fit(p)'
  <2>1. PICK zero \in BOOLEAN : zero = FALSE
    OBVIOUS
  <2>2. Lands(p, zero)
    BY <1>3, <2>1 DEF CannotExec, ran, Lands
  <2>. QED BY <2>2, RunBooked
<1>4. Fit(p)'
  <2>1. CASE Gate(p)
    BY <2>1, RunGate
  <2>2. CASE Refuse(p)
    BY <2>2, RunRefuse
  <2>3. CASE Spawn(p)
    BY <2>3, RunSpawn
  <2>4. CASE Close(p)
    BY <2>4, RunClose
  <2>5. CASE \E zero \in BOOLEAN : Exits(p, zero)
    BY <1>2, <2>5
  <2>6. \/ Gate(p) \/ Refuse(p) \/ Spawn(p) \/ CannotExec(p) \/ Close(p)
        \/ \E zero \in BOOLEAN : Exits(p, zero)
    BY DEF Executing
  <2>. QED BY <1>3, <2>1, <2>2, <2>3, <2>4, <2>5, <2>6
<1>. QED BY <1>1, <1>4

\* The restart settles what the file says; the account does not change.
LEMMA RunBoot ==
  ASSUME RunInv, NEW lost \in SUBSET With({"running"}), Boot(lost), NEW p \in Props
  PROVE  Fit(p)'
<1>1. Fit(p) /\ FileInv
  BY DEF RunInv
<1>2. row'[p] = Settle(p) \/ row'[p] = row[p]
  BY DEF Boot
<1>3. /\ row'[p].results = row[p].results /\ row'[p].inflight = row[p].inflight
      /\ row[p].status \in Decided => row'[p].status \in Decided
  BY <1>1, <1>2, SettledType DEF Decided
<1>4. task'[p].phase = "none"
  BY Blank DEF Boot
<1>. QED BY <1>1, <1>3, <1>4, FitStays DEF Boot

\* What is rewritten under a task is the file, not the task's copy.
LEMMA RunRewrite ==
  ASSUME RunInv, NEW r \in Props, NEW q \in Procedures, Rewrite(r, q), NEW p \in Props
  PROVE  Fit(p)'
<1>1. Fit(p) /\ FileInv /\ row[p] \in RowType
  BY FileRow DEF RunInv
<1>2. /\ row'[p].results = row[p].results /\ row'[p].inflight = row[p].inflight
      /\ row'[p].status = row[p].status
  BY <1>1 DEF Rewrite, FileInv, TypeOK, RowType
<1>. QED BY <1>1, <1>2, FitStays DEF Rewrite, exec, ran

LEMMA RunStep == RunInv /\ [Next]_vars => RunInv'
<1> SUFFICES ASSUME RunInv, [Next]_vars, NEW p \in Props PROVE Fit(p)'
  BY FileStep DEF RunInv, Props
<1>1. ASSUME NEW q \in Procedures, Propose(q) PROVE Fit(p)'
  BY <1>1, RunPropose
<1>2. ASSUME NEW q \in Props, Deciding(q) \/ Executing(q) PROVE Fit(p)'
  BY <1>2, RunDeciding, RunExecuting
<1>3. ASSUME NEW r \in Props, NEW q \in Procedures, Rewrite(r, q) PROVE Fit(p)'
  BY <1>3, RunRewrite
<1>4. ASSUME NEW lost \in SUBSET With({"running"}), Boot(lost) PROVE Fit(p)'
  BY <1>4, RunBoot
<1>5. ASSUME UNCHANGED <<row, task, starts, good, readOf>> PROVE Fit(p)'
  BY <1>5, FitStays DEF RunInv
<1>6. CASE Tick \/ \E c \in Commands : EditLists(c)
  BY <1>5, <1>6 DEF Tick, EditLists, files, exec, ran
<1>7. CASE UNCHANGED vars
  BY <1>5, <1>7 DEF vars, files, exec, ran
<1>. QED BY <1>1, <1>2, <1>3, <1>4, <1>6, <1>7 DEF Next

LEMMA RunAlways == Spec => []RunInv
BY RunInit, RunStep, PTL DEF Spec

\* "Approved commands run exactly as written": what starts is what the presser
\* read in that place, however the file is rewritten before the press, after it
\* and between the steps: the digest is compared at the press, and the task
\* runs its own copy from then on.
THEOREM RunsWhatWasRead == Spec => []ApprovedAsRead
<1>1. RunInv => ApprovedAsRead
  BY DEF RunInv, Fit, AsWritten, ApprovedAsRead
<1>. QED BY <1>1, RunAlways, PTL

\* "Sequentially, stop on the first failure": steps start once each and in
\* order, and none after one that did not exit 0, through failed saves and
\* restarts: nothing resumes an interrupted procedure.
THEOREM OnceEachInOrder == Spec => []OnceInOrder
<1>1. RunInv => OnceInOrder
  BY DEF RunInv, Fit, AsWritten, OnceInOrder
<1>. QED BY <1>1, RunAlways, PTL

\* "Which commands ran and which never did": the receipt settle_interrupted
\* builds from the file is true of every crash point, for every procedure.
THEOREM ReceiptsTrue == Spec => []ReceiptsTruthful
<1>1. ASSUME RunInv, NEW p \in Props
      PROVE  /\ StepsStarted(p) \cap Receipt(p).not_run = {}
             /\ good[p] \subseteq Receipt(p).ran \cup Receipt(p).unknown
             /\ Cardinality(Receipt(p).unknown) <= 1
  <2>1. /\ Fit(p) /\ row[p] \in RowType /\ row[p].results \in Nat
        /\ starts[p] \in Seq(StartType) /\ Len(starts[p]) \in Nat
    BY <1>1, FileRow, FileRest DEF RunInv, RowType, RestType
  <2>2. StepsStarted(p) \subseteq 1..Known(p) /\ good[p] \subseteq 1..Known(p)
    BY <2>1 DEF Fit, AsWritten, Accounted, Known, StepsStarted
  <2>3. Receipt(p).ran \cup Receipt(p).unknown = 1..Known(p)
    BY <2>1 DEF Receipt, Known
  <2>4. Receipt(p).not_run \cap 1..Known(p) = {}
    BY <2>1 DEF Receipt, Known
  <2>5. Cardinality(Receipt(p).unknown) <= 1
    <3>1. Receipt(p).unknown = {} \/ Receipt(p).unknown = {row[p].results + 1}
      BY DEF Receipt
    <3>2. Cardinality({}) = 0 /\ Cardinality({row[p].results + 1}) = 1
      BY FS_EmptySet, FS_Singleton
    <3>. QED BY <3>1, <3>2
  <2>. QED BY <2>2, <2>3, <2>4, <2>5
<1>2. RunInv => ReceiptsTruthful
  BY <1>1 DEF ReceiptsTruthful
<1>. QED BY <1>2, RunAlways, PTL

-----------------------------------------------------------------------------
(***************************************************************************)
(* The second gate.                                                        *)
(***************************************************************************)
\* Another proposal's step, or a step of the world outside, does not bring a
\* task to the start of a command.
LEMMA OnlyGateSpawns ==
  ASSUME FileInv, [Next]_vars, NEW p \in Props,
         task[p].phase # "spawn", task'[p].phase = "spawn"
  PROVE  Gate(p)
<1>0. row \in [Props -> RowType] /\ task \in [Props -> TaskType] /\ task[p] \in TaskType
  BY FileRow DEF FileInv, TypeOK
<1>1. task' # task /\ task'[p] # task[p]
  OBVIOUS
<1>2. ASSUME NEW q \in Props, Deciding(q) PROVE FALSE
  <2>1. ASSUME NEW c \in Procedures, Approve(q, c) PROVE FALSE
    <3>1. task'[p] = task[p] \/ task'[p] = [NoTask EXCEPT !.phase = "gate", !.proc = row[q].proc]
      BY <1>0, <2>1 DEF Approve
    <3>2. [NoTask EXCEPT !.phase = "gate", !.proc = row[q].proc].phase = "gate"
      BY Blank DEF TaskType
    <3>. QED BY <1>1, <3>1, <3>2
  <2>. QED BY <1>1, <1>2, <2>1 DEF Deciding, Supersede, MoveOn, Reject, exec
<1>3. ASSUME NEW q \in Props, Executing(q) PROVE q = p /\ Gate(p)
  <2>1. q = p
    BY <1>1, <1>3, OthersStay
  <2>2. ~Refuse(p)
    BY <1>0 DEF Refuse, TaskType
  <2>3. ~Spawn(p)
    BY <1>0 DEF Spawn, TaskType
  <2>4. ASSUME NEW zero \in BOOLEAN, Booked(p, zero) PROVE FALSE
    <3>1. PICK ok \in BOOLEAN :
            IF ok THEN task' = [task EXCEPT ![p].at = @ + 1, ![p].failed = ~zero,
                                            ![p].phase = AfterStep(zero)]
            ELSE task' = [task EXCEPT ![p] = NoTask]
      BY <2>4 DEF Booked
    <3>2. CASE ok
      <4>1. task'[p].phase = AfterStep(zero)
        BY <1>0, <3>1, <3>2 DEF TaskType
      <4>. QED BY <4>1 DEF AfterStep
    <3>3. CASE ~ok
      BY <1>0, <3>1, <3>3, Blank
    <3>. QED BY <3>2, <3>3
  <2>5. ~CannotExec(p) /\ \A zero \in BOOLEAN : ~Exits(p, zero)
    <3>1. PICK zero \in BOOLEAN : zero = FALSE
      OBVIOUS
    <3>. QED BY <2>4, <3>1 DEF CannotExec, Exits
  <2>6. ~Close(p)
    BY <1>0, Blank DEF Close
  <2>. QED BY <1>3, <2>1, <2>2, <2>3, <2>5, <2>6 DEF Executing
<1>4. ASSUME NEW lost \in SUBSET With({"running"}), Boot(lost) PROVE FALSE
  BY <1>4, Blank DEF Boot
<1>5. ASSUME NEW q \in Procedures, Propose(q) PROVE FALSE
  BY <1>1, <1>5 DEF Propose, exec
<1>6. ASSUME NEW r \in Props, NEW q \in Procedures, Rewrite(r, q) PROVE FALSE
  BY <1>1, <1>6 DEF Rewrite, exec
<1>7. ASSUME Tick \/ \E c \in Commands : EditLists(c) PROVE FALSE
  BY <1>1, <1>7 DEF Tick, EditLists, exec
<1>8. ASSUME UNCHANGED vars PROVE FALSE
  BY <1>1, <1>8 DEF vars, exec
<1>. QED BY <1>2, <1>3, <1>4, <1>5, <1>6, <1>7, <1>8 DEF Next

\* "An operator tightening the file during an incident should stop the steps
\* that have not run yet": a command comes to its start only by the gate, and
\* the gate reads the lists as they are then, whatever they said at the press.
THEOREM ListsAreReadAgain == Spec => GateHonoured
<1>1. FileInv /\ [Next]_vars
        => \A p \in Props : task[p].phase # "spawn" /\ task'[p].phase = "spawn"
                            => Permitted(Command(p))
  BY OnlyGateSpawns DEF Gate, MayStart
<1>2. Init => FileInv
  BY FileInit
<1>3. FileInv /\ [Next]_vars => FileInv'
  BY FileStep
<1>. QED BY <1>1, <1>2, <1>3, PTL DEF Spec, GateHonoured

-----------------------------------------------------------------------------
(***************************************************************************)
(* The third layer: while nobody rewrites a file, what a running procedure *)
(* holds is what its presser read, an ended one says an instant no earlier *)
(* than its last command, and of two that share a command or a target one  *)
(* had ended, and cooled, when the other was approved.                     *)
(***************************************************************************)
InForce(p) == row[p].status \in Decided

\* p was approved a whole cooldown after q, which runs no more.
Cooled(p, q) == row[q].status # "running" /\ row[p].approved - active[q] >= Cooldown

Apart ==
    \A p, q \in Props :
        p # q /\ InForce(p) /\ InForce(q) /\ Keys(readOf[p]) \cap Keys(readOf[q]) # {}
        => Cooled(p, q) \/ Cooled(q, p)

Reads(p) == InForce(p) => row[p].proc = readOf[p]
Timed(p) == row[p].status \in {"executed", "failed"} => active[p] <= row[p].executed

\* No command ran in the future.
Past == \A p \in Props : active[p] <= now

QuietInv ==
    /\ RunInv /\ Past
    /\ rewrites = 0 => Apart /\ \A p \in Props : Reads(p) /\ Timed(p)

LEMMA QuietInit == Init => QuietInv
<1> SUFFICES ASSUME Init PROVE QuietInv
  OBVIOUS
<1>1. \A p \in Props : row[p].status = "none"
  BY Blank DEF Init
<1>. QED BY <1>1, RunInit DEF QuietInv, Past, Init, Apart, Reads, Timed, InForce, Decided

\* A proposal that a step does not put in force: it stays as it was, ends, or
\* goes on running.
Carries(p) ==
    /\ InForce(p)' => InForce(p)
    /\ InForce(p)' => row'[p].approved = row[p].approved /\ readOf'[p] = readOf[p]
                        /\ row'[p].proc = readOf[p] /\ Timed(p)'
    /\ row[p].status # "running" => row'[p].status # "running" /\ active'[p] = active[p]

LEMMA QuietStays ==
  ASSUME RunInv', \A p \in Props : Reads(p) => Carries(p),
         Apart, \A p \in Props : Reads(p) /\ Timed(p)
  PROVE  Apart' /\ \A p \in Props : (Reads(p) /\ Timed(p))'
<1>1. \A p \in Props : Carries(p)
  OBVIOUS
<1>2. ASSUME NEW p \in Props PROVE (Reads(p) /\ Timed(p))'
  BY <1>1 DEF Carries, Reads, Timed, InForce, Decided
<1>3. ASSUME NEW p \in Props, NEW q \in Props, p # q, InForce(p)', InForce(q)',
             Keys(readOf'[p]) \cap Keys(readOf'[q]) # {}
      PROVE  (Cooled(p, q) \/ Cooled(q, p))'
  <2>1. /\ InForce(p) /\ InForce(q) /\ readOf'[p] = readOf[p] /\ readOf'[q] = readOf[q]
        /\ row'[p].approved = row[p].approved /\ row'[q].approved = row[q].approved
    BY <1>1, <1>3 DEF Carries
  <2>2. Cooled(p, q) \/ Cooled(q, p)
    BY <1>3, <2>1 DEF Apart
  <2>. QED BY <1>1, <2>1, <2>2 DEF Carries, Cooled
<1>4. Apart'
  BY <1>3 DEF Apart, Keys, CommandsOf
<1>. QED BY <1>2, <1>4

\* What a step leaves alone carries over.
LEMMA CarriesSame ==
  ASSUME FileInv, NEW p \in Props, Timed(p), Reads(p),
         row'[p] = row[p], readOf'[p] = readOf[p], active'[p] = active[p]
  PROVE  Carries(p)
BY DEF Carries, InForce, Timed, Reads

\* The press: what it would share a target with has ended and cooled.
LEMMA QuietApprove ==
  ASSUME RunInv, NEW p \in Props, NEW c \in Procedures, Approve(p, c),
         Apart, \A x \in Props : Reads(x) /\ Timed(x)
  PROVE  Apart' /\ \A x \in Props : (Reads(x) /\ Timed(x))'
<1>0. /\ FileInv /\ row \in [Props -> RowType] /\ row[p] \in RowType /\ RestType
      /\ now \in Nat /\ Cooldown \in Nat
  BY FileRow, FileRest, ProcedureAssumption DEF RunInv, FileInv, TypeOK, RestType
<1>1. /\ row'[p].status = "running" /\ row'[p].approved = now /\ row'[p].proc = row[p].proc
      /\ readOf'[p] = row[p].proc
  BY <1>0 DEF Approve, AsRead, RowType, RestType
<1>2. ASSUME NEW q \in Props \ {p} PROVE row'[q] = row[q] /\ readOf'[q] = readOf[q]
  BY <1>0 DEF Approve, RestType
<1>3. active' = active
  BY DEF Approve, ran
<1>4. (Reads(p) /\ Timed(p))'
  BY <1>1 DEF Reads, Timed
<1>5. \A q \in Props \ {p} : (Reads(q) /\ Timed(q))'
  BY <1>2, <1>3 DEF Reads, Timed, InForce
<1>6. ASSUME NEW q \in Props \ {p}, InForce(q), Keys(row[p].proc) \cap Keys(readOf[q]) # {}
      PROVE  Cooled(p, q)'
  <2>1. q \in Acted \ {p} /\ row[q].proc = readOf[q]
    BY <1>6 DEF Acted, With, InForce, Decided, Reads
  <2>2. ~Cooling(p)
    BY DEF Approve
  <2>3. row[q].status # "running" /\ ~(now - row[q].executed < Cooldown)
    BY <1>6, <2>1, <2>2 DEF Cooling, SharesKey
  <2>4. active[q] <= row[q].executed /\ active[q] \in Nat /\ row[q].executed \in Nat
    BY <1>0, <1>6, <2>3, ProcedureAssumption DEF Timed, InForce, Decided, RestType, RowType
  <2>5. now - active[q] >= Cooldown
    BY <1>0, <2>3, <2>4
  <2>. QED BY <1>1, <1>2, <1>3, <2>3, <2>5 DEF Cooled
<1>7. ASSUME NEW x \in Props, NEW y \in Props, x # y, InForce(x)', InForce(y)',
             Keys(readOf'[x]) \cap Keys(readOf'[y]) # {}
      PROVE  (Cooled(x, y) \/ Cooled(y, x))'
  <2>1. CASE x = p
    BY <1>1, <1>2, <1>6, <1>7, <2>1 DEF InForce
  <2>2. CASE y = p
    BY <1>1, <1>2, <1>6, <1>7, <2>2 DEF InForce
  <2>3. CASE x # p /\ y # p
    <3>1. Cooled(x, y) \/ Cooled(y, x)
      BY <1>2, <1>7, <2>3 DEF InForce, Apart
    <3>. QED BY <1>2, <1>3, <2>3, <3>1 DEF Cooled
  <2>. QED BY <2>1, <2>2, <2>3
<1>8. Apart'
  BY <1>7 DEF Apart, Keys, CommandsOf
<1>. QED BY <1>4, <1>5, <1>8

\* A task's own step: it runs what was read, and ends no earlier than it acts.
LEMMA CarriesExecuting ==
  ASSUME RunInv, NEW p \in Props, Executing(p), Reads(p), Timed(p), active[p] <= now
  PROVE  Carries(p)
<1>0. task[p].phase # "none"
  BY DEF Executing, Gate, Refuse, Spawn, CannotExec, Exits, Close, Turn
<1>1. /\ FileInv /\ row \in [Props -> RowType] /\ row[p] \in RowType /\ RestType
      /\ row[p].status = "running" /\ readOf[p] = task[p].proc /\ task[p].at - 1 \in Nat
      /\ task[p].at \in Nat /\ row[p].proc = task[p].proc
  BY <1>0, AtWork, FileRest DEF FileInv, TypeOK, Reads, InForce, Decided
<1>2. ASSUME NEW n \in Nat, NEW b \in BOOLEAN, row' = Written(p, n, b) \/ row' = row,
             readOf' = readOf
      PROVE  Carries(p)
  <2>1. row'[p] = Copied(p, n, b) \/ row'[p] = row[p]
    BY <1>1, <1>2, WrittenRow
  <2>2. /\ row'[p].status = "running" /\ row'[p].approved = row[p].approved
        /\ row'[p].proc = readOf[p]
    BY <1>1, <2>1, CopiedType
  <2>. QED BY <1>1, <1>2, <2>2 DEF Carries, InForce, Decided, Timed
<1>3. PICK t \in BOOLEAN : t = TRUE
  OBVIOUS
<1>4. PICK f \in BOOLEAN : f = FALSE
  OBVIOUS
<1>5. CASE Gate(p)
  <2>1. row' = Written(p, task[p].at - 1, t) \/ row' = row
    BY <1>3, <1>5 DEF Gate
  <2>. QED BY <1>1, <1>2, <1>5, <2>1 DEF Gate
<1>6. CASE Refuse(p) \/ Spawn(p)
  <2>1. row' = row /\ readOf' = readOf
    BY <1>6 DEF Refuse, Spawn, files
  <2>. QED BY <1>1, <1>2, <1>3, <2>1
<1>7. ASSUME NEW zero \in BOOLEAN, Booked(p, zero) PROVE row' = Written(p, task[p].at, f) \/ row' = row
  BY <1>4, <1>7 DEF Booked
<1>8. CASE CannotExec(p)
  <2>1. PICK zero \in BOOLEAN : zero = FALSE
    OBVIOUS
  <2>2. row' = Written(p, task[p].at, f) \/ row' = row
    BY <1>7, <1>8, <2>1 DEF CannotExec
  <2>. QED BY <1>1, <1>2, <1>8, <2>2 DEF CannotExec
<1>9. ASSUME NEW zero \in BOOLEAN, Exits(p, zero) PROVE Carries(p)
  <2>1. row' = Written(p, task[p].at, f) \/ row' = row
    BY <1>7, <1>9 DEF Exits
  <2>. QED BY <1>1, <1>2, <1>9, <2>1 DEF Exits
<1>10. CASE Close(p)
  <2>1. row' = Ending(p) \/ row' = row
    BY <1>10 DEF Close
  <2>2. CASE row' = row
    BY <1>1, <1>2, <1>3, <1>10, <2>2 DEF Close
  <2>3. CASE row' = Ending(p)
    <3>1. row'[p] = Ended(p)
      BY <1>1, <2>3, EndingRow
    <3>2. /\ row'[p].approved = row[p].approved /\ row'[p].proc = readOf[p]
          /\ row'[p].executed = now
      BY <1>1, <3>1, EndedType
    <3>3. active'[p] = active[p] /\ readOf'[p] = readOf[p]
      BY <1>10 DEF Close, ran
    <3>. QED BY <1>1, <3>2, <3>3 DEF Carries, InForce, Decided, Timed
  <2>. QED BY <2>1, <2>2, <2>3
<1>11. CASE \E zero \in BOOLEAN : Exits(p, zero)
  BY <1>9, <1>11
<1>. QED BY <1>5, <1>6, <1>8, <1>10, <1>11 DEF Executing

\* The clock goes forward, and what acts acts now.
LEMMA PastStep == FileInv /\ Past /\ [Next]_vars => Past'
<1> SUFFICES ASSUME FileInv, Past, [Next]_vars, NEW p \in Props PROVE active'[p] <= now'
  BY DEF Past, Props
<1>0. RestType /\ now \in Nat /\ active[p] \in Nat /\ active[p] <= now
  BY FileRest, ProcedureAssumption DEF RestType, Past
<1>1. ASSUME NEW q \in Props, Executing(q)
      PROVE  now' = now /\ active'[p] \in {active[p], now}
  <2>1. CASE Gate(q) \/ Refuse(q) \/ CannotExec(q) \/ Close(q)
    BY <2>1 DEF Gate, Refuse, CannotExec, Close, ran
  <2>2. CASE Spawn(q) \/ \E zero \in BOOLEAN : Exits(q, zero)
    BY <1>0, <2>2 DEF Spawn, Exits, RestType
  <2>. QED BY <1>1, <2>1, <2>2 DEF Executing
<1>2. ASSUME NEW q \in Props, Deciding(q) PROVE now' = now /\ active' = active
  BY <1>2 DEF Deciding, Approve, Supersede, MoveOn, Reject, ran
<1>3. ASSUME NEW lost \in SUBSET With({"running"}), Boot(lost)
      PROVE  now' = now /\ active'[p] \in {active[p], now}
  BY <1>3 DEF Boot
<1>4. ASSUME NEW q \in Procedures, Propose(q) \/ \E r \in Props : Rewrite(r, q)
      PROVE  now' = now /\ active' = active
  BY <1>4 DEF Propose, Rewrite, ran
<1>5. ASSUME Tick \/ (\E c \in Commands : EditLists(c)) \/ UNCHANGED vars
      PROVE  now' \in {now, now + 1} /\ active' = active
  BY <1>5 DEF Tick, EditLists, vars, ran
<1>6. now' \in {now, now + 1} /\ active'[p] \in {active[p], now}
  BY <1>1, <1>2, <1>3, <1>4, <1>5 DEF Next
<1>. QED BY <1>0, <1>6

\* The restart: what it settles, it settles now.
LEMMA CarriesBoot ==
  ASSUME FileInv, Past, NEW lost \in SUBSET With({"running"}), Boot(lost),
         NEW p \in Props, Reads(p), Timed(p)
  PROVE  Carries(p)
<1>0. /\ row[p] \in RowType /\ RestType /\ now \in Nat /\ active[p] \in Nat /\ active[p] <= now
      /\ task[p].phase # "none" => row[p].status = "running"
  <2>1. RestType /\ now \in Nat /\ active[p] \in Nat
    BY FileRest, ProcedureAssumption DEF RestType
  <2>2. active[p] <= now
    BY DEF Past
  <2>. QED BY <2>1, <2>2, FileRow
<1>1. /\ readOf'[p] = readOf[p] /\ active'[p] \in {active[p], now}
      /\ row[p].status # "running" => row'[p] = row[p] /\ active'[p] = active[p]
  BY <1>0 DEF Boot, With
<1>2. CASE row[p].status # "running"
  BY <1>1, <1>2, CarriesSame
<1>3. CASE row[p].status = "running" /\ row'[p] = row[p]
  BY <1>1, <1>3 DEF Carries, InForce, Decided, Reads, Timed, Boot
<1>4. CASE row[p].status = "running" /\ row'[p] = Settle(p)
  <2>1. /\ row'[p].approved = row[p].approved /\ row'[p].proc = readOf[p]
        /\ row'[p].executed = now /\ row'[p].status = "failed"
    BY <1>4, SettledType DEF Reads, InForce, Decided
  <2>. QED BY <1>0, <1>1, <1>4, <2>1 DEF Carries, InForce, Decided, Timed, Boot
<1>5. row'[p] = row[p] \/ row'[p] = Settle(p)
  BY DEF Boot
<1>. QED BY <1>2, <1>3, <1>4, <1>5

LEMMA CarriesPropose ==
  ASSUME RunInv, NEW q \in Procedures, Propose(q), NEW p \in Props, Reads(p), Timed(p)
  PROVE  Carries(p)
<1>0. FileInv /\ readOf' = readOf /\ active' = active
  BY DEF RunInv, Propose, ran
<1>1. CASE p = nextProp
  <2>1. row'[p] = [NoRow EXCEPT !.status = "proposed", !.proc = q, !.created = now]
    BY <1>0, <1>1 DEF Propose, FileInv, TypeOK
  <2>2. row'[p].status = "proposed"
    BY <2>1, Blank DEF RowType
  <2>. QED BY <1>0, <2>2 DEF Carries, InForce, Decided
<1>2. CASE p # nextProp
  <2>1. row'[p] = row[p]
    BY <1>0, <1>2 DEF Propose, FileInv, TypeOK
  <2>. QED BY <1>0, <2>1, CarriesSame
<1>. QED BY <1>1, <1>2

\* A decision other than an approval is of a proposal that is not in force.
LEMMA CarriesDecided ==
  ASSUME FileInv, NEW p \in Props, NEW q \in Props, Reads(p), Timed(p),
         MoveOn(q) \/ Reject(q) \/ \E c \in Procedures : Supersede(q, c)
  PROVE  Carries(p)
<1>0. /\ row \in [Props -> RowType] /\ row[p] \in RowType
      /\ readOf' = readOf /\ active' = active
  BY FileRow DEF FileInv, TypeOK, MoveOn, Reject, Supersede, ran
<1>1. CASE row'[p] = row[p]
  BY <1>0, <1>1, CarriesSame
<1>2. CASE row'[p] # row[p]
  <2>1. PICK s \in {"superseded", "rejected"} :
           row' = [row EXCEPT ![q].status = s] /\ row[q].status = "proposed"
    BY <1>2 DEF MoveOn, Reject, Supersede, files, Proposed, With
  <2>2. p = q /\ row'[p].status = s /\ row[p].status = "proposed"
    BY <1>0, <1>2, <2>1 DEF RowType
  <2>. QED BY <1>0, <2>2 DEF Carries, InForce, Decided
<1>. QED BY <1>1, <1>2

LEMMA QuietStep == QuietInv /\ [Next]_vars => QuietInv'
<1> SUFFICES ASSUME QuietInv, [Next]_vars PROVE QuietInv'
  OBVIOUS
<1>0. RunInv /\ FileInv /\ Past /\ RunInv' /\ Past'
  BY RunStep, PastStep DEF QuietInv, RunInv
<1>1. rewrites \in Nat
  BY <1>0, FileRest DEF RestType
<1> SUFFICES ASSUME rewrites' = 0
             PROVE  Apart' /\ \A p \in Props : (Reads(p) /\ Timed(p))'
  BY <1>0 DEF QuietInv, Props
<1>2. \/ \E q \in Procedures : Propose(q)
      \/ \E q \in Props, c \in Procedures : Approve(q, c)
      \/ \E q \in Props : MoveOn(q) \/ Reject(q) \/ \E c \in Procedures : Supersede(q, c)
      \/ \E q \in Props : Executing(q)
      \/ \E r \in Props, q \in Procedures : Rewrite(r, q)
      \/ \E lost \in SUBSET With({"running"}) : Boot(lost)
      \/ UNCHANGED <<row, readOf, active, rewrites>>
  <2>1. Tick \/ (\E c \in Commands : EditLists(c)) \/ UNCHANGED vars
          => UNCHANGED <<row, readOf, active, rewrites>>
    BY DEF Tick, EditLists, vars, files, ran, count
  <2>. QED BY <2>1 DEF Next, Deciding
<1>3. \A r \in Props, q \in Procedures : ~Rewrite(r, q)
  BY <1>1 DEF Rewrite
<1>4. rewrites = 0
  BY <1>2, <1>3 DEF Propose, Approve, MoveOn, Reject, Supersede, count, Executing, Gate, Refuse,
     Spawn, CannotExec, Exits, Booked, Close, Saves, Boot
<1>5. Apart /\ \A p \in Props : Reads(p) /\ Timed(p)
  BY <1>4 DEF QuietInv
<1>6. ASSUME NEW q \in Props, NEW c \in Procedures, Approve(q, c)
      PROVE  Apart' /\ \A p \in Props : (Reads(p) /\ Timed(p))'
  BY <1>0, <1>5, <1>6, QuietApprove
<1>7. ASSUME NEW q \in Procedures, Propose(q), NEW p \in Props PROVE Carries(p)
  BY <1>0, <1>5, <1>7, CarriesPropose
<1>8. ASSUME NEW q \in Props, NEW p \in Props,
             MoveOn(q) \/ Reject(q) \/ \E c \in Procedures : Supersede(q, c)
      PROVE  Carries(p)
  BY <1>0, <1>5, <1>8, CarriesDecided
<1>9. ASSUME NEW q \in Props, Executing(q), NEW p \in Props PROVE Carries(p)
  <2>1. CASE p = q
    BY <1>0, <1>5, <1>9, <2>1, CarriesExecuting DEF Past
  <2>2. CASE p # q
    BY <1>0, <1>5, <1>9, <2>2, OthersStay, CarriesSame
  <2>. QED BY <2>1, <2>2
<1>10. ASSUME NEW lost \in SUBSET With({"running"}), Boot(lost), NEW p \in Props PROVE Carries(p)
  BY <1>0, <1>5, <1>10, CarriesBoot
<1>11. ASSUME UNCHANGED <<row, readOf, active, rewrites>>, NEW p \in Props PROVE Carries(p)
  BY <1>0, <1>5, <1>11, CarriesSame
<1>12. ASSUME \A p \in Props : Carries(p)
       PROVE  Apart' /\ \A p \in Props : (Reads(p) /\ Timed(p))'
  BY <1>0, <1>5, <1>12, QuietStays
<1>. QED BY <1>2, <1>3, <1>6, <1>7, <1>8, <1>9, <1>10, <1>11, <1>12

\* A target is left alone for a whole cooldown after the last command of a
\* procedure, before another one that shares it is approved: the crash that
\* ended it, and the ending that could not be written, are counted too.
THEOREM TargetsRest == Spec => []QuietPeriod
<1>1. QuietInv => QuietPeriod
  <2> SUFFICES ASSUME QuietInv, rewrites = 0, NEW p \in Props, NEW q \in Props,
                      p # q, Began(p), Began(q), Keys(readOf[p]) \cap Keys(readOf[q]) # {}
               PROVE  \/ row[p].approved - active[q] >= Cooldown
                      \/ row[q].approved - active[p] >= Cooldown
    BY DEF QuietPeriod
  <2>1. InForce(p) /\ InForce(q)
    BY DEF QuietInv, RunInv, Fit, Untouched, InForce, Began
  <2>. QED BY <2>1 DEF QuietInv, Apart, Cooled
<1>. QED BY <1>1, QuietInit, QuietStep, PTL DEF Spec

=============================================================================
