----------------------------- MODULE Procedure -----------------------------
(***************************************************************************)
(* hookprobe's remediation procedures (remediation.py): a report proposes  *)
(* steps, a person approves the version they read, and the node runs the   *)
(* commands one by one, each under two allowlists read afresh, writing     *)
(* down what has started and what has landed, so that a process that dies  *)
(* half way can still say which commands ran.                              *)
(*                                                                         *)
(* A procedure is a sequence of commands and its digest is the procedure   *)
(* itself.  The investigation a proposal came from is Remediation.tla's    *)
(* subject: here it only moves on (`moved`).  `list_all`'s page of 200     *)
(* rows is taken as all of them.                                           *)
(***************************************************************************)
EXTENDS Integers, FiniteSets, Sequences

CONSTANTS
    Commands, Procedures,
    StepsOf,        \* a procedure's commands, in order
    TargetOf,       \* the target its step names for a command
    HighRisk,       \* commands whose step says `high`
    NeedsShell,     \* commands argv_for refuses
    Cooldown,       \* remediation_cooldown_seconds
    ApprovalWindow, \* APPROVAL_WINDOW_SECONDS
    None,
    MaxProposals, MaxTime,
    MaxRewrites,    \* bound: proposal files rewritten by somebody else
    MaxEdits,       \* bound: allowlist edits
    MaxCrashes,     \* bound: restarts
    MaxFaults       \* bound: saves that raise OSError

ASSUME ProcedureAssumption ==
    /\ StepsOf \in [Procedures -> Seq(Commands)]
    /\ \A q \in Procedures : Len(StepsOf[q]) > 0
    /\ DOMAIN TargetOf = Commands
    /\ HighRisk \subseteq Commands /\ NeedsShell \subseteq Commands
    /\ Cooldown \in Nat /\ ApprovalWindow \in Nat
    /\ None \notin Procedures
    /\ MaxProposals \in Nat /\ MaxTime \in Nat \ {0}
    /\ MaxRewrites \in Nat /\ MaxEdits \in Nat /\ MaxCrashes \in Nat /\ MaxFaults \in Nat

VARIABLES
    now,
    row, nextProp,          \* the proposal files
    moved,                  \* proposals whose investigation has moved on
    task,                   \* the executing task, with its own copy of the row
    onLoop,                 \* the task between two awaits, 0 for none
    allowed, highAllowed,   \* the two allowlist files
    readOf,                 \* history: what the presser read
    starts,                 \* history: the commands that started
    good,                   \* history: the steps that exited 0
    active,                 \* history: when a proposal's command last ran
    rewrites, edits, crashes, faults

files == <<row, nextProp>>
exec  == <<task, onLoop>>
lists == <<allowed, highAllowed>>
ran   == <<starts, good, active>>
count == <<rewrites, edits, crashes, faults>>
vars  == <<now, files, moved, exec, lists, readOf, ran, count>>

Props == 1..MaxProposals

NoRow  == [status |-> "none", proc |-> None, created |-> 0, approved |-> 0, executed |-> 0,
           results |-> 0, inflight |-> FALSE, interrupted |-> FALSE]
NoTask == [phase |-> "none", proc |-> None, at |-> 1, failed |-> FALSE]

With(status) == {p \in Props : row[p].status \in status}
Proposed     == With({"proposed"})
Acted        == With({"running", "executed", "failed"})

\* No other handler is between two of its awaits.
LoopFree == onLoop = 0

-----------------------------------------------------------------------------
\* step_deny_reason
Permitted(c) == c \in allowed /\ (c \in HighRisk => c \in highAllowed)

\* cooldown_keys: the literal command and the declared target.
CommandsOf(q) == {StepsOf[q][i] : i \in 1..Len(StepsOf[q])}
Keys(q)       == {<<"command", c>> : c \in CommandsOf(q)}
                    \cup {<<"target", TargetOf[c]>> : c \in CommandsOf(q)}

SharesKey(p, q) == Keys(row[p].proc) \cap Keys(row[q].proc) # {}

\* cooling
Cooling(p) ==
    \E q \in Acted \ {p} :
        /\ SharesKey(p, q)
        /\ row[q].status # "running" => now - row[q].executed < Cooldown

\* stale
Stale(p) == now - row[p].created > ApprovalWindow

\* procedure_key: the same commands, in whatever order.
SameKey(q1, q2) ==
    \A c \in Commands : Cardinality({i \in 1..Len(StepsOf[q1]) : StepsOf[q1][i] = c})
                      = Cardinality({i \in 1..Len(StepsOf[q2]) : StepsOf[q2][i] = c})

\* pending_duplicate
Pending(q) == {p \in Proposed : ~Stale(p) /\ SameKey(row[p].proc, q)}

\* settle_interrupted's account of a row a dead process left running.
Receipt(p) ==
    LET n == row[p].results
    IN  [ran     |-> 1..n,
         unknown |-> IF row[p].inflight THEN {n + 1} ELSE {},
         not_run |-> (n + IF row[p].inflight THEN 2 ELSE 1)..Len(StepsOf[row[p].proc])]

-----------------------------------------------------------------------------
Init ==
    /\ now = 1
    /\ row = [p \in Props |-> NoRow] /\ nextProp = 1 /\ moved = {}
    /\ task = [p \in Props |-> NoTask] /\ onLoop = 0
    /\ allowed = Commands /\ highAllowed = HighRisk
    /\ readOf = [p \in Props |-> None]
    /\ starts = [p \in Props |-> <<>>] /\ good = [p \in Props |-> {}]
    /\ active = [p \in Props |-> 0]
    /\ rewrites = 0 /\ edits = 0 /\ crashes = 0 /\ faults = 0

\* A save that raises OSError is one of MaxFaults.
Saves(ok) ==
    /\ ok \/ faults < MaxFaults
    /\ faults' = IF ok THEN faults ELSE faults + 1
    /\ UNCHANGED <<rewrites, edits, crashes>>

-----------------------------------------------------------------------------
(***************************************************************************)
(* Proposing and deciding.  A proposal that duplicates one still waiting,  *)
(* and a press that is refused and changes nothing (another version than   *)
(* the one that was read, stale, not on a list, cooling), are no steps.    *)
(***************************************************************************)
Propose(q) ==
    /\ LoopFree /\ nextProp <= MaxProposals /\ Pending(q) = {}
    /\ row' = [row EXCEPT ![nextProp] = [NoRow EXCEPT !.status = "proposed", !.proc = q,
                                                      !.created = now]]
    /\ nextProp' = nextProp + 1
    /\ UNCHANGED <<now, moved, exec, lists, readOf, ran, count>>

\* Another turn of the proposal's investigation, or its recorded recovery.
MoveOn(p) ==
    /\ LoopFree /\ p \in Proposed /\ p \notin moved
    /\ moved' = moved \cup {p}
    /\ UNCHANGED <<now, files, exec, lists, readOf, ran, count>>

\* Seeded fault: the digest the press names is not compared.
AsReadNot(p, q) == TRUE

\* The press names the digest of the row as it is.
AsRead(p, q) == q = row[p].proc

Supersede(p, q) ==
    /\ LoopFree /\ p \in Proposed /\ AsRead(p, q) /\ p \in moved
    /\ row' = [row EXCEPT ![p].status = "superseded"]
    /\ UNCHANGED <<now, nextProp, moved, exec, lists, readOf, ran, count>>

Approve(p, q) ==
    /\ LoopFree /\ p \in Proposed /\ AsRead(p, q)
    /\ p \notin moved /\ ~Stale(p)
    /\ \A c \in CommandsOf(row[p].proc) : Permitted(c)
    /\ ~Cooling(p)
    /\ row' = [row EXCEPT ![p].status = "running", ![p].approved = now]
    /\ task' = [task EXCEPT ![p] = [NoTask EXCEPT !.phase = "gate", !.proc = row[p].proc]]
    /\ readOf' = [readOf EXCEPT ![p] = q]
    /\ UNCHANGED <<now, nextProp, moved, onLoop, lists, ran, count>>

Reject(p) ==
    /\ LoopFree /\ p \in Proposed
    /\ row' = [row EXCEPT ![p].status = "rejected"]
    /\ UNCHANGED <<now, nextProp, moved, exec, lists, readOf, ran, count>>

-----------------------------------------------------------------------------
(***************************************************************************)
(* execute.  From an await to the next the task keeps the loop; each save  *)
(* writes the task's copy of the row over whatever the file says.          *)
(***************************************************************************)
Turn(p, phase) == task[p].phase = phase /\ onLoop \in {0, p}

Steps(p)    == StepsOf[task[p].proc]
Command(p)  == Steps(p)[task[p].at]
MoreOf(p)   == task[p].at <= Len(Steps(p))
Written(p, results, inflight) ==
    [row EXCEPT ![p].proc = task[p].proc, ![p].results = results, ![p].inflight = inflight]

\* The second gate, per command.
MayStart(c) == Permitted(c) /\ c \notin NeedsShell

\* The record that a step is starting; nothing starts without it.
Gate(p) ==
    /\ Turn(p, "gate") /\ MoreOf(p) /\ MayStart(Command(p))
    /\ \E ok \in BOOLEAN :
          /\ Saves(ok)
          /\ task' = [task EXCEPT ![p].phase = IF ok THEN "spawn" ELSE "close", ![p].failed = ~ok]
          /\ row' = IF ok THEN Written(p, task[p].at - 1, TRUE) ELSE row
          /\ onLoop' = IF ok THEN 0 ELSE p
    /\ UNCHANGED <<now, nextProp, moved, lists, readOf, ran>>

\* "refused at execution": a result of its own, and the end.
Refuse(p) ==
    /\ Turn(p, "gate") /\ MoreOf(p) /\ ~MayStart(Command(p))
    /\ task' = [task EXCEPT ![p].at = @ + 1, ![p].failed = TRUE, ![p].phase = "close"]
    /\ onLoop' = p
    /\ UNCHANGED <<now, files, moved, lists, readOf, ran, count>>

\* create_subprocess_exec: the command is running.
Spawn(p) ==
    /\ LoopFree /\ task[p].phase = "spawn"
    /\ task' = [task EXCEPT ![p].phase = "command"]
    /\ starts' = [starts EXCEPT ![p] = Append(@, [step |-> task[p].at, cmd |-> Command(p)])]
    /\ active' = [active EXCEPT ![p] = now]
    /\ UNCHANGED <<now, files, moved, onLoop, lists, good, readOf, count>>

AfterStep(zero) == IF zero THEN "gate" ELSE "close"

\* A step's result is appended and saved; a save that fails ends the task on
\* the spot and leaves the row running.
Booked(p, zero) ==
    \E ok \in BOOLEAN :
        /\ Saves(ok)
        /\ IF ok
           THEN /\ task' = [task EXCEPT ![p].at = @ + 1, ![p].failed = ~zero,
                                        ![p].phase = AfterStep(zero)]
                /\ row' = Written(p, task[p].at, FALSE)
                /\ onLoop' = p
           ELSE /\ task' = [task EXCEPT ![p] = NoTask]
                /\ UNCHANGED <<row, onLoop>>

\* The command ends, or times out and is killed.
Exits(p, zero) ==
    /\ LoopFree /\ task[p].phase = "command"
    /\ Booked(p, zero)
    /\ good' = IF zero THEN [good EXCEPT ![p] = @ \cup {task[p].at}] ELSE good
    /\ active' = [active EXCEPT ![p] = now]
    /\ UNCHANGED <<now, nextProp, moved, lists, starts, readOf>>

\* The command never started: an OSError of exec.
CannotExec(p) ==
    /\ LoopFree /\ task[p].phase = "spawn"
    /\ Booked(p, FALSE)
    /\ UNCHANGED <<now, nextProp, moved, lists, ran, readOf>>

Ending(p) ==
    [Written(p, task[p].at - 1, FALSE) EXCEPT ![p].status = IF task[p].failed THEN "failed" ELSE "executed",
                                              ![p].executed = now]

\* The last write of execute.  When it fails the file still says `running`.
Close(p) ==
    /\ Turn(p, "close") \/ (Turn(p, "gate") /\ ~MoreOf(p))
    /\ \E ok \in BOOLEAN :
          /\ Saves(ok)
          /\ row' = IF ok THEN Ending(p) ELSE row
    /\ task' = [task EXCEPT ![p] = NoTask]
    /\ onLoop' = 0
    /\ UNCHANGED <<now, nextProp, moved, lists, readOf, ran>>

-----------------------------------------------------------------------------
(***************************************************************************)
(* The restart, time, and the world outside.                               *)
(***************************************************************************)
\* Seeded fault: what was in flight is written off as never started.
SettleForgets(p) == [row[p] EXCEPT !.status = "failed", !.executed = now, !.interrupted = TRUE,
                                   !.inflight = FALSE]

\* Seeded fault: the account is written and the status left alone.
SettleKeeps(p) == [row[p] EXCEPT !.executed = now, !.interrupted = TRUE]

\* settle_interrupted
Settle(p) == [row[p] EXCEPT !.status = "failed", !.executed = now, !.interrupted = TRUE]

\* The process dies at any point and comes up again; a row whose save raises
\* is left as it was.
Boot(lost) ==
    LET running == With({"running"})
    IN  /\ crashes < MaxCrashes /\ crashes' = crashes + 1
        /\ lost \subseteq running /\ faults + Cardinality(lost) <= MaxFaults
        /\ faults' = faults + Cardinality(lost)
        /\ row' = [p \in Props |-> IF p \in running \ lost THEN Settle(p) ELSE row[p]]
        /\ task' = [p \in Props |-> NoTask] /\ onLoop' = 0
        /\ active' = [p \in Props |-> IF task[p].phase = "command" THEN now ELSE active[p]]
        /\ UNCHANGED <<now, nextProp, moved, lists, readOf, starts, good, rewrites, edits>>

Tick ==
    /\ now < MaxTime /\ now' = now + 1
    /\ UNCHANGED <<files, moved, exec, lists, readOf, ran, count>>

\* An operator adds an entry to one of the two files, or takes one out.
Toggled(S, c) == IF c \in S THEN S \ {c} ELSE S \cup {c}

EditLists(c) ==
    /\ edits < MaxEdits /\ edits' = edits + 1
    /\ \/ allowed' = Toggled(allowed, c) /\ UNCHANGED highAllowed
       \/ c \in HighRisk /\ highAllowed' = Toggled(highAllowed, c) /\ UNCHANGED allowed
    /\ UNCHANGED <<now, files, moved, exec, readOf, ran, rewrites, crashes, faults>>

\* Something other than the service rewrites a proposal's steps.
Rewrite(p, q) ==
    /\ p \in With({"proposed", "running"}) /\ q # row[p].proc
    /\ rewrites < MaxRewrites /\ rewrites' = rewrites + 1
    /\ row' = [row EXCEPT ![p].proc = q]
    /\ UNCHANGED <<now, nextProp, moved, exec, lists, readOf, ran, edits, crashes, faults>>

Deciding(p) ==
    \/ \E q \in Procedures : Approve(p, q) \/ Supersede(p, q)
    \/ MoveOn(p) \/ Reject(p)

Executing(p) ==
    \/ Gate(p) \/ Refuse(p) \/ Spawn(p) \/ CannotExec(p) \/ Close(p)
    \/ \E zero \in BOOLEAN : Exits(p, zero)

Next ==
    \/ \E q \in Procedures : Propose(q)
    \/ \E p \in Props : Deciding(p) \/ Executing(p)
    \/ \E p \in Props, q \in Procedures : Rewrite(p, q)
    \/ \E lost \in SUBSET With({"running"}) : Boot(lost)
    \/ \E c \in Commands : EditLists(c)
    \/ Tick

Spec == Init /\ [][Next]_vars

\* A started process runs on; every command ends or is killed at its timeout;
\* a process that dies is started again by its supervisor.
LiveSpec == Spec /\ \A p \in Props : WF_vars(Executing(p))

-----------------------------------------------------------------------------
RowType == [status: {"none", "proposed", "running", "executed", "failed", "rejected", "superseded"},
            proc: Procedures \cup {None},
            created: 0..MaxTime, approved: 0..MaxTime, executed: 0..MaxTime,
            results: Nat, inflight: BOOLEAN, interrupted: BOOLEAN]
TaskType == [phase: {"none", "gate", "spawn", "command", "close"},
             proc: Procedures \cup {None}, at: Nat \ {0}, failed: BOOLEAN]
StartType == [step: Nat \ {0}, cmd: Commands]

\* Only a row on disk as running has a task.
TypeOK ==
    /\ now \in 1..MaxTime /\ nextProp \in 1..(MaxProposals + 1) /\ moved \subseteq Props
    /\ row \in [Props -> RowType]
    /\ task \in [Props -> TaskType] /\ onLoop \in Props \cup {0}
    /\ allowed \subseteq Commands /\ highAllowed \subseteq HighRisk
    /\ readOf \in [Props -> Procedures \cup {None}]
    /\ starts \in [Props -> Seq(StartType)] /\ good \in [Props -> SUBSET Nat]
    /\ active \in [Props -> 0..MaxTime]
    /\ rewrites \in Nat /\ edits \in Nat /\ crashes \in Nat /\ faults \in Nat
    /\ \A p \in Props : task[p].phase # "none" => row[p].status = "running"

Began(p)        == starts[p] # <<>>
StepsStarted(p) == {starts[p][i].step : i \in 1..Len(starts[p])}

\* "Approved commands run exactly as written": every command that ever started
\* is the one its presser read in that place, though the file may be rewritten
\* before the press, after it, and while the steps run.
ApprovedAsRead ==
    \A p \in Props : \A i \in 1..Len(starts[p]) :
        /\ readOf[p] # None
        /\ i <= Len(StepsOf[readOf[p]]) /\ starts[p][i].cmd = StepsOf[readOf[p]][i]

\* "An operator tightening the file during an incident should stop the steps
\* that have not run yet": a command whose entry is gone from a list when its
\* turn comes does not start, whatever the lists said at the press.
GateHonoured ==
    [][\A p \in Props : task[p].phase # "spawn" /\ task'[p].phase = "spawn"
                        => Permitted(Command(p))]_vars

\* "Sequentially, stop on the first failure": a procedure's steps start once
\* each and in order, and none starts after one that did not exit 0, across
\* presses, failed saves and restarts.
OnceInOrder ==
    \A p \in Props : \A i \in 1..Len(starts[p]) :
        starts[p][i].step = i /\ (i < Len(starts[p]) => i \in good[p])

\* A target is left alone: of two procedures that share a command or a target,
\* one was approved a whole cooldown after the other's last command, crashes
\* and endings that could not be written included.  What a running procedure
\* holds is read from its file, so this supposes that nobody rewrites one.
QuietPeriod ==
    rewrites = 0 => \A p, q \in Props :
        p # q /\ Began(p) /\ Began(q) /\ Keys(readOf[p]) \cap Keys(readOf[q]) # {}
        => \/ row[p].approved - active[q] >= Cooldown
           \/ row[q].approved - active[p] >= Cooldown

\* "Which commands ran and which never did": nothing a settled row calls not
\* run has started, nothing that exited 0 is left out, and at most the one step
\* in flight is unknown.
ReceiptsTruthful ==
    \A p \in Props : row[p].interrupted =>
        /\ StepsStarted(p) \cap Receipt(p).not_run = {}
        /\ good[p] \subseteq Receipt(p).ran \cup Receipt(p).unknown
        /\ Cardinality(Receipt(p).unknown) <= 1

\* A procedure that was approved ends unless a save fails: its row does not say
\* `running` for ever, and so does not hold every one that shares its target.
ApprovedEnds ==
    \A p \in Props : row[p].status = "running" ~> row[p].status # "running" \/ faults > 0
=============================================================================
