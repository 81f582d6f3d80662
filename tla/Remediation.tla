---------------------------- MODULE Remediation ----------------------------
(***************************************************************************)
(* What happens around a remediation procedure (Procedure.tla): the        *)
(* investigation of a condition that proposes it, the firings, recoveries  *)
(* and turns that move the condition on while the proposal waits, the      *)
(* press that finds it moved, and, once the steps have run, the evidence   *)
(* of whether they held and what the chat is told of it.                   *)
(*                                                                         *)
(* A run is an investigation of a condition (source and title), or a       *)
(* notice: the service explaining itself in the chat, which is filed as a  *)
(* run of the same condition.  `order` holds the instants created_at and   *)
(* finished_at of the runs, oldest first; `now` moves in units that only   *)
(* order the windows.  The steps, their lists and their digest are         *)
(* Procedure.tla's: here a procedure runs and ends, cleanly or not.        *)
(***************************************************************************)
EXTENDS Integers, FiniteSets, Sequences

CONSTANTS
    Conditions, Procedures,
    Keys,           \* the cooldown keys, each as the procedures that have it
    Cooldown,       \* remediation_cooldown_seconds
    VerifyWindow,   \* remediation_verify_seconds; 0 turns the waiting off
    ApprovalWindow, \* APPROVAL_WINDOW_SECONDS
    CoalesceWindow, \* coalesce_window_seconds
    MaxTime, MaxRuns, MaxTurns, MaxProposals,
    MaxCrashes,     \* bound: restarts
    MaxFaults       \* bound: answers that could not be saved

RemediationAssumption ==
    /\ Keys \subseteq SUBSET Procedures
    /\ Cooldown \in Nat /\ VerifyWindow \in Nat
    /\ ApprovalWindow \in Nat /\ CoalesceWindow \in Nat
    /\ MaxTime \in Nat \ {0} /\ MaxRuns \in Nat /\ MaxTurns \in Nat \ {0}
    /\ MaxProposals \in Nat /\ MaxCrashes \in Nat /\ MaxFaults \in Nat

VARIABLES
    now, order,
    run, nextRun,           \* RunStore
    told,                   \* notices sent, by their idempotency key
    row, nextProp,          \* the proposal files
    overtaken,              \* history: proposals a turn or a recorded recovery outran
    crashes,
    unsaved                 \* history: answers that evidence could not save on their row

runs  == <<run, nextRun, told>>
files == <<row, nextProp>>
vars  == <<now, order, runs, files, overtaken, crashes, unsaved>>

Runs  == 1..MaxRuns
Props == 1..MaxProposals
None  == "none"
Unsaid == ""         \* no answer on the row, nothing to say

NoRun == [of |-> None]
NoRow == [status |-> None]

Known    == {r \in Runs : run[r] # NoRun}
Proposed == {p \in Props : row[p].status = "proposed"}
Acted    == {p \in Props : row[p].status \in {"running", "executed", "failed"}}
Executed == {p \in Props : row[p].status = "executed"}

CondOf(p) == run[row[p].session].of

-----------------------------------------------------------------------------
(***************************************************************************)
(* What the handlers read.                                                 *)
(***************************************************************************)

\* record_recovery's clock of a run: finished_at, or created_at while it runs.
Born(r) == <<r, "created">>
Done(r) == <<r, "finished">>
When(r) == CHOOSE i \in 1..Len(order) : order[i] = IF run[r].busy THEN Born(r) ELSE Done(r)

Latest(S) == CHOOSE r \in S : \A q \in S : When(q) <= When(r)

\* An instant happens, for the first time or again.
Stamped(o, instants) == SelectSeq(o, LAMBDA e : \A i \in 1..Len(instants) : e # instants[i]) \o instants

\* Seeded fault: a recovery alone moves a condition.
MovedByRecovery(p) == run[row[p].session].recovered /\ ~row[p].cursor.recovered

\* moved, over the cursor of the proposal's own run.
Moved(p) ==
    \/ run[row[p].session].recovered /\ ~row[p].cursor.recovered
    \/ run[row[p].session].turn # row[p].cursor.turn

\* stale
Stale(p) == now - row[p].created > ApprovalWindow

\* cooling
Cooling(p) ==
    \E q \in Acted \ {p} :
        /\ \E key \in Keys : {row[p].proc, row[q].proc} \subseteq key
        /\ row[q].status # "running" => now - row[q].executed < Cooldown

\* pending_duplicate
Pending(q) == {p \in Proposed : ~Stale(p) /\ row[p].proc = q}

\* outcome: Unsaid where there is nothing to say, VERIFYING, HELD or DID_NOT_HOLD.
\* A row without a window (until is 0) held as soon as it ran.
Outcome(p) ==
    IF row[p].status # "executed" THEN Unsaid
    ELSE IF row[p].held # Unsaid THEN row[p].held
    ELSE IF (run[row[p].session].recovered /\ ~row[p].after) \/ now >= row[p].until THEN "held"
    ELSE "verifying"

Decided == {p \in Executed : Outcome(p) \in {"held", "did_not_hold"}}

-----------------------------------------------------------------------------
Init ==
    /\ now = 1 /\ order = <<>>
    /\ run = [r \in Runs |-> NoRun] /\ nextRun = 1 /\ told = {}
    /\ row = [p \in Props |-> NoRow] /\ nextProp = 1
    /\ overtaken = {}
    /\ crashes = 0 /\ unsaved = {}

(***************************************************************************)
(* Notices: _notice files one per key, as a finished run of the condition. *)
(* `base` and `past` are the run table and the instants as the handler     *)
(* leaves them.                                                            *)
(***************************************************************************)

Notice(c) == [of |-> c, notice |-> TRUE, turn |-> 1, busy |-> FALSE, failed |-> FALSE,
              resumable |-> FALSE, restarted |-> FALSE, recovered |-> FALSE,
              ended |-> now, offer |-> 0]

KeyOf(kind, p)  == [kind |-> kind, proposal |-> p, at |-> IF kind = "cooling" THEN now ELSE 0]
Untold(kind, P) == {p \in P : ~\E t \in told : t.key = KeyOf(kind, p)}
Nth(S, i)       == CHOOSE p \in S : Cardinality({q \in S : q <= p}) = i

Tell(kind, says, P, base, past) ==
    LET new == Untold(kind, P)
        n   == Cardinality(new)
    IN  /\ nextRun + n - 1 <= MaxRuns
        /\ run' = [r \in Runs |-> IF r \in nextRun..(nextRun + n - 1)
                                  THEN Notice(CondOf(Nth(new, r - nextRun + 1))) ELSE base[r]]
        /\ nextRun' = nextRun + n
        /\ order' = past \o [i \in 1..n |-> Done(nextRun + i - 1)]
        /\ told' = told \cup {[key |-> KeyOf(kind, p), says |-> says[p]] : p \in new}

-----------------------------------------------------------------------------
(***************************************************************************)
(* The event door: firings, recoveries, turns.                             *)
(***************************************************************************)
Investigation(c) ==
    [of |-> c, notice |-> FALSE, turn |-> 1, busy |-> TRUE, failed |-> FALSE,
     resumable |-> TRUE, restarted |-> FALSE, recovered |-> FALSE, ended |-> 0, offer |-> 0]

\* A run answered on the spot: a runbook, an earlier report, no budget.
Answered(c) == [Investigation(c) EXCEPT !.busy = FALSE, !.resumable = FALSE, !.ended = now]

\* continue_run
NextTurn(r) == [run[r] EXCEPT !.turn = @ + 1, !.busy = TRUE, !.failed = FALSE, !.ended = 0]

\* Seeded fault: a later answer overwrites an earlier one.
DueAgain(s, held) == {p \in Executed : /\ row[p].session = s
                                       /\ held = "did_not_hold" => row[p].until = 0 \/ now < row[p].until}

\* evidence's rows: executed and unanswered; a re-fire only inside the window, if
\* the row has one.
Due(s, held) == {p \in Executed : /\ row[p].session = s /\ row[p].held = Unsaid
                                  /\ held = "did_not_hold" => row[p].until = 0 \/ now < row[p].until}

\* evidence, then one outcome notice per row it stamped.  A row whose save
\* raises is left as it was.
Evidence(s, held, lost, base, past) ==
    LET rows == Due(s, held) \ lost
    IN  /\ lost \subseteq Due(s, held)
        /\ unsaved' = unsaved \cup (lost \X {held})
        /\ Cardinality(unsaved') <= MaxFaults
        /\ row' = [p \in Props |-> IF p \in rows THEN [row[p] EXCEPT !.held = held] ELSE row[p]]
        /\ Tell("outcome", [p \in Props |-> held], rows, base, past)

Busy(c)      == {r \in Known : run[r].of = c /\ run[r].busy}
Claimable(c) == {r \in Known : /\ run[r].of = c /\ ~run[r].busy /\ ~run[r].failed
                               /\ run[r].resumable /\ now - run[r].ended <= CoalesceWindow}

\* History: what a turn of r outruns.
Outrun(r) == {p \in Proposed : row[p].session = r}

\* A re-fire while the condition is being investigated.
FireBusy(c, lost) ==
    /\ Busy(c) # {}
    /\ Evidence(Latest(Busy(c)), "did_not_hold", lost, run, order)
    /\ UNCHANGED <<now, nextProp, overtaken, crashes>>

\* A re-fire the last investigation claims: a follow-up turn.  With the budget
\* spent "the previous report stands", and nothing changes.
FireClaimed(c, lost) ==
    /\ Busy(c) = {} /\ Claimable(c) # {}
    /\ LET r == Latest(Claimable(c))
       IN  /\ run[r].turn < MaxTurns
           /\ Evidence(r, "did_not_hold", lost, [run EXCEPT ![r] = NextTurn(r)], order)
           /\ overtaken' = overtaken \cup Outrun(r)
    /\ UNCHANGED <<now, nextProp, crashes>>

\* A firing nothing claims is a run of its own.
FireFresh(c) ==
    /\ Busy(c) = {} /\ Claimable(c) = {}
    /\ nextRun \in Runs /\ nextRun' = nextRun + 1
    /\ \/ /\ run' = [run EXCEPT ![nextRun] = Investigation(c)]
          /\ order' = order \o <<Born(nextRun)>>
       \/ /\ run' = [run EXCEPT ![nextRun] = Answered(c)]
          /\ order' = order \o <<Done(nextRun)>>
    /\ UNCHANGED <<now, told, files, overtaken, crashes, unsaved>>

\* A person's follow-up or retry: another turn of a finished run.
FollowUp(r) ==
    /\ run[r] # NoRun /\ ~run[r].busy /\ run[r].resumable /\ run[r].turn < MaxTurns
    /\ run' = [run EXCEPT ![r] = NextTurn(r)]
    /\ overtaken' = overtaken \cup Outrun(r)
    /\ UNCHANGED <<now, order, nextRun, told, files, crashes, unsaved>>

\* record_recovery: the newest run of the condition, notices included;
\* recovered_at is written once in a run's life.
Recover(c, lost) ==
    LET all == {r \in Known : run[r].of = c}
        s   == Latest(all)
    IN  /\ all # {}
        /\ Evidence(s, "held", lost, [run EXCEPT ![s].recovered = TRUE], order)
        /\ overtaken' = IF run[s].recovered THEN overtaken ELSE overtaken \cup Outrun(s)
        /\ UNCHANGED <<now, nextProp, crashes>>

-----------------------------------------------------------------------------
(***************************************************************************)
(* The end of a turn: a report with steps, one without, or a failure.      *)
(***************************************************************************)
Row(q, s) == [status |-> "proposed", proc |-> q, session |-> s,
              cursor |-> [turn |-> run[s].turn, recovered |-> run[s].recovered],
              created |-> now, executed |-> 0, until |-> 0, after |-> FALSE, held |-> Unsaid]

Finished(r, failed, offer) ==
    /\ run' = [run EXCEPT ![r].busy = FALSE, ![r].failed = failed, ![r].offer = offer,
                          ![r].ended = now]
    /\ order' = Stamped(order, <<Done(r)>>)

ReportWith(r, q) ==
    \/ /\ Pending(q) = {} /\ nextProp \in Props
       /\ Finished(r, FALSE, nextProp)
       /\ row' = [row EXCEPT ![nextProp] = Row(q, r)]
       /\ nextProp' = nextProp + 1
    \/ /\ \E p \in Pending(q) : Finished(r, FALSE, p)
       /\ UNCHANGED files

EndTurn(r) ==
    /\ run[r] # NoRun /\ run[r].busy
    /\ \/ \E q \in Procedures : ReportWith(r, q)
       \/ \E failed \in BOOLEAN : Finished(r, failed, 0) /\ UNCHANGED files
    /\ UNCHANGED <<now, nextRun, told, overtaken, crashes, unsaved>>

-----------------------------------------------------------------------------
(***************************************************************************)
(* The press.  One of a card is answered in the chat; a refusal that       *)
(* changes nothing and tells nothing is no step.                           *)
(***************************************************************************)
AnswerCard(card, kind, says, p) ==
    IF card THEN Tell(kind, [x \in Props |-> says], {p}, run, order)
            ELSE UNCHANGED <<order, runs>>

\* The press names another version of the proposal, or none.
PressChanged(p) ==
    /\ p \in Proposed
    /\ AnswerCard(TRUE, "superseded", "changed", p)
    /\ UNCHANGED <<now, files, overtaken, crashes, unsaved>>

PressMoved(p, card) ==
    /\ p \in Proposed /\ Moved(p)
    /\ row' = [row EXCEPT ![p].status = "superseded"]
    /\ AnswerCard(card, "superseded", "moved", p)
    /\ UNCHANGED <<now, nextProp, overtaken, crashes, unsaved>>

PressCooling(p) ==
    /\ p \in Proposed /\ ~Moved(p) /\ ~Stale(p) /\ Cooling(p)
    /\ AnswerCard(TRUE, "cooling", "cooling", p)
    /\ UNCHANGED <<now, files, overtaken, crashes, unsaved>>

Approve(p) ==
    /\ p \in Proposed /\ ~Moved(p) /\ ~Stale(p) /\ ~Cooling(p)
    /\ row' = [row EXCEPT ![p].status = "running"]
    /\ UNCHANGED <<now, order, runs, nextProp, overtaken, crashes, unsaved>>

Reject(p) ==
    /\ p \in Proposed
    /\ row' = [row EXCEPT ![p].status = "rejected"]
    /\ UNCHANGED <<now, order, runs, nextProp, overtaken, crashes, unsaved>>

\* The end of execute.  A recovery recorded before it says nothing of the fix.
Execute(p, clean) ==
    /\ row[p].status = "running"
    /\ row' = [row EXCEPT ![p].status = IF clean THEN "executed" ELSE "failed",
                          ![p].executed = now,
                          ![p].until = IF clean /\ VerifyWindow > 0 THEN now + VerifyWindow ELSE 0,
                          ![p].after = run[row[p].session].recovered]
    /\ UNCHANGED <<now, order, runs, nextProp, overtaken, crashes, unsaved>>

-----------------------------------------------------------------------------
(***************************************************************************)
(* Time, the minute's sweep, the restart.                                  *)
(***************************************************************************)
Verdicts == [p \in Props |-> IF row[p] = NoRow THEN Unsaid ELSE Outcome(p)]

\* sweep_outcomes, every minute.
Sweep ==
    /\ Untold("outcome", Decided) # {}
    /\ Tell("outcome", Verdicts, Decided, run, order)
    /\ UNCHANGED <<now, files, overtaken, crashes, unsaved>>

\* The process dies and comes up: recover_orphans continues or fails each run
\* left in flight, settle_interrupted ends the rows left running, and
\* sweep_outcomes tells what is decided.
Boot(resumed) ==
    LET orphans == {r \in Known : run[r].busy}
        failing == orphans \ resumed
    IN  /\ crashes < MaxCrashes /\ crashes' = crashes + 1
        /\ resumed \subseteq {r \in orphans : ~run[r].restarted /\ run[r].turn < MaxTurns}
        /\ row' = [p \in Props |-> IF row[p].status = "running"
                                   THEN [row[p] EXCEPT !.status = "failed", !.executed = now]
                                   ELSE row[p]]
        /\ Tell("outcome", Verdicts, Decided,
                [r \in Runs |-> IF r \in resumed THEN [NextTurn(r) EXCEPT !.restarted = TRUE]
                                ELSE IF r \in failing
                                THEN [run[r] EXCEPT !.busy = FALSE, !.failed = TRUE, !.offer = 0,
                                                    !.ended = now]
                                ELSE run[r]],
                Stamped(order, [i \in 1..Cardinality(failing) |-> Done(Nth(failing, i))]))
        /\ overtaken' = overtaken \cup UNION {Outrun(r) : r \in resumed}
        /\ UNCHANGED <<now, nextProp, unsaved>>

Tick ==
    /\ now < MaxTime /\ now' = now + 1
    /\ UNCHANGED <<order, runs, files, overtaken, crashes, unsaved>>

Firing(c) ==
    \/ \E lost \in SUBSET Executed : FireBusy(c, lost) \/ FireClaimed(c, lost)
    \/ FireFresh(c)

Pressing(p) ==
    \/ \E card \in BOOLEAN : PressMoved(p, card)
    \/ PressChanged(p) \/ PressCooling(p) \/ Approve(p) \/ Reject(p)

Next ==
    \/ \E c \in Conditions : Firing(c) \/ \E lost \in SUBSET Executed : Recover(c, lost)
    \/ \E r \in Runs : FollowUp(r) \/ EndTurn(r)
    \/ \E p \in Props : Pressing(p) \/ \E clean \in BOOLEAN : Execute(p, clean)
    \/ \E resumed \in SUBSET Known : Boot(resumed)
    \/ Sweep \/ Tick

Spec == Init /\ [][Next]_vars

-----------------------------------------------------------------------------
RunType == [of: Conditions, notice: BOOLEAN, turn: 1..MaxTurns, busy: BOOLEAN, failed: BOOLEAN,
            resumable: BOOLEAN, restarted: BOOLEAN, recovered: BOOLEAN,
            ended: 0..MaxTime, offer: Props \cup {0}]
RowType == [status: {"proposed", "running", "executed", "failed", "rejected", "superseded"},
            proc: Procedures, session: Runs, cursor: [turn: 1..MaxTurns, recovered: BOOLEAN],
            created: 1..MaxTime, executed: 0..MaxTime, until: Nat, after: BOOLEAN,
            held: {Unsaid, "held", "did_not_hold"}]

\* Every known run has the instant record_recovery sorts it by.
TypeOK ==
    /\ now \in 1..MaxTime
    /\ run \in [Runs -> RunType \cup {NoRun}] /\ nextRun \in 1..(MaxRuns + 1)
    /\ row \in [Props -> RowType \cup {NoRow}] /\ nextProp \in 1..(MaxProposals + 1)
    /\ overtaken \subseteq Props
    /\ \A r \in Known : \E i \in 1..Len(order) :
           order[i] = IF run[r].busy THEN Born(r) ELSE Done(r)

\* A procedure whose own run took another turn, or had a recovery recorded on it,
\* after the steps were written never runs, whatever turns, retries, presses and
\* restarts come in between.  A recovery recorded on another run of the condition,
\* a notice included, is no part of this: the press does not look there.
OvertakenNeverRuns == overtaken \cap Acted = {}

\* "The first answer stands": what the chat was told of a fix stays what the node
\* says of it, whatever the condition does later, where the fix has a window to
\* wait in and no recovery was heard that its row could not be given.  Of the other
\* two it is not so: without a window a fix is told as held at once, and the next
\* firing its run claims is stamped on it as the first answer; and where a recovery
\* was not saved, a firing may be after the sweep told that the fix held.
ToldStands ==
    \A t \in told :
        LET p == t.key.proposal
        IN  /\ t.key.kind = "outcome" /\ row[p].until > 0
            /\ <<p, "held">> \notin unsaved
            => Outcome(p) = t.says
=============================================================================
