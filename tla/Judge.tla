-------------------------------- MODULE Judge --------------------------------
(***************************************************************************)
(* hookjudge's intake: an alert is written down, answered 202, judged in   *)
(* the background under its condition's lock and the process-wide          *)
(* semaphore, recorded, and only then crossed off (app.py, store.py).      *)
(*                                                                         *)
(* An alert is known by its intake id.  Of an event only its condition     *)
(* (Incoming.identity), whether it is a recovery, and its age since        *)
(* received_at are kept; of a verdict, its route and whether it was        *)
(* billed.  Columns no decision reads back (wording, burst id, latency)    *)
(* are left out.  The return leg appears as the moment a row stops being   *)
(* `queued`; ReturnLeg models it.                                          *)
(***************************************************************************)
EXTENDS Integers, FiniteSets

CONSTANTS
    Conditions,     \* Incoming.identity
    Rules,          \* the conditions that share a rule_key and a level, rule by rule
    MaxInflight,    \* settings.max_inflight
    ReuseWindow,    \* reuse_window_seconds
    RuleWindow,     \* rule_reuse_window_seconds, 0 for off
    Budget,         \* budget_usd, in billed calls; 0 for off
    BudgetWindow,   \* budget_window_hours
    Retention,      \* retention_days, 0 for off
    BootLimit,      \* LIMIT of pending_intake
    Past,           \* an age beyond every window
    MaxAlerts,      \* bound: alerts accepted over a behaviour
    MaxRows,        \* bound: judgements recorded over a behaviour
    MaxCrashes,     \* bound: restarts
    MaxErrors,      \* bound: exceptions in judging or in the crossing off
    MaxUnreadable   \* bound: intake rows a newer version cannot parse

ASSUME JudgeAssumption ==
    /\ IsFiniteSet(Conditions) /\ Rules \subseteq SUBSET Conditions
    /\ MaxInflight \in Nat \ {0} /\ BootLimit \in Nat
    /\ ReuseWindow \in Nat /\ RuleWindow \in Nat
    /\ Budget \in Nat /\ BudgetWindow \in Nat /\ Retention \in Nat
    /\ Past \in Nat /\ \A w \in {ReuseWindow, RuleWindow, BudgetWindow, Retention} : w < Past
    /\ MaxAlerts \in Nat /\ MaxRows \in Nat
    /\ MaxCrashes \in Nat /\ MaxErrors \in Nat /\ MaxUnreadable \in Nat

VARIABLES
    alert,      \* what was accepted, by intake id; kept after the row is gone
    nextId,     \* AUTOINCREMENT of intake
    intake,     \* rows of the intake table
    ledger,     \* the judgements table, by row id
    nextRow,    \* AUTOINCREMENT of judgements
    stage,      \* where the background task of an alert is
    lockOf,     \* the lock object its task got from the map
    locks,      \* identity_locks: a lock object and its holders
    seen,       \* the row prior_verdict returned to a task, 0 for none
    verdict,    \* what a task is about to record
    judged,     \* history: alerts that got a judgement row
    dropped,    \* history: unreadable rows dropped at boot
    offPage,    \* history: alerts a boot left off its page of the intake
    crashes, errors

disk   == <<alert, nextId, intake, ledger, nextRow>>
memory == <<stage, lockOf, locks, seen, verdict>>
hist   == <<judged, dropped, offPage>>
bounds == <<crashes, errors>>
vars   == <<disk, memory, hist, bounds>>

Ids  == 1..MaxAlerts
Rows == 1..MaxRows

Routes  == {"ai", "rule", "reuse", "rule-reuse", "recovery"}
Alert   == [of: Conditions, recovery: BOOLEAN, age: 0..Past]
Verdict == [route: Routes, billed: BOOLEAN]
Row     == [alert: Ids, route: Routes, billed: BOOLEAN, owed: BOOLEAN]
Lock    == [lock: Ids, holders: Ids]

NoAlert   == [of |-> "none"]
NoRow     == [alert |-> 0]
NoVerdict == [route |-> "none"]
NoLock    == [lock |-> 0]

Free(route) == [route |-> route, billed |-> FALSE]

Recorded  == {r \in Rows : ledger[r] # NoRow}
Cond(k)   == alert[k].of
Age(r)    == alert[ledger[r].alert].age
RowsOf(c) == {r \in Recorded : Cond(ledger[r].alert) = c}

(***************************************************************************)
(* Tasks.  A task owns its condition's lock from the moment it gets it     *)
(* until it is done, and a place in the semaphore while it judges.         *)
(***************************************************************************)
Judging == {"prior", "rule", "budget", "model", "record"}
Owning  == {"owner", "drop"} \cup Judging

Active   == {k \in Ids : stage[k] # "none"}
Inflight == {k \in Ids : stage[k] \in Judging}

-----------------------------------------------------------------------------
(***************************************************************************)
(* What the ledger answers.                                                *)
(***************************************************************************)

\* Seeded fault: < for <= at the edge of the window.
PriorShort(k) == {r \in RowsOf(Cond(k)) :
                     alert[k].recovery \/ (ledger[r].route = "ai" /\ Age(r) < ReuseWindow)}

\* prior_verdict: an AI verdict inside the window or, for a recovery, any
\* judgement of the condition, however old.
Prior(k) == {r \in RowsOf(Cond(k)) :
                alert[k].recovery \/ (ledger[r].route = "ai" /\ Age(r) <= ReuseWindow)}

SameRule(c, d) == c = d \/ \E rule \in Rules : {c, d} \subseteq rule

\* prior_rule_verdict
PriorByRule(k) == {r \in Recorded :
                      /\ RuleWindow > 0
                      /\ ledger[r].route = "ai"
                      /\ SameRule(Cond(ledger[r].alert), Cond(k))
                      /\ Age(r) <= RuleWindow}

\* spent_since
Spent == Cardinality({r \in Recorded : ledger[r].billed /\ Age(r) <= BudgetWindow})

OverBudget == Budget > 0 /\ Spent >= Budget

-----------------------------------------------------------------------------
Init ==
    /\ alert = [k \in Ids |-> NoAlert] /\ nextId = 1 /\ intake = {}
    /\ ledger = [r \in Rows |-> NoRow] /\ nextRow = 1
    /\ stage = [k \in Ids |-> "none"]
    /\ lockOf = [k \in Ids |-> 0]
    /\ locks = [c \in Conditions |-> NoLock]
    /\ seen = [k \in Ids |-> 0]
    /\ verdict = [k \in Ids |-> NoVerdict]
    /\ judged = {} /\ dropped = {} /\ offPage = {}
    /\ crashes = 0 /\ errors = 0

\* identity_locks.get(identity, (Lock(), 0)), one more holder.  A lock object
\* is named after the alert whose task made it.
Joined(k, c) == IF locks[c] = NoLock THEN [lock |-> k, holders |-> 1]
                                     ELSE [locks[c] EXCEPT !.holders = @ + 1]

\* One holder less; the last takes the lock out of the map.
Left(c) == IF locks[c].holders <= 1 THEN NoLock
                                    ELSE [locks[c] EXCEPT !.holders = @ - 1]

\* POST /events: the row is on disk, then the task exists, then the 202.  A
\* sender that missed the 202 posts the same condition again.
Accept(c, isRecovery) ==
    /\ nextId \in Ids
    /\ alert' = [alert EXCEPT ![nextId] = [of |-> c, recovery |-> isRecovery, age |-> 0]]
    /\ intake' = intake \cup {nextId}
    /\ nextId' = nextId + 1
    /\ stage' = [stage EXCEPT ![nextId] = "waiting"]
    /\ locks' = [locks EXCEPT ![c] = Joined(nextId, c)]
    /\ lockOf' = [lockOf EXCEPT ![nextId] = Joined(nextId, c).lock]
    /\ UNCHANGED <<ledger, nextRow, seen, verdict, hist, bounds>>

\* Seeded fault: a lock that serves the newest waiter first.
EnterNewest(k) ==
    /\ stage[k] = "waiting"
    /\ \A j \in Active \ {k} : lockOf[j] = lockOf[k] => stage[j] = "waiting" /\ k > j
    /\ stage' = [stage EXCEPT ![k] = "owner"]
    /\ UNCHANGED <<disk, lockOf, locks, seen, verdict, hist, bounds>>

\* asyncio.Lock serves its waiters in order.
Enter(k) ==
    /\ stage[k] = "waiting"
    /\ \A j \in Active \ {k} : lockOf[j] = lockOf[k] => stage[j] = "waiting" /\ k < j
    /\ stage' = [stage EXCEPT ![k] = "owner"]
    /\ UNCHANGED <<disk, lockOf, locks, seen, verdict, hist, bounds>>

\* async with inflight
Start(k) ==
    /\ stage[k] = "owner"
    /\ Cardinality(Inflight) < MaxInflight
    /\ stage' = [stage EXCEPT ![k] = "prior"]
    /\ UNCHANGED <<disk, lockOf, locks, seen, verdict, hist, bounds>>

Decide(k, v) ==
    /\ verdict' = [verdict EXCEPT ![k] = v]
    /\ stage' = [stage EXCEPT ![k] = "record"]

AskNext(k, next) ==
    /\ stage' = [stage EXCEPT ![k] = next]
    /\ UNCHANGED verdict

\* _judge_and_record, up to the first answer that costs nothing.
ReadPrior(k) ==
    /\ stage[k] = "prior"
    /\ seen' = [seen EXCEPT ![k] = IF Prior(k) = {} THEN 0
                                   ELSE CHOOSE r \in Prior(k) : \A q \in Prior(k) : q <= r]
    /\ \/ Prior(k) # {} /\ Decide(k, Free(IF alert[k].recovery THEN "recovery" ELSE "reuse"))
       \/ Prior(k) = {} /\ alert[k].recovery /\ Decide(k, Free("rule"))
       \/ Prior(k) = {} /\ ~alert[k].recovery /\ AskNext(k, "rule")
    /\ UNCHANGED <<disk, lockOf, locks, hist, bounds>>

ReadRule(k) ==
    /\ stage[k] = "rule"
    /\ \/ PriorByRule(k) # {} /\ Decide(k, Free("rule-reuse"))
       \/ PriorByRule(k) = {} /\ AskNext(k, "budget")
    /\ UNCHANGED <<disk, lockOf, locks, seen, hist, bounds>>

ReadBudget(k) ==
    /\ stage[k] = "budget"
    /\ \/ OverBudget /\ Decide(k, Free("rule"))
       \/ ~OverBudget /\ AskNext(k, "model")
    /\ UNCHANGED <<disk, lockOf, locks, seen, hist, bounds>>

\* ai_verdict: an answer, prose that is billed all the same, or no answer.
AskModel(k) ==
    /\ stage[k] = "model"
    /\ \E v \in {[route |-> "ai", billed |-> TRUE], [route |-> "rule", billed |-> TRUE],
                 Free("rule")} : Decide(k, v)
    /\ UNCHANGED <<disk, lockOf, locks, seen, hist, bounds>>

\* store.record; the semaphore is given back.
Record(k) ==
    /\ stage[k] = "record"
    /\ nextRow \in Rows
    /\ ledger' = [ledger EXCEPT ![nextRow] =
                    [alert |-> k, route |-> verdict[k].route,
                     billed |-> verdict[k].billed, owed |-> TRUE]]
    /\ nextRow' = nextRow + 1
    /\ judged' = judged \cup {k}
    /\ stage' = [stage EXCEPT ![k] = "drop"]
    /\ UNCHANGED <<alert, nextId, intake, lockOf, locks, seen, verdict, dropped, offPage, bounds>>

\* The end of _judge_serialized: the lock is released and refcounted away.
Leave(k) ==
    /\ stage' = [stage EXCEPT ![k] = "none"]
    /\ lockOf' = [lockOf EXCEPT ![k] = 0]
    /\ locks' = [locks EXCEPT ![Cond(k)] = Left(Cond(k))]
    /\ seen' = [seen EXCEPT ![k] = 0]
    /\ verdict' = [verdict EXCEPT ![k] = NoVerdict]

Drop(k) ==
    /\ stage[k] = "drop"
    /\ intake' = intake \ {k}
    /\ Leave(k)
    /\ UNCHANGED <<alert, nextId, ledger, nextRow, hist, bounds>>

\* Seeded fault: the intake row is dropped whatever the judging returned.
FailDrops(k) ==
    /\ stage[k] \in Judging \cup {"drop"}
    /\ errors < MaxErrors
    /\ errors' = errors + 1
    /\ intake' = intake \ {k}
    /\ Leave(k)
    /\ UNCHANGED <<alert, nextId, ledger, nextRow, hist, crashes>>

\* An exception while judging or recording (the self-alarm says LOST), or
\* while crossing off: the task ends, the intake row waits for the next boot.
Fail(k) ==
    /\ stage[k] \in Judging \cup {"drop"}
    /\ errors < MaxErrors
    /\ errors' = errors + 1
    /\ Leave(k)
    /\ UNCHANGED <<disk, hist, crashes>>

\* Seeded fault: one row short.
FirstRowsButOne(n) == {k \in intake : Cardinality({j \in intake : j <= k}) < n}

\* pending_intake
FirstRows(n) == {k \in intake : Cardinality({j \in intake : j <= k}) <= n}

\* The process ends, at any point, and starts again: pending_intake, a task
\* per row it can read, the others dropped with a log line.
Boot(bad) ==
    LET again   == FirstRows(BootLimit) \ bad
        same(k) == {j \in again : Cond(j) = Cond(k)}
        oldest(S) == CHOOSE j \in S : \A i \in S : j <= i
    IN  /\ crashes < MaxCrashes
        /\ crashes' = crashes + 1
        /\ bad \subseteq FirstRows(BootLimit)
        /\ Cardinality(dropped \cup bad) <= MaxUnreadable
        /\ intake' = intake \ bad
        /\ dropped' = dropped \cup bad
        /\ offPage' = offPage \cup {k \in intake : Cardinality({j \in intake : j <= k}) > BootLimit}
        /\ stage' = [k \in Ids |-> IF k \in again THEN "waiting" ELSE "none"]
        /\ lockOf' = [k \in Ids |-> IF k \in again THEN oldest(same(k)) ELSE 0]
        /\ locks' = [c \in Conditions |->
                       LET S == {j \in again : Cond(j) = c}
                       IN IF S = {} THEN NoLock
                          ELSE [lock |-> oldest(S), holders |-> Cardinality(S)]]
        /\ seen' = [k \in Ids |-> 0]
        /\ verdict' = [k \in Ids |-> NoVerdict]
        /\ UNCHANGED <<alert, nextId, ledger, nextRow, judged, errors>>

-----------------------------------------------------------------------------
\* The return leg is done with a row: sent, dead or skipped.
Returned(r) ==
    /\ r \in Recorded /\ ledger[r].owed
    /\ ledger' = [ledger EXCEPT ![r].owed = FALSE]
    /\ UNCHANGED <<alert, nextId, intake, nextRow, memory, hist, bounds>>

\* purge_older_than, which spares a row still queued.
Purge ==
    /\ Retention > 0
    /\ LET gone == {r \in Recorded : Age(r) > Retention /\ ~ledger[r].owed}
       IN  /\ gone # {}
           /\ ledger' = [r \in Rows |-> IF r \in gone THEN NoRow ELSE ledger[r]]
    /\ UNCHANGED <<alert, nextId, intake, nextRow, memory, hist, bounds>>

Tick ==
    /\ alert' = [k \in Ids |-> IF alert[k] = NoAlert \/ alert[k].age = Past THEN alert[k]
                               ELSE [alert[k] EXCEPT !.age = @ + 1]]
    /\ UNCHANGED <<nextId, intake, ledger, nextRow, memory, hist, bounds>>

Advance(k) ==
    \/ Enter(k) \/ Start(k)
    \/ ReadPrior(k) \/ ReadRule(k) \/ ReadBudget(k) \/ AskModel(k)
    \/ Record(k) \/ Drop(k)

Next ==
    \/ \E c \in Conditions, isRecovery \in BOOLEAN : Accept(c, isRecovery)
    \/ \E k \in Ids : Advance(k) \/ Fail(k)
    \/ \E bad \in SUBSET intake : Boot(bad)
    \/ \E r \in Rows : Returned(r)
    \/ Purge
    \/ Tick

Spec == Init /\ [][Next]_vars

\* The event loop runs every task that can run, and a model call ends in an
\* answer or in its timeout.  Nobody promises a sender, a boot or a purge.
FairSpec == Spec /\ \A k \in Ids : WF_vars(Advance(k))

-----------------------------------------------------------------------------
TypeOK ==
    /\ alert \in [Ids -> Alert \cup {NoAlert}]
    /\ nextId \in 1..(MaxAlerts + 1) /\ intake \subseteq Ids
    /\ ledger \in [Rows -> Row \cup {NoRow}]
    /\ nextRow \in 1..(MaxRows + 1)
    /\ stage \in [Ids -> {"none", "waiting"} \cup Owning]
    /\ lockOf \in [Ids -> Ids \cup {0}]
    /\ locks \in [Conditions -> Lock \cup {NoLock}]
    /\ seen \in [Ids -> Rows \cup {0}]
    /\ verdict \in [Ids -> Verdict \cup {NoVerdict}]
    /\ judged \subseteq Ids /\ dropped \subseteq Ids /\ offPage \subseteq Ids
    /\ crashes \in 0..MaxCrashes /\ errors \in 0..MaxErrors

\* The 202 is a promise: an accepted alert is on disk until a judgement of it
\* exists, through every failure of the judging and every restart.
NoAlertLost ==
    \A k \in 1..(nextId - 1) : k \in intake \cup judged \cup dropped

\* A condition is paid for once per reuse window, storm or replay: when a second
\* AI verdict is on record, the first was out of the window.
PaidOncePerWindow ==
    \A r, s \in Recorded :
        /\ r < s
        /\ Cond(ledger[r].alert) = Cond(ledger[s].alert)
        /\ ledger[r].route = "ai" /\ ledger[s].route = "ai"
        => Age(r) > ReuseWindow

\* Without a failed judgement, one condition's alerts are judged in the order
\* they were accepted, across restarts too: a recovery after its firing.  Behind
\* a younger one comes only an alert that a boot left off its page.
ArrivalOrder ==
    errors = 0 =>
        \A r, s \in Recorded :
            /\ r < s /\ Cond(ledger[r].alert) = Cond(ledger[s].alert)
            /\ ledger[s].alert \notin offPage
            => ledger[r].alert <= ledger[s].alert

\* As long as no judgement fails, every accepted alert is judged in the end,
\* through restarts and without help from an operator, unless a boot left it off
\* its page: that one waits for another boot.
EveryAlertJudged ==
    \A k \in Ids : k \in intake ~> k \in judged \cup dropped \cup offPage \/ errors > 0
=============================================================================
