------------------------------- MODULE Refire -------------------------------
(***************************************************************************)
(* hookprobe's answers without an engine: a condition that fires again is  *)
(* coalesced into the investigation under way, answered for nothing from a *)
(* standing ruling, a runbook a person vouched for or the last report, or  *)
(* bought a new look (service.py start, events.py, app.py); and what the   *)
(* three answers read: verdicts on runs and on the condition, the runbook, *)
(* recoveries, and notices filed beside the runs.                          *)
(*                                                                         *)
(* One condition title; runs are numbered by created_at, the order every   *)
(* list of them is read in.  A report is a status; whether the budget is   *)
(* spent is an input, RunLifecycle keeps the meter.  Every step takes an   *)
(* instant of the clock, as no two stamps are equal.                       *)
(***************************************************************************)
EXTENDS Integers, Sequences, FiniteSets, FiniteSetsExt

CONSTANTS
    Sources, Levels,    \* of the events that pass the escalation bar
    Kinds,              \* what the agent door opens: "agent", "drill"
    Coalesce,           \* coalesce_window_seconds, 0 for off
    RefireWindow,       \* refire_answer_hours, 0 for off
    MaxAnswers,         \* _REFIRE_ANSWER_MAX
    AnswerWindow,       \* runbook_answer_days, 0 for off
    RulingTtl,          \* ruling_ttl_days, 0 for off
    Reverify,           \* ruling_reverify_days
    RecoveryWindow,     \* _RECOVERY_WINDOW_SECONDS
    GateAgent,          \* budget_gates_agent_door
    MaxTime, MaxRuns    \* bounds

VARIABLES
    now,
    runs,           \* the run records, oldest first
    rulings,        \* rulings.jsonl: verdicts on the condition
    cases,          \* runs whose cases the runbook holds, {} without a runbook
    recoveries      \* history: the condition ended, after how many runs

refireVars == <<now, runs, rulings, cases, recoveries>>

RefireAssumption ==
    /\ {Coalesce, RefireWindow, MaxAnswers, AnswerWindow, RulingTtl, Reverify, RecoveryWindow,
        MaxTime, MaxRuns} \subseteq Nat
    /\ RefireWindow <= RecoveryWindow /\ GateAgent \in BOOLEAN /\ Kinds \subseteq {"agent", "drill"}

Verdicts == {"worth_it", "not_worth_it"}    \* on the condition
Rulings  == {"useful", "useless", "none"}   \* on a run

Instant == now + 1      \* the time of the step that is taken

\* A run record.  kind: an investigation by the door that opened it ("relay",
\* "agent"), a "drill" (synthetic) or a "notice" about another run; way and on:
\* the answer given without an engine, and its ground.
Opened(kind, source, level, asked, event) ==
    [kind |-> kind, source |-> source, level |-> level, asked |-> asked, event |-> event,
     status |-> "running", at |-> Instant, done |-> -1, resumable |-> FALSE, way |-> "none", on |-> {},
     ruling |-> "none", ruledAt |-> -1, recovered |-> FALSE]

Investigation(r) == r.kind \in {"relay", "agent"}
Finished(r) == r.status # "running"
Within(at, window) == at >= 0 /\ at >= Instant - window
Ended(r, status) == [r EXCEPT !.status = status, !.done = Instant]

RefireInit ==
    now = 0 /\ runs = <<>> /\ rulings = <<>> /\ cases = {} /\ recoveries = {}

-----------------------------------------------------------------------------
\* The three answers.

LastOf(S) == S # {} /\ rulings[Max(S)].at >= Instant - RulingTtl

\* rulings.standing: a person's current verdict before any inferred one.
Standing ==
    LET all  == DOMAIN rulings
        mine == {k \in all : rulings[k].operator}
    IN  IF RulingTtl = 0 THEN "none"
        ELSE IF LastOf(mine) THEN rulings[Max(mine)].verdict
        ELSE IF LastOf(all) THEN rulings[Max(all)].verdict
        ELSE "none"

Unanswered == {i \in DOMAIN runs : runs[i].way = "none"}

\* _runbook_answer: what verifies the ruling is whatever ended lately.
RulingGround ==
    IF Standing = "not_worth_it" /\ cases # {}
    THEN {i \in Unanswered : Within(runs[i].done, Reverify)}
    ELSE {}

\* _vouching_run: the latest verdict wins, not the latest run.
Vouching ==
    {i \in Unanswered : /\ runs[i].kind # "drill" /\ runs[i].ruling = "useful"
                        /\ Within(runs[i].ruledAt, AnswerWindow)}
LatestRuled(S) == {i \in S : \A j \in S : runs[j].ruledAt <= runs[i].ruledAt}
VouchedGround ==
    IF AnswerWindow > 0 /\ cases # {} /\ Vouching # {} THEN {Max(LatestRuled(Vouching))} ELSE {}

\* _refire_answer: of this door's investigations the newest that looked.
Condition(source) == {i \in DOMAIN runs : Investigation(runs[i]) /\ runs[i].source = source}
\* Seeded fault: an answer serves as the report of the next one.
LooksOrAnswers(source) == Condition(source)
Looks(source) == Condition(source) \cap Unanswered

Anchors(a, new) ==
    LET since == {i \in Condition(new.source) : i >= a}
    IN  /\ runs[a].status = "completed"
        /\ Within(runs[a].done, RefireWindow)
        /\ runs[a].level = new.level
        /\ \A i \in since : ~runs[i].recovered
        /\ Cardinality(since \ Unanswered) < MaxAnswers

RefireGround(new) ==
    LET looks == Looks(new.source)
    IN  {a \in looks : RefireWindow > 0 /\ ~new.asked /\ a = Max(looks) /\ Anchors(a, new)}

Answered(new, way, ground) == [Ended(new, "completed") EXCEPT !.way = way, !.on = ground]

\* RunService.start: the first of the three that has a ground.
Start(new, force) ==
    /\ Len(runs) < MaxRuns
    /\ runs' = Append(runs,
           IF force THEN new
           ELSE IF RulingGround # {} THEN Answered(new, "ruled", RulingGround)
           ELSE IF VouchedGround # {} THEN Answered(new, "vouched", VouchedGround)
           ELSE IF RefireGround(new) # {} THEN Answered(new, "refire", RefireGround(new))
           ELSE new)

\* refuse_for_budget
Refuse(new) == Len(runs) < MaxRuns /\ runs' = Append(runs, Ended(new, "failed"))

-----------------------------------------------------------------------------
\* The doors.

\* same_alert: the newest run under way, else the last to end that can go on.
Live(source) == {i \in DOMAIN runs : runs[i].source = source /\ ~Finished(runs[i])}
Claimable(source) ==
    {i \in DOMAIN runs : /\ runs[i].source = source /\ runs[i].status = "completed"
                         /\ runs[i].resumable /\ Within(runs[i].done, Coalesce)}
LastToEnd(S) == {i \in S : \A j \in S : runs[j].done <= runs[i].done}

Reopen(i, level) ==
    runs' = [runs EXCEPT ![i] = [@ EXCEPT !.status = "running", !.done = -1, !.level = level]]

\* A firing joins the run that ended last; with the budget spent that report stands.
Joined(source) == IF Coalesce > 0 THEN LastToEnd(Claimable(source)) ELSE {}
Joins(source, level, over) == ~over /\ Reopen(Max(Joined(source)), level)

\* event_door: `asked` is a person writing in the chat, `over` the spent budget.
\* What is coalesced into a run under way changes nothing.
Fires(source, level, asked, over) ==
    LET new == Opened("relay", source, level, asked, Len(runs) + 1)
    IN  /\ Coalesce = 0 \/ Live(source) = {}
        /\ IF Joined(source) # {} THEN Joins(source, level, over)
           ELSE IF over THEN Refuse(new) ELSE Start(new, FALSE)
        /\ UNCHANGED <<rulings, cases, recoveries>>

\* trigger: /hooks/agent, where an unmarked caller may meet the meter; a drill
\* is a session under one of the synthetic prefixes.
Triggered(kind, source, level, operator, force, over) ==
    LET new == Opened(kind, source, level, FALSE, Len(runs) + 1)
    IN  /\ IF GateAgent /\ ~operator /\ over THEN Refuse(new) ELSE Start(new, force)
        /\ UNCHANGED <<rulings, cases, recoveries>>

\* record_recovery: noted on the run of the condition that moved last.
Moved(r) == IF Finished(r) THEN r.done ELSE r.at
Recent(source) ==
    {i \in DOMAIN runs : runs[i].source = source /\ Within(Moved(runs[i]), RecoveryWindow)}

Recovers(source) ==
    /\ recoveries' = recoveries \cup {[source |-> source, after |-> Len(runs)]}
    /\ runs' = [i \in DOMAIN runs |->
           IF i \in Recent(source) /\ \A j \in Recent(source) : Moved(runs[j]) <= Moved(runs[i])
           THEN [runs[i] EXCEPT !.recovered = TRUE] ELSE runs[i]]
    /\ UNCHANGED <<rulings, cases>>

-----------------------------------------------------------------------------
\* The engine, and what people and patrols say of its work.

\* _execute: a report may be distilled into the runbook.
Completes(i) ==
    /\ ~Finished(runs[i])
    /\ runs' = [runs EXCEPT ![i] = [Ended(@, "completed") EXCEPT !.resumable = TRUE]]
    /\ cases' \in IF Investigation(runs[i]) THEN {cases, cases \cup {i}} ELSE {cases}
    /\ UNCHANGED <<rulings, recoveries>>

Fails(i) ==
    /\ ~Finished(runs[i])
    /\ \E session \in {runs[i].resumable, TRUE} :
           runs' = [runs EXCEPT ![i] = [Ended(@, "failed") EXCEPT !.resumable = session]]
    /\ UNCHANGED <<rulings, cases, recoveries>>

\* _resolve_run: the newest run that quotes the alert's handle, a notice too.
Resolved(event) == Max({i \in DOMAIN runs : runs[i].event = event})

\* A further question, from a card or the console: no session, no turn.
FollowUp(i) ==
    /\ Finished(runs[i]) /\ runs[i].resumable /\ Reopen(i, runs[i].level)
    /\ UNCHANGED <<rulings, cases, recoveries>>

\* The retry of a failed run, by its session or by its opening question.
Retry(i) ==
    /\ runs[i].status = "failed" /\ runs[i].kind # "notice" /\ Reopen(i, runs[i].level)
    /\ UNCHANGED <<rulings, cases, recoveries>>

\* _reconsider_runbooks: a runbook whose every case was useless is withdrawn.
Reconsidered(i, judged) ==
    IF i \in cases /\ \A c \in cases : judged[c].ruling = "useless" THEN {} ELSE cases

\* record_ruling: the console, a card or a patrol says what run i was worth.
RuleRun(i, ruling) ==
    /\ runs' = [runs EXCEPT ![i] = [@ EXCEPT !.ruling = ruling,
                                             !.ruledAt = IF ruling = "none" THEN -1 ELSE Instant]]
    /\ cases' = IF ruling = "useless" THEN Reconsidered(i, runs') ELSE cases
    /\ UNCHANGED <<rulings, recoveries>>

\* A card's button, for the run its handle leads to.
Dispatch(event) ==
    LET run == Resolved(event)
    IN  FollowUp(run) \/ \E ruling \in Rulings \ {"none"} : RuleRun(run, ruling)

\* record_local
Filed(verdict, operator) ==
    Append(rulings, [verdict |-> verdict, operator |-> operator, at |-> Instant])

\* file_condition_ruling, and what a patrol's report says of the condition.
OperatorRules(verdict) == rulings' = Filed(verdict, TRUE) /\ UNCHANGED <<runs, cases, recoveries>>
PatrolRules(verdict)   == rulings' = Filed(verdict, FALSE) /\ UNCHANGED <<runs, cases, recoveries>>

\* _notice: a message filed as a run, under the name and handles of its subject.
Notice(i) ==
    /\ Len(runs) < MaxRuns /\ runs[i].kind = "relay"
    /\ runs' = Append(runs, Ended(Opened("notice", runs[i].source, runs[i].level,
                                         FALSE, runs[i].event), "completed"))
    /\ UNCHANGED <<rulings, cases, recoveries>>

RefireNext ==
    /\ now < MaxTime
    /\ now' = Instant
    /\ \/ UNCHANGED <<runs, rulings, cases, recoveries>>
       \/ \E s \in Sources, l \in Levels, asked, over \in BOOLEAN : Fires(s, l, asked, over)
       \/ \E k \in Kinds, s \in Sources, l \in Levels, operator, force, over \in BOOLEAN :
              Triggered(k, s, l, operator, force, over)
       \/ \E s \in Sources : Recovers(s)
       \/ \E i \in DOMAIN runs : Completes(i) \/ Fails(i) \/ Retry(i) \/ Notice(i)
       \/ \E i \in DOMAIN runs, ruling \in Rulings :        \* the console, a patrol
              FollowUp(i) \/ RuleRun(i, ruling)
       \/ \E i \in DOMAIN runs : Dispatch(runs[i].event)
       \/ \E v \in Verdicts : OperatorRules(v) \/ PatrolRules(v)

RefireSpec == RefireInit /\ [][RefireNext]_refireVars

-----------------------------------------------------------------------------
\* No answer given for nothing cites another one, so no chain of answers keeps citing
\* itself.  A report is reused of one investigation of the firing's own door, only
\* until that door opened another, and for no more than MaxAnswers firings.  (A drill
\* may be answered from it once more: the list that is counted leaves the synthetic
\* out.)  Not every run cited has looked: the docstrings want "a REAL run" to vouch
\* for a runbook and to verify a ruling, and a notice, a failed or a refused run does
\* both.
NoAnswerCitesAnAnswer ==
    /\ \A i \in DOMAIN runs : runs[i].way # "none" =>
          /\ runs[i].on # {} /\ \A j \in runs[i].on : j < i /\ runs[j].way = "none"
          /\ runs[i].way = "refire" =>
                \E a \in Looks(runs[i].source) :
                    /\ runs[i].on = {a}
                    /\ \A j \in Looks(runs[i].source) : j <= a \/ j > i
    /\ \A a \in DOMAIN runs :
          Cardinality({i \in DOMAIN runs : /\ Investigation(runs[i]) /\ runs[i].way = "refire"
                                           /\ a \in runs[i].on}) <= MaxAnswers

\* "An alert that ended and fired again is a new episode": no report is reused
\* for a firing that came after a recovery its door was told of.
EndedIsANewEpisode ==
    \A i \in DOMAIN runs, r \in recoveries :
        runs[i].way = "refire" /\ r.source = runs[i].source =>
            r.after >= i \/ \A a \in runs[i].on : r.after < a
=============================================================================
