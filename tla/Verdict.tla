------------------------------ MODULE Verdict ------------------------------
(***************************************************************************)
(* What the judge says of an alert: what an event states (hookjudge/       *)
(* contract.py, Incoming), whose earlier answer serves again, the call to  *)
(* a model with its retry and the negotiation of how strictly the answer   *)
(* is shaped, the keyword floor under every failure (judge.py), and what   *)
(* goes back to the pipe (Outgoing).                                       *)
(*                                                                         *)
(* Text is abstracted to what the matchers see in it: a title is a subject *)
(* with a group-state prefix and at most one marker, the keyword lists     *)
(* find a drill, a weighty word or nothing.  The order of an event's       *)
(* fields is kept: is_recovery reads their values as one text.             *)
(***************************************************************************)
EXTENDS Integers, Sequences, FiniteSets, SequencesExt

CONSTANTS
    Events,     \* what the pipe may send
    Slots,      \* judgements under way at once
    Preferred,  \* HOOKJUDGE_AI_STRUCTURED_OUTPUT: a dialect, or "auto"
    Ttl,        \* _DIALECT_TTL_SECONDS
    MaxRows, MaxTime, MaxChanges        \* bounds

VARIABLES
    accepts,    \* the dialects the provider takes now
    pin,        \* the dialect remembered for the model, and for how long
    calls,      \* slot -> the call under way
    rows,       \* the judgements, oldest first
    hours, changes      \* bounds used

verdictVars == <<accepts, pin, calls, rows, hours, changes>>

Dialects   == <<"schema", "tools", "object">>   \* strongest first
Retries    == 2                                 \* _RETRY_ATTEMPTS
Importance == {"critical", "high", "medium", "low"}
NonIdentity == {"status", "severity", "timestamp"}
NoPin  == [dialect |-> 0, age |-> 0]
NoCall == [attempt |-> 0]

VerdictAssumption ==
    /\ {Ttl, MaxRows, MaxTime, MaxChanges} \subseteq Nat /\ Ttl > 0
    /\ Preferred \in ToSet(Dialects) \cup {"auto"}
    /\ \A e \in Events : e.flag \in {"yes", "no", "none"} /\ e.words \in {"drill", "weighty", "plain"}
          /\ e.prefix \in {"", "firing", "resolved"}
          /\ e.marker \in {"", "bracketed", "edge", "mentioned", "denied", "underway"}

-----------------------------------------------------------------------------
\* What an event states.

\* condition_title: a prefix, a bracketed marker and a word at the edge go; a
\* mention in the text stays, and of "not OK" the denial.
ConditionTitle(e) ==
    <<e.title, IF e.marker \in {"mentioned", "denied", "underway"} THEN e.marker ELSE "">>

Identity(e) ==
    [title |-> ConditionTitle(e), fields |-> {f \in ToSet(e.fields) : f.key \notin NonIdentity}]

RuleKey(e) ==
    LET named == {f \in ToSet(e.fields) : f.key = "alertname"}
    IN  IF named # {} THEN <<"rule", (CHOOSE f \in named : TRUE).value>> ELSE <<e.title, e.marker>>

\* _asserts_recovery over the values, one after the other: an English word
\* asserts an end only where nothing follows it.
Ended(fields) == \E i \in DOMAIN fields : fields[i].value = "resolved" /\ i = Len(fields)

IsRecovery(e) ==
    IF e.flag # "none" THEN e.flag = "yes"
    ELSE \/ e.marker \in {"bracketed", "edge", "mentioned"}
         \/ e.prefix = "resolved"
         \/ Ended(e.fields)

-----------------------------------------------------------------------------
\* A verdict, as the ledger keeps it; `said` is what the model answered of waking.
Row(e, route, importance, wake, billed, said) ==
    [event |-> e, identity |-> Identity(e), rule |-> RuleKey(e), recovery |-> IsRecovery(e),
     route |-> route, importance |-> importance, wake |-> wake, billed |-> billed, said |-> said]

\* A slip: what the model left out is a quiet night.
AnsweredOrQuiet(wake) == IF wake = "yes" THEN "yes" ELSE "no"

\* Verdict.normalized: outside the vocabulary is medium, unanswered is unanswered.
Normalized(importance) == IF importance \in Importance THEN importance ELSE "medium"
Answered(wake) == IF wake \in {"yes", "no"} THEN wake ELSE ""

\* rule_verdict: a drill first, then the weighty words, then the platform's level.
PlatformImportance(level) == IF level = "warning" THEN "medium" ELSE level
Floor(e) ==
    CASE e.words = "drill"   -> "low"
      [] e.words = "weighty" -> "high"
      [] OTHER               -> Normalized(PlatformImportance(e.level))
RuleVerdict(e, billed) == Row(e, "rule", Floor(e), "", billed, "")

ReuseVerdict(e, prior) ==
    Row(e, IF IsRecovery(e) THEN "recovery" ELSE "reuse", prior.importance, Answered(prior.wake), FALSE, "")
RuleReuseVerdict(e, prior) ==
    Row(e, "rule-reuse", prior.importance, Answered(prior.wake), FALSE, "")

\* What goes back (Outgoing, rebuilt from the row): a recovery declares no action.
Minutes == [critical |-> 15, high |-> 15, medium |-> 60, low |-> 240]
Declared(row) ==
    IF row.recovery THEN {} ELSE {<<"silence", Minutes[row.importance]>>, <<"useful">>, <<"useless">>}
Outgoing(row) ==
    [name |-> ConditionTitle(row.event), recovery |-> row.recovery, importance |-> row.importance,
     wake |-> row.wake, actions |-> Declared(row)]

Newest(S) == CHOOSE i \in S : \A j \in S : j <= i
Prior(e) == {i \in DOMAIN rows : rows[i].identity = Identity(e) /\ (IsRecovery(e) \/ rows[i].route = "ai")}
PriorOfRule(e) ==
    {i \in DOMAIN rows : rows[i].rule = RuleKey(e) /\ rows[i].event.level = e.level
                            /\ rows[i].route = "ai" /\ ~rows[i].recovery}

-----------------------------------------------------------------------------
VerdictInit ==
    /\ accepts \in {{"schema", "tools", "object"}, {"tools", "object"}, {"object"}}
    /\ pin = NoPin /\ rows = <<>> /\ hours = 0 /\ changes = 0
    /\ calls = [s \in Slots |-> NoCall]

Hour ==
    /\ hours < MaxTime /\ hours' = hours + 1
    /\ pin' = IF pin = NoPin THEN NoPin ELSE [pin EXCEPT !.age = @ + 1]
    /\ UNCHANGED <<accepts, calls, rows, changes>>

\* The provider ships support for a form, or takes it back.
ProviderChanges ==
    /\ changes < MaxChanges /\ changes' = changes + 1
    /\ accepts' \in {{"schema", "tools", "object"}, {"tools", "object"}, {"object"}} \ {accepts}
    /\ UNCHANGED <<pin, calls, rows, hours>>

\* The dialect a call begins with: the one remembered, while it is young enough.
Remembered == IF pin # NoPin /\ pin.age < Ttl THEN pin.dialect ELSE 0
First == IF Preferred = "auto" THEN 1 ELSE CHOOSE d \in DOMAIN Dialects : Dialects[d] = Preferred
Opening == IF Remembered # 0 THEN Remembered ELSE First

Recorded(row) == rows' = Append(rows, row)
Room == Len(rows) + Cardinality({s \in Slots : calls[s] # NoCall}) < MaxRows

\* _judge_and_record, up to the model: an answer that serves again, a recovery
\* that has none, a budget that is spent (~affordable), or a call.  `fresh` says
\* whether an earlier answer is inside its window.
Decide(s, e, fresh, affordable) ==
    /\ calls[s] = NoCall /\ Room
    /\ LET prior  == IF IsRecovery(e) \/ fresh THEN Prior(e) ELSE {}
           ofRule == IF fresh THEN PriorOfRule(e) ELSE {}
       IN  \/ /\ prior # {} /\ Recorded(ReuseVerdict(e, rows[Newest(prior)]))
              /\ UNCHANGED calls
           \/ /\ prior = {} /\ IsRecovery(e) /\ Recorded(RuleVerdict(e, FALSE))
              /\ UNCHANGED calls
           \/ /\ prior = {} /\ ~IsRecovery(e) /\ ofRule # {}
              /\ Recorded(RuleReuseVerdict(e, rows[Newest(ofRule)]))
              /\ UNCHANGED calls
           \/ /\ prior = {} /\ ~IsRecovery(e) /\ ofRule = {} /\ ~affordable
              /\ Recorded(RuleVerdict(e, FALSE)) /\ UNCHANGED calls
           \/ /\ prior = {} /\ ~IsRecovery(e) /\ ofRule = {} /\ affordable
              /\ calls' = [calls EXCEPT ![s] = [event |-> e, dialect |-> Opening, attempt |-> 1]]
              /\ UNCHANGED rows
    /\ UNCHANGED <<accepts, pin, hours, changes>>

Calling(s) == calls[s] # NoCall
Over(s, row) == calls' = [calls EXCEPT ![s] = NoCall] /\ Recorded(row)

\* A timeout, a lost connection or a 5xx is tried once more; then the floor.
Stumbles(s) ==
    /\ Calling(s)
    /\ IF calls[s].attempt < Retries
       THEN calls' = [calls EXCEPT ![s].attempt = @ + 1] /\ UNCHANGED rows
       ELSE Over(s, RuleVerdict(calls[s].event, FALSE))
    /\ UNCHANGED <<accepts, pin, hours, changes>>

\* classify_provider_error: a refusal that a person must act on, or that passes.
Refused(s) ==
    /\ Calling(s) /\ Over(s, RuleVerdict(calls[s].event, FALSE))
    /\ UNCHANGED <<accepts, pin, hours, changes>>

\* A 400 that names the format: the next dialect down, unless one was asked for;
\* the attempts already made count on.
StepDown(s) ==
    /\ Calling(s) /\ Dialects[calls[s].dialect] \notin accepts
    /\ IF Preferred = "auto" /\ calls[s].dialect < Len(Dialects)
       THEN calls' = [calls EXCEPT ![s].dialect = @ + 1] /\ UNCHANGED rows
       ELSE Over(s, RuleVerdict(calls[s].event, FALSE))
    /\ UNCHANGED <<accepts, pin, hours, changes>>

\* A 200: the dialect is remembered, the bill is read, and then the answer.
Answers(s) ==
    /\ Calling(s) /\ Dialects[calls[s].dialect] \in accepts
    /\ pin' = [dialect |-> calls[s].dialect, age |-> 0]
    /\ \/ Over(s, RuleVerdict(calls[s].event, TRUE))
       \/ \E importance \in {"high", "grave"}, wake \in {"yes", "no", ""} :
             Over(s, Row(calls[s].event, "ai", Normalized(importance), Answered(wake), TRUE, wake))
    /\ UNCHANGED <<accepts, hours, changes>>

VerdictNext ==
    \/ Hour \/ ProviderChanges
    \/ \E s \in Slots :
          \/ \E e \in Events, fresh, affordable \in BOOLEAN : Decide(s, e, fresh, affordable)
          \/ Stumbles(s) \/ Refused(s) \/ StepDown(s) \/ Answers(s)

VerdictSpec == VerdictInit /\ [][VerdictNext]_verdictVars

-----------------------------------------------------------------------------
\* An alert is held back from people only on a model's word: whatever served
\* the answer again, a verdict that says nobody need wake goes back to one in
\* which a model was asked about the same condition, or about the rule of an
\* earlier alert on it, and said so (Verdict.normalized, reuse_verdict,
\* rule_reuse_verdict: the pipe routes on it, and blank must stay deliverable).
QuietWasAnswered ==
    \A i \in DOMAIN rows : Outgoing(rows[i]).wake = "no" =>
        \E j, k \in 1..i : /\ rows[j].route = "ai" /\ rows[j].said = "no"
                           /\ rows[k].identity = rows[i].identity
                           /\ rows[j].identity = rows[k].identity \/ rows[j].rule = rows[k].rule
=============================================================================
