------------------------------- MODULE Thread -------------------------------
(***************************************************************************)
(* A person's reply under a card, from the chat to the node that answers:  *)
(* the pipe's ledger and its lookup of the chain and the session a reply   *)
(* belongs to (hookrelay/processors.py, ThreadLookupProcessor; store.py,   *)
(* thread_context and round_trip), the nodes' event doors                  *)
(* (hookprobe/events.py), the reports and notices that come back           *)
(* (notify.py, service.py), and the hand-off of a plan to the node that    *)
(* may change things (handoff.py).                                         *)
(*                                                                         *)
(* An event is its place in the ledger; a card has its event's id; a topic *)
(* somebody opened has a negative one.  Chains here are shorter than the   *)
(* eight hops up and five down the walk stops at.                          *)
(***************************************************************************)
EXTENDS Integers, Sequences, FiniteSets, FiniteSetsExt

CONSTANTS Topics,       \* topics people open: negative
          MaxEvents     \* bound: the ledger

ThreadAssumption == MaxEvents \in Nat /\ Topics \subseteq {i \in Int : i < 0}

VARIABLES
    ledger,     \* the pipe's events
    runs,       \* the nodes' runs and notices, by the event that started or carried them
    reply,      \* a reply whose chain was read and that is not recorded yet
    budget      \* may the nodes spend

threadVars == <<ledger, runs, reply, budget>>

NoReply == [root |-> 0]
NotifyDoor == [plan |-> "plan-notify", work |-> "work-notify"]

\* An event: its door, the event it quotes, its work item, the session and the
\* thread it names, the node it is routed to, and (history) its operation: what
\* a signal, a topic or a press set going.
Event(door, quote, item, session, root, to, op) ==
    [door |-> door, quote |-> quote, item |-> item, session |-> session, root |-> root,
     to |-> to, op |-> op]

Next1 == Len(ledger) + 1
Room  == Len(ledger) < MaxEvents
Run(node, event, item, root) ==
    [node |-> node, event |-> event, item |-> item, root |-> root, state |-> "running", notice |-> FALSE]

ThreadInit == ledger = <<>> /\ runs = <<>> /\ reply = NoReply /\ budget = TRUE

-----------------------------------------------------------------------------
\* A slip: a hop that quotes nothing belongs to the chain of its work item.
ParentByWork(i) == IF ledger[i].quote = 0 THEN ledger[i].item ELSE ledger[i].quote

\* round_trip by quote only.
Parent(i) == ledger[i].quote

Origin(i) == LET up[k \in DOMAIN ledger] == IF Parent(k) \in {0, k} THEN k ELSE up[Parent(k)]
             IN  up[i]
Returns(i) == {k \in DOMAIN ledger : Origin(k) = Origin(i)} \ {Origin(i)}

\* thread_context: the card of a delivery, or the newest event of a topic that
\* names a session; then the newest return of its chain that names one.
IsCard(root) == root \in DOMAIN ledger /\ ledger[root].door # "lark-thread"
CardEvent(root) ==
    IF IsCard(root) THEN root
    ELSE Max({0} \cup {i \in DOMAIN ledger : ledger[i].root = root /\ ledger[i].session # 0})

ThreadContext(root) ==
    LET card   == CardEvent(root)
        newest == Max({0} \cup {i \in Returns(card) : ledger[i].session # 0})
    IN  IF card = 0 THEN [root |-> root, quote |-> 0, session |-> 0, door |-> ""]
        ELSE [root |-> root, quote |-> card,
              session |-> IF newest = 0 THEN 0 ELSE ledger[newest].session,
              door    |-> IF newest = 0 THEN "" ELSE ledger[newest].door]

\* The routes of the work deployment, over what the lookup wrote on the reply.
RouteReply(found) ==
    CASE found.quote = 0 -> IF found.root \in Topics /\ ~\E i \in DOMAIN ledger : ledger[i].root = found.root
                            THEN "plan" ELSE "none"
      [] found.session = 0                    -> "plan"
      [] found.door = NotifyDoor.plan         -> "plan"
      [] found.door = NotifyDoor.work         -> "work"
      [] OTHER                                -> "none"

-----------------------------------------------------------------------------
\* A signal from the watcher: a card, and the planner's run.
Signal ==
    /\ Room
    /\ ledger' = Append(ledger, Event("watch", 0, 0, 0, 0, "plan", Next1))
    /\ runs' = [i \in DOMAIN runs \cup {Next1} |-> IF i = Next1 THEN Run("plan", i, i, 0) ELSE runs[i]]
    /\ UNCHANGED <<reply, budget>>

\* A turn ends: the report quotes the event that opened the run, names its own
\* session, and the thread the turn was asked in.
Report(s) ==
    /\ Room /\ runs[s].state = "running"
    /\ ledger' = Append(ledger, Event(NotifyDoor[runs[s].node], runs[s].event, runs[s].item, s,
                                      runs[s].root, "none", ledger[runs[s].event].op))
    /\ runs' = [runs EXCEPT ![s].state = "finished"]
    /\ UNCHANGED <<reply, budget>>

\* _notice: a report-shaped message about a run, under a session of its own that
\* no engine ever ran.
Notice(s) ==
    /\ ledger' = Append(ledger, Event(NotifyDoor[runs[s].node], runs[s].event, runs[s].item, Next1,
                                      runs[s].root, "none", ledger[runs[s].event].op))
    /\ runs' = [i \in DOMAIN runs \cup {Next1} |->
                    IF i = Next1 THEN [runs[s] EXCEPT !.state = "finished", !.notice = TRUE] ELSE runs[i]]

\* report_outcome: what became of a procedure the work run proposed.
ReportOutcome(s) ==
    /\ Room /\ runs[s].node = "work" /\ runs[s].state = "finished" /\ ~runs[s].notice
    /\ Notice(s) /\ UNCHANGED <<reply, budget>>

\* hand_off: the plan's session and its work item, to the door of the work node.
HandOff(s) ==
    /\ Room /\ runs[s].node = "plan" /\ runs[s].state = "finished" /\ ~runs[s].notice
    /\ \A i \in DOMAIN ledger : ledger[i].door = "plan-approved" => ledger[i].session # s
    /\ ledger' = Append(ledger, Event("plan-approved", 0, runs[s].item, s, 0, "work", Next1))
    /\ runs' = [i \in DOMAIN runs \cup {Next1} |->
                    IF i = Next1 THEN Run("work", i, runs[s].item, 0) ELSE runs[i]]
    /\ UNCHANGED <<reply, budget>>

\* A message in the chat: the lookup reads the ledger.
Say(root) ==
    /\ Room /\ reply = NoReply
    /\ root \in Topics \/ IsCard(root)
    /\ reply' = ThreadContext(root)
    /\ UNCHANGED <<ledger, runs, budget>>

\* It is recorded with what the lookup found, and its node takes it: a question
\* without a session is a run, an answer to one a turn of it.
OperationOf(found) == IF found.quote = 0 THEN Next1 ELSE ledger[found.quote].op

RecordReply ==
    /\ Room /\ reply # NoReply /\ reply' = NoReply /\ UNCHANGED budget
    /\ ledger' = Append(ledger, Event("lark-thread", reply.quote, 0, reply.session, reply.root,
                                      RouteReply(reply), OperationOf(reply)))
    /\ runs' = IF RouteReply(reply) = "plan" /\ reply.session = 0
               THEN [i \in DOMAIN runs \cup {Next1} |->
                        IF i = Next1 THEN Run("plan", i, i, reply.root) ELSE runs[i]]
               ELSE runs

\* _follow_up: who typed it may not spend, a turn is running, the budget is gone
\* or the session cannot be resumed; only the last two are told to the chat.
Waiting(i) ==
    /\ ledger[i].door = "lark-thread" /\ ledger[i].to # "none" /\ ledger[i].session # 0
    /\ i = Len(ledger) /\ reply = NoReply

FollowUp(i) ==
    /\ Waiting(i) /\ budget
    /\ LET s == ledger[i].session IN
        /\ runs[s].node = ledger[i].to /\ runs[s].state = "finished" /\ ~runs[s].notice
        /\ runs' = [runs EXCEPT ![s].state = "running", ![s].root = ledger[i].root]
    /\ UNCHANGED <<ledger, reply, budget>>

Decline(i) ==
    /\ Waiting(i) /\ Room
    /\ LET s == ledger[i].session IN
        /\ runs[s].node = ledger[i].to /\ runs[s].state = "finished"
        /\ ~budget \/ runs[s].notice
        /\ Notice(s)
    /\ UNCHANGED <<reply, budget>>

\* The window's budget runs out, and the window moves on.
Spend == budget' = ~budget /\ UNCHANGED <<ledger, runs, reply>>

ThreadNext ==
    \/ Signal \/ RecordReply \/ Spend
    \/ \E s \in DOMAIN runs : Report(s) \/ ReportOutcome(s) \/ HandOff(s)
    \/ \E root \in Topics \cup DOMAIN ledger : Say(root)
    \/ \E i \in DOMAIN ledger : FollowUp(i) \/ Decline(i)

-----------------------------------------------------------------------------
\* What is said under a card stays in the operation of that card: a reply never
\* gets the session of work set going by somebody's press further down, which
\* runs on the node with the write credential (store.py, thread_context: the
\* hop no chat message takes without a press).
ChatStaysInItsChain ==
    \A i \in DOMAIN ledger :
        ledger[i].door = "lark-thread" /\ ledger[i].session # 0 =>
            ledger[runs[ledger[i].session].event].op = ledger[i].op
=============================================================================
