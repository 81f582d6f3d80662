--------------------------------- MODULE Cards ---------------------------------
(***************************************************************************)
(* A button pressed on a card, from the chat to what it was for: the       *)
(* bridge forwards it (deploy/lark-bridge/bridge.py), the pipe verifies,   *)
(* spends and dispatches its token (hookrelay/app.py, actions.py), its     *)
(* outbox carries it at least once, and the judge files a ruling           *)
(* (hookjudge) or the investigator acts on it (hookprobe/events.py).       *)
(*                                                                         *)
(* One alert, one correlation id.  A button is a token.  A request is one  *)
(* arrival at the pipe's door: from the bridge, which hands presses over   *)
(* one after another, or from the confirm form, whenever.                  *)
(***************************************************************************)
EXTENDS Integers, Sequences, FiniteSets

CONSTANTS
    Buttons,        \* tokens on the alert's cards
    KindOf,         \* [Buttons -> Kinds]
    Requests,       \* arrivals at the door, each used once
    Ttl,            \* card_action_ttl_seconds
    MaxTime,        \* bound: seconds
    MaxRows,        \* bound: judgements of the alert
    MaxFaults       \* bound: answers lost, crashes, refused writes

Kinds    == {"silence", "useful", "useless", "followup", "handoff"}
Rulings  == {"useful", "useless"}     \* routed to the judge
Sent     == Kinds \ {"silence"}       \* everything the outbox carries

CardsAssumption ==
    /\ KindOf \in [Buttons -> Kinds]
    /\ {Ttl, MaxTime, MaxRows, MaxFaults} \subseteq Nat

VARIABLES
    sec,        \* the clock
    spent,      \* card_actions ledger: tokens spent
    request,    \* each arrival: where it is, its token, when it came, by whom
    told,       \* what the card says became of the press
    outbox,     \* presses owed to the judge or the investigator
    done,       \* tokens whose silence was added, or whose press is in the outbox's rows
    rows,       \* hookjudge: the rulings on the alert's judgements, oldest first
    claims,     \* hookprobe: the action ledger on disk, by press
    handing,    \* presses whose handoff is awaited
    acts,       \* history: how often a press was acted on by the investigator
    filed,      \* history: the presses filed on each judgement
    cuts,       \* history: handoffs the pipe took though its answer was lost
    trouble     \* faults so far

cardVars == <<sec, spent, request, told, outbox, done, rows,
              claims, handing, acts, filed, cuts, trouble>>
relay == <<spent, request, told, done>>
judge == <<rows, filed>>
probe == <<claims, handing, acts, cuts>>

Presses == [kind : Sent, at : 0..MaxTime]       \* actions.key: correlation, kind, at
NewRequest == [pc |-> "unused", button |-> CHOOSE b \in Buttons : TRUE,
               at |-> 0, bridge |-> FALSE]
NoRuling   == [mattered |-> "unruled", at |-> -1]

CardsInit ==
    /\ sec = 0 /\ spent = {}
    /\ request = [r \in Requests |-> NewRequest]
    /\ told = [b \in Buttons |-> "nothing"]
    /\ outbox = {} /\ done = {} /\ rows = <<NoRuling>>
    /\ claims = [p \in Presses |-> "free"] /\ handing = {}
    /\ acts = [p \in Presses |-> 0] /\ filed = <<{}>> /\ cuts = {}
    /\ trouble = 0

KindAt(r) == KindOf[request[r].button]
Press(r)  == [kind |-> KindAt(r), at |-> request[r].at]
To(r, pc) == [request EXCEPT ![r].pc = pc]

-----------------------------------------------------------------------------
Second ==
    /\ sec < MaxTime /\ sec' = sec + 1
    /\ UNCHANGED <<relay, outbox, judge, probe, trouble>>

\* forward_press, by the one consumer, or the confirm form's POST.
Arrive(r, b, fromBridge) ==
    /\ request[r].pc = "unused"
    /\ fromBridge => \A q \in Requests : ~request[q].bridge
    /\ request' = [request EXCEPT ![r] = [pc |-> "new", button |-> b, at |-> sec,
                                          bridge |-> fromBridge]]
    /\ UNCHANGED <<sec, spent, told, done, outbox, judge, probe, trouble>>

\* card_action, up to its first await: the signature, the expiry, and whether
\* the kind is still offered, which the operator may change at any time.
Verify(r, offered) ==
    /\ request[r].pc = "new"
    /\ request' = [request EXCEPT ![r].at = sec,
            ![r].pc = IF sec <= Ttl /\ offered THEN "verified" ELSE "refused"]
    /\ UNCHANGED <<sec, spent, told, done, outbox, judge, probe, trouble>>

\* spend_action: claimed before anything is done.
Spend(r) ==
    /\ request[r].pc = "verified"
    /\ spent' = spent \cup {request[r].button}
    /\ request' = To(r, IF request[r].button \in spent THEN "already_done" ELSE "spent")
    /\ UNCHANGED <<sec, told, done, outbox, judge, probe, trouble>>

\* _dispatch_action: a silence on the alert the card descends from, or an event
\* and its delivery in one transaction.
Silence(r) ==
    /\ request[r].pc = "spent" /\ KindAt(r) = "silence"
    /\ done' = done \cup {request[r].button}
    /\ request' = To(r, "acted")
    /\ UNCHANGED <<sec, spent, told, outbox, judge, probe, trouble>>

Forward(r) ==
    /\ request[r].pc = "spent" /\ KindAt(r) # "silence"
    /\ outbox' = outbox \cup {Press(r)}
    /\ done' = done \cup {request[r].button}
    /\ request' = To(r, "acted")
    /\ UNCHANGED <<sec, spent, told, judge, probe, trouble>>

\* The alert's source cannot be resolved or is configured no more (409), or the
\* ledger cannot be written: the token stays spent.
DispatchFails(r) ==
    /\ request[r].pc = "spent" /\ trouble < MaxFaults
    /\ request' = To(r, "refused") /\ trouble' = trouble + 1
    /\ UNCHANGED <<sec, spent, told, done, outbox, judge, probe>>

\* Seeded fault: every 200 is an acceptance.
NoteEvery200(pc) == IF pc \in {"acted", "already_done"} THEN "accepted" ELSE "not accepted"

\* What the bridge makes of the pipe's answer.
Note(pc) == CASE pc = "acted"        -> "accepted"
              [] pc = "already_done" -> "already recorded"
              [] OTHER               -> "not accepted"

\* acknowledge: the answer repaints the card, if somebody still waits for it.
Answer(r) ==
    /\ request[r].pc \in {"acted", "already_done", "refused"}
    /\ request' = [request EXCEPT ![r].pc = "over", ![r].bridge = FALSE]
    /\ \/ /\ request[r].bridge
          /\ told' = [told EXCEPT ![request[r].button] = Note(request[r].pc)]
       \/ UNCHANGED told        \* the form, or a repaint the platform refused
    /\ UNCHANGED <<sec, spent, done, outbox, judge, probe, trouble>>

\* The bridge waited its fifteen seconds; the pipe goes on all the same.
BridgeGivesUp(r) ==
    /\ request[r].bridge /\ trouble < MaxFaults
    /\ request' = [request EXCEPT ![r].bridge = FALSE]
    /\ told' = [told EXCEPT ![request[r].button] = "not accepted"]
    /\ trouble' = trouble + 1
    /\ UNCHANGED <<sec, spent, done, outbox, judge, probe>>

RelayDies ==
    /\ trouble < MaxFaults
    /\ \E r \in Requests : request[r].pc \notin {"unused", "over"}
    /\ request' = [r \in Requests |-> IF request[r].pc \in {"unused", "over"} THEN request[r]
                                      ELSE [request[r] EXCEPT !.pc = "over", !.bridge = FALSE]]
    /\ told' = [b \in Buttons |->
                  IF \E r \in Requests : request[r].bridge /\ request[r].button = b
                  THEN "not accepted" ELSE told[b]]
    /\ trouble' = trouble + 1
    /\ UNCHANGED <<sec, spent, done, outbox, judge, probe>>

-----------------------------------------------------------------------------
\* The outbox posts a row until it hears an answer: `heard` is the 202 arriving.
Heard(p, heard) ==
    /\ p \in outbox
    /\ heard \/ trouble < MaxFaults
    /\ outbox' = IF heard THEN outbox \ {p} ELSE outbox
    /\ trouble' = IF heard THEN trouble ELSE trouble + 1

\* Seeded fault: whatever arrives last stands.
StandsLast(standing, p) == FALSE

\* record_mattered: an older press, or the same one again, changes nothing.
Stands(standing, p) ==
    p.at < standing.at \/ (p.at = standing.at /\ p.kind = standing.mattered)

\* The judge's /feedback door files a press on the newest judgement.
Ruling(p, heard) ==
    /\ p.kind \in Rulings /\ Heard(p, heard)
    /\ LET n == Len(rows)
       IN /\ rows' = [rows EXCEPT ![n] = IF Stands(@, p) THEN @
                                         ELSE [mattered |-> p.kind, at |-> p.at]]
          /\ filed' = [filed EXCEPT ![n] = @ \cup {p}]
    /\ UNCHANGED <<sec, relay, probe>>

\* The alert is judged once more: a redelivery the judge did not recognise.
JudgedAgain ==
    /\ Len(rows) < MaxRows
    /\ rows' = Append(rows, NoRuling) /\ filed' = Append(filed, {})
    /\ UNCHANGED <<sec, relay, outbox, probe, trouble>>

-----------------------------------------------------------------------------
\* Seeded fault: a claim that was never settled is taken for a free one.
FreshLoose(p) == claims[p] # "settled"

\* claim: the file is created exclusively, and whoever finds it acts no more.
Fresh(p) == claims[p] = "free"

\* action_door, every kind but the handoff: claimed, dispatched and settled
\* without a pause.  It dies before the dispatch or before the settlement, or
\* the dispatch raises having done nothing and the claim is given back.
ActionDoor(p, heard) ==
    /\ p.kind = "followup" /\ Heard(p, heard) /\ Fresh(p)
    /\ acts' = [acts EXCEPT ![p] = @ + 1]
    /\ claims' = [claims EXCEPT ![p] = "settled"]
    /\ UNCHANGED <<sec, relay, judge, handing, cuts>>

\* Seen before: answered with what was done, or that it is being done.
Duplicate(p, heard) ==
    /\ p.kind \in {"followup", "handoff"} /\ Heard(p, heard) /\ ~Fresh(p)
    /\ UNCHANGED <<sec, relay, judge, probe>>

ProbeDiesClaiming(p, dispatched) ==
    /\ p \in outbox /\ p.kind = "followup" /\ Fresh(p) /\ trouble < MaxFaults
    /\ claims' = [claims EXCEPT ![p] = "claimed"]
    /\ acts' = IF dispatched THEN [acts EXCEPT ![p] = @ + 1] ELSE acts
    /\ trouble' = trouble + 1
    /\ UNCHANGED <<sec, relay, outbox, judge, handing, cuts>>

\* _handoff posts to the pipe from a thread, and the loop goes on meanwhile.
HandoffStarts(p) ==
    /\ p \in outbox /\ p.kind = "handoff" /\ Fresh(p)
    /\ claims' = [claims EXCEPT ![p] = "claimed"]
    /\ handing' = handing \cup {p}
    /\ UNCHANGED <<sec, relay, outbox, judge, acts, cuts, trouble>>

HandoffEnds(p, heard) ==
    /\ p \in handing
    /\ handing' = handing \ {p}
    /\ acts' = [acts EXCEPT ![p] = @ + 1]
    /\ claims' = [claims EXCEPT ![p] = "settled"]
    /\ outbox' = IF heard THEN outbox \ {p} ELSE outbox
    /\ heard \/ trouble < MaxFaults
    /\ trouble' = IF heard THEN trouble ELSE trouble + 1
    /\ UNCHANGED <<sec, relay, judge, cuts>>

\* The pipe refused it, or took it and the answer was lost: released either way.
HandoffFails(p, taken) ==
    /\ p \in handing /\ trouble < MaxFaults
    /\ handing' = handing \ {p}
    /\ claims' = [claims EXCEPT ![p] = "free"]
    /\ acts' = IF taken THEN [acts EXCEPT ![p] = @ + 1] ELSE acts
    /\ cuts' = IF taken THEN cuts \cup {p} ELSE cuts
    /\ trouble' = trouble + 1
    /\ UNCHANGED <<sec, relay, outbox, judge>>

CardsNext ==
    \/ Second \/ RelayDies \/ JudgedAgain
    \/ \E r \in Requests :
         \/ \E b \in Buttons, fromBridge \in BOOLEAN : Arrive(r, b, fromBridge)
         \/ \E offered \in BOOLEAN : Verify(r, offered)
         \/ Spend(r) \/ Silence(r) \/ Forward(r) \/ DispatchFails(r)
         \/ Answer(r) \/ BridgeGivesUp(r)
    \/ \E p \in Presses :
         \/ HandoffStarts(p)
         \/ \E yes \in BOOLEAN :
              \/ Ruling(p, yes) \/ ActionDoor(p, yes) \/ Duplicate(p, yes)
              \/ ProbeDiesClaiming(p, yes) \/ HandoffEnds(p, yes) \/ HandoffFails(p, yes)

CardsSpec == CardsInit /\ [][CardsNext]_cardVars

-----------------------------------------------------------------------------
\* A card that says its press was accepted had its silence added or its press
\* put in the outbox, whatever was refused, lost or pressed twice before.
AcceptedWasActed == \A b \in Buttons : told[b] = "accepted" => b \in done

\* On each judgement the latest of the presses filed there stands, in whatever
\* order and however often the outbox delivered them.
LatestRulingStands ==
    \A n \in DOMAIN rows : \A p \in filed[n] : p.at <= rows[n].at

\* One press, one act: a redelivery, a crash between the claim and the answer,
\* or a delivery while the handoff is awaited never acts again.  Only a handoff
\* whose answer was lost may.
OneActPerPress == \A p \in Presses : acts[p] > 1 => p \in cuts
=============================================================================
