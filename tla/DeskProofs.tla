----------------------------- MODULE DeskProofs ------------------------------
(***************************************************************************)
(* What of Desk holds for every value of its constants.  A part that runs  *)
(* keeps an invariant of its own, proved from that part's initial states   *)
(* and steps alone (StepOfPart: no other part moves); the part's property  *)
(* is read off it.                                                         *)
(***************************************************************************)
EXTENDS Desk, Integers, Sequences, FiniteSetTheorems, WellFoundedInduction, TLAPS
-----------------------------------------------------------------------------
\* A step is a step of the part that runs, and no other part moves.
LEMMA StepOfPart ==
  ASSUME [DeskNext]_deskVars
  PROVE  /\ part' = part
         /\ part = "vigil" => V!VigilNext \/ UNCHANGED V!vigilVars
         /\ part = "alarm" => V!AlarmNext \/ UNCHANGED V!alarmVars
         /\ part = "cards" => C!CardsNext \/ UNCHANGED C!cardVars
         /\ part = "fold" => F!FoldNext \/ UNCHANGED F!foldVars
         /\ part = "signer" => S!SignerNext \/ UNCHANGED S!signerVars
         /\ part = "gate" => E!GateNext \/ UNCHANGED E!gateVars
         /\ part = "egress" => E!EgressNext \/ UNCHANGED E!egressVars
         /\ part = "bridge" => B!BridgeNext \/ UNCHANGED B!bridgeVars
         /\ part = "watch" => W!Next \/ UNCHANGED W!vars
<1>1. CASE DeskNext
  BY <1>1 DEF DeskNext, Still
<1>2. CASE UNCHANGED deskVars
  BY <1>2 DEF deskVars, cardVars, foldVars, vigilVars, alarmVars, signerVars, gateVars, egressVars,
              bridgeVars, C!cardVars, F!foldVars, V!vigilVars, V!alarmVars, S!signerVars,
              E!gateVars, E!egressVars, B!bridgeVars, B!busVars,
              C!relay, C!judge, C!probe,
              watchVars, W!vars, W!scan, W!jiras, W!timer, W!node, W!hist, W!bounds
<1>. QED
  BY <1>1, <1>2
-----------------------------------------------------------------------------
(***************************************************************************)
(* Cards: what the card says of a press.                                   *)
(***************************************************************************)
CardRequest == [pc : {"unused", "new", "verified", "spent", "already_done", "acted", "refused", "over"},
                button : Buttons \cup {CHOOSE b \in Buttons : TRUE},
                at : 0..CardTime, bridge : BOOLEAN]

\* An arrival that was acted on left its silence, or its press in the outbox.
ActedIsDone ==
    /\ sec \in 0..CardTime
    /\ request \in [Requests -> CardRequest]
    /\ told \in [Buttons -> {"nothing", "accepted", "already recorded", "not accepted"}]
    /\ \A r \in Requests : request[r].pc = "acted" => request[r].button \in done
    /\ C!AcceptedWasActed

\* No arrival has come.
LEMMA ActedInit == C!CardsInit => ActedIsDone
<1>. SUFFICES ASSUME C!CardsInit PROVE ActedIsDone
  OBVIOUS
<1>1. CardTime \in Nat
  BY DeskAssumption DEF C!CardsAssumption
<1>2. C!NewRequest \in CardRequest /\ C!NewRequest.pc = "unused"
  BY <1>1 DEF C!NewRequest, CardRequest
<1>. QED
  BY <1>1, <1>2 DEF C!CardsInit, ActedIsDone, C!AcceptedWasActed

\* "accepted" is painted on the answer of an arrival that was acted on.
LEMMA ActedStep == ActedIsDone /\ (C!CardsNext \/ UNCHANGED C!cardVars) => ActedIsDone'
<1>. SUFFICES ASSUME ActedIsDone, C!CardsNext \/ UNCHANGED C!cardVars PROVE ActedIsDone'
  OBVIOUS
<1>0. CardTime \in Nat
  BY DeskAssumption DEF C!CardsAssumption
<1>1. ASSUME request' = request, told' = told, done' = done, sec' \in 0..CardTime
      PROVE  ActedIsDone'
  BY <1>1 DEF ActedIsDone, C!AcceptedWasActed
<1>2. CASE C!Second \/ C!JudgedAgain \/ UNCHANGED C!cardVars
  <2>1. request' = request /\ told' = told /\ done' = done
    BY <1>2 DEF C!Second, C!JudgedAgain, C!cardVars, C!relay
  <2>2. sec' = sec \/ (sec < CardTime /\ sec' = sec + 1)
    BY <1>2 DEF C!Second, C!JudgedAgain, C!cardVars
  <2>3. sec \in 0..CardTime
    BY DEF ActedIsDone
  <2>4. sec' \in 0..CardTime
    BY <1>0, <2>2, <2>3
  <2>. QED
    BY <1>1, <2>1, <2>4
<1>3. ASSUME NEW p \in C!Presses,
             \/ C!HandoffStarts(p)
             \/ \E yes \in BOOLEAN : \/ C!Ruling(p, yes) \/ C!ActionDoor(p, yes) \/ C!Duplicate(p, yes)
                                     \/ C!ProbeDiesClaiming(p, yes) \/ C!HandoffEnds(p, yes)
                                     \/ C!HandoffFails(p, yes)
      PROVE  ActedIsDone'
  <2>1. request' = request /\ told' = told /\ done' = done /\ sec' = sec
    BY <1>3 DEF C!HandoffStarts, C!Ruling, C!ActionDoor, C!Duplicate, C!ProbeDiesClaiming,
                C!HandoffEnds, C!HandoffFails, C!relay
  <2>. QED
    BY <1>1, <2>1 DEF ActedIsDone
<1>4. CASE C!RelayDies
  <2>1. /\ request' \in [Requests -> CardRequest] /\ sec' = sec /\ done' = done
        /\ \A r \in Requests : request'[r].pc # "acted"
    BY <1>4 DEF C!RelayDies, ActedIsDone, CardRequest
  <2>2. /\ told' \in [Buttons -> {"nothing", "accepted", "already recorded", "not accepted"}]
        /\ \A b \in Buttons : told'[b] = "accepted" => told[b] = "accepted"
    BY <1>4 DEF C!RelayDies, ActedIsDone
  <2>. QED
    BY <2>1, <2>2 DEF ActedIsDone, C!AcceptedWasActed
<1>5. ASSUME NEW r \in Requests, NEW b \in Buttons, NEW fromBridge \in BOOLEAN,
             C!Arrive(r, b, fromBridge)
      PROVE  ActedIsDone'
  BY <1>5 DEF C!Arrive, ActedIsDone, CardRequest, C!AcceptedWasActed
<1>6. ASSUME NEW r \in Requests, NEW offered \in BOOLEAN, C!Verify(r, offered) PROVE ActedIsDone'
  <2>. DEFINE verdict == IF sec <= CardTtl /\ offered THEN "verified" ELSE "refused"
  <2>1. /\ request' = [request EXCEPT ![r].at = sec, ![r].pc = verdict]
        /\ UNCHANGED <<sec, told, done>>
    BY <1>6 DEF C!Verify
  <2>2. verdict \in {"verified", "refused"}
    OBVIOUS
  <2>. HIDE DEF verdict
  <2>3. /\ request' \in [Requests -> CardRequest] /\ request'[r].pc = verdict
        /\ \A q \in Requests \ {r} : request'[q] = request[q]
    <3>1. request \in [Requests -> CardRequest] /\ request[r] \in CardRequest /\ sec \in 0..CardTime
      BY DEF ActedIsDone
    <3>. DEFINE w == [request[r] EXCEPT !.at = sec, !.pc = verdict]
    <3>2. w \in CardRequest /\ w.pc = verdict
      BY <2>2, <3>1 DEF CardRequest
    <3>3. request' = [request EXCEPT ![r] = w]
      BY <2>1
    <3>. HIDE DEF w
    <3>. QED
      BY <3>1, <3>2, <3>3
  <2>. QED
    BY <2>1, <2>2, <2>3 DEF ActedIsDone, C!AcceptedWasActed
<1>7. ASSUME NEW r \in Requests, C!Spend(r) PROVE ActedIsDone'
  BY <1>7 DEF C!Spend, C!To, ActedIsDone, CardRequest, C!AcceptedWasActed
<1>8. ASSUME NEW r \in Requests, C!Silence(r) \/ C!Forward(r) PROVE ActedIsDone'
  <2>1. /\ request' = [request EXCEPT ![r].pc = "acted"] /\ done' = done \cup {request[r].button}
        /\ UNCHANGED <<sec, told>>
    BY <1>8 DEF C!Silence, C!Forward, C!To
  <2>. QED
    BY <2>1 DEF ActedIsDone, CardRequest, C!AcceptedWasActed
<1>9. ASSUME NEW r \in Requests, C!DispatchFails(r) PROVE ActedIsDone'
  BY <1>9 DEF C!DispatchFails, C!To, ActedIsDone, CardRequest, C!AcceptedWasActed
<1>10. ASSUME NEW r \in Requests, C!Answer(r) PROVE ActedIsDone'
  <2>1. /\ request' = [request EXCEPT ![r].pc = "over", ![r].bridge = FALSE]
        /\ UNCHANGED <<sec, done>>
        /\ \/ told' = [told EXCEPT ![request[r].button] = C!Note(request[r].pc)] \/ told' = told
    BY <1>10 DEF C!Answer
  <2>2. /\ C!Note(request[r].pc) \in {"accepted", "already recorded", "not accepted"}
        /\ C!Note(request[r].pc) = "accepted" => request[r].button \in done
    BY <1>10 DEF C!Note, C!Answer, ActedIsDone
  <2>. HIDE DEF C!Note
  <2>3. request' \in [Requests -> CardRequest]
        /\ \A q \in Requests : request'[q].pc = "acted" => request[q].pc = "acted" /\ request'[q].button = request[q].button
    BY <2>1 DEF ActedIsDone, CardRequest
  <2>4. /\ told' \in [Buttons -> {"nothing", "accepted", "already recorded", "not accepted"}]
        /\ \A b \in Buttons : told'[b] = "accepted" => b \in done
    BY <2>1, <2>2 DEF ActedIsDone, C!AcceptedWasActed
  <2>5. sec' = sec /\ done' = done
    BY <2>1
  <2>6. sec \in 0..CardTime /\ \A q \in Requests : request[q].pc = "acted" => request[q].button \in done
    BY DEF ActedIsDone
  <2>. QED
    BY <2>3, <2>4, <2>5, <2>6 DEF ActedIsDone, C!AcceptedWasActed
<1>11. ASSUME NEW r \in Requests, C!BridgeGivesUp(r) PROVE ActedIsDone'
  BY <1>11 DEF C!BridgeGivesUp, ActedIsDone, CardRequest, C!AcceptedWasActed
<1>. QED
  BY <1>2, <1>3, <1>4, <1>5, <1>6, <1>7, <1>8, <1>9, <1>10, <1>11 DEF C!CardsNext

\* A card that says accepted was acted on, through refusals, losses and deaths.
THEOREM CardsTellTheTruth == DeskSpec => []AcceptedWasActed
<1>. DEFINE I == part = "cards" => ActedIsDone
<1>1. DeskInit => I
  BY ActedInit DEF DeskInit
<1>2. I /\ [DeskNext]_deskVars => I'
  BY ActedStep, StepOfPart
<1>3. I => AcceptedWasActed
  BY DEF AcceptedWasActed, ActedIsDone
<1>. QED
  BY <1>1, <1>2, <1>3, PTL DEF DeskSpec

-----------------------------------------------------------------------------
\* Every judgement has its ruling and the presses filed on it, and the ruling
\* is not older than any of them.
RulingsOrdered ==
    /\ rows \in Seq([mattered : {"unruled"} \cup C!Rulings, at : -1..CardTime])
    /\ filed \in Seq(SUBSET C!Presses)
    /\ Len(rows) = Len(filed)
    /\ C!LatestRulingStands

\* One judgement, without a ruling.
LEMMA RulingsInit == C!CardsInit => RulingsOrdered
<1>. SUFFICES ASSUME C!CardsInit PROVE RulingsOrdered
  OBVIOUS
<1>0. CardTime \in Nat
  BY DeskAssumption DEF C!CardsAssumption
<1>1. C!NoRuling \in [mattered : {"unruled"} \cup C!Rulings, at : -1..CardTime]
  <2>1. -1 \in -1..CardTime
    BY <1>0
  <2>. QED
    BY <2>1 DEF C!NoRuling
<1>. QED
  BY <1>1 DEF C!CardsInit, RulingsOrdered, C!LatestRulingStands

\* An older press, or the same one again, moves no ruling.
LEMMA RulingsStep == RulingsOrdered /\ (C!CardsNext \/ UNCHANGED C!cardVars) => RulingsOrdered'
<1>. SUFFICES ASSUME RulingsOrdered, C!CardsNext \/ UNCHANGED C!cardVars PROVE RulingsOrdered'
  OBVIOUS
<1>. DEFINE RulingType == [mattered : {"unruled"} \cup C!Rulings, at : -1..CardTime]
<1>0. CardTime \in Nat
  BY DeskAssumption DEF C!CardsAssumption
<1>1. CASE UNCHANGED <<rows, filed>>
  BY <1>1 DEF RulingsOrdered, C!LatestRulingStands
<1>2. ASSUME NEW p \in C!Presses, NEW yes \in BOOLEAN, C!Ruling(p, yes) PROVE RulingsOrdered'
  <2>. DEFINE n == Len(rows)
              v == IF C!Stands(rows[n], p) THEN rows[n] ELSE [mattered |-> p.kind, at |-> p.at]
  <2>1. /\ rows' = [rows EXCEPT ![n] = v] /\ filed' = [filed EXCEPT ![n] = filed[n] \cup {p}]
        /\ p.kind \in C!Rulings /\ p.at \in 0..CardTime
    BY <1>2 DEF C!Ruling, C!Presses
  <2>2. CASE n = 0
    <3>1. rows' = rows /\ filed' = filed
      BY <2>1, <2>2 DEF RulingsOrdered
    <3>. QED
      BY <1>1, <3>1
  <2>3. CASE n # 0
    <3>0. /\ Len(rows) \in Nat /\ Len(filed) = Len(rows) /\ rows \in Seq(RulingType)
      BY DEF RulingsOrdered
    <3>1. n \in 1..Len(rows) /\ n \in 1..Len(filed) /\ rows[n] \in RulingType
      <4>1. n \in Nat \ {0}
        BY <2>3, <3>0
      <4>2. n \in 1..Len(rows) /\ n \in 1..Len(filed)
        BY <3>0, <4>1
      <4>. HIDE DEF RulingType, n
      <4>3. rows[n] \in RulingType
        BY <3>0, <4>2
      <4>. QED
        BY <4>2, <4>3
    <3>2. v \in RulingType /\ v.at >= rows[n].at /\ v.at >= p.at
      <4>1. CASE C!Stands(rows[n], p)
        BY <2>1, <3>1, <4>1 DEF C!Stands
      <4>2. CASE ~C!Stands(rows[n], p)
        <5>1. p.at >= rows[n].at
          BY <1>0, <2>1, <3>1, <4>2 DEF C!Stands
        <5>2. v = [mattered |-> p.kind, at |-> p.at]
          BY <4>2
        <5>3. p.at \in -1..CardTime
          BY <1>0, <2>1
        <5>. QED
          BY <2>1, <5>1, <5>2, <5>3
      <4>. QED
        BY <4>1, <4>2
    <3>. HIDE DEF v, n
    <3>3. rows' \in Seq(RulingType) /\ Len(rows') = Len(rows)
      BY <2>1, <3>1, <3>2 DEF RulingsOrdered
    <3>4. filed' \in Seq(SUBSET C!Presses) /\ Len(filed') = Len(filed)
      BY <2>1, <3>1 DEF RulingsOrdered
    <3>5. ASSUME NEW i \in DOMAIN rows', NEW q \in filed'[i] PROVE q.at <= rows'[i].at
      <4>1. i \in 1..Len(rows) /\ i \in 1..Len(filed) /\ DOMAIN rows = 1..Len(rows)
        BY <3>3 DEF RulingsOrdered
      <4>2. CASE i # n
        BY <2>1, <4>1, <4>2 DEF RulingsOrdered, C!LatestRulingStands
      <4>3. CASE i = n
        <5>1. rows'[i] = v /\ filed'[i] = filed[n] \cup {p}
          BY <2>1, <4>1, <4>3 DEF RulingsOrdered
        <5>2. CASE q = p
          BY <3>2, <5>1, <5>2
        <5>3. CASE q \in filed[n]
          <6>1. q.at <= rows[n].at /\ q \in C!Presses
            BY <4>1, <4>3, <5>3 DEF RulingsOrdered, C!LatestRulingStands
          <6>2. q.at \in Int /\ rows[n].at \in Int /\ v.at \in Int
            BY <3>1, <3>2, <6>1 DEF C!Presses
          <6>. QED
            BY <3>2, <5>1, <6>1, <6>2
        <5>. QED
          BY <5>1, <5>2, <5>3
      <4>. QED
        BY <4>2, <4>3
    <3>. QED
      BY <3>3, <3>4, <3>5 DEF RulingsOrdered, C!LatestRulingStands
  <2>. QED
    BY <2>2, <2>3
<1>3. CASE C!JudgedAgain
  <2>1. rows' = Append(rows, C!NoRuling) /\ filed' = Append(filed, {})
    BY <1>3 DEF C!JudgedAgain
  <2>2. C!NoRuling \in RulingType
    <3>1. -1 \in -1..CardTime
      BY <1>0
    <3>. QED
      BY <3>1 DEF C!NoRuling
  <2>3. ASSUME NEW i \in DOMAIN rows', NEW q \in filed'[i] PROVE q.at <= rows'[i].at
    <3>1. i # Len(rows) + 1
      BY <2>1 DEF RulingsOrdered
    <3>2. i \in DOMAIN rows /\ filed'[i] = filed[i] /\ rows'[i] = rows[i]
      BY <2>1, <3>1 DEF RulingsOrdered
    <3>. QED
      BY <3>2 DEF RulingsOrdered, C!LatestRulingStands
  <2>4. rows' \in Seq(RulingType) /\ filed' \in Seq(SUBSET C!Presses) /\ Len(rows') = Len(filed')
    BY <2>1, <2>2 DEF RulingsOrdered
  <2>. QED
    BY <2>3, <2>4 DEF RulingsOrdered, C!LatestRulingStands
<1>4. CASE C!Second \/ C!RelayDies \/ UNCHANGED C!cardVars
  BY <1>1, <1>4 DEF C!Second, C!RelayDies, C!cardVars, C!judge
<1>5. ASSUME NEW r \in Requests,
             \/ \E b \in Buttons, fromBridge \in BOOLEAN : C!Arrive(r, b, fromBridge)
             \/ \E offered \in BOOLEAN : C!Verify(r, offered)
             \/ C!Spend(r) \/ C!Silence(r) \/ C!Forward(r) \/ C!DispatchFails(r)
             \/ C!Answer(r) \/ C!BridgeGivesUp(r)
      PROVE  RulingsOrdered'
  BY <1>1, <1>5 DEF C!Arrive, C!Verify, C!Spend, C!Silence, C!Forward, C!DispatchFails, C!Answer,
                    C!BridgeGivesUp, C!judge
<1>6. ASSUME NEW p \in C!Presses,
             \/ C!HandoffStarts(p)
             \/ \E yes \in BOOLEAN : \/ C!ActionDoor(p, yes) \/ C!Duplicate(p, yes)
                                     \/ C!ProbeDiesClaiming(p, yes) \/ C!HandoffEnds(p, yes)
                                     \/ C!HandoffFails(p, yes)
      PROVE  RulingsOrdered'
  BY <1>1, <1>6 DEF C!HandoffStarts, C!ActionDoor, C!Duplicate, C!ProbeDiesClaiming,
                C!HandoffEnds, C!HandoffFails, C!judge
<1>. QED
  BY <1>2, <1>3, <1>4, <1>5, <1>6 DEF C!CardsNext

\* Whatever the outbox reorders or repeats, the latest press on a judgement stands on
\* the judge's row of it.
THEOREM CardsKeepTheLatest == DeskSpec => []LatestRulingStands
<1>. DEFINE I == part = "cards" => RulingsOrdered
<1>1. DeskInit => I
  BY RulingsInit DEF DeskInit
<1>2. I /\ [DeskNext]_deskVars => I'
  BY RulingsStep, StepOfPart
<1>3. I => LatestRulingStands
  BY DEF LatestRulingStands, RulingsOrdered
<1>. QED
  BY <1>1, <1>2, <1>3, PTL DEF DeskSpec

-----------------------------------------------------------------------------
\* A press nobody claimed was not acted on, one whose handoff is awaited is
\* claimed and not acted on yet.
ClaimedOnce ==
    /\ claims \in [C!Presses -> {"free", "claimed", "settled"}]
    /\ acts \in [C!Presses -> Nat] /\ handing \subseteq C!Presses
    /\ \A p \in C!Presses \ cuts :
         /\ acts[p] <= 1
         /\ claims[p] = "free" => acts[p] = 0
         /\ p \in handing => claims[p] = "claimed" /\ acts[p] = 0

\* Nothing is claimed and nothing was acted on.
LEMMA ClaimedInit == C!CardsInit => ClaimedOnce
BY DEF C!CardsInit, ClaimedOnce

\* A claim is written before the act and given back only when nothing was done,
\* or when the handoff was taken and its answer lost.
LEMMA ClaimedStep == ClaimedOnce /\ (C!CardsNext \/ UNCHANGED C!cardVars) => ClaimedOnce'
<1>. SUFFICES ASSUME ClaimedOnce, C!CardsNext \/ UNCHANGED C!cardVars PROVE ClaimedOnce'
  OBVIOUS
<1>1. CASE UNCHANGED <<claims, handing, acts, cuts>>
  BY <1>1 DEF ClaimedOnce
<1>2. ASSUME NEW p \in C!Presses, NEW yes \in BOOLEAN, C!ActionDoor(p, yes) PROVE ClaimedOnce'
  BY <1>2 DEF C!ActionDoor, C!Fresh, ClaimedOnce
<1>3. ASSUME NEW p \in C!Presses, NEW yes \in BOOLEAN, C!ProbeDiesClaiming(p, yes) PROVE ClaimedOnce'
  BY <1>3 DEF C!ProbeDiesClaiming, C!Fresh, ClaimedOnce
<1>4. ASSUME NEW p \in C!Presses, C!HandoffStarts(p) PROVE ClaimedOnce'
  BY <1>4 DEF C!HandoffStarts, C!Fresh, ClaimedOnce
<1>5. ASSUME NEW p \in C!Presses, NEW yes \in BOOLEAN, C!HandoffEnds(p, yes) PROVE ClaimedOnce'
  BY <1>5 DEF C!HandoffEnds, ClaimedOnce
<1>6. ASSUME NEW p \in C!Presses, NEW yes \in BOOLEAN, C!HandoffFails(p, yes) PROVE ClaimedOnce'
  BY <1>6 DEF C!HandoffFails, ClaimedOnce
<1>7. CASE \/ C!Second \/ C!RelayDies \/ C!JudgedAgain \/ UNCHANGED C!cardVars
           \/ \E r \in Requests :
                \/ \E b \in Buttons, fromBridge \in BOOLEAN : C!Arrive(r, b, fromBridge)
                \/ \E offered \in BOOLEAN : C!Verify(r, offered)
                \/ C!Spend(r) \/ C!Silence(r) \/ C!Forward(r) \/ C!DispatchFails(r)
                \/ C!Answer(r) \/ C!BridgeGivesUp(r)
           \/ \E p \in C!Presses, yes \in BOOLEAN : C!Ruling(p, yes) \/ C!Duplicate(p, yes)
  BY <1>1, <1>7 DEF C!Second, C!RelayDies, C!JudgedAgain, C!cardVars, C!Arrive, C!Verify, C!Spend,
                    C!Silence, C!Forward, C!DispatchFails, C!Answer, C!BridgeGivesUp, C!Ruling,
                    C!Duplicate, C!probe
<1>. QED
  BY <1>2, <1>3, <1>4, <1>5, <1>6, <1>7 DEF C!CardsNext

\* One press, one act of the investigator.
THEOREM CardsActOnce == DeskSpec => []OneActPerPress
<1>. DEFINE I == part = "cards" => ClaimedOnce
<1>1. DeskInit => I
  BY ClaimedInit DEF DeskInit
<1>2. I /\ [DeskNext]_deskVars => I'
  BY ClaimedStep, StepOfPart
<1>3. I => OneActPerPress
  BY DEF OneActPerPress, C!OneActPerPress, ClaimedOnce
<1>. QED
  BY <1>1, <1>2, <1>3, PTL DEF DeskSpec
-----------------------------------------------------------------------------
(***************************************************************************)
(* Fold: what the sweep owes a person.                                     *)
(***************************************************************************)
\* An event that is recorded, and one that is on its way to the record.
Recorded == [at : 0..FoldTime, recovery : BOOLEAN, outcome : {"folded", "routed", "skipped"}]
Arrival  == [at : -1..FoldTime, recovery : BOOLEAN, verdict : {"none", "folded", "pass"}]

FoldType ==
    /\ clock \in 0..FoldTime /\ nextSettle \in 0..(FoldTime + 1)
    /\ events \in Seq(Recorded)
    /\ inHand \in [Slots -> Arrival]
    /\ \A s \in Slots : inHand[s] # F!NoEvent => inHand[s].at >= 0
    /\ swept.upTo \in 0..Len(events)

\* The condition's last card says that it fires, or is older than the look-back,
\* or there is none.
LatestFires ==
    \A c \in DOMAIN events :
        /\ events[c].outcome = "routed" /\ events[c].at >= clock - F!LookBack
        /\ \A j \in DOMAIN events : j > c => events[j].outcome # "routed"
        => ~events[c].recovery

\* A firing the last sweep found held for a window, with no recovery after it.
Owed(i) ==
    /\ i \in 1..swept.upTo
    /\ events[i].outcome = "folded" /\ ~events[i].recovery
    /\ events[i].at <= swept.now - FoldWindow /\ events[i].at >= swept.now - F!LookBack
    /\ \A j \in DOMAIN events : j > i => ~events[j].recovery

\* The sweep has each of them still before it, or the last card tells of it.
SweepOwes ==
    /\ sweep.left \subseteq {i \in DOMAIN events : ~events[i].recovery}
    /\ sweep.at # 0 => sweep.at \in sweep.left
    /\ \A i \in Nat : Owed(i) => i \in sweep.left \/ LatestFires

FoldInv == FoldType /\ SweepOwes

\* A set of numbers has a smallest one.
LEMMA SmallestOf ==
  ASSUME NEW T \in SUBSET Nat, T # {}
  PROVE  \E m \in T : \A j \in T : m <= j
<1>. DEFINE R == {ss \in Nat \X Nat : ss[1] < ss[2]}
<1>1. IsWellFoundedOn(R, Nat)
  BY NatLessThanWellFounded DEF OpToRel
<1>. HIDE DEF R
<1>2. PICK m \in T : \A j \in T : ~(<<j, m>> \in R)
  BY <1>1, WFMin
<1>3. ASSUME NEW j \in T PROVE m <= j
  <2>1. j \in Nat /\ m \in Nat
    OBVIOUS
  <2>2. ~(<<j, m>> \in R)
    BY <1>2
  <2>3. ~(j < m)
    BY <2>1, <2>2 DEF R
  <2>. QED
    BY <2>1, <2>3
<1>. QED
  BY <1>3

\* What the sweep reads of the cards in sight is what the last card says.
LEMMA LastCardFires ==
  ASSUME FoldType, ~F!LastCardRecovers
  PROVE  LatestFires
<1>1. events \in Seq(Recorded) /\ DOMAIN events = 1..Len(events) /\ Len(events) \in Nat
  BY DEF FoldType
<1>. SUFFICES ASSUME NEW c \in DOMAIN events,
                     events[c].outcome = "routed", events[c].at >= clock - F!LookBack,
                     \A j \in DOMAIN events : j > c => events[j].outcome # "routed"
              PROVE  ~events[c].recovery
  BY DEF LatestFires
<1>2. c \in F!Cards /\ F!Cards \subseteq 1..Len(events)
  BY <1>1 DEF F!Cards, F!History
<1>3. \A j \in F!Cards : j <= c
  BY <1>1, <1>2 DEF F!Cards, F!History
<1>4. \A k \in F!Cards : (\A j \in F!Cards : k >= j) <=> k = c
  BY <1>2, <1>3
<1>5. F!Max(F!Cards) = c
  BY <1>2, <1>4 DEF F!Max
<1>. QED
  BY <1>2, <1>5 DEF F!LastCardRecovers

\* An empty hand holds an arrival of no time.
LEMMA NoEventArrives == F!NoEvent \in Arrival
<1>0. FoldTime \in Nat
  BY DeskAssumption DEF F!FoldAssumption
<1>1. F!NoEvent = [at |-> -1, recovery |-> FALSE, verdict |-> "none"] /\ -1 \in -1..FoldTime
  BY <1>0 DEF F!NoEvent
<1>. QED
  BY <1>1 DEF Arrival

\* Nothing has come.
LEMMA FoldInit == F!FoldInit => FoldInv
<1>. SUFFICES ASSUME F!FoldInit PROVE FoldInv
  OBVIOUS
<1>0. FoldTime \in Nat
  BY DeskAssumption DEF F!FoldAssumption
<1>1. F!NoEvent \in Arrival
  BY NoEventArrives
<1>2. /\ clock = 0 /\ nextSettle = 0 /\ events = <<>> /\ inHand = [s \in Slots |-> F!NoEvent]
      /\ swept.upTo = 0 /\ sweep.left = {} /\ sweep.at = 0
  BY DEF F!FoldInit, F!NoSweep
<1>3. FoldType
  BY <1>0, <1>1, <1>2 DEF FoldType
<1>4. SweepOwes
  BY <1>2 DEF SweepOwes, Owed
<1>. QED
  BY <1>3, <1>4 DEF FoldInv

\* A step records, begins a sweep, or tells: nothing owed is dropped.
LEMMA FoldStep ==
  ASSUME F!LookBack \in Nat, FoldInv, F!FoldNext \/ UNCHANGED F!foldVars
  PROVE  FoldInv'
<1>0. FoldTime \in Nat /\ FoldWindow \in Nat /\ FoldCeiling \in Nat
  BY DeskAssumption DEF F!FoldAssumption
<1>a. /\ clock \in 0..FoldTime /\ nextSettle \in 0..(FoldTime + 1)
      /\ events \in Seq(Recorded) /\ inHand \in [Slots -> Arrival]
      /\ \A s \in Slots : inHand[s] # F!NoEvent => inHand[s].at >= 0
      /\ swept.upTo \in 0..Len(events) /\ FoldType /\ SweepOwes
      /\ Len(events) \in Nat /\ DOMAIN events = 1..Len(events)
  BY DEF FoldInv, FoldType
<1>b. /\ sweep.left \subseteq {i \in DOMAIN events : ~events[i].recovery}
      /\ sweep.at # 0 => sweep.at \in sweep.left
      /\ \A i \in Nat : Owed(i) => i \in sweep.left \/ LatestFires
  BY <1>a DEF SweepOwes
<1>1. ASSUME NEW s \in Slots, NEW r \in BOOLEAN, F!Read(s, r) PROVE FoldInv'
  <2>1. PICK v \in {"folded", "pass"} :
          /\ inHand' = [inHand EXCEPT ![s] = [at |-> clock, recovery |-> r, verdict |-> v]]
          /\ UNCHANGED <<clock, events, sweep, nextSettle, swept>>
    BY <1>1 DEF F!Read
  <2>2. [at |-> clock, recovery |-> r, verdict |-> v] \in Arrival
    BY <1>0, <1>a DEF Arrival
  <2>3. /\ inHand' \in [Slots -> Arrival]
        /\ \A q \in Slots : inHand'[q] # F!NoEvent => inHand'[q].at >= 0
    BY <1>0, <1>a, <2>1, <2>2
  <2>4. FoldType'
    BY <1>a, <2>1, <2>3 DEF FoldType
  <2>5. SweepOwes'
    BY <1>b, <2>1 DEF SweepOwes, Owed, LatestFires
  <2>. QED
    BY <2>4, <2>5 DEF FoldInv
<1>2. ASSUME NEW s \in Slots, NEW o \in {"folded", "routed", "skipped"}, F!Record(s, o)
      PROVE  FoldInv'
  <2>. DEFINE n == Len(events) + 1
  <2>1. PICK e \in Recorded : events' = Append(events, e)
    <3>1. inHand[s].at \in 0..FoldTime /\ inHand[s].recovery \in BOOLEAN
      BY <1>0, <1>2, <1>a DEF F!Record, Arrival
    <3>2. [at |-> inHand[s].at, recovery |-> inHand[s].recovery, outcome |-> o] \in Recorded
      BY <3>1 DEF Recorded
    <3>. QED
      BY <1>2, <3>2 DEF F!Record
  <2>2. inHand' = [inHand EXCEPT ![s] = F!NoEvent] /\ UNCHANGED <<clock, sweep, nextSettle, swept>>
    BY <1>2 DEF F!Record
  <2>3. /\ DOMAIN events' = 1..n /\ n \in Nat /\ Len(events') = n /\ events' \in Seq(Recorded)
        /\ events'[n] = e /\ \A i \in DOMAIN events : events'[i] = events[i]
    BY <1>a, <2>1
  <2>4. F!NoEvent \in Arrival
    BY NoEventArrives
  <2>5. FoldType'
    BY <1>a, <2>2, <2>3, <2>4 DEF FoldType
  <2>6. ASSUME NEW i \in Nat, Owed(i)' PROVE Owed(i) /\ ~e.recovery
    <3>1. i \in DOMAIN events /\ i < n
      BY <1>a, <2>2, <2>6 DEF Owed
    <3>2. e.recovery = events'[n].recovery /\ n \in DOMAIN events'
      BY <2>3
    <3>3. ~events'[n].recovery
      BY <2>6, <3>1, <3>2 DEF Owed
    <3>4. \A j \in DOMAIN events : j > i => ~events[j].recovery
      BY <1>a, <2>3, <2>6 DEF Owed
    <3>. QED
      BY <2>2, <2>3, <2>6, <3>1, <3>2, <3>3, <3>4 DEF Owed
  <2>7. ASSUME LatestFires, ~e.recovery PROVE LatestFires'
    <3>. SUFFICES ASSUME NEW c \in DOMAIN events',
                         events'[c].outcome = "routed", events'[c].at >= clock - F!LookBack,
                         \A j \in DOMAIN events' : j > c => events'[j].outcome # "routed"
                  PROVE  ~events'[c].recovery
      BY <2>2 DEF LatestFires
    <3>1. CASE c = n
      BY <2>3, <2>7, <3>1
    <3>2. CASE c # n
      <4>1. c \in DOMAIN events /\ events'[c] = events[c]
        BY <1>a, <2>3, <3>2
      <4>2. \A j \in DOMAIN events : j > c => events[j].outcome # "routed"
        BY <1>a, <2>3
      <4>. QED
        BY <2>7, <4>1, <4>2 DEF LatestFires
    <3>. QED
      BY <3>1, <3>2
  <2>8. sweep'.left \subseteq {i \in DOMAIN events' : ~events'[i].recovery}
    BY <1>a, <1>b, <2>2, <2>3
  <2>9. SweepOwes'
    BY <1>b, <2>2, <2>6, <2>7, <2>8 DEF SweepOwes
  <2>. QED
    BY <2>5, <2>9 DEF FoldInv
<1>3. CASE F!SweepBegins
  <2>1. /\ nextSettle' = clock + 1 /\ sweep' = [left |-> F!Candidates, at |-> 0]
        /\ swept' = [now |-> clock, upTo |-> Len(events)] /\ UNCHANGED <<clock, events, inHand>>
    BY <1>3 DEF F!SweepBegins
  <2>2. FoldType'
    BY <1>0, <1>a, <2>1 DEF FoldType
  <2>3. \A i \in Nat : Owed(i)' => i \in sweep'.left
    BY <1>a, <2>1 DEF Owed, F!Candidates
  <2>4. sweep'.left \subseteq {i \in DOMAIN events' : ~events'[i].recovery} /\ sweep'.at = 0
    BY <2>1 DEF F!Candidates
  <2>5. SweepOwes'
    BY <2>3, <2>4 DEF SweepOwes
  <2>. QED
    BY <2>2, <2>5 DEF FoldInv
<1>4. CASE F!SweepReads
  <2>1. PICK i : /\ UNCHANGED <<clock, events, inHand, nextSettle, swept>>
                 /\ i = F!Min(sweep.left)
                 /\ sweep' = IF F!LastCardRecovers THEN [left |-> sweep.left, at |-> i]
                             ELSE [left |-> sweep.left \ {i}, at |-> 0]
    BY <1>4 DEF F!SweepReads
  <2>2. FoldType'
    BY <1>a, <2>1 DEF FoldType
  <2>3. \A j \in Nat : (Owed(j)' <=> Owed(j)) /\ LatestFires' = LatestFires
    BY <2>1 DEF Owed, LatestFires
  <2>4. CASE F!LastCardRecovers
    <3>1. i \in sweep.left
      <4>1. sweep.left # {} /\ sweep.left \subseteq 1..Len(events)
        BY <1>4, <1>a, <1>b DEF F!SweepReads
      <4>2. \E m \in sweep.left : \A j \in sweep.left : m <= j
        <5>1. sweep.left \in SUBSET Nat
          BY <1>a, <4>1
        <5>. QED
          BY <4>1, <5>1, SmallestOf
      <4>. QED
        BY <2>1, <4>2 DEF F!Min
    <3>2. sweep' = [left |-> sweep.left, at |-> i]
      BY <2>1, <2>4
    <3>3. SweepOwes'
      BY <1>b, <2>1, <2>3, <3>1, <3>2 DEF SweepOwes
    <3>. QED
      BY <2>2, <3>3 DEF FoldInv
  <2>5. CASE ~F!LastCardRecovers
    <3>1. LatestFires
      BY <1>a, <2>5, LastCardFires
    <3>2. sweep' = [left |-> sweep.left \ {i}, at |-> 0]
      BY <2>1, <2>5
    <3>3. \A j \in Nat : Owed(j)' => LatestFires'
      BY <2>3, <3>1
    <3>4. /\ sweep'.at = 0
          /\ sweep'.left \subseteq {j \in DOMAIN events' : ~events'[j].recovery}
      BY <1>b, <2>1, <3>2
    <3>5. SweepOwes'
      BY <3>3, <3>4 DEF SweepOwes
    <3>. QED
      BY <2>2, <3>5 DEF FoldInv
  <2>. QED
    BY <2>4, <2>5
<1>5. ASSUME NEW o \in {"routed", "skipped"}, F!SweepWrites(o) PROVE FoldInv'
  <2>1. PICK i : /\ i = sweep.at /\ i # 0 /\ UNCHANGED <<clock, inHand, nextSettle, swept>>
                 /\ events' = [events EXCEPT ![i].outcome =
                                 IF events[i].outcome = "folded" THEN o ELSE events[i].outcome]
                 /\ sweep' = [left |-> sweep.left \ {i}, at |-> 0]
    BY <1>5 DEF F!SweepWrites
  <2>2. i \in sweep.left /\ i \in DOMAIN events /\ ~events[i].recovery
    BY <1>b, <2>1
  <2>3. /\ events' \in Seq(Recorded) /\ Len(events') = Len(events) /\ DOMAIN events' = DOMAIN events
        /\ \A j \in DOMAIN events : j # i => events'[j] = events[j]
        /\ \A j \in DOMAIN events : /\ events'[j].recovery = events[j].recovery
                                    /\ events'[j].at = events[j].at
        /\ events'[i].outcome # "folded"
        /\ events[i].outcome # "folded" => events'[i].outcome = events[i].outcome
    <3>1. events[i] \in Recorded
      BY <1>a, <2>2
    <3>2. [events[i] EXCEPT !.outcome = IF events[i].outcome = "folded" THEN o ELSE events[i].outcome]
            \in Recorded
      BY <3>1 DEF Recorded
    <3>3. events' = [events EXCEPT ![i] = [events[i] EXCEPT !.outcome =
                       IF events[i].outcome = "folded" THEN o ELSE events[i].outcome]]
      BY <2>1
    <3>4. events' \in Seq(Recorded) /\ Len(events') = Len(events) /\ DOMAIN events' = DOMAIN events
      BY <1>a, <2>2, <3>2, <3>3
    <3>5. /\ events'[i].recovery = events[i].recovery /\ events'[i].at = events[i].at
          /\ events'[i].outcome = IF events[i].outcome = "folded" THEN o ELSE events[i].outcome
      BY <1>a, <2>2, <3>1, <3>3 DEF Recorded
    <3>6. \A j \in DOMAIN events : j # i => events'[j] = events[j]
      BY <1>a, <2>2, <3>3
    <3>. QED
      BY <3>4, <3>5, <3>6
  <2>4. FoldType'
    BY <1>a, <2>1, <2>3 DEF FoldType
  <2>5. ASSUME NEW j \in Nat, Owed(j)' PROVE Owed(j) /\ j # i
    <3>1. j \in DOMAIN events
      BY <1>a, <2>1, <2>5 DEF Owed
    <3>2. j # i
      BY <2>3, <2>5 DEF Owed
    <3>. QED
      BY <2>1, <2>3, <2>5, <3>1, <3>2 DEF Owed
  <2>6. ASSUME LatestFires PROVE LatestFires'
    <3>. SUFFICES ASSUME NEW c \in DOMAIN events',
                         events'[c].outcome = "routed", events'[c].at >= clock - F!LookBack,
                         \A j \in DOMAIN events' : j > c => events'[j].outcome # "routed"
                  PROVE  ~events'[c].recovery
      BY <2>1 DEF LatestFires
    <3>1. CASE c = i
      BY <2>2, <2>3, <3>1
    <3>2. CASE c # i
      <4>1. c \in DOMAIN events /\ events'[c] = events[c]
        BY <2>3, <3>2
      <4>2. \A j \in DOMAIN events : j > c => events[j].outcome # "routed"
        BY <2>3
      <4>. QED
        BY <2>6, <4>1, <4>2 DEF LatestFires
    <3>. QED
      BY <3>1, <3>2
  <2>7. sweep'.left \subseteq {j \in DOMAIN events' : ~events'[j].recovery} /\ sweep'.at = 0
    BY <1>b, <2>1, <2>3
  <2>8. \A j \in Nat : Owed(j)' => j \in sweep'.left \/ LatestFires'
    BY <1>b, <2>1, <2>5, <2>6
  <2>9. SweepOwes'
    BY <2>7, <2>8 DEF SweepOwes
  <2>. QED
    BY <2>4, <2>9 DEF FoldInv
<1>6. CASE F!Tick
  <2>1. clock' = clock + 1 /\ clock < FoldTime /\ UNCHANGED <<events, inHand, sweep, nextSettle, swept>>
    BY <1>6 DEF F!Tick
  <2>2. FoldType'
    BY <1>0, <1>a, <2>1 DEF FoldType
  <2>3. LatestFires => LatestFires'
    <3>1. ASSUME NEW c \in DOMAIN events PROVE events[c].at \in Int
      <4>1. events[c] \in Recorded
        BY <1>a, <3>1
      <4>. QED
        BY <4>1 DEF Recorded
    <3>2. F!LookBack \in Int /\ clock \in Int
      BY <1>0, <1>a
    <3>3. \A c \in DOMAIN events :
            events[c].at >= (clock + 1) - F!LookBack => events[c].at >= clock - F!LookBack
      BY <3>1, <3>2
    <3>. QED
      BY <2>1, <3>3 DEF LatestFires
  <2>4. SweepOwes'
    BY <1>b, <2>1, <2>3 DEF SweepOwes, Owed
  <2>. QED
    BY <2>2, <2>4 DEF FoldInv
<1>7. CASE UNCHANGED F!foldVars
  <2>1. UNCHANGED <<clock, events, inHand, sweep, nextSettle, swept>>
    BY <1>7 DEF F!foldVars
  <2>2. FoldType'
    BY <1>a, <2>1 DEF FoldType
  <2>3. SweepOwes'
    BY <1>b, <2>1 DEF SweepOwes, Owed, LatestFires
  <2>. QED
    BY <2>2, <2>3 DEF FoldInv
<1>. QED
  BY <1>1, <1>2, <1>3, <1>4, <1>5, <1>6, <1>7 DEF F!FoldNext

\* A condition that came back and stayed is told of, whatever fired, arrived or was
\* skipped meanwhile, for as long as its last card is within the sweep's look-back.
THEOREM FoldTellsOfFirings ==
  ASSUME F!LookBack \in Nat
  PROVE  DeskSpec => []FiringIsTold
<1>. DEFINE I == part = "fold" => FoldInv
<1>1. DeskInit => I
  BY FoldInit DEF DeskInit
<1>2. I /\ [DeskNext]_deskVars => I'
  BY FoldStep, StepOfPart
<1>3. I => FiringIsTold
  <2>. SUFFICES ASSUME FoldInv PROVE F!FiringIsTold
    BY DEF FiringIsTold
  <2>1. swept.upTo \in Nat /\ \A i \in Nat : Owed(i) => i \in sweep.left \/ LatestFires
    BY DEF FoldInv, FoldType, SweepOwes
  <2>. SUFFICES ASSUME sweep = F!NoSweep, NEW i \in 1..swept.upTo, Owed(i) PROVE LatestFires
    BY DEF F!FiringIsTold, Owed, LatestFires
  <2>3. i \notin sweep.left
    BY DEF F!NoSweep
  <2>. QED
    BY <2>1, <2>3
<1>. QED
  BY <1>1, <1>2, <1>3, PTL DEF DeskSpec
-----------------------------------------------------------------------------
(***************************************************************************)
(* Vigil: the second sending and the absence alarm.                        *)
(***************************************************************************)
\* Where the loop stands, and what it read of the clock and the source.
VigilPlace == [pc : {"idle", "cold", "stamp", "requeue", "absence", "claim", "alarm"},
               now : 0..VigilTime, last : -1..VigilTime]

\* The values the loop and its two stamps take.
VigilType ==
    /\ hour \in 0..VigilTime /\ spoke \in -1..VigilTime
    /\ alert \in [sent : BOOLEAN, touched : BOOLEAN, stamped : BOOLEAN]
    /\ again \in Nat /\ claimed \in BOOLEAN
    /\ alarms \in [0..VigilTime -> Nat]
    /\ loop \in VigilPlace

\* The stamp is written before the second sending.
EscalatedOnce ==
    /\ again <= 1 /\ (alert.stamped \/ again = 0)
    /\ loop.pc = "stamp" => ~alert.stamped
    /\ loop.pc = "requeue" => alert.stamped /\ again = 0

\* The claim is written before the alarm, and kept until the door has spoken.
AlarmedOnce ==
    /\ spoke <= hour /\ loop.now <= hour
    /\ loop.pc \in {"claim", "alarm"} => loop.last >= 0 /\ loop.now - loop.last > Expected
    /\ loop.pc = "claim" /\ alarms[loop.last] > 0 => claimed
    /\ loop.pc = "alarm" => claimed /\ alarms[loop.last] = 0
    /\ \A t \in 0..VigilTime :
         /\ alarms[t] <= 1
         /\ alarms[t] > 0 => hour - t > Expected
         /\ alarms[t] > 0 /\ t = spoke => claimed /\ (loop.pc # "idle" => loop.now - t > Expected)

\* The two stamps are written ahead of what they stand for.
VigilInv == VigilType /\ EscalatedOnce /\ AlarmedOnce

\* A loop that rests is in a place, and has read nothing.
LEMMA RestFacts ==
  ASSUME VigilTime \in Nat
  PROVE  /\ V!Rest \in VigilPlace /\ V!Rest.pc = "idle" /\ V!Rest.now = 0
         /\ 0 \in 0..VigilTime /\ -1 \in -1..VigilTime
<1>1. V!Rest = [pc |-> "idle", now |-> 0, last |-> -1]
  BY DEF V!Rest
<1>2. 0 \in 0..VigilTime /\ -1 \in -1..VigilTime
  OBVIOUS
<1>. QED
  BY <1>1, <1>2 DEF VigilPlace

\* So is a loop that begins its round.
LEMMA BeginsAt ==
  ASSUME VigilTime \in Nat, NEW n \in 0..VigilTime
  PROVE  [V!Rest EXCEPT !.pc = "cold", !.now = n] \in VigilPlace
<1>1. V!Rest \in VigilPlace
  BY RestFacts
<1>. HIDE DEF V!Rest
<1>. QED
  BY <1>1 DEF VigilPlace

\* Nothing is stamped, claimed or said.
LEMMA VigilInit == V!VigilInit => VigilInv
<1>. SUFFICES ASSUME V!VigilInit PROVE VigilInv
  OBVIOUS
<1>0. VigilTime \in Nat /\ Expected \in Nat \ {0}
  BY DeskAssumption DEF V!VigilAssumption
<1>1. /\ hour = 0 /\ alert = [sent |-> FALSE, touched |-> FALSE, stamped |-> FALSE]
      /\ again = 0 /\ spoke = -1 /\ claimed = FALSE
      /\ alarms = [t \in 0..VigilTime |-> 0] /\ loop = V!Rest
  BY DEF V!VigilInit
<1>2. VigilType
  BY <1>0, <1>1, RestFacts DEF VigilType
<1>3. EscalatedOnce
  BY <1>0, <1>1, RestFacts DEF EscalatedOnce
<1>4. AlarmedOnce
  BY <1>0, <1>1, RestFacts DEF AlarmedOnce
<1>. QED
  BY <1>2, <1>3, <1>4 DEF VigilInv

\* A death between the two writes loses a saying, and repeats none.
LEMMA VigilStep == VigilInv /\ (V!VigilNext \/ UNCHANGED V!vigilVars) => VigilInv'
<1>. SUFFICES ASSUME VigilType, EscalatedOnce, AlarmedOnce, V!VigilNext \/ UNCHANGED V!vigilVars
              PROVE  VigilType' /\ EscalatedOnce' /\ AlarmedOnce'
  BY DEF VigilInv
<1>. USE DEF VigilType, VigilPlace
<1>0. VigilTime \in Nat /\ Expected \in Nat \ {0}
  BY DeskAssumption DEF V!VigilAssumption
<1>1. CASE V!Hour
  <2>1. VigilType'
    BY <1>0, <1>1 DEF V!Hour
  <2>2. EscalatedOnce'
    BY <1>0, <1>1 DEF V!Hour, EscalatedOnce
  <2>3. AlarmedOnce'
    BY <1>0, <1>1 DEF V!Hour, AlarmedOnce
  <2>. QED
    BY <2>1, <2>2, <2>3
<1>2. CASE V!Delivered
  <2>1. VigilType'
    BY <1>0, <1>2 DEF V!Delivered
  <2>2. EscalatedOnce'
    BY <1>0, <1>2 DEF V!Delivered, EscalatedOnce
  <2>3. AlarmedOnce'
    BY <1>0, <1>2 DEF V!Delivered, AlarmedOnce
  <2>. QED
    BY <2>1, <2>2, <2>3
<1>3. CASE V!Touched
  <2>1. VigilType'
    BY <1>0, <1>3 DEF V!Touched
  <2>2. EscalatedOnce'
    BY <1>0, <1>3 DEF V!Touched, EscalatedOnce
  <2>3. AlarmedOnce'
    BY <1>0, <1>3 DEF V!Touched, AlarmedOnce
  <2>. QED
    BY <2>1, <2>2, <2>3
<1>4. CASE V!Speaks
  <2>1. VigilType'
    BY <1>0, <1>4 DEF V!Speaks
  <2>2. EscalatedOnce'
    BY <1>0, <1>4 DEF V!Speaks, EscalatedOnce
  <2>3. AlarmedOnce'
    BY <1>0, <1>4 DEF V!Speaks, AlarmedOnce
  <2>. QED
    BY <2>1, <2>2, <2>3
<1>5. CASE V!RelayRestarts
  <2>1. VigilType'
    BY <1>0, <1>5, RestFacts DEF V!RelayRestarts
  <2>2. EscalatedOnce'
    BY <1>0, <1>5, RestFacts DEF V!RelayRestarts, EscalatedOnce
  <2>3. AlarmedOnce'
    BY <1>0, <1>5, RestFacts DEF V!RelayRestarts, AlarmedOnce
  <2>. QED
    BY <2>1, <2>2, <2>3
<1>6. CASE V!Begin
  <2>1. VigilType'
    BY <1>0, <1>6, BeginsAt DEF V!Begin
  <2>2. EscalatedOnce'
    BY <1>0, <1>6 DEF V!Begin, V!Rest, EscalatedOnce
  <2>3. AlarmedOnce'
    BY <1>0, <1>6 DEF V!Begin, V!Rest, AlarmedOnce
  <2>. QED
    BY <2>1, <2>2, <2>3
<1>7. CASE V!ColdEvents
  <2>1. VigilType'
    BY <1>0, <1>7 DEF V!ColdEvents, V!At
  <2>2. EscalatedOnce'
    BY <1>0, <1>7 DEF V!ColdEvents, V!At, EscalatedOnce
  <2>3. AlarmedOnce'
    BY <1>0, <1>7 DEF V!ColdEvents, V!At, AlarmedOnce
  <2>. QED
    BY <2>1, <2>2, <2>3
<1>8. CASE V!MarkEscalated
  <2>1. VigilType'
    BY <1>0, <1>8 DEF V!MarkEscalated, V!At
  <2>2. EscalatedOnce'
    BY <1>0, <1>8 DEF V!MarkEscalated, V!At, EscalatedOnce
  <2>3. AlarmedOnce'
    BY <1>0, <1>8 DEF V!MarkEscalated, V!At, AlarmedOnce
  <2>. QED
    BY <2>1, <2>2, <2>3
<1>9. CASE V!EscalateCold
  <2>1. VigilType'
    BY <1>0, <1>9 DEF V!EscalateCold, V!At
  <2>2. EscalatedOnce'
    BY <1>0, <1>9 DEF V!EscalateCold, V!At, EscalatedOnce
  <2>3. AlarmedOnce'
    BY <1>0, <1>9 DEF V!EscalateCold, V!At, AlarmedOnce
  <2>. QED
    BY <2>1, <2>2, <2>3
<1>10. CASE V!LastEventAt
  <2>1. VigilType'
    BY <1>0, <1>10, RestFacts DEF V!LastEventAt
  <2>2. EscalatedOnce'
    BY <1>0, <1>10, RestFacts DEF V!LastEventAt, EscalatedOnce
  <2>3. AlarmedOnce'
    <3>1. CASE spoke # -1 /\ loop.now - spoke > Expected
      <4>1. spoke \in 0..VigilTime /\ loop' = [loop EXCEPT !.pc = "claim", !.last = spoke]
        BY <1>0, <1>10, <3>1 DEF V!LastEventAt
      <4>. QED
        BY <1>0, <1>10, <3>1, <4>1 DEF V!LastEventAt, AlarmedOnce
    <3>2. CASE ~(spoke # -1 /\ loop.now - spoke > Expected)
      <4>1. loop'.pc = "idle" /\ loop'.now = 0 /\ claimed' = (claimed /\ spoke = -1)
        BY <1>0, <1>10, <3>2, RestFacts DEF V!LastEventAt
      <4>2. \A t \in 0..VigilTime : t = spoke => alarms[t] = 0
        BY <1>0, <1>10, <3>2 DEF V!LastEventAt, AlarmedOnce
      <4>. QED
        BY <1>0, <1>10, <4>1, <4>2 DEF V!LastEventAt, AlarmedOnce
    <3>. QED
      BY <3>1, <3>2
  <2>. QED
    BY <2>1, <2>2, <2>3
<1>11. CASE V!ClaimAbsence
  <2>1. VigilType'
    BY <1>0, <1>11, RestFacts DEF V!ClaimAbsence, V!At
  <2>2. EscalatedOnce'
    BY <1>0, <1>11, RestFacts DEF V!ClaimAbsence, V!At, EscalatedOnce
  <2>3. AlarmedOnce'
    <3>1. CASE claimed
      <4>1. /\ loop'.pc = "idle" /\ loop'.now = 0 /\ claimed' = TRUE
            /\ hour' = hour /\ spoke' = spoke /\ alarms' = alarms
        BY <1>0, <1>11, <3>1, RestFacts DEF V!ClaimAbsence
      <4>. QED
        BY <1>0, <4>1 DEF AlarmedOnce
    <3>2. CASE ~claimed
      BY <1>0, <1>11, <3>2 DEF V!ClaimAbsence, V!At, AlarmedOnce
    <3>. QED
      BY <3>1, <3>2
  <2>. QED
    BY <2>1, <2>2, <2>3
<1>12. CASE V!AlarmAbsent
  <2>0. PICK t \in 0..VigilTime : /\ t = loop.last /\ alarms[t] = 0
                                 /\ claimed /\ hour - t > Expected
    BY <1>0, <1>12 DEF V!AlarmAbsent, AlarmedOnce
  <2>4. alarms' = [alarms EXCEPT ![t] = 1] /\ loop'.pc = "idle" /\ loop'.now = 0
    <3>1. alarms' = [alarms EXCEPT ![loop.last] = alarms[loop.last] + 1] /\ loop' = V!Rest
      BY <1>12 DEF V!AlarmAbsent
    <3>2. alarms[loop.last] + 1 = 1
      BY <2>0
    <3>. QED
      BY <1>0, <2>0, <3>1, <3>2, RestFacts
  <2>1. VigilType'
    BY <1>0, <1>12, <2>0, <2>4, RestFacts DEF V!AlarmAbsent
  <2>2. EscalatedOnce'
    BY <1>0, <1>12, RestFacts DEF V!AlarmAbsent, EscalatedOnce
  <2>3. AlarmedOnce'
    BY <1>0, <1>12, <2>0, <2>4, RestFacts DEF V!AlarmAbsent, AlarmedOnce
  <2>. QED
    BY <2>1, <2>2, <2>3
<1>13. CASE UNCHANGED V!vigilVars
  <2>1. VigilType'
    BY <1>0, <1>13 DEF V!vigilVars
  <2>2. EscalatedOnce'
    BY <1>0, <1>13 DEF V!vigilVars, EscalatedOnce
  <2>3. AlarmedOnce'
    BY <1>0, <1>13 DEF V!vigilVars, AlarmedOnce
  <2>. QED
    BY <2>1, <2>2, <2>3
<1>. QED
  BY <1>1, <1>2, <1>3, <1>4, <1>5, <1>6, <1>7, <1>8, <1>9, <1>10, <1>11, <1>12, <1>13 DEF V!VigilNext

\* Whoever dies between two writes, an alert is escalated once at most, and an
\* absence is said once.
THEOREM VigilSaysOnce == DeskSpec => []SaidOnce
<1>. DEFINE I == part = "vigil" => VigilInv
<1>1. DeskInit => I
  BY VigilInit DEF DeskInit
<1>2. I /\ [DeskNext]_deskVars => I'
  BY VigilStep, StepOfPart
<1>3. I => SaidOnce
  BY DEF SaidOnce, V!SaidOnce, VigilInv, VigilType, EscalatedOnce, AlarmedOnce
<1>. QED
  BY <1>1, <1>2, <1>3, PTL DEF DeskSpec
-----------------------------------------------------------------------------
(***************************************************************************)
(* Signer: the two newest rounds are counted side by side.                 *)
(***************************************************************************)
\* What a round has put through, or is putting through.
Taken(k) == {p \in Posts : post[p].key = k /\ post[p].at \in {"taken", "signed"}}

\* What a scan states of itself: its clock, and what it offers.
SignerOffer == [at : Int \cup {Unsaid}, offered : (SUBSET Topics) \cup {Unsaid}]

\* The values the clock, the scan and the posts take.
SignerType ==
    /\ now \in 0..SignTime
    /\ scan \in [this : SignerOffer, before : SignerOffer]
    /\ post \in [Posts -> [at : {"new", "denied", "checked", "taken", "signed"},
                           key : Int \cup {Unsaid}, level : {"asked", "low"}]]
    /\ \A p \in Posts : post[p].at \in {"checked", "taken", "signed"} => post[p].key \in Int

\* At most two rounds are counted.
CountsType ==
    /\ DOMAIN counts \subseteq Int
    /\ counts \in [DOMAIN counts -> 0..SignCeiling]
    /\ \E x, y \in Int : DOMAIN counts \subseteq {x, y}

\* Two rounds newer than k are counted.
Passed(k, D) == \E a, b \in D : a # b /\ a > k /\ b > k

\* A round that is counted put no more through than its count says, and a round
\* that put something through and is not counted any more never will be again.
RoundsCounted ==
    \A k \in Int :
        /\ IsFiniteSet(Taken(k)) /\ Cardinality(Taken(k)) <= SignCeiling
        /\ k \in DOMAIN counts => Cardinality(Taken(k)) <= counts[k]
        /\ k \notin DOMAIN counts => Taken(k) = {} \/ Passed(k, DOMAIN counts)

SignerInv == SignerType /\ CountsType /\ RoundsCounted

\* The size the signer counts by is the size the library's theorems speak of.
LEMMA SameSize == ASSUME NEW T PROVE S!Cardinality(T) = Cardinality(T)
  BY DEF S!Cardinality, Cardinality

\* A finite set has fewer than two members when no two of them differ.
LEMMA FewerThanTwo ==
  ASSUME NEW T, IsFiniteSet(T)
  PROVE  Cardinality(T) < 2 <=> \A a, b \in T : a = b
<1>1. ASSUME NEW a \in T, NEW b \in T, a # b PROVE Cardinality(T) >= 2
  <2>1. IsFiniteSet({a, b}) /\ Cardinality({a, b}) = 2
    <3>1. IsFiniteSet({a}) /\ Cardinality({a}) = 1
      BY FS_Singleton
    <3>2. {a, b} = {a} \cup {b} /\ b \notin {a}
      BY <1>1
    <3>3. IsFiniteSet({a} \cup {b}) /\ Cardinality({a} \cup {b}) = Cardinality({a}) + 1
      BY <3>1, <3>2, FS_AddElement
    <3>. QED
      BY <3>1, <3>2, <3>3
  <2>2. {a, b} \subseteq T
    OBVIOUS
  <2>3. Cardinality({a, b}) <= Cardinality(T)
    BY <2>2, FS_Subset
  <2>. QED
    BY <2>1, <2>3
<1>2. ASSUME \A a, b \in T : a = b PROVE Cardinality(T) < 2
  <2>1. CASE T = {}
    BY <2>1, FS_EmptySet
  <2>2. CASE T # {}
    <3>1. PICK a \in T : T = {a}
      BY <1>2, <2>2
    <3>2. Cardinality(T) = 1
      BY <3>1, FS_Singleton
    <3>. QED
      BY <3>2
  <2>. QED
    BY <2>1, <2>2
<1>3. Cardinality(T) \in Nat
  BY FS_CardinalityType
<1>4. (\E a, b \in T : a # b) => ~(Cardinality(T) < 2)
  BY <1>1, <1>3
<1>. QED
  BY <1>2, <1>4

\* The two newest of a set are those that no two members have passed.
LEMMA NewestTwo ==
  ASSUME NEW D \in SUBSET Int, IsFiniteSet(D)
  PROVE  S!Largest(D, 2) = {k \in D : ~Passed(k, D)}
<1>1. ASSUME NEW k \in D
      PROVE  Cardinality({j \in D : j > k}) < 2 <=> ~Passed(k, D)
  <2>1. IsFiniteSet({j \in D : j > k})
    <3>1. {j \in D : j > k} \subseteq D
      OBVIOUS
    <3>. QED
      BY <3>1, FS_Subset
  <2>2. Cardinality({j \in D : j > k}) < 2 <=> \A a, b \in {j \in D : j > k} : a = b
    BY <2>1, FewerThanTwo
  <2>. QED
    BY <2>2 DEF Passed
<1>2. S!Largest(D, 2) = {k \in D : Cardinality({j \in D : j > k}) < 2}
  BY SameSize DEF S!Largest
<1>. QED
  BY <1>1, <1>2

\* What the counter holds once round k is opened.
LEMMA OpenedCounts ==
  ASSUME CountsType, NEW k \in Int
  PROVE  /\ DOMAIN S!Opened(k) \subseteq Int
         /\ S!Opened(k) \in [DOMAIN S!Opened(k) -> 0..SignCeiling]
         /\ \E x, y \in Int : DOMAIN S!Opened(k) \subseteq {x, y}
         /\ \A j \in DOMAIN S!Opened(k) :
              IF j \in DOMAIN counts THEN S!Opened(k)[j] = counts[j] ELSE S!Opened(k)[j] = 0
         /\ DOMAIN S!Opened(k) \subseteq DOMAIN counts \cup {k}
         /\ \A j \in DOMAIN S!Opened(k) \ DOMAIN counts : ~Passed(j, DOMAIN counts)
         /\ \A j \in DOMAIN counts \ DOMAIN S!Opened(k) : Passed(j, DOMAIN S!Opened(k))
         /\ \A j \in Int : Passed(j, DOMAIN counts) => Passed(j, DOMAIN S!Opened(k))
<1>0. SignCeiling \in Nat
  BY DeskAssumption DEF S!SignerAssumption
<1>1. CASE k \in DOMAIN counts
  <2>1. S!Opened(k) = counts
    BY <1>1 DEF S!Opened
  <2>. QED
    BY <2>1 DEF CountsType
<1>2. CASE k \notin DOMAIN counts
  <2>. DEFINE D == DOMAIN counts \cup {k}
              T == S!Largest(D, 2)
  <2>0. PICK x \in Int, y \in Int : DOMAIN counts \subseteq {x, y}
    BY DEF CountsType
  <2>1. D \in SUBSET Int /\ IsFiniteSet(D)
    <3>1. IsFiniteSet({x, y, k})
      <4>1. IsFiniteSet({x} \cup {y})
        BY FS_Singleton, FS_Union
      <4>2. IsFiniteSet(({x} \cup {y}) \cup {k})
        BY <4>1, FS_Singleton, FS_Union
      <4>3. ({x} \cup {y}) \cup {k} = {x, y, k}
        OBVIOUS
      <4>. QED
        BY <4>2, <4>3
    <3>2. D \subseteq {x, y, k}
      BY <2>0
    <3>3. D \in SUBSET Int
      BY DEF CountsType
    <3>. QED
      BY <3>1, <3>2, <3>3, FS_Subset
  <2>2. T = {j \in D : ~Passed(j, D)}
    BY <2>1, NewestTwo
  <2>3. S!Opened(k) = [j \in T |-> IF j \in DOMAIN counts THEN counts[j] ELSE 0]
    BY <1>2 DEF S!Opened
  <2>4. /\ DOMAIN S!Opened(k) = T
        /\ \A j \in T : S!Opened(k)[j] = IF j \in DOMAIN counts THEN counts[j] ELSE 0
    BY <2>3
  <2>5. S!Opened(k) \in [T -> 0..SignCeiling]
    BY <1>0, <2>3 DEF CountsType
  <2>. HIDE DEF D, T
  <2>6. D \subseteq Int /\ T \subseteq D /\ D = DOMAIN counts \cup {k} /\ D \subseteq {x, y, k}
    BY <2>0, <2>1, <2>2 DEF D
  <2>7. ASSUME NEW j \in Int, Passed(j, D) PROVE Passed(j, T)
    <3>1. PICK a \in D, b \in D : a # b /\ a > j /\ b > j
      BY <2>7 DEF Passed
    <3>2. CASE a \in T /\ b \in T
      BY <3>1, <3>2 DEF Passed
    <3>3. ASSUME NEW e \in D, e > j, e \notin T PROVE Passed(j, T)
      <4>1. PICK c \in D, d \in D : c # d /\ c > e /\ d > e
        BY <2>2, <3>3 DEF Passed
      <4>2. c # e /\ d # e /\ c > j /\ d > j /\ {c, d, e} \subseteq Int
        BY <2>6, <3>3, <4>1
      <4>3. D = {c, d, e}
        BY <2>6, <4>1, <4>2
      <4>4. ~Passed(c, D) /\ ~Passed(d, D)
        BY <4>1, <4>2, <4>3 DEF Passed
      <4>5. c \in T /\ d \in T
        BY <2>2, <4>4
      <4>. QED
        BY <4>1, <4>2, <4>5 DEF Passed
    <3>. QED
      BY <3>1, <3>2, <3>3
  <2>8. \E u, v \in Int : T \subseteq {u, v}
    <3>1. ASSUME NEW u \in T, NEW v \in T, NEW w \in T, u # v, v # w, u # w PROVE FALSE
      <4>1. \A e \in {u, v, w} : e \in Int /\ e \in D /\ ~Passed(e, D)
        BY <2>2, <2>6
      <4>. QED
        BY <3>1, <4>1 DEF Passed
    <3>2. CASE T = {}
      BY <3>2
    <3>3. CASE T # {}
      <4>1. PICK u \in T : TRUE
        BY <3>3
      <4>2. CASE T \subseteq {u}
        BY <2>6, <4>2
      <4>3. CASE ~(T \subseteq {u})
        <5>1. PICK v \in T : v # u
          BY <4>3
        <5>2. T \subseteq {u, v}
          BY <3>1, <5>1
        <5>. QED
          BY <2>6, <5>2
      <4>. QED
        BY <4>2, <4>3
    <3>. QED
      BY <3>2, <3>3
  <2>9. \A j \in Int : Passed(j, DOMAIN counts) => Passed(j, D)
    BY <2>6 DEF Passed
  <2>10. \A j \in T \ DOMAIN counts : ~Passed(j, DOMAIN counts)
    BY <2>2, <2>6, <2>9
  <2>11. \A j \in DOMAIN counts \ T : Passed(j, T)
    BY <2>2, <2>6, <2>7
  <2>. QED
    BY <2>4, <2>5, <2>6, <2>7, <2>8, <2>9, <2>10, <2>11
<1>. QED
  BY <1>1, <1>2

\* The offer that is not there is one.
LEMMA OfferIsOne == S!Offer \in SignerOffer
<1>1. S!Offer = [at |-> Unsaid, offered |-> Unsaid]
  BY DEF S!Offer
<1>. QED
  BY <1>1 DEF SignerOffer

\* Nothing put through is within any count.
LEMMA NothingTaken ==
  ASSUME \A k \in Int : Taken(k) = {}, DOMAIN counts = {}
  PROVE  RoundsCounted
<1>1. ASSUME NEW k \in Int
      PROVE  /\ IsFiniteSet(Taken(k)) /\ Cardinality(Taken(k)) <= SignCeiling
             /\ k \in DOMAIN counts => Cardinality(Taken(k)) <= counts[k]
             /\ k \notin DOMAIN counts => Taken(k) = {} \/ Passed(k, DOMAIN counts)
  <2>1. Taken(k) = {} /\ IsFiniteSet(Taken(k)) /\ Cardinality(Taken(k)) = 0
    BY FS_EmptySet
  <2>2. SignCeiling \in Nat
    BY DeskAssumption DEF S!SignerAssumption
  <2>. QED
    BY <2>1, <2>2
<1>. QED
  BY <1>1 DEF RoundsCounted

\* A signer that starts has put nothing through.
LEMMA SignerInit == S!SignerInit => SignerInv
<1>. SUFFICES ASSUME S!SignerInit PROVE SignerInv
  OBVIOUS
<1>0. SignTime \in Nat /\ SignCeiling \in Nat
  BY DeskAssumption DEF S!SignerAssumption
<1>1. SignerType
  <2>1. S!Offer \in SignerOffer
    BY OfferIsOne
  <2>2. S!Fresh \in [at : {"new"}, key : Int \cup {Unsaid}, level : {"asked", "low"}]
    BY DEF S!Fresh
  <2>3. now = 0 /\ scan = [this |-> S!Offer, before |-> S!Offer] /\ post = [p \in Posts |-> S!Fresh]
    BY DEF S!SignerInit
  <2>. QED
    BY <1>0, <2>1, <2>2, <2>3 DEF SignerType
<1>2. CountsType
  BY DEF S!SignerInit, CountsType
<1>3. \A k \in Int : Taken(k) = {}
  BY DEF S!SignerInit, S!Fresh, Taken
<1>4. RoundsCounted
  <2>1. IsFiniteSet({}) /\ Cardinality({}) = 0
    BY FS_EmptySet
  <2>2. DOMAIN counts = {}
    BY DEF S!SignerInit
  <2>. QED
    BY <1>3, NothingTaken, <2>2
<1>. QED
  BY <1>1, <1>2, <1>4 DEF SignerInv

\* A post takes a slot of its round, or gives one back.
LEMMA SignerStep == SignerInv /\ (S!SignerNext \/ UNCHANGED S!signerVars) => SignerInv'
<1>. SUFFICES ASSUME SignerInv, S!SignerNext \/ UNCHANGED S!signerVars PROVE SignerInv'
  OBVIOUS
<1>0. SignTime \in Nat /\ SignCeiling \in Nat /\ SignWindow \in Nat \ {0}
  BY DeskAssumption DEF S!SignerAssumption
<1>. DEFINE PostType == [at : {"new", "denied", "checked", "taken", "signed"},
                         key : Int \cup {Unsaid}, level : {"asked", "low"}]
<1>a. /\ now \in 0..SignTime /\ scan \in [this : SignerOffer, before : SignerOffer]
      /\ post \in [Posts -> PostType]
      /\ \A p \in Posts : post[p].at \in {"checked", "taken", "signed"} => post[p].key \in Int
      /\ CountsType /\ RoundsCounted
  BY DEF SignerInv, SignerType
<1>b. S!Denied \in [at : {"denied"}, key : {Unsaid}, level : {"asked"}]
  BY DEF S!Denied, S!Fresh
<1>. HIDE DEF PostType
<1>1. ASSUME UNCHANGED <<counts, post>>, now' \in 0..SignTime, scan' \in [this : SignerOffer, before : SignerOffer]
      PROVE  SignerInv'
  <2>1. \A k : Taken(k)' = Taken(k)
    BY <1>1 DEF Taken
  <2>2. RoundsCounted'
    BY <1>1, <1>a, <2>1 DEF RoundsCounted, Passed
  <2>. QED
    BY <1>1, <1>a, <2>2 DEF SignerInv, SignerType, CountsType, PostType
<1>2. CASE S!PassTime
  <2>1. now' \in 0..SignTime /\ UNCHANGED <<scan, counts, post>>
    BY <1>0, <1>2, <1>a DEF S!PassTime
  <2>. QED
    BY <1>1, <1>a, <2>1
<1>3. CASE S!ScanLost
  <2>1. S!Offer \in SignerOffer
    BY OfferIsOne
  <2>2. scan' = [this |-> S!Offer, before |-> S!Offer] /\ UNCHANGED <<now, counts, post>>
    BY <1>3 DEF S!ScanLost
  <2>. QED
    BY <1>1, <1>a, <2>1, <2>2
<1>4. ASSUME NEW T \in SUBSET Topics, S!Scans(T) PROVE SignerInv'
  <2>1. scan' = [this |-> [at |-> now, offered |-> T], before |-> scan.this] /\ UNCHANGED <<now, counts, post>>
    BY <1>4 DEF S!Scans
  <2>2. [at |-> now, offered |-> T] \in SignerOffer
    BY <1>a DEF SignerOffer
  <2>. QED
    BY <1>1, <1>a, <2>1, <2>2
<1>5. ASSUME NEW p \in Posts, NEW w \in PostType, post' = [post EXCEPT ![p] = w],
             w.at \notin {"taken", "signed"}, w.at = "checked" => w.key \in Int,
             post[p].at \notin {"taken", "signed"}, UNCHANGED <<now, scan, counts>>
      PROVE  SignerInv'
  <2>1. \A k : Taken(k)' = Taken(k)
    BY <1>5, <1>a DEF Taken
  <2>2. RoundsCounted'
    BY <1>5, <1>a, <2>1 DEF RoundsCounted, Passed
  <2>3. post' \in [Posts -> PostType]
    BY <1>5, <1>a
  <2>4. \A q \in Posts : post'[q].at \in {"checked", "taken", "signed"} => post'[q].key \in Int
    BY <1>5, <1>a
  <2>5. CountsType'
    BY <1>5, <1>a DEF CountsType
  <2>. QED
    BY <1>5, <1>a, <2>2, <2>3, <2>4, <2>5 DEF SignerInv, SignerType, PostType
<1>6. ASSUME NEW p \in Posts, NEW s \in Topics \cup {"scanner-notes"}, S!Check(p, s) PROVE SignerInv'
  <2>1. post[p].at = "new" /\ UNCHANGED <<now, scan, counts>>
    BY <1>6 DEF S!Check
  <2>2. \A at \in Int \cup {Unsaid} : S!RoundKey(at) \in Int
    BY <1>0, <1>a DEF S!RoundKey
  <2>3. PICK at \in Int \cup {Unsaid}, l \in {"asked", "low"} :
          \/ post' = [post EXCEPT ![p] = [at |-> "checked", key |-> S!RoundKey(at), level |-> l]]
          \/ post' = [post EXCEPT ![p] = S!Denied]
    <3>1. scan.this.at \in Int \cup {Unsaid} /\ scan.before.at \in Int \cup {Unsaid}
      BY <1>a DEF SignerOffer
    <3>. QED
      BY <1>6, <3>1 DEF S!Check
  <2>4. CASE post' = [post EXCEPT ![p] = [at |-> "checked", key |-> S!RoundKey(at), level |-> l]]
    <3>. DEFINE w == [at |-> "checked", key |-> S!RoundKey(at), level |-> l]
    <3>1. w \in PostType /\ w.at = "checked" /\ w.key \in Int
      BY <2>2 DEF PostType
    <3>. HIDE DEF w
    <3>2. post' = [post EXCEPT ![p] = w]
      BY <2>4 DEF w
    <3>. QED
      BY <1>5, <2>1, <3>1, <3>2
  <2>5. CASE post' = [post EXCEPT ![p] = S!Denied]
    <3>1. S!Denied \in PostType /\ S!Denied.at = "denied"
      BY <1>b DEF PostType
    <3>. QED
      BY <1>5, <2>1, <2>5, <3>1
  <2>. QED
    BY <2>3, <2>4, <2>5
<1>7. ASSUME NEW p \in Posts, S!Malformed(p) PROVE SignerInv'
  <2>1. /\ post[p].at = "new" /\ UNCHANGED <<now, scan, counts>>
        /\ post' = [post EXCEPT ![p] = S!Denied]
    BY <1>7 DEF S!Malformed
  <2>2. S!Denied \in PostType /\ S!Denied.at = "denied"
    BY <1>b DEF PostType
  <2>. QED
    BY <1>5, <2>1, <2>2
<1>8. ASSUME NEW p \in Posts, S!Take(p) PROVE SignerInv'
  <2>0. PICK k \in Int : k = post[p].key
    BY <1>8, <1>a DEF S!Take
  <2>. DEFINE after == S!Opened(k)
  <2>1. /\ post[p].at = "checked" /\ post[p].key = k /\ UNCHANGED <<now, scan>>
        /\ \/ /\ k \in DOMAIN after /\ after[k] < SignCeiling
              /\ counts' = [after EXCEPT ![k] = after[k] + 1]
              /\ post' = [post EXCEPT ![p].at = "taken"]
           \/ counts' = after /\ post' = [post EXCEPT ![p] = S!Denied]
    BY <1>8, <2>0 DEF S!Take
  <2>2. /\ DOMAIN after \subseteq Int /\ after \in [DOMAIN after -> 0..SignCeiling]
        /\ \E x, y \in Int : DOMAIN after \subseteq {x, y}
        /\ \A j \in DOMAIN after :
             IF j \in DOMAIN counts THEN after[j] = counts[j] ELSE after[j] = 0
        /\ DOMAIN after \subseteq DOMAIN counts \cup {k}
        /\ \A j \in DOMAIN after \ DOMAIN counts : ~Passed(j, DOMAIN counts)
        /\ \A j \in DOMAIN counts \ DOMAIN after : Passed(j, DOMAIN after)
        /\ \A j \in Int : Passed(j, DOMAIN counts) => Passed(j, DOMAIN after)
    BY <1>a, OpenedCounts
  <2>. HIDE DEF after
  \* What was put through before, set against the counter as round k finds it.
  <2>3. \A j \in Int : /\ IsFiniteSet(Taken(j)) /\ Cardinality(Taken(j)) <= SignCeiling
                       /\ j \in DOMAIN after => Cardinality(Taken(j)) <= after[j]
                       /\ j \notin DOMAIN after => Taken(j) = {} \/ Passed(j, DOMAIN after)
    <3>. SUFFICES ASSUME NEW j \in Int
                  PROVE  /\ IsFiniteSet(Taken(j)) /\ Cardinality(Taken(j)) <= SignCeiling
                         /\ j \in DOMAIN after => Cardinality(Taken(j)) <= after[j]
                         /\ j \notin DOMAIN after => Taken(j) = {} \/ Passed(j, DOMAIN after)
      OBVIOUS
    <3>1. /\ IsFiniteSet(Taken(j)) /\ Cardinality(Taken(j)) <= SignCeiling
          /\ j \in DOMAIN counts => Cardinality(Taken(j)) <= counts[j]
          /\ j \notin DOMAIN counts => Taken(j) = {} \/ Passed(j, DOMAIN counts)
      BY <1>a DEF RoundsCounted
    <3>2. Cardinality({}) = 0
      BY FS_EmptySet
    <3>3. ASSUME j \in DOMAIN after PROVE Cardinality(Taken(j)) <= after[j]
      <4>1. CASE j \in DOMAIN counts
        BY <2>2, <3>1, <3>3, <4>1
      <4>2. CASE j \notin DOMAIN counts
        BY <2>2, <3>1, <3>2, <3>3, <4>2
      <4>. QED
        BY <4>1, <4>2
    <3>4. ASSUME j \notin DOMAIN after PROVE Taken(j) = {} \/ Passed(j, DOMAIN after)
      BY <2>2, <3>1, <3>4
    <3>. QED
      BY <3>1, <3>3, <3>4
  <2>4. CASE counts' = after /\ post' = [post EXCEPT ![p] = S!Denied]
    <3>1. S!Denied \in PostType /\ S!Denied.at = "denied"
      BY <1>b DEF PostType
    <3>2. \A j : Taken(j)' = Taken(j)
      BY <1>a, <2>1, <2>4, <3>1 DEF Taken
    <3>3. RoundsCounted'
      BY <2>3, <2>4, <3>2 DEF RoundsCounted
    <3>4. CountsType'
      BY <2>2, <2>4 DEF CountsType
    <3>5. /\ post' \in [Posts -> PostType]
          /\ \A q \in Posts : post'[q].at \in {"checked", "taken", "signed"} => post'[q].key \in Int
      BY <1>a, <2>4, <3>1
    <3>. QED
      BY <1>a, <2>1, <3>3, <3>4, <3>5 DEF SignerInv, SignerType, PostType
  <2>5. CASE /\ k \in DOMAIN after /\ after[k] < SignCeiling
             /\ counts' = [after EXCEPT ![k] = after[k] + 1]
             /\ post' = [post EXCEPT ![p].at = "taken"]
    <3>1. /\ post' \in [Posts -> PostType] /\ post'[p].at = "taken" /\ post'[p].key = k
          /\ \A q \in Posts \ {p} : post'[q] = post[q]
      BY <1>a, <2>1, <2>5 DEF PostType
    <3>2. \A q \in Posts : post'[q].at \in {"checked", "taken", "signed"} => post'[q].key \in Int
      BY <1>a, <3>1
    <3>3. Taken(k)' = Taken(k) \cup {p} /\ p \notin Taken(k) /\ \A j \in Int \ {k} : Taken(j)' = Taken(j)
      BY <2>1, <3>1 DEF Taken
    <3>4. IsFiniteSet(Taken(k)') /\ Cardinality(Taken(k)') = Cardinality(Taken(k)) + 1
      BY <2>3, <3>3, FS_AddElement
    <3>5. /\ DOMAIN counts' = DOMAIN after /\ counts'[k] = after[k] + 1
          /\ \A j \in DOMAIN after \ {k} : counts'[j] = after[j]
          /\ counts' \in [DOMAIN after -> 0..SignCeiling]
      BY <1>0, <2>2, <2>5
    <3>6. CountsType'
      BY <2>2, <3>5 DEF CountsType
    <3>7. Cardinality(Taken(k)) \in Nat /\ after[k] \in Nat /\ Cardinality(Taken(k)) <= after[k]
      BY <2>2, <2>3, <2>5, FS_CardinalityType
    <3>8. RoundsCounted'
      <4>1. ASSUME NEW j \in Int
            PROVE  /\ IsFiniteSet(Taken(j)') /\ Cardinality(Taken(j)') <= SignCeiling
                   /\ j \in DOMAIN counts' => Cardinality(Taken(j)') <= counts'[j]
                   /\ j \notin DOMAIN counts' => Taken(j)' = {} \/ Passed(j, DOMAIN counts')
        <5>1. CASE j = k
          BY <1>0, <2>5, <3>4, <3>5, <3>7, <5>1
        <5>2. CASE j # k
          BY <2>3, <3>3, <3>5, <5>2
        <5>. QED
          BY <5>1, <5>2
      <4>. QED
        BY <4>1 DEF RoundsCounted
    <3>. QED
      BY <1>a, <2>1, <3>1, <3>2, <3>6, <3>8 DEF SignerInv, SignerType, PostType
  <2>. QED
    BY <2>1, <2>4, <2>5
<1>9. ASSUME NEW p \in Posts, S!Answered(p) PROVE SignerInv'
  <2>0. PICK k \in Int : k = post[p].key /\ post[p].at = "taken"
    BY <1>9, <1>a DEF S!Answered
  <2>1. /\ UNCHANGED <<now, scan>>
        /\ \/ post' = [post EXCEPT ![p].at = "signed"] /\ counts' = counts
           \/ post' = [post EXCEPT ![p] = S!Denied] /\ counts' = S!Refund(k)
    BY <1>9, <2>0 DEF S!Answered
  <2>2. CASE post' = [post EXCEPT ![p].at = "signed"] /\ counts' = counts
    <3>1. /\ post' \in [Posts -> PostType] /\ post'[p].at = "signed" /\ post'[p].key = k
          /\ \A q \in Posts \ {p} : post'[q] = post[q]
      BY <1>a, <2>0, <2>2 DEF PostType
    <3>2. \A j : Taken(j)' = Taken(j)
      BY <2>0, <3>1 DEF Taken
    <3>3. RoundsCounted' /\ CountsType'
      BY <1>a, <2>2, <3>2 DEF RoundsCounted, CountsType
    <3>4. \A q \in Posts : post'[q].at \in {"checked", "taken", "signed"} => post'[q].key \in Int
      BY <1>a, <3>1
    <3>. QED
      BY <1>a, <2>1, <3>1, <3>3, <3>4 DEF SignerInv, SignerType, PostType
  <2>3. CASE post' = [post EXCEPT ![p] = S!Denied] /\ counts' = S!Refund(k)
    <3>1. S!Denied \in PostType /\ S!Denied.at = "denied"
      BY <1>b DEF PostType
    <3>2. /\ post' \in [Posts -> PostType] /\ post'[p].at = "denied"
          /\ \A q \in Posts \ {p} : post'[q] = post[q]
      BY <1>a, <2>3, <3>1
    <3>3. \A q \in Posts : post'[q].at \in {"checked", "taken", "signed"} => post'[q].key \in Int
      BY <1>a, <3>2
    <3>4. Taken(k)' = Taken(k) \ {p} /\ p \in Taken(k) /\ \A j \in Int \ {k} : Taken(j)' = Taken(j)
      BY <2>0, <3>2 DEF Taken
    <3>5. /\ IsFiniteSet(Taken(k)') /\ Cardinality(Taken(k)') = Cardinality(Taken(k)) - 1
          /\ Cardinality(Taken(k)) \in Nat
      BY <1>a, <3>4, FS_RemoveElement, FS_CardinalityType DEF RoundsCounted
    <3>6. /\ DOMAIN counts' = DOMAIN counts
          /\ counts' \in [DOMAIN counts -> 0..SignCeiling]
          /\ \A j \in DOMAIN counts \ {k} : counts'[j] = counts[j]
          /\ k \in DOMAIN counts => counts'[k] >= counts[k] - 1
      <4>1. counts \in [DOMAIN counts -> 0..SignCeiling]
        BY <1>a DEF CountsType
      <4>2. CASE k \in DOMAIN counts /\ counts[k] > 0
        <5>1. counts' = [counts EXCEPT ![k] = counts[k] - 1] /\ counts[k] - 1 \in 0..SignCeiling
          BY <1>0, <2>3, <4>1, <4>2 DEF S!Refund
        <5>. QED
          BY <1>0, <4>1, <4>2, <5>1
      <4>3. CASE ~(k \in DOMAIN counts /\ counts[k] > 0)
        <5>1. counts' = counts
          BY <2>3, <4>3 DEF S!Refund
        <5>. QED
          BY <1>0, <4>1, <5>1
      <4>. QED
        BY <4>2, <4>3
    <3>7. CountsType'
      BY <1>a, <3>6 DEF CountsType
    <3>8. RoundsCounted'
      <4>1. ASSUME NEW j \in Int
            PROVE  /\ IsFiniteSet(Taken(j)') /\ Cardinality(Taken(j)') <= SignCeiling
                   /\ j \in DOMAIN counts' => Cardinality(Taken(j)') <= counts'[j]
                   /\ j \notin DOMAIN counts' => Taken(j)' = {} \/ Passed(j, DOMAIN counts')
        <5>1. /\ Cardinality(Taken(j)) <= SignCeiling
              /\ j \in DOMAIN counts => Cardinality(Taken(j)) <= counts[j] /\ counts[j] \in Int
              /\ j \notin DOMAIN counts => Taken(j) = {} \/ Passed(j, DOMAIN counts)
              /\ IsFiniteSet(Taken(j))
          BY <1>a DEF RoundsCounted, CountsType
        <5>2. CASE j = k
          <6>1. k \in DOMAIN counts => counts'[k] \in Int
            BY <3>6
          <6>2. CASE k \in DOMAIN counts
            <7>1. Cardinality(Taken(k)) <= counts[k] /\ counts[k] \in Int
              BY <5>1, <5>2, <6>2
            <7>. QED
              BY <1>0, <3>5, <3>6, <5>1, <5>2, <6>1, <6>2, <7>1
          <6>3. CASE k \notin DOMAIN counts
            <7>1. Taken(k) # {}
              BY <3>4
            <7>2. Passed(k, DOMAIN counts')
              BY <3>6, <5>1, <5>2, <6>3, <7>1
            <7>. QED
              BY <1>0, <3>5, <3>6, <5>1, <5>2, <6>3, <7>2
          <6>. QED
            BY <6>2, <6>3
        <5>3. CASE j # k
          BY <3>4, <3>6, <5>1, <5>3
        <5>. QED
          BY <5>2, <5>3
      <4>. QED
        BY <4>1 DEF RoundsCounted
    <3>. QED
      BY <1>a, <2>1, <3>2, <3>3, <3>7, <3>8 DEF SignerInv, SignerType, PostType
  <2>. QED
    BY <2>1, <2>2, <2>3
<1>10. CASE S!SignerRestarts
  <2>1. /\ counts' = <<>> /\ UNCHANGED <<now, scan>>
        /\ post' = [p \in Posts |-> IF post[p].at = "new" THEN S!Fresh ELSE S!Denied]
    BY <1>10 DEF S!SignerRestarts
  <2>2. /\ S!Denied \in PostType /\ S!Denied.at = "denied"
        /\ S!Fresh \in PostType /\ S!Fresh.at = "new"
    BY <1>b DEF PostType, S!Fresh
  <2>3. /\ post' \in [Posts -> PostType] /\ \A p \in Posts : post'[p].at \in {"new", "denied"}
    BY <2>1, <2>2
  <2>4. \A k : Taken(k)' = {}
    BY <2>3 DEF Taken
  <2>5. IsFiniteSet({}) /\ Cardinality({}) = 0 /\ DOMAIN counts' = {}
    BY <2>1, FS_EmptySet
  <2>6. RoundsCounted'
    <3>1. ASSUME NEW k \in Int
          PROVE  /\ IsFiniteSet(Taken(k)') /\ Cardinality(Taken(k)') <= SignCeiling
                 /\ k \in DOMAIN counts' => Cardinality(Taken(k)') <= counts'[k]
                 /\ k \notin DOMAIN counts' => Taken(k)' = {} \/ Passed(k, DOMAIN counts')
      <4>1. Taken(k)' = {} /\ IsFiniteSet(Taken(k)') /\ Cardinality(Taken(k)') = 0
        BY <2>4, <2>5
      <4>. QED
        BY <1>0, <2>5, <4>1
    <3>. QED
      BY <3>1 DEF RoundsCounted
  <2>7. CountsType'
    BY <2>1 DEF CountsType
  <2>. QED
    BY <1>a, <2>1, <2>3, <2>6, <2>7 DEF SignerInv, SignerType, PostType
<1>11. CASE UNCHANGED S!signerVars
  <2>1. UNCHANGED <<now, scan, counts, post>>
    BY <1>11 DEF S!signerVars
  <2>. QED
    BY <1>1, <1>a, <2>1
<1>. QED
  BY <1>2, <1>3, <1>4, <1>6, <1>7, <1>8, <1>9, <1>10, <1>11 DEF S!SignerNext

\* However late posts, refunds and rounds that come and go interleave, no round
\* puts more through than its ceiling.
THEOREM SignerKeepsCeiling == DeskSpec => []CeilingHolds
<1>. DEFINE I == part = "signer" => SignerInv
<1>1. DeskInit => I
  BY SignerInit DEF DeskInit
<1>2. I /\ [DeskNext]_deskVars => I'
  BY SignerStep, StepOfPart
<1>3. I => CeilingHolds
  <2>. SUFFICES ASSUME SignerInv PROVE S!CeilingHolds
    BY DEF CeilingHolds
  <2>1. \A k \in {post[p].key : p \in Posts} \ {Unsaid} : k \in Int
    BY DEF SignerInv, SignerType
  <2>2. \A k : {p \in S!OfRound(k) : post[p].at \in {"taken", "signed"}} = Taken(k)
    BY DEF S!OfRound, Taken
  <2>3. \A k \in Int : Cardinality(Taken(k)) <= SignCeiling
    BY DEF SignerInv, RoundsCounted
  <2>. SUFFICES ASSUME NEW k \in {post[p].key : p \in Posts} \ {Unsaid}
                PROVE  Cardinality({p \in S!OfRound(k) : post[p].at \in {"taken", "signed"}}) <= SignCeiling
    BY SameSize DEF S!CeilingHolds
  <2>4. k \in Int
    BY <2>1
  <2>5. {p \in S!OfRound(k) : post[p].at \in {"taken", "signed"}} = Taken(k)
    BY <2>2
  <2>. QED
    BY <2>3, <2>4, <2>5
<1>. QED
  BY <1>1, <1>2, <1>3, PTL DEF DeskSpec
-----------------------------------------------------------------------------
(***************************************************************************)
(* Tool gate: the rows and what reached the tools.                         *)
(***************************************************************************)
\* Nothing is written of a batch, and nothing of it arrived, before it is judged
\* and relayed; what was relayed arrived whole or not at all.
GateInv ==
    /\ message \in [pc : {"new", "relay", "waiting", "lost", "over", "died"}, batch : SUBSET E!Items]
    /\ message.pc \in {"new", "relay", "lost"} => ledger = {} /\ reached = {}
    /\ message.pc = "waiting" => ledger = {} /\ reached = message.batch
    /\ E!RowsTellWhatReached

\* No message has come.
LEMMA GateInit == E!GateInit => GateInv
BY DEF E!GateInit, E!RowsTellWhatReached, E!Calls, GateInv

\* A row is written, if it can be, when it is known what reached the server.
LEMMA GateStep == GateInv /\ (E!GateNext \/ UNCHANGED E!gateVars) => GateInv'
<1>. SUFFICES ASSUME GateInv, E!GateNext \/ UNCHANGED E!gateVars PROVE GateInv'
  OBVIOUS
<1>1. CASE E!Unauthorized
  BY <1>1 DEF E!Unauthorized, GateInv, E!RowsTellWhatReached, E!Calls
<1>2. CASE E!GateDies
  BY <1>2 DEF E!GateDies, GateInv, E!RowsTellWhatReached, E!Calls
<1>3. ASSUME NEW M \in SUBSET E!Items, E!Judge(M) PROVE GateInv'
  <2>1. CASE E!Refused(M) = {}
    BY <1>3, <2>1 DEF E!Judge, GateInv, E!RowsTellWhatReached, E!Calls
  <2>2. CASE E!Refused(M) # {}
    <3>1. /\ message' = [pc |-> "over", batch |-> M] /\ reached' = {}
          /\ ledger' \subseteq E!Rows({i \in M : i.ask = "barred"}, "refused") \cup E!Rows(E!Calls(M), "withheld")
      BY <1>3, <2>2 DEF E!Judge, E!Write, GateInv
    <3>2. \A row \in ledger' : row.event \in {"refused", "withheld"}
      BY <3>1 DEF E!Rows
    <3>. QED
      BY <3>1, <3>2 DEF GateInv, E!RowsTellWhatReached, E!Calls
  <2>. QED
    BY <2>1, <2>2
<1>4. ASSUME NEW arrives \in BOOLEAN, E!Relay(arrives) PROVE GateInv'
  <2>1. /\ message' = [message EXCEPT !.pc = IF arrives THEN "waiting" ELSE "lost"]
        /\ ledger' = {} /\ reached' = IF arrives THEN message.batch ELSE {}
    BY <1>4 DEF E!Relay, GateInv
  <2>. QED
    BY <2>1 DEF GateInv, E!RowsTellWhatReached, E!Calls
<1>5. ASSUME NEW how \in {"answered", "failed"}, E!Relayed(how) PROVE GateInv'
  <2>. DEFINE e == IF how = "answered" THEN "forwarded" ELSE "failed"
  <2>1. /\ message' = [message EXCEPT !.pc = "over"] /\ reached' = reached
        /\ reached = message.batch \/ (reached = {} /\ e = "failed")
        /\ ledger = {} /\ E!Write(E!Rows(E!Calls(message.batch), e))
    BY <1>5 DEF E!Relayed, GateInv
  <2>2. e \in {"forwarded", "failed"}
    OBVIOUS
  <2>. HIDE DEF e
  <2>3. \A row \in ledger' : row.item \in E!Calls(message.batch) /\ row.event = e
    BY <2>1 DEF E!Rows, E!Write
  <2>4. \A i \in E!Calls(message.batch) : [item |-> i, event |-> e] \in ledger' \/ i \in unlogged'
    <3>1. PICK lost \in SUBSET E!Rows(E!Calls(message.batch), e) :
             /\ ledger' = ledger \cup (E!Rows(E!Calls(message.batch), e) \ lost)
             /\ unlogged' = unlogged \cup {row.item : row \in lost}
      BY <2>1 DEF E!Write
    <3>. SUFFICES ASSUME NEW i \in E!Calls(message.batch)
                  PROVE  [item |-> i, event |-> e] \in ledger' \/ i \in unlogged'
      OBVIOUS
    <3>2. [item |-> i, event |-> e] \in E!Rows(E!Calls(message.batch), e)
      BY DEF E!Rows
    <3>3. [item |-> i, event |-> e].item = i
      OBVIOUS
    <3>. QED
      BY <3>1, <3>2, <3>3
  <2>5. E!Calls(message.batch) \subseteq message.batch
    BY DEF E!Calls
  <2>6. \A i \in E!Calls(reached) : i \in E!Calls(message.batch)
    BY <2>1 DEF E!Calls
  <2>7. \A i \in E!Calls(reached') \ unlogged' : \E row \in ledger' : row.item = i /\ row.event \in {"forwarded", "failed"}
    BY <2>1, <2>2, <2>4, <2>6
  <2>8. \A row \in ledger' : /\ row.event = "forwarded" => row.item \in reached'
                             /\ row.event \notin {"refused", "withheld"}
    BY <2>1, <2>2, <2>3, <2>5
  <2>9. E!RowsTellWhatReached'
    BY <2>7, <2>8 DEF E!RowsTellWhatReached, E!Calls
  <2>. QED
    BY <2>1, <2>9 DEF GateInv
<1>6. CASE UNCHANGED E!gateVars
  BY <1>6 DEF E!gateVars, GateInv, E!RowsTellWhatReached, E!Calls
<1>. QED
  BY <1>1, <1>2, <1>3, <1>4, <1>5, <1>6 DEF E!GateNext

\* The gate's rows and what reached the server agree, whatever is cut or lost; of a
\* call that got there the row is missing only if it could not be written.
THEOREM GateRowsAreTrue == DeskSpec => []RowsTellWhatReached
<1>. DEFINE I == part = "gate" => GateInv
<1>1. DeskInit => I
  BY GateInit DEF DeskInit
<1>2. I /\ [DeskNext]_deskVars => I'
  BY GateStep, StepOfPart
<1>3. I => RowsTellWhatReached
  BY DEF RowsTellWhatReached, GateInv
<1>. QED
  BY <1>1, <1>2, <1>3, PTL DEF DeskSpec
-----------------------------------------------------------------------------
(***************************************************************************)
(* Proxy: what is dialled.                                                 *)
(***************************************************************************)
\* What a host may be dialled as is settled between the lookup and the dialling:
\* the addresses still to try are those that were vetted.
EgressInv ==
    /\ resolver \in Seq(E!Addrs)
    /\ conn \in [pc : {"new", "refused", "listed", "vetted", "spliced", "closed"},
                 host : Hosts \cup {"none"}, todo : Seq(E!Addrs)]
    /\ conn.pc \in {"listed", "vetted"} => conn.host \in Peers \cup ListedHosts
    /\ conn.pc = "vetted" => \A k \in 1..Len(conn.todo) : conn.todo[k] \in E!MayPoint(conn.host)
    /\ E!DialledWasVetted

\* No lookup has been made.
LEMMA EgressInit == E!EgressInit => EgressInv
BY DEF E!EgressInit, E!NoConn, E!DialledWasVetted, EgressInv

\* What is dialled is the head of a vetted list, whatever the name says by then.
LEMMA EgressStep == EgressInv /\ (E!EgressNext \/ UNCHANGED E!egressVars) => EgressInv'
<1>. SUFFICES ASSUME EgressInv, E!EgressNext \/ UNCHANGED E!egressVars PROVE EgressInv'
  OBVIOUS
<1>1. CASE E!Resolve
  <2>1. CASE resolver # <<>> /\ \A k \in DOMAIN resolver : resolver[k] \in E!MayPoint(conn.host)
    <3>1. /\ conn' = [conn EXCEPT !.pc = "vetted", !.todo = resolver] /\ conn.pc = "listed"
          /\ UNCHANGED <<resolver, dialled>>
      BY <1>1, <2>1 DEF E!Resolve
    <3>2. /\ conn'.pc = "vetted" /\ conn'.host = conn.host /\ conn'.todo = resolver
          /\ conn' \in [pc : {"new", "refused", "listed", "vetted", "spliced", "closed"},
                        host : Hosts \cup {"none"}, todo : Seq(E!Addrs)]
      BY <3>1 DEF EgressInv
    <3>. QED
      BY <2>1, <3>1, <3>2 DEF EgressInv, E!DialledWasVetted, E!MayPoint
  <2>2. CASE ~(resolver # <<>> /\ \A k \in DOMAIN resolver : resolver[k] \in E!MayPoint(conn.host))
    BY <1>1, <2>2 DEF E!Resolve, EgressInv, E!DialledWasVetted, E!MayPoint
  <2>. QED
    BY <2>1, <2>2
<1>2. ASSUME NEW yes \in BOOLEAN, E!Connect(yes) PROVE EgressInv'
  <2>. DEFINE t == IF yes THEN <<>> ELSE Tail(conn.todo)
  <2>1. /\ conn.pc = "vetted" /\ conn.todo \in Seq(E!Addrs) /\ conn.todo # <<>>
        /\ conn.host \in Peers \cup ListedHosts
        /\ dialled' = dialled \cup {[host |-> conn.host, addr |-> Head(conn.todo)]}
        /\ Head(conn.todo) = conn.todo[1] /\ Len(conn.todo) \in Nat \ {0}
    BY <1>2 DEF E!Connect, EgressInv
  <2>2. t \in Seq(E!Addrs) /\ \A k \in 1..Len(t) : k + 1 \in 1..Len(conn.todo) /\ t[k] = conn.todo[k + 1]
    BY <2>1
  <2>3. conn' = [conn EXCEPT !.pc = IF yes THEN "spliced"
                                    ELSE IF Len(conn.todo) = 1 THEN "refused" ELSE "vetted",
                             !.todo = t]
    BY <1>2 DEF E!Connect
  <2>4. \A k \in 1..Len(t) : t[k] \in E!MayPoint(conn.host)
    BY <2>1, <2>2 DEF EgressInv
  <2>5. Head(conn.todo) \in E!MayPoint(conn.host)
    BY <2>1 DEF EgressInv
  <2>. HIDE DEF t
  <2>6. E!DialledWasVetted'
    BY <2>1, <2>5 DEF E!DialledWasVetted, E!MayPoint, EgressInv
  <2>. QED
    BY <1>2, <2>1, <2>2, <2>3, <2>4, <2>6 DEF E!Connect, EgressInv, E!MayPoint
<1>3. ASSUME NEW s \in E!Answers, E!Rebind(s) PROVE EgressInv'
  <2>1. s \in Seq(E!Addrs)
    BY DEF E!Answers
  <2>. QED
    BY <1>3, <2>1 DEF E!Rebind, EgressInv, E!DialledWasVetted, E!MayPoint
<1>4. ASSUME NEW h \in Hosts, NEW strange \in BOOLEAN, E!Decide(h, strange) PROVE EgressInv'
  <2>1. conn' = [E!NoConn EXCEPT !.host = h, !.pc =
                   IF strange \/ h \notin Peers \cup ListedHosts THEN "refused" ELSE "listed"]
        /\ UNCHANGED <<resolver, dialled>>
    BY <1>4 DEF E!Decide
  <2>2. E!NoConn \in [pc : {"new"}, host : {"none"}, todo : Seq(E!Addrs)]
    BY DEF E!NoConn
  <2>3. /\ conn' \in [pc : {"refused", "listed"}, host : Hosts, todo : Seq(E!Addrs)]
        /\ conn'.pc = "listed" => conn'.host \in Peers \cup ListedHosts
    BY <2>1, <2>2
  <2>. QED
    BY <2>1, <2>3 DEF EgressInv, E!DialledWasVetted, E!MayPoint
<1>5. CASE E!Splice \/ UNCHANGED E!egressVars
  BY <1>5 DEF E!Splice, E!egressVars, EgressInv, E!DialledWasVetted, E!MayPoint
<1>. QED
  BY <1>1, <1>2, <1>3, <1>4, <1>5 DEF E!EgressNext

\* The proxy opens a socket only to an address where the name may point.
THEOREM EgressDialsVetted == DeskSpec => []DialledWasVetted
<1>. DEFINE I == part = "egress" => EgressInv
<1>1. DeskInit => I
  BY EgressInit DEF DeskInit
<1>2. I /\ [DeskNext]_deskVars => I'
  BY EgressStep, StepOfPart
<1>3. I => DialledWasVetted
  BY DEF DialledWasVetted, EgressInv
<1>. QED
  BY <1>1, <1>2, <1>3, PTL DEF DeskSpec
-----------------------------------------------------------------------------
(***************************************************************************)
(* Bridge: how often the bus is recycled.                                  *)
(***************************************************************************)
\* The clock of the silence starts again with every recycle, so it never runs
\* ahead of the clock since the last one.
BridgeInv ==
    /\ idle \in 0..IdleRecycle /\ stopped \in 0..IdleRecycle
    /\ idle <= stopped /\ hasty = FALSE

\* The bus starts long after any recycle.
LEMMA BridgeInit == B!BridgeInit => BridgeInv
BY DeskAssumption DEF B!BridgeInit, B!BridgeAssumption, BridgeInv

\* Only the watchdog moves the two clocks, together; events reset one of them.
LEMMA BridgeStep == BridgeInv /\ (B!BridgeNext \/ UNCHANGED B!bridgeVars) => BridgeInv'
<1>. SUFFICES ASSUME BridgeInv, B!BridgeNext \/ UNCHANGED B!bridgeVars PROVE BridgeInv'
  OBVIOUS
<1>0. IdleRecycle \in Nat \ {0}
  BY DeskAssumption DEF B!BridgeAssumption
<1>1. ASSUME NEW works \in BOOLEAN, B!RecycleWhenIdle(works) PROVE BridgeInv'
  <2>1. CASE B!Later(idle) < IdleRecycle
    BY <1>0, <1>1, <2>1 DEF B!RecycleWhenIdle, B!Later, BridgeInv
  <2>2. CASE ~(B!Later(idle) < IdleRecycle)
    <3>1. ~(B!Later(stopped) < IdleRecycle)
      BY <1>0, <2>2 DEF B!Later, BridgeInv
    <3>2. idle' = 0 /\ stopped' = 0 /\ hasty' = (hasty \/ B!Later(stopped) < IdleRecycle)
      BY <1>1, <2>2 DEF B!RecycleWhenIdle
    <3>3. (hasty \/ B!Later(stopped) < IdleRecycle) = FALSE
      BY <3>1 DEF BridgeInv
    <3>4. hasty' = FALSE
      BY <3>2, <3>3
    <3>. QED
      BY <1>0, <3>2, <3>4 DEF BridgeInv
  <2>. QED
    BY <2>1, <2>2
<1>2. ASSUME NEW c \in Consumers, B!Connect(c) \/ B!ConnectFails(c) \/ B!Event(c) PROVE BridgeInv'
  BY <1>0, <1>2 DEF B!Connect, B!ConnectFails, B!Event, BridgeInv
<1>3. ASSUME NEW c \in Consumers, B!SeesBus(c) \/ B!BackOver(c) \/ B!StreamDrops(c) PROVE BridgeInv'
  BY <1>3 DEF B!SeesBus, B!BackOver, B!StreamDrops, BridgeInv
<1>4. CASE \/ B!BusEnds \/ B!BusGoesSilent \/ B!FollowHangs \/ B!Reply \/ UNCHANGED B!bridgeVars
           \/ \E yes \in BOOLEAN : B!FollowInThread(yes)
           \/ \E how \in {"refused", "dry run", "send"} : B!Accept(how)
           \/ \E lands, heard \in BOOLEAN : B!SendCard(lands, heard)
  BY <1>4 DEF B!BusEnds, B!BusGoesSilent, B!FollowHangs, B!Reply, B!FollowInThread, B!Accept,
              B!SendCard, B!bridgeVars, B!busVars, BridgeInv
<1>. QED
  BY <1>1, <1>2, <1>3, <1>4 DEF B!BridgeNext

\* Between two recycles of the bus lies the silence they wait for.
THEOREM BridgeRecyclesApart == DeskSpec => []RecyclesFarApart
<1>. DEFINE I == part = "bridge" => BridgeInv
<1>1. DeskInit => I
  BY BridgeInit DEF DeskInit
<1>2. I /\ [DeskNext]_deskVars => I'
  BY BridgeStep, StepOfPart
<1>3. I => RecyclesFarApart
  BY DEF RecyclesFarApart, B!RecyclesFarApart, BridgeInv
<1>. QED
  BY <1>1, <1>2, <1>3, PTL DEF DeskSpec

-----------------------------------------------------------------------------
(***************************************************************************)
(* Watch: what people wrote reaches a run, or the gap.                     *)
(***************************************************************************)
Cursors == [Feeds -> Nat]

\* A cursor stands at something said, or there is none yet.
Reached(c) == c \in Cursors /\ \A f \in Feeds : c[f] <= Len(said[f])
Place(c)   == c = Nobody \/ Reached(c)

\* Words nobody judged, gave up, dates before the baseline or lost in the gap.
Loose ==
    {m \in W!Msgs : /\ m[2] <= Len(said[m[1]]) /\ W!Kind(m) # "noise"
                    /\ ~W!Settled(m) /\ m \notin gap /\ ~(m[2] <= floor[m[1]])}

\* Up to the cursors c, all of them are among D.
Covers(c, D) == feeds # Nobody /\ c # Nobody => \A m \in Loose : m[2] <= c[m[1]] => m \in D

IsRun(r)    == r = [status |-> r.status, age |-> r.age, digest |-> r.digest]
IsStaged(s) == s = [feeds |-> s.feeds, replays |-> s.replays, age |-> s.age, first |-> s.first]
IsReplay(s) == s = [replays |-> s.replays, age |-> s.age, first |-> s.first]
WorkFields == {"start", "cur", "todo", "latest", "picks", "over", "jira", "notes", "names",
               "held", "faulted", "digest"}
IsWork(w)  == w = [x \in WorkFields |-> w[x]]

Shapes ==
    /\ said \in [Feeds -> Seq(Utterances)]
    /\ IsWork(work) /\ IsRun(run) /\ \A r \in strays : IsRun(r) /\ r.status = "due"
    /\ Place(feeds)
    /\ staged # Nobody => IsStaged(staged) /\ Place(staged.feeds) /\ Place(staged.first)
    /\ replay # Nobody => IsReplay(replay) /\ Place(replay.first)

\* A scan takes up every word between the committed cursors and its own.
Scanning ==
    pc \in {"jira", "list", "fetch"} =>
        /\ staged = Nobody /\ Reached(work.start) /\ Place(work.cur)
        /\ Covers(work.cur, work.picks \cup work.over)
        /\ work.over # {} => "full" \in work.notes
        /\ pc # "fetch" => work.cur = feeds /\ work.todo = {}
        /\ work.todo # {} => Reached(work.cur) /\ Reached(work.latest)

\* What the run that was started for the staged round still has to judge.
Outstanding ==
    staged # Nobody =>
        /\ run.status = "due" => Covers(staged.feeds, run.digest.said \cup run.digest.over)
        /\ run.status = "completed" => Covers(staged.feeds, {})

\* The round's digest holds it, on its way to the pipe and in the run.
HandedOver ==
    /\ pc \in {"idle", "jira", "list", "fetch", "post", "note"}
    /\ pc # "idle" => noted = "stale"
    /\ pc = "post" /\ staged # Nobody =>
           Covers(staged.feeds, work.digest.said \cup work.digest.over)
    /\ pc = "note" /\ "routed" \in work.notes => Outstanding
    /\ pc = "idle" /\ noted = "routed" => Outstanding

WatchInv == Shapes /\ Covers(feeds, {}) /\ Scanning /\ HandedOver

\* No round in hand.
LEMMA NothingInHand ==
  IsWork(W!NoWork) /\ W!NoWork.todo = {} /\ W!NoWork.picks = {} /\ W!NoWork.over = {}
BY DEF W!NoWork, IsWork, WorkFields

\* Nothing was said, and no round begun.
LEMMA WatchStarts == W!Init => WatchInv
<1>. SUFFICES ASSUME W!Init PROVE WatchInv
  OBVIOUS
<1>1. IsWork(W!NoWork) /\ IsRun(W!Idle)
  BY NothingInHand DEF W!Idle, IsRun
<1>2. Shapes
  BY <1>1 DEF W!Init, Shapes, Place
<1>. QED
  BY <1>2 DEF W!Init, WatchInv, Covers, Scanning, HandedOver

\* More is accounted for, and nothing new is said.
LEMMA LooseShrinks ==
  ASSUME said' = said, floor' = floor, judged \subseteq judged', forgone \subseteq forgone',
         given \subseteq given', gap \subseteq gap'
  PROVE  Loose' \subseteq Loose
BY DEF Loose, W!Settled, W!Msgs, W!Kind

\* "No cursors" is not a set of cursors.
LEMMA NoCursors == Nobody \notin Cursors /\ PerChat \in Nat \ {0}
BY DeskAssumption DEF W!WatchAssumption, Cursors

\* Nothing more is said, so a cursor stays where it is.
LEMMA PlaceLasts == ASSUME said' = said, NEW c PROVE Reached(c)' = Reached(c) /\ Place(c)' = Place(c)
BY DEF Reached, Place, Cursors

\* A colleague writes: behind no cursor.
LEMMA SayKeeps ==
  ASSUME WatchInv, NEW f \in Feeds, NEW k \in Utterances, W!Say(f, k)
  PROVE  WatchInv'
<1>1. /\ said' = [said EXCEPT ![f] = Append(said[f], k)]
      /\ UNCHANGED <<feeds, staged, replay, noted, run, strays, pc, work, judged, forgone, given, gap, floor>>
  BY DEF W!Say, W!scan, W!timer, W!node, W!hist
<1>2. said \in [Feeds -> Seq(Utterances)]
  BY DEF WatchInv, Shapes
<1>3. /\ said' \in [Feeds -> Seq(Utterances)]
      /\ \A g \in Feeds : /\ Len(said[g]) \in Nat /\ Len(said'[g]) \in Nat
                           /\ Len(said[g]) <= Len(said'[g])
                           /\ \A i \in 1..Len(said[g]) : said'[g][i] = said[g][i]
  <2>1. /\ Append(said[f], k) \in Seq(Utterances) /\ Len(Append(said[f], k)) = Len(said[f]) + 1
        /\ \A i \in 1..Len(said[f]) : Append(said[f], k)[i] = said[f][i]
    BY <1>2
  <2>2. \A g \in Feeds : said'[g] = IF g = f THEN Append(said[f], k) ELSE said[g]
    BY <1>1, <1>2
  <2>3. \A g \in Feeds : Len(said[g]) \in Nat
    BY <1>2
  <2>4. said' \in [Feeds -> Seq(Utterances)]
    BY <1>1, <1>2, <2>1
  <2>. QED
    BY <2>1, <2>2, <2>3, <2>4
<1>4. ASSUME NEW m \in Loose' PROVE m \in Loose \/ m[2] > Len(said[m[1]])
  <2>1. m \in W!Msgs /\ m[1] \in Feeds /\ m[2] \in Nat /\ m[2] >= 1
    BY <1>4 DEF Loose, W!Msgs
  <2>2. CASE m[2] <= Len(said[m[1]])
    <3>1. said'[m[1]][m[2]] = said[m[1]][m[2]]
      BY <1>3, <2>1, <2>2
    <3>. QED
      BY <1>1, <1>4, <2>1, <2>2, <3>1 DEF Loose, W!Settled, W!Kind, W!Msgs
  <2>. QED
    BY <1>3, <2>1, <2>2
<1>5. ASSUME NEW c, Place(c) PROVE Place(c)' /\ (Reached(c) => Reached(c)')
  BY <1>3, <1>5 DEF Place, Reached, Cursors
<1>6. ASSUME NEW c, Place(c), NEW D, Covers(c, D) PROVE Covers(c, D)'
  <2>1. ASSUME feeds # Nobody, c # Nobody, NEW m \in Loose', m[2] <= c[m[1]] PROVE m \in D
    <3>1. m[1] \in Feeds /\ m[2] \in Nat
      BY <2>1 DEF Loose, W!Msgs
    <3>2. c[m[1]] \in Nat /\ c[m[1]] <= Len(said[m[1]])
      BY <1>6, <2>1, <3>1 DEF Place, Reached, Cursors
    <3>3. m \in Loose
      BY <1>3, <1>4, <2>1, <3>1, <3>2
    <3>. QED
      BY <1>6, <2>1, <3>3 DEF Covers
  <2>. QED
    BY <1>1, <2>1 DEF Covers
<1>7. Shapes'
  BY <1>1, <1>3, <1>5 DEF WatchInv, Shapes, IsWork, IsRun, IsStaged, IsReplay
<1>8. Covers(feeds, {})'
  <2>1. PICK c : c = feeds
    OBVIOUS
  <2>2. Covers(c, {})'
    BY <1>6, <2>1 DEF WatchInv, Shapes
  <2>. QED
    BY <1>1, <2>1, <2>2 DEF Covers
<1>9. Scanning'
  <2>1. SUFFICES ASSUME pc \in {"jira", "list", "fetch"} PROVE Scanning'
    BY <1>1 DEF Scanning
  <2>2. PICK c, D : c = work.cur /\ D = work.picks \cup work.over
    OBVIOUS
  <2>3. Place(c) /\ Covers(c, D)
    BY <2>1, <2>2 DEF WatchInv, Scanning
  <2>4. Covers(c, D)' /\ Place(c)'
    BY <1>5, <1>6, <2>3
  <2>5. PICK s, l : s = work.start /\ l = work.latest
    OBVIOUS
  <2>6. Reached(s)' /\ (work.todo # {} => Reached(c)' /\ Reached(l)')
    BY <1>5, <2>1, <2>2, <2>5 DEF WatchInv, Scanning, Place
  <2>. QED
    BY <1>1, <2>1, <2>2, <2>4, <2>5, <2>6 DEF WatchInv, Scanning, Covers, Place, Reached
<1>10. HandedOver'
  <2>1. SUFFICES ASSUME staged # Nobody PROVE HandedOver'
    BY <1>1 DEF WatchInv, HandedOver, Outstanding
  <2>2. PICK c, D, R : /\ c = staged.feeds /\ D = work.digest.said \cup work.digest.over
                      /\ R = run.digest.said \cup run.digest.over
    OBVIOUS
  <2>3. Place(c)
    BY <2>1, <2>2 DEF WatchInv, Shapes
  <2>4. /\ Covers(c, D) => Covers(c, D)'
        /\ Covers(c, R) => Covers(c, R)'
        /\ Covers(c, {}) => Covers(c, {})'
    BY <1>6, <2>3
  <2>. QED
    BY <1>1, <2>1, <2>2, <2>4 DEF WatchInv, HandedOver, Outstanding, Covers
<1>. QED
  BY <1>7, <1>8, <1>9, <1>10 DEF WatchInv

\* A run whose age changes is the same run.
LEMMA RunAges ==
  ASSUME NEW r, IsRun(r), NEW a
  PROVE  /\ IsRun([r EXCEPT !.age = a])
         /\ [r EXCEPT !.age = a].status = r.status /\ [r EXCEPT !.age = a].digest = r.digest
<1>1. PICK s, d, b : r = [status |-> s, age |-> b, digest |-> d]
  BY DEF IsRun
<1>2. [r EXCEPT !.age = a] = [status |-> s, age |-> a, digest |-> d]
  BY <1>1
<1>. QED
  BY <1>1, <1>2 DEF IsRun

\* The clock: records grow older, and say what they said.
LEMMA ElapseKeeps == ASSUME WatchInv, W!Elapse PROVE WatchInv'
<1>1. /\ pc = "idle" /\ UNCHANGED <<said, feeds, pc, work, noted, judged, forgone, given, gap, floor>>
      /\ staged' = IF staged = Nobody THEN Nobody
                   ELSE [staged EXCEPT !.age = W!Older(staged.age, GiveUpAfter)]
      /\ replay' = IF replay = Nobody THEN Nobody
                   ELSE [replay EXCEPT !.age = W!Older(replay.age, GiveUpAfter)]
      /\ \/ run' = run
         \/ run' = [run EXCEPT !.age = W!Older(run.age, W!Max({RunCap, RunTimeout}))]
      /\ strays' = {[r EXCEPT !.age = r.age + 1] : r \in strays}
  BY DEF W!Elapse, W!hist
<1>2. Loose' = Loose
  BY <1>1 DEF Loose, W!Settled, W!Msgs, W!Kind
<1>3. IsRun(run') /\ run'.status = run.status /\ run'.digest = run.digest
  BY <1>1, RunAges DEF WatchInv, Shapes
<1>4. ASSUME NEW q \in strays' PROVE IsRun(q) /\ q.status = "due"
  <2>1. PICK r \in strays : q = [r EXCEPT !.age = r.age + 1]
    BY <1>1
  <2>2. IsRun(r) /\ r.status = "due"
    BY DEF WatchInv, Shapes
  <2>. QED
    BY <2>1, <2>2, RunAges
<1>5. staged' # Nobody => /\ staged # Nobody /\ IsStaged(staged')
                          /\ staged'.feeds = staged.feeds /\ staged'.first = staged.first
  <2>1. SUFFICES ASSUME staged # Nobody
                 PROVE  /\ IsStaged(staged') /\ staged'.feeds = staged.feeds
                        /\ staged'.first = staged.first
    BY <1>1
  <2>2. staged = [feeds |-> staged.feeds, replays |-> staged.replays, age |-> staged.age,
                  first |-> staged.first]
    BY <2>1 DEF WatchInv, Shapes, IsStaged
  <2>3. PICK a : a = W!Older(staged.age, GiveUpAfter)
    OBVIOUS
  <2>4. staged' = [feeds |-> staged.feeds, replays |-> staged.replays, age |-> a,
                   first |-> staged.first]
    BY <1>1, <2>1, <2>2, <2>3
  <2>. QED
    BY <2>4 DEF IsStaged
<1>6. replay' # Nobody => /\ replay # Nobody /\ IsReplay(replay') /\ replay'.first = replay.first
  <2>1. SUFFICES ASSUME replay # Nobody PROVE IsReplay(replay') /\ replay'.first = replay.first
    BY <1>1
  <2>2. replay = [replays |-> replay.replays, age |-> replay.age, first |-> replay.first]
    BY <2>1 DEF WatchInv, Shapes, IsReplay
  <2>3. PICK a : a = W!Older(replay.age, GiveUpAfter)
    OBVIOUS
  <2>4. replay' = [replays |-> replay.replays, age |-> a, first |-> replay.first]
    BY <1>1, <2>1, <2>2, <2>3
  <2>. QED
    BY <2>4 DEF IsReplay
<1>7. Shapes'
  BY <1>1, <1>3, <1>4, <1>5, <1>6 DEF WatchInv, Shapes, Place, Reached, IsWork, IsRun, IsStaged, IsReplay
<1>8. Covers(feeds, {})' /\ Scanning'
  BY <1>1, <1>2 DEF WatchInv, Covers, Scanning
<1>9. HandedOver'
  BY <1>1, <1>2, <1>3, <1>5 DEF WatchInv, HandedOver, Outstanding, Covers
<1>. QED
  BY <1>7, <1>8, <1>9 DEF WatchInv

-----------------------------------------------------------------------------
\* A tick that has settled the round before scans from the cursors it left.
LEMMA TickKeeps ==
  ASSUME WatchInv, said' = said, staged' = Nobody, W!Forget, strays' = strays,
         NEW open \in BOOLEAN, NEW c, W!Proceed(open, c), feeds' = c, Place(c),
         Covers(feeds, {})', replay' # Nobody => IsReplay(replay') /\ Place(replay'.first)
  PROVE  WatchInv'
<1>1. W!Lengths \in Cursors /\ \A f \in Feeds : W!Lengths[f] <= Len(said[f])
  BY DEF WatchInv, Shapes, W!Lengths, Cursors
<1>2. /\ IsWork(work') /\ pc' \in {"jira", "idle"}
      /\ pc' = "jira" => /\ work'.start = W!Lengths /\ work'.cur = c /\ work'.todo = {}
                         /\ work'.picks = {} /\ work'.over = {}
  <2>1. CASE open
    <3>1. PICK n, h, x, s : n = W!NoWork /\ h = heldBack /\ x = faulted /\ s = W!Lengths
      OBVIOUS
    <3>2. pc' = "jira" /\ work' = [n EXCEPT !.start = s, !.cur = c, !.held = h, !.faulted = x]
      BY <2>1, <3>1 DEF W!Proceed
    <3>3. IsWork(n) /\ n.todo = {} /\ n.picks = {} /\ n.over = {}
      BY <3>1, NothingInHand
    <3>. QED
      BY <3>1, <3>2, <3>3 DEF IsWork, WorkFields
  <2>2. CASE ~open
    BY <2>2, NothingInHand DEF W!Proceed
  <2>. QED
    BY <2>1, <2>2
<1>3. noted' = "stale" /\ IsRun(run')
  BY DEF W!Forget, W!Idle, IsRun, WatchInv, Shapes
<1>4. Reached(c)' = Reached(c) /\ Place(c)' = Place(c)
  BY PlaceLasts
<1>5. Shapes'
  BY <1>2, <1>3, <1>4 DEF WatchInv, Shapes, IsWork, IsRun, IsReplay, Place, Reached
<1>6. Scanning'
  BY <1>1, <1>2, <1>4 DEF Scanning, Covers, Reached, Place
<1>7. HandedOver'
  BY <1>2, <1>3 DEF HandedOver, Outstanding
<1>. QED
  BY <1>5, <1>6, <1>7 DEF WatchInv

\* The four ways a tick settles the round before.
LEMMA SettleKeeps ==
  ASSUME WatchInv, NEW open \in BOOLEAN, W!Tick(open)
  PROVE  WatchInv'
<1>1. CASE W!NothingStaged(open)
  <2>1. PICK c : c = feeds
    OBVIOUS
  <2>2. /\ UNCHANGED <<said, feeds, staged, replay, strays, judged, forgone, given, gap, floor>>
        /\ staged = Nobody /\ W!Proceed(open, c) /\ W!Forget
    BY <1>1, <2>1 DEF W!NothingStaged, W!scan, W!hist
  <2>3. Loose' \subseteq Loose
    BY <2>2, LooseShrinks
  <2>4. Covers(feeds, {})' /\ Place(c)
    BY <2>1, <2>2, <2>3 DEF WatchInv, Shapes, Covers
  <2>5. replay' # Nobody => IsReplay(replay') /\ Place(replay'.first)
    BY <2>2 DEF WatchInv, Shapes, IsReplay
  <2>. QED
    BY <2>1, <2>2, <2>4, <2>5, TickKeeps
<1>2. CASE W!Commit(open)
  <2>1. PICK c : c = staged.feeds
    OBVIOUS
  <2>2. /\ UNCHANGED <<said, strays, judged, forgone, given, gap>>
        /\ pc = "idle" /\ staged # Nobody /\ W!Outcome = "done"
        /\ feeds' = c /\ staged' = Nobody /\ replay' = Nobody
        /\ floor' = IF feeds = Nobody /\ c # Nobody THEN c ELSE floor
        /\ W!Proceed(open, c) /\ W!Forget
    BY <1>2, <2>1 DEF W!Commit
  <2>3. noted = "routed" /\ run.status = "completed"
    BY <2>2 DEF W!Outcome
  <2>4. Covers(c, {}) /\ Place(c)
    BY <2>1, <2>2, <2>3 DEF WatchInv, HandedOver, Outstanding, Shapes
  <2>5. Covers(feeds, {})'
    <3>1. CASE feeds = Nobody
      BY <2>2, <3>1 DEF Covers, Loose
    <3>2. CASE feeds # Nobody
      <4>1. Loose' \subseteq Loose
        BY <2>2, <3>2, LooseShrinks
      <4>. QED
        BY <2>2, <2>4, <3>2, <4>1 DEF Covers
    <3>. QED
      BY <3>1, <3>2
  <2>. QED
    BY <2>2, <2>4, <2>5, TickKeeps
<1>3. CASE W!Replay(open)
  <2>1. PICK c : c = feeds
    OBVIOUS
  <2>2. /\ UNCHANGED <<said, feeds, strays, judged, forgone, given, gap, floor>>
        /\ staged # Nobody /\ staged' = Nobody /\ W!Proceed(open, c) /\ W!Forget
        /\ replay' = [replays |-> IF staged.replays < MaxReplays THEN staged.replays + 1 ELSE MaxReplays,
                      age |-> staged.age, first |-> staged.first]
    BY <1>3, <2>1 DEF W!Replay, W!hist
  <2>3. Loose' \subseteq Loose
    BY <2>2, LooseShrinks
  <2>4. Covers(feeds, {})' /\ Place(c)
    BY <2>1, <2>2, <2>3 DEF WatchInv, Shapes, Covers
  <2>5. IsReplay(replay') /\ replay'.first = staged.first
    BY <2>2 DEF IsReplay
  <2>6. Place(replay'.first)
    BY <2>2, <2>5 DEF WatchInv, Shapes
  <2>. QED
    BY <2>1, <2>2, <2>4, <2>5, <2>6, TickKeeps
<1>4. CASE W!GiveUp(open)
  <2>1. PICK c : c = IF staged.first # Nobody THEN staged.first ELSE staged.feeds
    OBVIOUS
  <2>2. /\ UNCHANGED <<said, strays, judged, forgone, gap>>
        /\ staged # Nobody /\ feeds' = c /\ staged' = Nobody /\ replay' = Nobody
        /\ floor' = IF feeds = Nobody /\ c # Nobody THEN c ELSE floor
        /\ given' = given \cup
                      (IF feeds = Nobody THEN {}
                       ELSE {m \in W!Msgs : feeds[m[1]] < m[2] /\ m[2] <= c[m[1]]})
        /\ W!Proceed(open, c) /\ W!Forget
    BY <1>4, <2>1 DEF W!GiveUp
  <2>3. Place(c)
    BY <2>1, <2>2 DEF WatchInv, Shapes
  <2>4. Covers(feeds, {})'
    <3>1. CASE feeds = Nobody
      BY <2>2, <3>1 DEF Covers, Loose
    <3>2. CASE feeds # Nobody
      <4>1. Loose' \subseteq Loose
        BY <2>2, <3>2, LooseShrinks
      <4>2. ASSUME NEW m \in Loose' PROVE m \in W!Msgs /\ m \notin given' /\ m[1] \in Feeds /\ m[2] \in Nat
        BY <4>2 DEF Loose, W!Settled, W!Msgs
      <4>3. Covers(feeds, {}) /\ Place(feeds)
        BY DEF WatchInv, Shapes
      <4>4. ASSUME c # Nobody, NEW m \in Loose', m[2] <= c[m[1]] PROVE FALSE
        <5>1. m \in Loose /\ m[1] \in Feeds /\ m[2] \in Nat /\ m \in W!Msgs /\ m \notin given'
          BY <4>1, <4>2, <4>4
        <5>2. feeds[m[1]] \in Nat
          BY <3>2, <4>3, <5>1 DEF Place, Reached, Cursors
        <5>3. ~(m[2] <= feeds[m[1]])
          BY <3>2, <4>3, <5>1 DEF Covers
        <5>4. feeds[m[1]] < m[2]
          BY <5>1, <5>2, <5>3
        <5>. QED
          BY <2>2, <3>2, <4>4, <5>1, <5>4
      <4>. QED
        BY <2>2, <4>4 DEF Covers
    <3>. QED
      BY <3>1, <3>2
  <2>. QED
    BY <2>2, <2>3, <2>4, TickKeeps
<1>. QED
  BY <1>1, <1>2, <1>3, <1>4 DEF W!Tick

-----------------------------------------------------------------------------
\* A step of the scan alone leaves what is on record as it was.
LEMMA ScanKeeps ==
  ASSUME WatchInv, pc \in {"jira", "list", "fetch"},
         UNCHANGED <<said, feeds, staged, replay, noted, run, strays, floor, judged, forgone, given>>,
         gap \subseteq gap', pc' \in {"list", "fetch"}, IsWork(work'), Scanning'
  PROVE  WatchInv'
<1>1. Loose' \subseteq Loose
  BY LooseShrinks
<1>2. Shapes'
  BY DEF WatchInv, Shapes, Place, Reached, IsRun, IsStaged, IsReplay
<1>3. Covers(feeds, {})'
  BY <1>1 DEF WatchInv, Covers
<1>4. HandedOver'
  BY DEF WatchInv, HandedOver
<1>. QED
  BY <1>2, <1>3, <1>4 DEF WatchInv

\* One that moves no cursor and takes up no word.
LEMMA ScanPasses ==
  ASSUME WatchInv, pc \in {"jira", "list", "fetch"},
         UNCHANGED <<said, feeds, staged, replay, noted, run, strays, floor, judged, forgone, given, gap>>,
         pc' \in {"list", "fetch"}, pc = "fetch" => pc' = "fetch",
         IsWork(work'), work'.start = work.start, work'.cur = work.cur, work'.latest = work.latest,
         work'.picks = work.picks, work'.over = work.over,
         work.notes \subseteq work'.notes, work'.todo \subseteq work.todo
  PROVE  WatchInv'
<1>1. Loose' \subseteq Loose
  BY LooseShrinks
<1>2. Scanning
  BY DEF WatchInv
<1>3. PICK c, s, l : c = work.cur /\ s = work.start /\ l = work.latest
  OBVIOUS
<1>4. /\ Reached(s)' = Reached(s) /\ Place(c)' = Place(c)
      /\ Reached(c)' = Reached(c) /\ Reached(l)' = Reached(l)
  BY PlaceLasts
<1>5. Covers(work.cur, work.picks \cup work.over)
  BY <1>2 DEF Scanning
<1>6. Covers(work.cur, work.picks \cup work.over)'
  BY <1>1, <1>5 DEF Covers
<1>7. Scanning'
  BY <1>2, <1>3, <1>4, <1>6 DEF Scanning, Place, Reached
<1>. QED
  BY <1>7, ScanKeeps

\* Jira, whichever way it answers, and a list that fails.
LEMMA JiraKeeps ==
  ASSUME WatchInv, W!AskJira \/ W!JiraFails \/ W!ListFails
  PROVE  WatchInv'
<1>1. IsWork(work)
  BY DEF WatchInv, Shapes
<1>2. CASE W!AskJira
  <2>1. /\ pc = "jira" /\ pc' = "list"
        /\ UNCHANGED <<said, feeds, staged, replay, noted, run, strays, floor, judged, forgone, given, gap>>
        /\ \E J : work' = [work EXCEPT !.jira = J]
    BY <1>2 DEF W!AskJira, W!scan, W!node, W!hist
  <2>2. PICK J : work' = [work EXCEPT !.jira = J]
    BY <2>1
  <2>3. /\ IsWork(work') /\ work'.start = work.start /\ work'.cur = work.cur
        /\ work'.latest = work.latest /\ work'.picks = work.picks /\ work'.over = work.over
        /\ work'.notes = work.notes /\ work'.todo = work.todo
    BY <1>1, <2>2 DEF IsWork, WorkFields
  <2>. QED
    BY <2>1, <2>3, ScanPasses
<1>3. CASE W!JiraFails \/ W!ListFails
  <2>1. /\ pc \in {"jira", "list"} /\ pc' \in {"list", "fetch"}
        /\ UNCHANGED <<said, feeds, staged, replay, noted, run, strays, floor, judged, forgone, given, gap>>
        /\ work' = [work EXCEPT !.notes = work.notes \cup {"fault"}]
    BY <1>3 DEF W!JiraFails, W!ListFails, W!scan, W!node, W!hist
  <2>2. /\ IsWork(work') /\ work'.start = work.start /\ work'.cur = work.cur
        /\ work'.latest = work.latest /\ work'.picks = work.picks /\ work'.over = work.over
        /\ work.notes \subseteq work'.notes /\ work'.todo = work.todo
    BY <1>1, <2>1 DEF IsWork, WorkFields
  <2>. QED
    BY <2>1, <2>2, ScanPasses
<1>. QED
  BY <1>2, <1>3

\* A feed that waits, or is out of reach.
LEMMA WaitKeeps ==
  ASSUME WatchInv, NEW f \in Feeds, W!SaveUp(f) \/ W!FetchFails(f)
  PROVE  WatchInv'
<1>1. IsWork(work)
  BY DEF WatchInv, Shapes
<1>2. CASE W!SaveUp(f)
  <2>1. /\ pc = "fetch" /\ pc' = pc
        /\ UNCHANGED <<said, feeds, staged, replay, noted, run, strays, floor, judged, forgone, given, gap>>
        /\ \E h : work' = [work EXCEPT !.todo = work.todo \ {f}, !.held = h]
    BY <1>2 DEF W!SaveUp, W!scan, W!node, W!hist
  <2>2. PICK h : work' = [work EXCEPT !.todo = work.todo \ {f}, !.held = h]
    BY <2>1
  <2>3. /\ IsWork(work') /\ work'.start = work.start /\ work'.cur = work.cur
        /\ work'.latest = work.latest /\ work'.picks = work.picks /\ work'.over = work.over
        /\ work'.notes = work.notes /\ work'.todo \subseteq work.todo
    BY <1>1, <2>2 DEF IsWork, WorkFields
  <2>. QED
    BY <2>1, <2>3, ScanPasses
<1>3. CASE W!FetchFails(f)
  <2>1. /\ pc = "fetch" /\ pc' = pc
        /\ UNCHANGED <<said, feeds, staged, replay, noted, run, strays, floor, judged, forgone, given, gap>>
        /\ \E x, n, s : /\ work.notes \subseteq n
                        /\ work' = [work EXCEPT !.todo = work.todo \ {f}, !.faulted = x,
                                                !.notes = n, !.names = s]
    BY <1>3 DEF W!FetchFails, W!scan, W!node, W!hist
  <2>2. PICK x, n, s : /\ work.notes \subseteq n
                       /\ work' = [work EXCEPT !.todo = work.todo \ {f}, !.faulted = x,
                                               !.notes = n, !.names = s]
    BY <2>1
  <2>3. /\ IsWork(work') /\ work'.start = work.start /\ work'.cur = work.cur
        /\ work'.latest = work.latest /\ work'.picks = work.picks /\ work'.over = work.over
        /\ work'.notes = n /\ work'.todo \subseteq work.todo
    BY <1>1, <2>2 DEF IsWork, WorkFields
  <2>. QED
    BY <2>1, <2>2, <2>3, ScanPasses
<1>. QED
  BY <1>2, <1>3

\* The list: a baseline covers nothing that counts, and later lists move no cursor.
LEMMA ListKeeps ==
  ASSUME WatchInv, W!List
  PROVE  WatchInv'
<1>1. IsWork(work)
  BY DEF WatchInv, Shapes
<1>2. /\ pc = "list" /\ pc' = "fetch"
      /\ UNCHANGED <<said, feeds, staged, replay, noted, run, strays, floor, judged, forgone, given, gap>>
      /\ work' = IF work.cur = Nobody THEN [work EXCEPT !.cur = W!Lengths]
                 ELSE [work EXCEPT !.latest = W!Lengths,
                                   !.todo = {f \in Feeds : Len(said[f]) > work.cur[f]}]
  BY DEF W!List, W!scan, W!node, W!hist
<1>3. Scanning /\ work.cur = feeds /\ work.todo = {}
  BY <1>2 DEF WatchInv, Scanning
<1>4. PICK s, l : s = work.start /\ l = W!Lengths
  OBVIOUS
<1>5. Reached(l)
  BY <1>4 DEF WatchInv, Shapes, W!Lengths, Reached, Cursors
<1>6. Loose' \subseteq Loose
  BY <1>2, LooseShrinks
<1>7. /\ Reached(s)' = Reached(s) /\ Reached(l)' = Reached(l)
  BY <1>2, PlaceLasts
<1>8. CASE work.cur = Nobody
  <2>1. /\ IsWork(work') /\ work'.start = s /\ work'.cur = l /\ work'.todo = {}
        /\ work'.picks = work.picks /\ work'.over = work.over /\ work'.notes = work.notes
    BY <1>1, <1>2, <1>3, <1>4, <1>8 DEF IsWork, WorkFields
  <2>2. Scanning'
    BY <1>2, <1>3, <1>4, <1>5, <1>7, <1>8, <2>1 DEF Scanning, Covers, Place, Reached
  <2>. QED
    BY <1>2, <2>1, <2>2, ScanKeeps
<1>9. CASE work.cur # Nobody
  <2>1. PICK c, t : c = work.cur /\ work' = [work EXCEPT !.latest = l, !.todo = t]
    BY <1>2, <1>4, <1>9
  <2>2. /\ IsWork(work') /\ work'.start = s /\ work'.cur = c /\ work'.latest = l
        /\ work'.picks = work.picks /\ work'.over = work.over /\ work'.notes = work.notes
    BY <1>1, <1>4, <2>1 DEF IsWork, WorkFields
  <2>3. Reached(c) /\ Covers(work.cur, work.picks \cup work.over)
    BY <1>2, <1>3, <1>9, <2>1 DEF Scanning, Place
  <2>4. Reached(c)' = Reached(c)
    BY <1>2, PlaceLasts
  <2>5. Covers(work.cur, work.picks \cup work.over)'
    BY <1>2, <1>6, <2>1, <2>2, <2>3 DEF Covers
  <2>6. Scanning'
    BY <1>2, <1>3, <1>4, <1>5, <1>7, <2>2, <2>3, <2>4, <2>5 DEF Scanning, Place, Reached
  <2>. QED
    BY <1>2, <2>2, <2>6, ScanKeeps
<1>. QED
  BY <1>8, <1>9

LEMMA SameCount == ASSUME NEW T PROVE W!Cardinality(T) = Cardinality(T)
BY DEF W!Cardinality, Cardinality

\* The newest so many of a range of words: all of them, or so many.
LEMMA NewestOf ==
  ASSUME NEW base \in Nat, NEW last \in Nat, NEW limit \in Nat \ {0}, NEW i \in (base + 1)..last,
         ~(i > last - limit)
  PROVE  Cardinality({j \in (base + 1)..last : j > last - limit}) = limit
<1>1. {j \in (base + 1)..last : j > last - limit} = (last - limit + 1)..last
  OBVIOUS
<1>. QED
  <2>1. PICK a \in Int : a = last - limit + 1
    OBVIOUS
  <2>2. Cardinality(a..last) = IF a > last THEN 0 ELSE last - a + 1
    BY <2>1, FS_Interval
  <2>3. {j \in (base + 1)..last : j > last - limit} = a..last
    BY <1>1, <2>1
  <2>4. Cardinality(a..last) = limit
    BY <2>1, <2>2
  <2>. QED
    BY <2>3, <2>4, Zenon

\* What the search brings is picked, what it had no room for is told, and what
\* came after the clock was read is the gap.
LEMMA FetchKeeps ==
  ASSUME WatchInv, NEW f \in Feeds, W!Fetch(f)
  PROVE  WatchInv'
<1>1. IsWork(work) /\ said \in [Feeds -> Seq(Utterances)]
  BY DEF WatchInv, Shapes
<1>2. /\ pc = "fetch" /\ pc' = pc /\ f \in work.todo
      /\ UNCHANGED <<said, feeds, staged, replay, noted, run, strays, floor, judged, forgone, given>>
      /\ gap' = gap \cup ({f} \X ((work.start[f] + 1)..work.latest[f]))
  BY DEF W!Fetch, W!scan, W!node
<1>3. /\ Scanning /\ Reached(work.start) /\ Reached(work.cur) /\ Reached(work.latest)
      /\ Covers(work.cur, work.picks \cup work.over)
      /\ work.over # {} => "full" \in work.notes
      /\ staged = Nobody
  BY <1>2 DEF WatchInv, Scanning
<1>4. PICK limit \in {PerChat, 2 * PerChat} :
        LET base   == work.cur[f]
            ranged == (base + 1)..work.start[f]
            got    == {i \in ranged : i > work.start[f] - limit}
            full   == W!Cardinality(got) >= limit
        IN work' = [work EXCEPT !.todo = @ \ {f},
                                !.cur[f] = work.latest[f],
                                !.held[f] = -1, !.faulted[f] = -1,
                                !.picks = @ \cup W!Said(f, got),
                                !.over = @ \cup W!Said(f, ranged \ got),
                                !.notes = IF full THEN @ \cup {"full"} ELSE @,
                                !.names = IF W!Said(f, got) # {} THEN @ \cup {f} ELSE @]
  BY DEF W!Fetch
<1>5. PICK base, last, late : base = work.cur[f] /\ last = work.start[f] /\ late = work.latest[f]
  OBVIOUS
<1>6. base \in Nat /\ last \in Nat /\ late \in Nat /\ limit \in Nat \ {0}
  BY <1>3, <1>5, NoCursors DEF Reached, Cursors
<1>. DEFINE ranged == (base + 1)..last
            got    == {i \in ranged : i > last - limit}
<1>7. PICK picked, O, full : picked = W!Said(f, got) /\ O = W!Said(f, ranged \ got)
                        /\ full = (W!Cardinality(got) >= limit)
  OBVIOUS
<1>. HIDE DEF ranged, got
<1>8. PICK s, c, l, N : /\ s = work.start /\ c = [work.cur EXCEPT ![f] = late] /\ l = work.latest
                        /\ N = IF full THEN work.notes \cup {"full"} ELSE work.notes
  OBVIOUS
<1>9. /\ IsWork(work') /\ work'.start = s /\ work'.cur = c /\ work'.latest = l
      /\ work'.picks = work.picks \cup picked /\ work'.over = work.over \cup O /\ work'.notes = N
  <2>1. work' = [work EXCEPT !.todo = @ \ {f}, !.cur[f] = late,
                             !.held[f] = -1, !.faulted[f] = -1,
                             !.picks = @ \cup picked, !.over = @ \cup O,
                             !.notes = IF full THEN @ \cup {"full"} ELSE @,
                             !.names = IF picked # {} THEN @ \cup {f} ELSE @]
    BY <1>4, <1>5, <1>7 DEF ranged, got
  <2>2. PICK w1 : w1 = [work EXCEPT !.todo = @ \ {f}]
    OBVIOUS
  <2>3. PICK w2 : w2 = [w1 EXCEPT !.cur[f] = late]
    OBVIOUS
  <2>4. PICK w3 : w3 = [w2 EXCEPT !.held[f] = -1]
    OBVIOUS
  <2>5. PICK w4 : w4 = [w3 EXCEPT !.faulted[f] = -1]
    OBVIOUS
  <2>6. work' = [w4 EXCEPT !.picks = @ \cup picked, !.over = @ \cup O,
                           !.notes = IF full THEN @ \cup {"full"} ELSE @,
                           !.names = IF picked # {} THEN @ \cup {f} ELSE @]
    BY <2>1, <2>2, <2>3, <2>4, <2>5
  <2>7. PICK h, x : h = [work.held EXCEPT ![f] = -1] /\ x = [work.faulted EXCEPT ![f] = -1]
    OBVIOUS
  <2>8. w4 = [work EXCEPT !.todo = work.todo \ {f}, !.cur = c, !.held = h, !.faulted = x]
    BY <1>1, <1>8, <2>2, <2>3, <2>4, <2>5, <2>7 DEF IsWork, WorkFields
  <2>9. /\ IsWork(w4) /\ w4.start = s /\ w4.cur = c /\ w4.latest = l
        /\ w4.picks = work.picks /\ w4.over = work.over /\ w4.notes = work.notes
    BY <1>1, <1>8, <2>8 DEF IsWork, WorkFields
  <2>. QED
    BY <1>8, <2>6, <2>9 DEF IsWork, WorkFields
<1>10. O # {} => "full" \in N
  <2>1. SUFFICES ASSUME NEW m \in O PROVE "full" \in N
    OBVIOUS
  <2>2. m[2] \in ranged /\ ~(m[2] > last - limit)
    BY <1>7, <2>1 DEF W!Said, got
  <2>3. Cardinality(got) = limit
    BY <1>6, <2>2, NewestOf DEF ranged, got
  <2>4. W!Cardinality(got) >= limit
    BY <1>6, <2>3, SameCount
  <2>5. full
    BY <1>7, <2>4
  <2>. QED
    BY <1>8, <2>5
<1>11. work'.over # {} => "full" \in work'.notes
  BY <1>3, <1>8, <1>9, <1>10
<1>12. Reached(c) /\ Reached(l) /\ Reached(s)
  BY <1>3, <1>5, <1>6, <1>8 DEF Reached, Cursors
<1>13. /\ Reached(c)' = Reached(c) /\ Reached(l)' = Reached(l) /\ Reached(s)' = Reached(s)
  BY <1>2, PlaceLasts
<1>14. Covers(work.cur, work.picks \cup work.over)'
  <2>1. SUFFICES ASSUME feeds # Nobody, NEW m \in Loose', m[2] <= c[m[1]]
                 PROVE  m \in (work.picks \cup picked) \cup (work.over \cup O)
    BY <1>2, <1>9 DEF Covers
  <2>2. m \in Loose
    <3>1. Loose' \subseteq Loose
      BY <1>2, LooseShrinks
    <3>. QED
      BY <3>1, <2>1
  <2>3. /\ m \in W!Msgs /\ m[1] \in Feeds /\ m[2] \in Nat /\ m = <<m[1], m[2]>>
        /\ W!Kind(m) # "noise" /\ m \notin gap'
    BY <1>2, <2>1, <2>2 DEF Loose, W!Msgs, W!Kind
  <2>4. CASE m[2] <= work.cur[m[1]]
    <3>1. work.cur # Nobody
      BY <1>3, NoCursors DEF Reached
    <3>. QED
      BY <1>3, <2>1, <2>2, <2>4, <3>1 DEF Covers
  <2>5. CASE ~(m[2] <= work.cur[m[1]])
    <3>1. m[1] = f /\ c[f] = late
      BY <1>3, <1>8, <2>1, <2>3, <2>5 DEF Reached, Cursors
    <3>2. m[2] <= late /\ m[2] > base
      BY <1>5, <1>6, <2>1, <2>3, <2>5, <3>1
    <3>3. m[2] <= last
      <4>1. SUFFICES ASSUME m[2] > last PROVE FALSE
        BY <1>6, <2>3
      <4>2. m[2] \in (last + 1)..late
        BY <1>6, <2>3, <3>2, <4>1
      <4>. QED
        BY <1>2, <1>5, <2>3, <3>1, <4>2
    <3>4. m[2] \in ranged
      BY <1>6, <2>3, <3>2, <3>3 DEF ranged
    <3>5. CASE m[2] \in got
      BY <1>7, <2>3, <3>1, <3>5 DEF W!Said
    <3>6. CASE m[2] \notin got
      BY <1>7, <2>3, <3>1, <3>4, <3>6 DEF W!Said
    <3>. QED
      BY <3>5, <3>6
  <2>. QED
    BY <2>4, <2>5
<1>15. Scanning'
  BY <1>2, <1>3, <1>9, <1>11, <1>12, <1>13, <1>14 DEF Scanning, Place, Reached
<1>. QED
  BY <1>2, <1>9, <1>15, ScanKeeps

-----------------------------------------------------------------------------
\* Nothing to judge: the scan's cursors count at once.
LEMMA QuietKeeps ==
  ASSUME WatchInv, W!WriteQuiet
  PROVE  WatchInv'
<1>1. PICK c : c = work.cur
  OBVIOUS
<1>2. /\ pc = "fetch" /\ pc' = "idle" /\ work.picks = {} /\ work.notes = {}
      /\ UNCHANGED <<said, staged, noted, run, strays, judged, forgone, given, gap>>
      /\ feeds' = c /\ replay' = Nobody /\ work' = W!NoWork
      /\ floor' = IF feeds = Nobody /\ c # Nobody THEN c ELSE floor
  BY <1>1 DEF W!WriteQuiet, W!Scanned, W!IsQuiet, W!node
<1>3. /\ staged = Nobody /\ Place(c) /\ Covers(c, {})
  <2>1. Scanning
    BY DEF WatchInv
  <2>2. work.over = {} /\ work.picks \cup work.over = {}
    BY <1>2, <2>1 DEF Scanning
  <2>. QED
    BY <1>1, <1>2, <2>1, <2>2 DEF Scanning
<1>4. Covers(feeds, {})'
  <2>1. CASE feeds = Nobody
    BY <1>2, <2>1 DEF Covers, Loose
  <2>2. CASE feeds # Nobody
    <3>1. Loose' \subseteq Loose
      BY <1>2, <2>2, LooseShrinks
    <3>. QED
      BY <1>2, <1>3, <2>2, <3>1 DEF Covers
  <2>. QED
    BY <2>1, <2>2
<1>5. Place(c)' = Place(c)
  BY <1>2, PlaceLasts
<1>6. Shapes'
  BY <1>2, <1>3, <1>5, NothingInHand DEF WatchInv, Shapes, IsRun, Place, Reached
<1>7. Scanning' /\ HandedOver'
  BY <1>2, <1>3 DEF WatchInv, Scanning, HandedOver, Outstanding
<1>. QED
  BY <1>4, <1>6, <1>7 DEF WatchInv

\* The digest carries what the scan took up, dropped or not.
LEMMA StagedKeeps ==
  ASSUME WatchInv, W!WriteStaged
  PROVE  WatchInv'
<1>1. PICK c : c = work.cur
  OBVIOUS
<1>2. PICK first : first = IF replay # Nobody /\ replay.first # Nobody THEN replay.first ELSE c
  OBVIOUS
<1>3. /\ pc = "fetch" /\ pc' = "post" /\ replay' = Nobody
      /\ UNCHANGED <<said, feeds, noted, run, strays, judged, forgone, given, gap, floor>>
  BY DEF W!WriteStaged, W!Scanned, W!node, W!hist
<1>4. PICK a, b : staged' = [feeds |-> c, replays |-> a, age |-> b, first |-> first]
  BY <1>1, <1>2 DEF W!WriteStaged
<1>5. IsStaged(staged') /\ staged'.feeds = c /\ staged'.first = first
  BY <1>4 DEF IsStaged
<1>6. PICK D, j, n : /\ D \subseteq work.picks
                     /\ work' = [W!NoWork EXCEPT !.digest =
                                   [said |-> work.picks \ D, over |-> work.over \cup D,
                                    jira |-> j, names |-> n]]
  BY DEF W!WriteStaged, W!Drops
<1>7. PICK P, O : P = work.picks \ D /\ O = work.over \cup D
  OBVIOUS
<1>8. IsWork(work') /\ work'.digest.said = P /\ work'.digest.over = O
  BY <1>6, <1>7, NothingInHand DEF IsWork, WorkFields
<1>9. P \cup O = work.picks \cup work.over
  BY <1>6, <1>7
<1>10. Place(c) /\ Covers(c, P \cup O) /\ Place(first)
  <2>1. Scanning
    BY DEF WatchInv
  <2>2. Place(c) /\ Covers(c, P \cup O)
    BY <1>1, <1>3, <1>9, <2>1 DEF Scanning
  <2>3. replay # Nobody => Place(replay.first)
    BY DEF WatchInv, Shapes
  <2>. QED
    BY <1>2, <2>2, <2>3
<1>11. Loose' \subseteq Loose
  BY <1>3, LooseShrinks
<1>12. Covers(feeds, {})'
  BY <1>3, <1>11 DEF WatchInv, Covers
<1>13. Covers(c, P \cup O)'
  BY <1>3, <1>10, <1>11 DEF Covers
<1>14. Covers(staged.feeds, work.digest.said \cup work.digest.over)'
  BY <1>5, <1>8, <1>13 DEF Covers
<1>15. Place(c)' = Place(c) /\ Place(first)' = Place(first)
  BY <1>3, PlaceLasts
<1>16. Shapes'
  BY <1>3, <1>5, <1>8, <1>10, <1>15 DEF WatchInv, Shapes, IsRun, Place, Reached
<1>17. Scanning' /\ HandedOver'
  BY <1>3, <1>14 DEF WatchInv, Scanning, HandedOver
<1>. QED
  BY <1>12, <1>16, <1>17 DEF WatchInv

\* A step outside the scan, after which what is outstanding is what it was or new.
LEMMA HandKeeps ==
  ASSUME WatchInv, UNCHANGED <<said, feeds, staged, replay, judged, forgone, given, gap, floor>>,
         pc' \in {"idle", "post", "note"}, IsWork(work'), IsRun(run'),
         \A r \in strays' : IsRun(r) /\ r.status = "due",
         HandedOver'
  PROVE  WatchInv'
<1>1. Shapes'
  BY DEF WatchInv, Shapes, Place, Reached, IsStaged, IsReplay
<1>2. Covers(feeds, {})'
  <2>1. Loose' \subseteq Loose
    BY LooseShrinks
  <2>. QED
    BY <2>1 DEF WatchInv, Covers
<1>. QED
  BY <1>1, <1>2 DEF WatchInv, Scanning

\* The round goes to the pipe, and the run it starts has its digest.
LEMMA PostKeeps ==
  ASSUME WatchInv, NEW how \in {"routed", "unrun"}, NEW due \in BOOLEAN, W!Post(how, due)
  PROVE  WatchInv'
<1>1. /\ pc = "post" /\ pc' = "note" /\ work' = [W!NoWork EXCEPT !.notes = {how}]
      /\ UNCHANGED <<said, feeds, staged, replay, noted, judged, forgone, given, gap, floor>>
      /\ run' = IF how = "routed" THEN W!Started(due) ELSE W!Idle
      /\ strays' = IF run.status = "due" THEN strays \cup {run} ELSE strays
  BY DEF W!Post, W!scan, W!hist
<1>2. IsWork(work') /\ work'.notes = {how}
  BY <1>1, NothingInHand DEF IsWork, WorkFields
<1>3. PICK d : d = work.digest
  OBVIOUS
<1>4. /\ IsRun(run') /\ (how = "routed" => run'.digest = d /\ run'.status # "completed")
  BY <1>1, <1>3 DEF W!Started, W!Idle, IsRun
<1>5. \A r \in strays' : IsRun(r) /\ r.status = "due"
  BY <1>1 DEF WatchInv, Shapes
<1>6. Loose' \subseteq Loose
  BY <1>1, LooseShrinks
<1>7. staged # Nobody => Covers(staged.feeds, d.said \cup d.over)
  BY <1>1, <1>3 DEF WatchInv, HandedOver
<1>8. HandedOver'
  BY <1>1, <1>2, <1>4, <1>6, <1>7 DEF WatchInv, HandedOver, Outstanding, Covers
<1>. QED
  BY <1>1, <1>2, <1>4, <1>5, <1>8, HandKeeps

\* round.json says what the pipe answered.
LEMMA NoteKeeps ==
  ASSUME WatchInv, W!Note
  PROVE  WatchInv'
<1>1. /\ pc = "note" /\ pc' = "idle" /\ work' = W!NoWork /\ noted' \in work.notes
      /\ UNCHANGED <<said, feeds, staged, replay, run, strays, judged, forgone, given, gap, floor>>
  BY DEF W!Note, W!scan, W!hist
<1>2. HandedOver'
  BY <1>1 DEF WatchInv, HandedOver, Outstanding, Covers, Loose, W!Settled, W!Msgs, W!Kind
<1>3. IsRun(run') /\ \A r \in strays' : IsRun(r) /\ r.status = "due"
  BY <1>1 DEF WatchInv, Shapes, IsRun
<1>. QED
  BY <1>1, <1>2, <1>3, NothingInHand, HandKeeps

\* An answer that is lost, a scan that raises, a timer that dies: no cursor moves.
LEMMA FaultKeeps ==
  ASSUME WatchInv, W!AnswerLost \/ W!ScanDies \/ W!TimerDies
  PROVE  WatchInv'
<1>1. CASE W!AnswerLost
  <2>1. /\ pc = "post" /\ pc' = "note" /\ work' = [W!NoWork EXCEPT !.notes = {"unrun"}]
        /\ UNCHANGED <<said, feeds, staged, replay, noted, judged, forgone, given, gap, floor>>
        /\ run' = W!Idle
        /\ strays' = strays \cup {W!Started(TRUE)} \cup (IF run.status = "due" THEN {run} ELSE {})
    BY <1>1 DEF W!AnswerLost, W!scan, W!hist
  <2>2. IsWork(work') /\ work'.notes = {"unrun"}
    BY <2>1, NothingInHand DEF IsWork, WorkFields
  <2>3. IsRun(W!Started(TRUE)) /\ W!Started(TRUE).status = "due" /\ IsRun(W!Idle)
    BY DEF W!Started, W!Idle, IsRun
  <2>4. \A r \in strays' : IsRun(r) /\ r.status = "due"
    BY <2>1, <2>3 DEF WatchInv, Shapes
  <2>5. HandedOver'
    BY <2>1, <2>2 DEF WatchInv, HandedOver
  <2>. QED
    BY <2>1, <2>2, <2>3, <2>4, <2>5, HandKeeps
<1>2. CASE W!ScanDies
  <2>1. PICK d : work' = [W!NoWork EXCEPT !.digest = d]
    BY <1>2 DEF W!ScanDies
  <2>2. /\ pc \in {"jira", "list", "fetch"} /\ pc' = "post"
        /\ UNCHANGED <<said, feeds, staged, replay, noted, run, strays, judged, forgone, given,
                       gap, floor>>
    BY <1>2 DEF W!ScanDies, W!scan, W!node, W!hist
  <2>3. IsWork(work')
    BY <2>1, NothingInHand DEF IsWork, WorkFields
  <2>4. HandedOver'
    BY <2>2 DEF WatchInv, Scanning, HandedOver
  <2>5. IsRun(run') /\ \A r \in strays' : IsRun(r) /\ r.status = "due"
    BY <2>2 DEF WatchInv, Shapes, IsRun
  <2>. QED
    BY <2>2, <2>3, <2>4, <2>5, HandKeeps
<1>3. CASE W!TimerDies
  <2>1. /\ pc # "idle" /\ pc' = "idle" /\ work' = W!NoWork
        /\ UNCHANGED <<said, feeds, staged, replay, noted, judged, forgone, given, gap, floor>>
        /\ strays' = IF pc = "note" /\ run.status = "due" THEN strays \cup {run} ELSE strays
        /\ run' = IF pc = "note" THEN W!Idle ELSE run
    BY <1>3 DEF W!TimerDies, W!scan, W!hist
  <2>2. IsRun(W!Idle)
    BY DEF W!Idle, IsRun
  <2>3. IsRun(run') /\ \A r \in strays' : IsRun(r) /\ r.status = "due"
    BY <2>1, <2>2 DEF WatchInv, Shapes, IsRun
  <2>4. HandedOver'
    BY <2>1 DEF WatchInv, HandedOver
  <2>. QED
    BY <2>1, <2>3, <2>4, NothingInHand, HandKeeps
<1>. QED
  BY <1>1, <1>2, <1>3

\* A run judges what its digest holds, and then nothing of it is outstanding.
LEMMA EndKeeps ==
  ASSUME WatchInv, NEW r \in W!InFlight, NEW how \in {"completed", "failed"}, W!RunEnds(r, how)
  PROVE  WatchInv'
<1>1. PICK d : d = r.digest
  OBVIOUS
<1>2. /\ UNCHANGED <<said, feeds, staged, replay, pc, work, noted, given, gap, floor>>
      /\ IF r = run THEN run' = [run EXCEPT !.status = how, !.digest = Nobody] /\ strays' = strays
                    ELSE strays' = strays \ {r} /\ run' = run
      /\ \/ /\ how = "completed" /\ forgone' = forgone \cup d.over
            /\ judged' = judged \cup d.said \cup ({"jira"} \X d.jira)
         \/ how = "failed" /\ judged' = judged /\ forgone' = forgone
  BY <1>1 DEF W!RunEnds, W!Judged, W!scan, W!timer
<1>3. Loose' \subseteq Loose
  BY <1>2, LooseShrinks
<1>4. r = run => run.status = "due"
  BY DEF W!InFlight, WatchInv, Shapes
<1>5. /\ IsRun(run') /\ \A q \in strays' : IsRun(q) /\ q.status = "due"
      /\ IF r = run THEN run'.status = how ELSE run' = run
  <2>1. IsRun(run) /\ \A q \in strays : IsRun(q) /\ q.status = "due"
    BY DEF WatchInv, Shapes
  <2>2. CASE r = run
    <3>1. PICK a : run' = [status |-> how, age |-> a, digest |-> Nobody]
      BY <1>2, <2>1, <2>2 DEF IsRun
    <3>. QED
      BY <1>2, <2>1, <2>2, <3>1 DEF IsRun
  <2>3. CASE r # run
    BY <1>2, <2>1, <2>3 DEF IsRun
  <2>. QED
    BY <2>2, <2>3
<1>6. Shapes' /\ Covers(feeds, {})'
  BY <1>2, <1>3, <1>5 DEF WatchInv, Shapes, Covers, Place, Reached, IsWork, IsStaged, IsReplay
<1>7. Scanning'
  BY <1>2, <1>3 DEF WatchInv, Scanning, Covers, Place, Reached
<1>8. ASSUME staged # Nobody, Outstanding PROVE Outstanding'
  <2>1. CASE r = run /\ how = "completed"
    <3>1. Covers(staged.feeds, d.said \cup d.over)
      BY <1>1, <1>4, <1>8, <2>1 DEF Outstanding
    <3>2. \A m \in Loose' : m \notin d.said \cup d.over
      BY <1>2, <2>1 DEF Loose, W!Settled
    <3>3. Covers(staged.feeds, {})'
      BY <1>2, <1>3, <3>1, <3>2 DEF Covers
    <3>. QED
      BY <1>2, <1>5, <2>1, <3>3 DEF Outstanding, Covers
  <2>2. CASE r = run /\ how = "failed"
    BY <1>5, <2>2 DEF Outstanding
  <2>3. CASE r # run
    BY <1>2, <1>3, <1>5, <1>8, <2>3 DEF Outstanding, Covers
  <2>. QED
    BY <2>1, <2>2, <2>3
<1>9. HandedOver'
  <2>1. staged = Nobody => Outstanding'
    BY <1>2 DEF Outstanding
  <2>2. Outstanding => Outstanding'
    BY <1>8, <2>1
  <2>. QED
    BY <1>2, <1>3, <2>2 DEF WatchInv, HandedOver, Covers
<1>. QED
  BY <1>6, <1>7, <1>9 DEF WatchInv

\* A step that touches none of what the invariant is about.
LEMMA WatchIdles ==
  ASSUME WatchInv,
         UNCHANGED <<said, feeds, staged, replay, noted, run, strays, pc, work, judged, forgone,
                     given, gap, floor>>
  PROVE  WatchInv'
<1>1. Loose' = Loose
  BY DEF Loose, W!Settled, W!Msgs, W!Kind
<1>2. Shapes' /\ Covers(feeds, {})'
  BY <1>1 DEF WatchInv, Shapes, Covers, Place, Reached, IsWork, IsRun, IsStaged, IsReplay
<1>3. Scanning' /\ HandedOver'
  BY <1>1 DEF WatchInv, Scanning, HandedOver, Outstanding, Covers, Place, Reached
<1>. QED
  BY <1>2, <1>3 DEF WatchInv

\* One step of the watch.
LEMMA WatchSteps ==
  ASSUME WatchInv, W!Next
  PROVE  WatchInv'
<1>1. CASE \E f \in Feeds, k \in Utterances : W!Say(f, k)
  BY <1>1, SayKeeps
<1>2. CASE W!ChangeTicket \/ W!Hold
  BY <1>2, WatchIdles DEF W!ChangeTicket, W!Hold, W!scan, W!timer, W!node, W!hist
<1>3. CASE W!Elapse
  BY <1>3, ElapseKeeps
<1>4. CASE \E open \in BOOLEAN : W!Tick(open)
  BY <1>4, SettleKeeps
<1>5. CASE W!Scan
  <2>1. CASE W!AskJira
    BY <2>1, JiraKeeps
  <2>2. CASE W!List
    BY <2>2, ListKeeps
  <2>3. CASE W!WriteQuiet
    BY <2>3, QuietKeeps
  <2>4. CASE W!WriteStaged
    BY <2>4, StagedKeeps
  <2>5. CASE W!Note
    BY <2>5, NoteKeeps
  <2>6. CASE \E f \in Feeds : W!SaveUp(f) \/ W!Fetch(f)
    BY <2>6, WaitKeeps, FetchKeeps
  <2>7. CASE \E how \in {"routed", "unrun"}, due \in BOOLEAN : W!Post(how, due)
    BY <2>7, PostKeeps
  <2>. QED
    BY <1>5, <2>1, <2>2, <2>3, <2>4, <2>5, <2>6, <2>7 DEF W!Scan
<1>6. CASE W!JiraFails \/ W!ListFails
  BY <1>6, JiraKeeps
<1>7. CASE \E f \in Feeds : W!FetchFails(f)
  BY <1>7, WaitKeeps
<1>8. CASE W!AnswerLost \/ W!ScanDies \/ W!TimerDies
  BY <1>8, FaultKeeps
<1>9. CASE W!Ends
  BY <1>9, EndKeeps DEF W!Ends
<1>. QED
  BY <1>1, <1>2, <1>3, <1>4, <1>5, <1>6, <1>7, <1>8, <1>9 DEF W!Next

\* Whatever is said, and whatever fails, nothing falls behind a committed cursor
\* but what came in the gap.
THEOREM WatchMissesOnlyTheGap == DeskSpec => []OnlyTheGapSlips
<1>. DEFINE I == part = "watch" => WatchInv
<1>1. DeskInit => I
  BY WatchStarts DEF DeskInit
<1>2. I /\ [DeskNext]_deskVars => I'
  <2>1. W!Next \/ UNCHANGED W!vars => (WatchInv => WatchInv')
    BY WatchSteps, WatchIdles DEF W!vars, W!scan, W!timer, W!node, W!hist
  <2>. QED
    BY <2>1, StepOfPart
<1>3. I => OnlyTheGapSlips
  <2>1. WatchInv => W!OnlyTheGapSlips
    BY DEF WatchInv, Shapes, Place, Reached, Covers, Loose, W!OnlyTheGapSlips, W!Behind
  <2>. QED
    BY <2>1 DEF OnlyTheGapSlips
<1>. QED
  BY <1>1, <1>2, <1>3, PTL DEF DeskSpec
-----------------------------------------------------------------------------
(***************************************************************************)
(* Alarm: how many failures a message stands for.  The sum over the posts  *)
(* under way is the size of a set: a post that stands for so many failures *)
(* has so many shares in it.                                               *)
(***************************************************************************)
Posting == {f \in Failures : failure[f].at = "posting"}
Shares == {p \in Failures \X Nat : failure[p[1]].at = "posting" /\ p[2] <= failure[p[1]].held}
Started == {f \in Failures : failure[f].at # "none"}

AlarmInv ==
    /\ failure \in [Failures -> [at : {"none", "held", "posting", "over"}, held : Nat]]
    /\ suppressed \in Nat /\ reported \in Nat
    /\ IsFiniteSet(Started) /\ IsFiniteSet(Shares)
    /\ Cardinality(Started) = reported + suppressed + Cardinality(Shares)

\* As the module writes the sum: one post at a time, in some order.
Summed ==
    CHOOSE iter : iter = [s \in SUBSET Posting |->
        IF s = {} THEN 0 ELSE LET x == CHOOSE x \in s : TRUE IN failure[x].held + 1 + iter[s \ {x}]]

LEMMA CountedAsSummed ==
  V!NoneUncounted <=> Cardinality(Started) = reported + suppressed + Summed[Posting]
BY DEF V!MapThenSumSet, V!MapThenFoldSet, Summed, V!NoneUncounted, Posting, Started,
       V!Cardinality, Cardinality

\* The shares of one post.
LEMMA SharesOfOne ==
  ASSUME NEW f, NEW n \in Nat
  PROVE  IsFiniteSet({f} \X (0..n)) /\ Cardinality({f} \X (0..n)) = n + 1
<1>1. IsFiniteSet({f}) /\ Cardinality({f}) = 1
  BY FS_Singleton
<1>2. IsFiniteSet(0..n) /\ Cardinality(0..n) = n + 1
  <2>1. PICK zero \in Int : zero = 0
    OBVIOUS
  <2>2. IsFiniteSet(zero..n) /\ Cardinality(zero..n) = IF zero > n THEN 0 ELSE n - zero + 1
    BY FS_Interval
  <2>. QED
    BY <2>1, <2>2
<1>3. PICK numbers : numbers = 0..n
  OBVIOUS
<1>4. IsFiniteSet({f} \X numbers) /\ Cardinality({f} \X numbers) = Cardinality({f}) * Cardinality(numbers)
  BY <1>1, <1>2, <1>3, FS_Product
<1>. QED
  BY <1>1, <1>2, <1>3, <1>4

\* Two sets with nothing in common.
LEMMA Apart ==
  ASSUME NEW T, NEW U, IsFiniteSet(T), IsFiniteSet(U), T \cap U = {}
  PROVE  /\ IsFiniteSet(T \cup U) /\ Cardinality(T \cup U) = Cardinality(T) + Cardinality(U)
         /\ Cardinality(T) \in Nat /\ Cardinality(U) \in Nat
<1>1. IsFiniteSet(T \cup U) /\ Cardinality(T \cup U) = Cardinality(T) + Cardinality(U) - Cardinality(T \cap U)
  BY FS_Union
<1>2. Cardinality(T \cap U) = 0
  BY FS_EmptySet
<1>3. Cardinality(T) \in Nat /\ Cardinality(U) \in Nat
  BY FS_CardinalityType
<1>. QED
  BY <1>1, <1>2, <1>3

\* The shares of some of the posts: those of one of them, and of the others.
SharesOf(posts) == {p \in Shares : p[1] \in posts}
LEMMA OneAtATime ==
  ASSUME AlarmInv, NEW s \in SUBSET Posting, NEW x \in s
  PROVE  Cardinality(SharesOf(s)) = failure[x].held + 1 + Cardinality(SharesOf(s \ {x}))
<1>1. PICK n \in Nat : n = failure[x].held
  BY DEF AlarmInv, Posting
<1>2. PICK own, others : own = {x} \X (0..n) /\ others = SharesOf(s \ {x})
  OBVIOUS
<1>3. IsFiniteSet(own) /\ Cardinality(own) = n + 1
  BY <1>2, SharesOfOne
<1>4. IsFiniteSet(others)
  <2>1. others \in SUBSET Shares
    BY <1>2 DEF SharesOf
  <2>. QED
    BY <2>1, FS_Subset DEF AlarmInv
<1>5. SharesOf(s) = own \cup others
  <2>1. ASSUME NEW p PROVE p \in SharesOf(s) <=> p \in own \cup others
    BY <1>1, <1>2 DEF SharesOf, Shares, Posting
  <2>. QED
    BY <2>1
<1>6. own \cap others = {}
  BY <1>2 DEF SharesOf
<1>7. Cardinality(SharesOf(s)) = Cardinality(own) + Cardinality(others) /\ Cardinality(others) \in Nat
  BY <1>3, <1>4, <1>5, <1>6, Apart
<1>. QED
  BY <1>1, <1>2, <1>3, <1>7

\* The sum is the number of the shares.
LEMMA SummedIsShares == ASSUME AlarmInv PROVE Summed[Posting] = Cardinality(Shares)
<1>. DEFINE Sums(sum) == sum = [s \in SUBSET Posting |->
                              IF s = {} THEN 0
                              ELSE LET x == CHOOSE x \in s : TRUE IN failure[x].held + 1 + sum[s \ {x}]]
<1>1. PICK size : size = [s \in SUBSET Posting |-> Cardinality(SharesOf(s))]
  OBVIOUS
<1>2. Sums(size)
  <2>1. ASSUME NEW s \in SUBSET Posting
        PROVE  size[s] = IF s = {} THEN 0
                      ELSE LET x == CHOOSE x \in s : TRUE IN failure[x].held + 1 + size[s \ {x}]
    <3>1. CASE s = {}
      <4>1. SharesOf(s) = {}
        BY <3>1 DEF SharesOf
      <4>. QED
        BY <1>1, <3>1, <4>1, FS_EmptySet
    <3>2. CASE s # {}
      <4>1. PICK x \in s : x = CHOOSE y \in s : TRUE
        BY <3>2
      <4>2. size[s] = Cardinality(SharesOf(s)) /\ size[s \ {x}] = Cardinality(SharesOf(s \ {x}))
        BY <1>1
      <4>3. size[s] = failure[x].held + 1 + size[s \ {x}]
        BY <4>2, OneAtATime
      <4>. QED
        BY <3>2, <4>1, <4>3
    <3>. QED
      BY <3>1, <3>2
  <2>. QED
    BY <1>1, <2>1
<1>3. Summed = CHOOSE sum : Sums(sum)
  BY DEF Summed
<1>. HIDE DEF Sums
<1>4. Sums(Summed)
  BY <1>2, <1>3
<1>5. PICK sum : sum = Summed /\ Sums(sum)
  BY <1>4
<1>6. IsFiniteSet(Posting)
  <2>1. Posting \in SUBSET Started
    BY DEF Posting, Started
  <2>. QED
    BY <2>1, FS_Subset DEF AlarmInv
<1>. DEFINE Off == {n \in Nat : \E s \in SUBSET Posting : Cardinality(s) = n /\ sum[s] # Cardinality(SharesOf(s))}
<1>7. Off = {}
  <2>1. SUFFICES ASSUME Off # {} PROVE FALSE
    OBVIOUS
  <2>2. PICK n \in Off : \A m \in Off : n <= m
    <3>1. Off \in SUBSET Nat
      OBVIOUS
    <3>. HIDE DEF Off
    <3>. QED
      BY <2>1, <3>1, SmallestOf
  <2>3. PICK s \in SUBSET Posting : Cardinality(s) = n /\ sum[s] # Cardinality(SharesOf(s))
    OBVIOUS
  <2>4. sum[s] = IF s = {} THEN 0
               ELSE LET x == CHOOSE x \in s : TRUE IN failure[x].held + 1 + sum[s \ {x}]
    BY <1>5 DEF Sums
  <2>5. IsFiniteSet(s)
    BY <1>6, FS_Subset
  <2>6. CASE s = {}
    <3>1. SharesOf(s) = {}
      BY <2>6 DEF SharesOf
    <3>. QED
      BY <2>3, <2>4, <2>6, <3>1, FS_EmptySet
  <2>7. CASE s # {}
    <3>1. PICK x \in s : x = CHOOSE y \in s : TRUE
      BY <2>7
    <3>2. sum[s] = failure[x].held + 1 + sum[s \ {x}]
      BY <2>4, <2>7, <3>1
    <3>3. Cardinality(s \ {x}) = n - 1 /\ Cardinality(s \ {x}) \in Nat
      BY <2>3, <2>5, FS_RemoveElement, FS_CardinalityType
    <3>4. s \ {x} \in SUBSET Posting
      OBVIOUS
    <3>5. n - 1 \notin Off
      <4>1. n \in Nat
        OBVIOUS
      <4>. QED
        BY <2>2, <3>3, <4>1
    <3>6. sum[s \ {x}] = Cardinality(SharesOf(s \ {x}))
      BY <3>3, <3>4, <3>5
    <3>7. Cardinality(SharesOf(s)) = failure[x].held + 1 + Cardinality(SharesOf(s \ {x}))
      BY OneAtATime
    <3>. QED
      BY <2>3, <3>2, <3>6, <3>7
  <2>. QED
    BY <2>6, <2>7
<1>8. sum[Posting] = Cardinality(SharesOf(Posting))
  <2>1. Cardinality(Posting) \in Nat
    BY <1>6, FS_CardinalityType
  <2>. QED
    BY <1>7, <2>1
<1>9. SharesOf(Posting) = Shares
  BY DEF SharesOf, Shares, Posting
<1>. QED
  BY <1>5, <1>8, <1>9

-----------------------------------------------------------------------------
\* Nobody failed.
LEMMA AlarmStarts == V!AlarmInit => AlarmInv
<1>. SUFFICES ASSUME V!AlarmInit PROVE AlarmInv
  OBVIOUS
<1>1. /\ suppressed = 0 /\ reported = 0
      /\ failure = [f \in Failures |-> [at |-> "none", held |-> 0]]
  BY DEF V!AlarmInit
<1>2. Started = {} /\ Shares = {}
  BY <1>1 DEF Started, Shares
<1>. QED
  BY <1>1, <1>2, FS_EmptySet DEF AlarmInv

\* A failure that was not yet told is one more.
LEMMA OneMoreStarted ==
  ASSUME AlarmInv, NEW f \in Failures, failure[f].at = "none",
         Started' = Started \cup {f}
  PROVE  IsFiniteSet(Started)' /\ Cardinality(Started)' = Cardinality(Started) + 1
<1>1. PICK T : T = Started
  OBVIOUS
<1>2. f \notin T /\ IsFiniteSet(T)
  BY <1>1 DEF Started, AlarmInv
<1>3. IsFiniteSet(T \cup {f}) /\ Cardinality(T \cup {f}) = Cardinality(T) + 1
  BY <1>2, FS_AddElement
<1>. QED
  BY <1>1, <1>3

\* A post that is over: its shares go, and no others.
LEMMA PostEnds ==
  ASSUME AlarmInv, NEW f \in Failures, failure[f].at = "posting",
         NEW n \in Nat, n = failure[f].held,
         Shares' = Shares \ ({f} \X (0..n)), Started' = Started
  PROVE  /\ IsFiniteSet(Shares)' /\ IsFiniteSet(Started)'
         /\ Cardinality(Shares)' \in Nat /\ Cardinality(Shares) \in Nat
         /\ Cardinality(Shares) = Cardinality(Shares)' + n + 1
         /\ Cardinality(Started)' = Cardinality(Started)
<1>1. PICK own, others, all, T : /\ own = {f} \X (0..n) /\ all = Shares /\ others = all \ own /\ T = Started
  OBVIOUS
<1>2. IsFiniteSet(own) /\ Cardinality(own) = n + 1
  BY <1>1, SharesOfOne
<1>3. IsFiniteSet(all) /\ IsFiniteSet(T)
  BY <1>1 DEF AlarmInv
<1>4. IsFiniteSet(others)
  <2>1. others \in SUBSET all
    BY <1>1
  <2>. QED
    BY <1>3, <2>1, FS_Subset
<1>5. all = own \cup others /\ own \cap others = {}
  <2>1. own \subseteq all
    BY <1>1 DEF Shares
  <2>. QED
    BY <1>1, <2>1
<1>6. Cardinality(all) = Cardinality(own) + Cardinality(others) /\ Cardinality(others) \in Nat
  BY <1>2, <1>4, <1>5, Apart
<1>7. Shares' = others /\ Started' = T
  BY <1>1
<1>. QED
  BY <1>1, <1>2, <1>3, <1>4, <1>6, <1>7

\* One step of the alarm.
LEMMA AlarmSteps ==
  ASSUME AlarmInv, V!AlarmNext
  PROVE  AlarmInv'
<1>1. CASE V!Passes
  BY <1>1 DEF V!Passes, AlarmInv, Started, Shares
<1>2. ASSUME NEW f \in Failures, V!Send(f) PROVE AlarmInv'
  <2>1. /\ failure[f].at = "none" /\ reported' = reported
        /\ failure \in [Failures -> [at : {"none", "held", "posting", "over"}, held : Nat]]
        /\ suppressed \in Nat /\ reported \in Nat
        /\ Cardinality(Started) = reported + suppressed + Cardinality(Shares)
    BY <1>2 DEF V!Send, AlarmInv
  <2>2. CASE /\ suppressed' = suppressed + 1 /\ failure' = [failure EXCEPT ![f].at = "held"]
    <3>1. failure' \in [Failures -> [at : {"none", "held", "posting", "over"}, held : Nat]]
      BY <2>1, <2>2
    <3>2. /\ \A g \in Failures \ {f} : failure'[g] = failure[g]
          /\ failure'[f].at = "held"
      BY <2>1, <2>2
    <3>3. Started' = Started \cup {f}
      BY <2>1, <3>2 DEF Started
    <3>4. Shares' = Shares
      BY <2>1, <3>2 DEF Shares
    <3>5. IsFiniteSet(Started)' /\ Cardinality(Started)' = Cardinality(Started) + 1
      BY <2>1, <3>3, OneMoreStarted
    <3>6. IsFiniteSet(Shares)' /\ Cardinality(Shares)' = Cardinality(Shares) /\ Cardinality(Shares) \in Nat
      BY <3>4, FS_CardinalityType DEF AlarmInv
    <3>. QED
      BY <2>1, <2>2, <3>1, <3>5, <3>6 DEF AlarmInv
  <2>3. CASE /\ suppressed' = 0
             /\ failure' = [failure EXCEPT ![f] = [at |-> "posting", held |-> suppressed]]
    <3>1. failure' \in [Failures -> [at : {"none", "held", "posting", "over"}, held : Nat]]
      BY <2>1, <2>3
    <3>2. /\ \A g \in Failures \ {f} : failure'[g] = failure[g]
          /\ failure'[f].at = "posting" /\ failure'[f].held = suppressed
      BY <2>1, <2>3
    <3>3. Started' = Started \cup {f}
      BY <2>1, <3>2 DEF Started
    <3>4. PICK n, own, all : n = suppressed /\ own = {f} \X (0..n) /\ all = Shares
      OBVIOUS
    <3>5. Shares' = all \cup own /\ all \cap own = {}
      <4>1. ASSUME NEW p PROVE p \in Shares' <=> p \in all \cup own
        BY <2>1, <3>2, <3>4 DEF Shares
      <4>2. all \cap own = {}
        BY <2>1, <3>4 DEF Shares
      <4>. QED
        BY <4>1, <4>2
    <3>6. IsFiniteSet(own) /\ Cardinality(own) = n + 1
      BY <2>1, <3>4, SharesOfOne
    <3>7. IsFiniteSet(all)
      BY <3>4 DEF AlarmInv
    <3>8. /\ IsFiniteSet(all \cup own) /\ Cardinality(all \cup own) = Cardinality(all) + Cardinality(own)
          /\ Cardinality(all) \in Nat
      BY <3>5, <3>6, <3>7, Apart
    <3>9. IsFiniteSet(Started)' /\ Cardinality(Started)' = Cardinality(Started) + 1
      BY <2>1, <3>3, OneMoreStarted
    <3>10. IsFiniteSet(Shares)' /\ Cardinality(Shares)' = Cardinality(Shares) + suppressed + 1
      BY <2>1, <3>4, <3>5, <3>6, <3>8
    <3>. QED
      BY <2>1, <2>3, <3>1, <3>4, <3>8, <3>9, <3>10 DEF AlarmInv
  <2>. QED
    BY <1>2, <2>2, <2>3 DEF V!Send
<1>3. ASSUME NEW f \in Failures, V!Answered(f) \/ V!ConnectionFails(f) PROVE AlarmInv'
  <2>1. /\ failure \in [Failures -> [at : {"none", "held", "posting", "over"}, held : Nat]]
        /\ suppressed \in Nat /\ reported \in Nat
        /\ Cardinality(Started) = reported + suppressed + Cardinality(Shares)
    BY DEF AlarmInv
  <2>2. PICK n \in Nat : n = failure[f].held
    BY <2>1
  <2>3. /\ failure[f].at = "posting"
        /\ \/ reported' = reported + n + 1 /\ suppressed' = suppressed
           \/ suppressed' = suppressed + n + 1 /\ reported' = reported
    BY <1>3, <2>2 DEF V!Answered, V!ConnectionFails
  <2>4. PICK where \in {"over", "held"} : failure' = [failure EXCEPT ![f] = [at |-> where, held |-> 0]]
    BY <1>3 DEF V!Answered, V!ConnectionFails
  <2>5. failure' \in [Failures -> [at : {"none", "held", "posting", "over"}, held : Nat]]
    BY <2>1, <2>4
  <2>6. /\ \A g \in Failures \ {f} : failure'[g] = failure[g]
        /\ failure'[f].at # "posting" /\ failure'[f].at # "none"
    BY <2>1, <2>4
  <2>7. Started' = Started
    BY <2>3, <2>6 DEF Started
  <2>8. Shares' = Shares \ ({f} \X (0..n))
    <3>1. PICK all : all = Shares
      OBVIOUS
    <3>2. ASSUME NEW p PROVE p \in Shares' <=> p \in all \ ({f} \X (0..n))
      BY <2>2, <2>3, <2>6, <3>1 DEF Shares
    <3>. QED
      BY <3>1, <3>2
  <2>9. /\ IsFiniteSet(Shares)' /\ IsFiniteSet(Started)'
        /\ Cardinality(Shares)' \in Nat /\ Cardinality(Shares) \in Nat
        /\ Cardinality(Shares) = Cardinality(Shares)' + n + 1
        /\ Cardinality(Started)' = Cardinality(Started)
    BY <2>2, <2>3, <2>7, <2>8, PostEnds
  <2>. QED
    BY <2>1, <2>3, <2>5, <2>9 DEF AlarmInv
<1>. QED
  BY <1>1, <1>2, <1>3 DEF V!AlarmNext

\* A step that tells of no failure.
LEMMA AlarmRestsKeep ==
  ASSUME AlarmInv, UNCHANGED V!alarmVars
  PROVE  AlarmInv'
BY DEF V!alarmVars, AlarmInv, Started, Shares

\* Every failure is in a message delivered or on its way, or counted for the next,
\* however posts overlap, fail and give their count back.
THEOREM AlarmCountsAll == DeskSpec => []NoneUncounted
<1>. DEFINE I == part = "alarm" => AlarmInv
<1>1. DeskInit => I
  BY AlarmStarts DEF DeskInit
<1>2. I /\ [DeskNext]_deskVars => I'
  BY AlarmSteps, AlarmRestsKeep, StepOfPart
<1>3. I => NoneUncounted
  <2>1. AlarmInv => V!NoneUncounted
    BY CountedAsSummed, SummedIsShares DEF AlarmInv
  <2>. QED
    BY <2>1 DEF NoneUncounted
<1>. QED
  BY <1>1, <1>2, <1>3, PTL DEF DeskSpec
=============================================================================
