-------------------------- MODULE FrontDoorProofs --------------------------
(***************************************************************************)
(* Theorems about the front door, for all requests, signatures and alerts, *)
(* every window, lease, threshold and bound; and about the other parts of  *)
(* Entry: which names a fingerprint is read from (Config), what is routed  *)
(* (Walk), whose session a reply gets (Thread) and what an answer given    *)
(* for nothing rests on (Refire).                                          *)
(***************************************************************************)
EXTENDS Entry, FiniteSetTheorems, SequenceTheorems, WellFoundedInduction, TLAPS

-----------------------------------------------------------------------------
(***************************************************************************)
(* The first layer: types, and that a request on the ledger is past its    *)
(* record, so that Record never writes a second event of one request.      *)
(***************************************************************************)
Past == {"complete", "reply", "over"}

\* A request on the ledger does not come back to its record.
Unrepeated == \A i \in 1..Len(events) : req[events[i].req].phase \in Past

\* What Record writes is complete.
Ready == \A r \in Requests : req[r].phase \in {"dedup", "record"} =>
             /\ req[r].at \in 1..MaxTime
             /\ req[r].phase = "record" => req[r].verdict \in Outcomes

DoorInv == TypeOK /\ Unrepeated /\ Ready

\* An empty ledger and fresh requests satisfy it.
LEMMA DoorInit == Init => DoorInv
<1> SUFFICES ASSUME Init PROVE DoorInv
  OBVIOUS
<1>1. NewReq \in ReqType
  BY FrontDoorAssumption DEF NewReq, ReqType
<1>2. NoLease \in LeaseType
  BY FrontDoorAssumption DEF NoLease, LeaseType
<1>3. Len(events) = 0 /\ events \in Seq(EventType) /\ hits \in Seq(1..MaxTime)
  BY DEF Init
<1>4. TypeOK
  BY <1>1, <1>2, <1>3, FrontDoorAssumption DEF Init, TypeOK
<1>5. Unrepeated /\ Ready
  BY <1>3 DEF Init, Unrepeated, Ready, NewReq
<1>. QED BY <1>4, <1>5 DEF DoorInv

\* Dropping a lease leaves a table of leases.
LEMMA ReleasedType ==
  ASSUME TypeOK, NEW r \in Requests
  PROVE  Released(r) \in [Signatures -> LeaseType]
BY FrontDoorAssumption DEF TypeOK, Released, Owns, Signed, NoLease, LeaseType

\* And so does dropping the expired ones.
LEMMA SweptType ==
  ASSUME TypeOK PROVE Swept \in [Signatures -> LeaseType]
BY FrontDoorAssumption DEF TypeOK, Swept, NoLease, LeaseType

\* What the fuse remembers is a list of arrivals.
LEMMA RememberedType ==
  ASSUME TypeOK PROVE Remembered \in Seq(1..MaxTime)
<1>1. hits \in Seq(1..MaxTime) /\ Len(hits) \in Nat
  BY DEF TypeOK
<1>2. IsFiniteSet(1..Len(hits)) /\ Cardinality(1..Len(hits)) = Len(hits)
  BY <1>1, FS_Interval
<1>3. IsFiniteSet(Forgotten) /\ Cardinality(Forgotten) <= Len(hits)
  BY <1>2, FS_Subset DEF Forgotten
<1>4. Cardinality(Forgotten) \in Nat
  BY <1>3, FS_CardinalityType
<1> DEFINE first == Cardinality(Forgotten) + 1
           last  == Len(hits)
<1>5. first \in Int /\ first >= 1 /\ last \in Int /\ last = Len(hits)
  BY <1>1, <1>4
<1> HIDE DEF first, last
<1>7. \A i \in first..last : hits[i] \in 1..MaxTime
  <2> SUFFICES ASSUME NEW i \in first..last PROVE hits[i] \in 1..MaxTime
    OBVIOUS
  <2>1. i \in 1..Len(hits)
    BY <1>1, <1>5
  <2>. QED BY <1>1, <2>1, ElementOfSeq, Zenon
<1>6. SubSeq(hits, first, last) \in Seq(1..MaxTime)
  BY <1>5, <1>7, SubSeqProperties, Zenon
<1>. QED BY <1>6 DEF Remembered, first, last

\* A step that writes no event and takes no request back keeps the ledger's
\* requests past their record.
LEMMA QuietLedger ==
  ASSUME DoorInv, UNCHANGED events,
         \A r \in Requests : req[r].phase \in Past => req'[r].phase \in Past
  PROVE  /\ Unrepeated'
         /\ events' \in Seq(EventType)
         /\ (\A i, j \in 1..Len(events) : events[i].req = events[j].req => i = j)'
<1>1. \A i \in 1..Len(events) : events[i] \in EventType
  BY DEF DoorInv, TypeOK
<1>2. \A i \in 1..Len(events) : events[i].req \in Requests
  BY <1>1 DEF EventType
<1>. QED BY <1>2 DEF DoorInv, TypeOK, Unrepeated

\* A request that moves on stays a request, fit for the phase it comes to, and
\* is not taken back behind its record.
LEMMA Moved ==
  ASSUME DoorInv, NEW r \in Requests, NEW new \in ReqType,
         req' = [req EXCEPT ![r] = new],
         new.phase \in {"dedup", "record"} => new.at \in 1..MaxTime,
         new.phase = "record" => new.verdict \in Outcomes,
         req[r].phase \in Past => new.phase \in Past
  PROVE  /\ req' \in [Requests -> ReqType]
         /\ Ready'
         /\ \A q \in Requests : req[q].phase \in Past => req'[q].phase \in Past
<1>1. req \in [Requests -> ReqType]
  BY DEF DoorInv, TypeOK
<1>2. req' \in [Requests -> ReqType] /\ req'[r] = new
      /\ \A q \in Requests \ {r} : req'[q] = req[q]
  BY <1>1
<1>3. Ready'
  BY <1>2 DEF DoorInv, Ready
<1>. QED BY <1>2, <1>3

\* The handler answers.
LEMMA Answered ==
  ASSUME DoorInv, NEW r \in Requests,
         NEW answer \in {"busy", "replayed", "refused", "error", "lost", "processed"},
         req' = Over(r, answer)
  PROVE  /\ req' \in [Requests -> ReqType]
         /\ Ready'
         /\ \A q \in Requests : req[q].phase \in Past => req'[q].phase \in Past
<1> DEFINE new == [req[r] EXCEPT !.phase = "over", !.heard = answer]
<1>1. req[r] \in ReqType /\ req \in [Requests -> ReqType]
  BY DEF DoorInv, TypeOK
<1>2. new \in ReqType /\ new.phase = "over"
  BY <1>1 DEF ReqType
<1>3. req' = [req EXCEPT ![r] = new]
  BY <1>1 DEF Over
<1> HIDE DEF new
<1>. QED BY <1>2, <1>3, Moved DEF Past

\* A request that arrives is let in with a lease or without, or is answered.
LEMMA DoorArriving ==
  ASSUME DoorInv, NEW r \in Requests, Arriving(r) PROVE DoorInv'
<1> DEFINE new == [req[r] EXCEPT !.phase = "fuse", !.life = crashes]
<1>1. req[r] \in ReqType /\ req \in [Requests -> ReqType] /\ crashes \in Nat
  BY DEF DoorInv, TypeOK
<1>2. new \in ReqType /\ new.phase = "fuse"
  BY <1>1 DEF ReqType
<1>3. CASE Enter(r)
  <2>1. req' = [req EXCEPT ![r] = new] /\ req[r].phase = "new"
    BY <1>1, <1>3 DEF Enter
  <2> HIDE DEF new
  <2>2. /\ req' \in [Requests -> ReqType] /\ Ready'
        /\ \A q \in Requests : req[q].phase \in Past => req'[q].phase \in Past
    BY <1>2, <2>1, Moved DEF Past
  <2>. QED BY <1>3, <2>2, QuietLedger DEF Enter, DoorInv, TypeOK, tables
<1>4. CASE Acquire(r)
  <2>1. req' = [req EXCEPT ![r] = new] /\ req[r].phase = "new"
    BY <1>1, <1>4 DEF Acquire
  <2> HIDE DEF new
  <2>2. /\ req' \in [Requests -> ReqType] /\ Ready'
        /\ \A q \in Requests : req[q].phase \in Past => req'[q].phase \in Past
    BY <1>2, <2>1, Moved DEF Past
  <2>3. pending' \in [Signatures -> LeaseType]
    <3> DEFINE lease == [owner |-> r, expires |-> now + Lease]
    <3>1. lease \in LeaseType
      BY FrontDoorAssumption DEF LeaseType, DoorInv, TypeOK
    <3>2. pending' = [Swept EXCEPT ![SignatureOf[r]] = lease]
      BY <1>4 DEF Acquire
    <3> HIDE DEF lease
    <3>. QED BY <3>1, <3>2, SweptType DEF DoorInv
  <2>. QED BY <1>4, <2>2, <2>3, QuietLedger DEF Acquire, DoorInv, TypeOK
<1>5. CASE TurnAway(r)
  <2>1. /\ req' \in [Requests -> ReqType] /\ Ready'
        /\ \A q \in Requests : req[q].phase \in Past => req'[q].phase \in Past
    BY <1>5, Answered DEF TurnAway
  <2>. QED BY <1>5, <2>1, SweptType, QuietLedger DEF TurnAway, DoorInv, TypeOK
<1>6. CASE AnswerReplay(r)
  <2>1. /\ req' \in [Requests -> ReqType] /\ Ready'
        /\ \A q \in Requests : req[q].phase \in Past => req'[q].phase \in Past
    BY <1>6, Answered DEF AnswerReplay
  <2>. QED BY <1>6, <2>1, QuietLedger DEF AnswerReplay, DoorInv, TypeOK, tables
<1>. QED BY <1>3, <1>4, <1>5, <1>6 DEF Arriving

\* The fuse answers with 429, or sends the request on to the stages or, past
\* them, to its record.
LEMMA DoorFuse ==
  ASSUME DoorInv, NEW r \in Requests, Fuse(r) PROVE DoorInv'
<1> DEFINE stop == [req[r] EXCEPT !.phase = "record", !.at = now, !.verdict = "suppressed"]
           walk == [req[r] EXCEPT !.phase = "dedup", !.at = now, !.behind = Len(events)]
<1>1. req[r] \in ReqType /\ req \in [Requests -> ReqType] /\ now \in 1..MaxTime
      /\ Len(events) \in Nat
  BY DEF DoorInv, TypeOK
<1>0. now \in 0..MaxTime /\ "suppressed" \in Outcomes
  BY <1>1, FrontDoorAssumption DEF Outcomes
<1>2. stop \in ReqType /\ stop.phase = "record" /\ stop.at = now /\ stop.verdict \in Outcomes
  BY <1>0, <1>1 DEF ReqType
<1>3. walk \in ReqType /\ walk.phase = "dedup" /\ walk.at = now
  BY <1>0, <1>1 DEF ReqType
<1>4. \/ req' = Over(r, "refused") /\ pending' = Released(r)
      \/ req' = [req EXCEPT ![r] = stop] /\ pending' = pending
      \/ req' = [req EXCEPT ![r] = walk] /\ pending' = pending
  <2>1. \/ req' = Over(r, "refused") /\ pending' = Released(r)
        \/ req' = [req EXCEPT ![r].phase = "record", ![r].at = now, ![r].verdict = "suppressed"]
           /\ pending' = pending
        \/ req' = [req EXCEPT ![r].phase = "dedup", ![r].at = now, ![r].behind = Len(events)]
           /\ pending' = pending
    BY DEF Fuse
  <2>. QED BY <1>1, <2>1
<1> HIDE DEF stop, walk
<1>5. /\ req' \in [Requests -> ReqType] /\ Ready'
      /\ \A q \in Requests : req[q].phase \in Past => req'[q].phase \in Past
  <2>1. req[r].phase = "fuse"
    BY DEF Fuse
  <2>2. CASE req' = Over(r, "refused")
    BY <2>2, Answered
  <2>3. CASE req' = [req EXCEPT ![r] = stop]
    BY <1>1, <1>2, <2>1, <2>3, Moved DEF Past
  <2>4. CASE req' = [req EXCEPT ![r] = walk]
    BY <1>1, <1>3, <2>1, <2>4, Moved DEF Past
  <2>. QED BY <1>4, <2>2, <2>3, <2>4
<1>6. pending' \in [Signatures -> LeaseType]
  BY <1>4, ReleasedType DEF DoorInv, TypeOK
<1>7. hits' \in Seq(1..MaxTime)
  <2>1. Append(Remembered, now) \in Seq(1..MaxTime)
    BY <1>1, RememberedType, AppendProperties DEF DoorInv
  <2>. QED BY <2>1 DEF Fuse, DoorInv, TypeOK
<1>. QED BY <1>5, <1>6, <1>7, QuietLedger DEF Fuse, DoorInv, TypeOK

\* The dedup stage and those after it leave the request ready for its record.
LEMMA DoorDedup ==
  ASSUME DoorInv, NEW r \in Requests, Dedup(r) PROVE DoorInv'
<1>1. req[r] \in ReqType /\ req \in [Requests -> ReqType] /\ req[r].phase = "dedup"
      /\ req[r].at \in 1..MaxTime
  BY DEF DoorInv, TypeOK, Ready, Dedup
<1>2. PICK verdict \in {"duplicate", "routed", "held"}, twin \in Nat :
         req' = [req EXCEPT ![r] = [req[r] EXCEPT !.phase = "record", !.verdict = verdict,
                                                  !.twin = twin]]
  <2>1. CASE Twins(r) = {}
    <3>1. PICK verdict \in {"routed", "held"} :
             req' = [req EXCEPT ![r].phase = "record", ![r].verdict = verdict]
      BY <2>1 DEF Dedup
    <3>2. req[r].twin \in Nat
      BY <1>1 DEF ReqType
    <3>3. [req[r] EXCEPT !.phase = "record", !.verdict = verdict]
          = [req[r] EXCEPT !.phase = "record", !.verdict = verdict, !.twin = req[r].twin]
      BY <1>1 DEF ReqType
    <3>4. req' = [req EXCEPT ![r] = [req[r] EXCEPT !.phase = "record", !.verdict = verdict]]
      BY <1>1, <3>1
    <3>. QED BY <3>2, <3>3, <3>4
  <2>2. CASE Twins(r) # {}
    <3>1. PICK twin \in Twins(r) :
             req' = [req EXCEPT ![r].phase = "record", ![r].verdict = "duplicate",
                                ![r].twin = twin]
      BY <2>2 DEF Dedup
    <3>2. twin \in Nat
      BY DEF Twins
    <3>. QED BY <1>1, <3>1, <3>2
  <2>. QED BY <2>1, <2>2
<1> DEFINE new == [req[r] EXCEPT !.phase = "record", !.verdict = verdict, !.twin = twin]
<1>3. /\ new \in ReqType /\ new.phase = "record" /\ new.at = req[r].at
      /\ new.verdict \in Outcomes /\ req' = [req EXCEPT ![r] = new]
  BY <1>1, <1>2 DEF ReqType, Outcomes
<1> HIDE DEF new
<1>4. /\ req' \in [Requests -> ReqType] /\ Ready'
      /\ \A q \in Requests : req[q].phase \in Past => req'[q].phase \in Past
  BY <1>1, <1>3, Moved DEF Past
<1>. QED BY <1>4, QuietLedger DEF Dedup, DoorInv, TypeOK, tables

EventOf(r) == [req |-> r, at |-> req[r].at, outcome |-> req[r].verdict, twin |-> req[r].twin]

\* The record writes one event, of a request that has none yet.
LEMMA DoorRecord ==
  ASSUME DoorInv, NEW r \in Requests, Record(r) PROVE DoorInv'
<1> DEFINE phase == IF Signed(r) THEN "complete" ELSE "reply"
           new   == [req[r] EXCEPT !.phase = phase]
<1>1. /\ req[r] \in ReqType /\ req \in [Requests -> ReqType] /\ req[r].phase = "record"
      /\ req[r].at \in 1..MaxTime /\ req[r].verdict \in Outcomes /\ req[r].twin \in Nat
  BY DEF DoorInv, TypeOK, Ready, Record, ReqType
<1>2. phase \in Past /\ phase \notin {"dedup", "record"}
  BY DEF Past
<1>3. new \in ReqType /\ new.phase = phase
  BY <1>1, <1>2 DEF ReqType, Past
<1>4. req' = [req EXCEPT ![r] = new]
  BY <1>1 DEF Record
<1>5. EventOf(r) \in EventType /\ EventOf(r).req = r
  BY <1>1 DEF EventOf, EventType
<1> HIDE DEF phase, new
<1>6. /\ req' \in [Requests -> ReqType] /\ Ready'
      /\ \A q \in Requests : req[q].phase \in Past => req'[q].phase \in Past
  BY <1>1, <1>2, <1>3, <1>4, Moved
<1>7. req'[r].phase \in Past
  BY <1>1, <1>2, <1>3, <1>4
<1>8. events \in Seq(EventType) /\ events' = Append(events, EventOf(r))
  BY DEF DoorInv, TypeOK, Record, EventOf
<1>9. /\ events' \in Seq(EventType) /\ Len(events') = Len(events) + 1 /\ Len(events) \in Nat
      /\ \A i \in 1..Len(events) : events'[i] = events[i] /\ events[i] \in EventType
      /\ events'[Len(events) + 1] = EventOf(r)
  BY <1>5, <1>8, AppendProperties
<1>10. \A i \in 1..Len(events) : /\ events'[i].req = events[i].req
                                 /\ events[i].req \in Requests
                                 /\ req[events[i].req].phase \in Past
                                 /\ events[i].req # r
  <2>1. \A i \in 1..Len(events) : events[i].req \in Requests
    BY <1>9 DEF EventType
  <2>. QED BY <1>1, <1>9, <2>1 DEF DoorInv, Unrepeated, Past
<1>11. Unrepeated'
  <2> SUFFICES ASSUME NEW i \in 1..Len(events') PROVE req'[events'[i].req].phase \in Past
    BY DEF Unrepeated
  <2>1. CASE i = Len(events) + 1
    BY <1>5, <1>7, <1>9, <2>1
  <2>2. CASE i # Len(events) + 1
    <3>1. i \in 1..Len(events)
      BY <1>9, <2>2
    <3>. QED BY <1>6, <1>10, <3>1
  <2>. QED BY <2>1, <2>2
<1>12. \A i, j \in 1..Len(events') : events'[i].req = events'[j].req => i = j
  <2> SUFFICES ASSUME NEW i \in 1..Len(events'), NEW j \in 1..Len(events'),
                      events'[i].req = events'[j].req
               PROVE  i = j
    OBVIOUS
  <2>1. (i = Len(events) + 1 \/ i \in 1..Len(events)) /\ (j = Len(events) + 1 \/ j \in 1..Len(events))
    BY <1>9
  <2>2. CASE i \in 1..Len(events) /\ j \in 1..Len(events)
    BY <1>10, <2>2 DEF DoorInv, TypeOK
  <2>3. CASE i = Len(events) + 1 \/ j = Len(events) + 1
    BY <1>5, <1>9, <1>10, <2>1, <2>3
  <2>. QED BY <2>1, <2>2, <2>3
<1>. QED BY <1>6, <1>9, <1>11, <1>12 DEF Record, DoorInv, TypeOK

\* The end of a handler: the signature is spent, or the lease was lost, or the
\* answer goes out.
LEMMA DoorEnding ==
  ASSUME DoorInv, NEW r \in Requests, Complete(r) \/ Lose(r) \/ Reply(r) PROVE DoorInv'
<1>1. req[r] \in ReqType /\ req \in [Requests -> ReqType] /\ now \in 1..MaxTime
  BY DEF DoorInv, TypeOK
<1>2. Released(r) \in [Signatures -> LeaseType]
  BY ReleasedType DEF DoorInv
<1>3. CASE Complete(r)
  <2> DEFINE new == [req[r] EXCEPT !.phase = "reply", !.done = now]
  <2>0. now \in 0..MaxTime
    BY <1>1, FrontDoorAssumption
  <2>1. new \in ReqType /\ new.phase = "reply"
    BY <1>1, <2>0 DEF ReqType
  <2>2. req' = [req EXCEPT ![r] = new]
    BY <1>1, <1>3 DEF Complete
  <2> HIDE DEF new
  <2>3. /\ req' \in [Requests -> ReqType] /\ Ready'
        /\ \A q \in Requests : req[q].phase \in Past => req'[q].phase \in Past
    BY <2>1, <2>2, Moved DEF Past
  <2>4. spent' \in [Signatures -> 0..MaxTime]
    BY <1>3, <2>0, FrontDoorAssumption DEF Complete, DoorInv, TypeOK
  <2>. QED BY <1>2, <1>3, <2>3, <2>4, QuietLedger DEF Complete, DoorInv, TypeOK
<1>4. CASE Lose(r)
  <2>1. /\ req' \in [Requests -> ReqType] /\ Ready'
        /\ \A q \in Requests : req[q].phase \in Past => req'[q].phase \in Past
    BY <1>4, Answered DEF Lose
  <2>. QED BY <1>2, <1>4, <2>1, QuietLedger DEF Lose, DoorInv, TypeOK
<1>5. CASE Reply(r)
  <2>1. /\ req' \in [Requests -> ReqType] /\ Ready'
        /\ \A q \in Requests : req[q].phase \in Past => req'[q].phase \in Past
    BY <1>5, Answered DEF Reply
  <2>. QED BY <1>2, <1>5, <2>1, QuietLedger DEF Reply, DoorInv, TypeOK
<1>. QED BY <1>3, <1>4, <1>5

\* The heartbeat moves an expiry and nothing else.
LEMMA DoorRenew ==
  ASSUME DoorInv, NEW r \in Requests, Renew(r) PROVE DoorInv'
<1>1. now + Lease \in 0..(MaxTime + Lease)
  BY FrontDoorAssumption DEF DoorInv, TypeOK
<1> DEFINE s     == SignatureOf[r]
           lease == [pending[s] EXCEPT !.expires = now + Lease]
<1>2. s \in Signatures /\ pending \in [Signatures -> LeaseType] /\ pending[s] \in LeaseType
  BY FrontDoorAssumption DEF Renew, Owns, Signed, DoorInv, TypeOK
<1>3. lease \in LeaseType
  BY <1>1, <1>2 DEF LeaseType
<1>4. pending' = [pending EXCEPT ![s] = lease]
  BY <1>2 DEF Renew
<1> HIDE DEF s, lease
<1>5. pending' \in [Signatures -> LeaseType]
  BY <1>2, <1>3, <1>4
<1>. QED BY <1>5, QuietLedger DEF Renew, DoorInv, TypeOK, Ready

\* An exception ends a handler where it stands.
LEMMA DoorFault ==
  ASSUME DoorInv, NEW r \in Requests, Fault(r) PROVE DoorInv'
<1>1. /\ req' \in [Requests -> ReqType] /\ Ready'
      /\ \A q \in Requests : req[q].phase \in Past => req'[q].phase \in Past
  BY Answered DEF Fault
<1>2. pending' \in [Signatures -> LeaseType]
  BY ReleasedType DEF Fault, DoorInv, TypeOK
<1>. QED BY <1>1, <1>2, QuietLedger DEF Fault, DoorInv, TypeOK

\* A restart ends every handler in flight.
LEMMA DoorCrash == ASSUME DoorInv, Crash PROVE DoorInv'
<1>1. req \in [Requests -> ReqType]
  BY DEF DoorInv, TypeOK
<1>2. \A r \in Requests : [req[r] EXCEPT !.phase = "over"] \in ReqType
                         /\ [req[r] EXCEPT !.phase = "over"].phase = "over"
  BY <1>1 DEF ReqType
<1>3. \A r \in Requests : /\ req'[r] \in ReqType
                          /\ req'[r] = req[r] \/ req'[r].phase = "over"
  BY <1>1, <1>2 DEF Crash
<1>4. req' \in [Requests -> ReqType]
  BY <1>3 DEF Crash
<1>5. Ready' /\ \A r \in Requests : req[r].phase \in Past => req'[r].phase \in Past
  BY <1>3 DEF DoorInv, Ready, Past
<1>6. hits' \in Seq(1..MaxTime)
  BY DEF Crash
<1>. QED BY <1>4, <1>5, <1>6, QuietLedger DEF Crash, DoorInv, TypeOK, tables

\* Every step keeps the first layer.
LEMMA DoorStep == DoorInv /\ [Next]_vars => DoorInv'
<1> SUFFICES ASSUME DoorInv, [Next]_vars PROVE DoorInv'
  OBVIOUS
<1>1. ASSUME NEW r \in Requests, Handling(r) PROVE DoorInv'
  BY <1>1, DoorFuse, DoorDedup, DoorRecord, DoorEnding DEF Handling
<1>2. CASE Tick
  BY <1>2, QuietLedger, FrontDoorAssumption DEF Tick, DoorInv, TypeOK, Ready, tables
<1>3. CASE UNCHANGED vars
  BY <1>3, QuietLedger DEF vars, tables, DoorInv, TypeOK, Ready
<1>. QED BY <1>1, <1>2, <1>3, DoorArriving, DoorRenew, DoorFault, DoorCrash DEF Next

\* The tables, the fuse and the handlers keep their types, and a request has at
\* most one event.
THEOREM TypeCorrect == Spec => []TypeOK
<1>1. DoorInv => TypeOK
  BY DEF DoorInv
<1>. QED BY <1>1, DoorInit, DoorStep, PTL DEF Spec

-----------------------------------------------------------------------------
(***************************************************************************)
(* The second layer.  While anybody's lease on a signature is in the       *)
(* table, live or expired, every completion under it is out of the window: *)
(* the lease was taken when the signature was not spent, and nobody else   *)
(* can complete before it is gone.  That a signature was not spent says    *)
(* something about completions because the row remembers the newest one    *)
(* until it, too, is out of the window.                                    *)
(***************************************************************************)
OutOfWindow(q) == now - req[q].done > Replay

LeaseAlone == \A s \in Signatures, q \in Requests :
                 pending[s].owner # Unsigned /\ SignatureOf[q] = s /\ req[q].done # 0
                 => OutOfWindow(q)
SpentRemembers == \A q \in Requests : Signed(q) /\ req[q].done # 0 =>
                     /\ req[q].done <= now
                     /\ spent[SignatureOf[q]] >= req[q].done \/ OutOfWindow(q)

OnceInv == DoorInv /\ LeaseAlone /\ SpentRemembers /\ OncePerSignature

\* Nothing is leased, spent or completed at first.
LEMMA OnceInit == Init => OnceInv
<1> SUFFICES ASSUME Init PROVE OnceInv
  OBVIOUS
<1>1. \A q \in Requests : req[q].done = 0
  BY DEF Init, NewReq
<1>. QED BY <1>1, DoorInit DEF OnceInv, LeaseAlone, SpentRemembers, OncePerSignature

\* The types the arithmetic of this layer needs.
LEMMA Instants ==
  ASSUME DoorInv
  PROVE  /\ now \in Nat \ {0} /\ Replay \in Nat \ {0} /\ Lease \in Nat \ {0}
         /\ \A q \in Requests : req[q].done \in Nat
         /\ \A s \in Signatures : spent[s] \in Nat /\ pending[s].expires \in Int
<1>1. \A q \in Requests : req[q] \in ReqType
  BY DEF DoorInv, TypeOK
<1>2. \A q \in Requests : req[q].done \in 0..MaxTime
  BY <1>1 DEF ReqType
<1>3. \A s \in Signatures : pending[s] \in LeaseType
  BY DEF DoorInv, TypeOK
<1>4. \A s \in Signatures : pending[s].expires \in 0..(MaxTime + Lease)
  BY <1>3 DEF LeaseType
<1>. QED BY <1>2, <1>4, FrontDoorAssumption DEF DoorInv, TypeOK

\* A step that completes nothing and takes no lease.
LEMMA OnceQuiet ==
  ASSUME OnceInv, DoorInv', UNCHANGED spent, now' \in {now, now + 1},
         \A q \in Requests : req'[q].done = req[q].done,
         \A s \in Signatures : pending'[s].owner \in {pending[s].owner, Unsigned}
  PROVE  OnceInv'
<1>1. \A q \in Requests : OutOfWindow(q) => OutOfWindow(q)'
  BY Instants DEF OnceInv, OutOfWindow
<1>2. LeaseAlone'
  BY <1>1 DEF OnceInv, LeaseAlone
<1>3. SpentRemembers'
  BY <1>1, Instants DEF OnceInv, SpentRemembers, Signed
<1>4. OncePerSignature'
  BY DEF OnceInv, OncePerSignature, Signed
<1>. QED BY <1>2, <1>3, <1>4 DEF OnceInv

\* A lease is taken only on a signature that is out of its window.
LEMMA OnceAcquire ==
  ASSUME OnceInv, DoorInv', NEW r \in Requests, Acquire(r) PROVE OnceInv'
<1>1. /\ \A q \in Requests : req'[q].done = req[q].done
      /\ UNCHANGED <<now, spent>> /\ SignatureOf[r] \in Signatures
  <2>1. req \in [Requests -> ReqType]
    BY DEF OnceInv, DoorInv, TypeOK
  <2>2. req' = [req EXCEPT ![r].phase = "fuse", ![r].life = crashes]
    BY DEF Acquire
  <2>3. \A q \in Requests : req'[q].done = req[q].done
    BY <2>1, <2>2 DEF ReqType
  <2>4. SignatureOf[r] \in Signatures
    BY FrontDoorAssumption DEF Acquire, Signed
  <2>. QED BY <2>3, <2>4 DEF Acquire
<1>2. \A s \in Signatures \ {SignatureOf[r]} : pending'[s].owner \in {pending[s].owner, Unsigned}
  BY DEF Acquire, Swept, NoLease, OnceInv, DoorInv, TypeOK
<1>3. \A q \in Requests : SignatureOf[q] = SignatureOf[r] /\ req[q].done # 0 => OutOfWindow(q)
  BY Instants, <1>1 DEF Acquire, Completed, OnceInv, SpentRemembers, OutOfWindow, Signed
<1>4. LeaseAlone'
  BY <1>1, <1>2, <1>3 DEF OnceInv, LeaseAlone, OutOfWindow
<1>5. SpentRemembers' /\ OncePerSignature'
  BY <1>1 DEF OnceInv, SpentRemembers, OncePerSignature, OutOfWindow, Signed
<1>. QED BY <1>4, <1>5 DEF OnceInv

\* A completion: every other one of the signature is out of the window, the
\* lease is gone, and the row remembers.
LEMMA OnceComplete ==
  ASSUME OnceInv, DoorInv', NEW r \in Requests, Complete(r) PROVE OnceInv'
<1> DEFINE sig == SignatureOf[r]
<1>1. /\ sig \in Signatures /\ pending[sig].owner = r /\ r # Unsigned /\ Signed(r)
      /\ now' = now
  BY FrontDoorAssumption DEF Complete, StillHolds, Owns, Signed
<1>2. req'[r].done = now /\ \A q \in Requests \ {r} : req'[q].done = req[q].done
  BY DEF Complete, OnceInv, DoorInv, TypeOK, ReqType
<1>3. pending' = [pending EXCEPT ![sig] = NoLease]
  BY <1>1 DEF Complete, Released, Owns
<1>4. /\ spent'[sig] = now
      /\ \A s \in Signatures \ {sig} : spent'[s] = IF spent[s] < now - Replay THEN 0 ELSE spent[s]
  BY <1>1 DEF Complete
<1>5. \A q \in Requests : SignatureOf[q] = sig /\ req[q].done # 0 => OutOfWindow(q)
  BY <1>1 DEF OnceInv, LeaseAlone
<1>6. \A q \in Requests \ {r} : OutOfWindow(q)' <=> OutOfWindow(q)
  BY <1>1, <1>2 DEF OutOfWindow
<1> HIDE DEF sig
<1>7. LeaseAlone'
  <2> SUFFICES ASSUME NEW s \in Signatures, NEW q \in Requests,
                      pending'[s].owner # Unsigned, SignatureOf[q] = s, req'[q].done # 0
               PROVE  OutOfWindow(q)'
    BY DEF LeaseAlone
  <2>1. s # sig
    BY <1>1, <1>3 DEF OnceInv, DoorInv, TypeOK, NoLease
  <2>2. q # r /\ pending'[s] = pending[s]
    BY <1>3, <2>1 DEF sig, OnceInv, DoorInv, TypeOK
  <2>. QED BY <1>2, <1>6, <2>2 DEF OnceInv, LeaseAlone
<1>8. SpentRemembers'
  <2> SUFFICES ASSUME NEW q \in Requests, Signed(q), req'[q].done # 0
               PROVE  /\ req'[q].done <= now
                      /\ spent'[SignatureOf[q]] >= req'[q].done \/ OutOfWindow(q)'
    BY <1>1 DEF SpentRemembers, Signed
  <2>1. SignatureOf[q] \in Signatures
    BY FrontDoorAssumption DEF Signed
  <2>2. CASE q = r
    BY <1>2, <1>4, <2>2, Instants DEF sig, OnceInv
  <2>3. CASE q # r
    <3>1. req'[q].done = req[q].done /\ req[q].done <= now
          /\ (spent[SignatureOf[q]] >= req[q].done \/ OutOfWindow(q))
      BY <1>2, <2>3 DEF OnceInv, SpentRemembers
    <3>2. CASE SignatureOf[q] = sig
      BY <1>4, <3>1, <3>2
    <3>3. CASE SignatureOf[q] # sig
      BY <1>4, <1>6, <2>1, <2>3, <3>1, <3>3, Instants DEF OutOfWindow, OnceInv
    <3>. QED BY <3>2, <3>3
  <2>. QED BY <2>2, <2>3
<1>9. OncePerSignature'
  <2> SUFFICES ASSUME NEW p \in Requests, NEW q \in Requests, p # q, Signed(p),
                      SignatureOf[p] = SignatureOf[q],
                      req'[p].done # 0, req'[q].done >= req'[p].done
               PROVE  req'[q].done - req'[p].done > Replay
    BY DEF OncePerSignature, Signed
  <2>1. CASE q = r
    BY <1>2, <1>5, <2>1 DEF sig, OutOfWindow
  <2>2. CASE p = r
    <3>1. req[q].done >= now /\ req[q].done # 0
      BY <1>2, <2>2, Instants DEF OnceInv
    <3>2. OutOfWindow(q)
      BY <1>5, <2>2, <3>1 DEF sig
    <3>. QED BY <3>1, <3>2, Instants DEF OutOfWindow, OnceInv
  <2>3. CASE q # r /\ p # r
    BY <1>2, <2>3 DEF OnceInv, OncePerSignature
  <2>. QED BY <2>1, <2>2, <2>3
<1>. QED BY <1>7, <1>8, <1>9 DEF OnceInv

\* Every step keeps the second layer.
LEMMA OnceStep == OnceInv /\ [Next]_vars => OnceInv'
<1> SUFFICES ASSUME OnceInv, [Next]_vars PROVE OnceInv'
  OBVIOUS
<1>1. DoorInv'
  BY DoorStep DEF OnceInv
<1>2. req \in [Requests -> ReqType] /\ pending \in [Signatures -> LeaseType]
  BY DEF OnceInv, DoorInv, TypeOK
<1>3. ASSUME NEW r \in Requests PROVE \A s \in Signatures :
         Released(r)[s].owner \in {pending[s].owner, Unsigned}
  BY <1>2 DEF Released, NoLease
<1>4. ASSUME NEW r \in Requests, NEW answer,
             req' = Over(r, answer)
      PROVE  \A q \in Requests : req'[q].done = req[q].done
  BY <1>2, <1>4 DEF Over, ReqType
<1>5. ASSUME NEW r \in Requests, Enter(r) \/ TurnAway(r) \/ AnswerReplay(r) PROVE OnceInv'
  <2>1. \A q \in Requests : req'[q].done = req[q].done
    BY <1>2, <1>4, <1>5 DEF Enter, TurnAway, AnswerReplay, ReqType
  <2>2. \A s \in Signatures : pending'[s].owner \in {pending[s].owner, Unsigned}
    BY <1>2, <1>5 DEF Enter, TurnAway, AnswerReplay, Swept, NoLease, tables
  <2>. QED BY <1>1, <1>5, <2>1, <2>2, OnceQuiet DEF Enter, TurnAway, AnswerReplay, tables
<1>6. ASSUME NEW r \in Requests, Fuse(r) \/ Dedup(r) \/ Record(r) PROVE OnceInv'
  <2>1. \A q \in Requests : req'[q].done = req[q].done
    <3>1. CASE Fuse(r)
      <4>1. \/ req' = Over(r, "refused")
            \/ req' = [req EXCEPT ![r].phase = "record", ![r].at = now, ![r].verdict = "suppressed"]
            \/ req' = [req EXCEPT ![r].phase = "dedup", ![r].at = now, ![r].behind = Len(events)]
        BY <3>1 DEF Fuse
      <4>2. CASE req' = [req EXCEPT ![r].phase = "record", ![r].at = now,
                                    ![r].verdict = "suppressed"]
        BY <1>2, <4>2 DEF ReqType
      <4>3. CASE req' = [req EXCEPT ![r].phase = "dedup", ![r].at = now,
                                    ![r].behind = Len(events)]
        BY <1>2, <4>3 DEF ReqType
      <4>. QED BY <1>4, <4>1, <4>2, <4>3
    <3>2. CASE Dedup(r)
      BY <1>2, <3>2 DEF Dedup, ReqType
    <3>3. CASE Record(r)
      BY <1>2, <3>3 DEF Record, ReqType
    <3>. QED BY <1>6, <3>1, <3>2, <3>3
  <2>2. pending' = pending \/ pending' = Released(r)
    BY <1>6 DEF Fuse, Dedup, Record, tables
  <2>. QED BY <1>1, <1>3, <1>6, <2>1, <2>2, OnceQuiet DEF Fuse, Dedup, Record, tables
<1>7. ASSUME NEW r \in Requests, Lose(r) \/ Reply(r) \/ Fault(r) PROVE OnceInv'
  <2>1. \A q \in Requests : req'[q].done = req[q].done
    BY <1>4, <1>7 DEF Lose, Reply, Fault
  <2>2. pending' = pending \/ pending' = Released(r)
    BY <1>7 DEF Lose, Reply, Fault
  <2>. QED BY <1>1, <1>3, <1>7, <2>1, <2>2, OnceQuiet DEF Lose, Reply, Fault
<1>8. ASSUME NEW r \in Requests, Renew(r) PROVE OnceInv'
  <2>1. \A s \in Signatures : pending'[s].owner = pending[s].owner
    BY <1>2, <1>8 DEF Renew, LeaseType
  <2>. QED BY <1>1, <1>8, <2>1, OnceQuiet DEF Renew
<1>9. CASE Crash
  <2>1. \A q \in Requests : req'[q].done = req[q].done
    BY <1>2, <1>9 DEF Crash, ReqType
  <2>. QED BY <1>1, <1>9, <2>1, OnceQuiet DEF Crash, tables
<1>10. CASE Tick \/ UNCHANGED vars
  BY <1>1, <1>10, OnceQuiet DEF Tick, vars, tables
<1>. QED BY <1>1, <1>5, <1>6, <1>7, <1>8, <1>9, <1>10, OnceAcquire, OnceComplete
         DEF Next, Arriving, Handling

\* A replayed signed request cannot buy a second verdict: through expired
\* leases, late heartbeats, failures and restarts, a signature completes at
\* most once in any replay window.
THEOREM SignatureSpentOnce == Spec => []OncePerSignature
<1>1. OnceInv => OncePerSignature
  BY DEF OnceInv
<1>. QED BY <1>1, OnceInit, OnceStep, PTL DEF Spec
-----------------------------------------------------------------------------
(***************************************************************************)
(* The sender's side: what a 200 promises.  A handler past its record has  *)
(* its event, and only such a handler spends a signature, so a replay is   *)
(* answered on an event as well.                                           *)
(***************************************************************************)
PastRecord == \A r \in Requests : req[r].phase \in {"complete", "reply"} => RecordedBy(r)

SpentOnEvent == \A s \in Signatures : spent[s] # 0 =>
                   \E q \in Requests : SignatureOf[q] = s /\ RecordedBy(q)

SureInv == DoorInv /\ PastRecord /\ SpentOnEvent /\ BothSure

\* Nothing is past its record, spent or answered.
LEMMA SureInit == Init => SureInv
BY DoorInit DEF Init, SureInv, PastRecord, SpentOnEvent, BothSure, NewReq

\* The ledger never loses an event.
LEMMA RecordedStays ==
  ASSUME DoorInv, NEW r \in Requests, RecordedBy(r),
         events' = events \/ \E e \in EventType : events' = Append(events, e)
  PROVE  RecordedBy(r)'
<1>1. events \in Seq(EventType)
  BY DEF DoorInv, TypeOK
<1>2. PICK i \in 1..Len(events) : events[i].req = r
  BY DEF RecordedBy
<1>3. CASE events' = events
  BY <1>2, <1>3 DEF RecordedBy
<1>4. ASSUME NEW e \in EventType, events' = Append(events, e) PROVE RecordedBy(r)'
  <2>1. i \in 1..Len(events') /\ events'[i] = events[i]
    BY <1>1, <1>2, <1>4, AppendProperties
  <2>. QED BY <1>2, <2>1 DEF RecordedBy
<1>. QED BY <1>3, <1>4

\* A step that spends nothing, brings no handler past its record and sends no
\* 200 that was not sent before keeps the third layer.
LEMMA SureQuiet ==
  ASSUME SureInv, DoorInv', UNCHANGED <<spent, events>>,
         \A q \in Requests : /\ req'[q].phase \in {"complete", "reply"} =>
                                 req[q].phase \in {"complete", "reply"}
                             /\ req'[q].heard \in {"processed", "replayed"} =>
                                 req'[q].heard = req[q].heard
  PROVE  SureInv'
<1>1. \A q \in Requests : RecordedBy(q) => RecordedBy(q)'
  BY RecordedStays DEF SureInv
<1>. QED BY <1>1 DEF SureInv, PastRecord, SpentOnEvent, BothSure

\* An answer other than 200.
LEMMA SureRefusal ==
  ASSUME SureInv, DoorInv', UNCHANGED <<spent, events>>, NEW r \in Requests,
         NEW answer \in {"busy", "refused", "error", "lost"}, req' = Over(r, answer)
  PROVE  SureInv'
<1>1. req \in [Requests -> ReqType]
  BY DEF SureInv, DoorInv, TypeOK
<1>2. /\ req'[r].phase = "over" /\ req'[r].heard = answer
      /\ \A q \in Requests \ {r} : req'[q] = req[q]
  BY <1>1 DEF Over, ReqType
<1>. QED BY <1>2, SureQuiet

\* Every step keeps the third layer.
LEMMA SureStep == SureInv /\ [Next]_vars => SureInv'
<1> SUFFICES ASSUME SureInv, [Next]_vars PROVE SureInv'
  OBVIOUS
<1>1. DoorInv'
  BY DoorStep DEF SureInv
<1>2. req \in [Requests -> ReqType]
  BY DEF SureInv, DoorInv, TypeOK
<1>3. ASSUME NEW r \in Requests, Enter(r) \/ Acquire(r) \/ TurnAway(r) PROVE SureInv'
  <2>1. CASE TurnAway(r)
    BY <1>1, <2>1, SureRefusal DEF TurnAway
  <2>2. CASE Enter(r) \/ Acquire(r)
    <3>1. /\ req'[r].phase = "fuse" /\ req'[r].heard = req[r].heard
          /\ \A q \in Requests \ {r} : req'[q] = req[q]
      BY <1>2, <2>2 DEF Enter, Acquire, ReqType
    <3>. QED BY <1>1, <2>2, <3>1, SureQuiet DEF Enter, Acquire, tables
  <2>. QED BY <1>3, <2>1, <2>2
<1>4. ASSUME NEW r \in Requests, AnswerReplay(r) PROVE SureInv'
  <2>1. /\ req'[r].phase = "over" /\ req'[r].heard = "replayed"
        /\ \A q \in Requests \ {r} : req'[q] = req[q]
    BY <1>2, <1>4 DEF AnswerReplay, Over, ReqType
  <2>2. SignatureOf[r] \in Signatures /\ spent[SignatureOf[r]] # 0
    BY <1>4, FrontDoorAssumption DEF AnswerReplay, Signed, Completed
  <2>3. UNCHANGED <<spent, events>>
    BY <1>4 DEF AnswerReplay, tables
  <2>4. \E q \in Requests : SignatureOf[q] = SignatureOf[r] /\ RecordedBy(q)
    BY <2>2 DEF SureInv, SpentOnEvent
  <2>5. \A q \in Requests : RecordedBy(q) => RecordedBy(q)'
    BY <2>3, RecordedStays DEF SureInv
  <2>6. BothSure'
    BY <2>1, <2>4, <2>5 DEF SureInv, BothSure
  <2>7. PastRecord' /\ SpentOnEvent'
    BY <2>1, <2>3, <2>5 DEF SureInv, PastRecord, SpentOnEvent
  <2>. QED BY <1>1, <2>6, <2>7 DEF SureInv
<1>5. ASSUME NEW r \in Requests, Fuse(r) PROVE SureInv'
  <2>1. \/ req' = Over(r, "refused")
        \/ req' = [req EXCEPT ![r].phase = "record", ![r].at = now, ![r].verdict = "suppressed"]
        \/ req' = [req EXCEPT ![r].phase = "dedup", ![r].at = now, ![r].behind = Len(events)]
    BY <1>5 DEF Fuse
  <2>2. UNCHANGED <<spent, events>>
    BY <1>5 DEF Fuse
  <2>3. CASE req' = Over(r, "refused")
    BY <1>1, <2>2, <2>3, SureRefusal
  <2>4. CASE req' = [req EXCEPT ![r].phase = "record", ![r].at = now,
                                ![r].verdict = "suppressed"]
    <3>1. /\ req'[r].phase = "record" /\ req'[r].heard = req[r].heard
          /\ \A q \in Requests \ {r} : req'[q] = req[q]
      BY <1>2, <2>4 DEF ReqType
    <3>. QED BY <1>1, <2>2, <3>1, SureQuiet
  <2>5. CASE req' = [req EXCEPT ![r].phase = "dedup", ![r].at = now, ![r].behind = Len(events)]
    <3>1. /\ req'[r].phase = "dedup" /\ req'[r].heard = req[r].heard
          /\ \A q \in Requests \ {r} : req'[q] = req[q]
      BY <1>2, <2>5 DEF ReqType
    <3>. QED BY <1>1, <2>2, <3>1, SureQuiet
  <2>. QED BY <2>1, <2>3, <2>4, <2>5
<1>6. ASSUME NEW r \in Requests, Dedup(r) PROVE SureInv'
  <2>1. /\ req'[r].phase = "record" /\ req'[r].heard = req[r].heard
        /\ \A q \in Requests \ {r} : req'[q] = req[q]
    BY <1>2, <1>6 DEF Dedup, ReqType
  <2>. QED BY <1>1, <1>6, <2>1, SureQuiet DEF Dedup, tables
<1>7. ASSUME NEW r \in Requests, Record(r) PROVE SureInv'
  <2>1. /\ req[r].at \in 1..MaxTime /\ req[r].verdict \in Outcomes /\ req[r].twin \in Nat
    BY <1>2, <1>7 DEF Record, SureInv, DoorInv, Ready, ReqType
  <2>2. EventOf(r) \in EventType /\ EventOf(r).req = r /\ events' = Append(events, EventOf(r))
    BY <1>7, <2>1 DEF EventOf, EventType, Record
  <2>3. \A q \in Requests : RecordedBy(q) => RecordedBy(q)'
    BY <2>2, RecordedStays DEF SureInv
  <2>4. RecordedBy(r)'
    <3>1. Len(events') \in 1..Len(events') /\ events'[Len(events')] = EventOf(r)
      BY <2>2, AppendProperties DEF SureInv, DoorInv, TypeOK
    <3>. QED BY <2>2, <3>1 DEF RecordedBy
  <2>5. req'[r].heard = req[r].heard /\ \A q \in Requests \ {r} : req'[q] = req[q]
    BY <1>2, <1>7 DEF Record, ReqType
  <2>6. spent' = spent
    BY <1>7 DEF Record
  <2>7. PastRecord'
    BY <2>3, <2>4, <2>5 DEF SureInv, PastRecord
  <2>8. SpentOnEvent' /\ BothSure'
    BY <2>3, <2>5, <2>6 DEF SureInv, SpentOnEvent, BothSure
  <2>. QED BY <1>1, <2>7, <2>8 DEF SureInv
<1>8. ASSUME NEW r \in Requests, Complete(r) PROVE SureInv'
  <2>1. RecordedBy(r) /\ \A q \in Requests : RecordedBy(q) => RecordedBy(q)'
    BY <1>8, RecordedStays DEF Complete, SureInv, PastRecord
  <2>2. /\ req'[r].phase = "reply" /\ req'[r].heard = req[r].heard
        /\ \A q \in Requests \ {r} : req'[q] = req[q]
    BY <1>2, <1>8 DEF Complete, ReqType
  <2>3. \A s \in Signatures : spent'[s] # 0 => s = SignatureOf[r] \/ spent[s] # 0
    BY <1>8 DEF Complete
  <2>4. SpentOnEvent'
    BY <2>1, <2>3 DEF SureInv, SpentOnEvent
  <2>5. PastRecord' /\ BothSure'
    BY <2>1, <2>2 DEF SureInv, PastRecord, BothSure
  <2>. QED BY <1>1, <2>4, <2>5 DEF SureInv
<1>9. ASSUME NEW r \in Requests, Lose(r) \/ Fault(r) PROVE SureInv'
  BY <1>1, <1>9, SureRefusal DEF Lose, Fault
<1>10. ASSUME NEW r \in Requests, Reply(r) PROVE SureInv'
  <2>1. RecordedBy(r) /\ \A q \in Requests : RecordedBy(q) => RecordedBy(q)'
    BY <1>10, RecordedStays DEF Reply, SureInv, PastRecord
  <2>2. /\ req'[r].phase = "over" /\ req'[r].heard = "processed"
        /\ \A q \in Requests \ {r} : req'[q] = req[q]
    BY <1>2, <1>10 DEF Reply, Over, ReqType
  <2>3. PastRecord' /\ BothSure'
    BY <2>1, <2>2 DEF SureInv, PastRecord, BothSure
  <2>4. SpentOnEvent'
    BY <1>10, <2>1 DEF Reply, SureInv, SpentOnEvent
  <2>. QED BY <1>1, <2>3, <2>4 DEF SureInv
<1>11. CASE Crash
  <2>1. \A q \in Requests : /\ req'[q] = req[q] \/ req'[q].phase = "over"
                            /\ req'[q].heard = req[q].heard
    BY <1>2, <1>11 DEF Crash, ReqType
  <2>. QED BY <1>1, <1>11, <2>1, SureQuiet DEF Crash, tables
<1>12. CASE Tick \/ UNCHANGED vars \/ \E r \in Requests : Renew(r)
  BY <1>1, <1>12, SureQuiet DEF Tick, Renew, vars, tables
<1>. QED BY <1>3, <1>4, <1>5, <1>6, <1>7, <1>8, <1>9, <1>10, <1>11, <1>12
         DEF Next, Arriving, Handling

\* No event is lost while both sides believe it was handled: a sender that
\* heard 200 has its event on the ledger, or that of the request it repeats.
THEOREM NothingLostUnheard == Spec => []BothSure
<1>1. SureInv => BothSure
  BY DEF SureInv
<1>. QED BY <1>1, SureInit, SureStep, PTL DEF Spec

-----------------------------------------------------------------------------
(***************************************************************************)
(* Dedup: an event on the ledger says what its request says, and a request *)
(* that is routed was clear of every event of its alert that was on the    *)
(* ledger when it entered.                                                 *)
(***************************************************************************)
Undecided == \A r \in Requests : req[r].phase \in {"new", "fuse", "dedup"} =>
                req[r].verdict = "none"

AsRecorded == \A j \in 1..Len(events) : /\ events[j].at = req[events[j].req].at
                                        /\ events[j].outcome = req[events[j].req].verdict

RoutedClear ==
  \A r \in Requests :
     /\ req[r].behind <= Len(events)
     /\ req[r].verdict = "routed" =>
           \A i \in 1..Len(events) :
              i <= req[r].behind /\ AlertOf[events[i].req] = AlertOf[r]
              => events[i].at < req[r].at - DedupWindow

ClearInv == DoorInv /\ Undecided /\ AsRecorded /\ RoutedClear

\* Nothing is decided and nothing recorded.
LEMMA ClearInit == Init => ClearInv
BY DoorInit DEF Init, ClearInv, Undecided, AsRecorded, RoutedClear, NewReq

\* An event on the ledger is an event.
LEMMA EventsTyped ==
  ASSUME DoorInv, NEW i \in 1..Len(events)
  PROVE  events[i].req \in Requests /\ events[i].at \in Int
<1>1. events[i] \in EventType
  BY DEF DoorInv, TypeOK
<1>. QED BY <1>1 DEF EventType

\* It is what SequentialOnce needs.
LEMMA ClearImplies == ClearInv => SequentialOnce
<1> SUFFICES ASSUME ClearInv, NEW i \in 1..Len(events), NEW j \in 1..Len(events),
                    Routed(j), SameAlert(i, j), i <= req[events[j].req].behind
             PROVE  ~Near(i, j)
  BY DEF SequentialOnce
<1>1. events[i] \in EventType /\ events[j] \in EventType
  BY DEF ClearInv, DoorInv, TypeOK
<1>2. events[j].req \in Requests /\ events[i].at \in Int /\ events[j].at \in Int
  BY <1>1 DEF EventType
<1>3. events[i].at < events[j].at - DedupWindow
  BY <1>2 DEF ClearInv, AsRecorded, RoutedClear, Routed, SameAlert
<1>. QED BY <1>2, <1>3, FrontDoorAssumption DEF Near

\* A step that leaves every request's verdict and the ledger alone.
LEMMA ClearQuiet ==
  ASSUME ClearInv, DoorInv', UNCHANGED events,
         \A q \in Requests : /\ req'[q].at = req[q].at /\ req'[q].verdict = req[q].verdict
                             /\ req'[q].behind = req[q].behind
                             /\ req'[q].phase \in {"new", "fuse", "dedup"} =>
                                 req[q].phase \in {"new", "fuse", "dedup"}
  PROVE  ClearInv'
<1>1. \A i \in 1..Len(events) : events[i].req \in Requests
  BY EventsTyped DEF ClearInv
<1>. QED BY <1>1 DEF ClearInv, Undecided, AsRecorded, RoutedClear

\* An answer decides nothing.
LEMMA ClearAnswer ==
  ASSUME ClearInv, DoorInv', UNCHANGED events, NEW r \in Requests, NEW answer,
         req' = Over(r, answer)
  PROVE  ClearInv'
<1>1. req \in [Requests -> ReqType]
  BY DEF ClearInv, DoorInv, TypeOK
<1>2. /\ req'[r].at = req[r].at /\ req'[r].verdict = req[r].verdict
      /\ req'[r].behind = req[r].behind /\ req'[r].phase = "over"
      /\ \A q \in Requests \ {r} : req'[q] = req[q]
  BY <1>1 DEF Over, ReqType
<1>. QED BY <1>2, ClearQuiet

\* A request that is not on the ledger changes its verdict; if it is routed it
\* is clear.
LEMMA ClearDecide ==
  ASSUME ClearInv, DoorInv', UNCHANGED events, NEW r \in Requests,
         req[r].phase \notin Past,
         \A q \in Requests \ {r} : req'[q] = req[q],
         req'[r].phase \in {"new", "fuse", "dedup"} => req'[r].verdict = "none",
         req'[r].behind <= Len(events),
         req'[r].verdict = "routed" =>
            \A i \in 1..Len(events) : AlertOf[events[i].req] = AlertOf[r] =>
                                         events[i].at < req'[r].at - DedupWindow
  PROVE  ClearInv'
<1>1. \A i \in 1..Len(events) : events[i].req \in Requests /\ events[i].req # r
  BY EventsTyped DEF ClearInv, DoorInv, Unrepeated
<1>2. Undecided'
  BY DEF ClearInv, Undecided
<1>3. AsRecorded'
  BY <1>1 DEF ClearInv, AsRecorded
<1>4. RoutedClear'
  BY DEF ClearInv, RoutedClear
<1>. QED BY <1>2, <1>3, <1>4 DEF ClearInv

\* Every step keeps the fourth layer.
LEMMA ClearStep == ClearInv /\ [Next]_vars => ClearInv'
<1> SUFFICES ASSUME ClearInv, [Next]_vars PROVE ClearInv'
  OBVIOUS
<1>1. DoorInv'
  BY DoorStep DEF ClearInv
<1>2. req \in [Requests -> ReqType] /\ events \in Seq(EventType)
  BY DEF ClearInv, DoorInv, TypeOK
<1>3. ASSUME NEW r \in Requests, Enter(r) \/ Acquire(r) PROVE ClearInv'
  <2>1. /\ req'[r].at = req[r].at /\ req'[r].verdict = req[r].verdict
        /\ req'[r].behind = req[r].behind /\ req[r].phase = "new"
        /\ \A q \in Requests \ {r} : req'[q] = req[q]
    BY <1>2, <1>3 DEF Enter, Acquire, ReqType
  <2>. QED BY <1>1, <1>3, <2>1, ClearQuiet DEF Enter, Acquire, tables
<1>4. ASSUME NEW r \in Requests,
             TurnAway(r) \/ AnswerReplay(r) \/ Lose(r) \/ Reply(r) \/ Fault(r)
      PROVE  ClearInv'
  BY <1>1, <1>4, ClearAnswer DEF TurnAway, AnswerReplay, Lose, Reply, Fault, tables
<1>5. ASSUME NEW r \in Requests, Fuse(r) PROVE ClearInv'
  <2>1. \/ req' = Over(r, "refused")
        \/ req' = [req EXCEPT ![r].phase = "record", ![r].at = now, ![r].verdict = "suppressed"]
        \/ req' = [req EXCEPT ![r].phase = "dedup", ![r].at = now, ![r].behind = Len(events)]
    BY <1>5 DEF Fuse
  <2>2. events' = events /\ req[r].phase = "fuse" /\ Len(events) \in Nat
    BY <1>2, <1>5 DEF Fuse
  <2>3. req[r].verdict = "none" /\ req[r].behind <= Len(events) /\ req[r].phase \notin Past
    BY <2>2 DEF ClearInv, Undecided, RoutedClear, Past
  <2>4. CASE req' = Over(r, "refused")
    BY <1>1, <2>2, <2>4, ClearAnswer
  <2>5. CASE req' = [req EXCEPT ![r].phase = "record", ![r].at = now,
                                ![r].verdict = "suppressed"]
    <3>1. /\ req'[r].phase = "record" /\ req'[r].verdict = "suppressed"
          /\ req'[r].behind = req[r].behind
          /\ \A q \in Requests \ {r} : req'[q] = req[q]
      BY <1>2, <2>5 DEF ReqType
    <3>. QED BY <1>1, <2>2, <2>3, <3>1, ClearDecide
  <2>6. CASE req' = [req EXCEPT ![r].phase = "dedup", ![r].at = now, ![r].behind = Len(events)]
    <3>1. /\ req'[r].phase = "dedup" /\ req'[r].verdict = req[r].verdict
          /\ req'[r].behind = Len(events)
          /\ \A q \in Requests \ {r} : req'[q] = req[q]
      BY <1>2, <2>6 DEF ReqType
    <3>. QED BY <1>1, <2>2, <2>3, <3>1, ClearDecide
  <2>. QED BY <2>1, <2>4, <2>5, <2>6
<1>6. ASSUME NEW r \in Requests, Dedup(r) PROVE ClearInv'
  <2>1. /\ req'[r].phase = "record" /\ req'[r].behind = req[r].behind
        /\ req'[r].at = req[r].at
        /\ req'[r].verdict = "routed" => Twins(r) = {}
        /\ \A q \in Requests \ {r} : req'[q] = req[q]
    BY <1>2, <1>6 DEF Dedup, ReqType
  <2>2. events' = events /\ req[r].phase \notin Past /\ req[r].behind <= Len(events)
    BY <1>6 DEF Dedup, tables, Past, ClearInv, RoutedClear
  <2>3. ASSUME Twins(r) = {}, NEW i \in 1..Len(events), AlertOf[events[i].req] = AlertOf[r]
        PROVE  events[i].at < req[r].at - DedupWindow
    <3>1. events[i].at \in Int /\ req[r].at \in Int /\ DedupWindow \in Int
      BY <1>2, EventsTyped, FrontDoorAssumption DEF ReqType, ClearInv
    <3>. QED BY <2>3, <3>1 DEF Twins
  <2>. QED BY <1>1, <2>1, <2>2, <2>3, ClearDecide
<1>7. ASSUME NEW r \in Requests, Record(r) PROVE ClearInv'
  <2>1. /\ req[r].at \in 1..MaxTime /\ req[r].verdict \in Outcomes /\ req[r].twin \in Nat
    BY <1>2, <1>7 DEF Record, ClearInv, DoorInv, Ready, ReqType
  <2>2. EventOf(r) \in EventType /\ events' = Append(events, EventOf(r))
    BY <1>7, <2>1 DEF EventOf, EventType, Record
  <2>3. /\ Len(events) \in Nat /\ Len(events') = Len(events) + 1
        /\ events'[Len(events) + 1] = EventOf(r)
        /\ \A i \in 1..Len(events) : events'[i] = events[i] /\ events[i].req \in Requests
    BY <1>2, <2>2, EventsTyped, AppendProperties DEF ClearInv
  <2>4. \A q \in Requests : /\ req'[q].at = req[q].at /\ req'[q].verdict = req[q].verdict
                            /\ req'[q].behind = req[q].behind /\ req[q].behind \in Nat
    BY <1>2, <1>7 DEF Record, ReqType
  <2>5. req'[r].phase \in Past /\ \A q \in Requests \ {r} : req'[q] = req[q]
    BY <1>2, <1>7 DEF Record, ReqType, Past
  <2>6. Undecided'
    BY <2>5 DEF ClearInv, Undecided, Past
  <2>7. AsRecorded'
    <3> SUFFICES ASSUME NEW j \in 1..Len(events')
                 PROVE  /\ events'[j].at = req'[events'[j].req].at
                        /\ events'[j].outcome = req'[events'[j].req].verdict
      BY DEF AsRecorded
    <3>1. CASE j = Len(events) + 1
      BY <2>3, <2>4, <3>1 DEF EventOf
    <3>2. CASE j # Len(events) + 1
      <4>1. j \in 1..Len(events)
        BY <2>3, <3>2
      <4>. QED BY <2>3, <2>4, <4>1 DEF ClearInv, AsRecorded
    <3>. QED BY <3>1, <3>2
  <2>8. RoutedClear'
    <3> SUFFICES ASSUME NEW q \in Requests
                 PROVE  /\ req'[q].behind <= Len(events')
                        /\ req'[q].verdict = "routed" =>
                              \A i \in 1..Len(events') :
                                 i <= req'[q].behind /\ AlertOf[events'[i].req] = AlertOf[q]
                                 => events'[i].at < req'[q].at - DedupWindow
      BY DEF RoutedClear
    <3>1. req[q].behind <= Len(events)
      BY DEF ClearInv, RoutedClear
    <3>2. \A i \in 1..Len(events') : i <= req[q].behind => i \in 1..Len(events)
      BY <2>3, <2>4, <3>1
    <3>. QED BY <2>3, <2>4, <3>1, <3>2 DEF ClearInv, RoutedClear
  <2>. QED BY <1>1, <2>6, <2>7, <2>8 DEF ClearInv
<1>8. ASSUME NEW r \in Requests, Complete(r) PROVE ClearInv'
  <2>1. /\ req'[r].at = req[r].at /\ req'[r].verdict = req[r].verdict
        /\ req'[r].behind = req[r].behind /\ req'[r].phase = "reply"
        /\ \A q \in Requests \ {r} : req'[q] = req[q]
    BY <1>2, <1>8 DEF Complete, ReqType
  <2>. QED BY <1>1, <1>8, <2>1, ClearQuiet DEF Complete
<1>9. CASE Crash
  <2>1. \A q \in Requests : /\ req'[q].at = req[q].at /\ req'[q].verdict = req[q].verdict
                            /\ req'[q].behind = req[q].behind
                            /\ req'[q].phase = req[q].phase \/ req'[q].phase = "over"
    BY <1>2, <1>9 DEF Crash, ReqType
  <2>. QED BY <1>1, <1>9, <2>1, ClearQuiet DEF Crash, tables
<1>10. CASE Tick \/ UNCHANGED vars \/ \E r \in Requests : Renew(r)
  BY <1>1, <1>10, ClearQuiet DEF Tick, Renew, vars, tables
<1>. QED BY <1>3, <1>4, <1>5, <1>6, <1>7, <1>8, <1>9, <1>10 DEF Next, Arriving, Handling

\* A restatement that entered after an event of its alert was on the ledger is
\* not routed again inside the window, whoever sent it.
THEOREM RestatementHeld == Spec => []SequentialOnce
BY ClearInit, ClearStep, ClearImplies, PTL DEF Spec
-----------------------------------------------------------------------------
(***************************************************************************)
(* Entry: one part runs, and the others rest.                              *)
(***************************************************************************)
\* A step is a step of the part that runs.
LEMMA StepOfPart ==
  ASSUME [EntryNext]_entryVars
  PROVE  /\ part' = part
         /\ part = "config" => K!ConfigNext \/ UNCHANGED K!configVars
         /\ part = "walk" => L!WalkNext \/ UNCHANGED L!walkVars
         /\ part = "thread" => T!ThreadNext \/ UNCHANGED T!threadVars
         /\ part = "refire" => F!RefireNext \/ UNCHANGED F!refireVars
<1>1. CASE EntryNext
  BY <1>1 DEF EntryNext, Still
<1>2. CASE UNCHANGED entryVars
  BY <1>2 DEF entryVars, configVars, walkVars, threadVars, refireVars, K!configVars, L!walkVars,
              T!threadVars, F!refireVars
<1>. QED
  BY <1>1, <1>2
-----------------------------------------------------------------------------
(***************************************************************************)
(* Config: what the names of a fingerprint can be read from.               *)
(***************************************************************************)
\* What runs was accepted, and is a document somebody sent or wrote.
RunsAccepted == running # K!NoConfig => K!Accepted(running) /\ running \in Documents \cup Edits

\* The pipe boots on a file that loads.
LEMMA ConfigStarts == K!ConfigInit => RunsAccepted
BY DEF K!ConfigInit, RunsAccepted

\* A file written by hand counts when it is loaded, and not before.
LEMMA ConfigStep ==
  RunsAccepted /\ file \in Documents \cup Edits /\ (K!ConfigNext \/ UNCHANGED K!configVars)
    => RunsAccepted' /\ file' \in Documents \cup Edits
BY DEF RunsAccepted, K!ConfigNext, K!configVars, K!EditFile, K!Stop, K!Boot, K!PutConfig,
       K!ReloadConfig, K!Loadable

\* What a door reads is a field of one of the templates.
LEMMA FieldsAreKeys ==
  ASSUME NEW doc \in Documents \cup Edits, NEW src \in K!ToSet(doc.sources), K!Accepted(doc),
         NEW template \in K!ToSet(K!TemplatesFor(doc, src))
  PROVE  template.fields \subseteq Keys
<1>1. \A reader \in K!ToSet(doc.templates) \cup K!ToSet(doc.sources) :
          reader.fields \subseteq Keys \cup K!Reserved
  BY EntryAssumption DEF K!ConfigAssumption, K!Reserved
<1>2. src.fields \subseteq Keys
  BY <1>1 DEF K!Accepted, K!SourcesOK
<1>3. \A other \in K!ToSet(doc.templates) : other.fields \subseteq Keys
  BY <1>1 DEF K!Accepted, K!TemplatesOK
<1>4. PICK i \in DOMAIN K!TemplatesFor(doc, src) : template = K!TemplatesFor(doc, src)[i]
  BY DEF K!ToSet
<1>5. CASE src.templates = <<>>
  <2>1. template.fields = src.fields
    BY <1>4, <1>5 DEF K!TemplatesFor
  <2>. QED
    BY <1>2, <2>1
<1>6. CASE src.templates # <<>>
  <2>1. i \in DOMAIN src.templates /\ template = K!Named(doc, src.templates[i])
    BY <1>4, <1>6 DEF K!TemplatesFor
  <2>2. src.templates[i] \in K!ToSet(src.templates)
    BY <2>1 DEF K!ToSet
  <2>3. src.templates[i] \in K!NamesOf(doc.templates)
    BY <2>2 DEF K!Accepted, K!SourcesOK
  <2>4. template \in K!ToSet(doc.templates)
    BY <2>1, <2>3 DEF K!NamesOf, K!Named
  <2>. QED
    BY <1>3, <2>4
<1>. QED
  BY <1>5, <1>6

\* A name in the vocabulary of its door is read from some payload, or from none
\* that has it.
LEMMA VocabularyIsRead ==
  ASSUME NEW doc \in Documents \cup Edits, K!Accepted(doc), K!Enumerable(doc),
         NEW src \in K!ToSet(doc.sources), NEW name \in K!ToSet(src.prints)
  PROVE  \/ \E payload \in K!Payloads : K!Fingerprint(doc, src, payload)[name] # ""
         \/ K!Unreached(doc, src, name)
<1>1. name \in K!Vocabulary(doc, src)
  BY DEF K!Accepted, K!FingerprintsOK
<1>2. src.prints # <<>>
  BY DEF K!ToSet
<1>3. \A payload : K!Fingerprint(doc, src, payload)[name] = K!Value(doc, src, payload, name)
  BY <1>2 DEF K!Fingerprint
<1>. DEFINE all == [key \in Keys |-> "x"]
<1>4. all \in K!Payloads
  BY DEF K!Payloads
<1>5. CASE name \in K!BuiltIn
  <2>1. K!Value(doc, src, all, name) = "x"
    BY <1>5 DEF K!Value
  <2>. QED
    BY <1>3, <1>4, <2>1
<1>6. CASE /\ name \notin K!BuiltIn
           /\ \E stage \in K!UpToFingerprint(doc) : stage.type = "set" /\ name \in stage.sets
  <2>1. K!Value(doc, src, all, name) = "x"
    BY <1>6 DEF K!Value
  <2>. QED
    BY <1>3, <1>4, <2>1
<1>7. CASE /\ name \notin K!BuiltIn
           /\ ~\E stage \in K!UpToFingerprint(doc) : stage.type = "set" /\ name \in stage.sets
  <2>1. PICK template \in K!ToSet(K!TemplatesFor(doc, src)) : name \in template.fields
    BY <1>1, <1>7 DEF K!Vocabulary
  <2>2. name \in Keys
    BY <2>1, FieldsAreKeys
  <2>3. ASSUME NEW payload \in K!Payloads, payload[name] # "",
               name \in K!Select(K!TemplatesFor(doc, src), payload).fields
        PROVE  K!Fingerprint(doc, src, payload)[name] # ""
    <3>1. K!Value(doc, src, payload, name) = payload[name]
      BY <1>7, <2>2, <2>3 DEF K!Value
    <3>. QED
      BY <1>3, <2>3, <3>1
  <2>. QED
    BY <2>1, <2>3 DEF K!Unreached
<1>. QED
  BY <1>5, <1>6, <1>7

\* Whatever document an operator sends, or writes and loads, no door of the
\* running pipe takes its fingerprint from a name its templates and stages never
\* give a value to.
THEOREM FingerprintsAreRead == EntrySpec => []NamesAreReadable
<1>. DEFINE I == part = "config" => RunsAccepted /\ file \in Documents \cup Edits
<1>1. EntryInit => I
  BY ConfigStarts DEF EntryInit, K!ConfigInit
<1>2. I /\ [EntryNext]_entryVars => I'
  BY ConfigStep, StepOfPart
<1>3. I => NamesAreReadable
  BY VocabularyIsRead DEF RunsAccepted, NamesAreReadable, K!NamesAreReadable
<1>. QED
  BY <1>1, <1>2, <1>3, PTL DEF EntrySpec
-----------------------------------------------------------------------------
(***************************************************************************)
(* Walk: what is routed was let through.                                   *)
(***************************************************************************)
\* The pipeline asks for silences.
SilenceIsAsked(i) == i \in DOMAIN Stages /\ Stages[i].type = "silence"

SetStages == {j \in DOMAIN Stages : Stages[j].type = "set"}

\* What may be written on an event.
Texts == Titles \cup Levels \cup Values
         \cup UNION {{Stages[j].set[key] : key \in DOMAIN Stages[j].set} : j \in SetStages}

EventInHand ==
    [source : Doors, title : Texts, level : Texts, field : Texts,
     at : Int, stage : Nat \ {0}, dry : BOOLEAN,
     channels : SUBSET UNION {RouteTable[r].sendTo : r \in DOMAIN RouteTable},
     sample : BOOLEAN, found : SUBSET silences, asked : Texts, refused : {FALSE}]

\* Past the stage that asks, no silence the event found covers it.
WalkInv(i) ==
    /\ minute \in Int
    /\ walking \in [Slots -> {L!Nothing} \cup EventInHand]
    /\ \A s \in Slots : walking[s] # L!Nothing /\ walking[s].stage > i =>
           \A silence \in walking[s].found : ~L!Covers(silence, walking[s], walking[s].asked)
    /\ decisions \in Seq([title : Texts, outcome : {"skipped", "routed"}, sample : BOOLEAN,
                          refused : BOOLEAN, covered : BOOLEAN])
    /\ L!RoutedWasLetThrough

\* No event is in hand and no decision recorded.
LEMMA WalkStarts == ASSUME NEW i, L!WalkInit PROVE WalkInv(i)
BY DEF L!WalkInit, WalkInv, L!RoutedWasLetThrough

\* An event that walks on to its next stage.
LEMMA OnwardKeeps ==
  ASSUME NEW i \in Nat, WalkInv(i), NEW s \in Slots, NEW event \in EventInHand,
         event.stage + 1 > i => \A silence \in event.found : ~L!Covers(silence, event, event.asked),
         L!Onward(s, event)
  PROVE  WalkInv(i)'
<1>. DEFINE next == [event EXCEPT !.stage = event.stage + 1]
<1>0. event.stage \in Nat \ {0} /\ event.stage + 1 \in Nat \ {0}
  BY DEF EventInHand
<1>1. next \in EventInHand /\ next.stage = event.stage + 1 /\ next.found = event.found
      /\ next.source = event.source /\ next.asked = event.asked /\ next.at = event.at
  BY <1>0 DEF EventInHand
<1>2. walking' = [walking EXCEPT ![s] = next] /\ UNCHANGED <<minute, silences, decisions>>
  BY DEF L!Onward, EventInHand
<1>3. next.stage > i => \A silence \in next.found : ~L!Covers(silence, next, next.asked)
  BY <1>1 DEF L!Covers
<1>. HIDE DEF next
<1>. QED
  BY <1>1, <1>2, <1>3 DEF WalkInv, EventInHand, L!RoutedWasLetThrough

\* An event that is decided.
LEMMA RecordedKeeps ==
  ASSUME NEW i \in Nat, WalkInv(i), NEW s \in Slots, NEW event, NEW outcome \in {"skipped", "routed"},
         event.title \in Texts, event.sample \in BOOLEAN, event.refused \in BOOLEAN,
         outcome = "routed" => /\ event.refused = FALSE
                               /\ \A silence \in event.found : ~L!Covers(silence, event, event.asked),
         L!Recorded(s, event, outcome)
  PROVE  WalkInv(i)'
<1>. DEFINE row == [title |-> event.title, outcome |-> outcome, sample |-> event.sample,
                    refused |-> event.refused,
                    covered |-> \E silence \in event.found : L!Covers(silence, event, event.asked)]
            Rows == [title : Texts, outcome : {"skipped", "routed"}, sample : BOOLEAN,
                     refused : BOOLEAN, covered : BOOLEAN]
<1>1. row \in Rows
  OBVIOUS
<1>2. row.outcome = "routed" => ~row.covered /\ ~row.refused
  OBVIOUS
<1>3. /\ walking' = [walking EXCEPT ![s] = L!Nothing] /\ UNCHANGED <<minute, silences>>
      /\ decisions' = decisions \/ decisions' = Append(decisions, row)
  BY DEF L!Recorded
<1>4. decisions \in Seq(Rows)
  BY DEF WalkInv
<1>. HIDE DEF row, Rows
<1>6. L!RoutedWasLetThrough
  BY DEF WalkInv
<1>7. ASSUME decisions' = decisions PROVE decisions' \in Seq(Rows) /\ L!RoutedWasLetThrough'
  BY <1>4, <1>6, <1>7 DEF L!RoutedWasLetThrough
<1>8. ASSUME decisions' = Append(decisions, row)
      PROVE  decisions' \in Seq(Rows) /\ L!RoutedWasLetThrough'
  <2>1. /\ decisions' \in Seq(Rows) /\ Len(decisions') = Len(decisions) + 1 /\ Len(decisions) \in Nat
        /\ \A k \in 1..Len(decisions) : decisions'[k] = decisions[k]
        /\ decisions'[Len(decisions) + 1] = row
        /\ DOMAIN decisions' = 1..Len(decisions') /\ DOMAIN decisions = 1..Len(decisions)
    BY <1>1, <1>4, <1>8
  <2>2. \A k \in DOMAIN decisions' : k \in DOMAIN decisions \/ k = Len(decisions) + 1
    BY <2>1
  <2>. QED
    BY <1>2, <1>6, <2>1, <2>2 DEF L!RoutedWasLetThrough
<1>5. decisions' \in Seq(Rows) /\ L!RoutedWasLetThrough'
  BY <1>3, <1>4, <1>7, <1>8
<1>. QED
  BY <1>3, <1>5 DEF WalkInv, EventInHand, Rows

\* A stage writes the title, the level and the field, and nothing the walk is
\* judged by.
LEMMA WritingKeeps ==
  ASSUME NEW event \in EventInHand, NEW changes, DOMAIN changes \subseteq L!Writable,
         \A key \in DOMAIN changes : changes[key] \in Texts
  PROVE  /\ L!Written(event, changes) \in EventInHand
         /\ L!Written(event, changes).stage = event.stage /\ L!Written(event, changes).source = event.source
         /\ L!Written(event, changes).asked = event.asked /\ L!Written(event, changes).at = event.at
         /\ L!Written(event, changes).found = event.found
BY DEF EventInHand, L!Written, L!Writable

\* The stages of a walk, one by one.
LEMMA StageStep ==
  ASSUME NEW i, SilenceIsAsked(i), WalkInv(i), NEW s \in Slots,
         \/ L!Filter(s) \/ L!Enrich(s) \/ L!Silence(s) \/ L!PassBy(s) \/ L!Judge(s)
         \/ L!BrainFails(s) \/ L!Route(s) \/ L!Decide(s)
  PROVE  WalkInv(i)'
<1>. DEFINE event == walking[s]
<1>1. event # L!Nothing /\ event \in EventInHand /\ event.stage \in Nat \ {0}
  BY DEF WalkInv, EventInHand, L!Filter, L!Enrich, L!Silence, L!PassBy, L!Judge, L!BrainFails, L!AsksTheBrain,
         L!Route, L!Decide, L!On
<1>2. event.stage > i => \A silence \in event.found : ~L!Covers(silence, event, event.asked)
  BY <1>1 DEF WalkInv
<1>3. i \in Nat \ {0} /\ Len(Stages) \in Nat /\ i <= Len(Stages) /\ DOMAIN Stages = 1..Len(Stages)
  BY EntryAssumption DEF SilenceIsAsked, L!WalkAssumption
<1>4. Stages[i].type = "silence"
  BY DEF SilenceIsAsked
<1>5. ASSUME NEW type, L!On(s, type), type # "silence" PROVE event.stage # i
  BY <1>4, <1>5 DEF L!On, L!Stage
<1>6. ASSUME event.stage # i, event.stage + 1 > i PROVE event.stage > i
  BY <1>1, <1>3, <1>6
<1>7. event.sample \in BOOLEAN /\ event.refused = FALSE /\ event.title \in Texts
  BY <1>1 DEF EventInHand
<1>8. ASSUME NEW next \in EventInHand, event.stage # i, L!Onward(s, next),
             next.stage = event.stage, next.source = event.source, next.asked = event.asked,
             next.at = event.at, next.found = event.found
      PROVE  WalkInv(i)'
  <2>1. next.stage + 1 > i => \A silence \in next.found : ~L!Covers(silence, next, next.asked)
    BY <1>2, <1>6, <1>8 DEF L!Covers
  <2>. QED
    BY <1>3, <1>8, <2>1, OnwardKeeps
<1>9. ASSUME L!Onward(s, event), event.stage # i PROVE WalkInv(i)'
  BY <1>1, <1>8, <1>9
<1>10. ASSUME NEW refused \in BOOLEAN, NEW told \in EventInHand,
              L!Recorded(s, [told EXCEPT !.refused = refused], "skipped")
       PROVE  WalkInv(i)'
  <2>. DEFINE next == [told EXCEPT !.refused = refused]
  <2>1. next.title \in Texts /\ next.sample \in BOOLEAN /\ next.refused = refused
    BY <1>10 DEF EventInHand
  <2>. HIDE DEF next
  <2>. QED
    BY <1>3, <1>7, <1>10, <2>1, RecordedKeeps DEF next
<1>11. ASSUME L!Recorded(s, event, "skipped") PROVE WalkInv(i)'
  BY <1>3, <1>7, <1>11, RecordedKeeps
<1>12. CASE L!Filter(s)
  <2>1. event.stage # i
    BY <1>5, <1>12 DEF L!Filter
  <2>2. CASE L!Onward(s, [event EXCEPT !.sample = TRUE])
    <3>1. [event EXCEPT !.sample = TRUE] \in EventInHand
      BY <1>1 DEF EventInHand
    <3>2. ASSUME NEW next, next = [event EXCEPT !.sample = TRUE]
          PROVE  /\ next.stage = event.stage /\ next.source = event.source /\ next.asked = event.asked
                 /\ next.at = event.at /\ next.found = event.found
      BY <1>1, <3>2 DEF EventInHand
    <3>. QED
      BY <1>8, <2>1, <2>2, <3>1, <3>2
  <2>. QED
    BY <1>9, <1>11, <1>12, <2>1, <2>2 DEF L!Filter
<1>13. CASE L!Enrich(s)
  <2>1. L!Stage(s) = Stages[event.stage] /\ event.stage \in SetStages
    BY <1>13 DEF L!Enrich, L!On, L!Stage, SetStages
  <2>2. event.stage # i
    BY <1>5, <1>13 DEF L!Enrich
  <2>3. CASE L!Onward(s, L!Written(event, L!Stage(s).set))
    <3>. DEFINE changes == Stages[event.stage].set
    <3>1. DOMAIN changes \subseteq L!Writable
      BY <2>1, EntryAssumption DEF L!WalkAssumption, SetStages
    <3>2. \A key \in DOMAIN changes : changes[key] \in Texts
      BY <2>1 DEF Texts
    <3>3. L!Onward(s, L!Written(event, changes))
      BY <2>1, <2>3
    <3>. HIDE DEF changes
    <3>. QED
      BY <1>1, <1>8, <2>2, <3>1, <3>2, <3>3, WritingKeeps
  <2>. QED
    BY <1>9, <1>13, <2>2, <2>3 DEF L!Enrich
<1>14. CASE L!Silence(s)
  <2>1. CASE \E silence \in silences : L!Covers(silence, event, event.title)
    BY <1>11, <1>14, <2>1 DEF L!Silence
  <2>2. CASE ~\E silence \in silences : L!Covers(silence, event, event.title)
    <3>. DEFINE next == [event EXCEPT !.asked = event.title]
    <3>1. event.found \subseteq silences
      BY <1>1 DEF EventInHand
    <3>2. L!Onward(s, next)
      BY <1>14, <2>2 DEF L!Silence
    <3>3. next \in EventInHand /\ next.asked = event.title /\ next.found = event.found
          /\ next.source = event.source /\ next.at = event.at
      BY <1>1 DEF EventInHand
    <3>4. \A silence \in next.found : ~L!Covers(silence, next, next.asked)
      BY <2>2, <3>1, <3>3 DEF L!Covers
    <3>. HIDE DEF next
    <3>. QED
      BY <1>3, <3>2, <3>3, <3>4, OnwardKeeps
  <2>. QED
    BY <2>1, <2>2
<1>15. CASE L!PassBy(s)
  BY <1>5, <1>9, <1>15 DEF L!PassBy
<1>16. CASE L!Judge(s)
  <2>1. event.stage # i
    BY <1>5, <1>16 DEF L!Judge, L!AsksTheBrain
  <2>2. ASSUME NEW changes \in L!Changes
        PROVE  /\ DOMAIN changes \subseteq L!Writable
               /\ \A key \in DOMAIN changes : changes[key] \in Texts
    BY <2>2 DEF L!Changes, L!Writable, Texts
  <2>3. ASSUME NEW changes \in L!Changes, L!Onward(s, L!Written(event, changes)) PROVE WalkInv(i)'
    BY <1>1, <1>8, <2>1, <2>2, <2>3, WritingKeeps
  <2>4. ASSUME NEW changes \in L!Changes,
               L!Recorded(s, [L!Written(event, changes) EXCEPT !.refused = TRUE], "skipped")
        PROVE  WalkInv(i)'
    BY <1>1, <1>10, <2>2, <2>4, WritingKeeps
  <2>5. CASE walking' = [walking EXCEPT ![s] = L!Nothing] /\ UNCHANGED <<minute, silences, decisions>>
    <3>1. EventInHand' = EventInHand
      BY <2>5 DEF EventInHand, Texts, SetStages
    <3>2. \A q \in Slots : walking'[q] = L!Nothing \/ walking'[q] = walking[q]
      BY <2>5 DEF WalkInv
    <3>3. walking' \in [Slots -> {L!Nothing} \cup EventInHand]
      BY <2>5 DEF WalkInv
    <3>4. L!RoutedWasLetThrough'
      BY <2>5 DEF WalkInv, L!RoutedWasLetThrough
    <3>. QED
      BY <2>5, <3>1, <3>2, <3>3, <3>4 DEF WalkInv
  <2>. QED
    BY <1>16, <2>3, <2>4, <2>5 DEF L!Judge
<1>17. CASE L!BrainFails(s)
  BY <1>1, <1>5, <1>9, <1>10, <1>17 DEF L!BrainFails, L!AsksTheBrain
<1>18. CASE L!Route(s)
  <2>1. event.stage # i
    BY <1>5, <1>18 DEF L!Route
  <2>2. L!RoutedTo(event) \subseteq UNION {RouteTable[r].sendTo : r \in DOMAIN RouteTable}
    BY DEF L!RoutedTo
  <2>3. [event EXCEPT !.channels = L!RoutedTo(event)] \in EventInHand
    BY <1>1, <2>2 DEF EventInHand
  <2>4. ASSUME NEW next, next = [event EXCEPT !.channels = L!RoutedTo(event)]
        PROVE  /\ next.stage = event.stage /\ next.source = event.source /\ next.asked = event.asked
               /\ next.at = event.at /\ next.found = event.found
    BY <1>1, <2>4 DEF EventInHand
  <2>. QED
    BY <1>8, <1>18, <2>1, <2>3, <2>4 DEF L!Route
<1>19. CASE L!Decide(s)
  <2>1. event.stage > i
    BY <1>1, <1>3, <1>19 DEF L!Decide
  <2>2. ASSUME NEW outcome \in {"skipped", "routed"}, L!Recorded(s, event, outcome) PROVE WalkInv(i)'
    BY <1>2, <1>3, <1>7, <2>1, <2>2, RecordedKeeps
  <2>. QED
    BY <1>19, <2>2 DEF L!Decide
<1>. QED
  BY <1>12, <1>13, <1>14, <1>15, <1>16, <1>17, <1>18, <1>19

\* An arrival, and the silences that come and go.
LEMMA WalkStep ==
  ASSUME NEW i, SilenceIsAsked(i), WalkInv(i), L!WalkNext \/ UNCHANGED L!walkVars
  PROVE  WalkInv(i)'
<1>1. i \in Nat \ {0}
  BY EntryAssumption DEF SilenceIsAsked, L!WalkAssumption
<1>2. CASE L!Minute \/ L!AddSilence \/ UNCHANGED L!walkVars
  <2>2. minute \in Int
    BY DEF WalkInv
  <2>1. /\ minute' \in Int /\ silences \subseteq silences'
        /\ UNCHANGED <<walking, decisions>>
    <3>1. CASE L!Minute
      BY <2>2, <3>1 DEF L!Minute
    <3>2. CASE L!AddSilence
      BY <2>2, <3>2 DEF L!AddSilence
    <3>3. CASE UNCHANGED L!walkVars
      BY <2>2, <3>3 DEF L!walkVars
    <3>. QED
      BY <1>2, <3>1, <3>2, <3>3
  <2>. QED
    BY <2>1 DEF WalkInv, EventInHand, L!Covers, L!RoutedWasLetThrough
<1>3. CASE L!LiftSilence
  <2>1. PICK silence \in silences :
            /\ silences' = silences \ {silence}
            /\ walking' = [s \in Slots |-> IF walking[s] = L!Nothing THEN L!Nothing
                                          ELSE [walking[s] EXCEPT !.found = @ \ {silence}]]
    BY <1>3 DEF L!LiftSilence
  <2>2. ASSUME NEW s \in Slots, walking[s] # L!Nothing
        PROVE  /\ walking'[s] \in EventInHand'
               /\ walking'[s].stage > i =>
                    \A x \in walking'[s].found : ~L!Covers(x, walking'[s], walking'[s].asked)
    <3>1. walking[s] \in EventInHand
      BY <2>2 DEF WalkInv
    <3>2. walking'[s] = [walking[s] EXCEPT !.found = @ \ {silence}]
      BY <2>1, <2>2
    <3>3. walking'[s] \in EventInHand'
      BY <2>1, <3>1, <3>2 DEF EventInHand
    <3>4. /\ walking'[s].stage = walking[s].stage /\ walking'[s].found \subseteq walking[s].found
          /\ walking'[s].source = walking[s].source /\ walking'[s].asked = walking[s].asked
          /\ walking'[s].at = walking[s].at
      BY <3>1, <3>2 DEF EventInHand
    <3>5. walking'[s].stage > i =>
            \A x \in walking'[s].found : ~L!Covers(x, walking'[s], walking'[s].asked)
      BY <2>2, <3>4 DEF WalkInv, L!Covers
    <3>. QED
      BY <3>3, <3>5
  <2>3. UNCHANGED <<minute, decisions>>
    BY <1>3 DEF L!LiftSilence
  <2>. QED
    BY <2>1, <2>2, <2>3 DEF WalkInv, L!RoutedWasLetThrough
<1>4. ASSUME NEW s \in Slots, L!Arrive(s) PROVE WalkInv(i)'
  <2>1. PICK source \in Doors, title \in Titles, level \in Levels, value \in Values, dry \in BOOLEAN :
            walking' = [walking EXCEPT ![s] = L!Arriving(source, title, level, value, dry)]
    BY <1>4 DEF L!Arrive
  <2>2. L!Arriving(source, title, level, value, dry) \in EventInHand
        /\ L!Arriving(source, title, level, value, dry).stage = 1
    BY DEF L!Arriving, EventInHand, WalkInv, Texts
  <2>3. UNCHANGED <<minute, silences, decisions>>
    BY <1>4 DEF L!Arrive
  <2>. QED
    <3>1. EventInHand' = EventInHand
      BY <2>3 DEF EventInHand
    <3>2. walking' \in [Slots -> {L!Nothing} \cup EventInHand]
      BY <2>1, <2>2 DEF WalkInv
    <3>3. \A q \in Slots : walking'[q] = walking[q] \/ walking'[q].stage = 1
      BY <2>1, <2>2 DEF WalkInv
    <3>4. ASSUME NEW q \in Slots, walking'[q] # L!Nothing, walking'[q].stage > i
          PROVE  \A silence \in walking'[q].found : ~L!Covers(silence, walking'[q], walking'[q].asked)
      <4>1. walking'[q] = walking[q]
        BY <1>1, <3>3, <3>4
      <4>. QED
        BY <3>4, <4>1 DEF WalkInv
    <3>5. L!RoutedWasLetThrough'
      BY <2>3 DEF WalkInv, L!RoutedWasLetThrough
    <3>. QED
      BY <2>3, <3>1, <3>2, <3>4, <3>5 DEF WalkInv
<1>. QED
  BY <1>2, <1>3, <1>4, StageStep DEF L!WalkNext

\* Where the pipeline asks for silences, an event that is routed is covered by no
\* silence it found there and that still stands, under the title it had when it was
\* last asked about, whatever a stage or the brain wrote on it before or after; and
\* a brain whose stage fails closed neither refused it nor missed it.
THEOREM RoutedLetThrough ==
  ASSUME NEW CONSTANT i, SilenceIsAsked(i)
  PROVE  EntrySpec => []RoutedWasLetThrough
<1>. DEFINE I == part = "walk" => WalkInv(i)
<1>1. EntryInit => I
  BY WalkStarts DEF EntryInit
<1>2. I /\ [EntryNext]_entryVars => I'
  BY WalkStep, StepOfPart
<1>3. I => RoutedWasLetThrough
  BY DEF RoutedWasLetThrough, WalkInv
<1>. QED
  BY <1>1, <1>2, <1>3, PTL DEF EntrySpec
-----------------------------------------------------------------------------
\* A set of numbers has a smallest one.
LEMMA LeastOf ==
  ASSUME NEW S \in SUBSET Nat, S # {}
  PROVE  \E x \in S : \A y \in S : x <= y
<1>. DEFINE R == OpToRel(<, Nat)
<1>1. \E x \in S : \A y \in S : ~(<<y, x>> \in R)
  <2>1. IsWellFoundedOn(R, Nat)
    BY NatLessThanWellFounded
  <2>. HIDE DEF R
  <2>. QED
    BY <2>1, WFMin
<1>2. ASSUME NEW x \in Nat, NEW y \in Nat, ~(<<y, x>> \in R)
      PROVE  x <= y
  <2>1. ~(y < x)
    BY <1>2 DEF OpToRel
  <2>. QED
    BY <2>1
<1>. QED
  BY <1>1, <1>2

\* The greatest of a set of positions is one of them, and none is greater.
LEMMA GreatestOf ==
  ASSUME NEW n \in Nat, NEW S \in SUBSET (0..n), S # {}
  PROVE  /\ T!Max(S) \in S /\ \A y \in S : y <= T!Max(S)
         /\ F!Max(S) = T!Max(S)
<1>. DEFINE U == {n - x : x \in S}
<1>1. U \in SUBSET Nat /\ U # {}
  <2>1. \A x \in S : n - x \in Nat
    OBVIOUS
  <2>. QED
    BY <2>1
<1>2. PICK t \in U : \A u \in U : t <= u
  BY <1>1, LeastOf
<1>3. PICK x \in S : t = n - x
  OBVIOUS
<1>4. ASSUME NEW y \in S PROVE n - x <= n - y
  <2>1. n - y \in U
    OBVIOUS
  <2>. HIDE DEF U
  <2>. QED
    BY <1>2, <1>3, <2>1
<1>5. \A y \in S : x >= y
  <2>1. \A y \in S : y \in Int /\ x \in Int
    OBVIOUS
  <2>. QED
    BY <1>4, <2>1
<1>6. T!Max(S) = CHOOSE m \in S : \A y \in S : m >= y
  BY DEF T!Max
<1>7. F!Max(S) = CHOOSE m \in S : \A y \in S : m >= y
  BY DEF F!Max
<1>8. T!Max(S) \in S /\ \A y \in S : T!Max(S) >= y
  <2>. HIDE DEF U
  <2>. QED
    BY <1>5, <1>6
<1>9. \A y \in S : y \in Int
  OBVIOUS
<1>. QED
  <2>. HIDE DEF U
  <2>. QED
    BY <1>6, <1>7, <1>8, <1>9
-----------------------------------------------------------------------------
(***************************************************************************)
(* Thread: a reply stays in the operation of the card it is under.         *)
(***************************************************************************)
ChatDoors == {"watch", "plan-notify", "work-notify", "plan-approved", "lark-thread"}
Entries ==
    [door : ChatDoors, quote : Nat, item : Nat, session : Nat, root : Int,
     to : {"plan", "work", "none"}, op : Nat]
RunsOf(n) == [node : {"plan", "work"}, event : 1..n, item : Nat, root : Int, state : {"running", "finished"},
              notice : BOOLEAN]

ThreadType ==
    /\ ledger \in Seq(Entries)
    /\ DOMAIN runs \subseteq DOMAIN ledger
    /\ \A s \in DOMAIN runs : runs[s] \in RunsOf(Len(ledger))

\* What quotes an event came after it and belongs to its operation; and what
\* quotes one and names a session names a session of that operation.
EventInChain(i) ==
    /\ ledger[i].session # 0 => ledger[i].session \in DOMAIN runs
    /\ ledger[i].door = "lark-thread" /\ ledger[i].session # 0 => ledger[i].quote # 0
    /\ ledger[i].quote # 0 =>
          /\ ledger[i].quote < i
          /\ ledger[i].op = ledger[ledger[i].quote].op
          /\ ledger[i].session # 0 => ledger[runs[ledger[i].session].event].op = ledger[i].op

\* So does a reply that waits to be recorded.
ReplyInChain ==
    reply # T!NoReply =>
        /\ reply.quote \in {0} \cup DOMAIN ledger /\ reply.root \in Int /\ reply.session \in Nat
        /\ reply.session # 0 =>
              /\ reply.quote # 0 /\ reply.session \in DOMAIN runs
              /\ ledger[runs[reply.session].event].op = ledger[reply.quote].op

ThreadInv == ThreadType /\ (\A i \in DOMAIN ledger : EventInChain(i)) /\ ReplyInChain

\* An empty ledger and no reply.
LEMMA ThreadStarts == T!ThreadInit => ThreadInv
BY DEF T!ThreadInit, ThreadInv, ThreadType, ReplyInChain

\* A walk up the quotes ends, at an event of the operation it began in.
LEMMA OriginIsOfChain ==
  ASSUME ThreadInv, NEW i \in DOMAIN ledger
  PROVE  /\ T!Origin(i) \in DOMAIN ledger /\ ledger[T!Origin(i)].op = ledger[i].op
         /\ ledger[i].quote = 0 => T!Origin(i) = i
<1>. DEFINE n == Len(ledger)
            Up(k, u) == IF T!Parent(k) \in {0, k} THEN k ELSE u[T!Parent(k)]
            Climbs(m, u) == u = [k \in 1..m |-> Up(k, u)]
            up == CHOOSE u : u = [k \in DOMAIN ledger |-> IF T!Parent(k) \in {0, k} THEN k ELSE u[T!Parent(k)]]
<1>1. n \in Nat /\ DOMAIN ledger = 1..n
  BY DEF ThreadInv, ThreadType
<1>2. ASSUME NEW k \in 1..n
      PROVE  T!Parent(k) \in Nat /\ (T!Parent(k) # 0 => T!Parent(k) \in 1..(k - 1))
  <2>1. ledger[k] \in Entries /\ EventInChain(k)
    BY <1>1, <1>2 DEF ThreadInv, ThreadType
  <2>. QED
    BY <1>1, <1>2, <2>1 DEF EventInChain, Entries, T!Parent
<1>3. \A m \in 0..n : \E u : Climbs(m, u)
  <2>. DEFINE Bad == {m \in 0..n : ~\E u : Climbs(m, u)}
  <2>1. SUFFICES ASSUME Bad # {} PROVE FALSE
    OBVIOUS
  <2>2. PICK m \in Bad : \A y \in Bad : m <= y
    <3>1. Bad \in SUBSET Nat
      BY <1>1
    <3>. HIDE DEF Bad
    <3>. QED
      BY <2>1, <3>1, LeastOf
  <2>3. m # 0
    <3>1. Climbs(0, [k \in 1..0 |-> k])
      OBVIOUS
    <3>. QED
      BY <3>1
  <2>4. m - 1 \in 0..n /\ m - 1 \notin Bad /\ m \in 1..n
    BY <1>1, <2>2, <2>3
  <2>5. PICK u : Climbs(m - 1, u)
    BY <2>4
  <2>. DEFINE v == [k \in 1..m |-> IF k = m THEN Up(m, u) ELSE u[k]]
  <2>6. ASSUME NEW k \in 1..m PROVE v[k] = Up(k, v)
    <3>1. T!Parent(k) # 0 => T!Parent(k) \in 1..(k - 1)
      BY <1>1, <1>2, <2>4
    <3>2. CASE k = m
      BY <1>1, <2>4, <3>1, <3>2
    <3>3. CASE k # m
      <4>1. k \in 1..(m - 1)
        BY <2>4, <3>3
      <4>2. u[k] = Up(k, u)
        BY <2>5, <4>1
      <4>. QED
        BY <1>1, <2>4, <3>1, <3>3, <4>1, <4>2
    <3>. QED
      BY <3>2, <3>3
  <2>7. Climbs(m, v)
    <3>1. v = [k \in 1..m |-> v[k]]
      OBVIOUS
    <3>. HIDE DEF v
    <3>. QED
      BY <2>6, <3>1
  <2>. QED
    BY <2>2, <2>7
<1>4. up = [k \in DOMAIN ledger |-> IF T!Parent(k) \in {0, k} THEN k ELSE up[T!Parent(k)]]
  <2>1. n \in 0..n
    BY <1>1
  <2>2. \E u : u = [k \in DOMAIN ledger |-> IF T!Parent(k) \in {0, k} THEN k ELSE u[T!Parent(k)]]
    BY <1>1, <1>3, <2>1
  <2>. QED
    BY <2>2
<1>5. \A k \in DOMAIN ledger : T!Origin(k) = up[k]
  BY DEF T!Origin
<1>6. \A k \in DOMAIN ledger :
          T!Origin(k) = IF T!Parent(k) \in {0, k} THEN k ELSE T!Origin(T!Parent(k))
  <2>1. \A k \in DOMAIN ledger : up[k] = IF T!Parent(k) \in {0, k} THEN k ELSE up[T!Parent(k)]
    <3>. HIDE DEF up
    <3>. QED
      BY <1>4
  <2>. HIDE DEF up
  <2>3. \A k \in DOMAIN ledger : T!Parent(k) # 0 => T!Parent(k) \in DOMAIN ledger
    BY <1>1, <1>2
  <2>. QED
    BY <1>5, <2>1, <2>3
<1>. HIDE DEF up
<1>7. \A k \in 1..n : T!Origin(k) \in 1..n /\ ledger[T!Origin(k)].op = ledger[k].op
  <2>. DEFINE Bad == {k \in 1..n : ~(T!Origin(k) \in 1..n /\ ledger[T!Origin(k)].op = ledger[k].op)}
  <2>1. SUFFICES ASSUME Bad # {} PROVE FALSE
    OBVIOUS
  <2>2. PICK k \in Bad : \A y \in Bad : k <= y
    <3>1. Bad \in SUBSET Nat
      BY <1>1
    <3>. HIDE DEF Bad
    <3>. QED
      BY <2>1, <3>1, LeastOf
  <2>3. k \in 1..n /\ T!Parent(k) \notin {0, k}
    BY <1>1, <1>6, <2>2
  <2>4. T!Parent(k) \in 1..n /\ T!Parent(k) < k
    BY <1>1, <1>2, <2>3
  <2>5. T!Parent(k) \notin Bad
    BY <1>1, <2>2, <2>4
  <2>6. ledger[k].op = ledger[T!Parent(k)].op
    BY <1>1, <2>3 DEF ThreadInv, EventInChain, T!Parent
  <2>. QED
    BY <1>1, <1>6, <2>2, <2>3, <2>4, <2>5, <2>6
<1>. QED
  BY <1>1, <1>6, <1>7 DEF T!Parent

\* What the lookup finds names no session of another operation.
LEMMA LookupStaysInChain ==
  ASSUME ThreadInv, NEW root \in Int
  PROVE  LET found == T!ThreadContext(root)
         IN  /\ found.quote \in {0} \cup DOMAIN ledger /\ found.root \in Int /\ found.session \in Nat
             /\ found.session # 0 =>
                   /\ found.quote # 0 /\ found.session \in DOMAIN runs
                   /\ ledger[runs[found.session].event].op = ledger[found.quote].op
<1>. DEFINE n == Len(ledger)
            card == T!CardEvent(root)
            named == {0} \cup {i \in T!Returns(card) : ledger[i].session # 0}
            newest == T!Max(named)
            found == T!ThreadContext(root)
<1>1. n \in Nat /\ DOMAIN ledger = 1..n
  BY DEF ThreadInv, ThreadType
<1>2. card \in 0..n
  <2>1. CASE T!IsCard(root)
    BY <1>1, <2>1 DEF T!IsCard, T!CardEvent
  <2>2. CASE ~T!IsCard(root)
    <3>. DEFINE S == {0} \cup {i \in DOMAIN ledger : ledger[i].root = root /\ ledger[i].session # 0}
    <3>1. S \in SUBSET (0..n) /\ S # {}
      BY <1>1
    <3>2. card = T!Max(S)
      BY <2>2 DEF T!CardEvent
    <3>. HIDE DEF S
    <3>. QED
      BY <1>1, <3>1, <3>2, GreatestOf
  <2>. QED
    BY <2>1, <2>2
<1>3. CASE card = 0
  <2>1. found.quote = 0 /\ found.root = root /\ found.session = 0
    BY <1>3 DEF T!ThreadContext
  <2>. QED
    BY <2>1
<1>4. CASE card # 0
  <2>1. newest \in named
    <3>1. named \in SUBSET (0..n) /\ named # {}
      BY <1>1 DEF T!Returns
    <3>. HIDE DEF named
    <3>. QED
      BY <1>1, <3>1, GreatestOf
  <2>2. /\ found.quote = card /\ found.root = root
        /\ found.session = IF newest = 0 THEN 0 ELSE ledger[newest].session
    BY <1>4 DEF T!ThreadContext
  <2>3. CASE newest = 0
    BY <1>1, <1>2, <2>2, <2>3
  <2>4. CASE newest # 0
    <3>1. newest \in T!Returns(card) /\ ledger[newest].session # 0
      BY <2>1, <2>4
    <3>2. newest \in DOMAIN ledger /\ T!Origin(newest) = T!Origin(card) /\ newest # T!Origin(card)
      BY <3>1 DEF T!Returns
    <3>3. ledger[newest].quote # 0 /\ ledger[T!Origin(newest)].op = ledger[newest].op
      BY <3>2, OriginIsOfChain
    <3>4. card \in DOMAIN ledger /\ ledger[T!Origin(card)].op = ledger[card].op
      BY <1>1, <1>2, <1>4, OriginIsOfChain
    <3>5. EventInChain(newest) /\ ledger[newest] \in Entries
      BY <1>1, <3>2 DEF ThreadInv, ThreadType
    <3>6. found.session = ledger[newest].session /\ ledger[newest].session \in Nat
      BY <2>2, <2>4, <3>5 DEF Entries
    <3>7. ledger[newest].session \in DOMAIN runs
          /\ ledger[runs[ledger[newest].session].event].op = ledger[newest].op
      BY <3>1, <3>3, <3>5 DEF EventInChain
    <3>. HIDE DEF newest, card
    <3>. QED
      BY <1>4, <2>2, <3>2, <3>3, <3>4, <3>6, <3>7
  <2>. QED
    BY <2>3, <2>4
<1>. QED
  BY <1>2, <1>3, <1>4

\* An event that is recorded, with what it does to the runs.
LEMMA AppendKeepsChains ==
  ASSUME ThreadInv, NEW e \in Entries, ledger' = Append(ledger, e),
         DOMAIN runs' \subseteq DOMAIN runs \cup {T!Next1},
         \A s \in DOMAIN runs : s \in DOMAIN runs' /\ runs'[s].event = runs[s].event,
         \A s \in DOMAIN runs' : runs'[s] \in RunsOf(T!Next1),
         e.session # 0 => e.session \in DOMAIN runs',
         e.door = "lark-thread" /\ e.session # 0 => e.quote # 0,
         e.quote # 0 =>
             /\ e.quote \in DOMAIN ledger /\ e.op = ledger[e.quote].op
             /\ e.session # 0 => /\ runs'[e.session].event \in DOMAIN ledger
                                 /\ ledger[runs'[e.session].event].op = e.op,
         reply' \in {reply, T!NoReply}
  PROVE  ThreadInv'
<1>0. PICK n \in Nat : n = Len(ledger)
  BY DEF ThreadInv, ThreadType
<1>1. ledger \in Seq(Entries) /\ n = Len(ledger) /\ DOMAIN ledger = 1..n /\ T!Next1 = n + 1
  BY <1>0 DEF ThreadInv, ThreadType, T!Next1
<1>2. /\ ledger' \in Seq(Entries) /\ Len(ledger') = n + 1 /\ DOMAIN ledger' = 1..(n + 1)
      /\ ledger'[n + 1] = e /\ \A i \in 1..n : ledger'[i] = ledger[i]
  BY <1>1
<1>3. ThreadType'
  BY <1>1, <1>2 DEF ThreadInv, ThreadType
<1>4. \A s \in DOMAIN runs : runs[s].event \in 1..n
  BY <1>1 DEF ThreadInv, ThreadType, RunsOf
<1>5. ASSUME NEW i \in 1..n PROVE EventInChain(i)'
  <2>1. ledger'[i] = ledger[i] /\ EventInChain(i)
    BY <1>1, <1>2, <1>5 DEF ThreadInv
  <2>3. ledger[i] \in Entries
    BY <1>1, <1>5
  <2>4. ledger[i].quote \in Nat
    BY <2>3 DEF Entries
  <2>2. ledger[i].quote # 0 => ledger[i].quote \in 1..n
    BY <1>1, <1>5, <2>1, <2>4 DEF EventInChain
  <2>. QED
    BY <1>2, <1>4, <2>1, <2>2 DEF EventInChain
<1>6. EventInChain(n + 1)'
  BY <1>1, <1>2 DEF EventInChain
<1>7. ReplyInChain'
  <2>1. CASE reply' = T!NoReply
    BY <2>1 DEF ReplyInChain
  <2>2. CASE reply' = reply
    <3>1. ReplyInChain
      BY DEF ThreadInv
    <3>. QED
      BY <1>1, <1>2, <1>4, <2>2, <3>1 DEF ReplyInChain
  <2>. QED
    BY <2>1, <2>2
<1>8. \A i \in DOMAIN ledger' : EventInChain(i)'
  <2>1. \A i \in 1..(n + 1) : i \in 1..n \/ i = n + 1
    BY <1>1
  <2>. QED
    BY <1>2, <1>5, <1>6, <2>1
<1>. QED
  BY <1>3, <1>7, <1>8 DEF ThreadInv

\* Nothing is recorded, and the runs stay about what they are about.
LEMMA QuietKeepsChains ==
  ASSUME ThreadInv, ledger' = ledger, DOMAIN runs' = DOMAIN runs,
         \A s \in DOMAIN runs : runs'[s] \in RunsOf(Len(ledger)) /\ runs'[s].event = runs[s].event,
         reply' = reply \/ ReplyInChain'
  PROVE  ThreadInv'
<1>1. ThreadType'
  BY DEF ThreadInv, ThreadType
<1>2. \A i \in DOMAIN ledger' : EventInChain(i)'
  BY DEF ThreadInv, EventInChain
<1>3. ReplyInChain'
  BY DEF ThreadInv, ReplyInChain
<1>. QED
  BY <1>1, <1>2, <1>3 DEF ThreadInv

\* A notice quotes what its subject quoted, under a session that is about the same.
LEMMA NoticeKeepsChains ==
  ASSUME ThreadInv, NEW s \in DOMAIN runs, T!Notice(s), reply' = reply
  PROVE  ThreadInv'
<1>. DEFINE n == Len(ledger)
            e == T!Event(T!NotifyDoor[runs[s].node], runs[s].event, runs[s].item, T!Next1,
                         runs[s].root, "none", ledger[runs[s].event].op)
<1>1. n \in Nat /\ DOMAIN ledger = 1..n /\ T!Next1 = n + 1
  BY DEF ThreadInv, ThreadType, T!Next1
<1>2. runs[s] \in RunsOf(n) /\ runs[s].event \in DOMAIN ledger /\ ledger[runs[s].event] \in Entries
  BY <1>1 DEF ThreadInv, ThreadType, RunsOf
<1>3. T!NotifyDoor[runs[s].node] \in {"plan-notify", "work-notify"}
  BY <1>2 DEF T!NotifyDoor, RunsOf
<1>4. e \in Entries
  <2>1. /\ runs[s].event \in Nat /\ runs[s].item \in Nat /\ runs[s].root \in Int
        /\ ledger[runs[s].event].op \in Nat /\ T!Next1 \in Nat
    BY <1>1, <1>2 DEF Entries, RunsOf
  <2>. QED
    BY <1>3, <2>1 DEF T!Event, Entries, ChatDoors
<1>5. /\ e.session = T!Next1 /\ e.quote = runs[s].event /\ e.op = ledger[runs[s].event].op
      /\ e.door # "lark-thread"
  BY <1>3 DEF T!Event
<1>6. ledger' = Append(ledger, e)
  BY DEF T!Notice
<1>7. /\ DOMAIN runs' = DOMAIN runs \cup {n + 1}
      /\ runs'[n + 1] = [runs[s] EXCEPT !.state = "finished", !.notice = TRUE]
      /\ \A i \in DOMAIN runs : i # n + 1 /\ runs'[i] = runs[i]
  BY <1>1 DEF T!Notice, ThreadInv, ThreadType
<1>8. runs'[n + 1] \in RunsOf(n + 1) /\ runs'[n + 1].event = runs[s].event
  <2>1. [runs[s] EXCEPT !.state = "finished"] \in RunsOf(n + 1)
        /\ [runs[s] EXCEPT !.state = "finished"].event = runs[s].event
    BY <1>1, <1>2 DEF RunsOf
  <2>2. ASSUME NEW x \in RunsOf(n + 1)
        PROVE  [x EXCEPT !.notice = TRUE] \in RunsOf(n + 1) /\ [x EXCEPT !.notice = TRUE].event = x.event
    BY DEF RunsOf
  <2>. QED
    BY <1>7, <2>1, <2>2
<1>9. \A i \in DOMAIN runs : runs[i] \in RunsOf(n + 1)
  BY <1>1 DEF ThreadInv, ThreadType, RunsOf
<1>10. \A i \in DOMAIN runs' : runs'[i] \in RunsOf(n + 1)
  BY <1>7, <1>8, <1>9
<1>. HIDE DEF e
<1>. QED
  BY <1>1, <1>2, <1>4, <1>5, <1>6, <1>7, <1>8, <1>10, AppendKeepsChains

\* One run more: the run of an event that is recorded.
LEMMA RunTyped ==
  ASSUME ThreadInv, NEW node \in {"plan", "work"}, NEW item \in Nat, NEW root \in Int,
         DOMAIN runs' = DOMAIN runs \cup {T!Next1},
         runs'[T!Next1] = T!Run(node, T!Next1, item, root),
         \A i \in DOMAIN runs : i # T!Next1 => runs'[i] = runs[i]
  PROVE  /\ DOMAIN runs' \subseteq DOMAIN runs \cup {T!Next1}
         /\ \A s \in DOMAIN runs : s \in DOMAIN runs' /\ runs'[s] = runs[s]
         /\ \A s \in DOMAIN runs' : runs'[s] \in RunsOf(T!Next1)
<1>. DEFINE n == Len(ledger)
<1>1. n \in Nat /\ DOMAIN ledger = 1..n /\ T!Next1 = n + 1 /\ DOMAIN runs \subseteq 1..n
  BY DEF ThreadInv, ThreadType, T!Next1
<1>2. T!Run(node, n + 1, item, root) \in RunsOf(n + 1)
  BY <1>1 DEF T!Run, RunsOf
<1>3. \A i \in DOMAIN runs : runs[i] \in RunsOf(n + 1)
  BY <1>1 DEF ThreadInv, ThreadType, RunsOf
<1>. QED
  BY <1>1, <1>2, <1>3

\* The steps of the chat and of the nodes, one by one.
LEMMA ThreadStep ==
  ASSUME ThreadInv, T!ThreadNext \/ UNCHANGED T!threadVars
  PROVE  ThreadInv'
<1>. DEFINE n == Len(ledger)
<1>1. n \in Nat /\ DOMAIN ledger = 1..n /\ T!Next1 = n + 1 /\ DOMAIN runs \subseteq 1..n
  BY DEF ThreadInv, ThreadType, T!Next1
<1>2. \A s \in DOMAIN runs : runs[s] \in RunsOf(n) /\ runs[s].event \in 1..n
  BY <1>1 DEF ThreadInv, ThreadType, RunsOf
<1>3. \A i \in DOMAIN ledger : ledger[i] \in Entries
  BY DEF ThreadInv, ThreadType
<1>4. CASE T!Signal
  <2>. DEFINE e == T!Event("watch", 0, 0, 0, 0, "plan", T!Next1)
  <2>1. e \in Entries /\ e.session = 0 /\ e.quote = 0
    BY <1>1 DEF T!Event, Entries, ChatDoors
  <2>2. ledger' = Append(ledger, e) /\ reply' = reply
    BY <1>4 DEF T!Signal
  <2>3. /\ DOMAIN runs' = DOMAIN runs \cup {T!Next1}
        /\ runs'[T!Next1] = T!Run("plan", T!Next1, n + 1, 0)
        /\ \A i \in DOMAIN runs : i # T!Next1 => runs'[i] = runs[i]
    BY <1>1, <1>4 DEF T!Signal
  <2>. HIDE DEF e
  <2>4. /\ DOMAIN runs' \subseteq DOMAIN runs \cup {T!Next1}
        /\ \A s \in DOMAIN runs : s \in DOMAIN runs' /\ runs'[s] = runs[s]
        /\ \A s \in DOMAIN runs' : runs'[s] \in RunsOf(T!Next1)
    BY <1>1, <2>3, RunTyped
  <2>. QED
    BY <2>1, <2>2, <2>4, AppendKeepsChains
<1>5. ASSUME NEW s \in DOMAIN runs, T!Report(s) PROVE ThreadInv'
  <2>. DEFINE e == T!Event(T!NotifyDoor[runs[s].node], runs[s].event, runs[s].item, s,
                           runs[s].root, "none", ledger[runs[s].event].op)
  <2>1. T!NotifyDoor[runs[s].node] \in {"plan-notify", "work-notify"}
    BY <1>2 DEF T!NotifyDoor, RunsOf
  <2>2. e \in Entries
    BY <1>1, <1>2, <1>3, <2>1 DEF T!Event, Entries, ChatDoors, RunsOf
  <2>3. /\ e.session = s /\ e.quote = runs[s].event /\ e.op = ledger[runs[s].event].op
        /\ e.door # "lark-thread"
    BY <2>1 DEF T!Event
  <2>4. ledger' = Append(ledger, e) /\ reply' = reply
    BY <1>5 DEF T!Report
  <2>5. /\ DOMAIN runs' = DOMAIN runs
        /\ \A i \in DOMAIN runs : runs'[i] \in RunsOf(n) /\ runs'[i].event = runs[i].event
    BY <1>2, <1>5 DEF T!Report, RunsOf
  <2>6. RunsOf(n) \subseteq RunsOf(n + 1)
    BY <1>1 DEF RunsOf
  <2>. HIDE DEF e
  <2>. QED
    BY <1>1, <1>2, <2>2, <2>3, <2>4, <2>5, <2>6, AppendKeepsChains
<1>6. ASSUME NEW s \in DOMAIN runs, T!ReportOutcome(s) PROVE ThreadInv'
  BY <1>6, NoticeKeepsChains DEF T!ReportOutcome
<1>7. ASSUME NEW s \in DOMAIN runs, T!HandOff(s) PROVE ThreadInv'
  <2>. DEFINE e == T!Event("plan-approved", 0, runs[s].item, s, 0, "work", T!Next1)
  <2>1. e \in Entries /\ e.session = s /\ e.quote = 0 /\ e.door # "lark-thread"
    BY <1>1, <1>2 DEF T!Event, Entries, ChatDoors, RunsOf
  <2>2. ledger' = Append(ledger, e) /\ reply' = reply
    BY <1>7 DEF T!HandOff
  <2>3. /\ DOMAIN runs' = DOMAIN runs \cup {T!Next1}
        /\ runs'[T!Next1] = T!Run("work", T!Next1, runs[s].item, 0)
        /\ \A i \in DOMAIN runs : i # T!Next1 => runs'[i] = runs[i]
    BY <1>1, <1>7 DEF T!HandOff
  <2>4. runs[s].item \in Nat
    BY <1>2 DEF RunsOf
  <2>. HIDE DEF e
  <2>5. /\ DOMAIN runs' \subseteq DOMAIN runs \cup {T!Next1}
        /\ \A q \in DOMAIN runs : q \in DOMAIN runs' /\ runs'[q] = runs[q]
        /\ \A q \in DOMAIN runs' : runs'[q] \in RunsOf(T!Next1)
    BY <2>3, <2>4, RunTyped
  <2>. QED
    BY <2>1, <2>2, <2>5, AppendKeepsChains
<1>8. ASSUME NEW root \in Topics \cup DOMAIN ledger, T!Say(root) PROVE ThreadInv'
  <2>1. root \in Int
    BY <1>1, EntryAssumption DEF T!ThreadAssumption
  <2>2. reply' = T!ThreadContext(root) /\ UNCHANGED <<ledger, runs>>
    BY <1>8 DEF T!Say
  <2>3. ReplyInChain'
    BY <2>1, <2>2, LookupStaysInChain DEF ReplyInChain
  <2>. QED
    BY <1>1, <1>2, <2>2, <2>3, QuietKeepsChains
<1>9. CASE T!RecordReply
  <2>. DEFINE e == T!Event("lark-thread", reply.quote, 0, reply.session, reply.root,
                           T!RouteReply(reply), T!OperationOf(reply))
  <2>1. reply # T!NoReply /\ ReplyInChain
    BY <1>9 DEF T!RecordReply, ThreadInv
  <2>2. reply.quote \in 0..n /\ reply.root \in Int /\ reply.session \in Nat
    BY <1>1, <2>1 DEF ReplyInChain
  <2>3. T!RouteReply(reply) \in {"plan", "work", "none"}
    BY DEF T!RouteReply
  <2>4. T!OperationOf(reply) \in Nat
    BY <1>1, <1>3, <2>2 DEF T!OperationOf, Entries
  <2>5. e \in Entries
    BY <2>2, <2>3, <2>4 DEF T!Event, Entries, ChatDoors
  <2>6. e.session = reply.session /\ e.quote = reply.quote /\ e.op = T!OperationOf(reply)
    BY DEF T!Event
  <2>7. ledger' = Append(ledger, e) /\ reply' = T!NoReply
    BY <1>9 DEF T!RecordReply
  <2>8. /\ DOMAIN runs' \subseteq DOMAIN runs \cup {n + 1}
        /\ \A s \in DOMAIN runs : s \in DOMAIN runs' /\ runs'[s] = runs[s]
        /\ \A s \in DOMAIN runs' : runs'[s] \in RunsOf(n + 1)
    <3>1. CASE T!RouteReply(reply) = "plan" /\ reply.session = 0
      <4>1. /\ DOMAIN runs' = DOMAIN runs \cup {T!Next1}
          /\ runs'[T!Next1] = T!Run("plan", T!Next1, n + 1, reply.root)
          /\ \A i \in DOMAIN runs : i # T!Next1 => runs'[i] = runs[i]
        BY <1>1, <1>9, <3>1 DEF T!RecordReply
      <4>. QED
        BY <1>1, <2>2, <4>1, RunTyped
    <3>2. CASE ~(T!RouteReply(reply) = "plan" /\ reply.session = 0)
      <4>1. runs' = runs
        BY <1>9, <3>2 DEF T!RecordReply
      <4>2. RunsOf(n) \subseteq RunsOf(n + 1)
        BY <1>1 DEF RunsOf
      <4>. QED
        BY <1>2, <4>1, <4>2
    <3>. QED
      BY <3>1, <3>2
  <2>9. e.quote # 0 => e.quote \in DOMAIN ledger /\ e.op = ledger[e.quote].op
    BY <1>1, <2>2, <2>6 DEF T!OperationOf
  <2>10. e.session # 0 => /\ e.quote # 0 /\ e.session \in DOMAIN runs
                          /\ ledger[runs[e.session].event].op = ledger[e.quote].op
    BY <2>1, <2>6 DEF ReplyInChain
  <2>. HIDE DEF e
  <2>. QED
    BY <1>1, <1>2, <2>5, <2>7, <2>8, <2>9, <2>10, AppendKeepsChains
<1>10. ASSUME NEW i \in DOMAIN ledger, T!FollowUp(i) PROVE ThreadInv'
  <2>. DEFINE s == ledger[i].session
  <2>1. ledger[i].root \in Int
    BY <1>3, <1>10 DEF Entries
  <2>2. runs' = [runs EXCEPT ![s].state = "running", ![s].root = ledger[i].root]
        /\ UNCHANGED <<ledger, reply>>
    BY <1>10 DEF T!FollowUp
  <2>3. /\ DOMAIN runs' = DOMAIN runs
        /\ \A q \in DOMAIN runs : runs'[q] \in RunsOf(n) /\ runs'[q].event = runs[q].event
    BY <1>2, <2>1, <2>2 DEF RunsOf
  <2>. QED
    BY <2>2, <2>3, QuietKeepsChains
<1>11. ASSUME NEW i \in DOMAIN ledger, T!Decline(i) PROVE ThreadInv'
  <2>1. ledger[i].session \in DOMAIN runs
    BY <1>11 DEF ThreadInv, EventInChain, T!Decline, T!Waiting
  <2>. QED
    BY <1>11, <2>1, NoticeKeepsChains DEF T!Decline
<1>12. CASE T!Spend \/ UNCHANGED T!threadVars
  <2>1. UNCHANGED <<ledger, runs, reply>>
    BY <1>12 DEF T!Spend, T!threadVars
  <2>. QED
    BY <1>2, <2>1, QuietKeepsChains
<1>. QED
  BY <1>4, <1>5, <1>6, <1>7, <1>8, <1>9, <1>10, <1>11, <1>12 DEF T!ThreadNext

\* A reply under a card is given the session of no other operation, whatever was
\* pressed further down and whatever came in between its lookup and its record.
THEOREM ChatIsOfItsChain == EntrySpec => []ChatStaysInItsChain
<1>. DEFINE I == part = "thread" => ThreadInv
<1>1. EntryInit => I
  BY ThreadStarts DEF EntryInit
<1>2. I /\ [EntryNext]_entryVars => I'
  BY ThreadStep, StepOfPart
<1>3. I => ChatStaysInItsChain
  BY DEF ThreadInv, EventInChain, ChatStaysInItsChain, T!ChatStaysInItsChain
<1>. QED
  BY <1>1, <1>2, <1>3, PTL DEF EntrySpec
-----------------------------------------------------------------------------
(***************************************************************************)
(* Refire: no answer given for nothing cites another one.                  *)
(***************************************************************************)
Records(t) ==
    [kind : {"relay", "agent", "drill", "notice"}, source : AlertDoors, level : Severities,
     asked : BOOLEAN, event : Nat, status : {"running", "completed", "failed"}, at : -1..t,
     done : -1..t, resumable : BOOLEAN, way : {"none", "ruled", "vouched", "refire"},
     on : SUBSET Nat, ruling : F!Rulings, ruledAt : -1..t, recovered : BOOLEAN]

\* What runs 1 to i were at their start, an answer stays on.
Grounded(i) ==
    records[i].way # "none" =>
        /\ records[i].on # {}
        /\ \A j \in records[i].on : j \in 1..(i - 1) /\ records[j].way = "none"
        /\ records[i].way = "refire" =>
              \E a \in 1..(i - 1) :
                  /\ records[i].on = {a} /\ records[a].source = records[i].source
                  /\ F!Investigation(records[a])
                  /\ \A j \in F!Looks(records[i].source) : j <= a \/ j > i

\* The firings a look answered.
Reused(a) ==
    {i \in DOMAIN records : /\ F!Investigation(records[i]) /\ records[i].way = "refire"
                            /\ a \in records[i].on}

RefireInv ==
    /\ instant \in Nat /\ records \in Seq(Records(instant))
    /\ \A i \in DOMAIN records : Grounded(i)
    /\ \A a \in DOMAIN records : Cardinality(Reused(a)) <= MaxAnswers

\* What no later step changes of a run.
SameLook(r, q) == q.kind = r.kind /\ q.source = r.source /\ q.way = r.way /\ q.on = r.on

\* No run was started.
LEMMA RefireStarts == F!RefireInit => RefireInv
BY DEF F!RefireInit, RefireInv

\* A record is still one an instant later.
LEMMA RecordsLast ==
  ASSUME NEW t \in Nat
  PROVE  Records(t) \subseteq Records(t + 1)
<1>1. -1..t \subseteq -1..(t + 1)
  OBVIOUS
<1>. HIDE DEF F!Rulings
<1>. QED
  BY <1>1 DEF Records

\* Runs go on, end, are judged and hear of a recovery: their answers stay what
\* they are.
LEMMA TouchedKeeps ==
  ASSUME RefireInv, instant' = instant + 1, DOMAIN records' = DOMAIN records,
         records' \in Seq(Records(instant + 1)),
         \A i \in DOMAIN records : SameLook(records[i], records'[i])
  PROVE  RefireInv'
<1>1. instant' \in Nat /\ records' \in Seq(Records(instant'))
  BY DEF RefireInv
<1>2. \A i \in DOMAIN records : F!Investigation(records'[i]) = F!Investigation(records[i])
  BY DEF SameLook, F!Investigation
<1>5. ASSUME NEW i \in DOMAIN records PROVE Grounded(i)'
  <2>1. Grounded(i) /\ DOMAIN records = 1..Len(records) /\ Len(records) \in Nat
    BY DEF RefireInv
  <2>2. \A j \in 1..(i - 1) : j \in DOMAIN records
    BY <2>1
  <2>. QED
    BY <1>2, <2>1, <2>2 DEF Grounded, SameLook, F!Looks, F!Condition, F!Unanswered
<1>6. ASSUME NEW a PROVE Reused(a)' = Reused(a)
  BY <1>2 DEF Reused, SameLook
<1>. QED
  BY <1>1, <1>5, <1>6 DEF RefireInv

\* What a run that is opened may be answered from.
Rests(e) ==
    e.way # "none" =>
        /\ e.on # {} /\ e.on \subseteq F!Unanswered
        /\ e.way = "refire" =>
              \E a \in F!Looks(e.source) :
                  /\ e.on = {a} /\ \A j \in F!Looks(e.source) : j <= a
                  /\ Cardinality({i \in F!Condition(e.source) : i >= a} \ F!Unanswered) < MaxAnswers

\* The firings a look answered are answers of its condition since.
LEMMA ReusedSince ==
  ASSUME RefireInv, NEW source, NEW a \in F!Looks(source)
  PROVE  /\ IsFiniteSet(Reused(a))
         /\ Cardinality(Reused(a)) <=
                Cardinality({i \in F!Condition(source) : i >= a} \ F!Unanswered)
<1>. DEFINE since == {i \in F!Condition(source) : i >= a}
<1>1. Len(records) \in Nat /\ DOMAIN records = 1..Len(records)
  BY DEF RefireInv
<1>2. IsFiniteSet(1..Len(records))
  BY <1>1, FS_Interval
<1>3. since \ F!Unanswered \subseteq 1..Len(records)
  BY <1>1 DEF F!Condition
<1>4. IsFiniteSet(since \ F!Unanswered)
  BY <1>2, <1>3, FS_Subset
<1>5. ASSUME NEW i \in Reused(a) PROVE i \in since \ F!Unanswered
  <2>1. /\ i \in 1..Len(records) /\ F!Investigation(records[i]) /\ records[i].way = "refire"
        /\ a \in records[i].on /\ Grounded(i)
    BY <1>1, <1>5 DEF Reused, RefireInv
  <2>2. PICK b \in 1..(i - 1) : records[i].on = {b} /\ records[b].source = records[i].source
    BY <2>1 DEF Grounded
  <2>3. a = b /\ records[a].source = source
    BY <2>1, <2>2 DEF F!Looks, F!Condition
  <2>4. i >= a
    BY <2>1, <2>2, <2>3
  <2>5. i \in F!Condition(source) /\ i \notin F!Unanswered
    BY <1>1, <2>1, <2>2, <2>3 DEF F!Condition, F!Unanswered
  <2>. QED
    BY <2>4, <2>5
<1>6. Reused(a) \subseteq since \ F!Unanswered
  BY <1>5
<1>. HIDE DEF since
<1>. QED
  BY <1>4, <1>6, FS_Subset DEF since

\* One run more.
LEMMA OpenedKeeps ==
  ASSUME RefireInv, instant' = instant + 1, NEW e \in Records(instant + 1), Rests(e),
         records' = Append(records, e)
  PROVE  RefireInv'
<1>0. PICK n \in Nat : n = Len(records)
  BY DEF RefireInv
<1>1. /\ instant \in Nat /\ DOMAIN records = 1..n /\ records \in Seq(Records(instant + 1))
  <2>1. Records(instant) \subseteq Records(instant + 1)
    BY RecordsLast DEF RefireInv
  <2>2. records \in Seq(Records(instant)) /\ instant \in Nat
    BY DEF RefireInv
  <2>. QED
    BY <1>0, <2>1, <2>2
<1>2. /\ records' \in Seq(Records(instant + 1)) /\ DOMAIN records' = 1..(n + 1)
      /\ records'[n + 1] = e /\ \A i \in 1..n : records'[i] = records[i]
  BY <1>0, <1>1
<1>3. \A i \in 1..(n + 1) : i \in 1..n \/ i = n + 1
  OBVIOUS
<1>4. ASSUME NEW source
      PROVE  \A j \in F!Looks(source)' : j \in F!Looks(source) \/ (j = n + 1 /\ e.way = "none")
  BY <1>1, <1>2, <1>3 DEF F!Looks, F!Condition, F!Unanswered, F!Investigation
<1>5. ASSUME NEW i \in 1..n PROVE Grounded(i)'
  <2>1. Grounded(i) /\ records'[i] = records[i]
    BY <1>1, <1>2 DEF RefireInv
  <2>2. \A j \in 1..(i - 1) : j \in 1..n /\ records'[j] = records[j]
    BY <1>2
  <2>3. n + 1 > i
    OBVIOUS
  <2>4. CASE records[i].way = "none"
    BY <2>1, <2>4 DEF Grounded
  <2>5. CASE records[i].way # "none" /\ records[i].way # "refire"
    BY <2>1, <2>2, <2>5 DEF Grounded
  <2>6. CASE records[i].way = "refire"
    <3>1. PICK a \in 1..(i - 1) :
              /\ records[i].on = {a} /\ records[a].source = records[i].source
              /\ F!Investigation(records[a])
              /\ \A j \in F!Looks(records[i].source) : j <= a \/ j > i
      BY <2>1, <2>6 DEF Grounded
    <3>2. \A j \in F!Looks(records[i].source)' : j <= a \/ j > i
      BY <1>1, <1>2, <1>3, <2>1, <2>3, <3>1 DEF F!Looks, F!Condition, F!Unanswered, F!Investigation
    <3>. QED
      BY <2>1, <2>2, <3>1, <3>2 DEF Grounded
  <2>. QED
    BY <2>4, <2>5, <2>6
<1>6. Grounded(n + 1)'
  <2>1. \A j \in F!Unanswered : j \in 1..n /\ records'[j] = records[j] /\ records[j].way = "none"
    BY <1>1, <1>2 DEF F!Unanswered
  <2>2. ASSUME e.way = "refire"
        PROVE  \E a \in 1..n : /\ e.on = {a} /\ records[a].source = e.source
                               /\ F!Investigation(records[a])
                               /\ \A j \in F!Looks(e.source)' : j <= a
    <3>1. PICK a \in F!Looks(e.source) : e.on = {a} /\ \A j \in F!Looks(e.source) : j <= a
      BY <2>2 DEF Rests
    <3>2. a \in 1..n /\ records[a].source = e.source /\ F!Investigation(records[a])
      BY <1>1, <3>1 DEF F!Looks, F!Condition
    <3>3. \A j \in F!Looks(e.source)' : j <= a
      BY <1>4, <2>2, <3>1
    <3>. QED
      BY <3>1, <3>2, <3>3
  <2>3. (n + 1) - 1 = n
    OBVIOUS
  <2>. QED
    BY <1>2, <2>1, <2>2, <2>3 DEF Grounded, Rests
<1>7. ASSUME NEW a \in 1..(n + 1) PROVE Cardinality(Reused(a)') <= MaxAnswers
  <2>1. MaxAnswers \in Nat
    BY EntryAssumption DEF F!RefireAssumption
  <2>2. Reused(a)' \subseteq Reused(a) \cup {n + 1}
    BY <1>1, <1>2, <1>3 DEF Reused
  <2>3. CASE a = n + 1
    <3>1. \A i \in Reused(a)' : Grounded(i)' /\ i \in 1..(n + 1) /\ a \in records'[i].on
                                /\ records'[i].way # "none"
      BY <1>2, <1>3, <1>5, <1>6 DEF Reused
    <3>2. \A i \in Reused(a)' : a \in 1..(i - 1) /\ i \in 1..(n + 1)
      BY <3>1 DEF Grounded
    <3>3. Reused(a)' = {}
      BY <2>3, <3>2
    <3>. QED
      BY <2>1, <3>3, FS_EmptySet
  <2>4. CASE a # n + 1 /\ n + 1 \notin Reused(a)'
    <3>1. a \in DOMAIN records /\ Cardinality(Reused(a)) <= MaxAnswers
      BY <1>1, <1>3, <2>4 DEF RefireInv
    <3>2. Reused(a)' = Reused(a)
      BY <1>1, <1>2, <2>2, <2>4 DEF Reused
    <3>. QED
      BY <3>1, <3>2
  <2>5. CASE n + 1 \in Reused(a)'
    <3>1. e.way = "refire" /\ a \in e.on
      BY <1>2, <2>5 DEF Reused
    <3>2. /\ a \in F!Looks(e.source)
          /\ Cardinality({i \in F!Condition(e.source) : i >= a} \ F!Unanswered) < MaxAnswers
      BY <3>1 DEF Rests
    <3>3. /\ IsFiniteSet(Reused(a))
          /\ Cardinality(Reused(a)) <=
                 Cardinality({i \in F!Condition(e.source) : i >= a} \ F!Unanswered)
      BY <3>2, ReusedSince
    <3>4. Reused(a)' = Reused(a) \cup {n + 1} /\ n + 1 \notin Reused(a)
      BY <1>1, <1>2, <2>2, <2>5 DEF Reused
    <3>5. Cardinality(Reused(a)') = Cardinality(Reused(a)) + 1 /\ Cardinality(Reused(a)) \in Nat
      BY <3>3, <3>4, FS_AddElement, FS_CardinalityType
    <3>6. Cardinality({i \in F!Condition(e.source) : i >= a} \ F!Unanswered) \in Nat
      <4>1. IsFiniteSet(1..n)
        BY FS_Interval
      <4>2. {i \in F!Condition(e.source) : i >= a} \ F!Unanswered \subseteq 1..n
        BY <1>1 DEF F!Condition
      <4>. QED
        BY <4>1, <4>2, FS_Subset, FS_CardinalityType
    <3>. QED
      BY <2>1, <3>2, <3>3, <3>5, <3>6
  <2>. QED
    BY <2>3, <2>4, <2>5
<1>8. \A i \in DOMAIN records' : Grounded(i)'
  BY <1>2, <1>3, <1>5, <1>6
<1>9. instant' \in Nat /\ records' \in Seq(Records(instant'))
  BY <1>1, <1>2
<1>10. \A a \in DOMAIN records' : Cardinality(Reused(a)') <= MaxAnswers
  BY <1>2, <1>7
<1>. QED
  BY <1>8, <1>9, <1>10 DEF RefireInv

\* A run that is opened now.
LEMMA OpenedTyped ==
  ASSUME RefireInv, NEW kind \in {"relay", "agent", "drill", "notice"}, NEW source \in AlertDoors,
         NEW level \in Severities, NEW asked \in BOOLEAN, NEW event \in Nat
  PROVE  /\ F!Opened(kind, source, level, asked, event) \in Records(instant + 1)
         /\ F!Opened(kind, source, level, asked, event).way = "none"
<1>1. instant \in Nat /\ "none" \in F!Rulings
  BY DEF RefireInv, F!Rulings
<1>. HIDE DEF F!Rulings
<1>. QED
  BY <1>1 DEF F!Opened, F!Instant, Records

\* One that is answered by nothing, because the meter refused it or it is a notice.
LEMMA EndedTyped ==
  ASSUME RefireInv, NEW t \in {instant, instant + 1}, NEW r \in Records(t),
         NEW status \in {"completed", "failed"}
  PROVE  F!Ended(r, status) \in Records(instant + 1) /\ SameLook(r, F!Ended(r, status))
<1>1. instant \in Nat
  BY DEF RefireInv
<1>2. r \in Records(instant + 1)
  BY <1>1, RecordsLast
<1>3. [r EXCEPT !.status = status] \in Records(instant + 1)
      /\ SameLook(r, [r EXCEPT !.status = status])
  <2>. HIDE DEF F!Rulings
  <2>. QED
    BY <1>2 DEF Records, SameLook
<1>4. ASSUME NEW q \in Records(instant + 1)
      PROVE  [q EXCEPT !.done = instant + 1] \in Records(instant + 1)
             /\ SameLook(q, [q EXCEPT !.done = instant + 1])
  <2>1. instant + 1 \in -1..(instant + 1)
    BY <1>1
  <2>. HIDE DEF F!Rulings
  <2>. QED
    BY <2>1 DEF Records, SameLook
<1>5. F!Ended(r, status) = [[r EXCEPT !.status = status] EXCEPT !.done = instant + 1]
  BY DEF F!Ended, F!Instant
<1>. QED
  BY <1>3, <1>4, <1>5 DEF SameLook

\* The ruling's ground is what looked lately, the runbook's the run somebody
\* vouched for last, the report's the newest look of the door.
LEMMA GroundsRest ==
  ASSUME RefireInv, NEW e \in Records(instant + 1), e.way = "none", NEW force \in BOOLEAN,
         instant' = instant + 1, F!Start(e, force)
  PROVE  RefireInv'
<1>0. PICK n \in Nat : n = Len(records)
  BY DEF RefireInv
<1>1. DOMAIN records = 1..n /\ instant \in Nat /\ \A i \in 1..n : records[i] \in Records(instant)
  BY <1>0 DEF RefireInv
<1>2. F!Unanswered \subseteq 1..n
  BY <1>1 DEF F!Unanswered
<1>3. ASSUME NEW way \in {"ruled", "vouched", "refire"}, NEW ground \in SUBSET (1..n)
      PROVE  /\ F!Answered(e, way, ground) \in Records(instant + 1)
             /\ F!Answered(e, way, ground).way = way /\ F!Answered(e, way, ground).on = ground
             /\ F!Answered(e, way, ground).source = e.source
  <2>1. F!Ended(e, "completed") \in Records(instant + 1) /\ F!Ended(e, "completed").source = e.source
    <3>1. SameLook(e, F!Ended(e, "completed"))
      BY EndedTyped
    <3>. QED
      BY <3>1, EndedTyped DEF SameLook
  <2>2. ASSUME NEW r \in Records(instant + 1)
        PROVE  /\ [r EXCEPT !.way = way, !.on = ground] \in Records(instant + 1)
               /\ [r EXCEPT !.way = way, !.on = ground].way = way
               /\ [r EXCEPT !.way = way, !.on = ground].on = ground
               /\ [r EXCEPT !.way = way, !.on = ground].source = r.source
    <3>1. ground \in SUBSET Nat
      OBVIOUS
    <3>. HIDE DEF F!Rulings
    <3>. QED
      BY <3>1 DEF Records
  <2>. QED
    BY <2>1, <2>2 DEF F!Answered
<1>4. ASSUME NEW way \in {"ruled", "vouched"}, NEW ground \in SUBSET F!Unanswered, ground # {},
             records' = Append(records, F!Answered(e, way, ground))
      PROVE  RefireInv'
  <2>1. ground \in SUBSET (1..n)
    BY <1>2
  <2>2. Rests(F!Answered(e, way, ground))
    <3>1. F!Answered(e, way, ground).way # "refire" /\ F!Answered(e, way, ground).on = ground
      BY <1>3, <2>1
    <3>. QED
      BY <1>4, <3>1 DEF Rests
  <2>. QED
    BY <1>3, <1>4, <2>1, <2>2, OpenedKeeps
<1>5. ASSUME records' = Append(records, e) PROVE RefireInv'
  <2>1. Rests(e)
    BY DEF Rests
  <2>. QED
    BY <1>5, <2>1, OpenedKeeps
<1>6. F!RulingGround \subseteq F!Unanswered
  BY DEF F!RulingGround
<1>7. F!VouchedGround \subseteq F!Unanswered
  <2>1. SUFFICES ASSUME F!Vouching # {} PROVE F!Max(F!LatestRuled(F!Vouching)) \in F!Unanswered
    BY DEF F!VouchedGround
  <2>. DEFINE ruled == {records[i].ruledAt : i \in F!Vouching}
  <2>2. F!Vouching \subseteq F!Unanswered /\ \A i \in F!Vouching : records[i].ruledAt \in 0..instant
    <3>1. \A i \in 1..n : records[i].ruledAt \in -1..instant
      <4>. HIDE DEF F!Rulings
      <4>. QED
        BY <1>1 DEF Records
    <3>2. ASSUME NEW i \in F!Vouching PROVE i \in F!Unanswered /\ records[i].ruledAt \in 0..instant
      <4>1. i \in F!Unanswered /\ records[i].ruledAt >= 0
        BY DEF F!Vouching, F!Within
      <4>2. records[i].ruledAt \in -1..instant
        BY <1>2, <3>1, <4>1
      <4>. QED
        BY <1>1, <4>1, <4>2
    <3>. QED
      BY <3>2
  <2>3. ruled \in SUBSET (0..instant) /\ ruled # {}
    BY <2>1, <2>2
  <2>4. T!Max(ruled) \in ruled /\ \A y \in ruled : y <= T!Max(ruled)
    <3>. HIDE DEF ruled
    <3>. QED
      BY <1>1, <2>3, GreatestOf
  <2>5. PICK last \in F!Vouching : records[last].ruledAt = T!Max(ruled)
    BY <2>4
  <2>6. \A j \in F!Vouching : records[j].ruledAt <= records[last].ruledAt
    BY <2>4, <2>5
  <2>7. F!LatestRuled(F!Vouching) # {} /\ F!LatestRuled(F!Vouching) \subseteq F!Vouching
    BY <2>6 DEF F!LatestRuled
  <2>8. F!LatestRuled(F!Vouching) \in SUBSET (0..n)
    <3>1. \A i \in 1..n : i \in 0..n
      OBVIOUS
    <3>. QED
      BY <1>2, <2>2, <2>7, <3>1
  <2>9. F!Max(F!LatestRuled(F!Vouching)) \in F!LatestRuled(F!Vouching)
    BY <2>7, <2>8, GreatestOf
  <2>. QED
    BY <2>2, <2>7, <2>9
<1>8. ASSUME F!RefireGround(e) # {}, records' = Append(records, F!Answered(e, "refire", F!RefireGround(e)))
      PROVE  RefireInv'
  <2>. DEFINE looks == F!Looks(e.source)
              a == F!Max(looks)
  <2>1. a \in looks /\ F!RefireGround(e) = {a} /\ F!Anchors(a, e)
    BY <1>8 DEF F!RefireGround
  <2>2. looks \in SUBSET (0..n) /\ looks \subseteq F!Unanswered
    <3>1. \A i \in 1..n : i \in 0..n
      OBVIOUS
    <3>2. looks \subseteq F!Unanswered
      BY DEF F!Looks
    <3>. HIDE DEF looks
    <3>. QED
      BY <1>2, <3>1, <3>2
  <2>3. \A j \in looks : j <= a
    <3>. HIDE DEF looks
    <3>. QED
      BY <2>1, <2>2, GreatestOf
  <2>4. Cardinality({i \in F!Condition(e.source) : i >= a} \ F!Unanswered) < MaxAnswers
    BY <2>1 DEF F!Anchors, F!Cardinality, Cardinality
  <2>5. {a} \in SUBSET (1..n)
    BY <1>2, <2>1, <2>2
  <2>. HIDE DEF a
  <2>6. Rests(F!Answered(e, "refire", {a}))
    <3>1. PICK x : x = F!Answered(e, "refire", {a})
      OBVIOUS
    <3>2. x.way = "refire" /\ x.on = {a} /\ x.source = e.source
      BY <1>3, <2>5, <3>1
    <3>3. {a} # {} /\ {a} \subseteq F!Unanswered
      BY <2>1, <2>2
    <3>4. \E b \in F!Looks(e.source) :
              /\ x.on = {b} /\ \A j \in F!Looks(e.source) : j <= b
              /\ Cardinality({i \in F!Condition(e.source) : i >= b} \ F!Unanswered) < MaxAnswers
      BY <2>1, <2>3, <2>4, <3>2
    <3>5. Rests(x)
      BY <3>2, <3>3, <3>4 DEF Rests
    <3>. QED
      BY <3>1, <3>5
  <2>. QED
    BY <1>3, <1>8, <2>1, <2>5, <2>6, OpenedKeeps
<1>. QED
  BY <1>4, <1>5, <1>6, <1>7, <1>8 DEF F!Start

\* A run that changes under its own record.
LEMMA ChangedKeeps ==
  ASSUME RefireInv, instant' = instant + 1,
         DOMAIN records' = DOMAIN records, records' = [j \in DOMAIN records |-> records'[j]],
         \A j \in DOMAIN records :
             \/ records'[j] = records[j]
             \/ /\ records'[j] \in Records(instant + 1)
                /\ SameLook(records[j], records'[j])
  PROVE  RefireInv'
<1>0. PICK n \in Nat : n = Len(records)
  BY DEF RefireInv
<1>1. instant \in Nat /\ DOMAIN records = 1..n /\ \A j \in 1..n : records[j] \in Records(instant)
  BY <1>0 DEF RefireInv
<1>2. \A j \in 1..n : records'[j] \in Records(instant + 1)
  BY <1>1, RecordsLast
<1>3. records' \in Seq(Records(instant + 1))
  BY <1>1, <1>2
<1>4. \A j \in DOMAIN records : SameLook(records[j], records'[j])
  BY DEF SameLook
<1>. QED
  BY <1>3, <1>4, TouchedKeeps

\* The doors, the engine, people and patrols, one by one.
LEMMA RefireStep ==
  ASSUME RefireInv, F!RefireNext \/ UNCHANGED F!refireVars
  PROVE  RefireInv'
<1>1. CASE UNCHANGED F!refireVars
  BY <1>1 DEF F!refireVars, RefireInv, Grounded, Reused, F!Looks, F!Condition, F!Unanswered,
              F!Investigation
<1>2. SUFFICES ASSUME F!RefireNext PROVE RefireInv'
  BY <1>1
<1>3. instant' = instant + 1
  BY <1>2 DEF F!RefireNext, F!Instant
<1>4. PICK n \in Nat : n = Len(records)
  BY DEF RefireInv
<1>5. /\ instant \in Nat /\ DOMAIN records = 1..n /\ records = [j \in 1..n |-> records[j]]
      /\ \A j \in 1..n : records[j] \in Records(instant)
  BY <1>4 DEF RefireInv
<1>6. Records(instant) \subseteq Records(instant + 1)
  BY <1>5, RecordsLast
<1>7. ASSUME records' = records PROVE RefireInv'
  BY <1>3, <1>5, <1>7, ChangedKeeps
<1>8. ASSUME NEW i, NEW r, records' = [records EXCEPT ![i] = r],
             i \in DOMAIN records => r \in Records(instant + 1) /\ SameLook(records[i], r)
      PROVE  RefireInv'
  <2>1. DOMAIN records' = DOMAIN records /\ records' = [j \in DOMAIN records |-> records'[j]]
    BY <1>8
  <2>2. \A j \in DOMAIN records : records'[j] = IF j = i THEN r ELSE records[j]
    BY <1>8
  <2>. QED
    BY <1>3, <1>8, <2>1, <2>2, ChangedKeeps
<1>9. ASSUME NEW i, NEW level \in Severities \cup {records[i].level}, F!Reopen(i, level)
      PROVE  RefireInv'
  <2>. DEFINE r == [records[i] EXCEPT !.status = "running", !.done = -1, !.level = level]
  <2>1. ASSUME i \in DOMAIN records PROVE r \in Records(instant + 1) /\ SameLook(records[i], r)
    <3>1. PICK q \in Records(instant + 1) : q = records[i]
      BY <1>5, <1>6, <2>1
    <3>2. level \in Severities /\ -1 \in -1..(instant + 1)
      <4>. HIDE DEF F!Rulings
      <4>. QED
        BY <1>5, <1>9, <3>1 DEF Records
    <3>3. [q EXCEPT !.status = "running"] \in Records(instant + 1)
          /\ SameLook(q, [q EXCEPT !.status = "running"])
      <4>. HIDE DEF F!Rulings
      <4>. QED
        BY DEF Records, SameLook
    <3>4. ASSUME NEW x \in Records(instant + 1)
          PROVE  /\ [x EXCEPT !.done = -1] \in Records(instant + 1) /\ SameLook(x, [x EXCEPT !.done = -1])
                 /\ [x EXCEPT !.level = level] \in Records(instant + 1)
                 /\ SameLook(x, [x EXCEPT !.level = level])
      <4>. HIDE DEF F!Rulings
      <4>. QED
        BY <3>2 DEF Records, SameLook
    <3>5. PICK x : x = [q EXCEPT !.status = "running"]
      OBVIOUS
    <3>6. PICK y : y = [x EXCEPT !.done = -1]
      OBVIOUS
    <3>7. r = [y EXCEPT !.level = level]
      BY <3>1, <3>5, <3>6
    <3>8. x \in Records(instant + 1) /\ SameLook(q, x)
      BY <3>3, <3>5
    <3>9. y \in Records(instant + 1) /\ SameLook(x, y)
      BY <3>4, <3>6, <3>8
    <3>10. r \in Records(instant + 1) /\ SameLook(y, r)
      BY <3>4, <3>7, <3>9
    <3>. HIDE DEF r
    <3>. QED
      BY <3>1, <3>8, <3>9, <3>10 DEF SameLook
  <2>2. records' = [records EXCEPT ![i] = r]
    BY <1>9 DEF F!Reopen
  <2>. HIDE DEF r
  <2>. QED
    BY <1>8, <2>1, <2>2
<1>10. ASSUME NEW e \in Records(instant + 1), e.way = "none", F!Refuse(e) PROVE RefireInv'
  <2>1. F!Ended(e, "failed") \in Records(instant + 1) /\ SameLook(e, F!Ended(e, "failed"))
    BY EndedTyped
  <2>2. Rests(F!Ended(e, "failed"))
    BY <1>10, <2>1 DEF Rests, SameLook
  <2>. QED
    BY <1>3, <1>10, <2>1, <2>2, OpenedKeeps DEF F!Refuse
<1>11. n + 1 \in Nat /\ Len(records) + 1 = n + 1 /\ FALSE \in BOOLEAN
  BY <1>4
<1>12. ASSUME NEW source \in AlertDoors, NEW level \in Severities, NEW asked \in BOOLEAN,
              NEW over \in BOOLEAN, F!Fires(source, level, asked, over)
       PROVE  RefireInv'
  <2>. DEFINE new == F!Opened("relay", source, level, asked, Len(records) + 1)
  <2>1. new \in Records(instant + 1) /\ new.way = "none"
    BY <1>11, OpenedTyped
  <2>2. F!Reopen(F!Max(F!Joined(source)), level) \/ F!Refuse(new) \/ F!Start(new, FALSE)
    BY <1>12 DEF F!Fires, F!Joins
  <2>. HIDE DEF new
  <2>. QED
    BY <1>3, <1>9, <1>10, <2>1, <2>2, GroundsRest
<1>13. ASSUME NEW kind \in RunKinds, NEW source \in AlertDoors, NEW level \in Severities,
              NEW operator \in BOOLEAN, NEW force \in BOOLEAN, NEW over \in BOOLEAN,
              F!Triggered(kind, source, level, operator, force, over)
       PROVE  RefireInv'
  <2>. DEFINE new == F!Opened(kind, source, level, FALSE, Len(records) + 1)
  <2>1. kind \in {"relay", "agent", "drill", "notice"}
    BY EntryAssumption DEF F!RefireAssumption
  <2>2. new \in Records(instant + 1) /\ new.way = "none"
    BY <1>11, <2>1, OpenedTyped
  <2>3. F!Refuse(new) \/ F!Start(new, force)
    BY <1>13 DEF F!Triggered
  <2>. HIDE DEF new
  <2>. QED
    BY <1>3, <1>10, <2>2, <2>3, GroundsRest
<1>14. ASSUME NEW source \in AlertDoors, F!Recovers(source) PROVE RefireInv'
  <2>1. /\ DOMAIN records' = DOMAIN records /\ records' = [j \in DOMAIN records |-> records'[j]]
        /\ \A j \in DOMAIN records :
              records'[j] = records[j] \/ records'[j] = [records[j] EXCEPT !.recovered = TRUE]
    BY <1>14 DEF F!Recovers
  <2>2. ASSUME NEW q \in Records(instant + 1)
        PROVE  /\ [q EXCEPT !.recovered = TRUE] \in Records(instant + 1)
               /\ SameLook(q, [q EXCEPT !.recovered = TRUE])
    <3>. HIDE DEF F!Rulings
    <3>. QED
      BY DEF Records, SameLook
  <2>3. \A j \in DOMAIN records : records[j] \in Records(instant + 1)
    BY <1>5, <1>6
  <2>. QED
    BY <1>3, <2>1, <2>2, <2>3, ChangedKeeps
<1>15. ASSUME NEW q \in Records(instant + 1), NEW session \in BOOLEAN
       PROVE  /\ [q EXCEPT !.resumable = session] \in Records(instant + 1)
              /\ SameLook(q, [q EXCEPT !.resumable = session])
  <2>. HIDE DEF F!Rulings
  <2>. QED
    BY DEF Records, SameLook
<1>16. ASSUME NEW i \in DOMAIN records, NEW status \in {"completed", "failed"}, NEW session \in BOOLEAN,
              records' = [records EXCEPT ![i] = [F!Ended(records[i], status) EXCEPT !.resumable = session]]
       PROVE  RefireInv'
  <2>1. records[i] \in Records(instant)
    BY <1>5
  <2>2. /\ F!Ended(records[i], status) \in Records(instant + 1)
        /\ SameLook(records[i], F!Ended(records[i], status))
    BY <2>1, EndedTyped
  <2>3. PICK r : r = [F!Ended(records[i], status) EXCEPT !.resumable = session]
    OBVIOUS
  <2>4. r \in Records(instant + 1) /\ SameLook(F!Ended(records[i], status), r)
    BY <1>15, <2>2, <2>3
  <2>5. SameLook(records[i], r)
    BY <2>2, <2>4 DEF SameLook
  <2>. QED
    BY <1>8, <1>16, <2>3, <2>4, <2>5
<1>17. ASSUME NEW i \in DOMAIN records, F!Completes(i) PROVE RefireInv'
  <2>1. records' = [records EXCEPT ![i] = [F!Ended(records[i], "completed") EXCEPT !.resumable = TRUE]]
    BY <1>17 DEF F!Completes
  <2>. QED
    BY <1>16, <2>1
<1>18. ASSUME NEW i \in DOMAIN records, F!Fails(i) PROVE RefireInv'
  <2>1. records[i].resumable \in BOOLEAN
    <3>. HIDE DEF F!Rulings
    <3>. QED
      BY <1>5 DEF Records
  <2>2. PICK session \in BOOLEAN :
            records' = [records EXCEPT ![i] = [F!Ended(records[i], "failed") EXCEPT !.resumable = session]]
    BY <1>18, <2>1 DEF F!Fails
  <2>. QED
    BY <1>16, <2>2
<1>19. ASSUME NEW i, F!FollowUp(i) \/ F!Retry(i) PROVE RefireInv'
  <2>1. F!Reopen(i, records[i].level)
    BY <1>19 DEF F!FollowUp, F!Retry
  <2>. QED
    BY <1>9, <2>1
<1>20. ASSUME NEW i, NEW ruling \in F!Rulings, F!RuleRun(i, ruling) PROVE RefireInv'
  <2>. DEFINE at == IF ruling = "none" THEN -1 ELSE instant + 1
  <2>1. records' = [records EXCEPT ![i] = [records[i] EXCEPT !.ruling = ruling, !.ruledAt = at]]
    BY <1>20 DEF F!RuleRun, F!Instant
  <2>2. at \in -1..(instant + 1)
    BY <1>5
  <2>. HIDE DEF at
  <2>3. ASSUME NEW q \in Records(instant + 1)
        PROVE  /\ [q EXCEPT !.ruling = ruling] \in Records(instant + 1)
               /\ SameLook(q, [q EXCEPT !.ruling = ruling])
               /\ [q EXCEPT !.ruledAt = at] \in Records(instant + 1)
               /\ SameLook(q, [q EXCEPT !.ruledAt = at])
    <3>. HIDE DEF F!Rulings
    <3>. QED
      BY <2>2 DEF Records, SameLook
  <2>4. PICK r : r = [[records[i] EXCEPT !.ruling = ruling] EXCEPT !.ruledAt = at]
    OBVIOUS
  <2>5. i \in DOMAIN records => r \in Records(instant + 1) /\ SameLook(records[i], r)
    <3>1. i \in DOMAIN records => records[i] \in Records(instant + 1)
      BY <1>5, <1>6
    <3>. QED
      BY <2>3, <2>4, <3>1 DEF SameLook
  <2>6. records' = [records EXCEPT ![i] = r]
    BY <2>1, <2>4
  <2>. QED
    BY <1>8, <2>5, <2>6
<1>21. ASSUME NEW event, F!Dispatch(event) PROVE RefireInv'
  <2>1. F!FollowUp(F!Resolved(event)) \/ \E ruling \in F!Rulings : F!RuleRun(F!Resolved(event), ruling)
    BY <1>21 DEF F!Dispatch
  <2>. QED
    BY <1>19, <1>20, <2>1
<1>22. ASSUME NEW i \in DOMAIN records, F!Notice(i) PROVE RefireInv'
  <2>. DEFINE new == F!Opened("notice", records[i].source, records[i].level, FALSE, records[i].event)
  <2>1. records[i].source \in AlertDoors /\ records[i].level \in Severities /\ records[i].event \in Nat
    <3>. HIDE DEF F!Rulings
    <3>. QED
      BY <1>5 DEF Records
  <2>2. new \in Records(instant + 1) /\ new.way = "none"
    BY <2>1, OpenedTyped
  <2>3. records' = Append(records, F!Ended(new, "completed"))
    BY <1>22 DEF F!Notice
  <2>. HIDE DEF new
  <2>4. F!Ended(new, "completed") \in Records(instant + 1) /\ SameLook(new, F!Ended(new, "completed"))
    BY <2>2, EndedTyped
  <2>5. Rests(F!Ended(new, "completed"))
    BY <2>2, <2>4 DEF Rests, SameLook
  <2>. QED
    BY <1>3, <2>3, <2>4, <2>5, OpenedKeeps
<1>23. ASSUME NEW verdict, F!OperatorRules(verdict) \/ F!PatrolRules(verdict) PROVE RefireInv'
  BY <1>7, <1>23 DEF F!OperatorRules, F!PatrolRules
<1>24. CASE UNCHANGED <<records, opinions, cases, ends>>
  BY <1>7, <1>24
<1>. QED
  BY <1>2, <1>12, <1>13, <1>14, <1>17, <1>18, <1>19, <1>20, <1>21, <1>22, <1>23, <1>24 DEF F!RefireNext

\* No answer given for nothing cites another one, a report is reused of one
\* investigation of the firing's door, the newest, and for no more than MaxAnswers
\* investigations, for every window and every order of verdicts.
THEOREM AnswersCiteNoAnswer == EntrySpec => []NoAnswerCitesAnAnswer
<1>. DEFINE I == part = "refire" => RefireInv
<1>1. EntryInit => I
  BY RefireStarts DEF EntryInit
<1>2. I /\ [EntryNext]_entryVars => I'
  BY RefireStep, StepOfPart
<1>3. ASSUME RefireInv PROVE F!NoAnswerCitesAnAnswer
  <2>1. ASSUME NEW i \in DOMAIN records, records[i].way # "none"
        PROVE  /\ records[i].on # {}
               /\ \A j \in records[i].on : j < i /\ records[j].way = "none"
               /\ records[i].way = "refire" =>
                     \E a \in F!Looks(records[i].source) :
                         /\ records[i].on = {a}
                         /\ \A j \in F!Looks(records[i].source) : j <= a \/ j > i
    <3>1. Grounded(i) /\ DOMAIN records = 1..Len(records) /\ Len(records) \in Nat
      BY <1>3, <2>1 DEF RefireInv
    <3>2. \A j \in 1..(i - 1) : j \in DOMAIN records
      BY <3>1
    <3>3. ASSUME records[i].way = "refire"
          PROVE  \E a \in F!Looks(records[i].source) :
                     /\ records[i].on = {a}
                     /\ \A j \in F!Looks(records[i].source) : j <= a \/ j > i
      <4>1. PICK a \in 1..(i - 1) :
                /\ records[i].on = {a} /\ records[a].source = records[i].source
                /\ F!Investigation(records[a]) /\ records[a].way = "none"
                /\ \A j \in F!Looks(records[i].source) : j <= a \/ j > i
        BY <2>1, <3>1, <3>3 DEF Grounded
      <4>2. a \in F!Looks(records[i].source)
        BY <3>2, <4>1 DEF F!Looks, F!Condition, F!Unanswered
      <4>. QED
        BY <4>1, <4>2
    <3>4. \A j \in records[i].on : j < i /\ records[j].way = "none"
      BY <2>1, <3>1 DEF Grounded
    <3>. QED
      BY <2>1, <3>1, <3>3, <3>4 DEF Grounded
  <2>2. \A a \in DOMAIN records :
            F!Cardinality({i \in DOMAIN records : /\ F!Investigation(records[i]) /\ records[i].way = "refire"
                                                  /\ a \in records[i].on}) <= MaxAnswers
    BY <1>3 DEF RefireInv, Reused, F!Cardinality, Cardinality
  <2>. QED
    BY <2>1, <2>2 DEF F!NoAnswerCitesAnAnswer
<1>4. I => NoAnswerCitesAnAnswer
  BY <1>3 DEF NoAnswerCitesAnAnswer
<1>. QED
  BY <1>1, <1>2, <1>4, PTL DEF EntrySpec
=============================================================================
