----------------------------- MODULE FrontDoor -----------------------------
(***************************************************************************)
(* hookrelay's front door: the handler of POST /hook/{source}.  A signed   *)
(* request takes a renewable lease on its signature, passes the storm      *)
(* fuse, walks the stages (dedup first), leaves one event on the ledger,   *)
(* spends its signature and is answered; the same bytes sent again are     *)
(* answered from the spent signature, or told to wait.                     *)
(*                                                                         *)
(* A request is one HTTP call, with the signature and the alert it         *)
(* carries: two requests of one signature are a copy or an identical       *)
(* retry, two of one alert a restatement.  One source is modelled; what    *)
(* the stages after dedup do (silence, filter, routes, a call to a brain)  *)
(* is a choice between routed and held.                                    *)
(***************************************************************************)
EXTENDS Integers, Sequences, FiniteSets

CONSTANTS
    Requests, Signatures, Alerts,
    SignatureOf,    \* a request's signature, Unsigned for none
    AlertOf,        \* a request's fingerprint
    Unsigned,
    Replay,         \* signature_replay_seconds
    Lease,          \* signature_lease_seconds
    DedupWindow,    \* dedup_window_seconds
    Threshold,      \* storm_threshold, 0 for no fuse
    HardMultiplier, \* fuse._HARD_MULTIPLIER
    StormWindow,    \* storm_window_seconds
    MaxTime,
    MaxCrashes,     \* bound: restarts
    MaxFaults       \* bound: exceptions inside a request

ASSUME FrontDoorAssumption ==
    /\ SignatureOf \in [Requests -> Signatures \cup {Unsigned}] /\ Unsigned \notin Signatures
    /\ AlertOf \in [Requests -> Alerts]
    /\ Unsigned \notin Requests
    /\ Replay \in Nat \ {0} /\ Lease \in Nat \ {0} /\ DedupWindow \in Nat
    /\ Threshold \in Nat /\ HardMultiplier \in Nat \ {0} /\ StormWindow \in Nat \ {0}
    /\ MaxTime \in Nat \ {0} /\ MaxCrashes \in Nat /\ MaxFaults \in Nat

VARIABLES
    now,
    pending,        \* pending_signatures: a signature's owner and expiry
    spent,          \* spent_signatures: when a signature was spent, 0 for never
    events,         \* the ledger, one decision per event, in the order of ids
    hits,           \* StormFuse._hits, the arrivals it remembers
    req,            \* the requests, each where its handler stands
    crashes, faults

tables == <<pending, spent, events>>
vars   == <<now, tables, hits, req, crashes, faults>>

NoLease == [owner |-> Unsigned, expires |-> 0]
NewReq  == [phase |-> "new", at |-> 0, behind |-> 0, verdict |-> "none", twin |-> 0,
            done |-> 0, heard |-> "nothing", life |-> 0]

Signed(r)   == SignatureOf[r] # Unsigned
InFlight(r) == req[r].phase \in {"fuse", "dedup", "record", "complete", "reply"}

\* The handler answers, and the request is over.
Over(r, answer) == [req EXCEPT ![r].phase = "over", ![r].heard = answer]

-----------------------------------------------------------------------------
Init ==
    /\ now = 1
    /\ pending = [s \in Signatures |-> NoLease] /\ spent = [s \in Signatures |-> 0]
    /\ events = <<>> /\ hits = <<>>
    /\ req = [r \in Requests |-> NewReq]
    /\ crashes = 0 /\ faults = 0

\* Spent inside the window.
Completed(s) == spent[s] # 0 /\ spent[s] >= now - Replay

Live(s) == pending[s].expires > now

\* acquire_signature drops every expired lease before it takes one.
Swept == [s \in Signatures |-> IF Live(s) THEN pending[s] ELSE NoLease]

Owns(r) == Signed(r) /\ pending[SignatureOf[r]].owner = r

\* release_signature: a request drops its own lease and no other's.
Released(r) == IF Owns(r) THEN [pending EXCEPT ![SignatureOf[r]] = NoLease] ELSE pending

\* An unsigned request, and one of a scheme the door cannot name, take no lease.
Enter(r) ==
    /\ req[r].phase = "new" /\ ~Signed(r)
    /\ req' = [req EXCEPT ![r].phase = "fuse", ![r].life = crashes]
    /\ UNCHANGED <<now, tables, hits, crashes, faults>>

Acquire(r) ==
    /\ req[r].phase = "new" /\ Signed(r)
    /\ ~Completed(SignatureOf[r]) /\ ~Live(SignatureOf[r])
    /\ pending' = [Swept EXCEPT ![SignatureOf[r]] = [owner |-> r, expires |-> now + Lease]]
    /\ req' = [req EXCEPT ![r].phase = "fuse", ![r].life = crashes]
    /\ UNCHANGED <<now, spent, events, hits, crashes, faults>>

\* "identical request is still processing": 503, come again.
TurnAway(r) ==
    /\ req[r].phase = "new" /\ Signed(r)
    /\ ~Completed(SignatureOf[r]) /\ Live(SignatureOf[r])
    /\ pending' = Swept
    /\ req' = Over(r, "busy")
    /\ UNCHANGED <<now, spent, events, hits, crashes, faults>>

\* "replayed_signature": 200, nothing done.
AnswerReplay(r) ==
    /\ req[r].phase = "new" /\ Signed(r) /\ Completed(SignatureOf[r])
    /\ req' = Over(r, "replayed")
    /\ UNCHANGED <<now, tables, hits, crashes, faults>>

\* The heartbeat.  One that fails or comes late is a heartbeat not taken, and
\* does not stop the request.
Renew(r) ==
    /\ InFlight(r) /\ req[r].phase # "reply" /\ Owns(r) /\ Live(SignatureOf[r])
    /\ pending' = [pending EXCEPT ![SignatureOf[r]].expires = now + Lease]
    /\ UNCHANGED <<now, spent, events, hits, req, crashes, faults>>

-----------------------------------------------------------------------------
\* Arrivals the fuse forgets when one comes in, and those it keeps.
Forgotten  == {i \in 1..Len(hits) : hits[i] < now - StormWindow}
Remembered == SubSeq(hits, Cardinality(Forgotten) + 1, Len(hits))

StormVerdict(count) ==
    IF Threshold = 0 THEN "pass"
    ELSE IF count > Threshold * HardMultiplier THEN "reject"
    ELSE IF count > Threshold THEN "suppress" ELSE "pass"

\* fuse.check, and what the door does of it.  `at` is the event's received_at.
Fuse(r) ==
    LET seen    == Append(Remembered, now)
        verdict == StormVerdict(Len(seen))
    IN  /\ req[r].phase = "fuse"
        /\ hits' = IF Threshold = 0 THEN hits ELSE seen
        /\ CASE verdict = "reject"   -> /\ req' = Over(r, "refused")
                                        /\ pending' = Released(r)
             [] verdict = "suppress" -> /\ req' = [req EXCEPT ![r].phase = "record", ![r].at = now,
                                                              ![r].verdict = "suppressed"]
                                        /\ UNCHANGED pending
             [] OTHER                -> /\ req' = [req EXCEPT ![r].phase = "dedup", ![r].at = now,
                                                              ![r].behind = Len(events)]
                                        /\ UNCHANGED pending
        /\ UNCHANGED <<now, spent, events, crashes, faults>>

\* recent_duplicate: events of the same fingerprint inside the window, whatever
\* became of them.
Twins(r) == {i \in 1..Len(events) : /\ AlertOf[events[i].req] = AlertOf[r]
                                    /\ events[i].at >= req[r].at - DedupWindow}

\* The dedup stage reads the ledger outside any transaction; the stages after
\* it route the event or hold it, and may take their time before the record.
Dedup(r) ==
    /\ req[r].phase = "dedup"
    /\ \/ \E twin \in Twins(r) :
             /\ \A other \in Twins(r) : other <= twin
             /\ req' = [req EXCEPT ![r].phase = "record", ![r].verdict = "duplicate",
                                   ![r].twin = twin]
       \/ /\ Twins(r) = {}
          /\ \E verdict \in {"routed", "held"} :
                req' = [req EXCEPT ![r].phase = "record", ![r].verdict = verdict]
    /\ UNCHANGED <<now, tables, hits, crashes, faults>>

\* record_event: the event, its decision and its deliveries, or nothing.
Record(r) ==
    /\ req[r].phase = "record"
    /\ events' = Append(events, [req |-> r, at |-> req[r].at, outcome |-> req[r].verdict,
                                 twin |-> req[r].twin])
    /\ req' = [req EXCEPT ![r].phase = IF Signed(r) THEN "complete" ELSE "reply"]
    /\ UNCHANGED <<now, pending, spent, hits, crashes, faults>>

\* Seeded fault: a lease somebody else holds completes too.
StillHoldsAny(r) == Live(SignatureOf[r])

StillHolds(r) == Owns(r) /\ Live(SignatureOf[r])

\* complete_signature: spent rows outside the window go, this one is written,
\* the lease is dropped.
Complete(r) ==
    /\ req[r].phase = "complete" /\ StillHolds(r)
    /\ spent' = [s \in Signatures |->
                   IF s = SignatureOf[r] THEN now
                   ELSE IF spent[s] < now - Replay THEN 0 ELSE spent[s]]
    /\ pending' = Released(r)
    /\ req' = [req EXCEPT ![r].phase = "reply", ![r].done = now]
    /\ UNCHANGED <<now, events, hits, crashes, faults>>

\* "signature lease lost; outcome needs reconciliation": 503.
Lose(r) ==
    /\ req[r].phase = "complete" /\ ~StillHolds(r)
    /\ pending' = Released(r)
    /\ req' = Over(r, "lost")
    /\ UNCHANGED <<now, spent, events, hits, crashes, faults>>

Reply(r) ==
    /\ req[r].phase = "reply"
    /\ pending' = Released(r)
    /\ req' = Over(r, "processed")
    /\ UNCHANGED <<now, spent, events, hits, crashes, faults>>

-----------------------------------------------------------------------------
\* The body is no JSON, a stage or a write raises: the sender hears an error and
\* the lease is released, unless that write raises as well.
Fault(r) ==
    /\ req[r].phase \in {"fuse", "dedup", "record", "complete"}
    /\ faults < MaxFaults /\ faults' = faults + 1
    /\ req' = Over(r, "error")
    /\ pending' \in {pending, Released(r)}
    /\ UNCHANGED <<now, spent, events, hits, crashes>>

\* The process dies and is started again: the ledger stays, the fuse forgets,
\* and nobody in flight is answered.
Crash ==
    /\ crashes < MaxCrashes /\ crashes' = crashes + 1
    /\ req' = [r \in Requests |-> IF InFlight(r) THEN [req[r] EXCEPT !.phase = "over"] ELSE req[r]]
    /\ hits' = <<>>
    /\ UNCHANGED <<now, tables, faults>>

Tick ==
    /\ now < MaxTime /\ now' = now + 1
    /\ UNCHANGED <<tables, hits, req, crashes, faults>>

Arriving(r) == Enter(r) \/ Acquire(r) \/ TurnAway(r) \/ AnswerReplay(r)
Handling(r) == Fuse(r) \/ Dedup(r) \/ Record(r) \/ Complete(r) \/ Lose(r) \/ Reply(r)

Next ==
    \/ \E r \in Requests : Arriving(r) \/ Handling(r) \/ Renew(r) \/ Fault(r)
    \/ Crash \/ Tick

Spec == Init /\ [][Next]_vars

-----------------------------------------------------------------------------
Outcomes  == {"routed", "held", "duplicate", "suppressed"}
LeaseType == [owner: Requests \cup {Unsigned}, expires: 0..(MaxTime + Lease)]
EventType == [req: Requests, at: 1..MaxTime, outcome: Outcomes, twin: Nat]
ReqType   == [phase: {"new", "fuse", "dedup", "record", "complete", "reply", "over"},
              at: 0..MaxTime, behind: Nat, verdict: Outcomes \cup {"none"}, twin: Nat,
              done: 0..MaxTime, life: Nat,
              heard: {"nothing", "busy", "replayed", "refused", "error", "lost", "processed"}]

\* Only a request records under its own lease's signature, and once.
TypeOK ==
    /\ now \in 1..MaxTime
    /\ pending \in [Signatures -> LeaseType] /\ spent \in [Signatures -> 0..MaxTime]
    /\ events \in Seq(EventType) /\ hits \in Seq(1..MaxTime)
    /\ req \in [Requests -> ReqType]
    /\ crashes \in Nat /\ faults \in Nat
    /\ \A i, j \in 1..Len(events) : events[i].req = events[j].req => i = j

\* "A replayed signed request cannot buy a second verdict": of the requests of
\* one signature, two that were completed lie further apart than the replay
\* window, through expired leases, late heartbeats, failures and restarts.
OncePerSignature ==
    \A q, r \in Requests :
        /\ q # r /\ Signed(q) /\ SignatureOf[q] = SignatureOf[r]
        /\ req[q].done # 0 /\ req[r].done >= req[q].done
        => req[r].done - req[q].done > Replay

RecordedBy(r) == \E i \in 1..Len(events) : events[i].req = r

\* Never "losing the event while both sides believed it was handled": a sender
\* that heard 200 has its event on the ledger, or, told of a replay, the event
\* of the request it repeats.
BothSure ==
    \A r \in Requests :
        /\ req[r].heard = "processed" => RecordedBy(r)
        /\ req[r].heard = "replayed" =>
              \E q \in Requests : SignatureOf[q] = SignatureOf[r] /\ RecordedBy(q)

Routed(i) == events[i].outcome = "routed"
Near(i, j) == events[j].at - events[i].at <= DedupWindow /\ events[i].at - events[j].at <= DedupWindow
SameAlert(i, j) == AlertOf[events[i].req] = AlertOf[events[j].req]

\* A restatement that entered the pipeline after an event of its alert was on
\* the ledger is not routed again inside the window, whoever sent it and
\* whatever the first sender heard.
SequentialOnce ==
    \A i, j \in 1..Len(events) :
        i < j /\ Routed(i) /\ Routed(j) /\ SameAlert(i, j) /\ i <= req[events[j].req].behind
        => ~Near(i, j)
=============================================================================
