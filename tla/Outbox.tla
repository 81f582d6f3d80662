------------------------------- MODULE Outbox -------------------------------
(***************************************************************************)
(* What the deliveries table promises (store.py: "a row is a promise to    *)
(* send"), with no worker, clock, breaker or limit in sight: a promise is  *)
(* called sent only after the peer accepted it, only an operator revives a *)
(* dead one, and nothing forgets one that is still queued.                 *)
(***************************************************************************)
CONSTANT Ids

VARIABLES promise, accepted

vars == <<promise, accepted>>

Init == promise = [i \in Ids |-> "absent"] /\ accepted = {}

Move(S, from, to) ==
    /\ S # {}
    /\ \A i \in S : promise[i] \in from
    /\ promise' = [i \in Ids |-> IF i \in S THEN to ELSE promise[i]]
    /\ UNCHANGED accepted

Promise(S) == Move(S, {"absent"}, "queued")
Keep(i)    == i \in accepted /\ Move({i}, {"queued"}, "sent")
GiveUp(i)  == Move({i}, {"queued"}, "dead")
Again(i)   == Move({i}, {"dead"}, "queued")
Forget(S)  == Move(S, {"sent", "dead"}, "purged")

Accept(i) == /\ promise[i] = "queued"
             /\ accepted' = accepted \cup {i}
             /\ UNCHANGED promise

Next == \/ \E S \in SUBSET Ids : Promise(S) \/ Forget(S)
        \/ \E i \in Ids : Accept(i) \/ Keep(i) \/ GiveUp(i) \/ Again(i)

Spec == Init /\ [][Next]_vars
=============================================================================
