-------------------------------- MODULE Signer --------------------------------
(***************************************************************************)
(* The watch signer: what a round may post in the pipe's watch door, and   *)
(* how many (deploy/sidecars/signer.py).  A thread per post: it reads the  *)
(* scan's offer, takes a slot of the round it counts against, posts, and   *)
(* gives the slot back when the door is known not to have the signal.      *)
(*                                                                         *)
(* A clock reading is a number; a round is named by the clock of its scan, *)
(* or by a window of the wall clock where no scan states one.              *)
(***************************************************************************)
EXTENDS Integers, FiniteSets, FiniteSetsExt

CONSTANTS
    Posts,      \* requests, each with a thread of its own
    Subjects,   \* conversations
    Ceiling,    \* WATCH_SIGNER_ROUND_MAX
    Window,     \* WATCH_SIGNER_ROUND_SECONDS
    MaxTime,    \* bound: clock readings
    Unsaid      \* no scan, no round before, no slot

SignerAssumption ==
    /\ Ceiling \in Nat /\ Window \in Nat \ {0} /\ MaxTime \in Nat
    /\ "scanner-notes" \notin Subjects /\ Unsaid \notin Int

VARIABLES
    now,        \* the wall clock
    scan,       \* scan.json: this round's offer and the round before, or Unsaid
    counts,     \* Counter: slots taken of the two newest rounds
    post        \* each request: where it is, its subject, its verdict, its round

signerVars == <<now, scan, counts, post>>

Offer   == [at |-> Unsaid, offered |-> Unsaid]
Fresh   == [at |-> "new", key |-> Unsaid, level |-> "asked"]
\* The caller is told no, whatever the reason, or told nothing.
Denied  == [Fresh EXCEPT !.at = "denied"]

SignerInit ==
    /\ now = 0 /\ scan = [this |-> Offer, before |-> Offer]
    /\ counts = <<>>
    /\ post = [p \in Posts |-> Fresh]

-----------------------------------------------------------------------------
PassTime ==
    /\ now < MaxTime /\ now' = now + 1
    /\ UNCHANGED <<scan, counts, post>>

\* The scanner replaces the offer, and keeps the one before beside it.
Scans(S) ==
    /\ now > 0 /\ scan.this.at # now
    /\ scan' = [this |-> [at |-> now, offered |-> S], before |-> scan.this]
    /\ UNCHANGED <<now, counts, post>>

\* The file is not there, or cannot be read.
ScanLost ==
    /\ scan' = [this |-> Offer, before |-> Offer]
    /\ UNCHANGED <<now, counts, post>>

\* round_key: a scan that states no clock counts by the timer's cadence.
RoundKey(at) == IF at # Unsaid THEN at ELSE now - (now % Window)

\* check: whose name is on the signal, and which round pays for it.  Refused
\* are the checker's producer, an empty title and a stranger's conversation.
Check(p, subject) ==
    /\ post[p].at = "new"
    /\ LET this   == scan.this
           before == scan.before
           by     == CASE subject = "scanner-notes" \/ this.offered = Unsaid
                            -> this.at
                       [] subject \in this.offered -> this.at
                       [] OTHER -> before.at
           known  == \/ subject = "scanner-notes" \/ this.offered = Unsaid
                     \/ subject \in this.offered
                     \/ before.offered # Unsaid /\ subject \in before.offered
       IN  post' = [post EXCEPT ![p] =
               IF known
               THEN [at |-> "checked", key |-> RoundKey(by),
                     level |-> IF subject = "scanner-notes" THEN "low" ELSE "asked"]
               ELSE Denied]
    /\ UNCHANGED <<now, scan, counts>>

Malformed(p) ==
    /\ post[p].at = "new"
    /\ post' = [post EXCEPT ![p] = Denied]
    /\ UNCHANGED <<now, scan, counts>>

Largest(S, n) == {k \in S : Cardinality({j \in S : j > k}) < n}

\* Seeded fault: one round is counted, and whoever posts for another starts it.
OpenedAlone(k) == IF k \in DOMAIN counts THEN counts ELSE [j \in {k} |-> 0]

\* The two newest rounds are counted side by side.
Opened(k) ==
    IF k \in DOMAIN counts THEN counts
    ELSE [j \in Largest(DOMAIN counts \cup {k}, 2) |->
            IF j \in DOMAIN counts THEN counts[j] ELSE 0]

\* take: a round older than both is opened and dropped in one go, and reading
\* its count raises: the request ends as an unexpected failure.
Take(p) ==
    /\ post[p].at = "checked"
    /\ LET k == post[p].key
           after == Opened(k)
       IN  \/ /\ k \in DOMAIN after /\ after[k] < Ceiling
              /\ counts' = [after EXCEPT ![k] = @ + 1]
              /\ post' = [post EXCEPT ![p].at = "taken"]
           \/ /\ k \in DOMAIN after => after[k] >= Ceiling
              /\ counts' = after /\ post' = [post EXCEPT ![p] = Denied]
    /\ UNCHANGED <<now, scan>>

Refund(k) == IF k \in DOMAIN counts /\ counts[k] > 0
             THEN [counts EXCEPT ![k] = @ - 1] ELSE counts

\* _forward: the door's refusal, a door that cannot be reached and an answer that never
\* came give the slot back alike, though in the last the door has the signal.
Answered(p) ==
    /\ post[p].at = "taken"
    /\ \/ post' = [post EXCEPT ![p].at = "signed"] /\ UNCHANGED counts
       \/ post' = [post EXCEPT ![p] = Denied] /\ counts' = Refund(post[p].key)
    /\ UNCHANGED <<now, scan>>

\* The container starts again: the counter begins at nothing.
SignerRestarts ==
    /\ \E p \in Posts : post[p].at # "new"
    /\ counts' = <<>>
    /\ post' = [p \in Posts |-> IF post[p].at = "new" THEN Fresh ELSE Denied]
    /\ UNCHANGED <<now, scan>>

SignerNext ==
    \/ PassTime \/ ScanLost \/ SignerRestarts
    \/ \E S \in SUBSET Subjects : Scans(S)
    \/ \E p \in Posts : \/ \E s \in Subjects \cup {"scanner-notes"} : Check(p, s)
                        \/ Malformed(p) \/ Take(p) \/ Answered(p)

SignerSpec == SignerInit /\ [][SignerNext]_signerVars

-----------------------------------------------------------------------------
OfRound(k) == {p \in Posts : post[p].key = k}

\* A round posts no more than its ceiling, counting what is still on its way:
\* late posts of the round before, refunds and rounds that come and go between
\* them do not move another round's count.  What the door took while its answer
\* was lost is outside the ceiling.
CeilingHolds ==
    \A k \in {post[p].key : p \in Posts} \ {Unsaid} :
        Cardinality({p \in OfRound(k) : post[p].at \in {"taken", "signed"}}) <= Ceiling
=============================================================================
