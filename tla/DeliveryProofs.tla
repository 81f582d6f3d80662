--------------------------- MODULE DeliveryProofs ---------------------------
(***************************************************************************)
(* Theorems about Delivery, for every set of channels and events, every    *)
(* limit and every bound.                                                  *)
(***************************************************************************)
EXTENDS Delivery, FiniteSetTheorems, TLAPS

-----------------------------------------------------------------------------
(***************************************************************************)
(* What the helper operators return.                                       *)
(***************************************************************************)
\* A wait never goes below zero.
LEMMA FloorType == ASSUME NEW n \in Int PROVE Floor0(n) \in Nat
  BY DEF Floor0

\* Every backoff a row can earn is a length of time.
LEMMA BackoffType ==
  ASSUME NEW n \in 1..MaxAttempts PROVE BackoffDelay(n) \in Nat
<1>1. Floor0(n - 1) \in 0..MaxAttempts
  BY DeliveryAssumption DEF Floor0
<1>2. 2^Floor0(n - 1) \in Nat
  BY <1>1, PowersOfTwo
<1>3. BackoffBase * 2^Floor0(n - 1) \in Nat
  BY <1>2, DeliveryAssumption
<1>. QED
  BY <1>3, DeliveryAssumption DEF BackoffDelay, UpTo

Statuses == {"queued", "sent", "dead", "purged"}

\* Rewriting the status column keeps a row a row.
LEMMA RowStatus ==
  ASSUME NEW x \in Row, NEW s \in Statuses
  PROVE  [x EXCEPT !.status = s] \in Row /\ [x EXCEPT !.status = s].status = s
BY DEF Row, Statuses

\* Moving next_attempt_at touches neither status nor attempts.
LEMMA RowWait ==
  ASSUME NEW x \in Row, NEW w \in Nat
  PROVE  LET r == [x EXCEPT !.wait = w]
         IN  r \in Row /\ r.status = x.status /\ r.attempts = x.attempts
BY DEF Row

\* The row mark_sent leaves.
LEMMA RowSent ==
  ASSUME NEW x \in Row, NEW a \in 0..AgeCap
  PROVE  LET r == [x EXCEPT !.status = "sent", !.age = a]
         IN  r \in Row /\ r.status = "sent"
BY DEF Row

\* The row left by a channel no longer configured.
LEMMA RowDropped ==
  ASSUME NEW x \in Row, NEW n \in 0..MaxAttempts
  PROVE  LET r == [x EXCEPT !.status = "dead", !.attempts = n]
         IN  r \in Row /\ r.status = "dead"
BY DEF Row

\* The row an operator's retry leaves.
LEMMA RowQueued ==
  ASSUME NEW x \in Row
  PROVE  LET r == [x EXCEPT !.status = "queued", !.attempts = 0, !.wait = 0]
         IN  r \in Row /\ r.status = "queued" /\ r.attempts = 0
<1>. 0 \in 0..MaxAttempts
  BY DeliveryAssumption
<1>. QED BY DEF Row

\* A deadline written by a batch is a length of time from now.
LEMMA NotBeforeType ==
  ASSUME TypeOK, NEW n \in Nat PROVE NotBefore(n) \in Nat
BY DeliveryAssumption, FloorType DEF TypeOK, NotBefore

-----------------------------------------------------------------------------
(***************************************************************************)
(* The strengthening.  Ids not yet handed out have no row (so an insert    *)
(* overwrites nothing), a queued row has attempts left (so the next        *)
(* attempt stays in range), and a drain that is suspended has a row.       *)
(***************************************************************************)
FreshAbsent  == \A i \in Ids : i >= nextId => Status(i) = "absent"
AttemptsLeft == \A i \in Ids : Status(i) = "queued" => deliveries[i].attempts < MaxAttempts
Suspended    == \A c \in Channels : stage[c] # "next" => held[c] # {}

StructInv == TypeOK /\ FreshAbsent /\ AttemptsLeft /\ Suspended /\ BatchStillOwed

\* What the drain of a row may rely on, from the invariant alone.
LEMMA InHandOwed ==
  ASSUME StructInv, NEW c \in Channels, NEW i \in Ids, InHand(c, i)
  PROVE  /\ working /\ Status(i) = "queued" /\ deliveries[i] \in Row
         /\ deliveries[i].channel = c
         /\ deliveries[i].attempts = snap[i]
         /\ snap[i] + 1 \in 1..MaxAttempts
         /\ \A d \in Channels : d # c => i \notin held[d]
<1>1. i \in held[c] /\ working /\ Status(i) = "queued" /\ deliveries[i].channel = c
      /\ deliveries[i].attempts = snap[i]
  BY DEF InHand, StructInv, BatchStillOwed
<1>2. deliveries[i] \in Row
  BY <1>1 DEF StructInv, TypeOK, NoRow, Status
<1>3. snap[i] + 1 \in 1..MaxAttempts
  BY <1>1, <1>2, DeliveryAssumption DEF StructInv, TypeOK, AttemptsLeft, Row
<1>4. \A d \in Channels : d # c => i \notin held[d]
  BY <1>1 DEF StructInv, BatchStillOwed
<1>. QED BY <1>1, <1>2, <1>3, <1>4

\* An empty table satisfies the invariant.
LEMMA StructInit == Init => StructInv
<1> SUFFICES ASSUME Init PROVE StructInv
  OBVIOUS
<1>1. TypeOK
  <2>1. deliveries \in [Ids -> Row \cup {NoRow}]
    BY DEF Init
  <2>2. ClosedBreaker \in Breaker
    BY DeliveryAssumption DEF Breaker, ClosedBreaker
  <2>3. breaker \in [Channels -> Breaker]
    BY <2>2 DEF Init
  <2>4. /\ nextId \in 1..(MaxRows + 1) /\ lag \in 0..MaxLag
        /\ retries \in 0..MaxRetries /\ crashes \in 0..MaxCrashes
        /\ errors \in 0..MaxErrors
    BY DeliveryAssumption DEF Init
  <2>5. snap \in [Ids -> 0..MaxAttempts] /\ tries \in [Ids -> Nat]
    BY DeliveryAssumption DEF Init
  <2>6. /\ held \in [Channels -> SUBSET Ids]
        /\ stage \in [Channels -> {"next", "posting", "ok", "failed"}]
        /\ old \subseteq Events /\ accepted \subseteq Ids /\ working \in BOOLEAN
        /\ configured \subseteq Channels /\ batchCfg \subseteq Channels
    BY DEF Init
  <2>. QED
    BY <2>1, <2>3, <2>4, <2>5, <2>6 DEF TypeOK
<1>2. FreshAbsent /\ AttemptsLeft /\ Suspended /\ BatchStillOwed
  BY DEF Init, FreshAbsent, AttemptsLeft, Suspended, BatchStillOwed, Status, NoRow
<1>. QED BY <1>1, <1>2 DEF StructInv

(***************************************************************************)
(* Booking one row and moving on: what the five ways a drain finishes a    *)
(* row have in common.                                                     *)
(***************************************************************************)
LEMMA BookRow ==
  ASSUME StructInv, NEW c \in Channels, NEW i \in Ids, InHand(c, i),
         NEW r \in Row,
         r.status = "queued" => r.attempts < MaxAttempts,
         deliveries' = [deliveries EXCEPT ![i] = r],
         Finish(c, i), UNCHANGED <<nextId, working, snap>>
  PROVE  /\ deliveries' \in [Ids -> Row \cup {NoRow}]
         /\ held' \in [Channels -> SUBSET Ids]
         /\ FreshAbsent' /\ AttemptsLeft' /\ BatchStillOwed'
<1>1. deliveries' \in [Ids -> Row \cup {NoRow}] /\ held' \in [Channels -> SUBSET Ids]
  BY DEF StructInv, TypeOK, Finish
<1>2. \A j \in Ids : j # i => deliveries'[j] = deliveries[j]
  BY DEF StructInv, TypeOK
<1>3. deliveries'[i] = r
  BY DEF StructInv, TypeOK
<1>4. FreshAbsent'
  BY <1>2, InHandOwed DEF StructInv, FreshAbsent, Status
<1>5. AttemptsLeft'
  BY <1>2, <1>3 DEF StructInv, AttemptsLeft, Status
<1>6. \A d \in Channels : i \notin held'[d] /\ held'[d] \subseteq held[d]
  BY InHandOwed DEF StructInv, TypeOK, Finish
<1>7. BatchStillOwed'
  BY <1>2, <1>6 DEF StructInv, TypeOK, BatchStillOwed, Status
<1>. QED BY <1>1, <1>4, <1>5, <1>7

\* Every step of a drain preserves the invariant, one case per way it goes.
LEMMA StructDrain ==
  ASSUME StructInv, NEW c \in Channels, NEW i \in Ids, DrainRow(c, i)
  PROVE  StructInv'
<1>. InHand(c, i)
  BY DEF DrainRow
<1>0. /\ deliveries[i] \in Row /\ Status(i) = "queued" /\ i \in held[c]
      /\ snap[i] + 1 \in 1..MaxAttempts /\ deliveries[i].attempts = snap[i]
  BY InHandOwed DEF InHand
<1>00. snap[i] + 1 \in 0..MaxAttempts /\ lag \in 0..MaxLag /\ lag \in 0..AgeCap
  BY <1>0, DeliveryAssumption DEF StructInv, TypeOK, AgeCap
<1>1. CASE DropUnconfigured(c, i)
  <2>. DEFINE r == [deliveries[i] EXCEPT !.status = "dead", !.attempts = snap[i] + 1]
  <2>1. r \in Row /\ r.status = "dead"
    BY <1>0, <1>00, RowDropped
  <2>2. deliveries' = [deliveries EXCEPT ![i] = r]
    BY <1>1, <1>0 DEF DropUnconfigured
  <2>. HIDE DEF r
  <2>3. /\ deliveries' \in [Ids -> Row \cup {NoRow}] /\ held' \in [Channels -> SUBSET Ids]
        /\ FreshAbsent' /\ AttemptsLeft' /\ BatchStillOwed'
    BY <1>1, <2>1, <2>2, BookRow DEF DropUnconfigured
  <2>4. Suspended'
    BY <1>1 DEF DropUnconfigured, Finish, StructInv, TypeOK, Suspended
  <2>5. TypeOK'
    BY <1>1, <2>3 DEF DropUnconfigured, StructInv, TypeOK, table, batch, history, bounds
  <2>. QED BY <2>3, <2>4, <2>5 DEF StructInv
<1>2. CASE DeferForBreaker(c, i)
  <2>. DEFINE r == [deliveries[i] EXCEPT !.wait = NotBefore(BreakerDefer)]
  <2>1. NotBefore(BreakerDefer) \in Nat
    BY NotBeforeType, DeliveryAssumption DEF StructInv
  <2>2. r \in Row /\ r.status = "queued" /\ r.attempts < MaxAttempts
    BY <1>0, <2>1, RowWait DEF Status, StructInv, AttemptsLeft
  <2>3. deliveries' = [deliveries EXCEPT ![i] = r]
    BY <1>2, <1>0 DEF DeferForBreaker
  <2>. HIDE DEF r
  <2>4. /\ deliveries' \in [Ids -> Row \cup {NoRow}] /\ held' \in [Channels -> SUBSET Ids]
        /\ FreshAbsent' /\ AttemptsLeft' /\ BatchStillOwed'
    BY <1>2, <2>2, <2>3, BookRow DEF DeferForBreaker
  <2>5. Suspended'
    BY <1>2 DEF DeferForBreaker, Finish, StructInv, TypeOK, Suspended
  <2>6. TypeOK'
    BY <1>2, <2>4 DEF DeferForBreaker, StructInv, TypeOK, table, batch, history, bounds
  <2>. QED BY <2>4, <2>5, <2>6 DEF StructInv
<1>3. CASE DeferForRate(c, i)
  <2>. DEFINE r == [deliveries[i] EXCEPT !.wait = NotBefore(RateDefer)]
  <2>1. NotBefore(RateDefer) \in Nat
    BY NotBeforeType, DeliveryAssumption DEF StructInv
  <2>2. r \in Row /\ r.status = "queued" /\ r.attempts < MaxAttempts
    BY <1>0, <2>1, RowWait DEF Status, StructInv, AttemptsLeft
  <2>3. deliveries' = [deliveries EXCEPT ![i] = r]
    BY <1>3, <1>0 DEF DeferForRate
  <2>. HIDE DEF r
  <2>4. /\ deliveries' \in [Ids -> Row \cup {NoRow}] /\ held' \in [Channels -> SUBSET Ids]
        /\ FreshAbsent' /\ AttemptsLeft' /\ BatchStillOwed'
    BY <1>3, <2>2, <2>3, BookRow DEF DeferForRate
  <2>5. Suspended'
    BY <1>3 DEF DeferForRate, Finish, StructInv, TypeOK, Suspended
  <2>6. breaker' \in [Channels -> Breaker]
    BY <1>3 DEF DeferForRate, StructInv, TypeOK, Breaker
  <2>7. TypeOK'
    BY <1>3, <2>4, <2>6 DEF DeferForRate, StructInv, TypeOK, table, batch, history, bounds
  <2>. QED BY <2>4, <2>5, <2>7 DEF StructInv
<1>4. CASE Post(c, i)
  <2>1. Claimed(c) \in [Channels -> Breaker]
    BY DEF StructInv, TypeOK, Breaker, Claimed, HalfOpen
  <2>2. breaker' \in [Channels -> Breaker]
    BY <1>4, <2>1 DEF Post
  <2>2a. tries' \in [Ids -> Nat]
    BY <1>4 DEF Post, StructInv, TypeOK
  <2>3. TypeOK'
    BY <1>4, <2>2, <2>2a DEF Post, StructInv, TypeOK, table, bounds
  <2>4. FreshAbsent' /\ AttemptsLeft' /\ BatchStillOwed'
    BY <1>4 DEF Post, table, StructInv, FreshAbsent, AttemptsLeft, BatchStillOwed, Status
  <2>5. Suspended'
    BY <1>4, <1>0 DEF Post, StructInv, TypeOK, Suspended
  <2>. QED BY <2>3, <2>4, <2>5 DEF StructInv
<1>5. CASE Answer(c, i)
  <2>1. TypeOK'
    BY <1>5 DEF Answer, StructInv, TypeOK, table, bounds
  <2>2. FreshAbsent' /\ AttemptsLeft' /\ BatchStillOwed'
    BY <1>5 DEF Answer, table, StructInv, FreshAbsent, AttemptsLeft, BatchStillOwed, Status
  <2>3. Suspended'
    BY <1>5, <1>0 DEF Answer, StructInv, TypeOK, Suspended
  <2>. QED BY <2>1, <2>2, <2>3 DEF StructInv
<1>6. CASE BookSent(c, i)
  <2>. DEFINE r == [deliveries[i] EXCEPT !.status = "sent", !.age = lag]
  <2>1. r \in Row /\ r.status = "sent"
    BY <1>0, <1>00, RowSent
  <2>2. deliveries' = [deliveries EXCEPT ![i] = r]
    BY <1>6, <1>0 DEF BookSent
  <2>. HIDE DEF r
  <2>3. /\ deliveries' \in [Ids -> Row \cup {NoRow}] /\ held' \in [Channels -> SUBSET Ids]
        /\ FreshAbsent' /\ AttemptsLeft' /\ BatchStillOwed'
    BY <1>6, <2>1, <2>2, BookRow DEF BookSent
  <2>4. Suspended'
    BY <1>6 DEF BookSent, Finish, StructInv, TypeOK, Suspended
  <2>5. breaker' \in [Channels -> Breaker]
    BY <1>6, DeliveryAssumption DEF BookSent, StructInv, TypeOK, Breaker, ClosedBreaker
  <2>6. TypeOK'
    BY <1>6, <2>3, <2>5 DEF BookSent, StructInv, TypeOK, bounds, history
  <2>. QED BY <2>3, <2>4, <2>6 DEF StructInv
<1>7. CASE BookFailed(c, i)
  <2>. DEFINE n == snap[i] + 1
              s == IF n >= MaxAttempts THEN "dead" ELSE "queued"
              w == IF n >= MaxAttempts THEN deliveries[i].wait
                                       ELSE NotBefore(BackoffDelay(n))
              r == [deliveries[i] EXCEPT !.attempts = n, !.status = s, !.wait = w]
  <2>1. n \in 0..MaxAttempts /\ s \in Statuses
    BY <1>00 DEF Statuses
  <2>2. w \in Nat
    BY <1>0, BackoffType, NotBeforeType DEF StructInv, Row
  <2>3. deliveries' = [deliveries EXCEPT ![i] = r]
    BY <1>7, <1>0 DEF BookFailed, Status
  <2>4. s = "queued" => n < MaxAttempts
    BY <1>00, DeliveryAssumption
  <2>. HIDE DEF s, n, w
  <2>5. r \in Row /\ r.status = s /\ r.attempts = n
    BY <1>0, <2>1, <2>2 DEF Row, Statuses
  <2>. HIDE DEF r
  <2>6. /\ deliveries' \in [Ids -> Row \cup {NoRow}] /\ held' \in [Channels -> SUBSET Ids]
        /\ FreshAbsent' /\ AttemptsLeft' /\ BatchStillOwed'
    BY <1>7, <2>3, <2>4, <2>5, BookRow DEF BookFailed
  <2>7. Suspended'
    BY <1>7 DEF BookFailed, Finish, StructInv, TypeOK, Suspended
  <2>8. Failed(breaker[c]) \in Breaker
    BY DeliveryAssumption DEF StructInv, TypeOK, Breaker, Failed, UpTo, OpenCap
  <2>9. breaker' \in [Channels -> Breaker]
    BY <1>7, <2>8 DEF BookFailed, StructInv, TypeOK
  <2>10. TypeOK'
    BY <1>7, <2>6, <2>9 DEF BookFailed, StructInv, TypeOK, bounds, history
  <2>. QED BY <2>6, <2>7, <2>10 DEF StructInv
<1>. QED BY <1>1, <1>2, <1>3, <1>4, <1>5, <1>6, <1>7 DEF DrainRow

\* An insert preserves the invariant: it takes ids no row has.
LEMMA StructEnqueue ==
  ASSUME StructInv, NEW e \in Events, NEW S \in SUBSET Channels, Enqueue(e, S)
  PROVE  StructInv'
<1>. DEFINE n == Cardinality(S)
            new == nextId..(nextId + n - 1)
<1>1. n \in Nat \ {0}
  BY FS_Subset, FS_CardinalityType, FS_EmptySet, DeliveryAssumption DEF Enqueue
<1>2. nextId \in 1..(MaxRows + 1) /\ nextId' = nextId + n /\ nextId + n - 1 \in 1..MaxRows
  BY DEF Enqueue, StructInv, TypeOK, Ids
<1>3. PICK to \in [new -> S] :
        deliveries' = [i \in Ids |-> IF i \in new THEN NewRow(e, to[i]) ELSE deliveries[i]]
  BY DEF Enqueue
<1>4. \A i \in Ids : i \in new => deliveries'[i] = NewRow(e, to[i]) /\ to[i] \in Channels
  BY <1>3
<1>5. \A i \in Ids : i \notin new => deliveries'[i] = deliveries[i]
  BY <1>3
<1>6. \A i \in Ids : i \in new => Status(i) = "absent"
  BY <1>1, <1>2 DEF StructInv, FreshAbsent
<1>7. \A c \in Channels : NewRow(e, c) \in Row /\ NewRow(e, c).status = "queued"
                           /\ NewRow(e, c).attempts = 0
  BY DeliveryAssumption DEF Row, NewRow, AgeCap
<1>8. nextId' \in 1..(MaxRows + 1) /\ deliveries' \in [Ids -> Row \cup {NoRow}]
  BY <1>1, <1>2, <1>3, <1>4, <1>5, <1>7, DeliveryAssumption DEF StructInv, TypeOK
<1>9. TypeOK'
  BY <1>8 DEF Enqueue, StructInv, TypeOK, batch, history, bounds
<1>10. FreshAbsent'
  BY <1>1, <1>2, <1>5 DEF StructInv, FreshAbsent, Status, Ids
<1>11. AttemptsLeft'
  BY <1>4, <1>5, <1>7, DeliveryAssumption DEF StructInv, AttemptsLeft, Status
<1>12. BatchStillOwed' /\ Suspended'
  BY <1>5, <1>6 DEF Enqueue, batch, StructInv, TypeOK, BatchStillOwed, Suspended, Status
<1>. QED BY <1>9, <1>10, <1>11, <1>12 DEF StructInv

\* So do the operator, retention, the cutoff and a reload.
LEMMA StructWriters ==
  ASSUME StructInv
  PROVE  /\ \A i \in Ids : Retry(i) => StructInv'
         /\ \A e \in Events : PassCutoff(e) \/ Purge(e) => StructInv'
         /\ \A S \in Configs : Reload(S) => StructInv'
<1>1. ASSUME NEW i \in Ids, Retry(i) PROVE StructInv'
  <2>. DEFINE r == [deliveries[i] EXCEPT !.status = "queued", !.attempts = 0, !.wait = 0]
  <2>1. deliveries[i] \in Row /\ Status(i) = "dead"
    BY <1>1 DEF Retry, StructInv, TypeOK, Status, NoRow
  <2>2. r \in Row /\ r.attempts = 0
    BY <2>1, RowQueued
  <2>3. deliveries' = [deliveries EXCEPT ![i] = r]
    BY <1>1, <2>1 DEF Retry
  <2>. HIDE DEF r
  <2>4. deliveries' \in [Ids -> Row \cup {NoRow}]
    BY <2>2, <2>3 DEF StructInv, TypeOK
  <2>5. tries' \in [Ids -> Nat] /\ retries' \in 0..MaxRetries
    BY <1>1, DeliveryAssumption DEF Retry, StructInv, TypeOK
  <2>6. TypeOK'
    BY <1>1, <2>4, <2>5 DEF Retry, StructInv, TypeOK, batch
  <2>7. FreshAbsent'
    BY <1>1, <2>1, <2>3 DEF Retry, StructInv, TypeOK, FreshAbsent, Status
  <2>8. AttemptsLeft'
    BY <2>2, <2>3, DeliveryAssumption DEF StructInv, TypeOK, AttemptsLeft, Status
  <2>9. BatchStillOwed' /\ Suspended'
    BY <1>1, <2>1, <2>3 DEF Retry, batch, StructInv, TypeOK, BatchStillOwed, Suspended, Status
  <2>. QED BY <2>6, <2>7, <2>8, <2>9 DEF StructInv
<1>2. ASSUME NEW e \in Events, PassCutoff(e) PROVE StructInv'
  BY <1>2 DEF PassCutoff, StructInv, TypeOK, FreshAbsent, AttemptsLeft, Suspended,
              BatchStillOwed, Status, batch, history, bounds
<1>3. ASSUME NEW e \in Events, Purge(e) PROVE StructInv'
  <2>0. \A i \in RowsOf(e) : i \in Ids /\ deliveries[i] \in Row
    BY DEF StructInv, TypeOK, RowsOf, Status, NoRow
  <2>1. ASSUME NEW i \in RowsOf(e)
        PROVE  /\ [deliveries[i] EXCEPT !.status = "purged"] \in Row
               /\ deliveries'[i].status = "purged"
    <3>1. deliveries'[i] = [deliveries[i] EXCEPT !.status = "purged"]
      BY <1>3, <2>0 DEF Purge
    <3>2. "purged" \in Statuses
      BY DEF Statuses
    <3>. QED BY <2>0, <3>1, <3>2, RowStatus
  <2>2. \A i \in Ids : i \notin RowsOf(e) => deliveries'[i] = deliveries[i]
    BY <1>3 DEF Purge
  <2>3. deliveries' \in [Ids -> Row \cup {NoRow}]
    BY <1>3, <2>1 DEF Purge, StructInv, TypeOK
  <2>4. TypeOK'
    BY <1>3, <2>3 DEF Purge, StructInv, TypeOK, batch, history, bounds
  <2>5. FreshAbsent'
    BY <1>3, <2>2 DEF Purge, StructInv, FreshAbsent, RowsOf, Status
  <2>6. AttemptsLeft'
    BY <2>1, <2>2 DEF StructInv, AttemptsLeft, Status
  <2>7. \A c \in Channels : held[c] = {}
    BY <1>3 DEF Purge, StructInv, BatchStillOwed
  <2>8. BatchStillOwed' /\ Suspended'
    BY <1>3, <2>7 DEF Purge, batch, StructInv, BatchStillOwed, Suspended
  <2>. QED BY <2>4, <2>5, <2>6, <2>8 DEF StructInv
<1>4. ASSUME NEW S \in Configs, Reload(S) PROVE StructInv'
  BY <1>4, DeliveryAssumption
     DEF Reload, StructInv, TypeOK, FreshAbsent, AttemptsLeft, Suspended,
         BatchStillOwed, Status, table, batch, history, bounds
<1>. QED BY <1>1, <1>2, <1>3, <1>4

\* So do the start and the end of a batch, an exception, a crash and time.
LEMMA StructWorker ==
  ASSUME StructInv
  PROVE  /\ StartBatch \/ EndBatch \/ Crash \/ Tick => StructInv'
         /\ \A c \in Channels : Abandon(c) => StructInv'
<1>1. CASE StartBatch
  <2>1. FirstDue \subseteq Ids /\ \A i \in FirstDue : Status(i) = "queued"
    BY DEF FirstDue, Due
  <2>2. \A i \in FirstDue : deliveries[i] \in Row
    BY <2>1 DEF StructInv, TypeOK, Status, NoRow
  <2>3. held' \in [Channels -> SUBSET Ids]
    BY <1>1, <2>1 DEF StartBatch
  <2>4. snap' \in [Ids -> 0..MaxAttempts]
    BY <1>1, <2>2, DeliveryAssumption DEF StartBatch, Row
  <2>5. TypeOK'
    BY <1>1, <2>3, <2>4 DEF StartBatch, StructInv, TypeOK, table, history, bounds
  <2>6. FreshAbsent' /\ AttemptsLeft'
    BY <1>1 DEF StartBatch, StructInv, FreshAbsent, AttemptsLeft, Status, table
  <2>7. \A c \in Channels : held[c] = {}
    BY <1>1 DEF StartBatch, StructInv, BatchStillOwed
  <2>8. BatchStillOwed' /\ Suspended'
    BY <1>1, <2>1, <2>7 DEF StartBatch, StructInv, BatchStillOwed, Suspended, Status, table
  <2>. QED BY <2>5, <2>6, <2>8 DEF StructInv
<1>2. CASE EndBatch
  <2>0. snap' \in [Ids -> 0..MaxAttempts] /\ lag' \in 0..MaxLag
    BY <1>2, DeliveryAssumption DEF EndBatch
  <2>1. TypeOK'
    BY <1>2, <2>0 DEF EndBatch, StructInv, TypeOK, table, history, bounds
  <2>2. FreshAbsent' /\ AttemptsLeft' /\ Suspended' /\ BatchStillOwed'
    BY <1>2 DEF EndBatch, StructInv, FreshAbsent, AttemptsLeft, Suspended,
                BatchStillOwed, Status, table
  <2>. QED BY <2>1, <2>2 DEF StructInv
<1>3. CASE Crash
  <2>1. breaker' \in [Channels -> Breaker]
    BY <1>3, DeliveryAssumption DEF Crash, Breaker, ClosedBreaker
  <2>2. snap' \in [Ids -> 0..MaxAttempts] /\ lag' \in 0..MaxLag /\ crashes' \in 0..MaxCrashes
    BY <1>3, DeliveryAssumption DEF Crash, StructInv, TypeOK
  <2>3. TypeOK'
    BY <1>3, <2>1, <2>2 DEF Crash, StructInv, TypeOK, table, history
  <2>4. FreshAbsent' /\ AttemptsLeft' /\ Suspended' /\ BatchStillOwed'
    BY <1>3 DEF Crash, StructInv, FreshAbsent, AttemptsLeft, Suspended,
                BatchStillOwed, Status, table
  <2>. QED BY <2>3, <2>4 DEF StructInv
<1>4. CASE Tick
  <2>1. \A i \in Ids : Status(i) = "absent" => deliveries'[i] = NoRow
    BY <1>4 DEF Tick
  <2>2. ASSUME NEW i \in Ids, Status(i) # "absent"
        PROVE  /\ deliveries'[i] \in Row
               /\ deliveries'[i].status = deliveries[i].status
               /\ deliveries'[i].attempts = deliveries[i].attempts
               /\ deliveries'[i].channel = deliveries[i].channel
    <3>1. deliveries[i] \in Row
      BY <2>2 DEF StructInv, TypeOK, Status, NoRow
    <3>2. /\ Floor0(deliveries[i].wait - 1) \in Nat
          /\ UpTo(deliveries[i].age + 1, AgeCap) \in 0..AgeCap
      BY <3>1, FloorType, DeliveryAssumption DEF Row, UpTo, AgeCap
    <3>. DEFINE w == Floor0(deliveries[i].wait - 1)
                a == UpTo(deliveries[i].age + 1, AgeCap)
    <3>3. deliveries'[i] = [deliveries[i] EXCEPT !.wait = w, !.age = a]
      BY <1>4, <2>2, <3>1 DEF Tick
    <3>. HIDE DEF w, a
    <3>4. w \in Nat /\ a \in 0..AgeCap
      BY <3>2 DEF w, a
    <3>5. /\ deliveries'[i] \in Row
          /\ deliveries'[i].status = deliveries[i].status
          /\ deliveries'[i].attempts = deliveries[i].attempts
          /\ deliveries'[i].channel = deliveries[i].channel
      BY <3>1, <3>3, <3>4 DEF Row
    <3>. QED BY <3>5
  <2>3. deliveries' \in [Ids -> Row \cup {NoRow}]
    BY <1>4, <2>1, <2>2 DEF Tick
  <2>4. \A i \in Ids : Status(i)' = Status(i)
    BY <2>1, <2>2 DEF Status, NoRow
  <2>5. ASSUME NEW c \in Channels PROVE breaker'[c] \in Breaker
    <3>. DEFINE f == IF breaker[c].openFor = Closed THEN Closed
                     ELSE UpTo(breaker[c].openFor + 1, OpenCap)
    <3>1. breaker'[c] = [breaker[c] EXCEPT !.openFor = f]
      BY <1>4 DEF Tick
    <3>2. f \in {Closed} \cup (0..OpenCap)
      BY DeliveryAssumption DEF StructInv, TypeOK, Breaker, UpTo, OpenCap
    <3>. HIDE DEF f
    <3>. QED BY <3>1, <3>2 DEF StructInv, TypeOK, Breaker
  <2>6. breaker' \in [Channels -> Breaker]
    BY <1>4, <2>5 DEF Tick
  <2>7. lag' \in 0..MaxLag
    <3>1. CASE working
      <4>1. lag \in 0..MaxLag /\ lag < MaxLag /\ lag' = lag + 1
        BY <1>4, <3>1 DEF Tick, StructInv, TypeOK
      <4>. QED BY <4>1, DeliveryAssumption
    <3>2. CASE ~working
      BY <1>4, <3>2 DEF Tick, StructInv, TypeOK
    <3>. QED BY <3>1, <3>2
  <2>8. TypeOK'
    BY <1>4, <2>3, <2>6, <2>7 DEF Tick, StructInv, TypeOK, history, bounds
  <2>9. FreshAbsent'
    BY <1>4, <2>4 DEF Tick, StructInv, FreshAbsent
  <2>10. AttemptsLeft'
    BY <2>2, <2>4 DEF StructInv, AttemptsLeft, Status
  <2>11. Suspended'
    BY <1>4 DEF Tick, StructInv, Suspended
  <2>12. BatchStillOwed'
    <3>. SUFFICES ASSUME NEW c \in Channels, NEW i \in held'[c]
                  PROVE  /\ working' /\ Status(i)' = "queued"
                         /\ deliveries'[i].channel = c
                         /\ deliveries'[i].attempts = snap'[i]
      BY DEF BatchStillOwed
    <3>1. i \in Ids /\ i \in held[c]
      BY <1>4 DEF Tick, StructInv, TypeOK
    <3>2. /\ working /\ Status(i) = "queued"
          /\ deliveries[i].channel = c /\ deliveries[i].attempts = snap[i]
      BY <3>1 DEF StructInv, BatchStillOwed
    <3>3. Status(i)' = "queued" /\ deliveries'[i].channel = c
          /\ deliveries'[i].attempts = snap[i]
      BY <2>2, <2>4, <3>1, <3>2
    <3>. QED BY <1>4, <3>2, <3>3 DEF Tick
  <2>. QED BY <2>8, <2>9, <2>10, <2>11, <2>12 DEF StructInv
<1>5. ASSUME NEW c \in Channels, Abandon(c) PROVE StructInv'
  <2>1. Claimed(c) \in [Channels -> Breaker]
    BY DEF StructInv, TypeOK, Breaker, Claimed, HalfOpen
  <2>2. breaker' \in [Channels -> Breaker]
    BY <1>5, <2>1 DEF Abandon, StructInv, TypeOK
  <2>3. TypeOK'
    <3>1. held' \in [Channels -> SUBSET Ids]
      BY <1>5 DEF Abandon, StructInv, TypeOK
    <3>2. stage' \in [Channels -> {"next", "posting", "ok", "failed"}]
      BY <1>5 DEF Abandon, StructInv, TypeOK
    <3>3. errors' \in 0..MaxErrors
      BY <1>5, DeliveryAssumption DEF Abandon, StructInv, TypeOK
    <3>4. UNCHANGED <<deliveries, nextId, old, configured, batchCfg, working, snap,
                      lag, tries, accepted, retries, crashes>>
      BY <1>5 DEF Abandon, table, history
    <3>. QED BY <2>2, <3>1, <3>2, <3>3, <3>4 DEF StructInv, TypeOK
  <2>4. FreshAbsent' /\ AttemptsLeft'
    BY <1>5 DEF Abandon, StructInv, FreshAbsent, AttemptsLeft, Status, table
  <2>5. BatchStillOwed' /\ Suspended'
    BY <1>5 DEF Abandon, StructInv, TypeOK, BatchStillOwed, Suspended, Status, table
  <2>. QED BY <2>3, <2>4, <2>5 DEF StructInv
<1>. QED BY <1>1, <1>2, <1>3, <1>4, <1>5

\* StructInv is inductive.
LEMMA StructStep == StructInv /\ [Next]_vars => StructInv'
<1> SUFFICES ASSUME StructInv, [Next]_vars PROVE StructInv'
  OBVIOUS
<1>1. CASE UNCHANGED vars
  BY <1>1 DEF vars, table, batch, history, bounds, StructInv, TypeOK, FreshAbsent,
              AttemptsLeft, Suspended, BatchStillOwed, Status
<1>2. CASE Next
  BY <1>2, StructEnqueue, StructWriters, StructWorker, StructDrain DEF Next, Drain
<1>. QED BY <1>1, <1>2

-----------------------------------------------------------------------------
\* The table, the batch in hand, the breakers and the clocks stay in range.
THEOREM TypeCorrect == Spec => []TypeOK
<1>1. StructInv => TypeOK
  BY DEF StructInv
<1>. QED BY <1>1, StructInit, StructStep, PTL DEF Spec

\* The worker may update its rows by id alone: what it read is still true.
THEOREM SnapshotStaysTrue == Spec => []BatchStillOwed
<1>1. StructInv => BatchStillOwed
  BY DEF StructInv
<1>. QED BY <1>1, StructInit, StructStep, PTL DEF Spec

-----------------------------------------------------------------------------
(***************************************************************************)
(* The second layer: a row under way was tried once more than its snapshot *)
(* says, and a row answered with success is in the history of accepted     *)
(* ones.  These two make AttemptsPaidFor and the refinement inductive.     *)
(***************************************************************************)
TriedOnce  == \A c \in Channels, i \in Ids :
                 stage[c] # "next" /\ InHand(c, i) => snap[i] + 1 <= tries[i]
OkAccepted == \A c \in Channels, i \in Ids :
                 stage[c] = "ok" /\ InHand(c, i) => i \in accepted

LedgerInv == StructInv /\ TriedOnce /\ OkAccepted /\ AttemptsPaidFor

\* Nothing was tried or accepted yet.
LEMMA LedgerInit == Init => LedgerInv
<1>1. Init => TriedOnce /\ OkAccepted
  BY DEF Init, TriedOnce, OkAccepted
<1>2. Init => AttemptsPaidFor
  BY DEF Init, AttemptsPaidFor, Status, NoRow
<1>. QED BY <1>1, <1>2, StructInit DEF LedgerInv

\* A step of one drain leaves the other channels' drains where they were.
LEMMA OtherDrains ==
  ASSUME StructInv, NEW c \in Channels, NEW i \in Ids, DrainRow(c, i),
         NEW d \in Channels, d # c
  PROVE  /\ held'[d] = held[d] /\ stage'[d] = stage[d] /\ i \notin held[d]
         /\ \A j \in Ids : InHand(d, j)' <=> InHand(d, j)
         /\ \A j \in held[d] : tries'[j] = tries[j]
         /\ accepted \subseteq accepted' /\ snap' = snap
<1>. InHand(c, i)
  BY DEF DrainRow
<1>1. i \notin held[d]
  BY InHandOwed
<1>2. held'[d] = held[d]
  BY DEF DrainRow, DropUnconfigured, DeferForBreaker, DeferForRate, Post, Answer,
         BookSent, BookFailed, Finish, StructInv, TypeOK
<1>3. stage'[d] = stage[d]
  BY DEF DrainRow, DropUnconfigured, DeferForBreaker, DeferForRate, Post, Answer,
         BookSent, BookFailed, StructInv, TypeOK
<1>4. \A j \in Ids : j # i => tries'[j] = tries[j]
  BY DEF DrainRow, DropUnconfigured, DeferForBreaker, DeferForRate, Post, Answer,
         BookSent, BookFailed, StructInv, TypeOK, history
<1>5. accepted \subseteq accepted' /\ snap' = snap
  BY DEF DrainRow, DropUnconfigured, DeferForBreaker, DeferForRate, Post, Answer,
         BookSent, BookFailed, history
<1>6. held[d] \subseteq Ids
  BY DEF StructInv, TypeOK
<1>. QED BY <1>1, <1>2, <1>3, <1>4, <1>5, <1>6 DEF InHand

\* Every step of a drain preserves the second layer.
LEMMA LedgerDrain ==
  ASSUME LedgerInv, NEW c \in Channels, NEW i \in Ids, DrainRow(c, i)
  PROVE  TriedOnce' /\ OkAccepted' /\ AttemptsPaidFor'
<1>. InHand(c, i) /\ StructInv
  BY DEF DrainRow, LedgerInv
<1>0. /\ Status(i) = "queued" /\ deliveries[i] \in Row /\ i \in held[c]
      /\ deliveries[i].attempts = snap[i] /\ snap[i] \in Nat /\ tries[i] \in Nat
  BY InHandOwed, DeliveryAssumption DEF InHand, StructInv, TypeOK
<1>1. ASSUME NEW j \in Ids, InHand(c, j) PROVE j = i
  BY <1>1 DEF InHand, Ids
<1>2. CASE Post(c, i)
  <2>1. tries'[i] = tries[i] + 1 /\ \A j \in Ids : j # i => tries'[j] = tries[j]
    BY <1>2 DEF Post, StructInv, TypeOK
  <2>2. held' = held /\ snap' = snap /\ accepted' = accepted /\ deliveries' = deliveries
        /\ stage' = [stage EXCEPT ![c] = "posting"]
    BY <1>2 DEF Post, table
  <2>3. deliveries[i].attempts <= tries[i]
    BY <1>0 DEF LedgerInv, AttemptsPaidFor
  <2>4. TriedOnce'
    <3>. SUFFICES ASSUME NEW d \in Channels, NEW j \in Ids, stage'[d] # "next", InHand(d, j)'
                  PROVE  snap'[j] + 1 <= tries'[j]
      BY DEF TriedOnce
    <3>1. CASE d = c
      BY <1>0, <1>1, <2>1, <2>2, <2>3, <3>1 DEF InHand
    <3>2. CASE d # c
      BY <3>2, OtherDrains DEF LedgerInv, TriedOnce, InHand
    <3>. QED BY <3>1, <3>2
  <2>5. OkAccepted'
    <3>. SUFFICES ASSUME NEW d \in Channels, NEW j \in Ids, stage'[d] = "ok", InHand(d, j)'
                  PROVE  j \in accepted'
      BY DEF OkAccepted
    <3>1. d # c
      BY <2>2 DEF StructInv, TypeOK
    <3>. QED BY <3>1, OtherDrains DEF LedgerInv, OkAccepted
  <2>6. deliveries[i].attempts <= tries[i] + 1
    BY <1>0, <2>3
  <2>7. AttemptsPaidFor'
    BY <2>1, <2>2, <2>6 DEF LedgerInv, AttemptsPaidFor, Status
  <2>. QED BY <2>4, <2>5, <2>7
<1>3. CASE Answer(c, i)
  <2>1. held' = held /\ snap' = snap /\ tries' = tries /\ deliveries' = deliveries
        /\ stage[c] = "posting"
    BY <1>3 DEF Answer, table
  <2>2. TriedOnce'
    <3>. SUFFICES ASSUME NEW d \in Channels, NEW j \in Ids, stage'[d] # "next", InHand(d, j)'
                  PROVE  snap'[j] + 1 <= tries'[j]
      BY DEF TriedOnce
    <3>1. CASE d = c
      BY <2>1, <3>1 DEF LedgerInv, TriedOnce, InHand
    <3>2. CASE d # c
      BY <3>2, OtherDrains DEF LedgerInv, TriedOnce, InHand
    <3>. QED BY <3>1, <3>2
  <2>3. OkAccepted'
    <3>. SUFFICES ASSUME NEW d \in Channels, NEW j \in Ids, stage'[d] = "ok", InHand(d, j)'
                  PROVE  j \in accepted'
      BY DEF OkAccepted
    <3>1. CASE d = c
      <4>1. j = i
        BY <1>1, <2>1, <3>1 DEF InHand
      <4>2. stage' # [stage EXCEPT ![c] = "failed"]
        BY <3>1 DEF StructInv, TypeOK
      <4>. QED BY <1>3, <4>1, <4>2 DEF Answer
    <3>2. CASE d # c
      BY <3>2, OtherDrains DEF LedgerInv, OkAccepted
    <3>. QED BY <3>1, <3>2
  <2>4. AttemptsPaidFor'
    BY <2>1 DEF LedgerInv, AttemptsPaidFor, Status
  <2>. QED BY <2>2, <2>3, <2>4
<1>4. CASE ~Post(c, i) /\ ~Answer(c, i)
  <2>1. stage'[c] = "next" /\ tries' = tries /\ accepted' = accepted
    BY <1>4 DEF DrainRow, DropUnconfigured, DeferForBreaker, DeferForRate, BookSent,
                BookFailed, history, StructInv, TypeOK
  <2>2. \A j \in Ids : j # i => deliveries'[j] = deliveries[j]
    BY <1>4 DEF DrainRow, DropUnconfigured, DeferForBreaker, DeferForRate, BookSent,
                BookFailed, StructInv, TypeOK
  <2>3. TriedOnce' /\ OkAccepted'
    <3>. SUFFICES ASSUME NEW d \in Channels, NEW j \in Ids, InHand(d, j)', stage'[d] # "next"
                  PROVE  /\ snap'[j] + 1 <= tries'[j]
                         /\ stage'[d] = "ok" => j \in accepted'
      BY DEF TriedOnce, OkAccepted
    <3>1. d # c
      BY <2>1
    <3>2. InHand(d, j) /\ stage[d] = stage'[d] /\ snap' = snap
      BY <3>1, OtherDrains
    <3>. QED BY <2>1, <3>2 DEF LedgerInv, TriedOnce, OkAccepted
  <2>4. Status(i)' = "queued" => deliveries'[i].attempts <= tries[i]
    <3>1. deliveries[i].attempts <= tries[i]
      BY <1>0 DEF LedgerInv, AttemptsPaidFor
    <3>2. CASE BookFailed(c, i)
      <4>1. snap[i] + 1 <= tries[i]
        BY <3>2 DEF BookFailed, LedgerInv, TriedOnce
      <4>2. deliveries'[i].attempts = snap[i] + 1
        BY <1>0, <3>2 DEF BookFailed, StructInv, TypeOK, Row
      <4>. QED BY <4>1, <4>2
    <3>3. CASE DropUnconfigured(c, i)
      <4>1. Status(i)' = "dead"
        BY <1>0, <3>3 DEF DropUnconfigured, StructInv, TypeOK, Row, Status
      <4>. QED BY <4>1
    <3>4. CASE BookSent(c, i)
      <4>1. Status(i)' = "sent"
        BY <1>0, <3>4 DEF BookSent, StructInv, TypeOK, Row, Status
      <4>. QED BY <4>1
    <3>5. CASE DeferForBreaker(c, i) \/ DeferForRate(c, i)
      <4>1. deliveries'[i].attempts = deliveries[i].attempts
        BY <1>0, <3>5 DEF DeferForBreaker, DeferForRate, StructInv, TypeOK, Row
      <4>. QED BY <3>1, <4>1
    <3>. QED BY <1>4, <3>2, <3>3, <3>4, <3>5 DEF DrainRow
  <2>5. AttemptsPaidFor'
    BY <2>1, <2>2, <2>4 DEF LedgerInv, AttemptsPaidFor, Status
  <2>. QED BY <2>3, <2>5
<1>. QED BY <1>2, <1>3, <1>4

\* LedgerInv is inductive.
LEMMA LedgerStep == LedgerInv /\ [Next]_vars => LedgerInv'
<1> SUFFICES ASSUME LedgerInv, [Next]_vars PROVE LedgerInv'
  OBVIOUS
<1>. StructInv /\ StructInv' /\ TriedOnce /\ OkAccepted /\ AttemptsPaidFor
  BY StructStep DEF LedgerInv
<1>1. CASE UNCHANGED vars
  BY <1>1 DEF vars, table, batch, history, bounds, LedgerInv, TriedOnce, OkAccepted,
              AttemptsPaidFor, Status, InHand
<1>2. ASSUME NEW e \in Events, NEW S \in SUBSET Channels, Enqueue(e, S)
      PROVE  LedgerInv'
  <2>1. TriedOnce' /\ OkAccepted'
    BY <1>2 DEF Enqueue, batch, history, TriedOnce, OkAccepted, InHand
  <2>2. \A i \in Ids : deliveries'[i] = deliveries[i] \/ deliveries'[i].attempts = 0
    BY <1>2 DEF Enqueue, NewRow
  <2>2a. \A i \in Ids : 0 <= tries[i]
    BY DEF StructInv, TypeOK
  <2>3. AttemptsPaidFor'
    BY <1>2, <2>2, <2>2a DEF Enqueue, history, AttemptsPaidFor, Status
  <2>. QED BY <2>1, <2>3 DEF LedgerInv
<1>3. ASSUME NEW i \in Ids, Retry(i) PROVE LedgerInv'
  <2>1. \A c \in Channels : ~InHand(c, i)
    BY <1>3 DEF Retry, InHand, StructInv, BatchStillOwed
  <2>2. \A j \in Ids : j # i => tries'[j] = tries[j] /\ deliveries'[j] = deliveries[j]
    BY <1>3 DEF Retry, StructInv, TypeOK
  <2>3. TriedOnce' /\ OkAccepted'
    BY <1>3, <2>1, <2>2 DEF Retry, batch, TriedOnce, OkAccepted, InHand
  <2>4. deliveries[i] \in Row
    BY <1>3 DEF Retry, Status, StructInv, TypeOK, NoRow
  <2>5. deliveries'[i].attempts = 0 /\ tries'[i] = 0
    BY <1>3, <2>4 DEF Retry, StructInv, TypeOK, Row
  <2>6. AttemptsPaidFor'
    BY <2>2, <2>5 DEF AttemptsPaidFor, Status
  <2>. QED BY <2>3, <2>6 DEF LedgerInv
<1>4. ASSUME NEW e \in Events, PassCutoff(e) PROVE LedgerInv'
  BY <1>4 DEF PassCutoff, batch, history, LedgerInv, TriedOnce, OkAccepted,
              AttemptsPaidFor, Status, InHand
<1>5. ASSUME NEW e \in Events, Purge(e) PROVE LedgerInv'
  <2>1. TriedOnce' /\ OkAccepted'
    BY <1>5 DEF Purge, batch, history, TriedOnce, OkAccepted, InHand
  <2>2. ASSUME NEW i \in RowsOf(e) PROVE Status(i)' = "purged"
    <3>1. i \in Ids /\ deliveries[i] \in Row
      BY DEF RowsOf, Status, StructInv, TypeOK, NoRow
    <3>. QED BY <1>5, <3>1 DEF Purge, Status, Row
  <2>3. \A i \in Ids : i \notin RowsOf(e) => deliveries'[i] = deliveries[i]
    BY <1>5 DEF Purge
  <2>4. AttemptsPaidFor'
    BY <1>5, <2>2, <2>3 DEF Purge, history, AttemptsPaidFor, Status
  <2>. QED BY <2>1, <2>4 DEF LedgerInv
<1>6. ASSUME NEW S \in Configs, Reload(S) PROVE LedgerInv'
  BY <1>6 DEF Reload, table, batch, history, LedgerInv, TriedOnce, OkAccepted,
              AttemptsPaidFor, Status, InHand
<1>7. CASE StartBatch
  <2>1. \A c \in Channels : stage'[c] = "next"
    BY <1>7 DEF StartBatch, StructInv, Suspended, BatchStillOwed
  <2>2. TriedOnce' /\ OkAccepted'
    BY <2>1 DEF TriedOnce, OkAccepted
  <2>. QED BY <1>7, <2>2 DEF StartBatch, table, history, LedgerInv, AttemptsPaidFor, Status
<1>8. CASE EndBatch
  <2>1. TriedOnce' /\ OkAccepted'
    BY <1>8 DEF EndBatch, TriedOnce, OkAccepted, InHand
  <2>. QED BY <1>8, <2>1 DEF EndBatch, table, history, LedgerInv, AttemptsPaidFor, Status
<1>9. CASE Crash
  <2>1. TriedOnce' /\ OkAccepted'
    BY <1>9 DEF Crash, TriedOnce, OkAccepted, InHand
  <2>. QED BY <1>9, <2>1 DEF Crash, table, history, LedgerInv, AttemptsPaidFor, Status
<1>10. ASSUME NEW c \in Channels, Abandon(c) PROVE LedgerInv'
  <2>1. \A d \in Channels : d # c => held'[d] = held[d] /\ stage'[d] = stage[d]
    BY <1>10 DEF Abandon, StructInv, TypeOK
  <2>2. stage'[c] = "next"
    BY <1>10 DEF Abandon, StructInv, TypeOK
  <2>3. TriedOnce' /\ OkAccepted'
    BY <1>10, <2>1, <2>2 DEF Abandon, history, TriedOnce, OkAccepted, InHand
  <2>. QED BY <1>10, <2>3 DEF Abandon, table, history, LedgerInv, AttemptsPaidFor, Status
<1>11. CASE Tick
  <2>1. TriedOnce' /\ OkAccepted'
    BY <1>11 DEF Tick, history, TriedOnce, OkAccepted, InHand
  <2>2. ASSUME NEW i \in Ids, Status(i)' = "queued"
        PROVE  Status(i) = "queued" /\ deliveries'[i].attempts = deliveries[i].attempts
    <3>1. Status(i) # "absent"
      BY <1>11, <2>2 DEF Tick, Status, NoRow
    <3>2. deliveries[i] \in Row
      BY <3>1 DEF StructInv, TypeOK, Status, NoRow
    <3>3. deliveries'[i] = [deliveries[i] EXCEPT !.wait = Floor0(@ - 1),
                                                 !.age = UpTo(@ + 1, AgeCap)]
      BY <1>11, <3>1 DEF Tick
    <3>. QED BY <2>2, <3>2, <3>3 DEF Row, Status
  <2>3. AttemptsPaidFor'
    BY <1>11, <2>2 DEF Tick, history, AttemptsPaidFor
  <2>. QED BY <2>1, <2>3 DEF LedgerInv
<1>12. ASSUME NEW c \in Channels, Drain(c) PROVE LedgerInv'
  BY <1>12, LedgerDrain DEF Drain, LedgerInv
<1>. QED
  BY <1>1, <1>2, <1>3, <1>4, <1>5, <1>6, <1>7, <1>8, <1>9, <1>10, <1>11, <1>12 DEF Next

\* Deferring is scheduling, not failure: it never burns an attempt.
THEOREM NoAttemptBurned == Spec => []AttemptsPaidFor
<1>1. LedgerInv => AttemptsPaidFor
  BY DEF LedgerInv
<1>. QED BY <1>1, LedgerInit, LedgerStep, PTL DEF Spec

-----------------------------------------------------------------------------
(***************************************************************************)
(* What each step does to the status column, in one lemma: the action      *)
(* property and the refinement both read it off here.                      *)
(***************************************************************************)
Untouched(S) == \A j \in Ids \ S : Status(j)' = Status(j)

\* A drain moves one row of the column: it stays queued, is sent once accepted,
\* or dies for one of the two reasons.
LEMMA DrainStatus ==
  ASSUME LedgerInv, NEW c \in Channels, NEW i \in Ids, DrainRow(c, i)
  PROVE  /\ Status(i) = "queued" /\ Untouched({i})
         /\ \/ Status(i)' = "queued"
            \/ accepted' = accepted /\ Status(i)' = "sent" /\ i \in accepted
            \/ /\ accepted' = accepted /\ Status(i)' = "dead"
               /\ tries[i] >= MaxAttempts \/ deliveries[i].channel \notin batchCfg
         /\ accepted' = accepted \/ (accepted' = accepted \cup {i} /\ Status(i)' = "queued")
<1>. InHand(c, i) /\ StructInv
  BY DEF DrainRow, LedgerInv
<1>0. Status(i) = "queued" /\ deliveries[i] \in Row /\ deliveries[i].channel = c
      /\ snap[i] \in Nat /\ tries[i] \in Nat
  BY InHandOwed, DeliveryAssumption DEF StructInv, TypeOK
<1>1. Untouched({i})
  BY DEF DrainRow, DropUnconfigured, DeferForBreaker, DeferForRate, Post, Answer,
         BookSent, BookFailed, StructInv, TypeOK, Untouched, Status, table
<1>2. CASE DropUnconfigured(c, i)
  <2>1. Status(i)' = "dead" /\ accepted' = accepted
    BY <1>0, <1>2 DEF DropUnconfigured, history, StructInv, TypeOK, Row, Status
  <2>. QED BY <1>0, <1>1, <1>2, <2>1 DEF DropUnconfigured
<1>3. CASE DeferForBreaker(c, i) \/ DeferForRate(c, i)
  <2>1. Status(i)' = Status(i) /\ accepted' = accepted
    BY <1>0, <1>3 DEF DeferForBreaker, DeferForRate, history, StructInv, TypeOK, Row, Status
  <2>. QED BY <1>0, <1>1, <2>1
<1>4. CASE Post(c, i)
  BY <1>0, <1>1, <1>4 DEF Post, table, Status
<1>5. CASE Answer(c, i)
  BY <1>0, <1>1, <1>5 DEF Answer, table, Status
<1>6. CASE BookSent(c, i)
  <2>1. Status(i)' = "sent" /\ accepted' = accepted
    BY <1>0, <1>6 DEF BookSent, history, StructInv, TypeOK, Row, Status
  <2>2. i \in accepted
    BY <1>6 DEF BookSent, LedgerInv, OkAccepted
  <2>. QED BY <1>0, <1>1, <2>1, <2>2
<1>7. CASE BookFailed(c, i)
  <2>1. accepted' = accepted
        /\ Status(i)' = IF snap[i] + 1 >= MaxAttempts THEN "dead" ELSE "queued"
    BY <1>0, <1>7 DEF BookFailed, history, StructInv, TypeOK, Row, Status
  <2>2. snap[i] + 1 <= tries[i]
    BY <1>7 DEF BookFailed, LedgerInv, TriedOnce
  <2>3. snap[i] + 1 >= MaxAttempts => tries[i] >= MaxAttempts
    BY <1>0, <2>2, DeliveryAssumption
  <2>. QED BY <1>0, <1>1, <2>1, <2>3
<1>. QED BY <1>2, <1>3, <1>4, <1>5, <1>6, <1>7 DEF DrainRow

\* An insert turns absent rows into queued ones.
LEMMA EnqueueStatus ==
  ASSUME LedgerInv, NEW e \in Events, NEW S \in SUBSET Channels, Enqueue(e, S)
  PROVE  /\ accepted' = accepted
         /\ \E new \in SUBSET Ids : /\ new # {} /\ Untouched(new)
                                   /\ \A i \in new : Status(i) = "absent" /\ Status(i)' = "queued"
<1>. DEFINE n == Cardinality(S)
            new == nextId..(nextId + n - 1)
<1>1. n \in Nat \ {0}
  BY FS_Subset, FS_CardinalityType, FS_EmptySet, DeliveryAssumption DEF Enqueue
<1>2. nextId \in 1..(MaxRows + 1) /\ nextId + n - 1 \in 1..MaxRows
  BY DEF Enqueue, LedgerInv, StructInv, TypeOK, Ids
<1>3. new \subseteq Ids /\ nextId \in new /\ \A i \in new : i >= nextId
  BY <1>1, <1>2, DeliveryAssumption DEF Ids
<1>4. PICK to \in [new -> S] :
        deliveries' = [i \in Ids |-> IF i \in new THEN NewRow(e, to[i]) ELSE deliveries[i]]
  BY DEF Enqueue
<1>5. \A i \in new : Status(i)' = "queued" /\ Status(i) = "absent"
  BY <1>3, <1>4 DEF NewRow, Status, LedgerInv, StructInv, FreshAbsent
<1>6. Untouched(new)
  BY <1>4 DEF Untouched, Status
<1>7. accepted' = accepted
  BY DEF Enqueue, history
<1>. HIDE DEF new
<1>. QED BY <1>3, <1>5, <1>6, <1>7

\* Every other step revives one dead row, forgets settled ones, or moves none.
LEMMA OtherStatus ==
  ASSUME LedgerInv, Next,
         ~ \E c \in Channels, i \in Ids : DrainRow(c, i),
         ~ \E e \in Events, S \in SUBSET Channels : Enqueue(e, S)
  PROVE  /\ accepted' = accepted
         /\ \/ Untouched({})
            \/ \E i \in Ids : Status(i) = "dead" /\ Status(i)' = "queued" /\ Untouched({i})
            \/ \E S \in SUBSET Ids : /\ S # {} /\ Untouched(S)
                                    /\ \A i \in S : Status(i) \in {"sent", "dead"}
                                                    /\ Status(i)' = "purged"
<1>. StructInv
  BY DEF LedgerInv
<1>1. ASSUME NEW i \in Ids, Retry(i)
      PROVE  /\ accepted' = accepted
             /\ Status(i) = "dead" /\ Status(i)' = "queued" /\ Untouched({i})
  <2>1. deliveries[i] \in Row
    BY <1>1 DEF Retry, Status, StructInv, TypeOK, NoRow
  <2>. QED BY <1>1, <2>1 DEF Retry, Status, Untouched, StructInv, TypeOK, Row
<1>2. ASSUME NEW e \in Events, Purge(e)
      PROVE  /\ accepted' = accepted /\ RowsOf(e) \in SUBSET Ids
             /\ RowsOf(e) # {} /\ Untouched(RowsOf(e))
             /\ \A i \in RowsOf(e) : Status(i) \in {"sent", "dead"} /\ Status(i)' = "purged"
  <2>1. \A i \in RowsOf(e) : i \in Ids /\ deliveries[i] \in Row
    BY DEF RowsOf, Status, StructInv, TypeOK, NoRow
  <2>2. ASSUME NEW i \in RowsOf(e)
        PROVE  Status(i) \in {"sent", "dead"} /\ Status(i)' = "purged"
    BY <1>2, <2>1 DEF Purge, Present, Status, Row
  <2>. QED BY <1>2, <2>1, <2>2 DEF Purge, history, Untouched, Status
<1>3. ASSUME \/ \E e \in Events : PassCutoff(e)
             \/ \E S \in Configs : Reload(S)
             \/ StartBatch \/ EndBatch \/ Crash
             \/ \E c \in Channels : Abandon(c)
      PROVE  accepted' = accepted /\ Untouched({})
  BY <1>3 DEF PassCutoff, Reload, StartBatch, EndBatch, Crash, Abandon, table, history,
              Untouched, Status
<1>4. CASE Tick
  <2>1. ASSUME NEW i \in Ids PROVE Status(i)' = Status(i)
    <3>1. CASE Status(i) = "absent"
      BY <1>4, <3>1 DEF Tick, Status, NoRow
    <3>2. CASE Status(i) # "absent"
      <4>1. deliveries[i] \in Row
        BY <3>2 DEF StructInv, TypeOK, Status, NoRow
      <4>. QED BY <1>4, <3>2, <4>1 DEF Tick, Status, Row
    <3>. QED BY <3>1, <3>2
  <2>. QED BY <1>4, <2>1 DEF Tick, history, Untouched
<1>. QED BY <1>1, <1>2, <1>3, <1>4 DEF Next, Drain

\* The two reasons a row may die, for every step.
THEOREM DeathsEarned == Spec => DeathIsEarned
<1>. DEFINE Step == \A i \in Ids : Status(i) = "queued" /\ Status(i)' = "dead" =>
                      tries[i] >= MaxAttempts \/ deliveries[i].channel \notin batchCfg
<1>1. ASSUME LedgerInv, Next PROVE Step
  <2>1. CASE \E c \in Channels, i \in Ids : DrainRow(c, i)
    <3>1. PICK c \in Channels, i \in Ids : DrainRow(c, i)
      BY <2>1
    <3>. QED BY <1>1, <3>1, DrainStatus DEF Untouched
  <2>2. CASE \E e \in Events, S \in SUBSET Channels : Enqueue(e, S)
    BY <1>1, <2>2, EnqueueStatus DEF Untouched
  <2>3. CASE /\ ~ \E c \in Channels, i \in Ids : DrainRow(c, i)
             /\ ~ \E e \in Events, S \in SUBSET Channels : Enqueue(e, S)
    BY <1>1, <2>3, OtherStatus DEF Untouched
  <2>. QED BY <2>1, <2>2, <2>3
<1>2. LedgerInv /\ [Next]_vars => [Step]_vars
  BY <1>1
<1>. QED BY <1>2, LedgerInit, LedgerStep, PTL DEF Spec, DeathIsEarned

(***************************************************************************)
(* Delivery implements Outbox.                                             *)
(***************************************************************************)
\* Rows that all go from one status to another are a Move of the abstract ledger.
LEMMA ColumnMoves ==
  ASSUME NEW S \in SUBSET Ids, NEW from, NEW to, S # {}, Untouched(S),
         \A i \in S : Status(i) \in from /\ Status(i)' = to,
         accepted' = accepted
  PROVE  Ledger!Move(S, from, to)
<1>1. [i \in Ids |-> Status(i)]' = [i \in Ids |-> IF i \in S THEN to ELSE Status(i)]
  BY DEF Untouched
<1>2. \A i \in Ids : [j \in Ids |-> Status(j)][i] = Status(i)
  OBVIOUS
<1>. QED BY <1>1, <1>2 DEF Ledger!Move

\* With no row touched, the column is the same.
LEMMA ColumnStays ==
  ASSUME Untouched({}) PROVE [i \in Ids |-> Status(i)]' = [i \in Ids |-> Status(i)]
BY DEF Untouched

\* Every behaviour of the outbox, seen through its status column, is one of the
\* abstract ledger: the initial states agree and every step is a move or a stutter.
THEOREM DeliveryImplementsOutbox == Spec => ImplementsOutbox
<1>1. Init => Ledger!Init
  BY DEF Init, Ledger!Init, Status, NoRow
<1>2. ASSUME LedgerInv, Next PROVE [Ledger!Next]_(Ledger!vars)
  <2>1. ASSUME NEW c \in Channels, NEW i \in Ids, DrainRow(c, i)
        PROVE  [Ledger!Next]_(Ledger!vars)
    <3>. Status(i) = "queued" /\ Untouched({i})
      BY <1>2, <2>1, DrainStatus
    <3>1. CASE accepted' = accepted /\ Status(i)' = "queued"
      <4>1. Untouched({})
        BY <3>1 DEF Untouched
      <4>. QED BY <3>1, <4>1, ColumnStays DEF Ledger!vars
    <3>2. CASE accepted' = accepted \cup {i} /\ Status(i)' = "queued"
      <4>1. Untouched({})
        BY <3>2 DEF Untouched
      <4>2. Ledger!Accept(i)
        BY <3>2, <4>1, ColumnStays DEF Ledger!Accept
      <4>. QED BY <4>2 DEF Ledger!Next
    <3>3. CASE accepted' = accepted /\ Status(i)' = "sent" /\ i \in accepted
      <4>1. Ledger!Move({i}, {"queued"}, "sent")
        BY <3>3, ColumnMoves
      <4>. QED BY <3>3, <4>1 DEF Ledger!Next, Ledger!Keep
    <3>4. CASE accepted' = accepted /\ Status(i)' = "dead"
      <4>1. Ledger!Move({i}, {"queued"}, "dead")
        BY <3>4, ColumnMoves
      <4>. QED BY <4>1 DEF Ledger!Next, Ledger!GiveUp
    <3>. QED BY <1>2, <2>1, <3>1, <3>2, <3>3, <3>4, DrainStatus
  <2>2. ASSUME NEW e \in Events, NEW S \in SUBSET Channels, Enqueue(e, S)
        PROVE  [Ledger!Next]_(Ledger!vars)
    <3>1. PICK new \in SUBSET Ids : /\ new # {} /\ Untouched(new)
                                   /\ \A i \in new : Status(i) = "absent" /\ Status(i)' = "queued"
      BY <1>2, <2>2, EnqueueStatus
    <3>2. accepted' = accepted
      BY <1>2, <2>2, EnqueueStatus
    <3>3. Ledger!Move(new, {"absent"}, "queued")
      BY <3>1, <3>2, ColumnMoves
    <3>. QED BY <3>3 DEF Ledger!Next, Ledger!Promise
  <2>3. CASE /\ ~ \E c \in Channels, i \in Ids : DrainRow(c, i)
             /\ ~ \E e \in Events, S \in SUBSET Channels : Enqueue(e, S)
    <3>. accepted' = accepted
      BY <1>2, <2>3, OtherStatus
    <3>1. CASE Untouched({})
      BY <3>1, ColumnStays DEF Ledger!vars
    <3>2. ASSUME NEW i \in Ids, Status(i) = "dead", Status(i)' = "queued", Untouched({i})
          PROVE  Ledger!Next
      <4>1. Ledger!Move({i}, {"dead"}, "queued")
        BY <3>2, ColumnMoves
      <4>. QED BY <4>1 DEF Ledger!Next, Ledger!Again
    <3>3. ASSUME NEW S \in SUBSET Ids, S # {}, Untouched(S),
                 \A i \in S : Status(i) \in {"sent", "dead"} /\ Status(i)' = "purged"
          PROVE  Ledger!Next
      <4>1. Ledger!Move(S, {"sent", "dead"}, "purged")
        BY <3>3, ColumnMoves
      <4>. QED BY <4>1 DEF Ledger!Next, Ledger!Forget
    <3>. QED BY <1>2, <2>3, <3>1, <3>2, <3>3, OtherStatus
  <2>. QED BY <2>1, <2>2, <2>3
<1>3. UNCHANGED vars => UNCHANGED Ledger!vars
  BY DEF vars, table, history, Ledger!vars, Status
<1>4. LedgerInv /\ [Next]_vars => [Ledger!Next]_(Ledger!vars)
  BY <1>2, <1>3
<1>. QED BY <1>1, <1>4, LedgerInit, LedgerStep, PTL DEF Spec, ImplementsOutbox, Ledger!Spec
=============================================================================
