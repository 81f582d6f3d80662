---------------------------- MODULE JudgeProofs ----------------------------
(***************************************************************************)
(* Theorems about Judge, for all conditions, bounds, pages and windows.    *)
(*                                                                         *)
(* Sound is the inductive invariant everything rests on: the alerts are    *)
(* numbered without a gap and the count of a condition's lock is the       *)
(* number of tasks that share it.  OldestOwns says the lock does what it   *)
(* is for, Paid that no second task can be about to pay, and Ordered that  *)
(* the tasks finish in the order they came.                                *)
(***************************************************************************)
EXTENDS Judge, FiniteSetTheorems, WellFoundedInduction, TLAPS

\* A non-empty set of naturals has a least member: the oldest waiting task.
LEMMA LeastExists ==
  ASSUME NEW S \in SUBSET Nat, S # {}
  PROVE  \E x \in S : \A y \in S : x <= y
<1>. DEFINE R == OpToRel(<, Nat)
<1>1. \E x \in S : \A y \in S : ~(<<y, x>> \in R)
  <2>1. IsWellFoundedOn(R, Nat)
    BY NatLessThanWellFounded
  <2>. HIDE DEF R
  <2>. QED
    BY <2>1, WFMin
<1>2. ASSUME NEW x \in Nat, NEW y \in Nat, ~(<<y, x>> \in R)
      PROVE  x <= y
  <2>1. ~(y < x)
    BY <1>2 DEF OpToRel
  <2>. QED
    BY <2>1
<1>. QED
  BY <1>1, <1>2

\* A non-empty set of numbers up to n has a greatest member: the newest row.
LEMMA GreatestExists ==
  ASSUME NEW n \in Nat, NEW S \in SUBSET (1..n), S # {}
  PROVE  \E x \in S : \A y \in S : y <= x
<1>. DEFINE T == {n - x : x \in S}
<1>1. T \in SUBSET Nat /\ T # {}
  <2>1. \A x \in S : n - x \in Nat
    OBVIOUS
  <2>. QED
    BY <2>1
<1>2. PICK t \in T : \A u \in T : t <= u
  BY <1>1, LeastExists
<1>3. PICK x \in S : t = n - x
  OBVIOUS
<1>4. ASSUME NEW y \in S PROVE n - x <= n - y
  <2>1. n - y \in T
    OBVIOUS
  <2>. HIDE DEF T
  <2>. QED
    BY <1>2, <1>3, <2>1
<1>5. \A y \in S : y \in Int /\ x \in Int
  OBVIOUS
<1>. QED
  BY <1>4, <1>5

\* A lock with one holder less is a lock or is gone.
LEMMA LeftType ==
  ASSUME NEW c \in Conditions, locks[c] \in Lock
  PROVE  Left(c) \in Lock \cup {NoLock}
<1>1. CASE locks[c].holders <= 1
  BY <1>1 DEF Left
<1>2. CASE ~(locks[c].holders <= 1)
  <2>1. locks[c].holders - 1 \in Ids
    BY <1>2, JudgeAssumption DEF Lock, Ids
  <2>. QED
    BY <1>2, <2>1 DEF Left, Lock
<1>. QED
  BY <1>1, <1>2

-----------------------------------------------------------------------------
(***************************************************************************)
(* The numbering of the alerts and the refcounted locks.                   *)
(***************************************************************************)
\* The tasks of a condition that are under way.
Holders(c) == {k \in Active : Cond(k) = c}

\* An id below nextId is an alert, whatever row, task or history names it is
\* such an id, and a task is about a row of the intake.
AlertsNumbered ==
    /\ \A k \in Ids : k < nextId => alert[k] \in Alert
    /\ \A k \in Ids : k >= nextId => alert[k] = NoAlert
    /\ \A k \in intake \cup judged \cup dropped : k < nextId
    /\ \A k \in Active : k \in intake
    /\ \A k \in Ids : stage[k] = "drop" => k \in judged
    /\ \A r \in Recorded : r < nextRow /\ ledger[r].alert \in judged

\* The tasks of one condition share one lock object, and its count is theirs.
LockShared ==
    /\ \A k \in Active : lockOf[k] = locks[Cond(k)].lock
    /\ \A c \in Conditions :
         \/ Holders(c) = {} /\ locks[c] = NoLock
         \/ Holders(c) # {} /\ locks[c] \in Lock /\ locks[c].holders = Cardinality(Holders(c))

\* A task about to record has something to record.
VerdictReady == \A k \in Ids : stage[k] = "record" => verdict[k] \in Verdict

\* The inductive invariant.
Sound == TypeOK /\ AlertsNumbered /\ LockShared /\ VerdictReady

\* Nothing has arrived and nobody holds a lock.
LEMMA SoundInit == Init => Sound
<1>. SUFFICES ASSUME Init PROVE Sound
  OBVIOUS
<1>1. TypeOK
  BY JudgeAssumption DEF Init, TypeOK, Ids, Rows
<1>2. Active = {} /\ Recorded = {}
  BY DEF Init, Active, Recorded
<1>3. AlertsNumbered
  BY <1>2, JudgeAssumption DEF Init, AlertsNumbered, Ids
<1>4. LockShared
  BY <1>2 DEF Init, LockShared, Holders
<1>5. VerdictReady
  BY DEF Init, VerdictReady
<1>. QED
  BY <1>1, <1>3, <1>4, <1>5 DEF Sound

\* What is true of a task under way.
LEMMA TaskFacts ==
  ASSUME Sound, NEW k \in Active
  PROVE  /\ k \in Ids /\ k < nextId /\ k \in intake
         /\ alert[k] \in Alert /\ Cond(k) \in Conditions
         /\ locks[Cond(k)] \in Lock
         /\ locks[Cond(k)].holders = Cardinality(Holders(Cond(k)))
         /\ lockOf[k] = locks[Cond(k)].lock
<1>1. k \in Ids /\ k < nextId /\ k \in intake /\ alert[k] \in Alert
  BY DEF Sound, AlertsNumbered, Active
<1>2. Cond(k) \in Conditions
  BY <1>1 DEF Cond, Alert
<1>3. Holders(Cond(k)) # {}
  BY DEF Holders
<1>. QED
  BY <1>1, <1>2, <1>3 DEF Sound, LockShared

\* The tasks of a condition can be counted.
LEMMA HoldersFinite == ASSUME NEW c PROVE IsFiniteSet(Holders(c)) /\ Cardinality(Holders(c)) \in 0..MaxAlerts
<1>1. IsFiniteSet(Ids) /\ Cardinality(Ids) = MaxAlerts
  BY FS_Interval, JudgeAssumption DEF Ids
<1>2. Holders(c) \in SUBSET Ids
  BY DEF Holders, Active
<1>. QED
  BY <1>1, <1>2, FS_Subset, FS_CardinalityType, JudgeAssumption

\* A step that gives a task another stage leaves the alerts' numbering and the
\* locks alone.
LEMMA MoveSound ==
  ASSUME Sound, NEW k \in Active, NEW s \in Owning \ {"drop"},
         stage' = [stage EXCEPT ![k] = s],
         seen' \in [Ids -> Rows \cup {0}],
         verdict' \in [Ids -> Verdict \cup {NoVerdict}],
         s = "record" => verdict'[k] \in Verdict,
         \A j \in Ids \ {k} : verdict'[j] = verdict[j],
         UNCHANGED <<disk, lockOf, locks, hist, bounds>>
  PROVE  Sound'
<1>1. k \in Ids
  BY DEF Active
<1>2. stage' \in [Ids -> {"none", "waiting"} \cup Owning]
  BY DEF Sound, TypeOK
<1>3. TypeOK'
  BY <1>2 DEF Sound, TypeOK, disk, hist, bounds
<1>4. Active' = Active
  BY <1>1, <1>2 DEF Active, Owning, Judging, Sound, TypeOK
<1>5. Recorded' = Recorded /\ \A j : Cond(j)' = Cond(j)
  BY DEF Recorded, Cond, disk
<1>6. \A j \in Ids : stage'[j] = "drop" => stage[j] = "drop"
  BY <1>1 DEF Sound, TypeOK
<1>7. AlertsNumbered'
  BY <1>4, <1>5, <1>6 DEF Sound, AlertsNumbered, disk, hist
<1>8. \A c : Holders(c)' = Holders(c)
  BY <1>4, <1>5 DEF Holders
<1>9. LockShared'
  BY <1>4, <1>5, <1>8 DEF Sound, LockShared
<1>10. VerdictReady'
  BY <1>1 DEF Sound, TypeOK, VerdictReady
<1>. QED
  BY <1>3, <1>7, <1>9, <1>10 DEF Sound

\* A new alert gets the next number, and its task joins its condition's lock.
LEMMA AcceptSound ==
  ASSUME Sound, NEW c \in Conditions, NEW isRecovery \in BOOLEAN, Accept(c, isRecovery)
  PROVE  Sound'
<1>0. PICK n \in Ids : n = nextId
  BY DEF Accept
<1>. DEFINE a == [of |-> c, recovery |-> isRecovery, age |-> 0]
            l == Joined(n, c)
<1>1. /\ n \in Ids /\ a \in Alert
      /\ alert' = [alert EXCEPT ![n] = a] /\ nextId = n /\ nextId' = n + 1
      /\ intake' = intake \cup {n}
      /\ stage' = [stage EXCEPT ![n] = "waiting"]
      /\ locks' = [locks EXCEPT ![c] = l]
      /\ lockOf' = [lockOf EXCEPT ![n] = l.lock]
      /\ UNCHANGED <<ledger, nextRow, seen, verdict, hist, bounds>>
  BY <1>0, JudgeAssumption DEF Accept, Alert
<1>2. /\ stage[n] = "none" /\ n \notin Active
      /\ \A k \in Active : k < n /\ Cond(k)' = Cond(k) /\ Cond(k) \in Conditions
      /\ Cond(n)' = c
  <2>0. n \in Int
    BY <1>1 DEF Ids
  <2>1. n \notin Active
    BY <1>0, <2>0, TaskFacts
  <2>2. \A k \in Active : k < n /\ k \in Ids /\ Cond(k) \in Conditions
    BY <1>0, TaskFacts
  <2>3. \A k \in Active : Cond(k)' = Cond(k)
    BY <1>1, <2>2 DEF Cond, Sound, TypeOK
  <2>4. Cond(n)' = c
    BY <1>1 DEF Cond, Sound, TypeOK
  <2>5. stage[n] = "none"
    BY <1>1, <2>1 DEF Active
  <2>. QED
    BY <2>1, <2>2, <2>3, <2>4, <2>5
<1>3. Active' = Active \cup {n}
  BY <1>1, <1>2 DEF Active, Sound, TypeOK
<1>4. /\ Holders(c)' = Holders(c) \cup {n} /\ n \notin Holders(c)
      /\ \A d \in Conditions \ {c} : Holders(d)' = Holders(d)
  BY <1>2, <1>3 DEF Holders
<1>5. /\ Cardinality(Holders(c)') = Cardinality(Holders(c)) + 1
      /\ Cardinality(Holders(c)') \in 0..MaxAlerts
  <2>1. Cardinality(Holders(c)') = Cardinality(Holders(c)) + 1
    BY <1>4, HoldersFinite, FS_AddElement
  <2>2. Holders(c)' \in SUBSET Ids
    BY <1>1, <1>4 DEF Holders, Active
  <2>3. IsFiniteSet(Ids) /\ Cardinality(Ids) = MaxAlerts
    BY FS_Interval, JudgeAssumption DEF Ids
  <2>. QED
    BY <2>1, <2>2, <2>3, FS_Subset, FS_CardinalityType, JudgeAssumption
<1>6. /\ l \in Lock /\ l.holders = Cardinality(Holders(c)')
      /\ \A k \in Holders(c) : lockOf[k] = l.lock
  <2>1. CASE Holders(c) = {}
    <3>1. locks[c] = NoLock
      BY <2>1 DEF Sound, LockShared
    <3>2. l = [lock |-> n, holders |-> 1]
      BY <3>1 DEF Joined
    <3>3. Cardinality(Holders(c)') = 1
      BY <1>5, <2>1, FS_EmptySet
    <3>. QED
      BY <1>1, <2>1, <3>2, <3>3, JudgeAssumption DEF Lock, Ids
  <2>2. CASE Holders(c) # {}
    <3>1. /\ locks[c] \in Lock /\ locks[c].holders = Cardinality(Holders(c))
          /\ \A k \in Holders(c) : lockOf[k] = locks[c].lock
      BY <2>2 DEF Sound, LockShared, Holders
    <3>2. locks[c] # NoLock
      BY <3>1 DEF Lock, NoLock, Ids
    <3>3. l = [locks[c] EXCEPT !.holders = Cardinality(Holders(c)')]
      BY <1>5, <3>1, <3>2 DEF Joined
    <3>4. Cardinality(Holders(c)') \in Ids
      BY <1>5, HoldersFinite, JudgeAssumption DEF Ids
    <3>. QED
      BY <3>1, <3>3, <3>4 DEF Lock
  <2>. QED
    BY <2>1, <2>2
<1>. HIDE DEF l, a
<1>7. TypeOK'
  <2>1. alert' \in [Ids -> Alert \cup {NoAlert}]
    BY <1>1 DEF Sound, TypeOK
  <2>2. nextId' \in 1..(MaxAlerts + 1) /\ intake' \subseteq Ids
    BY <1>1, JudgeAssumption DEF Sound, TypeOK, Ids
  <2>3. stage' \in [Ids -> {"none", "waiting"} \cup Owning]
    BY <1>1 DEF Sound, TypeOK
  <2>4. l.lock \in Ids
    BY <1>6 DEF Lock
  <2>5. lockOf' \in [Ids -> Ids \cup {0}] /\ locks' \in [Conditions -> Lock \cup {NoLock}]
    BY <1>1, <1>6, <2>4 DEF Sound, TypeOK
  <2>. QED
    BY <1>1, <2>1, <2>2, <2>3, <2>5 DEF Sound, TypeOK, hist, bounds
<1>8. AlertsNumbered'
  <2>1. \A k \in Ids : k < nextId' => alert'[k] \in Alert
    BY <1>1 DEF Sound, TypeOK, AlertsNumbered, Ids
  <2>2. \A k \in Ids : k >= nextId' => alert'[k] = NoAlert
    BY <1>1 DEF Sound, TypeOK, AlertsNumbered, Ids
  <2>3. \A k \in intake' \cup judged' \cup dropped' : k < nextId'
    <3>1. \A k \in intake \cup judged \cup dropped : k \in Ids /\ k < n
      BY <1>0 DEF Sound, TypeOK, AlertsNumbered
    <3>2. judged' = judged /\ dropped' = dropped
      BY <1>1 DEF hist
    <3>. QED
      BY <1>1, <3>1, <3>2 DEF Ids
  <2>4. \A k \in Active' : k \in intake'
    BY <1>1, <1>3 DEF Sound, AlertsNumbered
  <2>5. \A k \in Ids : stage'[k] = "drop" => k \in judged'
    BY <1>1 DEF Sound, TypeOK, AlertsNumbered, hist
  <2>6. \A r \in Recorded' : r < nextRow' /\ ledger'[r].alert \in judged'
    BY <1>1 DEF Sound, AlertsNumbered, Recorded, hist
  <2>. QED
    BY <2>1, <2>2, <2>3, <2>4, <2>5, <2>6 DEF AlertsNumbered
<1>9. LockShared'
  <2>1. ASSUME NEW k \in Active' PROVE lockOf'[k] = locks'[Cond(k)'].lock
    <3>1. CASE k = n
      BY <1>1, <1>2, <3>1 DEF Sound, TypeOK, Cond
    <3>2. CASE k # n /\ Cond(k) = c
      BY <1>1, <1>2, <1>3, <1>6, <3>2 DEF Sound, TypeOK, Holders, Active
    <3>3. CASE k # n /\ Cond(k) # c
      BY <1>1, <1>2, <1>3, <3>3 DEF Sound, TypeOK, LockShared, Active
    <3>. QED
      BY <3>1, <3>2, <3>3
  <2>2. ASSUME NEW d \in Conditions
        PROVE  \/ Holders(d)' = {} /\ locks'[d] = NoLock
               \/ Holders(d)' # {} /\ locks'[d] \in Lock
                  /\ locks'[d].holders = Cardinality(Holders(d)')
    <3>1. CASE d = c
      BY <1>1, <1>4, <1>6, <3>1 DEF Sound, TypeOK
    <3>2. CASE d # c
      BY <1>1, <1>4, <3>2 DEF Sound, TypeOK, LockShared
    <3>. QED
      BY <3>1, <3>2
  <2>. QED
    BY <2>1, <2>2 DEF LockShared
<1>10. VerdictReady'
  BY <1>1 DEF Sound, TypeOK, VerdictReady
<1>. QED
  BY <1>7, <1>8, <1>9, <1>10 DEF Sound

\* A judgement is recorded under the next row number, and its alert is judged.
LEMMA RecordSound ==
  ASSUME Sound, NEW k \in Ids, Record(k)
  PROVE  Sound'
<1>. DEFINE w == [alert |-> k, route |-> verdict[k].route,
                  billed |-> verdict[k].billed, owed |-> TRUE]
<1>1. /\ stage[k] = "record" /\ nextRow \in Rows /\ w \in Row
      /\ ledger' = [ledger EXCEPT ![nextRow] = w] /\ nextRow' = nextRow + 1
      /\ judged' = judged \cup {k}
      /\ stage' = [stage EXCEPT ![k] = "drop"]
      /\ UNCHANGED <<alert, nextId, intake, lockOf, locks, seen, verdict, dropped, offPage, bounds>>
  BY DEF Record, Row, Verdict, Sound, VerdictReady
<1>. HIDE DEF w
<1>2. TypeOK'
  <2>1. stage' \in [Ids -> {"none", "waiting"} \cup Owning]
    BY <1>1 DEF Sound, TypeOK, Owning
  <2>2. ledger' \in [Rows -> Row \cup {NoRow}]
    BY <1>1 DEF Sound, TypeOK
  <2>3. nextRow' \in 1..(MaxRows + 1)
    BY <1>1, JudgeAssumption DEF Rows
  <2>. QED
    BY <1>1, <2>1, <2>2, <2>3 DEF Sound, TypeOK, bounds
<1>3. Active' = Active
  BY <1>1 DEF Active, Sound, TypeOK
<1>4. \A j : Cond(j)' = Cond(j)
  BY <1>1 DEF Cond
<1>5. \A c : Holders(c)' = Holders(c)
  BY <1>3, <1>4 DEF Holders
<1>6. LockShared'
  BY <1>1, <1>3, <1>4, <1>5 DEF Sound, LockShared
<1>7. AlertsNumbered'
  <2>1. k \in Active
    BY <1>1 DEF Active
  <2>2. k < nextId
    BY <2>1, TaskFacts
  <2>3. \A r \in Recorded' : r < nextRow' /\ ledger'[r].alert \in judged'
    <3>1. ASSUME NEW r \in Recorded' PROVE r < nextRow' /\ ledger'[r].alert \in judged'
      <4>1. CASE r = nextRow
        BY <1>1, <4>1 DEF Sound, TypeOK, Rows, w
      <4>2. CASE r # nextRow
        <5>1. r \in Recorded /\ ledger'[r] = ledger[r]
          BY <1>1, <4>2 DEF Recorded, Sound, TypeOK
        <5>2. r < nextRow /\ ledger[r].alert \in judged
          BY <5>1 DEF Sound, AlertsNumbered
        <5>. QED
          BY <1>1, <5>1, <5>2 DEF Recorded, Rows
      <4>. QED
        BY <4>1, <4>2
    <3>. QED
      BY <3>1
  <2>4. \A j \in Ids : stage'[j] = "drop" => j \in judged'
    BY <1>1 DEF Sound, AlertsNumbered, TypeOK
  <2>5. \A j \in Active' : j \in intake'
    BY <1>1, <1>3 DEF Sound, AlertsNumbered
  <2>6. \A j \in intake' \cup judged' \cup dropped' : j < nextId'
    BY <1>1, <2>2 DEF Sound, AlertsNumbered
  <2>7. /\ \A j \in Ids : j < nextId' => alert'[j] \in Alert
        /\ \A j \in Ids : j >= nextId' => alert'[j] = NoAlert
    BY <1>1 DEF Sound, AlertsNumbered
  <2>. QED
    BY <2>3, <2>4, <2>5, <2>6, <2>7 DEF AlertsNumbered
<1>8. VerdictReady'
  BY <1>1 DEF Sound, TypeOK, VerdictReady
<1>. QED
  BY <1>2, <1>6, <1>7, <1>8 DEF Sound

\* A task that ends gives its share of the lock back; its row stays, unless it
\* was crossed off.
LEMMA LeaveSound ==
  ASSUME Sound, NEW k \in Active, Leave(k),
         intake' \in {intake, intake \ {k}}, errors' \in 0..MaxErrors,
         UNCHANGED <<alert, nextId, ledger, nextRow, hist, crashes>>
  PROVE  Sound'
<1>0. PICK c \in Conditions : c = Cond(k)
  BY TaskFacts
<1>1. /\ k \in Ids /\ c \in Conditions /\ Cond(k) = c
      /\ locks[c] \in Lock /\ locks[c].holders = Cardinality(Holders(c))
  BY <1>0, TaskFacts
<1>2. /\ stage' = [stage EXCEPT ![k] = "none"]
      /\ lockOf' = [lockOf EXCEPT ![k] = 0]
      /\ locks' = [locks EXCEPT ![c] = Left(c)]
      /\ seen' = [seen EXCEPT ![k] = 0]
      /\ verdict' = [verdict EXCEPT ![k] = NoVerdict]
  BY <1>0 DEF Leave
<1>3. Active' = Active \ {k}
  BY <1>2 DEF Active, Sound, TypeOK
<1>4. \A j : Cond(j)' = Cond(j)
  BY DEF Cond
<1>5. /\ Holders(c)' = Holders(c) \ {k} /\ k \in Holders(c)
      /\ \A d \in Conditions \ {c} : Holders(d)' = Holders(d)
  BY <1>1, <1>3, <1>4 DEF Holders
<1>6. Cardinality(Holders(c)') = Cardinality(Holders(c)) - 1 /\ IsFiniteSet(Holders(c)')
  BY <1>5, HoldersFinite, FS_RemoveElement
<1>7. Left(c) \in Lock \cup {NoLock}
  BY <1>1, LeftType
<1>8. TypeOK'
  <2>1. stage' \in [Ids -> {"none", "waiting"} \cup Owning]
    BY <1>2 DEF Sound, TypeOK
  <2>2. /\ lockOf' \in [Ids -> Ids \cup {0}]
        /\ locks' \in [Conditions -> Lock \cup {NoLock}]
        /\ seen' \in [Ids -> Rows \cup {0}]
        /\ verdict' \in [Ids -> Verdict \cup {NoVerdict}]
    BY <1>2, <1>7 DEF Sound, TypeOK
  <2>. QED
    BY <2>1, <2>2 DEF Sound, TypeOK, hist
<1>9. AlertsNumbered'
  <2>1. \A j \in Ids : stage'[j] = "drop" => j \in judged'
    BY <1>2 DEF Sound, AlertsNumbered, TypeOK, hist
  <2>2. \A j \in Active' : j \in intake'
    BY <1>3 DEF Sound, AlertsNumbered
  <2>3. \A j \in intake' \cup judged' \cup dropped' : j < nextId'
    BY DEF Sound, AlertsNumbered, hist
  <2>4. /\ \A j \in Ids : j < nextId' => alert'[j] \in Alert
        /\ \A j \in Ids : j >= nextId' => alert'[j] = NoAlert
    BY DEF Sound, AlertsNumbered
  <2>5. \A r \in Recorded' : r < nextRow' /\ ledger'[r].alert \in judged'
    BY DEF Sound, AlertsNumbered, Recorded, hist
  <2>. QED
    BY <2>1, <2>2, <2>3, <2>4, <2>5 DEF AlertsNumbered
<1>10. LockShared'
  <2>1. \/ Holders(c)' = {} /\ Left(c) = NoLock
        \/ /\ Holders(c)' # {} /\ Left(c) \in Lock /\ Left(c).lock = locks[c].lock
           /\ Left(c).holders = Cardinality(Holders(c)')
    <3>1. CASE locks[c].holders <= 1
      <4>0. Cardinality(Holders(c)') \in Nat
        BY <1>6, FS_CardinalityType
      <4>1. Cardinality(Holders(c)') = 0
        BY <1>1, <1>6, <3>1, <4>0 DEF Lock, Ids
      <4>2. Holders(c)' = {}
        BY <1>6, <4>1, FS_EmptySet
      <4>3. Left(c) = NoLock
        BY <3>1 DEF Left
      <4>. QED
        BY <4>2, <4>3
    <3>2. CASE ~(locks[c].holders <= 1)
      <4>1. /\ Left(c) = [locks[c] EXCEPT !.holders = locks[c].holders - 1]
            /\ locks[c].holders \in Int
        BY <1>1, <3>2 DEF Left, Lock, Ids
      <4>2. Holders(c)' # {}
        BY <1>1, <1>6, <3>2, <4>1, FS_EmptySet
      <4>3. locks[c].holders - 1 \in Ids
        BY <1>1, <3>2, JudgeAssumption DEF Lock, Ids
      <4>. QED
        BY <1>1, <1>6, <4>1, <4>2, <4>3 DEF Lock
    <3>. QED
      BY <3>1, <3>2
  <2>2. ASSUME NEW j \in Active' PROVE lockOf'[j] = locks'[Cond(j)'].lock
    <3>1. /\ j \in Active /\ j # k /\ j \in Ids /\ Cond(j)' = Cond(j) /\ Cond(j) \in Conditions
          /\ lockOf[j] = locks[Cond(j)].lock /\ lockOf'[j] = lockOf[j]
      BY <1>2, <1>3, <1>4, TaskFacts DEF Sound, TypeOK
    <3>2. CASE Cond(j) = c
      <4>1. j \in Holders(c)'
        BY <1>5, <3>1, <3>2 DEF Holders
      <4>. QED
        BY <1>1, <1>2, <2>1, <3>1, <3>2, <4>1 DEF Sound, TypeOK
    <3>3. CASE Cond(j) # c
      BY <1>2, <3>1, <3>3 DEF Sound, TypeOK
    <3>. QED
      BY <3>2, <3>3
  <2>3. ASSUME NEW d \in Conditions
        PROVE  \/ Holders(d)' = {} /\ locks'[d] = NoLock
               \/ Holders(d)' # {} /\ locks'[d] \in Lock
                  /\ locks'[d].holders = Cardinality(Holders(d)')
    <3>1. CASE d = c
      BY <1>2, <2>1, <3>1 DEF Sound, TypeOK
    <3>2. CASE d # c
      BY <1>2, <1>5, <3>2 DEF Sound, TypeOK, LockShared
    <3>. QED
      BY <3>1, <3>2
  <2>. QED
    BY <2>2, <2>3 DEF LockShared
<1>11. VerdictReady'
  BY <1>2 DEF Sound, TypeOK, VerdictReady
<1>. QED
  BY <1>8, <1>9, <1>10, <1>11 DEF Sound

\* What pending_intake returns is part of the intake.
LEMMA PageOfIntake == ASSUME NEW n PROVE FirstRows(n) \subseteq intake
  BY DEF FirstRows

\* A boot makes a task, and a share of its condition's new lock, for every row
\* it could read.
LEMMA BootSound ==
  ASSUME Sound, NEW bad \in SUBSET intake, Boot(bad)
  PROVE  Sound'
<1>. DEFINE again == FirstRows(BootLimit) \ bad
            Of(c) == {j \in again : Cond(j) = c}
            oldest(S) == CHOOSE j \in S : \A i \in S : j <= i
<1>1. /\ intake' = intake \ bad /\ dropped' = dropped \cup bad
      /\ crashes' = crashes + 1 /\ crashes < MaxCrashes
      /\ stage' = [k \in Ids |-> IF k \in again THEN "waiting" ELSE "none"]
      /\ seen' = [k \in Ids |-> 0] /\ verdict' = [k \in Ids |-> NoVerdict]
      /\ UNCHANGED <<alert, nextId, ledger, nextRow, judged, errors>>
  BY DEF Boot
<1>2. lockOf' = [k \in Ids |-> IF k \in again THEN oldest(Of(Cond(k))) ELSE 0]
  BY DEF Boot
<1>3. locks' = [c \in Conditions |-> IF Of(c) = {} THEN NoLock
                                     ELSE [lock |-> oldest(Of(c)), holders |-> Cardinality(Of(c))]]
  BY DEF Boot
<1>4. again \subseteq intake \ bad /\ again \subseteq Ids
  BY PageOfIntake DEF Sound, TypeOK
<1>. HIDE DEF again
<1>5. ASSUME NEW S \in SUBSET Ids, S # {} PROVE oldest(S) \in S
  <2>1. S \in SUBSET Nat
    BY DEF Ids
  <2>2. \E j \in S : \A i \in S : j <= i
    BY <1>5, <2>1, LeastExists
  <2>. QED
    BY <2>2
<1>. HIDE DEF oldest
<1>6. Active' = again
  BY <1>1, <1>4 DEF Active
<1>7. \A j : Cond(j)' = Cond(j)
  BY <1>1 DEF Cond
<1>8. \A c : Holders(c)' = Of(c)
  BY <1>6, <1>7 DEF Holders
<1>9. \A k \in again : Cond(k) \in Conditions
  BY <1>4 DEF Sound, TypeOK, AlertsNumbered, Cond, Alert
<1>10. \A c : Of(c) \in SUBSET Ids
  BY <1>4
<1>11. \A c : Of(c) # {} => Cardinality(Of(c)) \in Ids
  <2>. SUFFICES ASSUME NEW c, Of(c) # {} PROVE Cardinality(Of(c)) \in Ids
    OBVIOUS
  <2>. DEFINE S == Of(c)
  <2>1. S \in SUBSET Ids
    BY <1>10
  <2>. HIDE DEF S
  <2>2. IsFiniteSet(Ids) /\ Cardinality(Ids) = MaxAlerts
    BY FS_Interval, JudgeAssumption DEF Ids
  <2>3. IsFiniteSet(S) /\ Cardinality(S) <= MaxAlerts
    BY <2>1, <2>2, FS_Subset
  <2>4. Cardinality(S) \in Nat /\ (S # {} => Cardinality(S) # 0)
    BY <2>3, FS_CardinalityType, FS_EmptySet
  <2>. QED
    BY <2>3, <2>4, JudgeAssumption DEF Ids, S
<1>12. \A k \in again : oldest(Of(Cond(k))) \in Ids
  <2>1. \A k \in again : Of(Cond(k)) # {}
    OBVIOUS
  <2>. QED
    BY <1>5, <1>10, <2>1
<1>13. \A c \in Conditions : Of(c) # {} => locks'[c] \in Lock
  BY <1>3, <1>5, <1>10, <1>11 DEF Lock
<1>. HIDE DEF Of
<1>14. TypeOK'
  <2>1. stage' \in [Ids -> {"none", "waiting"} \cup Owning]
    BY <1>1
  <2>2. lockOf' \in [Ids -> Ids \cup {0}]
    BY <1>2, <1>12
  <2>3. locks' \in [Conditions -> Lock \cup {NoLock}]
    BY <1>3, <1>13
  <2>4. crashes' \in 0..MaxCrashes
    BY <1>1, JudgeAssumption DEF Sound, TypeOK
  <2>5. offPage' \subseteq Ids
    BY DEF Boot, Sound, TypeOK
  <2>. QED
    BY <1>1, <2>1, <2>2, <2>3, <2>4, <2>5 DEF Sound, TypeOK
<1>15. AlertsNumbered'
  BY <1>1, <1>4, <1>6 DEF Sound, AlertsNumbered, Recorded
<1>16. LockShared'
  <2>1. ASSUME NEW k \in Active' PROVE lockOf'[k] = locks'[Cond(k)'].lock
    <3>1. k \in again /\ k \in Ids /\ Cond(k)' = Cond(k) /\ Cond(k) \in Conditions
      BY <1>4, <1>6, <1>7, <1>9
    <3>2. Of(Cond(k)) # {}
      BY <3>1 DEF Of
    <3>. QED
      BY <1>2, <1>3, <3>1, <3>2
  <2>2. ASSUME NEW c \in Conditions
        PROVE  \/ Holders(c)' = {} /\ locks'[c] = NoLock
               \/ Holders(c)' # {} /\ locks'[c] \in Lock
                  /\ locks'[c].holders = Cardinality(Holders(c)')
    BY <1>3, <1>8, <1>13
  <2>. QED
    BY <2>1, <2>2 DEF LockShared
<1>17. VerdictReady'
  BY <1>1 DEF VerdictReady
<1>. QED
  BY <1>14, <1>15, <1>16, <1>17 DEF Sound

\* Age(r) of a row that is kept does not change when rows are settled or purged.
LEMMA LedgerSound ==
  ASSUME Sound, ledger' \in [Rows -> Row \cup {NoRow}],
         \A r \in Recorded' : r \in Recorded /\ ledger'[r].alert = ledger[r].alert,
         UNCHANGED <<alert, nextId, intake, nextRow, memory, hist, bounds>>
  PROVE  Sound'
<1>1. TypeOK'
  BY DEF Sound, TypeOK, memory, hist, bounds
<1>2. AlertsNumbered'
  BY DEF Sound, AlertsNumbered, Active, memory, hist
<1>3. Active' = Active /\ \A j : Cond(j)' = Cond(j)
  BY DEF Active, Cond, memory
<1>4. \A c : Holders(c)' = Holders(c)
  BY <1>3 DEF Holders
<1>5. LockShared'
  BY <1>3, <1>4 DEF Sound, LockShared, memory
<1>6. VerdictReady'
  BY DEF Sound, VerdictReady, memory
<1>. QED
  BY <1>1, <1>2, <1>5, <1>6 DEF Sound

\* The clock changes nothing but ages.
LEMMA TickAlert ==
  ASSUME Sound, Tick, NEW k \in Ids
  PROVE  /\ alert'[k] = NoAlert <=> alert[k] = NoAlert
         /\ alert[k] \in Alert => /\ alert'[k] \in Alert
                                  /\ alert'[k].of = alert[k].of
                                  /\ alert'[k].recovery = alert[k].recovery
                                  /\ alert'[k].age >= alert[k].age
         /\ alert[k] = NoAlert => alert'[k] = NoAlert
<1>1. alert'[k] = IF alert[k] = NoAlert \/ alert[k].age = Past THEN alert[k]
                  ELSE [alert[k] EXCEPT !.age = alert[k].age + 1]
  BY DEF Tick
<1>2. CASE alert[k] = NoAlert
  BY <1>1, <1>2 DEF NoAlert, Alert
<1>3. CASE alert[k] # NoAlert
  <2>1. alert[k] \in Alert
    BY <1>3 DEF Sound, TypeOK
  <2>2. CASE alert[k].age = Past
    BY <1>1, <1>3, <2>1, <2>2, JudgeAssumption DEF Alert
  <2>3. CASE alert[k].age # Past
    <3>1. alert[k].age + 1 \in 0..Past
      BY <2>1, <2>3, JudgeAssumption DEF Alert
    <3>2. alert'[k] = [alert[k] EXCEPT !.age = alert[k].age + 1]
      BY <1>1, <1>3, <2>3
    <3>3. /\ alert'[k] \in Alert /\ alert'[k].of = alert[k].of
          /\ alert'[k].recovery = alert[k].recovery /\ alert'[k].age = alert[k].age + 1
      BY <2>1, <3>1, <3>2 DEF Alert
    <3>4. alert'[k] # NoAlert
      BY <3>3 DEF Alert, NoAlert
    <3>. QED
      BY <1>3, <2>1, <3>3, <3>4 DEF Alert
  <2>. QED
    BY <2>2, <2>3
<1>. QED
  BY <1>2, <1>3

\* Time makes alerts older and moves nothing.
LEMMA TickSound == ASSUME Sound, Tick PROVE Sound'
<1>1. /\ alert' = [k \in Ids |-> IF alert[k] = NoAlert \/ alert[k].age = Past THEN alert[k]
                                 ELSE [alert[k] EXCEPT !.age = @ + 1]]
      /\ UNCHANGED <<nextId, intake, ledger, nextRow, memory, hist, bounds>>
  BY DEF Tick
<1>2. \A k \in Ids : alert'[k] \in Alert \cup {NoAlert}
  BY TickAlert DEF Sound, TypeOK
<1>3. TypeOK'
  <2>1. alert' \in [Ids -> Alert \cup {NoAlert}]
    BY <1>1, <1>2
  <2>. QED
    BY <1>1, <2>1 DEF Sound, TypeOK, memory, hist, bounds
<1>4. AlertsNumbered'
  <2>1. /\ \A k \in Ids : k < nextId => alert'[k] \in Alert
        /\ \A k \in Ids : k >= nextId => alert'[k] = NoAlert
    BY TickAlert DEF Sound, AlertsNumbered
  <2>. QED
    BY <1>1, <2>1 DEF Sound, AlertsNumbered, Active, Recorded, memory, hist
<1>5. Active' = Active
  BY <1>1 DEF Active, memory
<1>6. \A k \in Active : Cond(k)' = Cond(k)
  BY TickAlert, TaskFacts DEF Cond
<1>7. \A c : Holders(c)' = Holders(c)
  BY <1>5, <1>6 DEF Holders
<1>8. LockShared'
  BY <1>1, <1>5, <1>6, <1>7 DEF Sound, LockShared, memory
<1>9. VerdictReady'
  BY <1>1 DEF Sound, VerdictReady, memory
<1>. QED
  BY <1>3, <1>4, <1>8, <1>9 DEF Sound

\* The stages a task goes through between its condition's lock and its record.
LEMMA AdvanceMoves ==
  ASSUME Sound, NEW k \in Ids,
         Enter(k) \/ Start(k) \/ ReadPrior(k) \/ ReadRule(k) \/ ReadBudget(k) \/ AskModel(k)
  PROVE  /\ k \in Active
         /\ \E s \in Owning \ {"drop"} :
              /\ stage' = [stage EXCEPT ![k] = s]
              /\ s = "record" => verdict'[k] \in Verdict
         /\ seen' \in [Ids -> Rows \cup {0}]
         /\ verdict' \in [Ids -> Verdict \cup {NoVerdict}]
         /\ \A j \in Ids \ {k} : verdict'[j] = verdict[j]
         /\ UNCHANGED <<disk, lockOf, locks, hist, bounds>>
<1>. USE DEF Owning, Judging
<1>0. /\ \A route \in Routes : Free(route) \in Verdict
      /\ seen \in [Ids -> Rows \cup {0}] /\ verdict \in [Ids -> Verdict \cup {NoVerdict}]
  BY DEF Sound, TypeOK, Free, Verdict
<1>1. ASSUME NEW v \in Verdict, Decide(k, v)
      PROVE  /\ stage' = [stage EXCEPT ![k] = "record"] /\ verdict'[k] \in Verdict
             /\ verdict' \in [Ids -> Verdict \cup {NoVerdict}]
             /\ \A j \in Ids \ {k} : verdict'[j] = verdict[j]
  BY <1>0, <1>1 DEF Decide
<1>2. CASE Enter(k)
  <2>1. /\ stage[k] = "waiting" /\ stage' = [stage EXCEPT ![k] = "owner"]
        /\ UNCHANGED <<disk, lockOf, locks, seen, verdict, hist, bounds>>
    BY <1>2 DEF Enter
  <2>2. k \in Active /\ "owner" \in Owning \ {"drop"} /\ "owner" # "record"
    BY <2>1 DEF Active
  <2>. QED
    BY <1>0, <2>1, <2>2
<1>3. CASE Start(k)
  <2>1. /\ stage[k] = "owner" /\ stage' = [stage EXCEPT ![k] = "prior"]
        /\ UNCHANGED <<disk, lockOf, locks, seen, verdict, hist, bounds>>
    BY <1>3 DEF Start
  <2>2. k \in Active /\ "prior" \in Owning \ {"drop"} /\ "prior" # "record"
    BY <2>1 DEF Active
  <2>. QED
    BY <1>0, <2>1, <2>2
<1>4. CASE ReadPrior(k)
  <2>1. Prior(k) = {} \/ (CHOOSE r \in Prior(k) : \A q \in Prior(k) : q <= r) \in Rows
    <3>1. Prior(k) \in SUBSET Rows
      BY DEF Prior, RowsOf, Recorded
    <3>2. Prior(k) # {} => \E r \in Prior(k) : \A q \in Prior(k) : q <= r
      BY <3>1, GreatestExists, JudgeAssumption DEF Rows
    <3>. QED
      BY <3>1, <3>2
  <2>2. /\ stage[k] = "prior"
        /\ seen' = [seen EXCEPT ![k] = IF Prior(k) = {} THEN 0
                                       ELSE CHOOSE r \in Prior(k) : \A q \in Prior(k) : q <= r]
        /\ \/ \E v \in Verdict : Decide(k, v)
           \/ AskNext(k, "rule")
        /\ UNCHANGED <<disk, lockOf, locks, hist, bounds>>
    BY <1>0, <1>4 DEF ReadPrior, Routes
  <2>3. seen' \in [Ids -> Rows \cup {0}]
    BY <1>0, <2>1, <2>2
  <2>. QED
    BY <1>0, <1>1, <2>2, <2>3 DEF AskNext, Active
<1>5. CASE ReadRule(k)
  <2>1. /\ stage[k] = "rule" /\ ((\E v \in Verdict : Decide(k, v)) \/ AskNext(k, "budget"))
        /\ UNCHANGED <<disk, lockOf, locks, seen, hist, bounds>>
    BY <1>0, <1>5 DEF ReadRule, Routes
  <2>. QED
    BY <1>0, <1>1, <2>1 DEF AskNext, Active
<1>6. CASE ReadBudget(k)
  <2>1. /\ stage[k] = "budget" /\ ((\E v \in Verdict : Decide(k, v)) \/ AskNext(k, "model"))
        /\ UNCHANGED <<disk, lockOf, locks, seen, hist, bounds>>
    BY <1>0, <1>6 DEF ReadBudget, Routes
  <2>. QED
    BY <1>0, <1>1, <2>1 DEF AskNext, Active
<1>7. CASE AskModel(k)
  <2>1. /\ stage[k] = "model" /\ \E v \in Verdict : Decide(k, v)
        /\ UNCHANGED <<disk, lockOf, locks, seen, hist, bounds>>
    BY <1>0, <1>7 DEF AskModel, Routes, Verdict
  <2>. QED
    BY <1>0, <1>1, <2>1 DEF Active
<1>. QED
  BY <1>2, <1>3, <1>4, <1>5, <1>6, <1>7

\* Every step of the judging preserves Sound.
LEMMA SoundStep == Sound /\ [Next]_vars => Sound'
<1>. SUFFICES ASSUME Sound, [Next]_vars PROVE Sound'
  OBVIOUS
<1>1. ASSUME NEW c \in Conditions, NEW isRecovery \in BOOLEAN, Accept(c, isRecovery)
      PROVE  Sound'
  BY <1>1, AcceptSound
<1>2. ASSUME NEW k \in Ids, Advance(k) PROVE Sound'
  <2>1. CASE Record(k)
    BY <2>1, RecordSound
  <2>2. CASE Drop(k)
    <3>1. k \in Active
      BY <2>2 DEF Drop, Active
    <3>2. /\ Leave(k) /\ intake' = intake \ {k} /\ errors' \in 0..MaxErrors
          /\ UNCHANGED <<alert, nextId, ledger, nextRow, hist, crashes>>
      BY <2>2 DEF Drop, bounds, Sound, TypeOK
    <3>. QED
      BY <3>1, <3>2, LeaveSound
  <2>3. CASE \/ Enter(k) \/ Start(k) \/ ReadPrior(k) \/ ReadRule(k) \/ ReadBudget(k)
             \/ AskModel(k)
    BY <2>3, AdvanceMoves, MoveSound
  <2>. QED
    BY <1>2, <2>1, <2>2, <2>3 DEF Advance
<1>3. ASSUME NEW k \in Ids, Fail(k) PROVE Sound'
  <2>1. k \in Active
    BY <1>3 DEF Fail, Active, Judging
  <2>2. /\ Leave(k) /\ intake' = intake /\ errors' \in 0..MaxErrors
        /\ UNCHANGED <<alert, nextId, ledger, nextRow, hist, crashes>>
    BY <1>3, JudgeAssumption DEF Fail, disk, Sound, TypeOK
  <2>. QED
    BY <2>1, <2>2, LeaveSound
<1>4. ASSUME NEW bad \in SUBSET intake, Boot(bad) PROVE Sound'
  BY <1>4, BootSound
<1>5. ASSUME NEW r \in Rows, Returned(r) PROVE Sound'
  <2>1. /\ ledger[r] \in Row /\ ledger' = [ledger EXCEPT ![r].owed = FALSE]
        /\ UNCHANGED <<alert, nextId, intake, nextRow, memory, hist, bounds>>
    BY <1>5 DEF Returned, Recorded, Sound, TypeOK
  <2>2. ledger' = [ledger EXCEPT ![r] = [ledger[r] EXCEPT !.owed = FALSE]]
    BY <2>1 DEF Sound, TypeOK
  <2>3. [ledger[r] EXCEPT !.owed = FALSE] \in Row /\ [ledger[r] EXCEPT !.owed = FALSE].alert = ledger[r].alert
    BY <2>1 DEF Row
  <2>4. /\ ledger' \in [Rows -> Row \cup {NoRow}]
        /\ \A q \in Recorded' : q \in Recorded /\ ledger'[q].alert = ledger[q].alert
    BY <1>5, <2>2, <2>3 DEF Returned, Recorded, Sound, TypeOK
  <2>. QED
    BY <2>1, <2>4, LedgerSound
<1>6. CASE Purge
  <2>1. /\ ledger' \in [Rows -> Row \cup {NoRow}]
        /\ \A q \in Recorded' : q \in Recorded /\ ledger'[q].alert = ledger[q].alert
        /\ UNCHANGED <<alert, nextId, intake, nextRow, memory, hist, bounds>>
    BY <1>6 DEF Purge, Recorded, Sound, TypeOK
  <2>. QED
    BY <2>1, LedgerSound
<1>7. CASE Tick
  BY <1>7, TickSound
<1>8. CASE UNCHANGED vars
  BY <1>8 DEF vars, disk, memory, hist, bounds, Sound, TypeOK, AlertsNumbered, LockShared,
              VerdictReady, Active, Recorded, Holders, Cond
<1>. QED
  BY <1>1, <1>2, <1>3, <1>4, <1>5, <1>6, <1>7, <1>8 DEF Next

\* Every variable keeps its type.
THEOREM TypeCorrect == Spec => []TypeOK
<1>1. Spec => []Sound
  BY SoundInit, SoundStep, PTL DEF Spec
<1>2. Sound => TypeOK
  BY DEF Sound
<1>. QED
  BY <1>1, <1>2, PTL

-----------------------------------------------------------------------------
(***************************************************************************)
(* No accepted alert is lost.                                              *)
(***************************************************************************)
\* An alert leaves the intake only with a row of the ledger or as a row the
\* replay could not read.
LEMMA NoAlertLostStep == Sound /\ NoAlertLost /\ [Next]_vars => NoAlertLost'
<1>. SUFFICES ASSUME Sound, NoAlertLost, [Next]_vars,
                     NEW k \in 1..(nextId' - 1)
              PROVE  k \in intake' \cup judged' \cup dropped'
  BY DEF NoAlertLost
<1>0. nextId \in Int /\ \A j \in 1..(nextId - 1) : j \in intake \cup judged \cup dropped
  BY DEF Sound, TypeOK, NoAlertLost
<1>1. ASSUME NEW c \in Conditions, NEW isRecovery \in BOOLEAN, Accept(c, isRecovery)
      PROVE  k \in intake' \cup judged' \cup dropped'
  <2>1. nextId' = nextId + 1 /\ intake' = intake \cup {nextId} /\ UNCHANGED hist
    BY <1>1 DEF Accept
  <2>2. k = nextId \/ k \in 1..(nextId - 1)
    BY <1>0, <2>1
  <2>. QED
    BY <1>0, <2>1, <2>2 DEF hist
<1>2. ASSUME NEW j \in Ids, Drop(j) PROVE k \in intake' \cup judged' \cup dropped'
  <2>1. j \in judged
    BY <1>2 DEF Drop, Sound, AlertsNumbered
  <2>. QED
    BY <1>0, <1>2, <2>1 DEF Drop, hist
<1>3. ASSUME NEW bad \in SUBSET intake, Boot(bad) PROVE k \in intake' \cup judged' \cup dropped'
  BY <1>0, <1>3 DEF Boot
<1>4. ASSUME NEW j \in Ids, Advance(j), ~Drop(j) PROVE k \in intake' \cup judged' \cup dropped'
  <2>1. CASE Record(j)
    BY <1>0, <2>1 DEF Record
  <2>2. CASE ~Record(j)
    BY <1>0, <1>4, <2>2, AdvanceMoves DEF Advance, disk, hist
  <2>. QED
    BY <2>1, <2>2
<1>5. CASE \/ \E j \in Ids : Fail(j)
           \/ \E r \in Rows : Returned(r)
           \/ Purge \/ Tick \/ UNCHANGED vars
  BY <1>0, <1>5 DEF Fail, Returned, Purge, Tick, vars, disk, hist
<1>. QED
  BY <1>1, <1>2, <1>3, <1>4, <1>5 DEF Next

\* An alert the judge accepted is judged, or still owed a judgement in the
\* intake table, or was unreadable at a boot: crashes and failures lose none.
THEOREM AlertsKept == Spec => []NoAlertLost
<1>1. Init => NoAlertLost
  BY DEF Init, NoAlertLost
<1>2. Spec => [](Sound /\ NoAlertLost)
  BY <1>1, SoundInit, SoundStep, NoAlertLostStep, PTL DEF Spec
<1>. QED
  BY <1>2, PTL

-----------------------------------------------------------------------------
(***************************************************************************)
(* One condition's tasks, one at a time and oldest first.                  *)
(***************************************************************************)
OldestOwns ==
    \A j, k \in Active :
        j # k /\ Cond(j) = Cond(k) /\ stage[k] \in Owning => stage[j] = "waiting" /\ k < j

\* An alert keeps its condition and its kind, and it only grows older.
LEMMA AlertsStay ==
  ASSUME Sound, [Next]_vars, NEW k \in Ids, k < nextId
  PROVE  /\ alert[k] \in Alert /\ alert'[k] \in Alert
         /\ Cond(k)' = Cond(k) /\ alert'[k].recovery = alert[k].recovery
         /\ alert'[k].age >= alert[k].age
<1>1. alert[k] \in Alert /\ nextId \in Int
  BY DEF Sound, TypeOK, AlertsNumbered
<1>2. ASSUME NEW c \in Conditions, NEW isRecovery \in BOOLEAN, Accept(c, isRecovery)
      PROVE  alert'[k] = alert[k]
  BY <1>1, <1>2 DEF Accept, Sound, TypeOK
<1>3. CASE Tick
  BY <1>1, <1>3, TickAlert DEF Cond
<1>4. ASSUME NEW j \in Ids, Advance(j) PROVE alert' = alert
  <2>1. CASE Record(j) \/ Drop(j)
    BY <2>1 DEF Record, Drop
  <2>2. CASE ~Record(j) /\ ~Drop(j)
    BY <1>4, <2>2, AdvanceMoves DEF Advance, disk
  <2>. QED
    BY <2>1, <2>2
<1>5. CASE \/ \E j \in Ids : Fail(j)
           \/ \E bad \in SUBSET intake : Boot(bad)
           \/ \E r \in Rows : Returned(r)
           \/ Purge \/ UNCHANGED vars
  <2>1. alert' = alert
    BY <1>5 DEF Fail, Boot, Returned, Purge, vars, disk
  <2>. QED
    BY <1>1, <2>1 DEF Cond, Alert
<1>6. CASE alert'[k] = alert[k]
  BY <1>1, <1>6 DEF Cond, Alert
<1>. QED
  BY <1>2, <1>3, <1>4, <1>5, <1>6 DEF Next

\* Fewer tasks, each waiting or owning as before, are still one at a time.
LEMMA OwnersKept ==
  ASSUME Sound, OldestOwns, [Next]_vars, Active' \subseteq Active,
         \A k \in Active' : \/ stage'[k] = stage[k]
                            \/ stage'[k] \in Owning /\ stage[k] \in Owning
  PROVE  OldestOwns'
<1>. SUFFICES ASSUME NEW j \in Active', NEW k \in Active',
                     j # k, Cond(j)' = Cond(k)', stage'[k] \in Owning
              PROVE  stage'[j] = "waiting" /\ k < j
  BY DEF OldestOwns
<1>1. Cond(j) = Cond(k) /\ j \in Active /\ k \in Active
  BY AlertsStay, TaskFacts
<1>2. stage[k] \in Owning
  OBVIOUS
<1>3. stage[j] = "waiting" /\ k < j
  BY <1>1, <1>2 DEF OldestOwns
<1>. QED
  BY <1>3 DEF Owning, Judging

\* No step lets a second task of a condition into the judging.
LEMMA OldestOwnsStep == Sound /\ OldestOwns /\ [Next]_vars => OldestOwns'
<1>. SUFFICES ASSUME Sound, OldestOwns, [Next]_vars PROVE OldestOwns'
  OBVIOUS
<1>0. stage \in [Ids -> {"none", "waiting"} \cup Owning]
  BY DEF Sound, TypeOK
<1>1. ASSUME NEW c \in Conditions, NEW isRecovery \in BOOLEAN, Accept(c, isRecovery)
      PROVE  OldestOwns'
  <2>1. PICK n \in Ids : n = nextId /\ stage' = [stage EXCEPT ![n] = "waiting"]
    BY <1>1 DEF Accept
  <2>. SUFFICES ASSUME NEW j \in Active', NEW k \in Active',
                       j # k, Cond(j)' = Cond(k)', stage'[k] \in Owning
                PROVE  stage'[j] = "waiting" /\ k < j
    BY DEF OldestOwns
  <2>2. k # n /\ k \in Active /\ stage[k] \in Owning /\ k < n
    <3>1. k # n /\ k \in Active /\ stage[k] \in Owning
      BY <1>0, <2>1 DEF Active, Owning, Judging
    <3>. QED
      BY <2>1, <3>1, TaskFacts
  <2>3. CASE j = n
    BY <1>0, <2>1, <2>2, <2>3
  <2>4. CASE j # n
    <3>1. j \in Active /\ stage'[j] = stage[j]
      BY <1>0, <2>1, <2>4 DEF Active
    <3>2. Cond(j) = Cond(k)
      BY <2>2, <3>1, AlertsStay, TaskFacts
    <3>. QED
      BY <2>2, <3>1, <3>2 DEF OldestOwns
  <2>. QED
    BY <2>3, <2>4
<1>2. ASSUME NEW n \in Ids, Enter(n) PROVE OldestOwns'
  <2>1. /\ n \in Active /\ stage' = [stage EXCEPT ![n] = "owner"]
        /\ \A j \in Active \ {n} : lockOf[j] = lockOf[n] => stage[j] = "waiting" /\ n < j
    BY <1>2 DEF Enter, Active
  <2>2. Active' = Active
    BY <1>0, <2>1 DEF Active
  <2>3. \A j \in Active \ {n} : Cond(j) = Cond(n) => stage[j] = "waiting" /\ n < j
    BY <2>1, TaskFacts
  <2>. SUFFICES ASSUME NEW j \in Active', NEW k \in Active',
                       j # k, Cond(j)' = Cond(k)', stage'[k] \in Owning
                PROVE  stage'[j] = "waiting" /\ k < j
    BY DEF OldestOwns
  <2>4. j \in Active /\ k \in Active /\ Cond(j) = Cond(k)
    BY <2>2, AlertsStay, TaskFacts
  <2>5. CASE k = n
    BY <1>0, <2>1, <2>3, <2>4, <2>5 DEF Active
  <2>6. CASE k # n
    <3>1. stage[k] \in Owning
      BY <1>0, <2>1, <2>4, <2>6 DEF Active
    <3>2. stage[j] = "waiting" /\ k < j
      BY <2>4, <3>1 DEF OldestOwns
    <3>3. j # n
      BY <2>3, <2>4, <2>6, <3>1 DEF Owning, Judging
    <3>. QED
      BY <1>0, <2>1, <2>4, <3>2, <3>3 DEF Active
  <2>. QED
    BY <2>5, <2>6
<1>3. ASSUME NEW n \in Ids, Advance(n), ~Enter(n) PROVE OldestOwns'
  <2>1. CASE Drop(n)
    <3>1. stage' = [stage EXCEPT ![n] = "none"]
      BY <2>1 DEF Drop, Leave
    <3>. QED
      BY <1>0, <3>1, OwnersKept DEF Active
  <2>2. CASE ~Drop(n)
    <3>1. stage[n] \in Owning /\ \E s \in Owning : stage' = [stage EXCEPT ![n] = s]
      <4>1. CASE Record(n)
        BY <4>1 DEF Record, Owning, Judging
      <4>2. CASE ~Record(n)
        <5>1. \E s \in Owning : stage' = [stage EXCEPT ![n] = s]
          BY <1>3, <2>2, <4>2, AdvanceMoves DEF Advance
        <5>2. stage[n] \in Owning
          BY <1>3, <2>2, <4>2 DEF Advance, Start, ReadPrior, ReadRule, ReadBudget, AskModel, Owning, Judging
        <5>. QED
          BY <5>1, <5>2
      <4>. QED
        BY <4>1, <4>2
    <3>2. /\ Active' \subseteq Active
          /\ \A k \in Active' : \/ stage'[k] = stage[k]
                                \/ stage'[k] \in Owning /\ stage[k] \in Owning
      BY <1>0, <3>1 DEF Active, Owning, Judging
    <3>. QED
      BY <3>2, OwnersKept
  <2>. QED
    BY <2>1, <2>2
<1>4. ASSUME NEW n \in Ids, Fail(n) PROVE OldestOwns'
  <2>1. stage' = [stage EXCEPT ![n] = "none"]
    BY <1>4 DEF Fail, Leave
  <2>. QED
    BY <1>0, <2>1, OwnersKept DEF Active
<1>5. ASSUME NEW bad \in SUBSET intake, Boot(bad) PROVE OldestOwns'
  <2>1. \A k \in Ids : stage'[k] \in {"none", "waiting"}
    BY <1>5 DEF Boot
  <2>. QED
    BY <2>1 DEF OldestOwns, Active, Owning, Judging
<1>6. CASE \/ \E r \in Rows : Returned(r)
           \/ Purge \/ Tick \/ UNCHANGED vars
  <2>1. stage' = stage
    BY <1>6 DEF Returned, Purge, Tick, vars, memory
  <2>. QED
    BY <2>1, OwnersKept DEF Active
<1>. QED
  BY <1>1, <1>2, <1>3, <1>4, <1>5, <1>6 DEF Next

\* The alerts of one condition are judged one at a time, the oldest task first.
THEOREM OneAtATime == Spec => []OldestOwns
<1>1. Init => OldestOwns
  BY DEF Init, OldestOwns, Active
<1>2. Spec => [](Sound /\ OldestOwns)
  BY <1>1, SoundInit, SoundStep, OldestOwnsStep, PTL DEF Spec
<1>. QED
  BY <1>2, PTL

-----------------------------------------------------------------------------
(***************************************************************************)
(* A condition is paid for once per reuse window.                          *)
(***************************************************************************)
\* The tasks on their way to a paid verdict.
Asks(k) == stage[k] \in {"rule", "budget", "model"}
              \/ (stage[k] = "record" /\ verdict[k].route = "ai")

\* A task that still may pay found no verdict of its condition in the window,
\* and none has entered it since.
AsksOutside ==
    \A k \in Active : Asks(k) =>
        \A r \in RowsOf(Cond(k)) : ledger[r].route = "ai" => Age(r) > ReuseWindow

\* The window counted by the rows, and by the tasks about to ask.
Paid == PaidOncePerWindow /\ AsksOutside

\* What is true of a row of the ledger.
LEMMA RowFacts ==
  ASSUME Sound, NEW r \in Recorded
  PROVE  /\ r \in Rows /\ r < nextRow /\ ledger[r] \in Row
         /\ ledger[r].alert \in Ids /\ ledger[r].alert < nextId
         /\ alert[ledger[r].alert] \in Alert /\ Age(r) \in Int
<1>1. r \in Rows /\ r < nextRow /\ ledger[r] \in Row /\ ledger[r].alert \in judged
  BY DEF Sound, TypeOK, AlertsNumbered, Recorded
<1>2. ledger[r].alert \in Ids /\ ledger[r].alert < nextId /\ alert[ledger[r].alert] \in Alert
  BY <1>1 DEF Sound, TypeOK, AlertsNumbered
<1>. QED
  BY <1>1, <1>2 DEF Age, Alert

\* A row that stays keeps its condition and is never younger.
LEMMA RowsAge ==
  ASSUME Sound, [Next]_vars, NEW r \in Recorded, ledger'[r].alert = ledger[r].alert
  PROVE  /\ Cond(ledger[r].alert)' = Cond(ledger[r].alert)
         /\ Age(r)' >= Age(r) /\ Age(r)' \in Int /\ Age(r) \in Int
<1>. DEFINE k == ledger[r].alert
<1>1. /\ k \in Ids /\ k < nextId
  BY RowFacts
<1>2. /\ alert[k] \in Alert /\ alert'[k] \in Alert
      /\ alert'[k].of = alert[k].of /\ alert'[k].age >= alert[k].age
  BY <1>1, AlertsStay DEF Cond
<1>. QED
  BY <1>2 DEF Cond, Age, Alert

\* A step that records nothing and sends no task to pay.
LEMMA PaidKept ==
  ASSUME Sound, Paid, [Next]_vars,
         \A r \in Recorded' : /\ r \in Recorded /\ ledger'[r].alert = ledger[r].alert
                              /\ ledger'[r].route = ledger[r].route,
         \A k \in Active' : Asks(k)' => k \in Active /\ Asks(k)
  PROVE  Paid'
<1>1. \A r \in Recorded' : /\ r \in Recorded /\ Cond(ledger[r].alert)' = Cond(ledger[r].alert)
                           /\ Age(r)' >= Age(r) /\ Age(r)' \in Int /\ Age(r) \in Int
  BY RowsAge
<1>2. PaidOncePerWindow'
  <2>. SUFFICES ASSUME NEW r \in Recorded', NEW s \in Recorded', r < s,
                       Cond(ledger[r].alert)' = Cond(ledger[s].alert)',
                       ledger'[r].route = "ai", ledger'[s].route = "ai"
                PROVE  Age(r)' > ReuseWindow
    BY DEF PaidOncePerWindow
  <2>1. Age(r) > ReuseWindow
    BY <1>1 DEF Paid, PaidOncePerWindow
  <2>. QED
    BY <1>1, <2>1, JudgeAssumption
<1>3. AsksOutside'
  <2>. SUFFICES ASSUME NEW k \in Active', Asks(k)', NEW r \in Recorded',
                       Cond(ledger[r].alert)' = Cond(k)', ledger'[r].route = "ai"
                PROVE  Age(r)' > ReuseWindow
    BY DEF AsksOutside, RowsOf
  <2>1. k \in Active /\ Asks(k) /\ Cond(k)' = Cond(k)
    BY TaskFacts, AlertsStay
  <2>2. r \in RowsOf(Cond(k)) /\ ledger[r].route = "ai"
    BY <1>1, <2>1 DEF RowsOf
  <2>3. Age(r) > ReuseWindow
    BY <2>1, <2>2 DEF Paid, AsksOutside
  <2>. QED
    BY <1>1, <2>3, JudgeAssumption
<1>. QED
  BY <1>2, <1>3 DEF Paid

\* No step records, or sets out for, a second paid judgement of a condition
\* within the window.
LEMMA PaidStep == Sound /\ OldestOwns /\ Paid /\ [Next]_vars => Paid'
<1>. SUFFICES ASSUME Sound, OldestOwns, Paid, [Next]_vars PROVE Paid'
  OBVIOUS
<1>0. /\ stage \in [Ids -> {"none", "waiting"} \cup Owning]
      /\ verdict \in [Ids -> Verdict \cup {NoVerdict}]
      /\ ledger \in [Rows -> Row \cup {NoRow}]
  BY DEF Sound, TypeOK
<1>. DEFINE SameRows == \A r \in Recorded' : /\ r \in Recorded /\ ledger'[r].alert = ledger[r].alert
                                             /\ ledger'[r].route = ledger[r].route
            NoNewAsk == \A k \in Active' : Asks(k)' => k \in Active /\ Asks(k)
<1>1. ASSUME NEW c \in Conditions, NEW isRecovery \in BOOLEAN, Accept(c, isRecovery)
      PROVE  Paid'
  <2>1. SameRows
    BY <1>1 DEF Accept, Recorded
  <2>2. PICK n \in Ids : /\ stage' = [stage EXCEPT ![n] = "waiting"] /\ verdict' = verdict
    BY <1>1 DEF Accept
  <2>3. NoNewAsk
    BY <1>0, <2>2 DEF Active, Asks
  <2>. QED
    BY <2>1, <2>3, PaidKept
<1>2. ASSUME NEW n \in Ids, ReadPrior(n) PROVE Paid'
  <2>1. /\ stage[n] = "prior" /\ ledger' = ledger /\ alert' = alert
        /\ \/ \E v \in Verdict : Decide(n, v) /\ v.route # "ai"
           \/ Prior(n) = {} /\ ~alert[n].recovery /\ AskNext(n, "rule")
    <3>1. Free("recovery") \in Verdict /\ Free("reuse") \in Verdict /\ Free("rule") \in Verdict
      BY DEF Free, Verdict, Routes
    <3>2. Free("recovery").route # "ai" /\ Free("reuse").route # "ai" /\ Free("rule").route # "ai"
      BY DEF Free
    <3>. QED
      BY <1>2, <3>1, <3>2 DEF ReadPrior, disk
  <2>2. SameRows
    BY <2>1 DEF Recorded
  <2>3. CASE \E v \in Verdict : Decide(n, v) /\ v.route # "ai"
    <3>1. NoNewAsk
      BY <1>0, <2>1, <2>3 DEF Decide, Active, Asks
    <3>. QED
      BY <2>2, <3>1, PaidKept
  <2>4. CASE Prior(n) = {} /\ ~alert[n].recovery /\ AskNext(n, "rule")
    <3>1. stage' = [stage EXCEPT ![n] = "rule"] /\ verdict' = verdict
      BY <2>4 DEF AskNext
    <3>2. \A k \in Active' : Asks(k)' => k = n \/ (k \in Active /\ Asks(k))
      BY <1>0, <3>1 DEF Active, Asks
    <3>3. \A r \in RowsOf(Cond(n)) : ledger[r].route = "ai" => Age(r) > ReuseWindow
      <4>1. ASSUME NEW r \in RowsOf(Cond(n)), ledger[r].route = "ai" PROVE Age(r) > ReuseWindow
        <5>1. Age(r) \in Int
          BY RowFacts DEF RowsOf
        <5>2. ~(Age(r) <= ReuseWindow)
          BY <2>4, <4>1 DEF Prior
        <5>. QED
          BY <5>1, <5>2, JudgeAssumption
      <4>. QED
        BY <4>1
    <3>4. PaidOncePerWindow'
      BY <2>1 DEF Paid, PaidOncePerWindow, Recorded, Cond, Age
    <3>5. AsksOutside'
      <4>. SUFFICES ASSUME NEW k \in Active', Asks(k)', NEW r \in RowsOf(Cond(k)),
                           ledger[r].route = "ai"
                    PROVE  Age(r) > ReuseWindow
        BY <2>1 DEF AsksOutside, RowsOf, Recorded, Cond, Age
      <4>. QED
        BY <3>2, <3>3 DEF Paid, AsksOutside
    <3>. QED
      BY <3>4, <3>5 DEF Paid
  <2>. QED
    BY <2>1, <2>3, <2>4
<1>3. ASSUME NEW n \in Ids, Record(n) PROVE Paid'
  <2>1. PICK w \in Rows :
          /\ w = nextRow /\ stage[n] = "record"
          /\ ledger' = [ledger EXCEPT ![w] = [alert |-> n, route |-> verdict[n].route,
                                              billed |-> verdict[n].billed, owed |-> TRUE]]
          /\ stage' = [stage EXCEPT ![n] = "drop"] /\ alert' = alert /\ verdict' = verdict
    BY <1>3 DEF Record
  <2>2. /\ n \in Active /\ ledger'[w].alert = n /\ ledger'[w].route = verdict[n].route
        /\ \A r \in Rows \ {w} : ledger'[r] = ledger[r]
    BY <1>0, <2>1 DEF Active
  <2>3. \A r \in Recorded' : r = w \/ (r \in Recorded /\ r < w /\ ledger'[r] = ledger[r])
    BY <2>1, <2>2, RowFacts DEF Recorded
  <2>4. \A r : Age(r)' = alert[ledger'[r].alert].age /\ \A k : Cond(k)' = Cond(k)
    BY <2>1 DEF Age, Cond
  <2>5. PaidOncePerWindow'
    <3>. SUFFICES ASSUME NEW r \in Recorded', NEW s \in Recorded', r < s,
                         Cond(ledger'[r].alert) = Cond(ledger'[s].alert),
                         ledger'[r].route = "ai", ledger'[s].route = "ai"
                  PROVE  Age(r)' > ReuseWindow
      BY <2>4 DEF PaidOncePerWindow
    <3>1. r # w
      <4>1. s = w \/ s < w
        BY <2>3
      <4>. QED
        BY <2>1, <4>1 DEF Rows, Recorded
    <3>2. r \in Recorded /\ ledger'[r] = ledger[r] /\ Age(r)' = Age(r)
      BY <2>3, <2>4, <3>1 DEF Age
    <3>3. CASE s = w
      <4>1. Asks(n) /\ r \in RowsOf(Cond(n)) /\ ledger[r].route = "ai"
        BY <2>1, <2>2, <3>2, <3>3 DEF Asks, RowsOf
      <4>. QED
        BY <2>2, <3>2, <4>1 DEF Paid, AsksOutside
    <3>4. CASE s # w
      <4>1. s \in Recorded /\ ledger'[s] = ledger[s]
        BY <2>3, <3>4
      <4>. QED
        BY <3>2, <4>1 DEF Paid, PaidOncePerWindow
    <3>. QED
      BY <3>3, <3>4
  <2>6. AsksOutside'
    <3>. SUFFICES ASSUME NEW k \in Active', Asks(k)', NEW r \in Recorded',
                         Cond(ledger'[r].alert) = Cond(k), ledger'[r].route = "ai"
                  PROVE  Age(r)' > ReuseWindow
      BY <2>4 DEF AsksOutside, RowsOf
    <3>1. k # n /\ k \in Active /\ Asks(k) /\ stage[k] # "waiting"
      BY <1>0, <2>1 DEF Active, Asks
    <3>2. r # w
      <4>1. stage[n] \in Owning
        BY <2>1 DEF Owning, Judging
      <4>2. Cond(k) # Cond(n)
        BY <2>2, <3>1, <4>1 DEF OldestOwns
      <4>. QED
        BY <2>2, <4>2
    <3>3. r \in Recorded /\ ledger'[r] = ledger[r] /\ Age(r)' = Age(r)
      BY <2>3, <2>4, <3>2 DEF Age
    <3>4. r \in RowsOf(Cond(k))
      BY <3>3 DEF RowsOf
    <3>. QED
      BY <3>1, <3>3, <3>4 DEF Paid, AsksOutside
  <2>. QED
    BY <2>5, <2>6 DEF Paid
<1>4. ASSUME NEW n \in Ids, Enter(n) \/ Start(n) \/ ReadRule(n) \/ ReadBudget(n) \/ AskModel(n)
      PROVE  Paid'
  <2>1. SameRows
    BY <1>4 DEF Enter, Start, ReadRule, ReadBudget, AskModel, Recorded, disk
  <2>2. NoNewAsk
    BY <1>0, <1>4 DEF Enter, Start, ReadRule, ReadBudget, AskModel, Decide, AskNext, Free, Active, Asks
  <2>. QED
    BY <2>1, <2>2, PaidKept
<1>5. ASSUME NEW n \in Ids, Drop(n) \/ Fail(n) PROVE Paid'
  <2>1. /\ stage' = [stage EXCEPT ![n] = "none"] /\ verdict' = [verdict EXCEPT ![n] = NoVerdict]
        /\ ledger' = ledger
    BY <1>5 DEF Drop, Fail, Leave, disk
  <2>2. SameRows /\ NoNewAsk
    BY <1>0, <2>1 DEF Active, Asks, Recorded
  <2>. QED
    BY <2>2, PaidKept
<1>6. ASSUME NEW bad \in SUBSET intake, Boot(bad) PROVE Paid'
  <2>1. ledger' = ledger /\ \A k \in Ids : stage'[k] \in {"none", "waiting"}
    BY <1>6 DEF Boot
  <2>2. SameRows /\ NoNewAsk
    BY <2>1 DEF Active, Asks, Recorded
  <2>. QED
    BY <2>2, PaidKept
<1>7. ASSUME NEW r \in Rows, Returned(r) PROVE Paid'
  <2>1. /\ ledger[r] \in Row /\ ledger' = [ledger EXCEPT ![r].owed = FALSE]
        /\ r \in Recorded /\ stage' = stage /\ verdict' = verdict
    BY <1>0, <1>7 DEF Returned, Recorded, memory
  <2>2. SameRows
    BY <1>0, <2>1 DEF Recorded, Row
  <2>3. NoNewAsk
    BY <2>1 DEF Active, Asks
  <2>. QED
    BY <2>2, <2>3, PaidKept
<1>8. CASE Purge \/ Tick \/ UNCHANGED vars
  <2>1. SameRows
    BY <1>0, <1>8 DEF Purge, Tick, vars, disk, Recorded
  <2>2. NoNewAsk
    BY <1>8 DEF Purge, Tick, vars, memory, Active, Asks
  <2>. QED
    BY <2>1, <2>2, PaidKept
<1>. QED
  BY <1>1, <1>2, <1>3, <1>4, <1>5, <1>6, <1>7, <1>8 DEF Next, Advance

\* A condition is asked of the model once per reuse window, whatever the
\* interleaving of its judgements, their failures and the restarts.
THEOREM PaidOnce == Spec => []PaidOncePerWindow
<1>1. Init => Paid
  BY DEF Init, Paid, PaidOncePerWindow, AsksOutside, Recorded, Active
<1>2. Init => OldestOwns
  BY DEF Init, OldestOwns, Active
<1>3. Spec => [](Sound /\ OldestOwns /\ Paid)
  BY <1>1, <1>2, SoundInit, SoundStep, OldestOwnsStep, PaidStep, PTL DEF Spec
<1>4. Paid => PaidOncePerWindow
  BY DEF Paid
<1>. QED
  BY <1>3, <1>4, PTL

-----------------------------------------------------------------------------
(***************************************************************************)
(* Without a failed judgement, a condition's alerts are judged in the      *)
(* order they came, but for those a boot left off its page.                *)
(***************************************************************************)
\* While nothing failed, every row of the intake has its task or was left off a
\* page, and what was judged of a condition is not younger than what still waits,
\* if that never was.
InOrder ==
    errors = 0 =>
        /\ intake \subseteq Active \cup offPage
        /\ \A r \in Recorded, k \in Active \ offPage :
             Cond(ledger[r].alert) = Cond(k) => ledger[r].alert <= k

\* The order among the rows, and between the rows and the tasks.
Ordered == InOrder /\ ArrivalOrder

\* A step that records nothing and makes no task, and leaves no row without one.
LEMMA OrderKept ==
  ASSUME Sound, Ordered, [Next]_vars,
         errors' = 0 => errors = 0 /\ intake' \subseteq Active' \cup offPage', offPage \subseteq offPage',
         Active' \ offPage' \subseteq Active,
         \A r \in Recorded' : r \in Recorded /\ ledger'[r].alert = ledger[r].alert
  PROVE  Ordered'
<1>. SUFFICES ASSUME errors' = 0 PROVE Ordered'
  BY DEF Ordered, InOrder, ArrivalOrder
<1>0. /\ \A r \in Recorded, k \in Active \ offPage : Cond(ledger[r].alert) = Cond(k) => ledger[r].alert <= k
      /\ \A r, s \in Recorded : /\ r < s /\ Cond(ledger[r].alert) = Cond(ledger[s].alert)
                                 /\ ledger[s].alert \notin offPage
                                 => ledger[r].alert <= ledger[s].alert
  BY DEF Ordered, InOrder, ArrivalOrder
<1>1. \A r \in Recorded' : r \in Recorded /\ Cond(ledger[r].alert)' = Cond(ledger[r].alert)
                           /\ ledger'[r].alert = ledger[r].alert
  BY RowsAge
<1>2. \A k \in Active' \ offPage' : Cond(k)' = Cond(k) /\ k \in Active \ offPage
  BY AlertsStay, TaskFacts
<1>3. InOrder'
  <2>1. ASSUME NEW r \in Recorded', NEW k \in Active' \ offPage', Cond(ledger[r].alert)' = Cond(k)'
        PROVE  ledger'[r].alert <= k
    BY <1>0, <1>1, <1>2, <2>1
  <2>. QED
    BY <2>1 DEF InOrder
<1>4. ArrivalOrder'
  <2>1. ASSUME NEW r \in Recorded', NEW s \in Recorded', r < s,
               Cond(ledger[r].alert)' = Cond(ledger[s].alert)', ledger'[s].alert \notin offPage'
        PROVE  ledger'[r].alert <= ledger'[s].alert
    BY <1>0, <1>1, <2>1
  <2>. QED
    BY <2>1 DEF ArrivalOrder
<1>. QED
  BY <1>3, <1>4 DEF Ordered

\* A row is on the page or behind its end.
LEMMA PageEnds ==
  ASSUME Sound
  PROVE  {k \in intake : Cardinality({j \in intake : j <= k}) > BootLimit}
           = {k \in intake : ~(k \in FirstRows(BootLimit))}
<1>1. ASSUME NEW k \in intake PROVE Cardinality({j \in intake : j <= k}) \in Int
  <2>. DEFINE S == {j \in intake : j <= k}
  <2>1. S \in SUBSET Ids
    BY DEF Sound, TypeOK
  <2>2. IsFiniteSet(Ids)
    BY FS_Interval, JudgeAssumption DEF Ids
  <2>. HIDE DEF S
  <2>3. Cardinality(S) \in Int
    BY <2>1, <2>2, FS_Subset, FS_CardinalityType
  <2>. QED
    BY <2>3 DEF S
<1>2. ASSUME NEW k \in intake
      PROVE  Cardinality({j \in intake : j <= k}) > BootLimit <=> ~(k \in FirstRows(BootLimit))
  <2>1. k \in FirstRows(BootLimit) <=> Cardinality({j \in intake : j <= k}) <= BootLimit
    BY DEF FirstRows
  <2>2. PICK m \in Int : m = Cardinality({j \in intake : j <= k})
    BY <1>1
  <2>. QED
    BY <2>1, <2>2, JudgeAssumption
<1>. QED
  BY <1>2

\* Every step keeps the order.
LEMMA OrderStep == Sound /\ OldestOwns /\ Ordered /\ [Next]_vars => Ordered'
<1>. SUFFICES ASSUME Sound, OldestOwns, Ordered, [Next]_vars PROVE Ordered'
  OBVIOUS
<1>0. /\ stage \in [Ids -> {"none", "waiting"} \cup Owning]
      /\ ledger \in [Rows -> Row \cup {NoRow}]
      /\ intake \subseteq Ids /\ errors \in Nat
      /\ errors = 0 => intake \subseteq Active \cup offPage
  BY DEF Sound, TypeOK, Ordered, InOrder
<1>. DEFINE SameRows == \A r \in Recorded' : r \in Recorded /\ ledger'[r].alert = ledger[r].alert
            AllTasked == /\ errors' = 0 => errors = 0 /\ intake' \subseteq Active' \cup offPage'
                         /\ offPage \subseteq offPage'
<1>1. ASSUME NEW c \in Conditions, NEW isRecovery \in BOOLEAN, Accept(c, isRecovery)
      PROVE  Ordered'
  <2>1. PICK n \in Ids : /\ n = nextId /\ stage' = [stage EXCEPT ![n] = "waiting"]
                         /\ intake' = intake \cup {n} /\ ledger' = ledger /\ errors' = errors
                         /\ offPage' = offPage
    BY <1>1 DEF Accept, bounds, hist
  <2>2. Recorded' = Recorded /\ Active' = Active \cup {n}
    BY <1>0, <2>1 DEF Recorded, Active
  <2>3. \A r \in Recorded : Cond(ledger[r].alert)' = Cond(ledger[r].alert) /\ ledger[r].alert < n
    BY <2>1, RowsAge, RowFacts
  <2>4. \A k \in Active : Cond(k)' = Cond(k)
    BY AlertsStay, TaskFacts
  <2>5. n \in Int /\ \A r \in Recorded : ledger[r].alert \in Int
    BY RowFacts DEF Ids
  <2>6. InOrder'
    <3>. SUFFICES ASSUME errors' = 0
                  PROVE  /\ intake' \subseteq Active' \cup offPage'
                         /\ \A r \in Recorded', k \in Active' \ offPage' :
                              Cond(ledger[r].alert)' = Cond(k)' => ledger'[r].alert <= k
      BY DEF InOrder
    <3>1. intake' \subseteq Active' \cup offPage'
      BY <1>0, <2>1, <2>2
    <3>2. ASSUME NEW r \in Recorded', NEW k \in Active' \ offPage', Cond(ledger[r].alert)' = Cond(k)'
          PROVE  ledger'[r].alert <= k
      <4>1. CASE k = n
        BY <2>1, <2>2, <2>3, <2>5, <4>1
      <4>2. CASE k # n
        BY <2>1, <2>2, <2>3, <2>4, <3>2, <4>2 DEF Ordered, InOrder
      <4>. QED
        BY <4>1, <4>2
    <3>. QED
      BY <3>1, <3>2
  <2>7. ArrivalOrder'
    <3>1. ASSUME errors' = 0, NEW r \in Recorded', NEW s \in Recorded', r < s,
                 Cond(ledger[r].alert)' = Cond(ledger[s].alert)', ledger'[s].alert \notin offPage'
          PROVE  ledger'[r].alert <= ledger'[s].alert
      BY <2>1, <2>2, <2>3, <3>1 DEF Ordered, ArrivalOrder
    <3>. QED
      BY <3>1 DEF ArrivalOrder
  <2>. QED
    BY <2>6, <2>7 DEF Ordered
<1>2. ASSUME NEW n \in Ids, Record(n) PROVE Ordered'
  <2>1. PICK w \in Rows :
          /\ w = nextRow /\ stage[n] = "record" /\ nextRow' = w + 1
          /\ ledger' = [ledger EXCEPT ![w] = [alert |-> n, route |-> verdict[n].route,
                                              billed |-> verdict[n].billed, owed |-> TRUE]]
          /\ stage' = [stage EXCEPT ![n] = "drop"] /\ alert' = alert /\ intake' = intake
          /\ errors' = errors /\ offPage' = offPage
    BY <1>2 DEF Record, bounds
  <2>2. /\ n \in Active /\ Active' = Active /\ ledger'[w].alert = n
        /\ \A r \in Recorded' : r = w \/ (r \in Recorded /\ r < w /\ ledger'[r] = ledger[r])
    <3>1. n \in Active /\ Active' = Active /\ ledger'[w].alert = n
      BY <1>0, <2>1 DEF Active
    <3>2. \A r \in Recorded' : r = w \/ (r \in Recorded /\ r < w /\ ledger'[r] = ledger[r])
      BY <1>0, <2>1, RowFacts DEF Recorded
    <3>. QED
      BY <3>1, <3>2
  <2>3. \A k : Cond(k)' = Cond(k)
    BY <2>1 DEF Cond
  <2>4. \A k \in Active : Cond(k) = Cond(n) => n <= k
    <3>1. stage[n] \in Owning
      BY <2>1 DEF Owning, Judging
    <3>2. \A k \in Active : k \in Int
      BY DEF Active, Ids
    <3>. QED
      BY <2>2, <3>1, <3>2 DEF OldestOwns
  <2>5. InOrder'
    <3>1. ASSUME errors' = 0, NEW r \in Recorded', NEW k \in Active' \ offPage',
                 Cond(ledger'[r].alert) = Cond(k)
          PROVE  ledger'[r].alert <= k
      <4>1. CASE r = w
        BY <2>2, <2>4, <3>1, <4>1
      <4>2. CASE r # w
        BY <2>1, <2>2, <3>1, <4>2 DEF Ordered, InOrder
      <4>. QED
        BY <4>1, <4>2
    <3>2. errors' = 0 => intake' \subseteq Active' \cup offPage'
      BY <1>0, <2>1, <2>2
    <3>. QED
      BY <2>1, <3>1, <3>2 DEF InOrder, Cond
  <2>6. ArrivalOrder'
    <3>1. ASSUME errors' = 0, NEW r \in Recorded', NEW s \in Recorded', r < s,
                 Cond(ledger'[r].alert) = Cond(ledger'[s].alert), ledger'[s].alert \notin offPage'
          PROVE  ledger'[r].alert <= ledger'[s].alert
      <4>1. r # w /\ r \in Recorded /\ ledger'[r] = ledger[r]
        <5>1. s = w \/ s < w
          BY <2>2
        <5>2. r # w
          BY <2>1, <3>1, <5>1 DEF Rows, Recorded
        <5>. QED
          BY <2>2, <5>2
      <4>2. CASE s = w
        BY <2>1, <2>2, <3>1, <4>1, <4>2 DEF Ordered, InOrder
      <4>3. CASE s # w
        BY <2>1, <2>2, <3>1, <4>1, <4>3 DEF Ordered, ArrivalOrder
      <4>. QED
        BY <4>2, <4>3
    <3>. QED
      BY <2>1, <3>1 DEF ArrivalOrder, Cond
  <2>. QED
    BY <2>5, <2>6 DEF Ordered
<1>3. ASSUME NEW n \in Ids,
             \/ Enter(n) \/ Start(n) \/ ReadPrior(n) \/ ReadRule(n) \/ ReadBudget(n) \/ AskModel(n)
      PROVE  Ordered'
  <2>1. PICK s \in Owning : stage' = [stage EXCEPT ![n] = s]
    BY <1>3, AdvanceMoves
  <2>2. n \in Active /\ ledger' = ledger /\ intake' = intake /\ errors' = errors /\ offPage' = offPage
    BY <1>3, AdvanceMoves DEF disk, bounds, hist
  <2>3. Active' = Active
    BY <1>0, <2>1, <2>2 DEF Active, Owning, Judging
  <2>4. SameRows /\ AllTasked
    BY <1>0, <2>2, <2>3 DEF Recorded
  <2>. QED
    BY <2>3, <2>4, OrderKept
<1>4. ASSUME NEW n \in Ids, Drop(n) PROVE Ordered'
  <2>1. /\ stage' = [stage EXCEPT ![n] = "none"] /\ intake' = intake \ {n}
        /\ ledger' = ledger /\ errors' = errors /\ offPage' = offPage
    BY <1>4 DEF Drop, Leave, bounds, hist
  <2>2. SameRows /\ AllTasked /\ Active' \subseteq Active
    BY <1>0, <2>1 DEF Active, Recorded
  <2>. QED
    BY <2>2, OrderKept
<1>5. ASSUME NEW n \in Ids, Fail(n) PROVE Ordered'
  <2>1. errors' # 0
    BY <1>0, <1>5 DEF Fail
  <2>. QED
    BY <2>1 DEF Ordered, InOrder, ArrivalOrder
<1>6. ASSUME NEW bad \in SUBSET intake, Boot(bad) PROVE Ordered'
  <2>1. /\ intake' = intake \ bad /\ ledger' = ledger /\ errors' = errors
        /\ stage' = [k \in Ids |-> IF k \in FirstRows(BootLimit) \ bad THEN "waiting" ELSE "none"]
        /\ offPage' = offPage \cup {k \in intake : ~(k \in FirstRows(BootLimit))}
    <3>1. {k \in intake : Cardinality({j \in intake : j <= k}) > BootLimit}
            = {k \in intake : ~(k \in FirstRows(BootLimit))}
      BY PageEnds
    <3>. QED
      BY <1>6, <3>1 DEF Boot
  <2>2. Active' = FirstRows(BootLimit) \ bad /\ FirstRows(BootLimit) \subseteq intake
    BY <1>0, <2>1 DEF Active, FirstRows
  <2>3. SameRows /\ AllTasked
    BY <1>0, <2>1, <2>2 DEF Recorded
  <2>4. CASE errors = 0
    <3>1. Active' \ offPage' \subseteq Active
      BY <1>0, <2>1, <2>2, <2>4
    <3>. QED
      BY <2>3, <3>1, OrderKept
  <2>5. CASE errors # 0
    BY <2>1, <2>5 DEF Ordered, InOrder, ArrivalOrder
  <2>. QED
    BY <2>4, <2>5
<1>7. ASSUME NEW r \in Rows, Returned(r) PROVE Ordered'
  <2>1. /\ ledger[r] \in Row /\ ledger' = [ledger EXCEPT ![r].owed = FALSE]
        /\ r \in Recorded /\ stage' = stage /\ intake' = intake /\ errors' = errors
        /\ offPage' = offPage
    BY <1>0, <1>7 DEF Returned, Recorded, memory, bounds, hist
  <2>2. SameRows
    BY <1>0, <2>1 DEF Recorded, Row
  <2>3. AllTasked /\ Active' = Active
    BY <1>0, <2>1 DEF Active
  <2>. QED
    BY <2>2, <2>3, OrderKept
<1>8. CASE Purge \/ Tick \/ UNCHANGED vars
  <2>1. SameRows
    BY <1>0, <1>8 DEF Purge, Tick, vars, disk, Recorded
  <2>2. AllTasked /\ Active' = Active
    BY <1>0, <1>8 DEF Purge, Tick, vars, disk, memory, bounds, hist, Active
  <2>. QED
    BY <2>1, <2>2, OrderKept
<1>. QED
  BY <1>1, <1>2, <1>3, <1>4, <1>5, <1>6, <1>7, <1>8 DEF Next, Advance

\* While no judgement failed, the alerts of a condition have their rows in the
\* order they came, across restarts too, but for an alert that a boot left off its
\* page, however short the page is.
THEOREM JudgedInOrder == Spec => []ArrivalOrder
<1>1. Init => Ordered
  BY DEF Init, Ordered, InOrder, ArrivalOrder, Recorded, Active
<1>2. Init => OldestOwns
  BY DEF Init, OldestOwns, Active
<1>3. Sound /\ OldestOwns /\ Ordered /\ [Next]_vars => Ordered'
  BY OrderStep
<1>4. Spec => [](Sound /\ OldestOwns /\ Ordered)
  BY <1>1, <1>2, <1>3, SoundInit, SoundStep, OldestOwnsStep, PTL DEF Spec
<1>5. Ordered => ArrivalOrder
  BY DEF Ordered
<1>. QED
  BY <1>4, <1>5, PTL
=============================================================================
