------------------------------ MODULE ReturnLeg ------------------------------
(***************************************************************************)
(* hookjudge's return leg: the worker that hands each recorded judgement   *)
(* back to the pipe, and what it writes down of the answer (app.py         *)
(* _return_once and _worker; store.py pending_returns, mark_return,        *)
(* purge_older_than).                                                      *)
(*                                                                         *)
(* `since` is what has passed since the row's attempt clock (last attempt, *)
(* or arrival), which is what pending_returns sorts by and the backoff is  *)
(* measured from.  A tick of the worker reads the time once: everything it *)
(* stamps is `lag` old when it is written.                                 *)
(***************************************************************************)
EXTENDS Integers, FiniteSets, TLAPS

CONSTANTS
    Backoff,        \* _BACKOFF_SECONDS, indexed by attempts made, the last repeated
    MaxAttempts,    \* settings.return_max_attempts
    BatchLimit,     \* LIMIT of pending_returns
    Retention,      \* retention_days, 0 for off
    Delays,         \* how long ago a judgement's alert may have arrived
    Past,           \* an age beyond every wait and the retention
    MaxRows,        \* bound: judgements recorded over a behaviour
    MaxLag,         \* bound: how long one tick lasts (the HTTP timeouts)
    MaxCrashes,     \* bound: restarts
    MaxErrors       \* bound: rows whose bookkeeping raises

ASSUME ReturnAssumption ==
    /\ MaxRows \in Nat /\ MaxAttempts \in Nat \ {0} /\ BatchLimit \in Nat \ {0}
    /\ Retention \in Nat /\ MaxLag \in Nat /\ Delays \subseteq 0..Past
    /\ Backoff \in [1..MaxAttempts -> Nat]
    /\ Past \in Nat /\ Retention + MaxLag < Past
    /\ \A n \in 1..MaxAttempts : Backoff[n] + MaxLag < Past
    /\ MaxCrashes \in Nat /\ MaxErrors \in Nat

\* The schedule of a small instance.
Steady == [n \in 1..MaxAttempts |-> 1]

VARIABLES
    rows,       \* judgements: status, attempts, delivered, and two ages
    nextRow,    \* AUTOINCREMENT
    url,        \* HOOKJUDGE_RETURN_URL: an address, switched off, or not set
    working,    \* the worker is inside a tick
    todo,       \* rows of pending_returns it has not come to yet
    current,    \* the row whose answer it awaits, 0 for none
    answer,     \* what came back for it
    lag,        \* time since the tick read the clock
    carded,     \* history: rows the pipe has routed to a channel
    crashes, errors

table  == <<rows, nextRow>>
Urls   == {"pipe", "off", "unset"}
worker == <<working, todo, current, answer, lag>>
bounds == <<crashes, errors>>
vars   == <<table, url, worker, carded, bounds>>

Ids == 1..MaxRows

Statuses  == {"queued", "sent", "dead", "skipped"}
Delivered == {"yes", "no", "unknown"}
Row == [status: Statuses, attempts: 0..MaxAttempts, delivered: Delivered,
        since: 0..Past, age: 0..Past]

NoRow == [status |-> "absent"]

Status(i) == rows[i].status

Queued    == {i \in Ids : Status(i) = "queued"}

Later(n) == IF n < Past THEN n + 1 ELSE n

\* The row's wait is over by the tick's clock.
Due(i) == rows[i].attempts > 0 => rows[i].since - lag >= Backoff[rows[i].attempts]

\* pending_returns: the first BatchLimit queued rows, oldest clock first.
Pages == {S \in SUBSET Queued :
            /\ Cardinality(S) = IF Cardinality(Queued) < BatchLimit
                                THEN Cardinality(Queued) ELSE BatchLimit
            /\ \A i \in S, j \in Queued \ S : rows[i].since >= rows[j].since}

\* The loop goes through the page in its order.
AtHand(i) == i \in todo /\ \A j \in todo : rows[i].since >= rows[j].since

Init ==
    /\ rows = [i \in Ids |-> NoRow] /\ nextRow = 1
    /\ url \in Urls
    /\ working = FALSE /\ todo = {}
    /\ current = 0 /\ answer = "none" /\ lag = 0
    /\ carded = {}
    /\ crashes = 0 /\ errors = 0

-----------------------------------------------------------------------------
\* Store.record: a judgement, its return owed from the start.
Record(delay) ==
    /\ nextRow \in Ids
    /\ rows' = [rows EXCEPT ![nextRow] =
                  [status |-> "queued", attempts |-> 0, delivered |-> "unknown",
                   since |-> delay, age |-> delay]]
    /\ nextRow' = nextRow + 1
    /\ UNCHANGED <<url, worker, carded, bounds>>

BeginTick ==
    /\ ~working
    /\ \E S \in Pages : todo' = S
    /\ working' = TRUE
    /\ UNCHANGED <<table, url, current, answer, lag, carded, bounds>>

\* Still inside its backoff: not this time.
Skip(i) ==
    /\ working /\ current = 0 /\ AtHand(i) /\ ~Due(i)
    /\ todo' = todo \ {i}
    /\ UNCHANGED <<table, url, working, current, answer, lag, carded, bounds>>

\* Seeded fault: without an address the row waits for one.
GiveUpLater(i) ==
    /\ working /\ current = 0 /\ AtHand(i) /\ Due(i)
    /\ url # "pipe"
    /\ rows' = [rows EXCEPT ![i] =
                  [@ EXCEPT !.status = IF url = "off" THEN "skipped" ELSE "queued",
                            !.since = lag]]
    /\ todo' = todo \ {i}
    /\ UNCHANGED <<nextRow, url, working, current, answer, lag, carded, bounds>>

\* _return_once with nowhere to post to.
GiveUp(i) ==
    /\ working /\ current = 0 /\ AtHand(i) /\ Due(i)
    /\ url # "pipe"
    /\ rows' = [rows EXCEPT ![i] =
                  [@ EXCEPT !.status = IF url = "off" THEN "skipped" ELSE "dead",
                            !.since = lag, !.delivered = "no"]]
    /\ todo' = todo \ {i}
    /\ UNCHANGED <<nextRow, url, working, current, answer, lag, carded, bounds>>

\* _return_once, up to its await.
Post(i) ==
    /\ working /\ current = 0 /\ AtHand(i) /\ Due(i)
    /\ url = "pipe"
    /\ current' = i
    /\ UNCHANGED <<table, url, working, todo, answer, lag, carded, bounds>>

\* The pipe takes the judgement and routes it or not; its reply says which,
\* says nothing readable, or is lost on the way back.  Or it was not taken.
PipeAnswers ==
    /\ current # 0 /\ answer = "none"
    /\ \/ /\ carded' = carded \cup {current}
          /\ answer' \in {"routed", "unreadable", "failed"}
       \/ /\ UNCHANGED carded
          /\ answer' \in {"suppressed", "unreadable", "failed"}
    /\ UNCHANGED <<table, url, working, todo, current, lag, bounds>>

\* Seeded fault: every 2xx is a delivered card.
VerdictOf2xx(a) == IF a = "suppressed" THEN "no" ELSE "yes"

\* The three states of the `delivered` column.
Verdict(a) == CASE a = "routed" -> "yes" [] a = "suppressed" -> "no" [] OTHER -> "unknown"

NextRowPlease ==
    /\ todo' = todo \ {current}
    /\ current' = 0
    /\ answer' = "none"

\* mark_return after a 2xx.
BookSent ==
    /\ answer \notin {"none", "failed"}
    /\ rows' = [rows EXCEPT ![current] =
                  [@ EXCEPT !.status = "sent", !.attempts = rows[current].attempts + 1,
                            !.since = lag, !.delivered = Verdict(answer)]]
    /\ NextRowPlease
    /\ UNCHANGED <<nextRow, url, working, lag, carded, bounds>>

\* mark_return after anything else: once more later, or dead.
BookFailed ==
    /\ answer = "failed"
    /\ LET n == rows[current].attempts + 1
       IN rows' = [rows EXCEPT ![current] =
                     [@ EXCEPT !.attempts = n, !.since = lag,
                               !.status = IF n < MaxAttempts THEN "queued" ELSE "dead",
                               !.delivered = IF n < MaxAttempts THEN "unknown" ELSE "no"]]
    /\ NextRowPlease
    /\ UNCHANGED <<nextRow, url, working, lag, carded, bounds>>

\* _return_once raises: the row cannot be rebuilt, or mark_return cannot
\* write.  The tick goes on, the row keeps its attempts and its clock.
Raise(i) ==
    /\ working /\ errors < MaxErrors
    /\ \/ current = i /\ answer # "none"
       \/ current = 0 /\ AtHand(i) /\ Due(i)
    /\ errors' = errors + 1
    /\ todo' = todo \ {i}
    /\ current' = 0 /\ answer' = "none"
    /\ UNCHANGED <<table, url, working, lag, carded, crashes>>

\* The end of a tick, with the hourly purge when it is due.
Purged == [i \in Ids |-> IF /\ Status(i) \notin {"absent", "queued"}
                            /\ rows[i].age - lag > Retention
                         THEN NoRow ELSE rows[i]]

EndTick ==
    /\ working /\ todo = {}
    /\ rows' \in {rows} \cup (IF Retention > 0 THEN {Purged} ELSE {})
    /\ working' = FALSE
    /\ lag' = 0
    /\ UNCHANGED <<nextRow, url, todo, current, answer, carded, bounds>>

\* The process ends and starts again, perhaps with other settings.
Crash ==
    /\ crashes < MaxCrashes
    /\ crashes' = crashes + 1
    /\ working' = FALSE /\ todo' = {}
    /\ current' = 0 /\ answer' = "none" /\ lag' = 0
    /\ url' \in Urls
    /\ UNCHANGED <<table, carded, errors>>

Tick ==
    /\ working => lag < MaxLag
    /\ lag' = IF working THEN lag + 1 ELSE lag
    /\ rows' = [i \in Ids |-> IF Status(i) = "absent" THEN NoRow
                              ELSE [rows[i] EXCEPT !.since = Later(@), !.age = Later(@)]]
    /\ UNCHANGED <<nextRow, url, working, todo, current, answer, carded, bounds>>

Work == \/ BeginTick \/ PipeAnswers \/ BookSent \/ BookFailed \/ EndTick
        \/ \E i \in Ids : Skip(i) \/ GiveUp(i) \/ Post(i)

Next == (\E delay \in Delays : Record(delay)) \/ Work \/ (\E i \in Ids : Raise(i)) \/ Crash \/ Tick

Spec == Init /\ [][Next]_vars

\* The loop sleeps and comes back for ever, every post ends in an answer or in
\* its timeout, and time passes.
FairSpec == Spec /\ WF_vars(Work) /\ WF_vars(Tick)
-----------------------------------------------------------------------------
TypeOK ==
    /\ rows \in [Ids -> Row \cup {NoRow}]
    /\ nextRow \in 1..(MaxRows + 1)
    /\ url \in Urls
    /\ working \in BOOLEAN /\ todo \subseteq Ids /\ current \in Ids \cup {0}
    /\ answer \in {"none", "routed", "suppressed", "unreadable", "failed"}
    /\ lag \in 0..MaxLag
    /\ carded \subseteq Ids
    /\ crashes \in 0..MaxCrashes /\ errors \in 0..MaxErrors

\* An interruption is counted only where a card exists: `delivered` says yes of
\* a row only after the pipe routed that row.
CountedCardsExist == \A i \in Ids : Status(i) # "absent" /\ rows[i].delivered = "yes" => i \in carded

\* Every judgement's return ends: sent, dead or skipped.
Settles == \A i \in Ids : Status(i) = "queued" ~> Status(i) # "queued"
-----------------------------------------------------------------------------
(***************************************************************************)
(* What holds of every number of judgements, attempts, crashes and faults. *)
(***************************************************************************)
\* A page holds rows that are owed, and the row at hand is on it; an answer is
\* of the row at hand, and the pipe's word of a card is said of a card.
IInv ==
    /\ TypeOK /\ CountedCardsExist
    /\ \A i \in Ids : i >= nextRow => Status(i) = "absent"
    /\ \A i \in Queued : rows[i].attempts < MaxAttempts
    /\ todo \subseteq Queued /\ (~working => todo = {})
    /\ current # 0 => current \in todo
    /\ answer # "none" => current # 0
    /\ answer = "routed" => current \in carded

\* What the bounds say of each other.
LEMMA Bounded ==
    /\ MaxRows \in Nat /\ MaxAttempts \in Nat /\ MaxAttempts > 0
    /\ MaxLag \in Nat /\ Past \in Nat /\ MaxLag < Past /\ Delays \subseteq 0..Past
    /\ MaxCrashes \in Nat /\ MaxErrors \in Nat
<1>1. Retention \in Nat /\ MaxLag \in Nat /\ Past \in Nat /\ Retention + MaxLag < Past
  BY ReturnAssumption
<1>2. MaxLag < Past
  BY <1>1
<1>. QED
  BY <1>2, ReturnAssumption

\* The values the variables take, one by one.
LEMMA Typed ==
  ASSUME IInv
  PROVE  /\ rows \in [Ids -> Row \cup {NoRow}] /\ nextRow \in 1..(MaxRows + 1)
         /\ url \in Urls /\ working \in BOOLEAN /\ todo \subseteq Ids /\ current \in Ids \cup {0}
         /\ lag \in 0..MaxLag /\ lag \in 0..Past /\ carded \subseteq Ids
         /\ crashes \in 0..MaxCrashes /\ errors \in 0..MaxErrors
<1>1. lag \in 0..MaxLag
  BY DEF IInv, TypeOK
<1>2. lag \in 0..Past
  BY <1>1, Bounded
<1>. QED
  BY <1>1, <1>2 DEF IInv, TypeOK

\* Nothing is recorded, and no page is out.
LEMMA Starts == Init => IInv
<1>. SUFFICES ASSUME Init PROVE IInv
  OBVIOUS
<1>1. \A i \in Ids : rows[i] = NoRow /\ Status(i) = "absent"
  BY DEF Init, Status, NoRow
<1>2. TypeOK
  <2>1. /\ 1 \in 1..(MaxRows + 1) /\ 0 \in 0..MaxLag /\ 0 \in 0..MaxCrashes /\ 0 \in 0..MaxErrors
    BY Bounded
  <2>2. rows \in [Ids -> Row \cup {NoRow}]
    BY DEF Init
  <2>. QED
    BY <2>1, <2>2 DEF Init, TypeOK
<1>. QED
  BY <1>1, <1>2 DEF Init, IInv, CountedCardsExist, Queued

\* A row that was written, where the others stand.
LEMMA OneRow ==
  ASSUME IInv, NEW i \in Ids, NEW r \in Row, rows' = [rows EXCEPT ![i] = r],
         r.delivered = "yes" => i \in carded', carded \subseteq carded', 
         r.status = "queued" => r.attempts < MaxAttempts
  PROVE  /\ rows' \in [Ids -> Row \cup {NoRow}]
         /\ CountedCardsExist'
         /\ \A j \in Queued' : rows'[j].attempts < MaxAttempts
         /\ Queued \ {i} \subseteq Queued'
         /\ \A j \in Ids \ {i} : Status(j)' = Status(j)
<1>1. rows \in [Ids -> Row \cup {NoRow}]
  BY DEF IInv, TypeOK
<1>2. \A j \in Ids : rows'[j] = IF j = i THEN r ELSE rows[j]
  BY <1>1
<1>. QED
  BY <1>1, <1>2 DEF IInv, CountedCardsExist, Queued, Status

\* A row that is owed is a row.
LEMMA OwedIsRow ==
  ASSUME IInv, NEW i \in Queued
  PROVE  i \in Ids /\ rows[i] \in Row /\ i < nextRow /\ rows[i].attempts < MaxAttempts
BY DEF IInv, TypeOK, Queued, Status, NoRow, Ids

\* The clock of every row, by a step that leaves what it says.
LEMMA SameWords ==
  ASSUME IInv, rows' \in [Ids -> Row \cup {NoRow}], carded' = carded,
         \A i \in Ids : \/ rows'[i] = NoRow /\ Status(i) # "queued"
                        \/ /\ Status(i) # "absent" /\ Status(i)' = Status(i)
                           /\ rows'[i].delivered = rows[i].delivered
                           /\ rows'[i].attempts = rows[i].attempts
  PROVE  /\ CountedCardsExist' /\ Queued' = Queued
         /\ \A i \in Queued' : rows'[i].attempts < MaxAttempts
         /\ \A i \in Ids : Status(i) = "absent" => Status(i)' = "absent"
BY DEF IInv, CountedCardsExist, Queued, Status, NoRow

\* Every step keeps it.
LEMMA Keeps == IInv /\ [Next]_vars => IInv'
<1>. SUFFICES ASSUME IInv, [Next]_vars PROVE IInv'
  OBVIOUS
<1>t. TypeOK /\ CountedCardsExist
  BY DEF IInv
<1>1. ASSUME NEW delay \in Delays, Record(delay) PROVE IInv'
  <2>. DEFINE r == [status |-> "queued", attempts |-> 0, delivered |-> "unknown",
                    since |-> delay, age |-> delay]
  <2>1. /\ nextRow \in Ids /\ rows' = [rows EXCEPT ![nextRow] = r]
        /\ nextRow' = nextRow + 1 /\ UNCHANGED <<url, worker, carded, bounds>>
    BY <1>1 DEF Record
  <2>2. r \in Row /\ r.status = "queued" /\ r.delivered = "unknown" /\ r.attempts < MaxAttempts
    BY Bounded DEF Row, Statuses, Delivered
  <2>. HIDE DEF r
  <2>3. /\ rows' \in [Ids -> Row \cup {NoRow}] /\ CountedCardsExist'
        /\ \A j \in Queued' : rows'[j].attempts < MaxAttempts
        /\ Queued \ {nextRow} \subseteq Queued'
        /\ \A j \in Ids \ {nextRow} : Status(j)' = Status(j)
    BY <2>1, <2>2, OneRow
  <2>4. nextRow \notin Queued
    <3>1. Status(nextRow) = "absent"
      BY <2>1, Typed DEF IInv, Ids
    <3>. QED
      BY <3>1 DEF Queued
  <2>5. TypeOK'
    <3>1. nextRow' \in 1..(MaxRows + 1)
      BY <2>1, Bounded DEF Ids
    <3>. QED
      BY <1>t, <2>1, <2>3, <3>1 DEF TypeOK, worker, bounds
  <2>. QED
    BY <1>t, <2>1, <2>3, <2>4, <2>5 DEF IInv, worker, Ids, TypeOK
<1>2. CASE BeginTick
  <2>1. todo' \subseteq Queued /\ current' = current /\ UNCHANGED <<table, carded, answer>> /\ ~working
    BY <1>2 DEF BeginTick, Pages
  <2>2. TypeOK'
    BY <1>2, <1>t, <2>1 DEF BeginTick, TypeOK, table, bounds, Queued
  <2>. QED
    BY <2>1, <2>2, <1>2 DEF IInv, BeginTick, CountedCardsExist, Queued, Status, table
<1>3. CASE PipeAnswers
  <2>1. UNCHANGED <<table, url, working, todo, current, lag, bounds>> /\ current \in todo
    BY <1>3 DEF PipeAnswers, IInv
  <2>. QED
    BY <1>3, <1>t, <2>1 DEF PipeAnswers, IInv, TypeOK, CountedCardsExist, Queued, Status, table, bounds
<1>4. CASE BookSent
  <2>. DEFINE r == [rows[current] EXCEPT !.status = "sent", !.attempts = rows[current].attempts + 1,
                                         !.since = lag, !.delivered = Verdict(answer)]
  <2>1. /\ rows' = [rows EXCEPT ![current] = r] /\ answer # "none"
        /\ todo' = todo \ {current} /\ current' = 0 /\ answer' = "none"
        /\ UNCHANGED <<nextRow, url, working, lag, carded, bounds>>
    BY <1>4 DEF BookSent, NextRowPlease
  <2>2. current \in todo /\ current \in Queued /\ current \in Ids /\ rows[current] \in Row
        /\ rows[current].attempts < MaxAttempts
    BY <2>1, OwedIsRow DEF IInv
  <2>3. r \in Row /\ r.status = "sent" /\ (r.delivered = "yes" => answer = "routed")
    <3>1. lag \in 0..Past /\ rows[current].attempts + 1 \in 0..MaxAttempts
      BY <2>2, Typed, Bounded DEF Row
    <3>2. Verdict(answer) \in Delivered /\ (Verdict(answer) = "yes" => answer = "routed")
      BY DEF Verdict, Delivered
    <3>. QED
      BY <2>2, <3>1, <3>2 DEF Row, Statuses
  <2>4. answer = "routed" => current \in carded
    BY DEF IInv
  <2>. HIDE DEF r
  <2>5. /\ rows' \in [Ids -> Row \cup {NoRow}] /\ CountedCardsExist'
        /\ \A j \in Queued' : rows'[j].attempts < MaxAttempts
        /\ Queued \ {current} \subseteq Queued'
        /\ \A j \in Ids \ {current} : Status(j)' = Status(j)
    BY <2>1, <2>2, <2>3, <2>4, OneRow
  <2>. QED
    BY <1>t, <2>1, <2>2, <2>5, OwedIsRow DEF IInv, TypeOK, bounds, Status, Queued
<1>5. CASE BookFailed
  <2>. DEFINE n == rows[current].attempts + 1
              r == [rows[current] EXCEPT !.attempts = n, !.since = lag,
                               !.status = IF n < MaxAttempts THEN "queued" ELSE "dead",
                               !.delivered = IF n < MaxAttempts THEN "unknown" ELSE "no"]
  <2>1. /\ rows' = [rows EXCEPT ![current] = r] /\ answer # "none"
        /\ todo' = todo \ {current} /\ current' = 0 /\ answer' = "none"
        /\ UNCHANGED <<nextRow, url, working, lag, carded, bounds>>
    BY <1>5 DEF BookFailed, NextRowPlease
  <2>2. current \in todo /\ current \in Queued /\ current \in Ids /\ rows[current] \in Row
        /\ rows[current].attempts < MaxAttempts
    BY <2>1, OwedIsRow DEF IInv
  <2>3. r \in Row /\ r.delivered # "yes" /\ (r.status = "queued" => r.attempts < MaxAttempts)
    <3>1. lag \in 0..Past /\ n \in 0..MaxAttempts
      BY <2>2, Typed, Bounded DEF Row
    <3>. HIDE DEF n
    <3>2. CASE n < MaxAttempts
      BY <2>2, <3>1, <3>2 DEF Row, Statuses, Delivered
    <3>3. CASE ~(n < MaxAttempts)
      BY <2>2, <3>1, <3>3 DEF Row, Statuses, Delivered
    <3>. QED
      BY <3>2, <3>3
  <2>. HIDE DEF r
  <2>5. /\ rows' \in [Ids -> Row \cup {NoRow}] /\ CountedCardsExist'
        /\ \A j \in Queued' : rows'[j].attempts < MaxAttempts
        /\ Queued \ {current} \subseteq Queued'
        /\ \A j \in Ids \ {current} : Status(j)' = Status(j)
    BY <2>1, <2>2, <2>3, OneRow
  <2>. QED
    BY <1>t, <2>1, <2>2, <2>5, OwedIsRow DEF IInv, TypeOK, bounds, Status, Queued
<1>6. CASE EndTick
  <2>1. /\ rows' = rows \/ rows' = Purged
        /\ todo = {} /\ working' = FALSE /\ lag' = 0
        /\ UNCHANGED <<nextRow, url, todo, current, answer, carded, bounds>>
    BY <1>6 DEF EndTick
  <2>2. /\ rows' \in [Ids -> Row \cup {NoRow}]
        /\ \A i \in Ids : rows'[i] = rows[i] \/ (rows'[i] = NoRow /\ Status(i) # "queued")
    BY <1>t, <2>1 DEF Purged, TypeOK, Status
  <2>3. /\ CountedCardsExist' /\ Queued' = Queued
        /\ \A i \in Queued' : rows'[i].attempts < MaxAttempts
        /\ \A i \in Ids : Status(i) = "absent" => Status(i)' = "absent"
    BY <2>1, <2>2, <1>t DEF IInv, CountedCardsExist, Queued, Status, NoRow, TypeOK
  <2>. QED
    <3>1. lag' \in 0..MaxLag
      BY <2>1, Bounded
    <3>2. TypeOK'
      BY <1>t, <2>1, <2>2, <3>1 DEF TypeOK, bounds
    <3>. QED
      BY <2>1, <2>3, <3>2 DEF IInv, bounds
<1>7. ASSUME NEW i \in Ids, Skip(i) \/ Post(i) PROVE IInv'
  <2>1. /\ UNCHANGED <<table, url, working, answer, lag, carded, bounds>> /\ current = 0
        /\ \/ todo' = todo \ {i} /\ current' = current
           \/ todo' = todo /\ current' = i /\ i \in todo
    BY <1>7 DEF Skip, Post, AtHand
  <2>. QED
    BY <1>t, <2>1 DEF IInv, TypeOK, CountedCardsExist, Queued, Status, table, bounds
<1>8. ASSUME NEW i \in Ids, GiveUp(i) PROVE IInv'
  <2>. DEFINE r == [rows[i] EXCEPT !.status = IF url = "off" THEN "skipped" ELSE "dead",
                                   !.since = lag, !.delivered = "no"]
  <2>1. /\ rows' = [rows EXCEPT ![i] = r] /\ i \in todo /\ current = 0
        /\ todo' = todo \ {i}
        /\ UNCHANGED <<nextRow, url, working, current, answer, lag, carded, bounds>>
    BY <1>8 DEF GiveUp, AtHand
  <2>2. i \in Queued /\ rows[i] \in Row /\ i < nextRow
    BY <2>1, OwedIsRow DEF IInv
  <2>3. r \in Row /\ r.delivered # "yes" /\ r.status # "queued"
    BY <2>2, Typed DEF Row, Statuses, Delivered
  <2>. HIDE DEF r
  <2>5. /\ rows' \in [Ids -> Row \cup {NoRow}] /\ CountedCardsExist'
        /\ \A j \in Queued' : rows'[j].attempts < MaxAttempts
        /\ Queued \ {i} \subseteq Queued'
        /\ \A j \in Ids \ {i} : Status(j)' = Status(j)
    BY <2>1, <2>2, <2>3, OneRow
  <2>. QED
    BY <1>t, <2>1, <2>2, <2>5 DEF IInv, TypeOK, bounds, Status, Queued
<1>9. ASSUME NEW i \in Ids, Raise(i) PROVE IInv'
  <2>1. /\ todo' = todo \ {i} /\ current' = 0 /\ answer' = "none"
        /\ errors < MaxErrors /\ errors' = errors + 1
        /\ UNCHANGED <<table, url, working, lag, carded, crashes>>
    BY <1>9 DEF Raise
  <2>. QED
    <3>1. errors' \in 0..MaxErrors
      BY <2>1, Typed, Bounded
    <3>. QED
      BY <1>t, <2>1, <3>1 DEF IInv, TypeOK, CountedCardsExist, Queued, Status, table
<1>10. CASE Crash
  <2>1. crashes' \in 0..MaxCrashes /\ 0 \in 0..MaxLag
    BY <1>10, Typed, Bounded DEF Crash
  <2>. QED
    BY <1>10, <1>t, <2>1 DEF Crash, IInv, TypeOK, CountedCardsExist, Queued, Status, table
<1>11. CASE Tick
  <2>1. /\ \A i \in Ids : rows'[i] = IF Status(i) = "absent" THEN NoRow
                                    ELSE [rows[i] EXCEPT !.since = Later(@), !.age = Later(@)]
        /\ lag' = IF working THEN lag + 1 ELSE lag
        /\ working => lag < MaxLag
        /\ UNCHANGED <<nextRow, url, working, todo, current, answer, carded, bounds>>
    BY <1>11 DEF Tick
  <2>2. \A n \in 0..Past : Later(n) \in 0..Past
    BY Bounded DEF Later
  <2>3. ASSUME NEW i \in Ids, Status(i) # "absent" PROVE rows[i] \in Row
    BY <1>t, <2>3 DEF TypeOK, Status, NoRow
  <2>4. \A i \in Ids : rows'[i] \in Row \cup {NoRow}
    <3>1. ASSUME NEW i \in Ids, Status(i) # "absent" PROVE rows'[i] \in Row
      <4>1. /\ rows[i] \in Row /\ Later(rows[i].since) \in 0..Past /\ Later(rows[i].age) \in 0..Past
        BY <2>2, <2>3, <3>1 DEF Row
      <4>2. rows'[i] = [rows[i] EXCEPT !.since = Later(rows[i].since), !.age = Later(rows[i].age)]
        BY <2>1, <3>1
      <4>. QED
        BY <4>1, <4>2 DEF Row
    <3>. QED
      BY <2>1, <3>1
  <2>5. rows' \in [Ids -> Row \cup {NoRow}]
    BY <1>11, <2>4 DEF Tick
  <2>6. \A i \in Ids : \/ rows'[i] = NoRow /\ Status(i) # "queued"
                      \/ /\ Status(i) # "absent" /\ Status(i)' = Status(i)
                         /\ rows'[i].delivered = rows[i].delivered
                         /\ rows'[i].attempts = rows[i].attempts
    BY <2>1, <2>3 DEF Status, Row
  <2>7. /\ CountedCardsExist' /\ Queued' = Queued
        /\ \A i \in Queued' : rows'[i].attempts < MaxAttempts
        /\ \A i \in Ids : Status(i) = "absent" => Status(i)' = "absent"
    BY <2>1, <2>5, <2>6, SameWords
  <2>8. lag' \in 0..MaxLag
    <3>1. CASE working
      <4>1. lag < MaxLag
        BY <2>1, <3>1
      <4>2. lag' = lag + 1
        BY <2>1, <3>1
      <4>. QED
        BY <4>1, <4>2, Typed, Bounded
    <3>2. CASE ~working
      BY <2>1, <3>2, Typed
    <3>. QED
      BY <3>1, <3>2
  <2>. QED
    BY <1>t, <2>1, <2>5, <2>7, <2>8 DEF IInv, TypeOK, bounds
<1>12. CASE UNCHANGED vars
  BY <1>t, <1>12 DEF vars, table, worker, bounds, IInv, TypeOK, CountedCardsExist, Queued, Status
<1>. QED
  BY <1>1, <1>2, <1>3, <1>4, <1>5, <1>6, <1>7, <1>8, <1>9, <1>10, <1>11, <1>12 DEF Next, Work

\* Whatever is lost on the way back, retried, purged or restarted, a judgement
\* counts as delivered only if the pipe routed it (app.py _return_once).
THEOREM CountsOnlyCards == Spec => []CountedCardsExist
<1>1. IInv => CountedCardsExist
  BY DEF IInv
<1>. QED
  BY <1>1, Starts, Keeps, PTL DEF Spec
=============================================================================
