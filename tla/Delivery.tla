------------------------------ MODULE Delivery ------------------------------
(***************************************************************************)
(* hookrelay's outbox: the deliveries table, the worker that drains it     *)
(* (delivery.py), the per-channel circuit breaker (breaker.py), and the    *)
(* other writers of the same rows: the front door and escalation that      *)
(* enqueue, the operator's retry, retention, a config reload, a restart.   *)
(*                                                                         *)
(* Time is relative.  `wait` is what is left until next_attempt_at, `age`  *)
(* what has passed since sent_at, `openFor` what has passed since          *)
(* opened_at, and `lag` what has passed since the worker read the clock    *)
(* for the batch in hand: process_due uses one `now` for a whole batch,    *)
(* so every timestamp it writes is `lag` old when it is written.           *)
(***************************************************************************)
EXTENDS Integers, FiniteSets

CONSTANTS
    Channels,       \* channel names
    Events,         \* event ids
    Configs,        \* the channel sets an operator may load
    MaxRows,        \* bound: delivery rows inserted over a behaviour
    BatchLimit,     \* LIMIT of due_deliveries
    MaxAttempts,    \* settings.max_attempts
    BackoffBase,    \* _BACKOFF_BASE_SECONDS
    BackoffCap,     \* _BACKOFF_CAP_SECONDS
    RateDefer,      \* _RATE_DEFER_SECONDS
    BreakerDefer,   \* _BREAKER_DEFER_SECONDS
    RateWindow,     \* the 60 seconds of max_per_minute
    MaxPerMinute,   \* channel.max_per_minute, 0 for no limit
    Threshold,      \* CircuitBreaker.threshold
    Cooldown,       \* CircuitBreaker.cooldown_seconds
    MaxLag,         \* bound: how long one batch lasts (the HTTP timeouts)
    MaxRetries,     \* bound: presses of the operator's retry
    MaxCrashes,     \* bound: restarts
    MaxErrors       \* bound: exceptions that escape a channel's drain

ASSUME DeliveryAssumption ==
    /\ IsFiniteSet(Channels) /\ Configs \subseteq SUBSET Channels
    /\ MaxRows \in Nat /\ BatchLimit \in Nat \ {0} /\ MaxAttempts \in Nat \ {0}
    /\ BackoffBase \in Nat /\ BackoffCap \in Nat
    /\ RateDefer \in Nat /\ BreakerDefer \in Nat
    /\ RateWindow \in Nat /\ MaxPerMinute \in [Channels -> Nat]
    /\ Threshold \in Nat \ {0} /\ Cooldown \in Nat
    /\ MaxLag \in Nat /\ MaxRetries \in Nat /\ MaxCrashes \in Nat /\ MaxErrors \in Nat

\* A fact of arithmetic, stated because the provers know nothing of `^`.
ASSUME PowersOfTwo == \A n \in 0..MaxAttempts : 2^n \in Nat

VARIABLES
    deliveries,     \* the table, by row id
    nextId,         \* AUTOINCREMENT
    old,            \* events past the retention cutoff
    configured,     \* channels of app.state.config
    working,        \* process_due is between its select and its return
    batchCfg,       \* the channels of the cfg this batch was called with
    held,           \* per channel, the rows of its group not yet finished
    snap,           \* row["attempts"], as due_deliveries read it
    stage,          \* where each channel's drain is suspended
    lag,            \* time since the batch's `now`
    breaker,        \* _State per channel, process-local
    tries,          \* history: posts of a row since it was last queued
    accepted,       \* history: rows whose post was answered with success
    retries, crashes, errors    \* how much of each bound is used

table   == <<deliveries, nextId, old>>
batch   == <<working, batchCfg, held, snap, stage, lag>>
history == <<tries, accepted>>
bounds  == <<retries, crashes, errors>>
vars    == <<table, configured, batch, breaker, history, bounds>>

Ids == 1..MaxRows

Floor0(n)    == IF n > 0 THEN n ELSE 0
UpTo(n, cap) == IF n < cap THEN n ELSE cap

AgeCap  == RateWindow + MaxLag + 1   \* past every window a batch can look at
OpenCap == Cooldown + MaxLag         \* past every cooldown a batch can look at
Closed  == -1                        \* opened_at is None

Row == [event: Events, channel: Channels,
        status: {"queued", "sent", "dead", "purged"},
        attempts: 0..MaxAttempts, wait: Nat, age: 0..AgeCap]

NoRow == [status |-> "absent"]

ClosedBreaker == [failures |-> 0, openFor |-> Closed, probe |-> FALSE]

NewRow(e, c) == [event |-> e, channel |-> c, status |-> "queued",
                 attempts |-> 0, wait |-> 0, age |-> AgeCap]

Status(i)  == deliveries[i].status
RowsOf(e)  == {i \in Ids : Status(i) # "absent" /\ deliveries[i].event = e}
Present(e) == \A i \in RowsOf(e) : Status(i) # "purged"

(***************************************************************************)
(* due_deliveries: the first BatchLimit due rows in id order.              *)
(***************************************************************************)

Due == {i \in Ids : Status(i) = "queued" /\ deliveries[i].wait = 0}

FirstDue == {i \in Due : Cardinality({j \in Due : j <= i}) <= BatchLimit}

(***************************************************************************)
(* backoff_delay, and a deadline of `now + seconds` seen from the moment   *)
(* it is written.                                                          *)
(***************************************************************************)
BackoffDelay(attempts) == UpTo(BackoffBase * 2^Floor0(attempts - 1), BackoffCap)

NotBefore(seconds) == Floor0(seconds - lag)

(***************************************************************************)
(* CircuitBreaker.allows, and the state it leaves when it said yes.        *)
(***************************************************************************)
HalfOpen(c) == breaker[c].openFor # Closed

Allows(c) == \/ ~HalfOpen(c)
             \/ /\ breaker[c].openFor - lag >= Cooldown
                /\ ~breaker[c].probe

Claimed(c) == [breaker EXCEPT ![c].probe = @ \/ HalfOpen(c)]

(***************************************************************************)
(* sent_count_since(channel, now - 60) >= max_per_minute.                  *)
(***************************************************************************)
SentSince(c) == {i \in Ids : /\ Status(i) = "sent"
                             /\ deliveries[i].channel = c
                             /\ deliveries[i].age - lag <= RateWindow}

RateFull(c) == /\ MaxPerMinute[c] > 0
               /\ Cardinality(SentSince(c)) >= MaxPerMinute[c]

(***************************************************************************)
(* A group is drained in id order: i is the row the drain of c is at.      *)
(***************************************************************************)
InHand(c, i) == i \in held[c] /\ \A j \in held[c] : i <= j

Finish(c, i) == held' = [held EXCEPT ![c] = @ \ {i}]

Init ==
    /\ deliveries = [i \in Ids |-> NoRow]
    /\ nextId = 1
    /\ old = {}
    /\ configured = Channels
    /\ working = FALSE
    /\ batchCfg = {}
    /\ held = [c \in Channels |-> {}]
    /\ snap = [i \in Ids |-> 0]
    /\ stage = [c \in Channels |-> "next"]
    /\ lag = 0
    /\ breaker = [c \in Channels |-> ClosedBreaker]
    /\ tries = [i \in Ids |-> 0]
    /\ accepted = {}
    /\ retries = 0 /\ crashes = 0 /\ errors = 0

-----------------------------------------------------------------------------
(***************************************************************************)
(* The other writers of the table.                                         *)
(***************************************************************************)

\* Transaction.enqueue_deliveries: one row per channel, all or none.  Called
\* for a new event, for a settled fold and, one channel at a time, by
\* escalation for an event that already has rows.
Enqueue(e, S) ==
    /\ S # {} /\ S \subseteq configured
    /\ Present(e)
    /\ nextId + Cardinality(S) - 1 \in Ids
    /\ LET new == nextId..(nextId + Cardinality(S) - 1)
       IN \E to \in [new -> S] :
            /\ \A i, j \in new : to[i] = to[j] => i = j
            /\ deliveries' = [i \in Ids |-> IF i \in new THEN NewRow(e, to[i])
                                                         ELSE deliveries[i]]
    /\ nextId' = nextId + Cardinality(S)
    /\ UNCHANGED <<old, configured, batch, breaker, history, bounds>>

\* Seeded fault: the UPDATE without its `AND status = 'dead'`.
RetryAnything(i) ==
    /\ Status(i) \in {"dead", "queued"}
    /\ retries < MaxRetries
    /\ retries' = retries + 1
    /\ deliveries' = [deliveries EXCEPT ![i].status = "queued",
                                        ![i].attempts = 0, ![i].wait = 0]
    /\ tries' = [tries EXCEPT ![i] = 0]
    /\ UNCHANGED <<nextId, old, configured, batch, breaker, accepted, crashes, errors>>

\* retry_delivery: the operator's second chance for a dead row.
Retry(i) ==
    /\ Status(i) = "dead"
    /\ retries < MaxRetries
    /\ retries' = retries + 1
    /\ deliveries' = [deliveries EXCEPT ![i].status = "queued",
                                        ![i].attempts = 0, ![i].wait = 0]
    /\ tries' = [tries EXCEPT ![i] = 0]
    /\ UNCHANGED <<nextId, old, configured, batch, breaker, accepted, crashes, errors>>

\* An event passes the retention cutoff.  Days against seconds: a row may
\* still be queued by then, after an outage or an operator's retry.
PassCutoff(e) ==
    /\ e \notin old /\ RowsOf(e) # {}
    /\ old' = old \cup {e}
    /\ UNCHANGED <<deliveries, nextId, configured, batch, breaker, history, bounds>>

\* Seeded fault: retention without its NOT EXISTS (... status = 'queued').
PurgeQueuedToo(e) ==
    /\ ~working
    /\ e \in old /\ RowsOf(e) # {} /\ Present(e)
    /\ deliveries' = [i \in Ids |-> IF i \in RowsOf(e)
                                    THEN [deliveries[i] EXCEPT !.status = "purged"]
                                    ELSE deliveries[i]]
    /\ UNCHANGED <<nextId, old, configured, batch, breaker, history, bounds>>

\* purge_older_than, one event of its batch: the worker loop runs it after
\* process_due has returned, and it spares an event with a row still queued.
Purge(e) ==
    /\ ~working
    /\ e \in old /\ RowsOf(e) # {} /\ Present(e)
    /\ \A i \in RowsOf(e) : Status(i) # "queued"
    /\ deliveries' = [i \in Ids |-> IF i \in RowsOf(e)
                                    THEN [deliveries[i] EXCEPT !.status = "purged"]
                                    ELSE deliveries[i]]
    /\ UNCHANGED <<nextId, old, configured, batch, breaker, history, bounds>>

\* POST /config/reload swaps app.state.config; a batch keeps the cfg it got.
Reload(S) ==
    /\ configured' = S
    /\ UNCHANGED <<table, batch, breaker, history, bounds>>

-----------------------------------------------------------------------------
(***************************************************************************)
(* The worker.  process_due selects, groups by channel and gathers one     *)
(* _drain_channel per group; a drain is suspended while it posts and while *)
(* its answer is being booked.                                             *)
(***************************************************************************)

StartBatch ==
    /\ ~working
    /\ Due # {}
    /\ working' = TRUE
    /\ batchCfg' = configured
    /\ held' = [c \in Channels |-> {i \in FirstDue : deliveries[i].channel = c}]
    /\ snap' = [i \in Ids |-> IF i \in FirstDue THEN deliveries[i].attempts ELSE 0]
    /\ UNCHANGED <<table, configured, stage, lag, breaker, history, bounds>>

EndBatch ==
    /\ working
    /\ \A c \in Channels : held[c] = {}
    /\ working' = FALSE
    /\ batchCfg' = {}
    /\ snap' = [i \in Ids |-> 0]
    /\ lag' = 0
    /\ UNCHANGED <<table, configured, held, stage, breaker, history, bounds>>

DropUnconfigured(c, i) ==
    /\ stage[c] = "next" /\ c \notin batchCfg
    /\ deliveries' = [deliveries EXCEPT ![i].status = "dead",
                                        ![i].attempts = snap[i] + 1]
    /\ Finish(c, i)
    /\ UNCHANGED <<nextId, old, configured, working, batchCfg, snap, stage, lag,
                   breaker, history, bounds>>

DeferForBreaker(c, i) ==
    /\ stage[c] = "next" /\ c \in batchCfg /\ ~Allows(c)
    /\ deliveries' = [deliveries EXCEPT ![i].wait = NotBefore(BreakerDefer)]
    /\ Finish(c, i)
    /\ UNCHANGED <<nextId, old, configured, working, batchCfg, snap, stage, lag,
                   breaker, history, bounds>>

\* The breaker said yes, perhaps handing out the probe; the limiter says no.
DeferForRate(c, i) ==
    /\ stage[c] = "next" /\ c \in batchCfg /\ Allows(c) /\ RateFull(c)
    /\ deliveries' = [deliveries EXCEPT ![i].wait = NotBefore(RateDefer)]
    /\ breaker' = [breaker EXCEPT ![c].probe = FALSE]
    /\ Finish(c, i)
    /\ UNCHANGED <<nextId, old, configured, working, batchCfg, snap, stage, lag,
                   history, bounds>>

Post(c, i) ==
    /\ stage[c] = "next" /\ c \in batchCfg /\ Allows(c) /\ ~RateFull(c)
    /\ stage' = [stage EXCEPT ![c] = "posting"]
    /\ breaker' = Claimed(c)
    /\ tries' = [tries EXCEPT ![i] = @ + 1]
    /\ UNCHANGED <<table, configured, working, batchCfg, held, snap, lag,
                   accepted, bounds>>

\* channels.send returns: the peer accepted, or it refused, timed out or
\* could not be reached (in which case it may still have the message).
Answer(c, i) ==
    /\ stage[c] = "posting"
    /\ \/ /\ stage' = [stage EXCEPT ![c] = "ok"]
          /\ accepted' = accepted \cup {i}
       \/ /\ stage' = [stage EXCEPT ![c] = "failed"]
          /\ UNCHANGED accepted
    /\ UNCHANGED <<table, configured, working, batchCfg, held, snap, lag,
                   breaker, tries, bounds>>

\* mark_sent stamps the batch's `now`, then the breaker closes.
BookSent(c, i) ==
    /\ stage[c] = "ok"
    /\ deliveries' = [deliveries EXCEPT ![i].status = "sent",
                                        ![i].age = lag]
    /\ breaker' = [breaker EXCEPT ![c] = ClosedBreaker]
    /\ stage' = [stage EXCEPT ![c] = "next"]
    /\ Finish(c, i)
    /\ UNCHANGED <<nextId, old, configured, working, batchCfg, snap, lag,
                   history, bounds>>

\* Seeded fault: record_failure without its first assignment.
FailedKeepsProbe(b) ==
    LET n == UpTo(b.failures + 1, Threshold)
    IN [failures |-> n, probe |-> b.probe,
        openFor |-> IF n >= Threshold THEN lag ELSE b.openFor]

\* record_failure: past the threshold, opened_at is the batch's `now`.
Failed(b) ==
    LET n == UpTo(b.failures + 1, Threshold)
    IN [failures |-> n, probe |-> FALSE,
        openFor |-> IF n >= Threshold THEN lag ELSE b.openFor]

BookFailed(c, i) ==
    /\ stage[c] = "failed"
    /\ LET n == snap[i] + 1
       IN deliveries' = [deliveries EXCEPT
            ![i].attempts = n,
            ![i].status = IF n >= MaxAttempts THEN "dead" ELSE @,
            ![i].wait = IF n >= MaxAttempts THEN @ ELSE NotBefore(BackoffDelay(n))]
    /\ breaker' = [breaker EXCEPT ![c] = Failed(@)]
    /\ stage' = [stage EXCEPT ![c] = "next"]
    /\ Finish(c, i)
    /\ UNCHANGED <<nextId, old, configured, working, batchCfg, snap, lag,
                   history, bounds>>

\* An exception leaves _drain_channel ("database is locked", a reader or a
\* builder that raises): gather collects it, the group's rows stay as they
\* are, and a probe slot the row had claimed stays claimed.  What raises may
\* also be the alarm about the row before, when nothing is claimed yet.
Abandon(c) ==
    /\ held[c] # {}
    /\ errors < MaxErrors
    /\ errors' = errors + 1
    /\ \/ UNCHANGED breaker
       \/ /\ stage[c] = "next" /\ c \in batchCfg /\ Allows(c)
          /\ breaker' = Claimed(c)
    /\ held' = [held EXCEPT ![c] = {}]
    /\ stage' = [stage EXCEPT ![c] = "next"]
    /\ UNCHANGED <<table, configured, working, batchCfg, snap, lag, history,
                   retries, crashes>>

\* The process dies and restarts: the table survives, nothing else does.
Crash ==
    /\ crashes < MaxCrashes
    /\ crashes' = crashes + 1
    /\ working' = FALSE
    /\ batchCfg' = {}
    /\ held' = [c \in Channels |-> {}]
    /\ snap' = [i \in Ids |-> 0]
    /\ stage' = [c \in Channels |-> "next"]
    /\ lag' = 0
    /\ breaker' = [c \in Channels |-> ClosedBreaker]
    /\ UNCHANGED <<table, configured, history, retries, errors>>

Tick ==
    /\ working => lag < MaxLag
    /\ lag' = IF working THEN lag + 1 ELSE lag
    /\ deliveries' = [i \in Ids |->
         IF Status(i) = "absent" THEN NoRow
         ELSE [deliveries[i] EXCEPT !.wait = Floor0(@ - 1), !.age = UpTo(@ + 1, AgeCap)]]
    /\ breaker' = [c \in Channels |-> [breaker[c] EXCEPT
                     !.openFor = IF @ = Closed THEN @ ELSE UpTo(@ + 1, OpenCap)]]
    /\ UNCHANGED <<nextId, old, configured, working, batchCfg, held, snap, stage,
                   history, bounds>>

DrainRow(c, i) ==
    /\ InHand(c, i)
    /\ \/ DropUnconfigured(c, i) \/ DeferForBreaker(c, i) \/ DeferForRate(c, i)
       \/ Post(c, i) \/ Answer(c, i) \/ BookSent(c, i) \/ BookFailed(c, i)

Drain(c) == \E i \in Ids : DrainRow(c, i)

Next ==
    \/ \E e \in Events, S \in SUBSET Channels : Enqueue(e, S)
    \/ \E i \in Ids : Retry(i)
    \/ \E e \in Events : PassCutoff(e) \/ Purge(e)
    \/ \E S \in Configs : Reload(S)
    \/ StartBatch \/ EndBatch
    \/ \E c \in Channels : Drain(c) \/ Abandon(c)
    \/ Crash
    \/ Tick

Spec == Init /\ [][Next]_vars

(***************************************************************************)
(* The loop runs on a timer, time passes and every post is answered within *)
(* its timeout.  Nobody promises an operator, a reload or a crash.         *)
(***************************************************************************)
FairSpec == /\ Spec
            /\ WF_vars(StartBatch) /\ WF_vars(EndBatch) /\ WF_vars(Tick)
            /\ \A c \in Channels : WF_vars(Drain(c))

-----------------------------------------------------------------------------
Breaker == [failures: 0..Threshold, openFor: {Closed} \cup (0..OpenCap), probe: BOOLEAN]

TypeOK ==
    /\ deliveries \in [Ids -> Row \cup {NoRow}]
    /\ nextId \in 1..(MaxRows + 1)
    /\ old \subseteq Events
    /\ configured \subseteq Channels /\ batchCfg \subseteq Channels
    /\ working \in BOOLEAN
    /\ held \in [Channels -> SUBSET Ids]
    /\ snap \in [Ids -> 0..MaxAttempts]
    /\ stage \in [Channels -> {"next", "posting", "ok", "failed"}]
    /\ lag \in 0..MaxLag
    /\ breaker \in [Channels -> Breaker]
    /\ tries \in [Ids -> Nat]
    /\ accepted \subseteq Ids
    /\ retries \in 0..MaxRetries /\ crashes \in 0..MaxCrashes /\ errors \in 0..MaxErrors

\* Every row the worker still holds in its snapshot is still owed: queued, on
\* the group's own channel, with the attempts the snapshot read.  mark_sent,
\* mark_failed and defer_delivery update by id alone and trust exactly this,
\* while the operator, retention and reload write the same table.
BatchStillOwed ==
    \A c \in Channels : \A i \in held[c] :
        /\ working
        /\ Status(i) = "queued"
        /\ deliveries[i].channel = c
        /\ deliveries[i].attempts = snap[i]

\* Deferring burns no attempt: a queued row has counted at most the posts it
\* really had since it was queued.
AttemptsPaidFor ==
    \A i \in Ids : Status(i) = "queued" => deliveries[i].attempts <= tries[i]

\* A row dies of its attempts only after that many posts, and otherwise only
\* because the batch's config has no such channel.
DeathIsEarned ==
    [][\A i \in Ids : Status(i) = "queued" /\ Status(i)' = "dead" =>
          tries[i] >= MaxAttempts \/ deliveries[i].channel \notin batchCfg]_vars

\* Seen through its status column alone, the table keeps the outbox's promise.
Ledger == INSTANCE Outbox WITH promise <- [i \in Ids |-> Status(i)]

ImplementsOutbox == Ledger!Spec

\* As long as no drain fails, every queued row is eventually settled, whatever
\* its channel does: backoff, rate limit and breaker only ever postpone.
Settles ==
    \A i \in Ids : Status(i) = "queued" ~> Status(i) # "queued" \/ errors > 0

=============================================================================
