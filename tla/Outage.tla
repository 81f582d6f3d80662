------------------------------- MODULE Outage -------------------------------
(***************************************************************************)
(* When an investigation node says, around the pipe, that it is not        *)
(* working (hookprobe/service.py, notify.py; the words it listens for are  *)
(* tables of engine.py).  A failed run is about itself, about the node, or *)
(* one more of a row of momentary failures; a landing ends the row; the    *)
(* selftest asks on a clock.  All of it goes out on one channel with one   *)
(* quiet window, and a post takes time, is tried again where the           *)
(* connection did not happen, and may fail.                                *)
(***************************************************************************)
EXTENDS Integers, FiniteSets

CONSTANTS Kinds,            \* the shapes of a momentary failure
          NoKind,
          RecurringAfter,   \* so many in a row are news
          RecurringQuiet,   \* and for so long not news again
          Window,           \* the channel's quiet window
          Retries,          \* more tries of a post
          MaxTime, MaxRestarts, MaxStreak, MaxHeld

OutageAssumption ==
    /\ NoKind \notin Kinds
    /\ RecurringAfter \in Nat \ {0} /\ RecurringQuiet \in Nat /\ Window \in Nat
    /\ Retries \in Nat /\ MaxTime \in Nat /\ MaxRestarts \in Nat /\ MaxStreak \in Nat
    /\ MaxHeld \in Nat

VARIABLES clock,
          streak,       \* the row of like failures
          pagedAt,      \* kind -> when a row of it was last said
          lastSent,     \* when the channel was last used; Never once a post failed
          heldBack,     \* what the quiet window swallowed
          posting,      \* posts under way
          heard,        \* when the channel last delivered one
          restarts

outageVars == <<clock, streak, pagedAt, lastSent, heldBack, posting, heard, restarts>>

Never == 0 - RecurringQuiet - Window

NoStreak == [kind |-> NoKind, count |-> 0, paged |-> FALSE]

OutageInit ==
    /\ clock = 0
    /\ streak = NoStreak /\ pagedAt = [k \in Kinds |-> Never]
    /\ lastSent = Never /\ heldBack = 0 /\ posting = {} /\ heard = Never
    /\ restarts = 0

-----------------------------------------------------------------------------
Quiet == clock - lastSent < Window

\* ReturnDelivery.alarm, up to its post; the task that carries it starts in the order it
\* was asked for.
Alarm ==
    IF Quiet
    THEN /\ heldBack < MaxHeld /\ heldBack' = heldBack + 1
         /\ UNCHANGED <<lastSent, posting>>
    ELSE /\ heldBack' = 0 /\ lastSent' = clock
         /\ posting' = posting \cup {[at |-> clock, tries |-> 0]}

Silence == UNCHANGED <<lastSent, heldBack, posting>>

\* A failure every run here would share.
NodeWideFailure == Alarm /\ UNCHANGED <<clock, streak, pagedAt, heard, restarts>>

Counted(k) == IF streak.kind = k THEN [streak EXCEPT !.count = @ + 1]
              ELSE [kind |-> k, count |-> 1, paged |-> FALSE]

Recurring(k) == Counted(k).count >= RecurringAfter /\ clock - pagedAt[k] >= RecurringQuiet

\* The page is marked whether or not the channel lets it through.
TransientFailure(k) ==
    /\ Counted(k).count <= MaxStreak
    /\ streak' = IF Recurring(k) THEN [Counted(k) EXCEPT !.paged = TRUE] ELSE Counted(k)
    /\ IF Recurring(k)
       THEN Alarm /\ pagedAt' = [pagedAt EXCEPT ![k] = clock]
       ELSE Silence /\ UNCHANGED pagedAt
    /\ UNCHANGED <<clock, heard, restarts>>

\* _note_landed.
RunLands ==
    /\ streak' = NoStreak
    /\ IF streak.paged THEN Alarm ELSE Silence
    /\ UNCHANGED <<clock, pagedAt, heard, restarts>>

\* Watch.once with a check that failed.
SelftestFails == Alarm /\ UNCHANGED <<clock, streak, pagedAt, heard, restarts>>

Delivered(p) ==
    /\ posting' = posting \ {p} /\ heard' = clock
    /\ UNCHANGED <<clock, streak, pagedAt, lastSent, heldBack, restarts>>

TriedAgain(p) ==
    /\ p.tries < Retries
    /\ posting' = (posting \ {p}) \cup {[p EXCEPT !.tries = @ + 1]}
    /\ UNCHANGED <<clock, streak, pagedAt, lastSent, heldBack, heard, restarts>>

\* The bug this channel has a line for: a post that failed had the window opened.
LostQuietly(p) ==
    /\ posting' = posting \ {p}
    /\ UNCHANGED <<clock, streak, pagedAt, lastSent, heldBack, heard, restarts>>

\* The channel answered and refused, or the tries are gone.  What it had folded is gone too.
Lost(p) ==
    /\ posting' = posting \ {p} /\ lastSent' = Never
    /\ UNCHANGED <<clock, streak, pagedAt, heldBack, heard, restarts>>

\* All of it is the process's memory.
NodeRestarts ==
    /\ restarts < MaxRestarts /\ restarts' = restarts + 1
    /\ streak' = NoStreak /\ pagedAt' = [k \in Kinds |-> Never]
    /\ lastSent' = Never /\ heldBack' = 0 /\ posting' = {}
    /\ UNCHANGED <<clock, heard>>

Tick == /\ clock < MaxTime /\ clock' = clock + 1
        /\ UNCHANGED <<streak, pagedAt, lastSent, heldBack, posting, heard, restarts>>

OutageNext ==
    \/ NodeWideFailure \/ SelftestFails
    \/ \E k \in Kinds : TransientFailure(k)
    \/ RunLands
    \/ \E p \in posting : Delivered(p) \/ TriedAgain(p) \/ Lost(p)
    \/ NodeRestarts \/ Tick

-----------------------------------------------------------------------------
\* The channel keeps quiet only on what somebody heard, or may yet: within a quiet window
\* a post is under way or one of that window was delivered, so an outage that outlives a
\* lost alarm is said by the next failure (ReturnDelivery.alarm).
QuietIsEarned == Quiet => posting # {} \/ heard >= lastSent
=============================================================================
