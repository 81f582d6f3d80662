--------------------------------- MODULE Fold ---------------------------------
(***************************************************************************)
(* One card per condition per window (hookrelay/processors.py,             *)
(* FoldProcessor), and the sweep that tells a person of the firing the     *)
(* fold held back behind a recovery card (pipeline.py, settle_folds).      *)
(*                                                                         *)
(* One condition of one source.  Arrivals run concurrently: each reads the *)
(* condition's ledger, walks the later stages, which may skip it, and is   *)
(* recorded.  The unit of time is the sweep's cadence.                     *)
(***************************************************************************)
EXTENDS Integers, Sequences, FiniteSets, FiniteSetsExt

CONSTANTS
    Window, Ceiling,    \* window_seconds, max_window_seconds
    Slots,              \* events in hand at once
    MaxTime, MaxEvents  \* bounds: the clock, events

FoldAssumption ==
    /\ Window \in Nat \ {0} /\ Ceiling \in Nat /\ Ceiling >= Window
    /\ {MaxTime, MaxEvents} \subseteq Nat

VARIABLES
    clock,      \* now
    events,     \* the condition's events by id: when, recovery or firing, the decision
    inHand,     \* arrivals between the fold's read and their record
    sweep,      \* the sweep: candidates left, the one walking
    nextSettle, \* when the next sweep is due
    swept       \* history: the clock and the ledger's length of the last sweep's read

foldVars == <<clock, events, inHand, sweep, nextSettle, swept>>

NoEvent == [at |-> -1, recovery |-> FALSE, verdict |-> "none"]
NoSweep == [left |-> {}, at |-> 0]

FoldInit ==
    /\ clock = 0 /\ events = <<>> /\ nextSettle = 0 /\ sweep = NoSweep
    /\ inHand = [s \in Slots |-> NoEvent]
    /\ swept = [now |-> 0, upTo |-> 0]

-----------------------------------------------------------------------------
\* fold_look_back: doublings of the window up to the ceiling, and one more.
LookBack == LET doublings == Min({n \in 0..Ceiling : Window * 2^n >= Ceiling})
            IN (doublings + 1) * 2 * Ceiling

\* condition_ledger: routed or folded under this stage's code, not too long ago.
History == {i \in DOMAIN events : events[i].outcome \in {"routed", "folded"}
                                  /\ events[i].at >= clock - LookBack}
Cards   == {i \in History : events[i].outcome = "routed"}
LastCardRecovers == Cards # {} /\ events[Max(Cards)].recovery

\* _widened: the window doubles with every card of the condition's current run.
Widened ==
    LET after(i) == IF i = Max(Cards) THEN clock ELSE events[Min({j \in Cards : j > i})].at
        run      == {i \in Cards : \A j \in Cards : j >= i => after(j) - events[j].at <= 2 * Ceiling}
    IN Min({Ceiling, Window * 2^(Max({0, Cardinality(run) - 1}))})

\* A recovery the person is waiting for goes at once; anything else folds while
\* the last card's window is open.
Folds(recovery) ==
    /\ Cards # {} /\ clock - events[Max(Cards)].at <= Widened
    /\ ~(recovery /\ ~LastCardRecovers)

\* The fold reads the ledger, and what passes walks on.
Read(s, recovery) ==
    /\ inHand[s] = NoEvent
    /\ Len(events) + Cardinality({q \in Slots : inHand[q] # NoEvent}) < MaxEvents
    /\ inHand' = [inHand EXCEPT ![s] = [at |-> clock, recovery |-> recovery,
                                        verdict |-> IF Folds(recovery) THEN "folded" ELSE "pass"]]
    /\ UNCHANGED <<clock, events, sweep, nextSettle, swept>>

\* _record: event, decision and deliveries in one transaction.
Record(s, outcome) ==
    /\ inHand[s] # NoEvent
    /\ IF inHand[s].verdict = "folded" THEN outcome = "folded" ELSE outcome \in {"routed", "skipped"}
    /\ events' = Append(events, [at |-> inHand[s].at, recovery |-> inHand[s].recovery, outcome |-> outcome])
    /\ inHand' = [inHand EXCEPT ![s] = NoEvent]
    /\ UNCHANGED <<clock, sweep, nextSettle, swept>>

-----------------------------------------------------------------------------
\* Seeded fault: a later firing starts the wait again.
CandidatesNewest ==
    {i \in DOMAIN events : i = Len(events) /\ events[i].outcome = "folded" /\ ~events[i].recovery
                           /\ events[i].at <= clock - Window}

\* fold_candidates: held firings a window old, no recovery of any kind after.
Candidates ==
    {i \in DOMAIN events :
        /\ events[i].outcome = "folded" /\ ~events[i].recovery
        /\ events[i].at >= clock - LookBack /\ events[i].at <= clock - Window
        /\ \A j \in DOMAIN events : j > i => ~events[j].recovery}

SweepBegins ==
    /\ clock >= nextSettle /\ sweep = NoSweep
    /\ nextSettle' = clock + 1
    /\ sweep' = [left |-> Candidates, at |-> 0]
    /\ swept' = [now |-> clock, upTo |-> Len(events)]
    /\ UNCHANGED <<clock, events, inHand>>

\* Oldest first; one whose condition's last card says firing is left alone.
SweepReads ==
    /\ sweep.left # {} /\ sweep.at = 0
    /\ LET i == Min(sweep.left)
       IN sweep' = IF LastCardRecovers THEN [left |-> sweep.left, at |-> i]
                   ELSE [left |-> sweep.left \ {i}, at |-> 0]
    /\ UNCHANGED <<clock, events, inHand, nextSettle, swept>>

\* settle_folded: the decision is rewritten while it is still held.
SweepWrites(outcome) ==
    /\ sweep.at # 0
    /\ events' = [events EXCEPT ![sweep.at].outcome = IF @ = "folded" THEN outcome ELSE @]
    /\ sweep' = [left |-> sweep.left \ {sweep.at}, at |-> 0]
    /\ UNCHANGED <<clock, inHand, nextSettle, swept>>

\* The loop goes round before the next sweep is due.
Tick ==
    /\ clock < MaxTime /\ nextSettle > clock
    /\ clock' = clock + 1
    /\ UNCHANGED <<events, inHand, sweep, nextSettle, swept>>

FoldNext ==
    \/ \E s \in Slots : \/ \E recovery \in BOOLEAN : Read(s, recovery)
                        \/ \E o \in {"folded", "routed", "skipped"} : Record(s, o)
    \/ SweepBegins \/ SweepReads \/ Tick
    \/ \E o \in {"routed", "skipped"} : SweepWrites(o)

FoldSpec == FoldInit /\ [][FoldNext]_foldVars

-----------------------------------------------------------------------------
\* A condition that came back and stayed is told: once a sweep has passed over a
\* firing held for a window, with no recovery after it, the condition's last card no
\* longer says that it ended, whatever fired, arrived or was skipped meanwhile.  A
\* card older than the look-back is out of the sweep's sight, and says nothing here.
FiringIsTold ==
    sweep = NoSweep =>
        \A i \in 1..swept.upTo :
            /\ events[i].outcome = "folded" /\ ~events[i].recovery
            /\ events[i].at <= swept.now - Window /\ events[i].at >= swept.now - LookBack
            /\ \A j \in DOMAIN events : j > i => ~events[j].recovery
            => \A c \in DOMAIN events :
                   /\ events[c].outcome = "routed" /\ events[c].at >= clock - LookBack
                   /\ \A j \in DOMAIN events : j > c => events[j].outcome # "routed"
                   => ~events[c].recovery
=============================================================================
