--------------------------------- MODULE Vigil ---------------------------------
(***************************************************************************)
(* What the worker loop sees only by asking the ledger on a clock          *)
(* (hookrelay/app.py, store.py): alerts delivered that nobody touched,     *)
(* sent once more elsewhere, and doors expected to speak that did not.     *)
(*                                                                         *)
(* One loop, one alert, one door; a person, the doors and the deliveries   *)
(* move between any two of its awaits, and the process may die there.      *)
(*                                                                         *)
(* And the self-alarm of the pipe and of the judge (hookrelay/alarm.py and *)
(* its twin hookjudge/alarm.py): a failure the pipe cannot carry is posted *)
(* straight to a chat, at most once in a quiet window, and a message says  *)
(* how many were folded into it.  Failures are told by concurrent tasks; a *)
(* post is awaited, for longer than the window perhaps.                    *)
(***************************************************************************)
EXTENDS Integers, FiniteSets, FiniteSetsExt

CONSTANTS
    ColdAfter,      \* escalation.after_minutes
    Expected,       \* expect_every_seconds of the door
    MaxTime,        \* bound: the clock
    MaxDeaths,      \* bound: restarts
    Failures,       \* dead letters, dead returns, lost alerts, failing providers
    MinInterval,    \* alarm_min_interval_seconds
    AlarmTime       \* bound: the clock of the self-alarm

VigilAssumption ==
    /\ {ColdAfter, MaxTime, MaxDeaths, MinInterval, AlarmTime} \subseteq Nat
    /\ Expected \in Nat \ {0}

VARIABLES
    hour,       \* now
    alert,      \* the alert: sent or not, touched, escalated_at stamped
    again,      \* deliveries the escalation queued
    spoke,      \* when the door last spoke, -1 for never
    claimed,    \* the absences row
    alarms,     \* history: alarms raised, by the last word of the door they are about
    loop,       \* where the loop is, the clock and the last word it read
    deaths
VARIABLES
    moment,     \* now
    lastSent,   \* when the last message went, or long ago
    suppressed, \* failures folded into the next message
    failure,    \* each failure: not yet, held back, being posted with so many, over
    reported    \* history: failures that a delivered message stands for

vigilVars == <<hour, alert, again, spoke, claimed, alarms, loop, deaths>>
alarmVars == <<moment, lastSent, suppressed, failure, reported>>

Rest == [pc |-> "idle", now |-> 0, last |-> -1]

VigilInit ==
    /\ hour = 0 /\ alert = [sent |-> FALSE, touched |-> FALSE, stamped |-> FALSE]
    /\ again = 0 /\ spoke = -1 /\ claimed = FALSE
    /\ alarms = [t \in 0..MaxTime |-> 0]
    /\ loop = Rest /\ deaths = 0

At(pc) == loop' = [loop EXCEPT !.pc = pc]

-----------------------------------------------------------------------------
Hour == hour < MaxTime /\ hour' = hour + 1
        /\ UNCHANGED <<alert, again, spoke, claimed, alarms, loop, deaths>>

Delivered == ~alert.sent /\ alert' = [alert EXCEPT !.sent = TRUE]
             /\ UNCHANGED <<hour, again, spoke, claimed, alarms, loop, deaths>>

\* A button of its card is pressed: a row in card_actions.
Touched == alert.sent /\ ~alert.touched /\ alert' = [alert EXCEPT !.touched = TRUE]
           /\ UNCHANGED <<hour, again, spoke, claimed, alarms, loop, deaths>>

Speaks == spoke # hour /\ spoke' = hour
          /\ UNCHANGED <<hour, alert, again, claimed, alarms, loop, deaths>>

-----------------------------------------------------------------------------
Begin == loop.pc = "idle" /\ loop' = [Rest EXCEPT !.pc = "cold", !.now = hour]
         /\ UNCHANGED <<hour, alert, again, spoke, claimed, alarms, deaths>>

\* cold_events: delivered, untouched, not stamped, old enough (it came at 0).
ColdEvents ==
    /\ loop.pc = "cold"
    /\ At(IF alert.sent /\ ~alert.touched /\ ~alert.stamped /\ loop.now >= ColdAfter
          THEN "stamp" ELSE "absence")
    /\ UNCHANGED <<hour, alert, again, spoke, claimed, alarms, deaths>>

\* mark_escalated, before anything is queued.
MarkEscalated ==
    /\ loop.pc = "stamp" /\ At("requeue")
    /\ alert' = [alert EXCEPT !.stamped = TRUE]
    /\ UNCHANGED <<hour, again, spoke, claimed, alarms, deaths>>

EscalateCold ==
    /\ loop.pc = "requeue" /\ At("absence")
    /\ again' = again + 1
    /\ UNCHANGED <<hour, alert, spoke, claimed, alarms, deaths>>

\* last_event_at: a door that never spoke is not late; one in time is forgiven.
LastEventAt ==
    /\ loop.pc = "absence"
    /\ IF spoke # -1 /\ loop.now - spoke > Expected
       THEN loop' = [loop EXCEPT !.pc = "claim", !.last = spoke] /\ UNCHANGED claimed
       ELSE loop' = Rest /\ claimed' = (claimed /\ spoke = -1)
    /\ UNCHANGED <<hour, alert, again, spoke, alarms, deaths>>

\* Seeded fault: the row is written, and nobody asks whether it was there.
ClaimAbsenceAnyway ==
    /\ loop.pc = "claim" /\ At("alarm")
    /\ claimed' = TRUE
    /\ UNCHANGED <<hour, alert, again, spoke, alarms, deaths>>

\* claim_absence: the first tick to notice, before the alarm is raised.
ClaimAbsence ==
    /\ loop.pc = "claim" 
    /\ IF claimed THEN loop' = Rest ELSE At("alarm")
    /\ claimed' = TRUE
    /\ UNCHANGED <<hour, alert, again, spoke, alarms, deaths>>

AlarmAbsent ==
    /\ loop.pc = "alarm" /\ loop' = Rest
    /\ alarms' = [alarms EXCEPT ![loop.last] = @ + 1]
    /\ UNCHANGED <<hour, alert, again, spoke, claimed, deaths>>

RelayRestarts ==
    /\ loop.pc # "idle" /\ deaths < MaxDeaths
    /\ loop' = Rest /\ deaths' = deaths + 1
    /\ UNCHANGED <<hour, alert, again, spoke, claimed, alarms>>

VigilNext ==
    \/ Hour \/ Delivered \/ Touched \/ Speaks \/ RelayRestarts
    \/ Begin \/ ColdEvents \/ MarkEscalated \/ EscalateCold
    \/ LastEventAt \/ ClaimAbsence \/ AlarmAbsent

VigilSpec == VigilInit /\ [][VigilNext]_vigilVars

-----------------------------------------------------------------------------
\* Wherever the loop dies, a cold alert is escalated at most once and one silence
\* of a door alarms at most once: a missed alarm, never one per tick.
SaidOnce == again <= 1 /\ \A last \in DOMAIN alarms : alarms[last] <= 1

-----------------------------------------------------------------------------
\* The self-alarm.

Never == -1 - MinInterval

AlarmInit ==
    /\ moment = 0 /\ lastSent = Never /\ suppressed = 0 /\ reported = 0
    /\ failure = [f \in Failures |-> [at |-> "none", held |-> 0]]

Passes ==
    /\ moment < AlarmTime /\ moment' = moment + 1
    /\ UNCHANGED <<lastSent, suppressed, failure, reported>>

\* _send, up to the post: inside the window it is counted, past it the count
\* goes with this one.
Send(f) ==
    /\ failure[f].at = "none"
    /\ IF moment - lastSent < MinInterval
       THEN /\ suppressed' = suppressed + 1
            /\ failure' = [failure EXCEPT ![f].at = "held"]
            /\ UNCHANGED lastSent
       ELSE /\ failure' = [failure EXCEPT ![f] = [at |-> "posting", held |-> suppressed]]
            /\ suppressed' = 0 /\ lastSent' = moment
    /\ UNCHANGED <<moment, reported>>

\* post_with_retries: any answer is the channel speaking.
Answered(f) ==
    /\ failure[f].at = "posting"
    /\ reported' = reported + failure[f].held + 1
    /\ failure' = [failure EXCEPT ![f] = [at |-> "over", held |-> 0]]
    /\ UNCHANGED <<moment, lastSent, suppressed>>

\* Seeded fault: the count is cleared on the way in and never given back.
ConnectionFailsQuietly(f) ==
    /\ failure[f].at = "posting"
    /\ lastSent' = Never
    /\ failure' = [failure EXCEPT ![f] = [at |-> "over", held |-> 0]]
    /\ UNCHANGED <<moment, suppressed, reported>>

\* Every attempt failed: the next failure tries again, and the count is given
\* back, this failure with it.
ConnectionFails(f) ==
    /\ failure[f].at = "posting"
    /\ lastSent' = Never /\ suppressed' = suppressed + failure[f].held + 1
    /\ failure' = [failure EXCEPT ![f] = [at |-> "held", held |-> 0]]
    /\ UNCHANGED <<moment, reported>>

AlarmNext == Passes \/ \E f \in Failures : Send(f) \/ Answered(f) \/ ConnectionFails(f)

AlarmSpec == AlarmInit /\ [][AlarmNext]_alarmVars

-----------------------------------------------------------------------------
\* Throttling never hides the scale: every failure is in a message delivered or
\* on its way, or counted for the next, whatever overlaps and fails meanwhile.
NoneUncounted ==
    Cardinality({f \in Failures : failure[f].at # "none"}) =
        reported + suppressed
            + MapThenSumSet(LAMBDA f : failure[f].held + 1, {f \in Failures : failure[f].at = "posting"})
=============================================================================
