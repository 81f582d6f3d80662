-------------------------------- MODULE Turn --------------------------------
(***************************************************************************)
(* One engine, several turns (hookprobe/engine.py, engine_codex.py,        *)
(* engine_pi.py, and the service's side of a stop).  A node takes up to    *)
(* max_concurrent turns at once through ONE engine object, which keeps ONE *)
(* handle to the turn in flight: the interrupt of the client it opened     *)
(* last.  A clock or an operator ends a turn by asking the engine to stop, *)
(* waiting a grace, and cancelling what did not wind down.                 *)
(***************************************************************************)
EXTENDS Integers, FiniteSets

CONSTANTS Turns,        \* turns, each of a session of its own
          Slots,        \* max_concurrent
          NoTurn        \* the handle between turns

VARIABLES phase,        \* turn -> queued, connecting, running, resulted, over
          handle,       \* the engine's one handle (_interrupt, _proc)
          asked,        \* turn -> who asked it to end: no, clock, operator
          grace,        \* the turns whose asker waits for them to wind down
          poked,        \* the turns the runtime was told to interrupt
          answer,       \* turn -> none, whole, cut (a clean finish of a turn cut short), error
          settled,      \* turn -> none, completed, failed
          billed        \* the turns whose cost arrived

turnVars == <<phase, handle, asked, grace, poked, answer, settled, billed>>

TurnInit == /\ phase = [t \in Turns |-> "queued"]
            /\ handle = NoTurn
            /\ asked = [t \in Turns |-> "no"]
            /\ grace = {} /\ poked = {} /\ billed = {}
            /\ answer = [t \in Turns |-> "none"]
            /\ settled = [t \in Turns |-> "none"]

InSlot == {t \in Turns : phase[t] \in {"connecting", "running", "resulted"}}

\* The semaphore, then run(): the handle is this turn's before it has connected.
TakeSlot(t) ==
    /\ phase[t] = "queued" /\ Cardinality(InSlot) < Slots
    /\ phase' = [phase EXCEPT ![t] = "connecting"]
    /\ handle' = t
    /\ UNCHANGED <<asked, grace, poked, answer, settled, billed>>

Connect(t) ==
    /\ phase[t] = "connecting"
    /\ phase' = [phase EXCEPT ![t] = "running"]
    /\ UNCHANGED <<handle, asked, grace, poked, answer, settled, billed>>

\* The runtime's last message: an interrupted turn may still report a clean finish.
Finish(t) ==
    /\ phase[t] = "running"
    /\ phase' = [phase EXCEPT ![t] = "resulted"]
    /\ answer' \in {[answer EXCEPT ![t] = a] :
                       a \in {"error", IF t \in poked THEN "cut" ELSE "whole"}}
    /\ UNCHANGED <<handle, asked, grace, poked, settled, billed>>

\* run() is left, whichever way: its finally clears the handle, whoever holds it by then.
Leave(t, how, paid) ==
    /\ phase' = [phase EXCEPT ![t] = "over"]
    /\ handle' = IF phase[t] = "queued" THEN handle ELSE NoTurn
    /\ settled' = [settled EXCEPT ![t] = how]
    /\ billed' = billed \cup (IF paid THEN {t} ELSE {})
    /\ grace' = grace \ {t}

\* After the context probe: a turn that ran out its clock is a failure whatever it says.
Return(t) ==
    /\ phase[t] = "resulted"
    /\ Leave(t, IF asked[t] = "clock" \/ answer[t] = "error" THEN "failed" ELSE "completed", TRUE)
    /\ UNCHANGED <<asked, poked, answer>>

\* connect() or the stream raised.
Crash(t) ==
    /\ phase[t] \in {"connecting", "running"}
    /\ Leave(t, "failed", FALSE)
    /\ UNCHANGED <<asked, poked, answer>>

\* stop(): the handle's turn is interrupted, if there is one and it has connected;
\* with nothing to interrupt the asker cancels its own turn.
AskToStop(t, who) ==
    /\ asked' = [asked EXCEPT ![t] = who]
    /\ \/ /\ handle # NoTurn /\ phase[handle] \in {"running", "resulted"}
          /\ poked' = poked \cup {handle}
          /\ grace' = grace \cup {t}
          /\ UNCHANGED <<phase, handle, settled, billed>>
       \/ /\ handle # NoTurn => phase[handle] = "connecting"
          /\ Leave(t, "failed", FALSE)
          /\ UNCHANGED poked
    /\ UNCHANGED answer

\* The clock starts with the slot; an operator may stop a turn still in the queue.
ClockRunsOut(t) == asked[t] = "no" /\ t \in InSlot /\ AskToStop(t, "clock")
OperatorStops(t) == asked[t] = "no" /\ phase[t] # "over" /\ AskToStop(t, "operator")

\* It did not wind down within the grace: cancelled, and its bill with it.
GraceEnds(t) == /\ t \in grace
                /\ Leave(t, "failed", FALSE)
                /\ UNCHANGED <<asked, poked, answer>>

TurnNext == \E t \in Turns : \/ TakeSlot(t) \/ Connect(t) \/ Finish(t) \/ Return(t) \/ Crash(t)
                             \/ ClockRunsOut(t) \/ OperatorStops(t) \/ GraceEnds(t)

TurnSpec == TurnInit /\ [][TurnNext]_turnVars

-----------------------------------------------------------------------------
\* Asking one turn to stop interrupts no other (engine.py: an engine instance runs one
\* turn at a time, so its one handle is the turn that is to stop).
OnlyTheAskedAreInterrupted == \A t \in poked : asked[t] # "no"
=============================================================================
