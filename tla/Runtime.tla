------------------------------ MODULE Runtime ------------------------------
(***************************************************************************)
(* The adapter between an investigation node and the program that runs a   *)
(* turn (hookprobe/engine.py, engine_codex.py, engine_pi.py,               *)
(* engine_replay.py; the contract is on service.Engine).  Three runtimes   *)
(* and a rehearsal: claude inside the process, codex and pi as children    *)
(* that spawn the tool gate for every call, replay with nobody behind it.  *)
(*                                                                         *)
(* A node has one runtime for its life and takes turns of one run or of    *)
(* several, side by side.  Whether the gate can be spawned is the machine's*)
(* to change; what a child writes on its output is folded as it comes.     *)
(***************************************************************************)
EXTENDS Integers, FiniteSets

CONSTANTS Turns,
          NoId,
          MaxCalls,     \* tool calls of a turn
          MaxDeaths     \* restarts of the service

RuntimeAssumption == /\ NoId \notin Turns
                     /\ MaxCalls \in Nat /\ MaxDeaths \in Nat

VARIABLES kind,         \* claude, codex, pi or replay
          spawns,       \* the gate can be spawned and refuses what it must
          proven,       \* verify_gate has seen it refuse, in this life of the service
          broken,       \* a turn ran ungated: no more turns, in this life
          turn,         \* turn -> its stream so far
          row,          \* turn -> what the run's file says of it
          noted,        \* turn -> the rows the audit has of it
          after,        \* turn -> the turns that had shown themselves ungated when it began
          deaths

runtimeVars == <<kind, spawns, proven, broken, turn, row, noted, after, deaths>>

Spawned == kind \in {"codex", "pi"}

\* spoken: the runtime named its session; calls: the tools it has run.
Silent == [at |-> "idle", spoken |-> FALSE, calls |-> 0]

\* What a whole stream comes to: the runtime gave an answer, it said that it failed, it
\* counted the tokens it used.
Streams == [text : BOOLEAN, failing : BOOLEAN, tokens : BOOLEAN]

RuntimeInit ==
    /\ kind \in {"claude", "codex", "pi", "replay"}
    /\ spawns \in BOOLEAN /\ proven = FALSE /\ broken = FALSE
    /\ turn = [t \in Turns |-> Silent]
    /\ row = [t \in Turns |-> [session |-> NoId, status |-> "running", cost |-> "none", tokens |-> FALSE]]
    /\ noted = [t \in Turns |-> 0]
    /\ after = [t \in Turns |-> {}]
    /\ deaths = 0

Live(t) == turn[t].at = "live"

\* The turns known to have run tools with nothing on record, in this life.
Ungated == {t \in Turns : turn[t].at = "checked" /\ turn[t].calls > 0 /\ noted[t] = 0}

-----------------------------------------------------------------------------
\* The handle is on disk the moment the runtime speaks it (on_event, checkpoint).
Handle(t) == row' = [row EXCEPT ![t].session = t]

Fail(t) == row' = [row EXCEPT ![t].status = "failed"]

\* verify_gate: what a turn ran ungated is not proven again in this life.
Verified == ~Spawned \/ (~broken /\ (proven \/ spawns))

ClaudeBegins(t) == /\ kind = "claude"
                   /\ turn' = [turn EXCEPT ![t].at = "live"]
                   /\ UNCHANGED <<proven, row>>

\* The rehearsal says its id before anything else.
RehearsalBegins(t) == /\ kind = "replay"
                      /\ turn' = [turn EXCEPT ![t].at = "live", ![t].spoken = TRUE]
                      /\ Handle(t)
                      /\ UNCHANGED proven

\* A home the adapter owns, a gate that was seen to refuse, then the child.
ChildBegins(t) == /\ Spawned /\ Verified /\ proven' = TRUE
                  /\ turn' = [turn EXCEPT ![t].at = "live"]
                  /\ UNCHANGED row

Begin(t) ==
    /\ turn[t].at = "idle"
    /\ ClaudeBegins(t) \/ RehearsalBegins(t) \/ ChildBegins(t)
    /\ after' = [after EXCEPT ![t] = Ungated]
    /\ UNCHANGED <<kind, spawns, broken, noted, deaths>>

\* The run fails with the reason; nothing was spawned and nothing was billed.
RefuseTurn(t) ==
    /\ turn[t].at = "idle" /\ ~Verified
    /\ turn' = [turn EXCEPT ![t].at = "over"]
    /\ Fail(t)
    /\ UNCHANGED <<kind, spawns, proven, broken, noted, after, deaths>>

SayId(t) ==
    /\ Live(t) /\ ~turn[t].spoken
    /\ turn' = [turn EXCEPT ![t].spoken = TRUE]
    /\ Handle(t)
    /\ UNCHANGED <<kind, spawns, proven, broken, noted, after, deaths>>

\* A call runs.  Where the gate cannot be spawned the runtime logs that and carries on; a
\* gate that ran may still fail to write its row.
Call(t) ==
    /\ Live(t) /\ turn[t].calls < MaxCalls
    /\ turn' = [turn EXCEPT ![t].calls = @ + 1]
    /\ \/ /\ spawns \/ ~Spawned
          /\ noted' = [noted EXCEPT ![t] = @ + 1]
       \/ UNCHANGED noted
    /\ UNCHANGED <<kind, spawns, proven, broken, row, after, deaths>>

-----------------------------------------------------------------------------

\* engine.priced: a zero with tokens behind it is nobody's count.
Priced(reported, tokens) == IF reported = "zero" /\ tokens THEN "none" ELSE reported

\* codex counts no money; pi and claude price from a table that may not have the model;
\* the rehearsal is free and may say so.
Reported == CASE kind = "codex"  -> {"none"}
                 [] kind = "replay" -> {"zero"}
                 [] OTHER           -> {"none", "zero", "some"}

\* service._turn_cost: the operator's rates over the tokens counted, or what was reported.
TurnCost(heard, rated) == IF rated /\ heard.tokens THEN {"some"}
                          ELSE {Priced(c, heard.tokens) : c \in Reported}

\* Claude's last message says itself whether the turn failed; a stream may end without one.
ClaudeAnswered(heard, exit) == exit = "good" /\ heard.text /\ ~heard.failing

\* A child that exits badly has failed whatever it said; one that said something has
\* answered, its notices notwithstanding.
ChildAnswered(heard, exit) == exit = "good" /\ heard.text

Answered(heard, exit) == CASE kind = "claude" -> ClaudeAnswered(heard, exit)
                           [] kind = "replay" -> exit = "good"
                           [] OTHER           -> ChildAnswered(heard, exit)

\* _check_gate_was_consulted, once the child's output has ended.
Consulted(t) == ~Spawned \/ turn[t].calls = 0 \/ noted[t] > 0

\* The gate only has to prove itself again.
ConsultedOrProven(t) == Consulted(t) \/ spawns

CheckLoosely(t) == /\ broken' = (broken \/ ~ConsultedOrProven(t))
                   /\ proven' = (proven /\ Consulted(t))

Check(t) == /\ broken' = (broken \/ ~Consulted(t))
            /\ proven' = (proven /\ Consulted(t))

\* What the turn comes to is booked: its end, its price, whether it used tokens.
Book(t, heard, exit) ==
    \E rated \in BOOLEAN : \E c \in TurnCost(heard, rated) :
       row' = [row EXCEPT ![t].status = IF Answered(heard, exit) THEN "completed" ELSE "failed",
                          ![t].cost = c, ![t].tokens = heard.tokens]

ClaudeEnds(t) == /\ kind = "claude"
                 /\ \E heard \in Streams, exit \in {"good", "none"} : Book(t, heard, exit)

\* The scripts have their report, and tokens nobody used; a stop is said as an error.
RehearsalEnds(t) == /\ kind = "replay"
                    /\ \E exit \in {"good", "stopped"} :
                          Book(t, [text |-> TRUE, failing |-> FALSE, tokens |-> FALSE], exit)

\* The output ends, the exit is known, the gate is asked after.
ChildEnds(t) == /\ Spawned
                /\ \E heard \in Streams, exit \in {"good", "bad"} : Book(t, heard, exit)

End(t) ==
    /\ Live(t)
    /\ turn' = [turn EXCEPT ![t].at = "checked"]
    /\ Check(t)
    /\ ClaudeEnds(t) \/ RehearsalEnds(t) \/ ChildEnds(t)
    /\ UNCHANGED <<kind, spawns, noted, after, deaths>>

\* The turn is cancelled, or reading its output raised: nothing is checked or counted.
Cut(t) ==
    /\ Live(t)
    /\ turn' = [turn EXCEPT ![t].at = "over"]
    /\ Fail(t)
    /\ UNCHANGED <<kind, spawns, proven, broken, noted, after, deaths>>

\* The service dies with its children; a fresh process has proven nothing.
Die ==
    /\ deaths < MaxDeaths /\ deaths' = deaths + 1
    /\ proven' = FALSE /\ broken' = FALSE
    /\ turn' = [t \in Turns |-> IF turn[t].at = "idle" THEN turn[t] ELSE [turn[t] EXCEPT !.at = "over"]]
    /\ UNCHANGED <<kind, spawns, row, noted, after>>

\* The machine: an interpreter or a package that is there, and is not.
Machine == /\ spawns' = ~spawns
           /\ UNCHANGED <<kind, proven, broken, turn, row, noted, after, deaths>>

RuntimeNext ==
    \/ \E t \in Turns : \/ Begin(t) \/ RefuseTurn(t) \/ SayId(t) \/ Call(t)
                        \/ End(t) \/ Cut(t)
    \/ Die \/ Machine

-----------------------------------------------------------------------------
\* A turn that ran tools and left nothing on record is the last the node takes: no turn
\* begins once one has shown itself ungated (_check_gate_was_consulted).
UngatedIsTheLast == \A t \in Turns : Spawned => after[t] = {}

=============================================================================
