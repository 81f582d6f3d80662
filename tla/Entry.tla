-------------------------------- MODULE Entry ---------------------------------
(***************************************************************************)
(* How an event enters the pipe: the front door, the configuration it is   *)
(* read under, its walk through the stages, the thread a reply belongs to, *)
(* and what a node it reaches answers without an engine.                   *)
(*                                                                         *)
(* They share no state.  One behaviour here is a behaviour of one of them: *)
(* the initial state picks the part that runs, the others rest.  So one    *)
(* run checks them all and one module proves about them.                   *)
(***************************************************************************)
EXTENDS FrontDoor

CONSTANTS
    \* Config
    Documents, Edits, Keys,
    \* Walk
    Stages, RouteTable, Doors, Titles, Levels, Values, Sampled, Slots, WalkTime, WalkEvents,
    MaxSilences,
    \* Thread
    Topics, ChatEvents,
    \* Refire
    AlertDoors, Severities, RunKinds, Coalesce, RefireWindow, MaxAnswers, AnswerWindow, RulingTtl,
    Reverify, RecoveryWindow, GateAgent, RefireTime, MaxRuns

VARIABLES part,         \* the part this behaviour is about
          file, running, writable, edited,                          \* Config
          minute, silences, walking, decisions,                     \* Walk
          ledger, runs, reply, budget,                              \* Thread
          instant, records, opinions, cases, ends                   \* Refire

K == INSTANCE Config
L == INSTANCE Walk WITH Pipeline <- Stages, Routes <- RouteTable, Sources <- Doors,
        MaxTime <- WalkTime, MaxEvents <- WalkEvents
T == INSTANCE Thread WITH MaxEvents <- ChatEvents
F == INSTANCE Refire WITH now <- instant, runs <- records, rulings <- opinions,
        recoveries <- ends, Sources <- AlertDoors, Levels <- Severities, Kinds <- RunKinds,
        MaxTime <- RefireTime

ASSUME EntryAssumption ==
    K!ConfigAssumption /\ L!WalkAssumption /\ T!ThreadAssumption /\ F!RefireAssumption

Parts == {"door", "config", "walk", "thread", "refire"}

configVars == <<file, running, writable, edited>>
walkVars == <<minute, silences, walking, decisions>>
threadVars == <<ledger, runs, reply, budget>>
refireVars == <<instant, records, opinions, cases, ends>>

\* What a part holds that does not run.
ConfigRests == file = 0 /\ running = 0 /\ writable = 0 /\ edited = 0
WalkRests == minute = 0 /\ silences = 0 /\ walking = 0 /\ decisions = 0
ThreadRests == ledger = 0 /\ runs = 0 /\ reply = 0 /\ budget = 0
RefireRests == instant = 0 /\ records = 0 /\ opinions = 0 /\ cases = 0 /\ ends = 0

EntryInit ==
    /\ part \in Parts
    /\ Init
    /\ IF part = "config" THEN K!ConfigInit ELSE ConfigRests
    /\ IF part = "walk" THEN L!WalkInit ELSE WalkRests
    /\ IF part = "thread" THEN T!ThreadInit ELSE ThreadRests
    /\ IF part = "refire" THEN F!RefireInit ELSE RefireRests

\* The part that runs is p: everything else stays as it is.
Still(p) ==
    /\ UNCHANGED part
    /\ IF p = "door" THEN TRUE ELSE UNCHANGED vars
    /\ IF p = "config" THEN TRUE ELSE UNCHANGED configVars
    /\ IF p = "walk" THEN TRUE ELSE UNCHANGED walkVars
    /\ IF p = "thread" THEN TRUE ELSE UNCHANGED threadVars
    /\ IF p = "refire" THEN TRUE ELSE UNCHANGED refireVars

EntryNext ==
    \/ part = "door" /\ Next /\ Still("door")
    \/ part = "config" /\ K!ConfigNext /\ Still("config")
    \/ part = "walk" /\ L!WalkNext /\ Still("walk")
    \/ part = "thread" /\ T!ThreadNext /\ Still("thread")
    \/ part = "refire" /\ F!RefireNext /\ Still("refire")

entryVars == <<part, vars, configVars, walkVars, threadVars, refireVars>>

EntrySpec == EntryInit /\ [][EntryNext]_entryVars

-----------------------------------------------------------------------------
\* Configuration: a fingerprint is taken from names that can be read.
NamesAreReadable == part = "config" => K!NamesAreReadable
\* Walk: what is routed was let through.
RoutedWasLetThrough == part = "walk" => L!RoutedWasLetThrough
\* Thread: a reply stays in the operation of the card it is under.
ChatStaysInItsChain == part = "thread" => T!ChatStaysInItsChain
\* Refire: no answer given for nothing cites another one.
NoAnswerCitesAnAnswer == part = "refire" => F!NoAnswerCitesAnAnswer
=============================================================================
