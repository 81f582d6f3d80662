--------------------------------- MODULE Node ----------------------------------
(***************************************************************************)
(* What the two brains decide and keep beside their runs: the judge's      *)
(* verdict and the form it asks a model in; the condition around a         *)
(* remediation procedure, the audit chain, the runbook library, the        *)
(* memory, the tool hooks, the runtime, the alarm around the pipe and the  *)
(* measured posture of a node.                                             *)
(*                                                                         *)
(* They share no state here.  One behaviour is a behaviour of one of them: *)
(* the initial state picks the part that runs, the others rest.            *)
(***************************************************************************)
EXTENDS Integers, Sequences

CONSTANTS
    \* Remediation
    Conditions, Procedures, Keys, Cooldown, VerifyWindow, ApprovalWindow, CoalesceWindow,
    FixTime, MaxRuns, MaxTurns, MaxProposals, MaxCrashes, LostEvidence,
    \* Audit
    AuditedCalls, Days, ChainDays, FailedWrites, MaxEdits,
    \* Library
    Sessions, ConsolidateAt, MaxCases, Keep, MaxDistills, MaxPaid, OperatorSaves, Nothing,
    Outdated, Unread,
    \* Hooks
    MaxTargets,
    \* Runtime
    Turns, NoId, MaxCalls, MaxDeaths,
    \* Outage
    Kinds, NoKind, RecurringAfter, RecurringQuiet, QuietWindow, PageRetries, OutageTime,
    MaxRestarts, MaxStreak, MaxHeld,
    \* Posture
    ListedGrants, KubeGrants, AwsGrants, Undeclared, Radii, Mounts,
    \* Verdict
    Events, Slots, Preferred, DialectTtl, MaxRows, VerdictTime, MaxChanges,
    \* Memory
    Writers, Lines, Safe, PerRun, QueueCap, MaxReports, MaxAnswers, Revisions, MemoryStops

VARIABLES part,         \* the part this behaviour is about
          now, order, run, nextRun, told, row, nextProp,
          overtaken, crashes, unsaved,                               \* Remediation
          day, lines, head, file, recorded, off, edited, turn,
          writeFaults,                                              \* Audit
          manifest, history, proposal, reviewed, attempt, since,
          draft, verdict, page, distills, paid, saves,              \* Library
          route, mode, listed, call, step, rows,                    \* Hooks
          kind, spawns, proven, broken, stream, result, noted,
          after, deaths,                                            \* Runtime
          clock, streak, pagedAt, lastSent, heldBack, posting,
          heard, restarts,                                          \* Outage
          declares, image, mounted, granted, node, watched,
          missed,                                                   \* Posture
          accepts, pin, asking, verdicts, hours, changes,           \* Verdict
          applies, queue, memory, doing, view, screen, filed,
          answered, reports, answers, revisions, stops              \* Memory

R == INSTANCE Remediation WITH MaxTime <- FixTime, MaxFaults <- LostEvidence
A == INSTANCE Audit WITH Calls <- AuditedCalls, Window <- ChainDays, MaxFaults <- FailedWrites
L == INSTANCE Library WITH Threshold <- ConsolidateAt, MaxSaves <- OperatorSaves
H == INSTANCE Hooks
X == INSTANCE Runtime WITH turn <- stream, row <- result
O == INSTANCE Outage WITH Retries <- PageRetries, Window <- QuietWindow, MaxTime <- OutageTime
P == INSTANCE Posture
V == INSTANCE Verdict WITH Ttl <- DialectTtl, MaxTime <- VerdictTime, calls <- asking,
        rows <- verdicts
M == INSTANCE Memory WITH MaxSaves <- Revisions, MaxFaults <- MemoryStops, saves <- revisions,
        faults <- stops

ASSUME NodeAssumption ==
    /\ R!RemediationAssumption /\ A!AuditAssumption /\ L!LibraryAssumption
    /\ X!RuntimeAssumption /\ O!OutageAssumption /\ P!PostureAssumption
    /\ V!VerdictAssumption /\ M!MemoryAssumption

Parts == {"fix", "audit", "library", "hooks", "runtime", "outage", "posture", "verdict", "memory"}

fixVars == <<now, order, run, nextRun, told, row, nextProp, overtaken, crashes, unsaved>>
auditVars == <<day, lines, head, file, recorded, off, edited, turn, writeFaults>>
libraryVars == <<manifest, history, proposal, reviewed, attempt, since, draft, verdict, page,
                  distills, paid, saves>>
hookVars == <<route, mode, listed, call, step, rows>>
runtimeVars == <<kind, spawns, proven, broken, stream, result, noted, after, deaths>>
outageVars == <<clock, streak, pagedAt, lastSent, heldBack, posting, heard, restarts>>
postureVars == <<declares, image, mounted, granted, node, watched, missed>>
verdictVars == <<accepts, pin, asking, verdicts, hours, changes>>
memoryVars == <<applies, queue, memory, doing, view, screen, filed, answered, reports, answers,
                revisions, stops>>

\* What a part holds that does not run.
FixRests == now = 0 /\ order = 0 /\ run = 0 /\ nextRun = 0 /\ told = 0 /\ row = 0
             /\ nextProp = 0 /\ overtaken = 0 /\ crashes = 0 /\ unsaved = 0
AuditRests == day = 0 /\ lines = 0 /\ head = 0 /\ file = 0 /\ recorded = 0 /\ off = 0
               /\ edited = 0 /\ turn = 0 /\ writeFaults = 0
LibraryRests == manifest = 0 /\ history = 0 /\ proposal = 0 /\ reviewed = 0 /\ attempt = 0
                 /\ since = 0 /\ draft = 0 /\ verdict = 0 /\ page = 0 /\ distills = 0
                 /\ paid = 0 /\ saves = 0
HookRests == route = 0 /\ mode = 0 /\ listed = 0 /\ call = 0 /\ step = 0 /\ rows = 0
RuntimeRests == kind = 0 /\ spawns = 0 /\ proven = 0 /\ broken = 0 /\ stream = 0
                 /\ result = 0 /\ noted = 0 /\ after = 0 /\ deaths = 0
OutageRests == clock = 0 /\ streak = 0 /\ pagedAt = 0 /\ lastSent = 0 /\ heldBack = 0
                /\ posting = 0 /\ heard = 0 /\ restarts = 0
PostureRests == declares = 0 /\ image = 0 /\ mounted = 0 /\ granted = 0 /\ node = 0
                 /\ watched = 0 /\ missed = 0
VerdictRests == accepts = 0 /\ pin = 0 /\ asking = 0 /\ verdicts = 0
                 /\ hours = 0 /\ changes = 0
MemoryRests == applies = 0 /\ queue = 0 /\ memory = 0 /\ doing = 0 /\ view = 0 /\ screen = 0
               /\ filed = 0 /\ answered = 0 /\ reports = 0 /\ answers = 0 /\ revisions = 0
               /\ stops = 0

NodeInit ==
    /\ part \in Parts
    /\ IF part = "fix" THEN R!Init ELSE FixRests
    /\ IF part = "audit" THEN A!AuditInit ELSE AuditRests
    /\ IF part = "library" THEN L!LibraryInit ELSE LibraryRests
    /\ IF part = "hooks" THEN H!HooksInit ELSE HookRests
    /\ IF part = "runtime" THEN X!RuntimeInit ELSE RuntimeRests
    /\ IF part = "outage" THEN O!OutageInit ELSE OutageRests
    /\ IF part = "posture" THEN P!PostureInit ELSE PostureRests
    /\ IF part = "verdict" THEN V!VerdictInit ELSE VerdictRests
    /\ IF part = "memory" THEN M!MemoryInit ELSE MemoryRests

\* The part that runs is p: everything else stays as it is.
Still(p) ==
    /\ UNCHANGED part
    /\ IF p = "fix" THEN TRUE ELSE UNCHANGED fixVars
    /\ IF p = "audit" THEN TRUE ELSE UNCHANGED auditVars
    /\ IF p = "library" THEN TRUE ELSE UNCHANGED libraryVars
    /\ IF p = "hooks" THEN TRUE ELSE UNCHANGED hookVars
    /\ IF p = "runtime" THEN TRUE ELSE UNCHANGED runtimeVars
    /\ IF p = "outage" THEN TRUE ELSE UNCHANGED outageVars
    /\ IF p = "posture" THEN TRUE ELSE UNCHANGED postureVars
    /\ IF p = "verdict" THEN TRUE ELSE UNCHANGED verdictVars
    /\ IF p = "memory" THEN TRUE ELSE UNCHANGED memoryVars

NodeNext ==
    \/ part = "fix" /\ R!Next /\ Still("fix")
    \/ part = "audit" /\ A!AuditNext /\ Still("audit")
    \/ part = "library" /\ L!LibraryNext /\ Still("library")
    \/ part = "hooks" /\ H!HooksNext /\ Still("hooks")
    \/ part = "runtime" /\ X!RuntimeNext /\ Still("runtime")
    \/ part = "outage" /\ O!OutageNext /\ Still("outage")
    \/ part = "posture" /\ P!PostureNext /\ Still("posture")
    \/ part = "verdict" /\ V!VerdictNext /\ Still("verdict")
    \/ part = "memory" /\ M!MemoryNext /\ Still("memory")

nodeVars == <<part, fixVars, auditVars, libraryVars, hookVars, runtimeVars, outageVars,
              postureVars, verdictVars, memoryVars>>

NodeSpec == NodeInit /\ [][NodeNext]_nodeVars

-----------------------------------------------------------------------------
\* Remediation: a procedure its investigation has moved past never runs.
OvertakenNeverRuns == part = "fix" => R!OvertakenNeverRuns
\* Remediation: what the chat was told of a fix stays what the node says of it.
ToldStands == part = "fix" => R!ToldStands
\* Audit: a log that adds up before a head that left the box says what it said then.
TamperShows == part = "audit" => A!TamperShows
\* Library: a write keeps the version it displaces; only a delete takes it away.
NothingIsDestroyed == L!NothingIsDestroyed
\* Hooks: a posture means one thing whichever way a runtime reaches the gate.
OnePosture == part = "hooks" => H!OnePosture
\* Runtime: a turn that ran tools with nothing on record is the last the node takes.
UngatedIsTheLast == part = "runtime" => X!UngatedIsTheLast
\* Outage: the alarm channel keeps quiet only on what somebody heard.
QuietIsEarned == part = "outage" => O!QuietIsEarned
\* Posture: no silence passes for a boundary that holds, but the three no error tells of.
OnlyKnownSilencesPass == part = "posture" => P!OnlyKnownSilencesPass
\* Verdict: an alert is held back from people only on a model's word.
QuietWasAnswered == part = "verdict" => V!QuietWasAnswered
\* Memory: what a run asks a person to remember waits for that person's answer.
FactsAreKept == part = "memory" => M!FactsAreKept
=============================================================================
