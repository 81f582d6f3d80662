------------------------------- MODULE Library -------------------------------
(***************************************************************************)
(* One runbook of an investigation node: what finished runs write into it  *)
(* (hookprobe/distill.py, distill_loop.py), what a ruling takes out of it, *)
(* and what an operator does to it (hookprobe/library.py).  Every handler  *)
(* runs whole on one event loop; what happens between two of them is what  *)
(* can go wrong: a consolidation drafts from a manifest that has moved on, *)
(* a person saves over what a run added, a version is pruned.              *)
(***************************************************************************)
EXTENDS Integers, Sequences, SequencesExt

CONSTANTS Sessions,     \* the investigations of the condition
          Threshold,    \* consolidate_at: cases that call for a consolidation
          MaxCases,     \* cases a manifest keeps (max_cases)
          Keep,         \* displaced versions history keeps
          MaxDistills,  \* bound: finished investigations
          MaxPaid,      \* bound: consolidations started
          MaxSaves,     \* bound: edits an operator saves
          Nothing,      \* no manifest, no draft, no attempt
          Outdated,        \* a parked draft that no longer validates
          Unread         \* a consolidation that has not read the manifest yet

\* One write may displace two versions (the code keeps eight).
LibraryAssumption == /\ {Threshold, MaxCases} \subseteq Nat \ {0} /\ Keep \in Nat \ {0, 1}
                     /\ {MaxDistills, MaxPaid, MaxSaves} \subseteq Nat

VARIABLES manifest,     \* SKILL.md: its cases, newest first, and the operator's words in it
          history,      \* displaced versions, oldest first
          proposal,     \* a draft an older build parked: Nothing, a manifest, or Outdated
          reviewed,     \* origin.json: somebody looked
          attempt,      \* the case count at a consolidation that came to nothing
          since,        \* cases added since that attempt
          draft,        \* the consolidation in flight: Nothing, Unread, or the manifest it read
          verdict,      \* session -> none, useful, useless
          page,         \* the manifest on the operator's screen
          distills, paid, saves

libraryVars == <<manifest, history, proposal, reviewed, attempt, since, draft, verdict, page,
                 distills, paid, saves>>

Parked == [cases |-> <<>>, hand |-> 0]

LibraryInit == /\ manifest = Nothing /\ history = <<>>
               /\ proposal \in {Nothing, Outdated, Parked}
               /\ reviewed = FALSE /\ attempt = Nothing /\ since = 0 /\ draft = Nothing
               /\ verdict = [s \in Sessions |-> "none"]
               /\ page = Nothing
               /\ distills = 0 /\ paid = 0 /\ saves = 0

Newest(s, n) == SubSeq(s, 1, IF Len(s) < n THEN Len(s) ELSE n)

\* Seeded fault: a version is kept only while there is room.
SnapshotWhileRoom(h, m) == IF Len(h) < Keep THEN Append(h, m) ELSE h

\* snapshot: the displaced version goes last, and the oldest falls off.
Snapshot(h, m) == IF Len(h) < Keep THEN Append(h, m) ELSE Append(Tail(h), m)
SnapshotOf(h, m) == IF m = Nothing THEN h ELSE Snapshot(h, m)

-----------------------------------------------------------------------------
(* What a finished investigation leaves: a case, and perhaps a run that    *)
(* turns the pile into a procedure.                                        *)

Merged(s) == IF manifest = Nothing THEN [cases |-> <<s>>, hand |-> 0]
             ELSE [manifest EXCEPT !.cases = Newest(<<s>> \o @, MaxCases)]

\* The last attempt was paid for and too little was added since.
AttemptBlocks(count) == attempt # Nothing /\ count < attempt + Threshold

Distill(s) ==
    /\ distills < MaxDistills
    /\ LET adopted == proposal \notin {Nothing, Outdated}
           grownBy == SnapshotOf(history, manifest)
           standing == IF adopted THEN proposal ELSE Merged(s)
           count   == Len(standing.cases)
       IN  /\ manifest' = standing
           /\ history' = IF adopted THEN Snapshot(grownBy, Merged(s)) ELSE grownBy
           /\ \/ /\ count >= Threshold /\ ~AttemptBlocks(count) /\ draft = Nothing
                 /\ paid < MaxPaid
                 /\ draft' = Unread /\ paid' = paid + 1 /\ since' = 0
              \/ /\ count < Threshold \/ AttemptBlocks(count) \/ draft # Nothing
                 /\ since' = IF attempt = Nothing THEN 0 ELSE since + 1
                 /\ UNCHANGED <<draft, paid>>
    /\ proposal' = Nothing
    /\ reviewed' = FALSE
    /\ distills' = distills + 1
    /\ UNCHANGED <<attempt, verdict, page, saves>>

\* The consolidation run reads the manifest some time after it was asked for.
DraftReads ==
    /\ draft = Unread /\ manifest # Nothing
    /\ draft' = manifest
    /\ UNCHANGED <<manifest, history, proposal, reviewed, attempt, since, verdict, page,
                   distills, paid, saves>>

\* It answers: a text that validates replaces the manifest, whatever the manifest is by now.
Consolidated == [cases |-> Newest(draft.cases, 1), hand |-> draft.hand]

DraftLands ==
    /\ draft \notin {Nothing, Unread} /\ manifest # Nothing
    /\ manifest' = Consolidated
    /\ history' = Snapshot(history, manifest)
    /\ proposal' = Nothing /\ reviewed' = FALSE /\ attempt' = Nothing /\ since' = 0
    /\ draft' = Nothing
    /\ UNCHANGED <<verdict, page, distills, paid, saves>>

\* It answered nothing usable, changed its inputs, could not be written, or the runbook
\* is gone: the count is noted, so the next one waits for new cases.
DraftRefused ==
    /\ draft # Nothing
    /\ attempt' = IF manifest = Nothing THEN 0 ELSE Len(manifest.cases)
    /\ since' = 0 /\ draft' = Nothing
    /\ UNCHANGED <<manifest, history, proposal, reviewed, verdict, page, distills, paid, saves>>

\* The run failed, or timed out: nothing is noted.
DraftRunFails ==
    /\ draft # Nothing
    /\ draft' = Nothing
    /\ UNCHANGED <<manifest, history, proposal, reviewed, attempt, since, verdict, page,
                   distills, paid, saves>>

\* A ruling on a run reaches the runbook that holds its case.
HasCaseOf(s) == IF manifest = Nothing THEN FALSE ELSE Contains(manifest.cases, s)

Rule(s, v) ==
    /\ verdict[s] # v
    /\ verdict' = [verdict EXCEPT ![s] = v]
    /\ \/ /\ v = "useless" /\ HasCaseOf(s)
          /\ reviewed' = FALSE
          /\ IF \A i \in 1..Len(manifest.cases) : verdict'[manifest.cases[i]] = "useless"
             THEN /\ history' = Snapshot(history, manifest)
                  /\ manifest' = Nothing /\ since' = 0
             ELSE UNCHANGED <<manifest, history, since>>
       \/ /\ v # "useless" \/ ~HasCaseOf(s)
          /\ UNCHANGED <<manifest, history, reviewed, since>>
    /\ UNCHANGED <<proposal, attempt, draft, page, distills, paid, saves>>

-----------------------------------------------------------------------------
(* The operator's doors.                                                   *)

OpenPage == /\ page' = manifest /\ page # manifest
            /\ UNCHANGED <<manifest, history, proposal, reviewed, attempt, since, draft, verdict,
                           distills, paid, saves>>

\* PUT: what was on the screen, with a correction of the operator's.
SaveEdit ==
    /\ saves < MaxSaves
    /\ saves' = saves + 1
    /\ manifest' = IF page = Nothing THEN [cases |-> <<>>, hand |-> saves'] ELSE [page EXCEPT !.hand = saves']
    /\ history' = SnapshotOf(history, manifest)
    /\ reviewed' = TRUE /\ page' = manifest'
    /\ UNCHANGED <<proposal, attempt, since, draft, verdict, distills, paid>>

Review == /\ manifest # Nothing
          /\ reviewed' = TRUE
          /\ UNCHANGED <<manifest, history, proposal, attempt, since, draft, verdict, page,
                         distills, paid, saves>>

\* Restore: the snapshot comes first, and with it the pruning.
Restore(i) ==
    /\ manifest # Nothing       \* a withdrawn manifest cannot be snapshotted: the call fails
    /\ history' = Snapshot(history, manifest)
    /\ IF i = 1 /\ Len(history) = Keep
       THEN UNCHANGED <<manifest, reviewed>>    \* the version was the one pruned: the read fails
       ELSE manifest' = history[i] /\ reviewed' = TRUE
    /\ since' = 0
    /\ UNCHANGED <<proposal, attempt, draft, verdict, page, distills, paid, saves>>

Approve == /\ proposal # Nothing /\ manifest # Nothing
           /\ manifest' = IF proposal = Outdated THEN Parked ELSE proposal
           /\ history' = Snapshot(history, manifest)
           /\ proposal' = Nothing /\ reviewed' = TRUE /\ since' = 0
           /\ UNCHANGED <<attempt, draft, verdict, page, distills, paid, saves>>

Reject == /\ proposal # Nothing
          /\ proposal' = Nothing /\ reviewed' = FALSE
          /\ UNCHANGED <<manifest, history, attempt, since, draft, verdict, page, distills, paid, saves>>

\* DELETE removes the directory: history, draft, attempt and all.
Forget == /\ manifest # Nothing
          /\ manifest' = Nothing /\ history' = <<>> /\ proposal' = Nothing
          /\ reviewed' = FALSE /\ attempt' = Nothing /\ since' = 0
          /\ UNCHANGED <<draft, verdict, page, distills, paid, saves>>

LibraryNext == \/ \E s \in Sessions : Distill(s) \/ \E v \in {"none", "useful", "useless"} : Rule(s, v)
               \/ DraftReads \/ DraftLands \/ DraftRefused \/ DraftRunFails
               \/ OpenPage \/ SaveEdit \/ Review \/ Approve \/ Reject \/ Forget
               \/ \E i \in 1..Len(history) : Restore(i)

LibrarySpec == LibraryInit /\ [][LibraryNext]_libraryVars

-----------------------------------------------------------------------------
\* No write destroys what was there: whoever replaces or withdraws a manifest, the
\* displaced text is in history; only the delete takes it away.
NothingIsDestroyed ==
    [][manifest # Nothing /\ manifest' # manifest => Contains(history', manifest) \/ Forget]_libraryVars

=============================================================================
