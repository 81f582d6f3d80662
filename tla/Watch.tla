-------------------------------- MODULE Watch --------------------------------
(***************************************************************************)
(* The chat watch: a timer that scans, hands the model what is new, and    *)
(* moves its cursors only when the round is known to have been judged      *)
(* (deploy/watch/watch_scan.py, jira_watch.py, watch_report.py, the timer  *)
(* in hookprobe/examples/patrols), and the signer the round reports        *)
(* through (deploy/sidecars/signer.py).                                    *)
(*                                                                         *)
(* A message is its feed and its place in it, and a cursor the place of    *)
(* the last message read: two messages never share a second.  One unit of  *)
(* time is the timer's cadence; ages are counted in it and stop at the     *)
(* largest wait they are compared with.  A scan reads the clock once, when *)
(* it begins: `start` is what had been said by then.                       *)
(***************************************************************************)
EXTENDS Integers, Sequences, FiniteSets, FiniteSetsExt

CONSTANTS
    Feeds,          \* conversations
    Batched,        \* WATCH_BATCH_FEEDS
    Kinds,          \* what may be said: "word", "noise", "poison" (fails its run)
    PerChat,        \* WATCH_MAX_PER_CHAT
    JiraPage,       \* maxResults of the issue search
    BatchFor,       \* WATCH_BATCH_MINUTES
    RunTimeout,     \* WATCH_RUN_TIMEOUT
    RunCap,         \* how long a run may last, its wait for a slot included
    GiveUpAfter,    \* GIVE_UP_AFTER
    MaxReplays,     \* MAX_REPLAYS
    Renote,         \* UNREACHABLE_RENOTE_SECONDS
    MaxNews,        \* bound: messages and changes in Jira, in all
    MaxFaults,      \* bound: sources out of reach, answers lost, scans and timers that die
    Nobody          \* no cursors, no record

WatchAssumption ==
    /\ Batched \subseteq Feeds /\ Kinds \subseteq {"word", "noise", "poison"}
    /\ {PerChat, JiraPage, RunTimeout} \subseteq Nat \ {0}
    /\ {BatchFor, RunCap, GiveUpAfter, MaxReplays, Renote,
        MaxNews, MaxFaults} \subseteq Nat
    /\ "jira" \notin Feeds /\ Nobody \notin [Feeds -> Nat]

VARIABLES
    said,       \* what each conversation holds, oldest first
    tickets,    \* changes in Jira so far
    feeds,      \* scan.json: committed cursors, or Nobody before the baseline
    staged,     \* scan.json: the cursors of the round handed over, or Nobody
    replay,     \* scan.json: the failure being replayed, or Nobody
    skipped,    \* scan.json: a span was given up and nobody was told yet
    held,       \* scan.json `pending`: age of what a batched feed saves up, -1 for none
    faulted,    \* scan.json `unreachable`: age of the last note, -1 for reachable
    offer,      \* scan.json: subjects offered this round, and the round before
    jira,       \* ATL_STATE_FILE: changes covered, changes reported
    jiraStaged, \* its staged copy, or Nobody
    noted,      \* round.json against the staged round
    run,        \* the event round.json names: its run's status, age and digest
    strays,     \* runs in flight that no record leads to
    pc, work,   \* the timer: where the tick is, and its locals
    ticked,     \* this unit's tick has been
    judged,     \* history: messages and changes in the digest of a completed run
    forgone,    \* history: messages such a digest said it had to leave out
    given,      \* history: messages skipped with a give-up
    gap,        \* history: messages that arrived between the clock and the list
    floor,      \* history: the baseline
    faults

scan   == <<feeds, staged, replay, skipped, held, faulted, offer>>
jiras  == <<jira, jiraStaged>>
timer  == <<pc, work, ticked>>
node   == <<noted, run, strays>>
hist   == <<judged, forgone, given, gap, floor>>
bounds == <<faults>>
vars   == <<said, tickets, scan, jiras, timer, node, hist, bounds>>

Subjects == Feeds \cup {"jira"}
Msgs     == Feeds \X (1..MaxNews)
Idle     == [status |-> "none", age |-> 0, digest |-> Nobody]
NoWork   == [start |-> Nobody, cur |-> Nobody, todo |-> {}, latest |-> Nobody,
             picks |-> {}, over |-> {}, jira |-> {}, notes |-> {}, names |-> {},
             held |-> Nobody, faulted |-> Nobody, digest |-> Nobody]

Lengths  == [f \in Feeds |-> Len(said[f])]
News     == tickets + MapThenSumSet(LAMBDA f : Len(said[f]), Feeds)
Kind(m)  == said[m[1]][m[2]]
Said(f, S) == {m \in {f} \X S : Kind(m) # "noise"}
Older(a, most) == IF a = -1 \/ a >= most THEN a ELSE a + 1
InFlight == strays \cup (IF run.status = "due" THEN {run} ELSE {})

TypeOK ==
    /\ said \in [Feeds -> Seq(Kinds)] /\ \A f \in Feeds : Len(said[f]) <= MaxNews
    /\ feeds = Nobody \/ feeds \in [Feeds -> 0..MaxNews]
    /\ held \in [Feeds -> -1..BatchFor] /\ faulted \in [Feeds -> -1..Renote]
    /\ offer \in [now : SUBSET Subjects, before : SUBSET Subjects]
    /\ noted \in {"stale", "unrun", "routed"}
    /\ run.status \in {"none", "due", "completed", "failed"}
    /\ pc \in {"idle", "jira", "list", "fetch", "post", "note"}
    /\ judged \subseteq Msgs \cup ({"jira"} \X (1..MaxNews))

Init ==
    /\ said = [f \in Feeds |-> <<>>] /\ tickets = 0
    /\ feeds = Nobody /\ staged = Nobody /\ replay = Nobody /\ skipped = FALSE
    /\ held = [f \in Feeds |-> -1] /\ faulted = [f \in Feeds |-> -1]
    /\ offer = [now |-> {}, before |-> {}]
    /\ jira = [last |-> 0, seen |-> {}] /\ jiraStaged = Nobody
    /\ noted = "stale" /\ run = Idle /\ strays = {}
    /\ pc = "idle" /\ work = NoWork /\ ticked = FALSE
    /\ judged = {} /\ forgone = {} /\ given = {} /\ gap = {}
    /\ floor = [f \in Feeds |-> 0]
    /\ faults = 0

-----------------------------------------------------------------------------
\* Colleagues, and the clock.
Say(f, k) ==
    /\ News < MaxNews
    /\ said' = [said EXCEPT ![f] = Append(@, k)]
    /\ UNCHANGED <<tickets, scan, jiras, timer, node, hist, bounds>>

ChangeTicket ==
    /\ News < MaxNews
    /\ tickets' = tickets + 1
    /\ UNCHANGED <<said, scan, jiras, timer, node, hist, bounds>>

\* The next multiple of the cadence: a tick is over before it, and no run
\* outlives its cap.
Elapse ==
    /\ pc = "idle"
    /\ \A r \in InFlight : r.age < RunCap
    /\ ticked' = FALSE
    /\ held' = [f \in Feeds |-> Older(held[f], BatchFor)]
    /\ faulted' = [f \in Feeds |-> Older(faulted[f], Renote)]
    /\ staged' = IF staged = Nobody THEN Nobody ELSE [staged EXCEPT !.age = Older(@, GiveUpAfter)]
    /\ replay' = IF replay = Nobody THEN Nobody ELSE [replay EXCEPT !.age = Older(@, GiveUpAfter)]
    /\ run' = IF run.status = "due" \/ (run.status = "none" /\ noted = "routed")
              THEN [run EXCEPT !.age = Older(@, Max({RunCap, RunTimeout}))] ELSE run
    /\ strays' = {[r EXCEPT !.age = @ + 1] : r \in strays}
    /\ UNCHANGED <<said, tickets, feeds, skipped, offer, jiras, pc, work, noted, hist, bounds>>

-----------------------------------------------------------------------------

\* A tick first settles the round before: reconcile, by round_outcome.
Outcome ==
    IF noted # "routed" THEN "lost"
    ELSE CASE run.status = "completed" -> "done"
           [] run.status = "failed"    -> "lost"
           [] OTHER -> IF run.age < RunTimeout THEN "pending" ELSE "lost"

\* main goes on scanning inside the window, with the clock it read first.
Proceed(open, cursors) ==
    /\ ticked' = TRUE
    /\ pc' = IF open THEN "jira" ELSE "idle"
    /\ work' = IF open THEN [NoWork EXCEPT !.start = Lengths, !.cur = cursors,
                                           !.held = held, !.faulted = faulted]
               ELSE NoWork

\* Once settled, round.json and the record it leads to are not read again.
Forget == noted' = "stale" /\ run' = (IF run.status = "due" THEN run ELSE Idle)

NothingStaged(open) ==
    /\ pc = "idle" /\ ~ticked /\ staged = Nobody
    /\ jiraStaged' = Nobody
    /\ Proceed(open, feeds)
    /\ Forget
    /\ UNCHANGED <<said, tickets, scan, jira, strays, hist, bounds>>

\* The run is still going: scanning now would hand the same messages twice.
Hold ==
    /\ pc = "idle" /\ ~ticked /\ staged # Nobody /\ Outcome = "pending"
    /\ ticked' = TRUE
    /\ UNCHANGED <<said, tickets, scan, jiras, pc, work, node, hist, bounds>>

Commit(open) ==
    /\ pc = "idle" /\ ~ticked /\ staged # Nobody /\ Outcome = "done"
    /\ feeds' = staged.feeds
    /\ floor' = IF feeds = Nobody /\ staged.feeds # Nobody THEN staged.feeds ELSE floor
    /\ jira' = IF jiraStaged = Nobody THEN jira ELSE jiraStaged
    /\ jiraStaged' = Nobody
    /\ staged' = Nobody /\ replay' = Nobody /\ skipped' = FALSE
    /\ Proceed(open, staged.feeds)
    /\ Forget
    /\ UNCHANGED <<said, tickets, held, faulted, offer, strays, judged, forgone, given, gap, bounds>>

Exhausted == staged.replays + 1 > MaxReplays /\ staged.age >= GiveUpAfter

Replay(open) ==
    /\ pc = "idle" /\ ~ticked /\ staged # Nobody /\ Outcome = "lost" /\ ~Exhausted
    /\ replay' = [replays |-> IF staged.replays < MaxReplays THEN staged.replays + 1 ELSE MaxReplays,
                  age |-> staged.age, first |-> staged.first]
    /\ staged' = Nobody /\ jiraStaged' = Nobody
    /\ Proceed(open, feeds)
    /\ Forget
    /\ UNCHANGED <<said, tickets, feeds, skipped, held, faulted, offer, jira, strays, hist, bounds>>

\* Only the first lost round's content is skipped, and the span is named.
GiveUp(open) ==
    LET first == IF staged.first # Nobody THEN staged.first ELSE staged.feeds
    IN
    /\ pc = "idle" /\ ~ticked /\ staged # Nobody /\ Outcome = "lost" /\ Exhausted
    /\ feeds' = first
    /\ floor' = IF feeds = Nobody /\ first # Nobody THEN first ELSE floor
    /\ given' = given \cup
                  (IF feeds = Nobody THEN {}
                   ELSE {m \in Msgs : feeds[m[1]] < m[2] /\ m[2] <= first[m[1]]})
    /\ staged' = Nobody /\ jiraStaged' = Nobody /\ replay' = Nobody /\ skipped' = TRUE
    /\ Proceed(open, first)
    /\ Forget
    /\ UNCHANGED <<said, tickets, held, faulted, offer, jira, strays, judged, forgone, gap, bounds>>

-----------------------------------------------------------------------------
\* run_jira: on a staged copy of the state.  The query reaches back at least to
\* the last check and, by the lookback, perhaps further; the page is cut at the
\* oldest JiraPage issues, and the check moves to now all the same.
AskJira ==
    /\ pc = "jira"
    /\ \E back \in 0..jira.last :
         LET hits == Min({tickets, back + JiraPage})
             page == (back + 1)..hits
         IN /\ jiraStaged' = [last |-> tickets, seen |-> jira.seen \cup page]
            /\ work' = [work EXCEPT !.jira = page \ jira.seen]
    /\ pc' = "list"
    /\ UNCHANGED <<said, tickets, scan, jira, ticked, node, hist, bounds>>

JiraFails ==
    /\ pc = "jira" /\ faults < MaxFaults
    /\ jiraStaged' = jira
    /\ work' = [work EXCEPT !.notes = @ \cup {"fault"}]
    /\ pc' = "list" /\ faults' = faults + 1
    /\ UNCHANGED <<said, tickets, scan, jira, ticked, node, hist>>

-----------------------------------------------------------------------------
\* The list of conversations: a baseline the first time, else what has moved.
List ==
    /\ pc = "list"
    /\ work' = IF work.cur = Nobody THEN [work EXCEPT !.cur = Lengths]
               ELSE [work EXCEPT !.latest = Lengths,
                                 !.todo = {f \in Feeds : Len(said[f]) > work.cur[f]}]
    /\ pc' = "fetch"
    /\ UNCHANGED <<said, tickets, scan, jiras, ticked, node, hist, bounds>>

ListFails ==
    /\ pc = "list" /\ faults < MaxFaults
    /\ work' = [work EXCEPT !.notes = @ \cup {"fault"}]
    /\ pc' = "fetch" /\ faults' = faults + 1
    /\ UNCHANGED <<said, tickets, scan, jiras, ticked, node, hist>>

\* A batched feed is left alone until what it saves up is old enough.
Ripe(f) == f \notin Batched \/ work.held[f] >= BatchFor

SaveUp(f) ==
    /\ pc = "fetch" /\ f \in work.todo /\ ~Ripe(f)
    /\ work' = [work EXCEPT !.todo = @ \ {f}, !.held[f] = IF @ = -1 THEN 0 ELSE @]
    /\ UNCHANGED <<said, tickets, scan, jiras, pc, ticked, node, hist, bounds>>

\* Seeded fault: what does not fit in the page is cut without a word.
FetchQuietly(f) ==
    /\ pc = "fetch" /\ f \in work.todo /\ Ripe(f)
    /\ LET got == {i \in (work.cur[f] + 1)..work.start[f] : i > work.start[f] - PerChat}
       IN work' = [work EXCEPT !.todo = @ \ {f}, !.cur[f] = work.latest[f],
                               !.held[f] = -1, !.faulted[f] = -1,
                               !.picks = @ \cup Said(f, got),
                               !.names = IF Said(f, got) # {} THEN @ \cup {f} ELSE @]
    /\ gap' = gap \cup ({f} \X ((work.start[f] + 1)..work.latest[f]))
    /\ UNCHANGED <<said, tickets, scan, jiras, pc, ticked, node, judged, forgone, given, floor, bounds>>

\* search_chat_records: from the cursor to the scan's clock, the newest first
\* and at most so many (twice that for a stale cursor); the cursor moves to the
\* newest message the list named.
Fetch(f) ==
    /\ pc = "fetch" /\ f \in work.todo /\ Ripe(f)
    /\ \E limit \in {PerChat, 2 * PerChat} :
         LET base   == work.cur[f]
             ranged == (base + 1)..work.start[f]
             got    == {i \in ranged : i > work.start[f] - limit}
             full   == Cardinality(got) >= limit
         IN work' = [work EXCEPT !.todo = @ \ {f},
                                 !.cur[f] = work.latest[f],
                                 !.held[f] = -1, !.faulted[f] = -1,
                                 !.picks = @ \cup Said(f, got),
                                 !.over = @ \cup Said(f, ranged \ got),
                                 !.notes = IF full THEN @ \cup {"full"} ELSE @,
                                 !.names = IF Said(f, got) # {} THEN @ \cup {f} ELSE @]
    /\ gap' = gap \cup ({f} \X ((work.start[f] + 1)..work.latest[f]))
    /\ UNCHANGED <<said, tickets, scan, jiras, pc, ticked, node, judged, forgone, given, floor, bounds>>

\* Out of reach: the cursor stays, and a note is due the first time, when the
\* error changed, or when the last note is old.
FetchFails(f) ==
    /\ pc = "fetch" /\ f \in work.todo /\ Ripe(f) /\ faults < MaxFaults
    /\ \E changed \in BOOLEAN :
         LET due == work.faulted[f] = -1 \/ changed \/ work.faulted[f] >= Renote
         IN work' = [work EXCEPT !.todo = @ \ {f},
                                 !.faulted[f] = IF due THEN 0 ELSE @,
                                 !.notes = IF due THEN @ \cup {"fault"} ELSE @,
                                 !.names = IF due THEN @ \cup {f} ELSE @]
    /\ faults' = faults + 1
    /\ UNCHANGED <<said, tickets, scan, jiras, pc, ticked, node, hist>>

-----------------------------------------------------------------------------
Scanned == pc = "fetch" /\ work.todo = {}
IsQuiet == work.picks = {} /\ work.notes = {} /\ work.jira = {}

Offered == [now |-> work.names \cup (IF work.jira # {} THEN {"jira"} ELSE {}), before |-> offer.now]

\* Nothing to judge: no model is called and the cursors count at once.
WriteQuiet ==
    /\ Scanned /\ IsQuiet
    /\ feeds' = work.cur
    /\ floor' = IF feeds = Nobody /\ work.cur # Nobody THEN work.cur ELSE floor
    /\ jira' = IF jiraStaged = Nobody THEN jira ELSE jiraStaged
    /\ jiraStaged' = Nobody
    /\ replay' = Nobody /\ UNCHANGED <<staged, skipped>>
    /\ held' = work.held /\ faulted' = work.faulted
    /\ offer' = Offered
    /\ pc' = "idle" /\ work' = NoWork
    /\ UNCHANGED <<said, tickets, ticked, node, judged, forgone, given, gap, bounds>>

\* Oldest first, across conversations, whatever exceeds the budget is dropped.
Drops == {D \in SUBSET work.picks :
            \A m \in work.picks, d \in D : m[1] = d[1] /\ m[2] <= d[2] => m \in D}

\* The cursors are staged with the digest; trim says what it dropped.
WriteStaged ==
    /\ Scanned /\ ~IsQuiet
    /\ staged' = [feeds |-> work.cur,
                  replays |-> IF replay = Nobody THEN 0 ELSE replay.replays,
                  age |-> IF replay = Nobody THEN 0 ELSE replay.age,
                  first |-> IF replay # Nobody /\ replay.first # Nobody
                            THEN replay.first ELSE work.cur]
    /\ replay' = Nobody
    /\ held' = work.held /\ faulted' = work.faulted
    /\ offer' = Offered
    /\ \E D \in Drops :
         work' = [NoWork EXCEPT !.digest =
                    [said |-> work.picks \ D, over |-> work.over \cup D,
                     jira |-> work.jira, names |-> Offered.now]]
    /\ pc' = "post"
    /\ UNCHANGED <<said, tickets, feeds, skipped, jiras, ticked, node, hist, bounds>>

-----------------------------------------------------------------------------
\* patrol.sh: the pipe takes the round and routes it, or takes it and routes it
\* nowhere, or does not take it.  A run may come of a routed event, or never.
Started(due) == [status |-> IF due THEN "due" ELSE "none", age |-> 0, digest |-> work.digest]

Post(how, due) ==
    /\ pc = "post"
    /\ how \in {"routed", "unrun"} /\ (due => how = "routed")
    /\ run' = IF how = "routed" THEN Started(due) ELSE Idle
    /\ strays' = IF run.status = "due" THEN strays \cup {run} ELSE strays
    /\ work' = [NoWork EXCEPT !.notes = {how}]
    /\ pc' = "note"
    /\ UNCHANGED <<said, tickets, scan, jiras, ticked, noted, hist, bounds>>

\* The pipe took it and the answer was lost on the way.
AnswerLost ==
    /\ pc = "post" /\ faults < MaxFaults
    /\ run' = Idle
    /\ strays' = strays \cup {Started(TRUE)} \cup (IF run.status = "due" THEN {run} ELSE {})
    /\ work' = [NoWork EXCEPT !.notes = {"unrun"}]
    /\ pc' = "note" /\ faults' = faults + 1
    /\ UNCHANGED <<said, tickets, scan, jiras, ticked, noted, hist>>

\* round.json, in the same breath as the answer.
Note ==
    /\ pc = "note"
    /\ noted' \in work.notes
    /\ pc' = "idle" /\ work' = NoWork
    /\ UNCHANGED <<said, tickets, scan, jiras, ticked, run, strays, hist, bounds>>

\* The scan raises before it wrote anything: the timer fires a round all the
\* same, which says so and hands nothing over.
ScanDies ==
    /\ pc \in {"jira", "list", "fetch"} /\ faults < MaxFaults
    /\ work' = [NoWork EXCEPT !.digest = [said |-> {}, over |-> {}, jira |-> {}, names |-> {}]]
    /\ pc' = "post" /\ faults' = faults + 1
    /\ UNCHANGED <<said, tickets, scan, jiras, ticked, node, hist>>

\* The timer's container dies where it stands and is started again.
TimerDies ==
    /\ pc # "idle" /\ faults < MaxFaults
    /\ pc' = "idle" /\ work' = NoWork /\ faults' = faults + 1
    /\ strays' = IF pc = "note" /\ run.status = "due" THEN strays \cup {run} ELSE strays
    /\ run' = IF pc = "note" THEN Idle ELSE run
    /\ UNCHANGED <<said, tickets, scan, jiras, ticked, noted, hist>>

\* The node judges the round, or fails at it.
Judged(d) ==
    /\ judged' = judged \cup d.said \cup ({"jira"} \X d.jira)
    /\ forgone' = forgone \cup d.over

RunEnds(r, how) ==
    /\ r \in InFlight
    /\ how = "completed" => \A m \in r.digest.said : Kind(m) # "poison"
    /\ IF r = run THEN run' = [run EXCEPT !.status = how, !.digest = Nobody] /\ UNCHANGED strays
                  ELSE strays' = strays \ {r} /\ UNCHANGED run
    /\ IF how = "completed" THEN Judged(r.digest) ELSE UNCHANGED <<judged, forgone>>
    /\ UNCHANGED <<said, tickets, scan, jiras, timer, noted, given, gap, floor, bounds>>

-----------------------------------------------------------------------------

-----------------------------------------------------------------------------
Tick(open) == NothingStaged(open) \/ Commit(open) \/ Replay(open) \/ GiveUp(open)
Scan == \/ AskJira \/ List \/ WriteQuiet \/ WriteStaged \/ Note
        \/ \E f \in Feeds : SaveUp(f) \/ Fetch(f)
        \/ \E how \in {"routed", "unrun"}, due \in BOOLEAN : Post(how, due)
Ends == \E r \in InFlight, how \in {"completed", "failed"} : RunEnds(r, how)

Next ==
    \/ \E f \in Feeds, k \in Kinds : Say(f, k)
    \/ ChangeTicket \/ Elapse
    \/ \E open \in BOOLEAN : Tick(open)
    \/ Hold \/ Scan
    \/ JiraFails \/ ListFails \/ \E f \in Feeds : FetchFails(f)
    \/ AnswerLost \/ ScanDies \/ TimerDies
    \/ Ends

Spec == Init /\ [][Next]_vars

-----------------------------------------------------------------------------
Behind(m)  == feeds # Nobody /\ m[2] <= feeds[m[1]]
Settled(m) == m \in judged \cup forgone \cup given

\* No message falls behind a committed cursor unseen: a completed run was handed
\* it, or told that it was cut, or it is in a span that was given up and named,
\* or it was said before the baseline.  The one other way is to arrive between
\* the scan's reading of the clock and the list.
OnlyTheGapSlips ==
    \A m \in Msgs : m[2] <= Len(said[m[1]]) /\ Behind(m) /\ Kind(m) # "noise"
                      => Settled(m) \/ m[2] <= floor[m[1]] \/ m \in gap

=============================================================================
