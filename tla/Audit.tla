------------------------------- MODULE Audit -------------------------------
(***************************************************************************)
(* The flight recorder of an investigation node (hookprobe/audit.py): one  *)
(* line per tool call, chained by digest under a file lock, in one file    *)
(* per day; the head of the chain leaves the box on every report; a reader *)
(* walks the chain, and another asks whether a head seen off-box is still  *)
(* there.  The tool gate is spawned per call, so writers race; midnight    *)
(* passes between a writer's choice of file and its turn at the lock; a    *)
(* write may fail half way; somebody may tidy the files afterwards.        *)
(* A digest is modelled by what it binds: the fact and the digest before.  *)
(***************************************************************************)
EXTENDS Integers, Sequences, FiniteSetsExt

CONSTANTS Calls,        \* tool calls of one turn, one writer each
          Days,         \* the days the model lives through, 1 .. Days
          Window,       \* CHAIN_DAYS: the newest files a reader opens
          MaxFaults,    \* bound: writes that fail, before or after their line
          MaxEdits      \* bound: lines somebody rewrites or deletes

Tidied == "tidied"      \* what a rewritten line says

AuditAssumption == {Days, Window, MaxFaults, MaxEdits} \subseteq Nat /\ Window > 0 /\ Tidied \notin Calls

VARIABLES day,          \* today
          lines,        \* every line with the day of its file, in the order a reader walks
          head,         \* .chain: the digest of the newest linked line
          file,         \* call -> the day file its writer chose, 0 before
          recorded,     \* the calls whose line is in a file
          off,          \* what left the box with a report: the head, and the log as it read then
          edited,       \* history, for the bound: the calls whose linked line somebody rewrote or deleted
          turn,         \* the turn these calls belong to: running, gated or ungated
          writeFaults

auditVars == <<day, lines, head, file, recorded, off, edited, turn, writeFaults>>

Seed     == <<>>
Unlinked == <<"none">>  \* the digest of a line that carries none
\* (A digest that forgets the line before it.)
DigestOfTheFact(fact, prev) == <<fact>>
Digest(fact, prev) == <<fact, prev>>
Linked(c, prev) == [fact |-> c, prev |-> prev, hash |-> Digest(c, prev), day |-> file[c]]
Unchained(c) == [fact |-> c, prev |-> Unlinked, hash |-> Unlinked, day |-> file[c]]

AuditInit == /\ day = 1
             /\ lines = <<>>
             /\ head = Seed
             /\ file = [c \in Calls |-> 0]
             /\ recorded = {}
             /\ off = {}
             /\ edited = {}
             /\ turn = "running"
             /\ writeFaults = 0

-----------------------------------------------------------------------------
(* Writers.  The day file is chosen before the lock is asked for.          *)

ChooseFile(c) == /\ file[c] = 0 /\ turn = "running"
                 /\ file' = [file EXCEPT ![c] = day]
                 /\ UNCHANGED <<day, lines, head, recorded, off, edited, turn, writeFaults>>

Waiting(c) == file[c] # 0 /\ c \notin recorded
\* At the end of the file that was chosen, which may be yesterday's by now.
Put(c, new) ==
    LET last == Cardinality({i \in 1..Len(lines) : lines[i].day <= file[c]})
    IN  lines' = SubSeq(lines, 1, last) \o new \o SubSeq(lines, last + 1, Len(lines))

\* Under the lock: read the head, write the linked line, write the head.
Write(c) ==
    /\ Waiting(c)
    /\ Put(c, <<Linked(c, head)>>)
    /\ head' = Digest(c, head)
    /\ recorded' = recorded \cup {c}
    /\ UNCHANGED <<day, file, off, edited, turn, writeFaults>>

\* The lock or the head cannot be had: the line goes in without a link.
WriteUnchained(c) ==
    /\ Waiting(c) /\ writeFaults < MaxFaults
    /\ Put(c, <<Unchained(c)>>)
    /\ recorded' = recorded \cup {c}
    /\ writeFaults' = writeFaults + 1
    /\ UNCHANGED <<day, head, file, off, edited, turn>>

\* The line went in and the head did not: the handler writes it again, unchained,
\* and the head is what it was, or empty once the truncation went through.
WriteTwice(c) ==
    /\ Waiting(c) /\ writeFaults < MaxFaults
    /\ Put(c, <<Linked(c, head), Unchained(c)>>)
    /\ head' \in {head, Seed}
    /\ recorded' = recorded \cup {c}
    /\ writeFaults' = writeFaults + 1
    /\ UNCHANGED <<day, file, off, edited, turn>>

Midnight == /\ day < Days
            /\ day' = day + 1
            /\ UNCHANGED <<lines, head, file, recorded, off, edited, turn, writeFaults>>

-----------------------------------------------------------------------------
(* Readers.                                                                *)

ChainedAt == {i \in 1..Len(lines) : lines[i].hash # Unlinked}

\* A reader starts where the newest Window files do.
Read == {i \in 1..Len(lines) :
           \E f \in 1..i : Cardinality({lines[k].day : k \in f..Len(lines)}) <= Window}
ReadLinks == Read \cap ChainedAt

\* What verify_chain accepts: nothing unlinked after the first link it reads, every
\* digest recomputes, and every link but the first names the line before it.
Intact ==
    \A i \in Read : \A j \in ReadLinks :
        /\ (j < i) => i \in ChainedAt
        /\ (i = j) => lines[i].hash = Digest(lines[i].fact, lines[i].prev)
        /\ (i = j /\ i - 1 \in ReadLinks) => lines[i].prev = lines[i - 1].hash

Anchored(digest) == \E i \in ReadLinks : lines[i].hash = digest

\* The log as it reads up to a digest: where it adds up and holds that digest, its
\* links from the first on.
UpTo(digest) ==
    LET first == Min(ReadLinks)
        last  == Max({i \in ReadLinks : lines[i].hash = digest})
    IN  IF Intact /\ Anchored(digest) THEN [k \in 1..(last - first + 1) |-> lines[first + k - 1]]
        ELSE <<>>

\* Did the gate record anything for this turn?  Only today's file is asked.
Consulted == \E i \in 1..Len(lines) : lines[i].day = day /\ lines[i].fact \in Calls

\* The turn ends once its calls are written, and is judged by what Consulted says.
EndTurn == /\ turn = "running"
           /\ \A c \in Calls : file[c] # 0 => c \in recorded
           /\ recorded # {}
           /\ turn' = IF Consulted THEN "gated" ELSE "ungated"
           /\ UNCHANGED <<day, lines, head, file, recorded, off, edited, writeFaults>>

\* A report leaves with the head as it stands.
Report == /\ head # Seed
          /\ LET sent == [head |-> head, says |-> UpTo(head)]
             IN  sent \notin off /\ off' = off \cup {sent}
          /\ UNCHANGED <<day, lines, head, file, recorded, edited, turn, writeFaults>>

-----------------------------------------------------------------------------
(* Somebody with the disk tidies the record up.  The head is theirs to     *)
(* write as well.                                                          *)

\* The links of s from line i on, rebuilt upon the digest before.
Relinked(s, i, before) ==
    LET chain[k \in (i - 1)..Len(s)] ==
          IF k = i - 1 THEN before
          ELSE IF s[k].hash = Unlinked THEN chain[k - 1] ELSE Digest(s[k].fact, chain[k - 1])
    IN  [k \in 1..Len(s) |-> IF k < i \/ s[k].hash = Unlinked THEN s[k]
                             ELSE [s[k] EXCEPT !.prev = chain[k - 1], !.hash = Digest(s[k].fact, chain[k - 1])]]

\* The lines up to i without hash and prev, as they stood before there was a chain.
Bared(s, i) ==
    [k \in 1..Len(s) |-> IF k <= i THEN [s[k] EXCEPT !.prev = Unlinked, !.hash = Unlinked] ELSE s[k]]

\* A line says something else: nothing more, with its own digest, with every link after
\* it, or without any link up to it.
Rewrite(i) ==
    LET plain == [lines EXCEPT ![i].fact = Tidied]
        own   == [plain EXCEPT ![i].hash = Digest(Tidied, lines[i].prev)]
    IN  lines' \in {plain, own, Relinked(plain, i, lines[i].prev), Bared(plain, i)}

\* A line is taken out: nothing more, with every link after it, without any link
\* before it, or with all the lines before it.
Remove(i) ==
    LET after == SubSeq(lines, i + 1, Len(lines))
        gone  == SubSeq(lines, 1, i - 1) \o after
    IN  lines' \in {gone, Relinked(gone, i, lines[i].prev), Bared(gone, i - 1), after}

Tidy(i) ==
    /\ Cardinality(edited) < MaxEdits
    /\ i \in ChainedAt /\ lines[i].fact # Tidied
    /\ Rewrite(i) \/ Remove(i)
    /\ edited' = edited \cup ({lines[j].fact : j \in ChainedAt} \ {lines'[j].fact : j \in ChainedAt'})
    /\ head' \in {head} \cup {lines'[j].hash : j \in ChainedAt'}
    /\ UNCHANGED <<day, file, recorded, off, turn, writeFaults>>

AuditNext == \/ \E c \in Calls : ChooseFile(c) \/ Write(c) \/ WriteUnchained(c) \/ WriteTwice(c)
             \/ Midnight \/ EndTurn \/ Report
             \/ \E i \in 1..Len(lines) : Tidy(i)

AuditSpec == AuditInit /\ [][AuditNext]_auditVars

-----------------------------------------------------------------------------
\* From the end on, two logs say the same, as far as both go.
Agree(s, t) == \A k \in 0..(Min({Len(s), Len(t)}) - 1) : s[Len(s) - k].fact = t[Len(t) - k].fact

\* What a log that adds up says before a head that left the box, it said when that head
\* left: no line it still links says anything else, is missing between two, or came
\* in between.  That "an edit or a deletion after the fact stops the chain" is more
\* than this, and not so: an edit stays unseen where every line before it lost its
\* link with it, was deleted with it, or is in a file too old to be read.
TamperShows == \A sent \in off : Agree(sent.says, UpTo(sent.head))

=============================================================================
