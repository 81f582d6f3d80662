------------------------------- MODULE Memory -------------------------------
(***************************************************************************)
(* What an investigation node remembers beyond its runs: facts a report    *)
(* suggests wait in a queue for a person, or enter the memory on their own *)
(* when their shape cannot act (hookprobe/suggestions.py, library.py).     *)
(*                                                                         *)
(* Several processes may write one volume (files.py).  Whoever rewrites    *)
(* the queue or the memory holds that file's lock from its read to its     *)
(* write, except the operator's editor, which takes none.  A fact is known *)
(* by its line; whether its shape can act is a set.                        *)
(***************************************************************************)
EXTENDS Integers, Sequences, FiniteSets, FiniteSetsExt, SequencesExt

CONSTANTS
    Writers,        \* processes on the volume
    Lines, Safe,    \* facts, and those unsafe_reason has nothing against
    PerRun,         \* _PER_RUN
    QueueCap,       \* _QUEUE_CAP
    Unread,         \* no file read yet
    MaxReports, MaxAnswers, MaxSaves, MaxFaults     \* bounds

VARIABLES
    applies,        \* memory_auto_apply, and the class's tier permits it
    queue,          \* memory-suggestions.jsonl
    memory,         \* CLAUDE.md, its sections in order
    doing,          \* writer -> what it has still to write
    view,           \* writer -> the file it read and holds the lock of
    screen,         \* the memory page an operator has open
    filed,          \* history: rows ever filed
    answered,       \* history: row -> what a person said of it
    reports, answers, saves, faults

memoryVars == <<applies, queue, memory, doing, view, screen, filed, answered,
                reports, answers, saves, faults>>

MemoryAssumption ==
    /\ Safe \subseteq Lines
    /\ {PerRun, QueueCap, MaxReports, MaxAnswers, MaxSaves, MaxFaults} \subseteq Nat

Learned  == "Learned from investigations"           \* a person accepted these
Observed == "Observed by investigations"            \* nobody read these

MemoryInit ==
    /\ applies \in BOOLEAN
    /\ queue = <<>> /\ memory = <<>> /\ screen = Unread
    /\ doing = [w \in Writers |-> <<>>] /\ view = [w \in Writers |-> Unread]
    /\ filed = <<>> /\ answered = <<>>
    /\ reports = 0 /\ answers = 0 /\ saves = 0 /\ faults = 0

-----------------------------------------------------------------------------
\* What a report and a press ask to have written.

Task(kind, lines, row) == [kind |-> kind, lines |-> lines, row |-> row]

\* The lines at some places, in their order.
At(lines, places) ==
    [k \in 1..Cardinality(places) |->
        lines[CHOOSE j \in places : Cardinality({i \in places : i <= j}) = k]]

\* extract: each line once, no more than a report's share.
Firsts(lines) == {k \in DOMAIN lines : \A j \in 1..(k - 1) : lines[j] # lines[k]}
Extract(lines) ==
    LET unique == At(lines, Firsts(lines))
    IN  SubSeq(unique, 1, Min({PerRun, Len(unique)}))

\* unsafe_reason, asked only where applying unattended is allowed.
Applied(line) == applies /\ line \in Safe

\* append: what cannot act is applied line by line, and the rest is queued at once.
Suggest(w, lines) ==
    LET facts == Extract(lines)
        safe  == At(facts, {k \in DOMAIN facts : Applied(facts[k])})
        rest  == At(facts, {k \in DOMAIN facts : ~Applied(facts[k])})
    IN  /\ reports < MaxReports /\ doing[w] = <<>>
        /\ reports' = reports + 1
        /\ doing' = [doing EXCEPT ![w] =
               [k \in DOMAIN safe |-> Task("observe", <<safe[k]>>, 0)]
               \o IF rest = <<>> THEN <<>> ELSE <<Task("file", rest, 0)>>]
        /\ UNCHANGED <<applies, queue, memory, view, screen, filed, answered, answers, saves, faults>>

\* What the memory page and a card's button ask for: the row may be answered by now.
Answer(w, row, decision) ==
    /\ answers < MaxAnswers /\ doing[w] = <<>>
    /\ answers' = answers + 1
    /\ doing' = [doing EXCEPT ![w] = <<Task(decision, <<>>, row)>>]
    /\ UNCHANGED <<applies, queue, memory, view, screen, filed, answered, reports, saves, faults>>
Remember(w, row) == Answer(w, row, "accepted")
Dismiss(w, row)  == Answer(w, row, "dismissed")

-----------------------------------------------------------------------------
\* One write: the lock, the read, the rewrite, the release.

File(task) == IF task.kind \in {"observe", "learn"} THEN "memory" ELSE "queue"
Holds(w, file) == view[w] # Unread /\ File(Head(doing[w])) = file

\* Seeded fault: the queue is read without its lock.
FreeMemory(file) == file = "queue" \/ \A w \in Writers : ~Holds(w, file)
Free(file) == \A w \in Writers : ~Holds(w, file)

Reads(w) ==
    /\ doing[w] # <<>> /\ view[w] = Unread
    /\ LET file == File(Head(doing[w]))
       IN  /\ Free(file)
           /\ view' = [view EXCEPT ![w] = IF file = "memory" THEN memory ELSE queue]
    /\ UNCHANGED <<applies, queue, memory, doing, screen, filed, answered, reports, answers, saves, faults>>

\* The writer goes on with the tasks left, the lock released.
Proceeds(w, left) ==
    /\ doing' = [doing EXCEPT ![w] = left] /\ view' = [view EXCEPT ![w] = Unread]
    /\ UNCHANGED <<applies, screen, reports, answers, saves, faults>>

\* _write_memory: under its own heading, wherever in the file that is.
Under(file, heading, line) ==
    IF \E k \in DOMAIN file : file[k].heading = heading
    THEN [k \in DOMAIN file |-> IF file[k].heading = heading
                                THEN [file[k] EXCEPT !.lines = @ \cup {line}] ELSE file[k]]
    ELSE Append(file, [heading |-> heading, lines |-> {line}])

WritesMemory(w) ==
    LET task == Head(doing[w])
    IN  /\ doing[w] # <<>> /\ Holds(w, "memory")
        /\ memory' = Under(view[w], IF task.kind = "learn" THEN Learned ELSE Observed, task.lines[1])
        /\ Proceeds(w, Tail(doing[w]))
        /\ UNCHANGED <<queue, filed, answered>>

\* append: the room is counted in what was read, the rows go to the file's end.
Open(rows) == {k \in DOMAIN rows : rows[k].status = "open"}
WritesRows(w) ==
    LET task == Head(doing[w])
        room == Max({0, QueueCap - Cardinality(Open(view[w]))})
        new  == SubSeq(task.lines, 1, Min({room, Len(task.lines)}))
    IN  /\ doing[w] # <<>> /\ Holds(w, "queue") /\ task.kind = "file"
        /\ queue' = queue \o [k \in DOMAIN new |-> [id |-> Len(filed) + k, line |-> new[k], status |-> "open"]]
        /\ filed' = filed \o new
        /\ answered' = answered \o [k \in DOMAIN new |-> "open"]
        /\ Proceeds(w, Tail(doing[w]))
        /\ UNCHANGED memory

\* resolve: every row is written back from what was read, and then the memory.
Target(w, rows) == {k \in Open(rows) : rows[k].id = Head(doing[w]).row}
Resolves(w) ==
    LET task == Head(doing[w])
        rows == view[w]
    IN  /\ doing[w] # <<>> /\ Holds(w, "queue") /\ task.kind \in {"accepted", "dismissed"}
        /\ \/ /\ Target(w, rows) = {}
              /\ Proceeds(w, <<>>)
              /\ UNCHANGED <<queue, answered>>
           \/ \E k \in Target(w, rows) :
                 /\ queue' = [rows EXCEPT ![k].status = task.kind]
                 /\ answered' = [answered EXCEPT ![task.row] = task.kind]
                 /\ Proceeds(w, IF task.kind = "accepted" THEN <<Task("learn", <<rows[k].line>>, 0)>> ELSE <<>>)
        /\ UNCHANGED <<memory, filed>>

\* A write that fails, or a process that dies: the lock goes, the rest is not done.
Stops(w) ==
    /\ faults < MaxFaults /\ doing[w] # <<>>
    /\ faults' = faults + 1
    /\ doing' = [doing EXCEPT ![w] = <<>>] /\ view' = [view EXCEPT ![w] = Unread]
    /\ UNCHANGED <<applies, queue, memory, screen, filed, answered, reports, answers, saves>>

-----------------------------------------------------------------------------
\* The operator's editor: the file as it was opened, with a line struck out.

OpensPage ==
    /\ screen' = memory /\ screen # memory
    /\ UNCHANGED <<applies, queue, memory, doing, view, filed, answered, reports, answers, saves, faults>>

SavesPage(line) ==
    /\ screen # Unread /\ saves < MaxSaves
    /\ saves' = saves + 1
    /\ memory' = [k \in DOMAIN screen |-> [screen[k] EXCEPT !.lines = @ \ {line}]]
    /\ screen' = memory'
    /\ UNCHANGED <<applies, queue, doing, view, filed, answered, reports, answers, faults>>

MemoryNext ==
    \/ \E w \in Writers, n \in 1..(PerRun + 1) : \E lines \in [1..n -> Lines] : Suggest(w, lines)
    \/ \E w \in Writers, row \in DOMAIN filed : Remember(w, row) \/ Dismiss(w, row)
    \/ \E w \in Writers : Reads(w) \/ WritesMemory(w) \/ WritesRows(w) \/ Resolves(w) \/ Stops(w)
    \/ OpensPage
    \/ \E line \in Lines : SavesPage(line)

MemorySpec == MemoryInit /\ [][MemoryNext]_memoryVars

-----------------------------------------------------------------------------
\* "What goes missing is a fact a run asked a human to remember": every row that
\* was filed is in the queue with the answer a person gave it, no more than the
\* cap of them wait, and the memory says of no line that a person approved it
\* who did not, nor of one that can act that nobody had to.
FactsAreKept ==
    /\ \A id \in DOMAIN filed :
          {k \in DOMAIN queue : queue[k] = [id |-> id, line |-> filed[id], status |-> answered[id]]} # {}
    /\ Cardinality(Open(queue)) <= QueueCap
    /\ \A k \in DOMAIN memory : \A line \in memory[k].lines :
          IF memory[k].heading = Observed THEN line \in Safe
          ELSE \E id \in DOMAIN filed : filed[id] = line /\ answered[id] = "accepted"
=============================================================================
