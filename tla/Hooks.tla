------------------------------- MODULE Hooks -------------------------------
(***************************************************************************)
(* Whether a tool call may run, decided before it does.  The decision is   *)
(* written once as a pure function (hookprobe/gate.py, deny_reason) which  *)
(* a runtime that spawns its gate reaches per call, and once more as three *)
(* hooks inside the process (hookprobe/engine.py) that call its pieces.    *)
(* The rules of the shell guard are in guard.py, the files a run may not   *)
(* write in inputs.py.                                                     *)
(*                                                                         *)
(* A command is the set of rules it matches, a path the class of what it   *)
(* resolves to.  Hooks share nothing but the audit, so one call is enough. *)
(***************************************************************************)
EXTENDS Sequences, SequencesExt

CONSTANTS MaxTargets    \* the files one patch names

VARIABLES route,        \* how the runtime reaches the gate: hooks, spawn
          mode,         \* the posture the node was given; anything may be written there
          listed,       \* the MCP tools the operator named
          call,         \* the call, or None
          step,         \* asked, refused, ran, over
          rows          \* the audit's rows of this call, oldest first

hookVars == <<route, mode, listed, call, step, rows>>

None == [guard |-> "none", why |-> "none"]

Rules == {"egress", "unseen", "reveals", "destroys", "mutates"}
\* What a file is to the next run; an argument may be missing.
Paths == {"steering", "operators", "scratch", "empty"}
Tools == {"server.read", "server.send", "bare"}   \* bare: a name without a server in it

\* The file a command puts bytes into, removes or relinks: a redirect's target, or an
\* argument of a command that writes one.
Written == Paths \ {"empty"}

Calls == [tool : {"Bash"}, matches : SUBSET Rules, writes : Written]
         \cup [tool : {"apply_patch"}, targets : BoundedSeq(Written, MaxTargets)]
         \cup [tool : {"Edit"}, file : Paths, notebook : Paths, path : Paths]
         \cup [tool : {"mcp"}, name : Tools]
         \cup [tool : {"Read"}]

-----------------------------------------------------------------------------
\* The tables of guard.py, in the order they are asked: three under every posture, then
\* the posture's own.  A posture nobody knows is the read-only one.
AlwaysRules == <<"egress">>
UnseenRules == <<"unseen">>
RevealRules == <<"reveals">>
DangerRules == <<"destroys">>
DenyRules   == <<"mutates">>

BashReason(matches, m) ==
    LET asked == AlwaysRules \o UnseenRules \o RevealRules
                 \o (IF m = "danger-only" THEN DangerRules ELSE DenyRules)
        hit == SelectSeq(asked, LAMBDA r : r \in matches)
    IN IF hit = <<>> THEN None ELSE [guard |-> "bash", why |-> Head(hit)]

Protected == {"steering", "operators"}

\* A file the next run reads, and a file of the operator's, are refused in different words.
WriteReason(path) ==
    IF path \in Protected THEN [guard |-> "input", why |-> path] ELSE None

\* A redirect or a writing command whose target is protected.
ShellReason(writes) ==
    IF writes \in Protected THEN [guard |-> "input", why |-> "shell"] ELSE None

\* The tool by its name, or its whole server; a name without a server only by itself.
McpReason(name, allowed) ==
    IF name \in allowed \/ (name # "bare" /\ "server.*" \in allowed) THEN None
    ELSE [guard |-> "mcp", why |-> IF allowed = {} THEN "closed" ELSE "unlisted"]

FirstReason(reasons) ==
    LET given == SelectSeq(reasons, LAMBDA r : r # None)
    IN IF given = <<>> THEN None ELSE Head(given)

EditReason(c) == FirstReason(<<WriteReason(c.file), WriteReason(c.notebook), WriteReason(c.path)>>)

PatchReason(c) == FirstReason([i \in DOMAIN c.targets |-> WriteReason(c.targets[i])])

\* gate.deny_reason.
DenyReason(c, m, allowed) ==
    CASE c.tool = "Bash"        -> FirstReason(<<BashReason(c.matches, m), ShellReason(c.writes)>>)
      [] c.tool = "apply_patch" -> PatchReason(c)
      [] c.tool = "mcp"         -> McpReason(c.name, allowed)
      [] c.tool = "Edit"        -> EditReason(c)
      [] OTHER                  -> None

-----------------------------------------------------------------------------
\* The bug the shell half of the guard was written for: the edit tools only.
BashHookAlone(c, m) == IF c.tool = "Bash" THEN BashReason(c.matches, m) ELSE None

\* The hooks of the process: one matched on Bash, two on every tool and asking its name.
BashHook(c, m)  == IF c.tool = "Bash" THEN FirstReason(<<BashReason(c.matches, m), ShellReason(c.writes)>>)
                   ELSE None
InputHook(c)    == IF c.tool = "Edit" THEN EditReason(c) ELSE None
McpHook(c, allowed) == IF c.tool = "mcp" THEN McpReason(c.name, allowed) ELSE None

HookReasons(c) == {BashHook(c, mode), InputHook(c), McpHook(c, listed)} \ {None}

\* Who refuses the call here, and why: each hook answers for itself and any of them refuses.
Refusals(c) == IF route = "hooks" THEN HookReasons(c) ELSE {DenyReason(c, mode, listed)} \ {None}

\* The process never offers apply_patch; a runtime that spawns the gate may.
Offered(c) == route = "hooks" => c.tool # "apply_patch"

HooksInit == /\ route \in {"hooks", "spawn"}
             /\ mode \in {"readonly", "danger-only", "typo"}
             /\ listed \in SUBSET {"server.read", "server.*"}
             /\ call = [tool |-> "none"] /\ step = "asked" /\ rows = <<>>

\* A row is written, or the disk refuses it.  Inside the process that is swallowed; a
\* spawned gate that cannot write answers the refusal it answers to every failure.
Refuse(c) ==
    /\ Refusals(c) # {}
    /\ step' = "refused"
    /\ \E kept \in BOOLEAN :
         rows' = IF kept THEN SetToSeq({[denied |-> TRUE, guard |-> r.guard] : r \in Refusals(c)}) ELSE <<>>

Allow(c) == Refusals(c) = {} /\ step' = "ran" /\ UNCHANGED rows

PreToolUse(c) ==
    /\ step = "asked" /\ call.tool = "none" /\ Offered(c)
    /\ call' = c
    /\ Refuse(c) \/ Allow(c)
    /\ UNCHANGED <<route, mode, listed>>

\* What ran is put on record; the recorder never breaks the run.
PostToolUse ==
    /\ step = "ran" /\ step' = "over"
    /\ \E kept \in BOOLEAN : rows' = IF kept THEN <<[denied |-> FALSE, guard |-> "none"]>> ELSE rows
    /\ UNCHANGED <<route, mode, listed, call>>

HooksNext == (\E c \in Calls : PreToolUse(c)) \/ PostToolUse

-----------------------------------------------------------------------------
\* A posture means one thing whichever way a runtime reaches the gate: what runs is what
\* the one decision lets through, what is refused is what it refuses and for the reason
\* it gives, whatever became of the record (gate.py's docstring, service.Engine).
OnePosture ==
    call.tool # "none" =>
        LET verdict == DenyReason(call, mode, listed)
        IN /\ step = "refused" <=> verdict # None
           /\ \A i \in DOMAIN rows : rows[i].denied => rows[i].guard = verdict.guard
=============================================================================
