----------------------------- MODULE NodeProofs ------------------------------
(***************************************************************************)
(* What of Node holds for every value of its constants.  A part that runs  *)
(* keeps an invariant of its own, proved from that part's initial states   *)
(* and steps alone (StepOfPart: no other part moves); the part's property  *)
(* is read off it.                                                         *)
(***************************************************************************)
EXTENDS Node, Integers, Sequences, FiniteSetTheorems, SequenceTheorems, WellFoundedInduction, TLAPS
-----------------------------------------------------------------------------
\* A step is a step of the part that runs, and no other part moves.
LEMMA StepOfPart ==
  ASSUME [NodeNext]_nodeVars
  PROVE  /\ part' = part
         /\ part = "fix" => R!Next \/ UNCHANGED fixVars
         /\ part = "audit" => A!AuditNext \/ UNCHANGED auditVars
         /\ part = "library" => L!LibraryNext \/ UNCHANGED libraryVars
         /\ part # "library" => UNCHANGED libraryVars
         /\ part = "hooks" => H!HooksNext \/ UNCHANGED hookVars
         /\ part = "runtime" => X!RuntimeNext \/ UNCHANGED runtimeVars
         /\ part = "outage" => O!OutageNext \/ UNCHANGED outageVars
         /\ part = "posture" => P!PostureNext \/ UNCHANGED postureVars
         /\ part = "verdict" => V!VerdictNext \/ UNCHANGED verdictVars
         /\ part = "memory" => M!MemoryNext \/ UNCHANGED memoryVars
<1>1. CASE NodeNext
  BY <1>1 DEF NodeNext, Still
<1>2. CASE UNCHANGED nodeVars
  BY <1>2 DEF nodeVars
<1>. QED
  BY <1>1, <1>2
-----------------------------------------------------------------------------
(***************************************************************************)
(* Remediation: what its condition did while a procedure waited, and what  *)
(* the chat was told of the fix afterwards.                                *)
(***************************************************************************)
\* A run of condition c.
RunOf(c) ==
    [of : {c}, notice : BOOLEAN, turn : Nat \ {0}, busy : BOOLEAN, failed : BOOLEAN,
     resumable : BOOLEAN, restarted : BOOLEAN, recovered : BOOLEAN, ended : Nat, offer : Nat]

\* A run, of whatever condition.
IsRun(x) == \E c : x \in RunOf(c)

\* A proposal that was filed.
Filed ==
    [status : {"proposed", "running", "executed", "failed", "rejected", "superseded"},
     proc : Procedures, session : R!Runs, cursor : [turn : Nat \ {0}, recovered : BOOLEAN],
     created : Nat, executed : Nat, until : Nat, after : BOOLEAN,
     held : {R!Unsaid, "held", "did_not_hold"}]

\* Numbers are given in order, and a proposal is of a run there is.
FixType ==
    /\ now \in Nat /\ nextRun \in Nat \ {0} /\ nextProp \in Nat \ {0}
    /\ run = [r \in R!Runs |-> run[r]]
    /\ \A r \in R!Known : r < nextRun /\ IsRun(run[r])
    /\ row \in [R!Props -> Filed \cup {R!NoRow}]
    /\ \A p \in R!Props : row[p] # R!NoRow => p < nextProp /\ row[p].session \in R!Known
    /\ overtaken \subseteq R!Props

\* What a proposal's steps were written from is not ahead of its run.
CursorsTrail ==
    \A p \in R!Props : row[p] # R!NoRow =>
      /\ row[p].cursor.turn <= run[row[p].session].turn
      /\ row[p].cursor.recovered => run[row[p].session].recovered

\* What has been overtaken is answered, or would be refused as moved.
OvertakenMoved ==
    \A p \in overtaken :
      /\ row[p] # R!NoRow
      /\ row[p].status \in {"proposed", "rejected", "superseded"}
      /\ row[p].status = "proposed" => R!Moved(p)

\* A recovery that was heard of p and could not be saved on its row.
Missed(p) == <<p, "held">> \in unsaved

\* A recovery after the fix is on its row, unless it could not be saved there.
RecoveryIsOnTheRow ==
    \A p \in R!Executed :
      row[p].held = R!Unsaid => ~(run[row[p].session].recovered /\ ~row[p].after) \/ Missed(p)

\* The row bears out what was said of it: it has that answer, or its window is over
\* and says so from then on.
Bears(p, says) ==
    \/ row[p].held = says /\ says # R!Unsaid
    \/ row[p].held = R!Unsaid /\ says = "held" /\ now >= row[p].until

\* An outcome that was told is borne out, of a fix that had a window and missed no
\* recovery.
Stands(t) ==
    t.key.kind = "outcome" =>
      /\ t.key.proposal \in R!Executed
      /\ row[t.key.proposal].until > 0 /\ ~Missed(t.key.proposal) => Bears(t.key.proposal, t.says)

\* All of it.
FixInv ==
    /\ FixType /\ CursorsTrail /\ OvertakenMoved
    /\ RecoveryIsOnTheRow /\ \A t \in told : Stands(t)

-----------------------------------------------------------------------------
\* The runs a step leaves: none is lost, none forgets a turn or a recovery.
RunsMoveOn ==
    /\ nextRun' \in Nat \ {0}
    /\ run' = [r \in R!Runs |-> run'[r]]
    /\ \A r \in R!Known : /\ run'[r] # R!NoRun
                          /\ run'[r].turn >= run[r].turn
                          /\ run[r].recovered => run'[r].recovered
    /\ \A r \in R!Runs : run'[r] # R!NoRun => r < nextRun' /\ IsRun(run'[r])

\* The rows a step leaves: what is answered stays answered, what is overtaken is
\* not approved, and an answer on a row is not another's later.
RowMovesOn(p) ==
    /\ row'[p] # R!NoRow /\ row'[p].session = row[p].session /\ row'[p].cursor = row[p].cursor
    /\ row[p].status \in {"rejected", "superseded"} => row'[p].status = row[p].status
    /\ row[p].status = "proposed" =>
         \/ row'[p].status \in {"proposed", "rejected", "superseded"}
         \/ row'[p].status = "running" /\ ~R!Moved(p)
    /\ row'[p].status = "executed" =>
         \/ /\ row[p].status = "executed"
            /\ row'[p].until = row[p].until /\ row'[p].after = row[p].after
            /\ row[p].held # R!Unsaid => row'[p].held = row[p].held
            /\ row[p].held = R!Unsaid /\ row[p].until > 0 /\ now >= row[p].until =>
                 row'[p].held \in {R!Unsaid, "held"}
         \/ row[p].status = "running" /\ row'[p].after = run'[row[p].session].recovered
    /\ row[p].status = "executed" => row'[p].status = "executed"
\* A row that is filed now.
RowIsNew(p) ==
    /\ p < nextProp' /\ row'[p].session \in R!Known /\ row'[p].status = "proposed"
    /\ row'[p].cursor.turn <= run'[row'[p].session].turn
    /\ row'[p].cursor.recovered => run'[row'[p].session].recovered

\* The rows a step leaves.
RowsMoveOn ==
    /\ now' \in Nat /\ now' >= now /\ unsaved \subseteq unsaved'
    /\ nextProp' \in Nat \ {0} /\ nextProp' >= nextProp
    /\ row' \in [R!Props -> Filed \cup {R!NoRow}]
    /\ \A p \in R!Props : row[p] # R!NoRow => RowMovesOn(p)
    /\ \A p \in R!Props : row[p] = R!NoRow /\ row'[p] # R!NoRow => RowIsNew(p)

\* No row has a status of its own.
LEMMA NoRowsStatus == R!NoRow.status = "none"
BY DEF R!NoRow, R!None

\* A known run stays one.
LEMMA KnownStays == ASSUME RunsMoveOn PROVE R!Known \subseteq R!Known'
BY DEF RunsMoveOn, R!Known, R!NoRun, R!None

\* Types and cursors hold after such a step.
LEMMA TypesMoveOn ==
  ASSUME FixInv, RunsMoveOn, RowsMoveOn, overtaken' \subseteq R!Props
  PROVE  FixType' /\ CursorsTrail'
<1>1. \A r \in R!Known' : r < nextRun' /\ IsRun(run'[r])
  BY DEF RunsMoveOn, R!Known, R!NoRun, R!None
<1>2. ASSUME NEW p \in R!Props, row'[p] # R!NoRow
      PROVE  /\ p < nextProp' /\ row'[p].session \in R!Known'
             /\ row'[p].cursor.turn <= run'[row'[p].session].turn
             /\ row'[p].cursor.recovered => run'[row'[p].session].recovered
  <2>1. CASE row[p] = R!NoRow
    BY <1>2, <2>1, KnownStays DEF RowsMoveOn, RowIsNew
  <2>2. CASE row[p] # R!NoRow
    <3>1. PICK s \in R!Known : s = row[p].session /\ p < nextProp
      BY <2>2 DEF FixInv, FixType
    <3>2. /\ row[p].cursor.turn <= run[s].turn
          /\ row[p].cursor.recovered => run[s].recovered
      BY <2>2, <3>1 DEF FixInv, CursorsTrail
    <3>3. run'[s].turn >= run[s].turn /\ (run[s].recovered => run'[s].recovered)
      BY <3>1 DEF RunsMoveOn
    <3>4. row'[p].session = s /\ row'[p].cursor = row[p].cursor
      BY <2>2, <3>1 DEF RowsMoveOn, RowMovesOn
    <3>5. /\ nextProp' >= nextProp /\ nextProp' \in Nat /\ nextProp \in Nat /\ p \in Nat
          /\ row[p].cursor.turn \in Nat /\ run[s].turn \in Nat /\ run'[s].turn \in Nat
      <4>1. row[p] \in Filed
        BY <2>2 DEF FixInv, FixType
      <4>2. row[p].cursor.turn \in Nat
        BY <4>1 DEF Filed
      <4>3. IsRun(run[s]) /\ IsRun(run'[s])
        BY <3>1 DEF FixInv, FixType, RunsMoveOn, R!Known, R!NoRun, R!None
      <4>4. run[s].turn \in Nat /\ run'[s].turn \in Nat
        BY <4>3 DEF IsRun, RunOf
      <4>. QED
        BY <4>2, <4>4 DEF FixInv, FixType, RowsMoveOn, R!Props
    <3>6. row'[p].cursor.turn <= run'[s].turn
      BY <3>2, <3>3, <3>4, <3>5
    <3>7. row'[p].cursor.recovered => run'[s].recovered
      BY <3>2, <3>3, <3>4, Zenon
    <3>8. p < nextProp'
      BY <3>1, <3>5
    <3>. QED
      BY <3>1, <3>4, <3>6, <3>7, <3>8, KnownStays
  <2>. QED
    BY <2>1, <2>2
<1>3. CursorsTrail'
  BY <1>2 DEF CursorsTrail, R!Props, R!NoRow, R!None
<1>4. \A p \in R!Props : row'[p] # R!NoRow => p < nextProp' /\ row'[p].session \in R!Known'
  BY <1>2
<1>5. FixType'
  BY <1>1, <1>4 DEF FixType, RunsMoveOn, RowsMoveOn, R!Props, R!Runs, R!NoRow, R!None
<1>. QED
  BY <1>3, <1>5

\* What has moved on stays moved on.
LEMMA MovedStays ==
  ASSUME FixInv, RunsMoveOn, NEW p \in R!Props, row[p] # R!NoRow, RowMovesOn(p), R!Moved(p)
  PROVE  R!Moved(p)'
<1>1. PICK s \in R!Known : s = row[p].session
  BY DEF FixInv, FixType
<1>2. row'[p].session = s /\ row'[p].cursor = row[p].cursor
  BY <1>1 DEF RowMovesOn
<1>3. \/ run[s].recovered /\ ~row[p].cursor.recovered
      \/ run[s].turn # row[p].cursor.turn
  BY <1>1 DEF R!Moved
<1>4. CASE run[s].recovered /\ ~row[p].cursor.recovered
  <2>1. run'[s].recovered
    BY <1>4 DEF RunsMoveOn
  <2>2. run'[row'[p].session].recovered /\ ~row'[p].cursor.recovered
    BY <1>2, <1>4, <2>1, Zenon
  <2>. QED
    BY <2>2 DEF R!Moved
<1>5. CASE run[s].turn # row[p].cursor.turn
  <2>1. row[p].cursor.turn <= run[s].turn
    BY <1>1 DEF FixInv, CursorsTrail
  <2>2. run'[s].turn >= run[s].turn
    BY DEF RunsMoveOn
  <2>3. row[p].cursor.turn \in Nat /\ run[s].turn \in Nat /\ run'[s].turn \in Nat
    <3>1. row[p] \in Filed
      BY DEF FixInv, FixType
    <3>2. row[p].cursor.turn \in Nat
      BY <3>1 DEF Filed
    <3>3. IsRun(run[s]) /\ IsRun(run'[s])
      BY DEF FixInv, FixType, RunsMoveOn, R!Known, R!NoRun, R!None
    <3>. QED
      BY <3>2, <3>3 DEF IsRun, RunOf
  <2>4. run'[s].turn # row[p].cursor.turn
    BY <1>5, <2>1, <2>2, <2>3
  <2>. QED
    BY <1>2, <2>4 DEF R!Moved
<1>. QED
  BY <1>3, <1>4, <1>5

\* What was overtaken stays refusable; what a step overtakes has to be.
LEMMA OvertakenMovesOn ==
  ASSUME FixInv, RunsMoveOn, RowsMoveOn,
         \A p \in overtaken' :
           p \in overtaken \/ (p \in R!Props /\ row[p] # R!NoRow /\ row'[p].status = "proposed" /\ R!Moved(p)')
  PROVE  OvertakenMoved' /\ overtaken' \subseteq R!Props
<1>1. ASSUME NEW p \in overtaken'
      PROVE  /\ p \in R!Props /\ row'[p] # R!NoRow
             /\ row'[p].status \in {"proposed", "rejected", "superseded"}
             /\ row'[p].status = "proposed" => R!Moved(p)'
  <2>1. CASE p \in overtaken
    <3>1. /\ p \in R!Props /\ row[p] # R!NoRow
          /\ row[p].status \in {"proposed", "rejected", "superseded"}
          /\ row[p].status = "proposed" => R!Moved(p)
      BY <2>1 DEF FixInv, FixType, OvertakenMoved
    <3>2. RowMovesOn(p)
      BY <3>1 DEF RowsMoveOn
    <3>3. row'[p] # R!NoRow /\ row'[p].status \in {"proposed", "rejected", "superseded"}
      BY <3>1, <3>2 DEF RowMovesOn
    <3>4. row'[p].status = "proposed" => row[p].status = "proposed"
      BY <3>1, <3>2 DEF RowMovesOn
    <3>. QED
      BY <3>1, <3>2, <3>3, <3>4, MovedStays
  <2>2. CASE /\ p \in R!Props /\ row[p] # R!NoRow
             /\ row'[p].status = "proposed" /\ R!Moved(p)'
    <3>1. RowMovesOn(p)
      BY <2>2 DEF RowsMoveOn
    <3>. QED
      BY <2>2, <3>1 DEF RowMovesOn
  <2>. QED
    BY <1>1, <2>1, <2>2
<1>. QED
  BY <1>1 DEF OvertakenMoved, R!NoRow, R!None

\* What was told stands, where a recovery that is heard is put on its rows and
\* what is told is on its row or past its window.
LEMMA ToldMovesOn ==
  ASSUME FixInv, RunsMoveOn, RowsMoveOn,
         \A p \in R!Executed : row'[p].held = R!Unsaid =>
            run'[row[p].session].recovered = run[row[p].session].recovered \/ Missed(p)',
         \A t \in told' : t \in told \/ Stands(t)'
  PROVE  RecoveryIsOnTheRow' /\ \A t \in told' : Stands(t)'
<1>0. \A p : Missed(p) => Missed(p)'
  BY DEF Missed, RowsMoveOn
<1>1. ASSUME NEW p \in R!Props, row'[p].status = "executed", row'[p].held = R!Unsaid,
             run'[row'[p].session].recovered, ~Missed(p)'
      PROVE  row'[p].after
  <2>1. row[p] # R!NoRow
    <3>1. row'[p] # R!NoRow
      BY <1>1, NoRowsStatus
    <3>. QED
      BY <1>1, <3>1 DEF RowsMoveOn, RowIsNew
  <2>2. RowMovesOn(p)
    BY <2>1 DEF RowsMoveOn
  <2>3. CASE row[p].status = "running" /\ row'[p].after = run'[row[p].session].recovered
    BY <1>1, <2>2, <2>3, Zenon DEF RowMovesOn
  <2>4. CASE /\ row[p].status = "executed" /\ row'[p].after = row[p].after
             /\ row[p].held # R!Unsaid => row'[p].held = row[p].held
    <3>1. p \in R!Executed /\ row[p].held = R!Unsaid
      BY <1>1, <2>4 DEF R!Executed
    <3>2. run[row[p].session].recovered
      BY <1>1, <2>2, <3>1, Zenon DEF RowMovesOn
    <3>3. row[p].after
      BY <1>0, <1>1, <3>1, <3>2 DEF FixInv, RecoveryIsOnTheRow
    <3>. QED
      BY <2>4, <3>3, Zenon
  <2>. QED
    BY <1>1, <2>2, <2>3, <2>4 DEF RowMovesOn
<1>2. RecoveryIsOnTheRow'
  BY <1>1 DEF RecoveryIsOnTheRow, R!Executed, R!Props
<1>3. ASSUME NEW t \in told PROVE Stands(t)'
  <2>. DEFINE p == t.key.proposal
  <2>1. SUFFICES ASSUME t.key.kind = "outcome"
                 PROVE  p \in R!Executed' /\ (row'[p].until > 0 /\ ~Missed(p)' => Bears(p, t.says)')
    BY DEF Stands
  <2>2. p \in R!Executed /\ (row[p].until > 0 /\ ~Missed(p) => Bears(p, t.says))
    BY <2>1 DEF FixInv, Stands
  <2>. HIDE DEF p
  <2>3. p \in R!Props /\ row[p].status = "executed" /\ row[p] # R!NoRow
    BY <2>2, NoRowsStatus DEF R!Executed
  <2>4. RowMovesOn(p)
    BY <2>3 DEF RowsMoveOn
  <2>5. /\ row'[p].status = "executed" /\ row'[p].until = row[p].until
        /\ row[p].held # R!Unsaid => row'[p].held = row[p].held
        /\ row[p].held = R!Unsaid /\ row[p].until > 0 /\ now >= row[p].until =>
             row'[p].held \in {R!Unsaid, "held"}
    BY <2>3, <2>4 DEF RowMovesOn
  <2>6. p \in R!Executed'
    BY <2>3, <2>5 DEF R!Executed, R!Props
  <2>7. now' \in Nat /\ now \in Nat /\ now' >= now /\ row[p].until \in Nat
    <3>1. row[p] \in Filed
      BY <2>3 DEF FixInv, FixType
    <3>. QED
      BY <3>1 DEF Filed, FixInv, FixType, RowsMoveOn
  <2>8. ASSUME row'[p].until > 0, ~Missed(p)' PROVE Bears(p, t.says)'
    <3>1. Bears(p, t.says) /\ row[p].until > 0
      BY <1>0, <2>2, <2>5, <2>8
    <3>2. CASE row[p].held = t.says /\ t.says # R!Unsaid
      BY <2>5, <3>2 DEF Bears
    <3>3. CASE row[p].held = R!Unsaid /\ t.says = "held" /\ now >= row[p].until
      <4>1. row'[p].held \in {R!Unsaid, "held"} /\ now' >= row'[p].until
        BY <2>5, <2>7, <3>1, <3>3
      <4>. QED
        BY <3>3, <4>1 DEF Bears, R!Unsaid
    <3>. QED
      BY <3>1, <3>2, <3>3 DEF Bears
  <2>. QED
    BY <2>6, <2>8
<1>. QED
  BY <1>2, <1>3
-----------------------------------------------------------------------------
\* A set of proposals has a size.
LEMMA SizeOfProps ==
  ASSUME NEW S \in SUBSET R!Props
  PROVE  IsFiniteSet(S) /\ R!Cardinality(S) = Cardinality(S) /\ Cardinality(S) \in Nat
<1>1. IsFiniteSet(R!Props)
  <2>1. MaxProposals \in Nat
    BY NodeAssumption DEF R!RemediationAssumption
  <2>. QED
    BY <2>1, FS_Interval DEF R!Props
<1>2. IsFiniteSet(S)
  BY <1>1, FS_Subset
<1>. QED
  BY <1>2, FS_CardinalityType DEF R!Cardinality, Cardinality

\* The table a handler leaves keeps every run, its turns and its recovery.
KeepsRun(r, w) ==
    IF r \in R!Known
    THEN IsRun(w) /\ w.turn >= run[r].turn /\ (run[r].recovered => w.recovered)
    ELSE w = R!NoRun

\* So for every run.
BaseKeeps(base) == \A r \in R!Runs : KeepsRun(r, base[r])

\* A run is not the lack of one.
LEMMA RunIsRun == \A w : IsRun(w) => w # R!NoRun
<1>. SUFFICES ASSUME NEW c, NEW w \in RunOf(c) PROVE w # R!NoRun
  BY DEF IsRun
<1>1. "turn" \in DOMAIN w
  BY DEF RunOf
<1>2. "turn" \notin DOMAIN R!NoRun
  BY DEF R!NoRun
<1>. QED
  BY <1>1, <1>2

\* The table as it is.
LEMMA KeepsItself == ASSUME FixInv, NEW r \in R!Runs PROVE KeepsRun(r, run[r])
<1>1. CASE r \in R!Known
  <2>1. IsRun(run[r])
    BY <1>1 DEF FixInv, FixType
  <2>2. run[r].turn >= run[r].turn
    BY <2>1 DEF IsRun, RunOf
  <2>. QED
    BY <1>1, <2>1, <2>2 DEF KeepsRun
<1>2. CASE r \notin R!Known
  BY <1>2 DEF KeepsRun, R!Known
<1>. QED
  BY <1>1, <1>2

\* A turn more.
LEMMA KeepsTurn ==
  ASSUME FixInv, NEW r \in R!Runs
  PROVE  /\ KeepsRun(r, R!NextTurn(r))
         /\ KeepsRun(r, [R!NextTurn(r) EXCEPT !.restarted = TRUE])
         /\ r \in R!Known => /\ R!NextTurn(r).turn = run[r].turn + 1
                             /\ [R!NextTurn(r) EXCEPT !.restarted = TRUE].turn = run[r].turn + 1
                             /\ R!NextTurn(r).recovered = run[r].recovered
                             /\ [R!NextTurn(r) EXCEPT !.restarted = TRUE].recovered = run[r].recovered
<1>1. CASE r \in R!Known
  <2>1. PICK c : run[r] \in RunOf(c)
    BY <1>1 DEF FixInv, FixType, IsRun
  <2>2. PICK w : w = R!NextTurn(r)
    OBVIOUS
  <2>3. w = [run[r] EXCEPT !.turn = run[r].turn + 1, !.busy = TRUE, !.failed = FALSE, !.ended = 0]
    BY <2>2 DEF R!NextTurn
  <2>4. run[r].turn \in Nat \ {0} /\ run[r].turn + 1 \in Nat \ {0} /\ run[r].turn + 1 >= run[r].turn
    BY <2>1 DEF RunOf
  <2>5. w \in RunOf(c) /\ w.turn = run[r].turn + 1 /\ w.recovered = run[r].recovered
    BY <2>1, <2>3, <2>4 DEF RunOf
  <2>6. PICK v : v = [w EXCEPT !.restarted = TRUE]
    OBVIOUS
  <2>7. v \in RunOf(c) /\ v.turn = w.turn /\ v.recovered = w.recovered
    BY <2>5, <2>6 DEF RunOf
  <2>. QED
    BY <1>1, <2>2, <2>4, <2>5, <2>6, <2>7 DEF KeepsRun, IsRun
<1>2. CASE r \notin R!Known
  <2>1. run[r] = R!NoRun
    BY <1>2 DEF R!Known
  <2>2. R!NextTurn(r) = R!NoRun
    BY <2>1 DEF R!NextTurn, R!NoRun
  <2>3. [R!NoRun EXCEPT !.restarted = TRUE] = R!NoRun
    BY DEF R!NoRun
  <2>. QED
    BY <1>2, <2>2, <2>3 DEF KeepsRun
<1>. QED
  BY <1>1, <1>2

\* A recovery.
LEMMA KeepsRecovery ==
  ASSUME FixInv, NEW r \in R!Runs
  PROVE  /\ KeepsRun(r, [run[r] EXCEPT !.recovered = TRUE])
         /\ r \in R!Known => [run[r] EXCEPT !.recovered = TRUE].recovered
<1>1. CASE r \in R!Known
  <2>1. PICK c : run[r] \in RunOf(c)
    BY <1>1 DEF FixInv, FixType, IsRun
  <2>2. PICK w : w = [run[r] EXCEPT !.recovered = TRUE]
    OBVIOUS
  <2>3. w \in RunOf(c) /\ w.turn = run[r].turn /\ w.recovered
    BY <2>1, <2>2 DEF RunOf
  <2>4. w.turn >= run[r].turn
    BY <2>1, <2>3 DEF RunOf
  <2>. QED
    BY <1>1, <2>2, <2>3, <2>4 DEF KeepsRun, IsRun
<1>2. CASE r \notin R!Known
  <2>1. run[r] = R!NoRun
    BY <1>2 DEF R!Known
  <2>2. [R!NoRun EXCEPT !.recovered = TRUE] = R!NoRun
    BY DEF R!NoRun
  <2>. QED
    BY <1>2, <2>1, <2>2 DEF KeepsRun
<1>. QED
  BY <1>1, <1>2

\* One run changed.
OneWritten(base, r, w) == base = [run EXCEPT ![r] = w]

\* What is written keeps the run, if there is one.
KeepsIfRun(r, w) == r \in R!Runs => KeepsRun(r, w)

\* The table that is left keeps what the run keeps.
LEMMA OneKeeps ==
  ASSUME FixInv, NEW r, NEW w, KeepsIfRun(r, w),
         NEW base, OneWritten(base, r, w)
  PROVE  /\ BaseKeeps(base)
         /\ r \in R!Runs => base[r] = w
         /\ \A q \in R!Runs \ {r} : base[q] = run[q]
<1>1. DOMAIN run = R!Runs
  BY DEF FixInv, FixType
<1>2. \A q \in R!Runs : base[q] = IF q = r THEN w ELSE run[q]
  BY <1>1 DEF OneWritten
<1>. QED
  BY <1>2, KeepsItself DEF BaseKeeps, KeepsIfRun

\* A table that is written whole.
LEMMA BaseMoves ==
  ASSUME FixInv, NEW base, BaseKeeps(base), nextRun' = nextRun, run' = [r \in R!Runs |-> base[r]]
  PROVE  RunsMoveOn /\ \A r \in R!Runs : run'[r] = base[r]
<1>1. \A r \in R!Known : r \in R!Runs /\ r < nextRun
  BY DEF FixInv, FixType, R!Known
<1>. QED
  BY <1>1, RunIsRun DEF BaseKeeps, KeepsRun, RunsMoveOn, FixInv, FixType

\* What telling changes: runs of its own, past the ones there are, and a line for
\* each thing told.
TellLeaves(about, says, S, base) ==
    /\ nextRun' \in Nat \ {0} /\ nextRun' >= nextRun
    /\ run' = [r \in R!Runs |-> run'[r]]
    /\ \A r \in R!Runs : r < nextRun \/ r >= nextRun' => run'[r] = base[r]
    /\ \A r \in R!Runs : r >= nextRun /\ r < nextRun' => IsRun(run'[r])
    /\ \A t \in told' : t \in told \/ \E p \in S : /\ t.key.kind = about /\ t.key.proposal = p
                                                  /\ t.says = says[p]

\* A telling changes just that.
LEMMA TellFacts ==
  ASSUME FixInv, NEW about, NEW says, NEW S \in SUBSET R!Props, NEW base, NEW past,
         R!Tell(about, says, S, base, past)
  PROVE  TellLeaves(about, says, S, base)
<1>1. PICK new \in SUBSET S : new = R!Untold(about, S)
  BY DEF R!Untold
<1>2. PICK n \in Nat : n = R!Cardinality(new)
  BY SizeOfProps
<1>3. nextRun' = nextRun + n
  BY <1>1, <1>2 DEF R!Tell
<1>4. nextRun \in Nat \ {0} /\ now \in Nat
  BY DEF FixInv, FixType
<1>5. PICK f : run' = [r \in R!Runs |-> IF r \in nextRun..(nextRun + n - 1)
                                       THEN R!Notice(f[r]) ELSE base[r]]
  <2>. DEFINE g == [r \in R!Runs |-> R!CondOf(R!Nth(new, r - nextRun + 1))]
  <2>1. run' = [r \in R!Runs |-> IF r \in nextRun..(nextRun + n - 1)
                                 THEN R!Notice(R!CondOf(R!Nth(new, r - nextRun + 1))) ELSE base[r]]
    BY <1>1, <1>2 DEF R!Tell
  <2>2. \A r \in R!Runs : g[r] = R!CondOf(R!Nth(new, r - nextRun + 1))
    OBVIOUS
  <2>. HIDE DEF g
  <2>. QED
    BY <2>1, <2>2
<1>6. \A c : IsRun(R!Notice(c))
  BY <1>4 DEF R!Notice, IsRun, RunOf
<1>7. \A r \in R!Runs : /\ r \in Nat
                        /\ r \in nextRun..(nextRun + n - 1) <=> r >= nextRun /\ r < nextRun'
  BY <1>3, <1>4 DEF R!Runs
<1>8. told' = told \cup {[key |-> R!KeyOf(about, p), says |-> says[p]] : p \in new}
  BY <1>1 DEF R!Tell
<1>9. \A t \in told' : t \in told \/ \E p \in S : /\ t.key.kind = about /\ t.key.proposal = p
                                                 /\ t.says = says[p]
  BY <1>1, <1>8 DEF R!KeyOf
<1>10. nextRun' \in Nat \ {0} /\ nextRun' >= nextRun
  BY <1>3, <1>4
<1>. QED
  BY <1>4, <1>5, <1>6, <1>7, <1>9, <1>10 DEF TellLeaves

\* So telling keeps what the handler's table keeps.
LEMMA TellMoves ==
  ASSUME FixInv, NEW about, NEW says, NEW S \in SUBSET R!Props, NEW base, NEW past,
         R!Tell(about, says, S, base, past), BaseKeeps(base)
  PROVE  RunsMoveOn /\ \A r \in R!Known : run'[r] = base[r]
<1>1. /\ nextRun' \in Nat \ {0} /\ nextRun' >= nextRun /\ nextRun \in Nat
      /\ run' = [r \in R!Runs |-> run'[r]]
      /\ \A r \in R!Runs : r < nextRun \/ r >= nextRun' => run'[r] = base[r]
      /\ \A r \in R!Runs : r >= nextRun /\ r < nextRun' => IsRun(run'[r])
  <2>1. TellLeaves(about, says, S, base)
    BY TellFacts
  <2>. QED
    BY <2>1 DEF TellLeaves, FixInv, FixType
<1>2. \A r \in R!Known : r \in R!Runs /\ r < nextRun /\ r \in Nat
  BY DEF FixInv, FixType, R!Known, R!Runs
<1>3. ASSUME NEW r \in R!Known
      PROVE  /\ run'[r] = base[r] /\ run'[r] # R!NoRun /\ run'[r].turn >= run[r].turn
             /\ run[r].recovered => run'[r].recovered
  BY <1>1, <1>2, RunIsRun DEF BaseKeeps, KeepsRun
<1>4. ASSUME NEW r \in R!Runs, run'[r] # R!NoRun PROVE r < nextRun' /\ IsRun(run'[r])
  <2>1. r \in Nat
    BY DEF R!Runs
  <2>2. CASE r < nextRun \/ r >= nextRun'
    <3>1. run'[r] = base[r]
      BY <1>1, <2>2
    <3>2. r \in R!Known /\ IsRun(base[r])
      BY <1>4, <3>1 DEF BaseKeeps, KeepsRun
    <3>. QED
      BY <1>1, <1>2, <2>1, <3>1, <3>2
  <2>3. CASE r >= nextRun /\ r < nextRun'
    BY <1>1, <2>3
  <2>. QED
    BY <1>1, <2>1, <2>2, <2>3
<1>. QED
  BY <1>1, <1>3, <1>4 DEF RunsMoveOn
-----------------------------------------------------------------------------
\* A row that stays as it is.
LEMMA RowKept ==
  ASSUME NEW p, row[p] # R!NoRow, row'[p] = row[p]
  PROVE  RowMovesOn(p)
BY DEF RowMovesOn

\* The rows as they are.
LEMMA RowsKept ==
  ASSUME FixInv, UNCHANGED <<row, nextProp>>, now' \in Nat, now' >= now, unsaved \subseteq unsaved'
  PROVE  RowsMoveOn
BY RowKept DEF RowsMoveOn, FixInv, FixType

\* One row written.
LEMMA OneRow ==
  ASSUME FixInv, UNCHANGED <<nextProp, now, unsaved>>, NEW p \in R!Props, row[p] # R!NoRow,
         NEW w \in Filed, row' = [row EXCEPT ![p] = w], RowMovesOn(p)
  PROVE  RowsMoveOn
<1>1. row \in [R!Props -> Filed \cup {R!NoRow}]
  BY DEF FixInv, FixType
<1>2. row' \in [R!Props -> Filed \cup {R!NoRow}] /\ row'[p] = w
  BY <1>1
<1>3. ASSUME NEW q \in R!Props, q # p PROVE row'[q] = row[q]
  BY <1>1, <1>3
<1>4. now' >= now /\ nextProp' >= nextProp
  BY DEF FixInv, FixType
<1>. QED
  BY <1>2, <1>3, <1>4, RowKept DEF RowsMoveOn, FixInv, FixType

\* What is due: executed and unanswered; a firing speaks inside the window only.
LEMMA DueRows ==
  \A s, says, p :
    p \in R!Due(s, says) <=>
      /\ p \in R!Executed /\ row[p].session = s /\ row[p].held = R!Unsaid
      /\ says = "did_not_hold" => row[p].until = 0 \/ now < row[p].until
BY DEF R!Due

\* Nothing is blank but the blank.
LEMMA UnsaidIsUnsaid == R!Unsaid \notin {"held", "did_not_hold"}
BY DEF R!Unsaid

\* What evidence leaves: every row due that was saved has its answer.
EvidenceLeaves(s, says, base) ==
    /\ RunsMoveOn /\ RowsMoveOn
    /\ \A r \in R!Known : run'[r] = base[r]
    /\ \A p \in R!Props : row[p].status = "proposed" => row'[p] = row[p]
    /\ \A p \in R!Props : row[p] # R!NoRow => row'[p].session = row[p].session
    /\ \A t \in told' : t \in told \/ Stands(t)'
    /\ says = "held" =>
         \A p \in R!Executed : row[p].session = s => row'[p].held # R!Unsaid \/ Missed(p)'

\* Evidence leaves just that.
LEMMA EvidenceFacts ==
  ASSUME FixInv, NEW s, NEW says \in {"held", "did_not_hold"}, NEW lost, NEW base, NEW past,
         R!Evidence(s, says, lost, base, past), BaseKeeps(base), UNCHANGED <<now, nextProp>>
  PROVE  EvidenceLeaves(s, says, base)
<1>1. PICK due \in SUBSET R!Executed : due = R!Due(s, says)
  BY DueRows
<1>2. R!Executed \subseteq R!Props
  BY DEF R!Executed
<1>3. PICK rows_ \in SUBSET due : rows_ = due \ lost
  OBVIOUS
<1>4. /\ lost \subseteq due /\ unsaved' = unsaved \cup (lost \X {says})
      /\ row' = [p \in R!Props |-> IF p \in rows_ THEN [row[p] EXCEPT !.held = says] ELSE row[p]]
      /\ R!Tell("outcome", [p \in R!Props |-> says], rows_, base, past)
  BY <1>1, <1>3 DEF R!Evidence
<1>6. RunsMoveOn /\ \A r \in R!Known : run'[r] = base[r]
  BY <1>1, <1>2, <1>3, <1>4, TellMoves
<1>7. ASSUME NEW p \in R!Props, row[p] # R!NoRow
      PROVE  /\ row'[p] \in Filed /\ row'[p] # R!NoRow /\ row'[p].status = row[p].status
             /\ row'[p].session = row[p].session /\ row'[p].cursor = row[p].cursor
             /\ row'[p].until = row[p].until /\ row'[p].after = row[p].after
             /\ row'[p].held = IF p \in rows_ THEN says ELSE row[p].held
             /\ p \notin rows_ => row'[p] = row[p]
  <2>1. row[p] \in Filed /\ row'[p] = IF p \in rows_ THEN [row[p] EXCEPT !.held = says] ELSE row[p]
    BY <1>4, <1>7 DEF FixInv, FixType
  <2>2. row'[p].status = row[p].status /\ row'[p] \in Filed
    BY <2>1 DEF Filed
  <2>3. row'[p] # R!NoRow
    <3>1. "proc" \in DOMAIN row'[p]
      BY <2>2 DEF Filed
    <3>2. "proc" \notin DOMAIN R!NoRow
      BY DEF R!NoRow
    <3>. QED
      BY <3>1, <3>2
  <2>. QED
    BY <2>1, <2>2, <2>3 DEF Filed
<1>8. ASSUME NEW p \in rows_
      PROVE  /\ p \in R!Props /\ row[p] # R!NoRow /\ row[p].status = "executed"
             /\ row[p].session = s /\ row[p].held = R!Unsaid
             /\ says = "did_not_hold" => row[p].until = 0 \/ now < row[p].until
  <2>1. /\ p \in R!Executed /\ row[p].session = s /\ row[p].held = R!Unsaid
        /\ says = "did_not_hold" => row[p].until = 0 \/ now < row[p].until
    BY <1>1, <1>3, DueRows
  <2>. QED
    BY <2>1, NoRowsStatus DEF R!Executed
<1>9. \A p \in R!Props : row[p] # R!NoRow => RowMovesOn(p)
  <2>. SUFFICES ASSUME NEW p \in R!Props, row[p] # R!NoRow PROVE RowMovesOn(p)
    OBVIOUS
  <2>1. CASE p \notin rows_
    BY <1>7, <2>1, RowKept
  <2>2. CASE p \in rows_
    <3>1. /\ row[p].status = "executed" /\ row[p].held = R!Unsaid /\ row'[p].held = says
          /\ says = "did_not_hold" => row[p].until = 0 \/ now < row[p].until
      BY <1>7, <1>8, <2>2
    <3>2. row[p].until \in Nat /\ now \in Nat
      <4>1. row[p] \in Filed
        BY DEF FixInv, FixType
      <4>. QED
        BY <4>1 DEF Filed, FixInv, FixType
    <3>3. row[p].until > 0 /\ now >= row[p].until => row'[p].held = "held"
      BY <3>1, <3>2
    <3>. QED
      BY <1>7, <3>1, <3>3 DEF RowMovesOn
  <2>. QED
    BY <2>1, <2>2
<1>10. /\ row' \in [R!Props -> Filed \cup {R!NoRow}]
       /\ \A p \in R!Props : row[p] = R!NoRow => row'[p] = R!NoRow
  <2>1. \A p \in R!Props : row[p] = R!NoRow => row'[p] = R!NoRow
    BY <1>4, <1>8
  <2>. QED
    BY <1>4, <1>7, <2>1
<1>11. RowsMoveOn
  <2>1. unsaved \subseteq unsaved' /\ now' >= now /\ nextProp' >= nextProp
    BY <1>4 DEF FixInv, FixType
  <2>. QED
    BY <1>9, <1>10, <2>1 DEF RowsMoveOn, FixInv, FixType
<1>12. ASSUME NEW t \in told', t \notin told PROVE Stands(t)'
  <2>1. TellLeaves("outcome", [p \in R!Props |-> says], rows_, base)
    BY <1>1, <1>2, <1>3, <1>4, TellFacts
  <2>2. PICK p \in rows_ : t.key.proposal = p /\ t.says = [x \in R!Props |-> says][p]
    BY <1>12, <2>1 DEF TellLeaves
  <2>3. /\ p \in R!Props /\ t.says = says /\ row'[p].held = says /\ row'[p].status = "executed"
        /\ says # R!Unsaid
    BY <1>7, <1>8, <2>2, UnsaidIsUnsaid
  <2>4. p \in R!Executed'
    BY <2>3 DEF R!Executed, R!Props
  <2>. QED
    BY <2>2, <2>3, <2>4 DEF Stands, Bears
<1>14. ASSUME says = "held", NEW p \in R!Executed, row[p].session = s
       PROVE  row'[p].held # R!Unsaid \/ Missed(p)'
  <2>1. p \in R!Props /\ row[p] # R!NoRow
    BY NoRowsStatus DEF R!Executed
  <2>2. row[p].held = R!Unsaid => p \in rows_ \/ p \in lost
    <3>1. row[p].held = R!Unsaid => p \in R!Due(s, says)
      BY <1>14, DueRows
    <3>. QED
      BY <1>1, <1>3, <3>1
  <2>3. p \in lost => Missed(p)'
    BY <1>4, <1>14 DEF Missed
  <2>. QED
    BY <1>7, <2>1, <2>2, <2>3, UnsaidIsUnsaid
<1>13. \A p \in R!Props : row[p].status = "proposed" => row'[p] = row[p]
  BY <1>4, <1>8
<1>. QED
  BY <1>6, <1>7, <1>11, <1>12, <1>13, <1>14 DEF EvidenceLeaves

\* What the node says of a decided fix its row bears out, unless it missed a
\* recovery or had no window.
LEMMA DecidedSays ==
  ASSUME FixInv, NEW p \in R!Decided
  PROVE  /\ p \in R!Executed
         /\ row[p].until > 0 /\ ~Missed(p) => Bears(p, R!Verdicts[p])
<1>1. /\ p \in R!Executed /\ p \in R!Props /\ row[p].status = "executed"
      /\ R!Outcome(p) \in {"held", "did_not_hold"}
  BY DEF R!Decided, R!Executed
<1>2. R!Verdicts[p] = R!Outcome(p)
  BY <1>1, NoRowsStatus DEF R!Verdicts
<1>. SUFFICES ASSUME ~Missed(p) PROVE Bears(p, R!Verdicts[p])
  BY <1>1
<1>3. ~(row[p].held = R!Unsaid /\ run[row[p].session].recovered /\ ~row[p].after)
  BY <1>1 DEF FixInv, RecoveryIsOnTheRow
<1>4. CASE row[p].held # R!Unsaid
  <2>1. R!Outcome(p) = row[p].held
    BY <1>1, <1>4 DEF R!Outcome
  <2>. QED
    BY <1>1, <1>2, <1>4, <2>1 DEF Bears
<1>5. CASE row[p].held = R!Unsaid
  <2>1. R!Outcome(p) = IF (run[row[p].session].recovered /\ ~row[p].after) \/ now >= row[p].until
                       THEN "held" ELSE "verifying"
    BY <1>1, <1>5 DEF R!Outcome
  <2>2. ~(run[row[p].session].recovered /\ ~row[p].after)
    BY <1>3, <1>5, Zenon
  <2>3. R!Outcome(p) = "held" /\ now >= row[p].until
    BY <1>1, <2>1, <2>2
  <2>. QED
    BY <1>1, <1>2, <1>5, <2>3 DEF Bears
<1>. QED
  BY <1>4, <1>5

\* So telling it adds nothing that does not stand, where its row is left alone.
LEMMA VerdictStands ==
  ASSUME FixInv, NEW base, NEW past,
         R!Tell("outcome", R!Verdicts, R!Decided, base, past), UNCHANGED <<now, unsaved>>,
         \A p \in R!Executed : row'[p] = row[p], NEW t \in told', t \notin told
  PROVE  Stands(t)'
<1>1. R!Decided \subseteq R!Props
  BY DEF R!Decided, R!Executed
<1>2. TellLeaves("outcome", R!Verdicts, R!Decided, base)
  BY <1>1, TellFacts
<1>3. PICK p \in R!Decided : t.key.proposal = p /\ t.says = R!Verdicts[p]
  BY <1>2 DEF TellLeaves
<1>4. p \in R!Executed /\ (row[p].until > 0 /\ ~Missed(p) => Bears(p, t.says))
  BY <1>3, DecidedSays
<1>5. p \in R!Executed' /\ row'[p] = row[p]
  BY <1>4 DEF R!Executed, R!Props
<1>. QED
  BY <1>3, <1>4, <1>5 DEF Stands, Bears, Missed
-----------------------------------------------------------------------------
\* What a step may overtake.
OvertakesMoved ==
    \A p \in overtaken' :
      p \in overtaken \/ (p \in R!Props /\ row[p] # R!NoRow /\ row'[p].status = "proposed" /\ R!Moved(p)')

\* What a step may tell or hear of a fix.
KeepsTold ==
    /\ \A p \in R!Executed : row'[p].held = R!Unsaid =>
         run'[row[p].session].recovered = run[row[p].session].recovered \/ Missed(p)'
    /\ \A t \in told' : t \in told \/ Stands(t)'

\* Together they keep the invariant.
LEMMA MovesOn == FixInv /\ RunsMoveOn /\ RowsMoveOn /\ OvertakesMoved /\ KeepsTold => FixInv'
<1>. SUFFICES ASSUME FixInv, RunsMoveOn, RowsMoveOn, OvertakesMoved, KeepsTold PROVE FixInv'
  OBVIOUS
<1>1. OvertakenMoved' /\ overtaken' \subseteq R!Props
  BY OvertakenMovesOn DEF OvertakesMoved
<1>2. FixType' /\ CursorsTrail'
  BY <1>1, TypesMoveOn
<1>3. RecoveryIsOnTheRow' /\ \A t \in told' : Stands(t)'
  BY ToldMovesOn DEF KeepsTold
<1>. QED
  BY <1>1, <1>2, <1>3 DEF FixInv

\* A row there is has a known run.
LEMMA SessionsKnown ==
  ASSUME FixInv, NEW p \in R!Props, row[p] # R!NoRow
  PROVE  row[p].session \in R!Known /\ row[p] \in Filed
BY DEF FixInv, FixType

\* An executed row is one, and so is one that waits.
LEMMA RowsOfStatus ==
  /\ \A p \in R!Executed : p \in R!Props /\ row[p] # R!NoRow /\ row[p].status = "executed"
  /\ \A p \in R!Proposed : p \in R!Props /\ row[p] # R!NoRow /\ row[p].status = "proposed"
BY NoRowsStatus DEF R!Executed, R!Proposed

\* The runs as they are.
LEMMA RunsKept ==
  ASSUME FixInv, UNCHANGED <<run, nextRun>>
  PROVE  RunsMoveOn /\ \A r \in R!Known : run'[r] = run[r]
<1>1. BaseKeeps(run)
  BY KeepsItself DEF BaseKeeps
<1>2. run' = [r \in R!Runs |-> run[r]]
  BY DEF FixInv, FixType
<1>. QED
  BY <1>1, <1>2, BaseMoves

\* Nothing is told, and nothing is heard.
LEMMA NothingTold ==
  ASSUME FixInv, UNCHANGED told,
         \A r \in R!Known : run'[r].recovered = run[r].recovered
  PROVE  KeepsTold
<1>1. \A p \in R!Executed : row[p].session \in R!Known
  BY RowsOfStatus, SessionsKnown
<1>. QED
  BY <1>1 DEF KeepsTold, FixInv

\* The proposals of a run that takes another turn have moved on.
LEMMA TurnMoves ==
  ASSUME FixInv, NEW r, run'[r].turn = run[r].turn + 1, NEW p \in R!Outrun(r), row'[p] = row[p]
  PROVE  p \in R!Props /\ row[p] # R!NoRow /\ row'[p].status = "proposed" /\ R!Moved(p)'
<1>1. p \in R!Props /\ row[p] # R!NoRow /\ row[p].status = "proposed" /\ row[p].session = r
  BY RowsOfStatus DEF R!Outrun
<1>2. r \in R!Known /\ row[p] \in Filed
  BY <1>1, SessionsKnown
<1>3. run[r].turn \in Nat /\ row[p].cursor.turn \in Nat /\ row[p].cursor.turn <= run[r].turn
  <2>1. IsRun(run[r])
    BY <1>2 DEF FixInv, FixType
  <2>. QED
    BY <1>1, <1>2, <2>1 DEF IsRun, RunOf, Filed, FixInv, CursorsTrail
<1>4. run'[r].turn # row[p].cursor.turn
  BY <1>3
<1>. QED
  BY <1>1, <1>4 DEF R!Moved

\* Time passes.
LEMMA QuietStep ==
  ASSUME FixInv, UNCHANGED <<run, nextRun, told, row, nextProp, overtaken, unsaved>>,
         now' \in Nat, now' >= now
  PROVE  FixInv'
<1>1. RunsMoveOn /\ \A r \in R!Known : run'[r] = run[r]
  BY RunsKept
<1>2. RowsMoveOn
  BY RowsKept DEF FixInv, FixType
<1>3. OvertakesMoved
  BY DEF OvertakesMoved
<1>4. KeepsTold
  BY <1>1, NothingTold
<1>. QED
  BY <1>1, <1>2, <1>3, <1>4, MovesOn

\* Evidence: what is told of it stands, unless a recovery is missed.
LEMMA EvidenceTold ==
  ASSUME FixInv, NEW s, NEW says, NEW base, EvidenceLeaves(s, says, base),
         \A r \in R!Known : r # s \/ says # "held" => base[r].recovered = run[r].recovered
  PROVE  KeepsTold
<1>. SUFFICES ASSUME NEW p \in R!Executed, row'[p].held = R!Unsaid, ~Missed(p)'
              PROVE  run'[row[p].session].recovered = run[row[p].session].recovered
  BY DEF KeepsTold, EvidenceLeaves
<1>1. row[p].session \in R!Known
  BY RowsOfStatus, SessionsKnown
<1>2. row[p].session # s \/ says # "held"
  BY DEF EvidenceLeaves
<1>. QED
  BY <1>1, <1>2 DEF EvidenceLeaves

\* A firing while the condition is being investigated.
LEMMA FireBusyStep ==
  ASSUME FixInv, NEW c, NEW lost, R!FireBusy(c, lost)
  PROVE  FixInv'
<1>1. PICK s : R!Evidence(s, "did_not_hold", lost, run, order)
  BY DEF R!FireBusy
<1>2. UNCHANGED <<now, nextProp, overtaken>>
  BY DEF R!FireBusy
<1>3. BaseKeeps(run)
  BY KeepsItself DEF BaseKeeps
<1>4. EvidenceLeaves(s, "did_not_hold", run)
  BY <1>1, <1>2, <1>3, EvidenceFacts
<1>5. KeepsTold
  BY <1>4, EvidenceTold
<1>6. OvertakesMoved
  BY <1>2 DEF OvertakesMoved
<1>. QED
  BY <1>4, <1>5, <1>6, MovesOn DEF EvidenceLeaves

\* A firing that takes another turn.
LEMMA FireClaimedStep ==
  ASSUME FixInv, NEW c, NEW lost, R!FireClaimed(c, lost)
  PROVE  FixInv'
<1>1. PICK r : /\ R!Evidence(r, "did_not_hold", lost, [run EXCEPT ![r] = R!NextTurn(r)], order)
               /\ overtaken' = overtaken \cup R!Outrun(r)
  BY DEF R!FireClaimed
<1>2. UNCHANGED <<now, nextProp>>
  BY DEF R!FireClaimed
<1>3. PICK base : base = [run EXCEPT ![r] = R!NextTurn(r)]
  OBVIOUS
<1>4. /\ BaseKeeps(base)
      /\ r \in R!Runs => base[r] = R!NextTurn(r)
      /\ \A q \in R!Runs \ {r} : base[q] = run[q]
  <2>1. KeepsIfRun(r, R!NextTurn(r))
    BY KeepsTurn DEF KeepsIfRun
  <2>2. OneWritten(base, r, R!NextTurn(r))
    BY <1>3 DEF OneWritten
  <2>. QED
    BY <2>1, <2>2, OneKeeps
<1>5. EvidenceLeaves(r, "did_not_hold", base)
  BY <1>1, <1>2, <1>3, <1>4, EvidenceFacts
<1>6. ASSUME NEW q \in R!Known PROVE base[q].recovered = run[q].recovered
  <2>1. q \in R!Runs
    BY DEF R!Known
  <2>2. CASE q = r
    <3>1. base[q] = R!NextTurn(r)
      BY <1>4, <2>1, <2>2
    <3>2. R!NextTurn(r).recovered = run[r].recovered
      BY <2>1, <2>2, KeepsTurn
    <3>. QED
      BY <2>2, <3>1, <3>2
  <2>3. CASE q # r
    BY <1>4, <2>1, <2>3
  <2>. QED
    BY <2>2, <2>3
<1>7. KeepsTold
  BY <1>5, <1>6, EvidenceTold
<1>8. ASSUME NEW p \in R!Outrun(r)
      PROVE  p \in R!Props /\ row[p] # R!NoRow /\ row'[p].status = "proposed" /\ R!Moved(p)'
  <2>1. p \in R!Props /\ row[p] # R!NoRow /\ row[p].status = "proposed" /\ row[p].session = r
    BY RowsOfStatus DEF R!Outrun
  <2>2. r \in R!Known /\ r \in R!Runs
    BY <2>1, SessionsKnown DEF R!Known
  <2>3. run'[r].turn = run[r].turn + 1 /\ row'[p] = row[p]
    <3>1. run'[r] = R!NextTurn(r) /\ row'[p] = row[p]
      BY <1>4, <1>5, <2>1, <2>2 DEF EvidenceLeaves
    <3>2. R!NextTurn(r).turn = run[r].turn + 1
      BY <2>2, KeepsTurn
    <3>. QED
      BY <3>1, <3>2
  <2>. QED
    BY <2>3, TurnMoves
<1>9. OvertakesMoved
  BY <1>1, <1>8 DEF OvertakesMoved
<1>. QED
  BY <1>5, <1>7, <1>9, MovesOn DEF EvidenceLeaves

\* A recovery: the proposals that wait on its run have moved, and the fixes of it
\* that were carried out have their answer.
LEMMA RecoverStep ==
  ASSUME FixInv, NEW c, NEW lost, R!Recover(c, lost)
  PROVE  FixInv'
<1>1. PICK s : /\ R!Evidence(s, "held", lost, [run EXCEPT ![s].recovered = TRUE], order)
               /\ overtaken' = IF run[s].recovered THEN overtaken ELSE overtaken \cup R!Outrun(s)
  BY DEF R!Recover
<1>2. UNCHANGED <<now, nextProp>>
  BY DEF R!Recover
<1>3. PICK base : base = [run EXCEPT ![s] = [run[s] EXCEPT !.recovered = TRUE]]
  OBVIOUS
<1>4. base = [run EXCEPT ![s].recovered = TRUE]
  BY <1>3
<1>5. /\ BaseKeeps(base)
      /\ s \in R!Runs => base[s] = [run[s] EXCEPT !.recovered = TRUE]
      /\ \A q \in R!Runs \ {s} : base[q] = run[q]
  <2>1. KeepsIfRun(s, [run[s] EXCEPT !.recovered = TRUE])
    BY KeepsRecovery DEF KeepsIfRun
  <2>2. OneWritten(base, s, [run[s] EXCEPT !.recovered = TRUE])
    BY <1>3 DEF OneWritten
  <2>. QED
    BY <2>1, <2>2, OneKeeps
<1>6. EvidenceLeaves(s, "held", base)
  BY <1>1, <1>2, <1>4, <1>5, EvidenceFacts
<1>7. KeepsTold
  BY <1>5, <1>6, EvidenceTold DEF R!Known
<1>8. ASSUME NEW p \in R!Outrun(s), ~run[s].recovered
      PROVE  p \in R!Props /\ row[p] # R!NoRow /\ row'[p].status = "proposed" /\ R!Moved(p)'
  <2>1. p \in R!Props /\ row[p] # R!NoRow /\ row[p].status = "proposed" /\ row[p].session = s
    BY RowsOfStatus DEF R!Outrun
  <2>2. s \in R!Known /\ s \in R!Runs
    BY <2>1, SessionsKnown DEF R!Known
  <2>3. run'[s] = [run[s] EXCEPT !.recovered = TRUE] /\ row'[p] = row[p]
    BY <1>5, <1>6, <2>1, <2>2 DEF EvidenceLeaves
  <2>4. run'[s].recovered
    BY <2>2, <2>3, KeepsRecovery
  <2>5. ~row[p].cursor.recovered
    BY <1>8, <2>1 DEF FixInv, CursorsTrail
  <2>. QED
    BY <2>1, <2>3, <2>4, <2>5 DEF R!Moved
<1>9. OvertakesMoved
  <2>1. CASE run[s].recovered
    BY <1>1, <2>1 DEF OvertakesMoved
  <2>2. CASE ~run[s].recovered
    BY <1>1, <1>8, <2>2 DEF OvertakesMoved
  <2>. QED
    BY <2>1, <2>2
<1>. QED
  BY <1>6, <1>7, <1>9, MovesOn DEF EvidenceLeaves

\* A firing nothing claims: a run more, where there was none.
LEMMA FireFreshStep ==
  ASSUME FixInv, NEW c, R!FireFresh(c)
  PROVE  FixInv'
<1>1. /\ nextRun \in R!Runs /\ nextRun' = nextRun + 1
      /\ UNCHANGED <<now, told, row, nextProp, overtaken, unsaved>>
  BY DEF R!FireFresh, R!files
<1>2. PICK w : IsRun(w) /\ run' = [run EXCEPT ![nextRun] = w]
  <2>1. IsRun(R!Investigation(c))
    BY DEF R!Investigation, IsRun, RunOf
  <2>2. IsRun(R!Answered(c))
    <3>1. PICK v : v = R!Investigation(c)
      OBVIOUS
    <3>2. v \in RunOf(c) /\ now \in Nat
      BY <3>1 DEF R!Investigation, RunOf, FixInv, FixType
    <3>3. [v EXCEPT !.busy = FALSE, !.resumable = FALSE, !.ended = now] \in RunOf(c)
      BY <3>2 DEF RunOf
    <3>. QED
      BY <3>1, <3>3 DEF R!Answered, IsRun
  <2>. QED
    BY <2>1, <2>2 DEF R!FireFresh
<1>3. nextRun \notin R!Known
  BY DEF FixInv, FixType
<1>4. /\ DOMAIN run = R!Runs /\ nextRun \in Nat \ {0}
      /\ \A r \in R!Known : r \in R!Runs /\ r \in Nat /\ r < nextRun /\ IsRun(run[r])
  BY DEF FixInv, FixType, R!Known, R!Runs
<1>5. \A r \in R!Runs : run'[r] = IF r = nextRun THEN w ELSE run[r]
  BY <1>2, <1>4
<1>6. \A r \in R!Known : run'[r] = run[r]
  BY <1>3, <1>4, <1>5
<1>7. RunsMoveOn
  <2>1. ASSUME NEW r \in R!Known
        PROVE  run'[r] # R!NoRun /\ run'[r].turn >= run[r].turn /\ (run[r].recovered => run'[r].recovered)
    <3>1. run[r].turn >= run[r].turn
      BY <1>4 DEF IsRun, RunOf
    <3>. QED
      BY <1>4, <1>6, <3>1, RunIsRun
  <2>2. ASSUME NEW r \in R!Runs, run'[r] # R!NoRun PROVE r < nextRun' /\ IsRun(run'[r])
    <3>1. CASE r = nextRun
      BY <1>1, <1>2, <1>4, <1>5, <3>1
    <3>2. CASE r # nextRun
      <4>1. r \in R!Known
        BY <1>5, <2>2, <3>2 DEF R!Known
      <4>. QED
        BY <1>1, <1>4, <1>6, <4>1
    <3>. QED
      BY <3>1, <3>2
  <2>3. run' = [r \in R!Runs |-> run'[r]]
    BY <1>2, <1>4
  <2>. QED
    BY <1>1, <1>4, <2>1, <2>2, <2>3 DEF RunsMoveOn
<1>8. RowsMoveOn
  BY <1>1, RowsKept DEF FixInv, FixType
<1>9. OvertakesMoved
  BY <1>1 DEF OvertakesMoved
<1>10. KeepsTold
  BY <1>1, <1>6, NothingTold
<1>. QED
  BY <1>7, <1>8, <1>9, <1>10, MovesOn

\* A person's follow-up.
LEMMA FollowUpStep ==
  ASSUME FixInv, NEW r \in R!Runs, R!FollowUp(r)
  PROVE  FixInv'
<1>1. /\ run' = [run EXCEPT ![r] = R!NextTurn(r)] /\ overtaken' = overtaken \cup R!Outrun(r)
      /\ UNCHANGED <<now, nextRun, told, row, nextProp, unsaved>> /\ r \in R!Known
  BY DEF R!FollowUp, R!files, R!Known
<1>2. PICK base : base = [run EXCEPT ![r] = R!NextTurn(r)]
  OBVIOUS
<1>3. BaseKeeps(base) /\ base[r] = R!NextTurn(r) /\ \A q \in R!Runs \ {r} : base[q] = run[q]
  <2>1. KeepsIfRun(r, R!NextTurn(r))
    BY KeepsTurn DEF KeepsIfRun
  <2>2. OneWritten(base, r, R!NextTurn(r))
    BY <1>2 DEF OneWritten
  <2>. QED
    BY <2>1, <2>2, OneKeeps
<1>4. RunsMoveOn /\ \A q \in R!Runs : run'[q] = base[q]
  <2>1. run' = [q \in R!Runs |-> base[q]]
    BY <1>1, <1>2 DEF FixInv, FixType
  <2>. QED
    BY <1>1, <1>3, <2>1, BaseMoves
<1>5. RowsMoveOn
  BY <1>1, RowsKept DEF FixInv, FixType
<1>6. OvertakesMoved
  <2>1. run'[r] = R!NextTurn(r)
    BY <1>3, <1>4
  <2>2. R!NextTurn(r).turn = run[r].turn + 1
    BY <1>1, KeepsTurn
  <2>3. run'[r].turn = run[r].turn + 1
    BY <2>1, <2>2
  <2>. QED
    BY <1>1, <2>3, TurnMoves DEF OvertakesMoved
<1>7. KeepsTold
  <2>1. R!NextTurn(r).recovered = run[r].recovered
    BY <1>1, KeepsTurn
  <2>2. run'[r].recovered = run[r].recovered
    BY <1>3, <1>4, <2>1
  <2>3. ASSUME NEW q \in R!Known PROVE run'[q].recovered = run[q].recovered
    <3>1. q \in R!Runs
      BY DEF R!Known
    <3>2. CASE q = r
      BY <2>2, <3>2
    <3>3. CASE q # r
      <4>1. run'[q] = run[q]
        BY <1>3, <1>4, <3>1, <3>3
      <4>. QED
        BY <4>1
    <3>. QED
      BY <3>2, <3>3
  <2>. QED
    BY <1>1, <2>3, NothingTold
<1>. QED
  BY <1>4, <1>5, <1>6, <1>7, MovesOn

\* The end of a turn: the run keeps its count, and a report with steps files a row
\* that is not ahead of it.
LEMMA EndTurnStep ==
  ASSUME FixInv, NEW r \in R!Runs, R!EndTurn(r)
  PROVE  FixInv'
<1>1. r \in R!Known /\ UNCHANGED <<now, nextRun, told, overtaken, unsaved>>
  BY DEF R!EndTurn, R!Known
<1>2. PICK failed \in BOOLEAN, offer \in Nat : R!Finished(r, failed, offer)
  <2>1. R!Props \subseteq Nat /\ nextProp \in Nat /\ 0 \in Nat
    BY DEF R!Props, FixInv, FixType
  <2>2. \A q : R!Pending(q) \subseteq R!Props
    BY DEF R!Pending, R!Proposed
  <2>3. ASSUME NEW q \in Procedures, R!ReportWith(r, q)
        PROVE  \E offer \in Nat : R!Finished(r, FALSE, offer)
    BY <2>1, <2>2, <2>3 DEF R!ReportWith
  <2>. QED
    BY <2>1, <2>3 DEF R!EndTurn
<1>3. PICK c : run[r] \in RunOf(c)
  BY <1>1 DEF FixInv, FixType, IsRun
<1>4. PICK w : w = [run[r] EXCEPT !.busy = FALSE, !.failed = failed, !.offer = offer, !.ended = now]
  OBVIOUS
<1>5. w \in RunOf(c) /\ w.turn = run[r].turn /\ w.recovered = run[r].recovered
  BY <1>3, <1>4 DEF RunOf, FixInv, FixType
<1>6. run' = [run EXCEPT ![r] = w]
  BY <1>2, <1>4 DEF R!Finished, FixInv, FixType
<1>7. KeepsRun(r, w)
  <2>1. w.turn >= run[r].turn
    BY <1>3, <1>5 DEF RunOf
  <2>. QED
    BY <1>1, <1>5, <2>1 DEF KeepsRun, IsRun
<1>8. PICK base : base = [run EXCEPT ![r] = w]
  OBVIOUS
<1>9. BaseKeeps(base) /\ base[r] = w /\ \A q \in R!Runs \ {r} : base[q] = run[q]
  <2>1. OneWritten(base, r, w)
    BY <1>8 DEF OneWritten
  <2>2. KeepsIfRun(r, w)
    BY <1>7 DEF KeepsIfRun
  <2>. QED
    BY <2>1, <2>2, OneKeeps
<1>10. RunsMoveOn /\ \A q \in R!Runs : run'[q] = base[q]
  <2>1. run' = [q \in R!Runs |-> base[q]]
    BY <1>6, <1>8 DEF FixInv, FixType
  <2>. QED
    BY <1>1, <1>9, <2>1, BaseMoves
<1>11. run'[r].turn = run[r].turn /\ \A q \in R!Known : run'[q].recovered = run[q].recovered
  BY <1>1, <1>5, <1>9, <1>10 DEF R!Known
<1>12. RowsMoveOn
  <2>1. \/ /\ nextProp \in R!Props /\ nextProp' = nextProp + 1
           /\ \E q \in Procedures : row' = [row EXCEPT ![nextProp] = R!Row(q, r)]
        \/ UNCHANGED <<row, nextProp>>
    BY DEF R!EndTurn, R!ReportWith, R!files
  <2>2. CASE UNCHANGED <<row, nextProp>>
    BY <1>1, <2>2, RowsKept DEF FixInv, FixType
  <2>3. ASSUME nextProp \in R!Props, nextProp' = nextProp + 1, NEW q \in Procedures,
               row' = [row EXCEPT ![nextProp] = R!Row(q, r)]
        PROVE  RowsMoveOn
    <3>1. PICK v : v = R!Row(q, r)
      OBVIOUS
    <3>2. /\ v \in Filed /\ v.session = r /\ v.status = "proposed"
          /\ v.cursor.turn = run[r].turn /\ v.cursor.recovered = run[r].recovered
      <4>1. run[r].turn \in Nat \ {0} /\ run[r].recovered \in BOOLEAN /\ now \in Nat
        BY <1>3 DEF RunOf, FixInv, FixType
      <4>2. PICK turn_ \in Nat \ {0}, recovered_ \in BOOLEAN :
              turn_ = run[r].turn /\ recovered_ = run[r].recovered
        BY <4>1
      <4>3. v = [status |-> "proposed", proc |-> q, session |-> r,
                 cursor |-> [turn |-> turn_, recovered |-> recovered_],
                 created |-> now, executed |-> 0, until |-> 0, after |-> FALSE, held |-> R!Unsaid]
        BY <3>1, <4>2 DEF R!Row
      <4>4. v \in Filed
        BY <4>1, <4>3 DEF Filed
      <4>. QED
        BY <4>2, <4>3, <4>4
    <3>3. row[nextProp] = R!NoRow
      BY <2>3 DEF FixInv, FixType
    <3>4. /\ row' \in [R!Props -> Filed \cup {R!NoRow}] /\ row'[nextProp] = v
          /\ \A p \in R!Props \ {nextProp} : row'[p] = row[p]
      BY <2>3, <3>1, <3>2 DEF FixInv, FixType
    <3>5. \A p \in R!Props : row[p] # R!NoRow => RowMovesOn(p)
      BY <3>3, <3>4, RowKept
    <3>6. RowIsNew(nextProp)
      <4>1. nextProp < nextProp' /\ run[r].turn <= run[r].turn
        BY <1>3, <2>3 DEF FixInv, FixType, RunOf
      <4>2. v.cursor.turn <= run'[r].turn
        BY <1>11, <3>2, <4>1
      <4>3. v.cursor.recovered => run'[r].recovered
        BY <1>1, <1>11, <3>2, Zenon
      <4>. QED
        BY <1>1, <3>2, <3>4, <4>1, <4>2, <4>3 DEF RowIsNew
    <3>7. \A p \in R!Props : row[p] = R!NoRow /\ row'[p] # R!NoRow => RowIsNew(p)
      BY <3>4, <3>6
    <3>8. now' >= now /\ nextProp' \in Nat \ {0} /\ nextProp' >= nextProp
      BY <1>1, <2>3 DEF FixInv, FixType
    <3>. QED
      BY <1>1, <3>4, <3>5, <3>7, <3>8 DEF RowsMoveOn, FixInv, FixType
  <2>. QED
    BY <2>1, <2>2, <2>3
<1>13. OvertakesMoved
  BY <1>1 DEF OvertakesMoved
<1>14. KeepsTold
  BY <1>1, <1>11, NothingTold
<1>. QED
  BY <1>10, <1>12, <1>13, <1>14, MovesOn

\* What a press is answered with is no outcome.
LEMMA AnswerTold ==
  ASSUME FixInv, NEW card, NEW about, about # "outcome", NEW says, NEW p \in R!Props,
         R!AnswerCard(card, about, says, p), UNCHANGED unsaved
  PROVE  RunsMoveOn /\ (\A r \in R!Known : run'[r] = run[r]) /\ KeepsTold
<1>1. BaseKeeps(run)
  BY KeepsItself DEF BaseKeeps
<1>2. CASE UNCHANGED <<order, R!runs>>
  <2>1. UNCHANGED <<run, nextRun, told>>
    BY <1>2 DEF R!runs
  <2>. QED
    BY <2>1, RunsKept, NothingTold
<1>3. CASE R!Tell(about, [x \in R!Props |-> says], {p}, run, order)
  <2>1. RunsMoveOn /\ \A r \in R!Known : run'[r] = run[r]
    BY <1>1, <1>3, TellMoves
  <2>2. TellLeaves(about, [x \in R!Props |-> says], {p}, run)
    BY <1>3, TellFacts
  <2>3. \A t \in told' : t \in told \/ Stands(t)'
    BY <2>2 DEF TellLeaves, Stands
  <2>4. \A q \in R!Executed : row[q].session \in R!Known
    BY RowsOfStatus, SessionsKnown
  <2>. QED
    BY <2>1, <2>3, <2>4 DEF KeepsTold, FixInv
<1>. QED
  BY <1>2, <1>3 DEF R!AnswerCard

\* A press, whatever it is told.
LEMMA PressStep ==
  ASSUME FixInv, NEW p \in R!Props, R!Pressing(p)
  PROVE  FixInv'
<1>1. p \in R!Proposed /\ UNCHANGED <<now, nextProp, overtaken, unsaved>>
  BY DEF R!Pressing, R!PressMoved, R!PressChanged, R!PressCooling, R!Approve, R!Reject,
         R!files
<1>2. row[p] # R!NoRow /\ row[p].status = "proposed" /\ row[p] \in Filed
  BY <1>1, RowsOfStatus, SessionsKnown
<1>3. OvertakesMoved
  BY <1>1 DEF OvertakesMoved
<1>4. /\ RunsMoveOn /\ KeepsTold
      /\ \/ UNCHANGED row
         \/ \E status \in {"superseded", "rejected", "running"} :
              /\ row' = [row EXCEPT ![p].status = status]
              /\ status = "running" => ~R!Moved(p)
  <2>1. ASSUME NEW card \in BOOLEAN, R!PressMoved(p, card)
        PROVE  RunsMoveOn /\ KeepsTold /\ row' = [row EXCEPT ![p].status = "superseded"]
    BY <1>1, <2>1, AnswerTold DEF R!PressMoved
  <2>2. CASE R!PressChanged(p)
    BY <1>1, <2>2, AnswerTold DEF R!PressChanged, R!files
  <2>3. CASE R!PressCooling(p)
    BY <1>1, <2>3, AnswerTold DEF R!PressCooling, R!files
  <2>4. CASE R!Approve(p)
    BY <1>1, <2>4, RunsKept, NothingTold DEF R!Approve, R!runs
  <2>5. CASE R!Reject(p)
    BY <1>1, <2>5, RunsKept, NothingTold DEF R!Reject, R!runs
  <2>. QED
    BY <2>1, <2>2, <2>3, <2>4, <2>5 DEF R!Pressing
<1>5. RowsMoveOn
  <2>1. CASE UNCHANGED row
    BY <1>1, <2>1, RowsKept DEF FixInv, FixType
  <2>2. ASSUME NEW status \in {"superseded", "rejected", "running"},
               row' = [row EXCEPT ![p].status = status], status = "running" => ~R!Moved(p)
        PROVE  RowsMoveOn
    <3>1. PICK w : w = [row[p] EXCEPT !.status = status]
      OBVIOUS
    <3>2. /\ w \in Filed /\ w.status = status /\ w.session = row[p].session
          /\ w.cursor = row[p].cursor
      BY <1>2, <3>1 DEF Filed
    <3>3. row' = [row EXCEPT ![p] = w] /\ row'[p] = w
      BY <2>2, <3>1 DEF FixInv, FixType
    <3>4. w # R!NoRow
      BY <2>2, <3>2, NoRowsStatus
    <3>5. RowMovesOn(p)
      BY <1>2, <2>2, <3>2, <3>3, <3>4 DEF RowMovesOn
    <3>. QED
      BY <1>1, <1>2, <3>2, <3>3, <3>5, OneRow
  <2>. QED
    BY <1>4, <2>1, <2>2
<1>. QED
  BY <1>3, <1>4, <1>5, MovesOn

\* The end of a procedure: what was recorded before it says nothing of the fix.
LEMMA ExecuteStep ==
  ASSUME FixInv, NEW p \in R!Props, NEW clean \in BOOLEAN, R!Execute(p, clean)
  PROVE  FixInv'
<1>1. /\ row[p].status = "running" /\ UNCHANGED <<now, nextProp, overtaken, unsaved, run, nextRun, told>>
  BY DEF R!Execute, R!runs
<1>2. row[p] # R!NoRow /\ row[p] \in Filed /\ row[p].session \in R!Known
  BY <1>1, NoRowsStatus, SessionsKnown
<1>3. PICK after_ \in BOOLEAN : after_ = run[row[p].session].recovered
  <2>1. IsRun(run[row[p].session])
    BY <1>2 DEF FixInv, FixType
  <2>. QED
    BY <2>1 DEF IsRun, RunOf
<1>4. PICK status_ \in {"executed", "failed"}, until_ \in Nat :
        /\ status_ = IF clean THEN "executed" ELSE "failed"
        /\ until_ = IF clean /\ VerifyWindow > 0 THEN now + VerifyWindow ELSE 0
  <2>1. VerifyWindow \in Nat /\ now \in Nat
    BY NodeAssumption DEF R!RemediationAssumption, FixInv, FixType
  <2>. QED
    BY <2>1
<1>5. PICK w : w = [row[p] EXCEPT !.status = status_, !.executed = now, !.until = until_, !.after = after_]
  OBVIOUS
<1>6. /\ w \in Filed /\ w.status = status_ /\ w.session = row[p].session
      /\ w.cursor = row[p].cursor /\ w.after = after_
  BY <1>2, <1>5 DEF Filed, FixInv, FixType
<1>7. row' = [row EXCEPT ![p] = w] /\ row'[p] = w
  BY <1>3, <1>4, <1>5 DEF R!Execute, FixInv, FixType
<1>8. w # R!NoRow
  BY <1>4, <1>6, NoRowsStatus
<1>9. w.after = run'[row[p].session].recovered
  BY <1>1, <1>3, <1>6, Zenon
<1>10. RowMovesOn(p)
  BY <1>1, <1>4, <1>6, <1>7, <1>8, <1>9 DEF RowMovesOn
<1>11. RowsMoveOn
  BY <1>1, <1>2, <1>6, <1>7, <1>10, OneRow
<1>12. RunsMoveOn /\ KeepsTold
  BY <1>1, RunsKept, NothingTold
<1>13. OvertakesMoved
  BY <1>1 DEF OvertakesMoved
<1>. QED
  BY <1>11, <1>12, <1>13, MovesOn

\* The minute's sweep.
LEMMA SweepStep ==
  ASSUME FixInv, R!Sweep
  PROVE  FixInv'
<1>1. R!Tell("outcome", R!Verdicts, R!Decided, run, order)
  BY DEF R!Sweep
<1>2. UNCHANGED <<now, row, nextProp, overtaken, unsaved>>
  BY DEF R!Sweep, R!files
<1>3. BaseKeeps(run) /\ R!Decided \subseteq R!Props
  BY KeepsItself DEF BaseKeeps, R!Decided, R!Executed
<1>4. RunsMoveOn /\ \A r \in R!Known : run'[r] = run[r]
  BY <1>1, <1>3, TellMoves
<1>5. RowsMoveOn
  BY <1>2, RowsKept DEF FixInv, FixType
<1>6. \A t \in told' : t \in told \/ Stands(t)'
  BY <1>1, <1>2, VerdictStands
<1>7. \A q \in R!Executed : row[q].session \in R!Known
  BY RowsOfStatus, SessionsKnown
<1>8. KeepsTold
  BY <1>2, <1>4, <1>6, <1>7 DEF KeepsTold, FixInv
<1>9. OvertakesMoved
  BY <1>2 DEF OvertakesMoved
<1>. QED
  BY <1>4, <1>5, <1>8, <1>9, MovesOn

\* The restart: what was running has failed, and what is continued has moved.
LEMMA BootStep ==
  ASSUME FixInv, NEW resumed \in SUBSET R!Known, R!Boot(resumed)
  PROVE  FixInv'
<1>. DEFINE orphans == {r \in R!Known : run[r].busy}
            failing == orphans \ resumed
            base == [r \in R!Runs |-> IF r \in resumed THEN [R!NextTurn(r) EXCEPT !.restarted = TRUE]
                                      ELSE IF r \in failing
                                      THEN [run[r] EXCEPT !.busy = FALSE, !.failed = TRUE, !.offer = 0,
                                                          !.ended = now]
                                      ELSE run[r]]
<1>1. /\ row' = [p \in R!Props |-> IF row[p].status = "running"
                                   THEN [row[p] EXCEPT !.status = "failed", !.executed = now]
                                   ELSE row[p]]
      /\ overtaken' = overtaken \cup UNION {R!Outrun(r) : r \in resumed}
      /\ UNCHANGED <<now, nextProp, unsaved>>
  BY DEF R!Boot
<1>2. PICK past : R!Tell("outcome", R!Verdicts, R!Decided, base, past)
  BY DEF R!Boot
<1>3. ASSUME NEW r \in R!Runs
      PROVE  /\ KeepsRun(r, base[r])
             /\ r \in R!Known => base[r].recovered = run[r].recovered
             /\ r \in resumed => base[r].turn = run[r].turn + 1
  <2>1. CASE r \in resumed
    <3>1. base[r] = [R!NextTurn(r) EXCEPT !.restarted = TRUE]
      BY <2>1
    <3>. HIDE DEF base
    <3>. QED
      BY <2>1, <3>1, KeepsTurn
  <2>2. CASE r \notin resumed /\ r \in failing
    <3>1. PICK c : run[r] \in RunOf(c)
      BY <2>2 DEF FixInv, FixType, IsRun
    <3>2. base[r] = [run[r] EXCEPT !.busy = FALSE, !.failed = TRUE, !.offer = 0, !.ended = now]
      BY <2>2
    <3>3. r \in R!Known
      BY <2>2
    <3>. HIDE DEF base, failing, orphans
    <3>4. base[r] \in RunOf(c) /\ base[r].turn = run[r].turn /\ base[r].recovered = run[r].recovered
      <4>1. PICK w : w = [run[r] EXCEPT !.busy = FALSE, !.failed = TRUE, !.offer = 0, !.ended = now]
        OBVIOUS
      <4>2. now \in Nat /\ 0 \in Nat
        BY DEF FixInv, FixType
      <4>3. w \in RunOf(c) /\ w.turn = run[r].turn /\ w.recovered = run[r].recovered
        BY <3>1, <4>1, <4>2 DEF RunOf
      <4>. QED
        BY <3>2, <4>1, <4>3
    <3>5. base[r].turn >= run[r].turn
      BY <3>1, <3>4 DEF RunOf
    <3>. QED
      BY <2>2, <3>3, <3>4, <3>5 DEF KeepsRun, IsRun
  <2>3. CASE r \notin resumed /\ r \notin failing
    <3>1. base[r] = run[r]
      BY <2>3
    <3>. HIDE DEF base
    <3>. QED
      BY <2>3, <3>1, KeepsItself
  <2>. QED
    BY <2>1, <2>2, <2>3
<1>. HIDE DEF base, failing, orphans
<1>4. BaseKeeps(base) /\ R!Decided \subseteq R!Props
  BY <1>3 DEF BaseKeeps, R!Decided, R!Executed
<1>5. RunsMoveOn /\ \A r \in R!Known : run'[r] = base[r]
  BY <1>2, <1>4, TellMoves
<1>6. ASSUME NEW p \in R!Props
      PROVE  /\ row[p] = R!NoRow => row'[p] = R!NoRow
             /\ row[p] # R!NoRow => RowMovesOn(p) /\ row'[p] \in Filed
             /\ row[p].status # "running" => row'[p] = row[p]
  <2>1. CASE row[p].status # "running"
    <3>1. row'[p] = row[p]
      BY <1>1, <2>1
    <3>. QED
      BY <2>1, <3>1, RowKept, SessionsKnown
  <2>2. CASE row[p].status = "running"
    <3>1. row[p] # R!NoRow /\ row[p] \in Filed
      BY <2>2, NoRowsStatus, SessionsKnown
    <3>2. row'[p] = [row[p] EXCEPT !.status = "failed", !.executed = now]
      BY <1>1, <2>2
    <3>3. /\ row'[p] \in Filed /\ row'[p].status = "failed"
          /\ row'[p].session = row[p].session /\ row'[p].cursor = row[p].cursor
      BY <3>1, <3>2 DEF Filed, FixInv, FixType
    <3>4. row'[p] # R!NoRow
      BY <3>3, NoRowsStatus
    <3>. QED
      BY <2>2, <3>1, <3>3, <3>4 DEF RowMovesOn
  <2>. QED
    BY <2>1, <2>2
<1>7. RowsMoveOn
  <2>1. row' \in [R!Props -> Filed \cup {R!NoRow}]
    BY <1>1, <1>6
  <2>2. UNCHANGED <<now, nextProp, unsaved>>
    BY <1>1
  <2>3. now' >= now /\ nextProp' >= nextProp
    BY <2>2 DEF FixInv, FixType
  <2>. QED
    BY <1>6, <2>1, <2>2, <2>3 DEF RowsMoveOn, FixInv, FixType
<1>8. OvertakesMoved
  <2>1. ASSUME NEW r \in resumed, NEW p \in R!Outrun(r)
        PROVE  p \in R!Props /\ row[p] # R!NoRow /\ row'[p].status = "proposed" /\ R!Moved(p)'
    <3>1. p \in R!Props /\ row[p].status = "proposed"
      BY <2>1, RowsOfStatus DEF R!Outrun
    <3>2. row'[p] = row[p] /\ run'[r].turn = run[r].turn + 1
      BY <1>3, <1>5, <1>6, <3>1 DEF R!Known
    <3>. QED
      BY <3>2, TurnMoves
  <2>. QED
    BY <1>1, <2>1 DEF OvertakesMoved
<1>9. \A p \in R!Executed : row'[p] = row[p] /\ row[p].session \in R!Known
  BY <1>6, RowsOfStatus, SessionsKnown
<1>10. \A t \in told' : t \in told \/ Stands(t)'
  BY <1>1, <1>2, <1>9, VerdictStands
<1>11. \A r \in R!Known : run'[r].recovered = run[r].recovered
  BY <1>3, <1>5 DEF R!Known
<1>12. KeepsTold
  BY <1>1, <1>9, <1>10, <1>11 DEF KeepsTold, FixInv
<1>. QED
  BY <1>5, <1>7, <1>8, <1>12, MovesOn

\* No run, no row, nothing told.
LEMMA FixInit == R!Init => FixInv
<1>. SUFFICES ASSUME R!Init PROVE FixInv
  OBVIOUS
<1>1. R!Known = {} /\ R!Executed = {} /\ told = {} /\ overtaken = {}
  BY NoRowsStatus DEF R!Init, R!Known, R!Executed
<1>2. FixType
  BY <1>1 DEF R!Init, FixType
<1>3. CursorsTrail
  BY DEF R!Init, CursorsTrail
<1>. QED
  BY <1>1, <1>2, <1>3 DEF R!Init, FixInv, OvertakenMoved, RecoveryIsOnTheRow

\* Whatever the doors, the presses, the clock and the restart do.
LEMMA FixStep == FixInv /\ (R!Next \/ UNCHANGED fixVars) => FixInv'
<1>. SUFFICES ASSUME FixInv, R!Next \/ UNCHANGED fixVars PROVE FixInv'
  OBVIOUS
<1>0. now \in Nat
  BY DEF FixInv, FixType
<1>1. ASSUME NEW c \in Conditions, R!Firing(c) PROVE FixInv'
  BY <1>1, FireBusyStep, FireClaimedStep, FireFreshStep DEF R!Firing
<1>2. CASE R!Tick
  <2>1. UNCHANGED <<run, nextRun, told, row, nextProp, overtaken, unsaved>> /\ now' = now + 1
    BY <1>2 DEF R!Tick, R!runs, R!files
  <2>. QED
    BY <1>0, <2>1, QuietStep
<1>3. CASE UNCHANGED fixVars
  <2>1. UNCHANGED <<now, run, nextRun, told, row, nextProp, overtaken, unsaved>>
    BY <1>3 DEF fixVars
  <2>. QED
    BY <1>0, <2>1, QuietStep
<1>. QED
  BY <1>1, <1>2, <1>3, RecoverStep, FollowUpStep, EndTurnStep, PressStep, ExecuteStep, BootStep,
     SweepStep DEF R!Next

\* A procedure whose own run took another turn, or had a recovery recorded on it,
\* after its steps were written never runs.
THEOREM FixRefusesTheOvertaken == NodeSpec => []OvertakenNeverRuns
<1>. DEFINE I == part = "fix" => FixInv
<1>1. NodeInit => I
  BY FixInit DEF NodeInit
<1>2. I /\ [NodeNext]_nodeVars => I'
  BY FixStep, StepOfPart
<1>3. I => OvertakenNeverRuns
  BY DEF OvertakenNeverRuns, R!OvertakenNeverRuns, FixInv, OvertakenMoved, R!Acted
<1>. QED
  BY <1>1, <1>2, <1>3, PTL DEF NodeSpec

\* What the chat was told of a fix stays what the node says of it, where the fix has
\* a window and missed no recovery, for any number of saves that fail.
THEOREM FixStandsByItsWord == NodeSpec => []ToldStands
<1>. DEFINE I == part = "fix" => FixInv
<1>1. NodeInit => I
  BY FixInit DEF NodeInit
<1>2. I /\ [NodeNext]_nodeVars => I'
  BY FixStep, StepOfPart
<1>3. I => ToldStands
  <2>. SUFFICES ASSUME part = "fix", FixInv, NEW t \in told, t.key.kind = "outcome",
                       row[t.key.proposal].until > 0, ~Missed(t.key.proposal)
                PROVE  R!Outcome(t.key.proposal) = t.says
    BY DEF ToldStands, R!ToldStands, Missed
  <2>. DEFINE p == t.key.proposal
  <2>1. p \in R!Executed /\ Bears(p, t.says)
    BY DEF FixInv, Stands
  <2>2. row[p].status = "executed"
    BY <2>1, RowsOfStatus
  <2>. HIDE DEF p
  <2>3. R!Outcome(p) = t.says
    BY <2>1, <2>2 DEF R!Outcome, Bears
  <2>. QED
    BY <2>3 DEF p
<1>. QED
  BY <1>1, <1>2, <1>3, PTL DEF NodeSpec
-----------------------------------------------------------------------------
(***************************************************************************)
(* Hooks: one decision whichever way it is reached.                        *)
(***************************************************************************)
\* A call that nobody has decided on has not come yet.
HooksInv ==
    /\ step \in {"asked", "refused", "ran", "over"}
    /\ call.tool = "none" => step = "asked" /\ rows = <<>>
    /\ H!OnePosture

\* Each hook answers for a tool of its own, so at most one refuses, and for the
\* reason the one decision gives.
LEMMA HooksAgree ==
  ASSUME NEW c \in H!Calls, H!Offered(c)
  PROVE  H!Refusals(c) = {H!DenyReason(c, mode, listed)} \ {H!None}
<1>1. CASE route # "hooks"
  BY <1>1 DEF H!Refusals
<1>2. CASE route = "hooks"
  <2>1. c.tool \in {"Bash", "Edit", "mcp", "Read"}
    BY <1>2 DEF H!Calls, H!Offered
  <2>2. H!HookReasons(c) = {H!DenyReason(c, mode, listed)} \ {H!None}
    BY <2>1 DEF H!HookReasons, H!BashHook, H!InputHook, H!McpHook, H!DenyReason
  <2>. QED
    BY <1>2, <2>2 DEF H!Refusals
<1>. QED
  BY <1>1, <1>2

\* The rows of one refusal are that refusal.
LEMMA RowsOfOne ==
  ASSUME NEW r
  PROVE  \A i \in DOMAIN H!SetToSeq({r}) : H!SetToSeq({r})[i] = r
<1>1. H!Cardinality({r}) = 1
  <2>1. H!Cardinality({r}) = Cardinality({r})
    BY DEF H!Cardinality, Cardinality
  <2>. QED
    BY <2>1, FS_Singleton
<1>. DEFINE One == {f \in [1..1 -> {r}] : H!IsInjective(f)}
<1>2. [i \in 1..1 |-> r] \in One
  BY DEF H!IsInjective
<1>3. H!SetToSeq({r}) = CHOOSE f \in [1..1 -> {r}] : H!IsInjective(f)
  BY <1>1 DEF H!SetToSeq
<1>4. H!SetToSeq({r}) \in [1..1 -> {r}]
  BY <1>2, <1>3
<1>. QED
  BY <1>4

\* No call has come.
LEMMA HooksInit == H!HooksInit => HooksInv
BY DEF H!HooksInit, HooksInv, H!OnePosture

\* A call is decided once.
LEMMA HooksStep == HooksInv /\ (H!HooksNext \/ UNCHANGED hookVars) => HooksInv'
<1>. SUFFICES ASSUME HooksInv, H!HooksNext \/ UNCHANGED hookVars PROVE HooksInv'
  OBVIOUS
<1>1. ASSUME NEW c \in H!Calls, H!PreToolUse(c) PROVE HooksInv'
  <2>. DEFINE reason == H!DenyReason(c, mode, listed)
  <2>1. /\ call' = c /\ UNCHANGED <<route, mode, listed>>
        /\ H!Refuse(c) \/ H!Allow(c)
    BY <1>1 DEF H!PreToolUse
  <2>2. H!Refusals(c) = {reason} \ {H!None}
    BY <1>1, HooksAgree DEF H!PreToolUse
  <2>3. reason' = reason /\ H!DenyReason(call, mode, listed)' = reason
    BY <2>1
  <2>4. c.tool # "none"
    BY DEF H!Calls
  <2>. HIDE DEF reason
  <2>5. CASE H!Refuse(c)
    <3>1. reason # H!None /\ H!Refusals(c) = {reason} /\ step' = "refused"
      BY <2>2, <2>5 DEF H!Refuse
    <3>2. {[denied |-> TRUE, guard |-> r.guard] : r \in {reason}} = {[denied |-> TRUE, guard |-> reason.guard]}
      OBVIOUS
    <3>3. \/ rows' = H!SetToSeq({[denied |-> TRUE, guard |-> reason.guard]})
          \/ rows' = <<>>
      BY <2>5, <3>1, <3>2 DEF H!Refuse
    <3>4. \A i \in DOMAIN rows' : rows'[i] = [denied |-> TRUE, guard |-> reason.guard]
      <4>1. CASE rows' = <<>>
        BY <4>1
      <4>2. CASE rows' = H!SetToSeq({[denied |-> TRUE, guard |-> reason.guard]})
        BY <4>2, RowsOfOne
      <4>. QED
        BY <3>3, <4>1, <4>2
    <3>5. H!OnePosture'
      BY <2>3, <3>1, <3>4 DEF H!OnePosture
    <3>. QED
      BY <2>1, <2>4, <3>1, <3>5 DEF HooksInv
  <2>6. CASE H!Allow(c)
    <3>1. reason = H!None /\ step' = "ran"
      BY <2>2, <2>6 DEF H!Allow
    <3>. QED
      <4>1. rows' = rows /\ \A i \in DOMAIN rows : ~rows[i].denied
        BY <1>1, <2>6 DEF H!Allow, H!PreToolUse, HooksInv
      <4>2. H!OnePosture'
        BY <2>3, <3>1, <4>1 DEF H!OnePosture
      <4>. QED
        BY <2>1, <2>4, <3>1, <4>2 DEF HooksInv
  <2>. QED
    BY <2>1, <2>5, <2>6
<1>2. CASE H!PostToolUse
  <2>1. /\ step = "ran" /\ step' = "over" /\ UNCHANGED <<route, mode, listed, call>>
        /\ rows' = <<[denied |-> FALSE, guard |-> "none"]>> \/ rows' = rows
    BY <1>2 DEF H!PostToolUse
  <2>2. call.tool # "none" /\ H!DenyReason(call, mode, listed) = H!None
    BY <2>1 DEF HooksInv, H!OnePosture
  <2>3. H!DenyReason(call, mode, listed)' = H!DenyReason(call, mode, listed)
    BY <2>1
  <2>. QED
    BY <2>1, <2>2, <2>3 DEF HooksInv, H!OnePosture
<1>3. CASE UNCHANGED hookVars
  <2>1. UNCHANGED <<route, mode, listed, call, step, rows>>
    BY <1>3 DEF hookVars
  <2>. QED
    BY <2>1 DEF HooksInv, H!OnePosture
<1>. QED
  BY <1>1, <1>2, <1>3 DEF H!HooksNext

\* What runs and what is refused, and the reason that is recorded, are the one
\* decision's on either route.
THEOREM HooksHoldOnePosture == NodeSpec => []OnePosture
<1>. DEFINE I == part = "hooks" => HooksInv
<1>1. NodeInit => I
  BY HooksInit DEF NodeInit
<1>2. I /\ [NodeNext]_nodeVars => I'
  BY HooksStep, StepOfPart
<1>3. I => OnePosture
  BY DEF OnePosture, HooksInv
<1>. QED
  BY <1>1, <1>2, <1>3, PTL DEF NodeSpec
-----------------------------------------------------------------------------
(***************************************************************************)
(* Runtime: who is known to have run ungated.                              *)
(***************************************************************************)
RuntimeType ==
    /\ stream \in [Turns -> [at : {"idle", "live", "checked", "over"}, spoken : BOOLEAN, calls : Nat]]
    /\ noted \in [Turns -> Nat]
    /\ after \in [Turns -> SUBSET Turns]

\* A turn that showed itself ungated has broken the gate for this life of the
\* service, and a turn that began had none before it.
RuntimeInv ==
    /\ RuntimeType
    /\ X!Spawned /\ X!Ungated # {} => broken
    /\ X!UngatedIsTheLast

\* No turn has begun.
LEMMA RuntimeInit == X!RuntimeInit => RuntimeInv
<1>. SUFFICES ASSUME X!RuntimeInit PROVE RuntimeInv
  OBVIOUS
<1>1. /\ stream = [t \in Turns |-> X!Silent] /\ noted = [t \in Turns |-> 0]
      /\ after = [t \in Turns |-> {}]
      /\ X!Silent = [at |-> "idle", spoken |-> FALSE, calls |-> 0]
  BY DEF X!RuntimeInit, X!Silent
<1>2. RuntimeType
  BY <1>1 DEF RuntimeType
<1>3. X!Ungated = {}
  BY <1>1 DEF X!Ungated
<1>. QED
  BY <1>1, <1>2, <1>3 DEF RuntimeInv, X!UngatedIsTheLast

\* Only the check at the end of a turn shows it ungated, and only a fresh life
\* of the service, which has no such turn, forgets it.
LEMMA RuntimeStep == RuntimeInv /\ (X!RuntimeNext \/ UNCHANGED runtimeVars) => RuntimeInv'
<1>. SUFFICES ASSUME RuntimeInv, X!RuntimeNext \/ UNCHANGED runtimeVars PROVE RuntimeInv'
  OBVIOUS
<1>a. /\ stream \in [Turns -> [at : {"idle", "live", "checked", "over"}, spoken : BOOLEAN, calls : Nat]]
      /\ noted \in [Turns -> Nat] /\ after \in [Turns -> SUBSET Turns]
      /\ X!Spawned /\ X!Ungated # {} => broken
      /\ X!Spawned => \A t \in Turns : after[t] = {}
  BY DEF RuntimeInv, RuntimeType, X!UngatedIsTheLast
\* A turn that takes a place other than "checked" shows nothing.
<1>1. ASSUME NEW t \in Turns, NEW w \in [at : {"idle", "live", "over"}, spoken : BOOLEAN, calls : Nat],
             stream' = [stream EXCEPT ![t] = w], stream[t].at # "checked",
             UNCHANGED <<kind, broken>>,
             noted' = noted \/ noted' = [noted EXCEPT ![t] = noted[t] + 1],
             after' = after \/ (after' = [after EXCEPT ![t] = X!Ungated] /\ (X!Spawned => ~broken))
      PROVE  RuntimeInv'
  <2>1. RuntimeType'
    BY <1>1, <1>a DEF RuntimeType, X!Ungated
  <2>2. X!Ungated' = X!Ungated
    BY <1>1, <1>a DEF X!Ungated
  <2>3. X!Spawned' = X!Spawned
    BY <1>1 DEF X!Spawned
  <2>4. X!UngatedIsTheLast'
    BY <1>1, <1>a, <2>3 DEF X!UngatedIsTheLast
  <2>. QED
    BY <1>1, <1>a, <2>1, <2>2, <2>3, <2>4 DEF RuntimeInv
<1>2. ASSUME NEW t \in Turns, X!Begin(t) PROVE RuntimeInv'
  <2>1. /\ stream[t].at = "idle" /\ UNCHANGED <<kind, broken, noted>>
        /\ after' = [after EXCEPT ![t] = X!Ungated]
        /\ stream' = [stream EXCEPT ![t].at = "live"]
             \/ stream' = [stream EXCEPT ![t].at = "live", ![t].spoken = TRUE]
        /\ X!Spawned => ~broken
    BY <1>2 DEF X!Begin, X!ClaudeBegins, X!RehearsalBegins, X!ChildBegins, X!Spawned, X!Verified
  <2>2. PICK v \in [at : {"idle", "live", "over"}, spoken : BOOLEAN, calls : Nat] :
          stream' = [stream EXCEPT ![t] = v]
    <3>1. CASE stream' = [stream EXCEPT ![t].at = "live"]
      <4>1. [stream[t] EXCEPT !.at = "live"] \in [at : {"idle", "live", "over"}, spoken : BOOLEAN, calls : Nat]
        BY <1>a
      <4>2. stream' = [stream EXCEPT ![t] = [stream[t] EXCEPT !.at = "live"]]
        BY <3>1
      <4>. QED
        BY <4>1, <4>2
    <3>2. CASE stream' = [stream EXCEPT ![t].at = "live", ![t].spoken = TRUE]
      <4>1. [stream[t] EXCEPT !.at = "live", !.spoken = TRUE]
              \in [at : {"idle", "live", "over"}, spoken : BOOLEAN, calls : Nat]
        BY <1>a
      <4>2. stream' = [stream EXCEPT ![t] = [stream[t] EXCEPT !.at = "live", !.spoken = TRUE]]
        BY <3>2
      <4>. QED
        BY <4>1, <4>2
    <3>. QED
      BY <2>1, <3>1, <3>2
  <2>. QED
    BY <1>1, <2>1, <2>2
<1>3. ASSUME NEW t \in Turns, X!RefuseTurn(t) \/ X!Cut(t) PROVE RuntimeInv'
  <2>1. /\ stream[t].at # "checked" /\ UNCHANGED <<kind, broken, noted, after>>
        /\ stream' = [stream EXCEPT ![t] = [stream[t] EXCEPT !.at = "over"]]
    BY <1>3 DEF X!RefuseTurn, X!Cut, X!Live
  <2>2. [stream[t] EXCEPT !.at = "over"] \in [at : {"idle", "live", "over"}, spoken : BOOLEAN, calls : Nat]
    BY <1>a
  <2>. QED
    BY <1>1, <2>1, <2>2
<1>4. ASSUME NEW t \in Turns, X!SayId(t) PROVE RuntimeInv'
  <2>1. /\ stream[t].at = "live" /\ UNCHANGED <<kind, broken, noted, after>>
        /\ stream' = [stream EXCEPT ![t] = [stream[t] EXCEPT !.spoken = TRUE]]
    BY <1>4 DEF X!SayId, X!Live
  <2>2. [stream[t] EXCEPT !.spoken = TRUE] \in [at : {"idle", "live", "over"}, spoken : BOOLEAN, calls : Nat]
    BY <1>a, <2>1
  <2>. QED
    BY <1>1, <2>1, <2>2
<1>5. ASSUME NEW t \in Turns, X!Call(t) PROVE RuntimeInv'
  <2>1. /\ stream[t].at = "live" /\ UNCHANGED <<kind, broken, after>>
        /\ stream' = [stream EXCEPT ![t] = [stream[t] EXCEPT !.calls = stream[t].calls + 1]]
        /\ noted' = noted \/ noted' = [noted EXCEPT ![t] = noted[t] + 1]
    BY <1>5 DEF X!Call, X!Live
  <2>2. [stream[t] EXCEPT !.calls = stream[t].calls + 1]
          \in [at : {"idle", "live", "over"}, spoken : BOOLEAN, calls : Nat]
    BY <1>a, <2>1
  <2>. QED
    BY <1>1, <2>1, <2>2
<1>6. ASSUME NEW t \in Turns, X!End(t) PROVE RuntimeInv'
  <2>1. /\ stream[t].at = "live" /\ stream' = [stream EXCEPT ![t].at = "checked"]
        /\ broken' = (broken \/ ~X!Consulted(t)) /\ UNCHANGED <<kind, noted, after>>
    BY <1>6 DEF X!End, X!Live, X!Check
  <2>2. RuntimeType'
    BY <1>a, <2>1 DEF RuntimeType
  <2>3. /\ \A s \in Turns \ {t} : stream'[s] = stream[s]
        /\ stream'[t].at = "checked" /\ stream'[t].calls = stream[t].calls
    BY <1>a, <2>1
  <2>4. ASSUME X!Spawned, NEW s \in X!Ungated' PROVE broken'
    <3>1. CASE s = t
      <4>1. stream[t].calls > 0 /\ noted[t] = 0
        BY <1>a, <2>1, <2>3, <2>4, <3>1 DEF X!Ungated
      <4>2. ~X!Consulted(t)
        BY <1>a, <2>4, <4>1 DEF X!Consulted
      <4>. QED
        BY <2>1, <4>2, Zenon
    <3>2. CASE s # t
      <4>1. s \in X!Ungated
        BY <2>1, <2>3, <2>4, <3>2 DEF X!Ungated
      <4>2. broken
        BY <1>a, <2>4, <4>1
      <4>. QED
        BY <2>1, <4>2, Zenon
    <3>. QED
      BY <3>1, <3>2
  <2>5. X!Spawned' = X!Spawned /\ X!UngatedIsTheLast'
    BY <1>a, <2>1 DEF X!Spawned, X!UngatedIsTheLast
  <2>. QED
    BY <2>2, <2>4, <2>5 DEF RuntimeInv
<1>7. CASE X!Die
  <2>1. /\ UNCHANGED <<kind, noted, after>>
        /\ stream' = [t \in Turns |-> IF stream[t].at = "idle" THEN stream[t]
                                      ELSE [stream[t] EXCEPT !.at = "over"]]
    BY <1>7 DEF X!Die
  <2>2. RuntimeType' /\ X!Ungated' = {}
    BY <1>a, <2>1 DEF RuntimeType, X!Ungated
  <2>3. X!UngatedIsTheLast'
    BY <1>a, <2>1 DEF X!Spawned, X!UngatedIsTheLast
  <2>. QED
    BY <2>2, <2>3 DEF RuntimeInv
<1>8. CASE X!Machine \/ UNCHANGED runtimeVars
  <2>1. UNCHANGED <<kind, broken, stream, noted, after>>
    BY <1>8 DEF X!Machine, runtimeVars
  <2>. QED
    BY <2>1 DEF RuntimeInv, RuntimeType, X!Ungated, X!Spawned, X!UngatedIsTheLast
<1>. QED
  BY <1>2, <1>3, <1>4, <1>5, <1>6, <1>7, <1>8 DEF X!RuntimeNext

\* However turns overlap and the machine under the gate comes and goes, no turn
\* begins once one has shown itself ungated.
THEOREM RuntimeStopsAtUngated == NodeSpec => []UngatedIsTheLast
<1>. DEFINE I == part = "runtime" => RuntimeInv
<1>1. NodeInit => I
  BY RuntimeInit DEF NodeInit
<1>2. I /\ [NodeNext]_nodeVars => I'
  BY RuntimeStep, StepOfPart
<1>3. I => UngatedIsTheLast
  BY DEF UngatedIsTheLast, RuntimeInv
<1>. QED
  BY <1>1, <1>2, <1>3, PTL DEF NodeSpec
-----------------------------------------------------------------------------
(***************************************************************************)
(* Posture: what an answer that the boundary holds was given of.           *)
(***************************************************************************)
PostureInv ==
    /\ declares \in P!Declarations
    /\ image \in SUBSET P!Tools /\ mounted \in SUBSET P!Sources /\ granted \in SUBSET P!Grants
    /\ node \in {"down", "up", "refused"}
    /\ P!OnlyKnownSilencesPass

\* A measurement without an error, and with every tool there, allows what the credentials
\* reach, but for what no error tells of.
LEMMA MeasuredIsReached ==
  ASSUME NEW silent, NEW x \in granted, x \notin P!Unnoticed(silent),
         ~P!MeasureKube(silent).unsure, ~P!MeasureAws(silent).unsure
  PROVE  /\ "kubeconfig" \in mounted /\ x \in P!OfKube => x \in P!MeasureKube(silent).allows
         /\ mounted \cap {"keys", "role"} # {} /\ x \in AwsGrants => x \in P!MeasureAws(silent).allows
<1>1. ASSUME "kubeconfig" \in mounted, x \in P!OfKube PROVE x \in P!MeasureKube(silent).allows
  <2>1. "kubectl" \in image /\ silent \cap KubeGrants = {} /\ "list" \notin silent
    BY <1>1 DEF P!MeasureKube
  <2>2. x \in (ListedGrants \ silent) \cup (KubeGrants \ silent)
    BY <1>1, <2>1 DEF P!Unnoticed, P!OfKube
  <2>. QED
    BY <1>1, <2>1, <2>2 DEF P!MeasureKube
<1>2. ASSUME mounted \cap {"keys", "role"} # {}, x \in AwsGrants PROVE x \in P!MeasureAws(silent).allows
  <2>. DEFINE offered == mounted \cap {"keys", "profile"} # {} \/ ("role" \in mounted /\ "metadata" \notin silent)
              located == "keys" \in mounted \/ ("role" \in mounted /\ "locate" \notin silent)
              asked == "aws" \in image
              present == offered /\ (located \/ ~asked)
  <2>1. P!MeasureAws(silent) =
          [present |-> present,
           allows  |-> IF present /\ asked THEN (granted \cap AwsGrants) \ silent ELSE {},
           unsure  |-> present /\ (silent \cap AwsGrants # {} \/ ~asked),
           missing |-> present /\ ~asked]
    BY DEF P!MeasureAws
  <2>2. offered /\ (asked => located)
    BY <1>2 DEF P!Unnoticed
  <2>3. present /\ asked /\ silent \cap AwsGrants = {}
    <3>1. present
      BY <2>2
    <3>2. P!MeasureAws(silent).unsure = (present /\ (silent \cap AwsGrants # {} \/ ~asked))
      BY <2>1
    <3>. QED
      BY <3>1, <3>2
  <2>4. P!MeasureAws(silent).allows = (granted \cap AwsGrants) \ silent
    BY <2>1, <2>3
  <2>5. x \notin silent
    BY <1>2, <2>3
  <2>. QED
    BY <1>2, <2>4, <2>5
<1>. QED
  BY <1>1, <1>2

\* A verdict that is no complaint was given of credentials that reach nothing undeclared,
\* but for what no error tells of.
LEMMA VerdictIsOfTheGrants ==
  ASSUME PostureInv, NEW silent,
         P!Judged(silent, declares.radius)
           \notin {"wider-than-declared", "unmeasurable", "unverifiable"}
  PROVE  P!Missed(silent) = {}
<1>. DEFINE kube == P!MeasureKube(silent)
            aws == P!MeasureAws(silent)
            reached == (IF "kubeconfig" \in mounted THEN granted \cap P!OfKube ELSE {})
                       \cup (IF mounted \cap {"keys", "role"} # {} THEN granted \cap AwsGrants ELSE {})
<1>. HIDE DEF kube, aws
<1>1. /\ ~kube.unsure /\ ~aws.unsure
      /\ IF declares.guard = "readonly" THEN kube.allows \cup aws.allows = {}
         ELSE P!Beyond(kube.allows \cup aws.allows, declares.radius) = {}
  <2>1. P!Judged(silent, declares.radius) = P!Verdict(declares.guard, declares.radius, kube, aws)
    BY DEF P!Judged, kube, aws
  <2>. QED
    BY <2>1 DEF P!Verdict
<1>2. ASSUME NEW x \in reached, x \notin P!Unnoticed(silent) PROVE x \in kube.allows \cup aws.allows
  <2>1. ~P!MeasureKube(silent).unsure /\ ~P!MeasureAws(silent).unsure /\ x \in granted
    BY <1>1 DEF kube, aws
  <2>2. /\ "kubeconfig" \in mounted /\ x \in P!OfKube => x \in P!MeasureKube(silent).allows
        /\ mounted \cap {"keys", "role"} # {} /\ x \in AwsGrants => x \in P!MeasureAws(silent).allows
    BY <1>2, <2>1, MeasuredIsReached
  <2>. QED
    BY <2>2 DEF kube, aws
<1>3. P!Undisclosed = IF declares.guard = "readonly" THEN reached ELSE P!Beyond(reached, declares.radius)
  BY DEF P!Undisclosed
<1>. HIDE DEF reached
<1>4. CASE declares.guard = "readonly"
  BY <1>1, <1>2, <1>3, <1>4 DEF P!Missed
<1>5. CASE declares.guard # "readonly"
  BY <1>1, <1>2, <1>3, <1>5 DEF P!Missed, P!Beyond
<1>. QED
  BY <1>4, <1>5

\* Nothing has been measured.
LEMMA PostureInit == P!PostureInit => PostureInv
<1>. SUFFICES ASSUME P!PostureInit PROVE PostureInv
  OBVIOUS
<1>1. Mounts \subseteq SUBSET P!Sources
  BY NodeAssumption DEF P!PostureAssumption
<1>. QED
  BY <1>1 DEF P!PostureInit, PostureInv, P!OnlyKnownSilencesPass

\* A measurement is of what is granted at that moment; what is granted afterwards is the
\* next one's.
LEMMA PostureStep == PostureInv /\ (P!PostureNext \/ UNCHANGED postureVars) => PostureInv'
<1>. SUFFICES ASSUME PostureInv, P!PostureNext \/ UNCHANGED postureVars PROVE PostureInv'
  OBVIOUS
<1>1. ASSUME NEW silent, P!Start(silent) PROVE PostureInv'
  <2>1. PICK v : /\ v = IF declares.mode = "off" THEN "skipped" ELSE P!Judged(silent, declares.radius)
                 /\ missed' = P!Missed(silent)
                 /\ node' = IF P!Refused(v) THEN "refused" ELSE "up"
                 /\ UNCHANGED <<declares, image, mounted, granted, watched>>
    BY <1>1 DEF P!Start
  <2>2. ASSUME node' = "up", P!Enforced, declares.guard # "readonly", declares.radius # Undeclared
        PROVE  P!Missed(silent) = {}
    <3>1. ~P!Refused(v) /\ v = P!Judged(silent, declares.radius)
      BY <2>1, <2>2 DEF P!Enforced
    <3>2. v \notin {"wider-than-declared", "unmeasurable", "unverifiable"}
      BY <2>2, <3>1 DEF P!Refused
    <3>. QED
      BY <3>1, <3>2, VerdictIsOfTheGrants
  <2>3. P!OnlyKnownSilencesPass'
    BY <2>1, <2>2 DEF PostureInv, P!OnlyKnownSilencesPass, P!Enforced
  <2>. QED
    BY <2>1, <2>3 DEF PostureInv
<1>2. ASSUME NEW silent, P!Hourly(silent) PROVE PostureInv'
  <2>1. PICK v : /\ v = P!Judged(silent, declares.radius)
                 /\ watched' = [held |-> P!Held(v), missed |-> P!Missed(silent)]
                 /\ UNCHANGED <<declares, image, mounted, granted, node, missed>>
    BY <1>2 DEF P!Hourly, P!Watched
  <2>2. P!Held(v) = "held" => P!Missed(silent) = {}
    <3>. SUFFICES ASSUME P!Held(v) = "held" PROVE P!Missed(silent) = {}
      OBVIOUS
    <3>1. v \notin {"wider-than-declared", "unmeasurable", "unverifiable"}
      BY DEF P!Held
    <3>. QED
      BY <2>1, <3>1, VerdictIsOfTheGrants
  <2>3. P!OnlyKnownSilencesPass'
    BY <2>1, <2>2 DEF PostureInv, P!OnlyKnownSilencesPass, P!Enforced
  <2>. QED
    BY <2>1, <2>3 DEF PostureInv
<1>3. CASE P!Regrant
  <2>1. UNCHANGED <<declares, image, mounted, node, watched, missed>> /\ granted' \in SUBSET P!Grants
    BY <1>3 DEF P!Regrant, PostureInv
  <2>. QED
    BY <2>1 DEF PostureInv, P!OnlyKnownSilencesPass, P!Enforced
<1>4. CASE P!Redeploy
  <2>1. /\ node' = "down" /\ image' \in SUBSET P!Tools /\ watched' = [held |-> "none", missed |-> {}]
        /\ UNCHANGED <<declares, mounted, granted>>
    BY <1>4 DEF P!Redeploy
  <2>. QED
    BY <2>1 DEF PostureInv, P!OnlyKnownSilencesPass
<1>5. CASE UNCHANGED postureVars
  BY <1>5 DEF postureVars, PostureInv, P!OnlyKnownSilencesPass, P!Enforced
<1>. QED
  BY <1>1, <1>2, <1>3, <1>4, <1>5 DEF P!PostureNext

\* Whichever tool is missing and whichever question fails, and whatever the far side grants
\* meanwhile, no silence is taken for a boundary that holds, but a row left out of a list
\* and an instance role that did not show.
THEOREM PostureTakesNoSilence == NodeSpec => []OnlyKnownSilencesPass
<1>. DEFINE I == part = "posture" => PostureInv
<1>1. NodeInit => I
  BY PostureInit DEF NodeInit
<1>2. I /\ [NodeNext]_nodeVars => I'
  BY PostureStep, StepOfPart
<1>3. I => OnlyKnownSilencesPass
  BY DEF OnlyKnownSilencesPass, PostureInv
<1>. QED
  BY <1>1, <1>2, <1>3, PTL DEF NodeSpec
-----------------------------------------------------------------------------
(***************************************************************************)
(* Outage: what a quiet window stands on.                                  *)
(***************************************************************************)
\* A channel that was used has its post under way, or delivered one since.
OutageInv ==
    /\ clock \in Nat
    /\ \/ lastSent = O!Never
       \/ lastSent \in 0..clock /\ (posting # {} \/ heard >= lastSent)
    /\ heard = O!Never \/ heard \in 0..clock

\* Nothing was sent.
LEMMA OutageInit == O!OutageInit => OutageInv
BY DEF O!OutageInit, OutageInv

\* Whoever takes a post off, delivers it or calls the window back.
LEMMA OutageStep == OutageInv /\ (O!OutageNext \/ UNCHANGED outageVars) => OutageInv'
<1>. SUFFICES ASSUME OutageInv, O!OutageNext \/ UNCHANGED outageVars PROVE OutageInv'
  OBVIOUS
<1>0. O!Never \in Int
  BY NodeAssumption DEF O!OutageAssumption, O!Never
<1>1. ASSUME O!Alarm \/ O!Silence, UNCHANGED <<clock, heard>> PROVE OutageInv'
  <2>1. \/ UNCHANGED <<lastSent, posting>>
        \/ lastSent' = clock /\ posting' # {}
    BY <1>1 DEF O!Alarm, O!Silence
  <2>2. CASE UNCHANGED <<lastSent, posting>>
    BY <1>1, <2>2 DEF OutageInv, O!Never
  <2>3. CASE lastSent' = clock /\ posting' # {}
    <3>1. lastSent' \in 0..clock'
      BY <1>1, <2>3 DEF OutageInv
    <3>. QED
      BY <1>1, <2>3, <3>1 DEF OutageInv, O!Never
  <2>. QED
    BY <2>1, <2>2, <2>3
<1>2. CASE O!NodeWideFailure \/ O!SelftestFails \/ O!RunLands
  BY <1>1, <1>2 DEF O!NodeWideFailure, O!SelftestFails, O!RunLands
<1>3. ASSUME NEW k \in Kinds, O!TransientFailure(k) PROVE OutageInv'
  BY <1>1, <1>3 DEF O!TransientFailure
<1>4. ASSUME NEW p \in posting, O!Delivered(p) \/ O!TriedAgain(p) \/ O!Lost(p) PROVE OutageInv'
  <2>1. CASE O!Delivered(p)
    BY <1>0, <2>1 DEF O!Delivered, OutageInv
  <2>2. CASE O!TriedAgain(p)
    BY <1>0, <2>2 DEF O!TriedAgain, OutageInv
  <2>3. CASE O!Lost(p)
    BY <1>0, <2>3 DEF O!Lost, OutageInv
  <2>. QED
    BY <1>4, <2>1, <2>2, <2>3
<1>5. CASE O!NodeRestarts
  BY <1>5 DEF O!NodeRestarts, OutageInv
<1>6. CASE O!Tick
  BY <1>6 DEF O!Tick, OutageInv
<1>7. CASE UNCHANGED outageVars
  BY <1>7 DEF outageVars, OutageInv
<1>. QED
  BY <1>2, <1>3, <1>4, <1>5, <1>6, <1>7 DEF O!OutageNext

\* However posts overlap, fail and are tried again, the channel keeps quiet only
\* on a post that is under way or was delivered in the window.
THEOREM OutageEarnsItsQuiet == NodeSpec => []QuietIsEarned
<1>. DEFINE I == part = "outage" => OutageInv
<1>1. NodeInit => I
  BY OutageInit DEF NodeInit
<1>2. I /\ [NodeNext]_nodeVars => I'
  BY OutageStep, StepOfPart
<1>3. I => QuietIsEarned
  <2>1. QuietWindow \in Nat /\ RecurringQuiet \in Nat
    BY NodeAssumption DEF O!OutageAssumption
  <2>. QED
    BY <2>1 DEF QuietIsEarned, O!QuietIsEarned, O!Quiet, O!Never, OutageInv
<1>. QED
  BY <1>1, <1>2, <1>3, PTL DEF NodeSpec
-----------------------------------------------------------------------------
(***************************************************************************)
(* Verdict: on whose word an alert is held back.                           *)
(***************************************************************************)
\* A judgement in the ledger; a model's word is what it said of waking.
Judgement ==
    [event : Events, identity : {V!Identity(e) : e \in Events}, rule : {V!RuleKey(e) : e \in Events},
     recovery : BOOLEAN, route : {"ai", "rule", "reuse", "recovery", "rule-reuse"},
     importance : V!Importance, wake : {"yes", "no", ""}, billed : BOOLEAN, said : {"yes", "no", ""}]

\* The values the calls, the pin and the ledger take.
VerdictType ==
    /\ asking \in [Slots -> {V!NoCall} \cup [event : Events, dialect : 0..3, attempt : Nat \ {0}]]
    /\ pin \in [dialect : 0..3, age : Nat]
    /\ verdicts \in Seq(Judgement)

\* Row i is quiet on a model's word, of the same condition or of the rule of an
\* earlier alert on it.
OnAWord(ledgerRows, i) ==
    \E j, k \in 1..i :
        /\ ledgerRows[j].route = "ai" /\ ledgerRows[j].said = "no"
        /\ ledgerRows[k].identity = ledgerRows[i].identity
        /\ ledgerRows[j].identity = ledgerRows[k].identity \/ ledgerRows[j].rule = ledgerRows[k].rule

\* A quiet verdict of a model is its word, and every quiet row goes back to one.
VerdictInv ==
    /\ VerdictType
    /\ \A i \in DOMAIN verdicts :
         /\ verdicts[i].route = "ai" /\ verdicts[i].wake = "no" => verdicts[i].said = "no"
         /\ verdicts[i].wake = "no" => OnAWord(verdicts, i)

\* A row more, whose quiet is a model's word or an earlier row's that may serve.
MayFollow(r) ==
    r.wake = "no" =>
      \/ r.route = "ai" /\ r.said = "no"
      \/ /\ r.route # "ai"
         /\ \E p \in DOMAIN verdicts :
              /\ verdicts[p].wake = "no"
              /\ \/ verdicts[p].identity = r.identity
                 \/ verdicts[p].route = "ai" /\ verdicts[p].rule = r.rule

\* A set of numbers has a smallest one.
LEMMA SmallestOf ==
  ASSUME NEW T \in SUBSET Nat, T # {}
  PROVE  \E m \in T : \A j \in T : m <= j
<1>. DEFINE U == {ss \in Nat \X Nat : ss[1] < ss[2]}
<1>1. IsWellFoundedOn(U, Nat)
  BY NatLessThanWellFounded DEF OpToRel
<1>. HIDE DEF U
<1>2. PICK m \in T : \A j \in T : ~(<<j, m>> \in U)
  BY <1>1, WFMin
<1>3. ASSUME NEW j \in T PROVE m <= j
  <2>1. j \in Nat /\ m \in Nat
    OBVIOUS
  <2>2. ~(<<j, m>> \in U)
    BY <1>2
  <2>3. ~(j < m)
    BY <2>1, <2>2 DEF U
  <2>. QED
    BY <2>1, <2>3
<1>. QED
  BY <1>3

\* The newest of some rows is one of them.
LEMMA NewestIsOne ==
  ASSUME NEW n \in Nat, NEW T \in SUBSET (1..n), T # {}
  PROVE  V!Newest(T) \in T
<1>. DEFINE U == {n - j : j \in T}
<1>1. U \subseteq Nat /\ U # {}
  <2>1. \A j \in T : j \in Int /\ n - j \in Nat
    OBVIOUS
  <2>2. PICK j \in T : TRUE
    OBVIOUS
  <2>. QED
    BY <2>1, <2>2
<1>2. PICK u \in U : \A v \in U : u <= v
  <2>. HIDE DEF U
  <2>. QED
    BY <1>1, SmallestOf
<1>3. PICK m \in T : u = n - m
  BY <1>2
<1>4. ASSUME NEW j \in T PROVE j <= m
  <2>1. u <= n - j
    BY <1>2
  <2>. QED
    BY <1>3, <2>1
<1>. QED
  BY <1>4 DEF V!Newest

\* Whether an event is a recovery is a question with an answer.
LEMMA RecoveryIsBoolean == \A e : V!IsRecovery(e) \in BOOLEAN
BY DEF V!IsRecovery

\* A judgement that may follow keeps the ledger's word.
LEMMA OneMore ==
  ASSUME VerdictInv, NEW r \in Judgement, MayFollow(r), verdicts' = Append(verdicts, r),
         asking' \in [Slots -> {V!NoCall} \cup [event : Events, dialect : 0..3, attempt : Nat \ {0}]],
         pin' \in [dialect : 0..3, age : Nat]
  PROVE  VerdictInv'
<1>0. PICK n \in Nat : n = Len(verdicts) + 1
  BY DEF VerdictInv, VerdictType
<1>1. /\ verdicts \in Seq(Judgement) /\ Len(verdicts) \in Nat /\ DOMAIN verdicts = 1..Len(verdicts)
      /\ \A i \in DOMAIN verdicts :
           /\ verdicts[i].route = "ai" /\ verdicts[i].wake = "no" => verdicts[i].said = "no"
           /\ verdicts[i].wake = "no" => OnAWord(verdicts, i)
  BY DEF VerdictInv, VerdictType
<1>2. /\ verdicts' \in Seq(Judgement) /\ DOMAIN verdicts' = 1..n /\ n \in Nat
      /\ verdicts'[n] = r /\ \A i \in DOMAIN verdicts : verdicts'[i] = verdicts[i]
  BY <1>0, <1>1
<1>3. ASSUME NEW i \in DOMAIN verdicts PROVE OnAWord(verdicts', i) <=> OnAWord(verdicts, i)
  <2>1. \A j \in 1..i : j \in DOMAIN verdicts
    BY <1>1
  <2>2. \A j \in 1..i : verdicts'[j] = verdicts[j]
    BY <1>2, <2>1
  <2>3. verdicts'[i] = verdicts[i]
    BY <1>2
  <2>. QED
    BY <2>2, <2>3 DEF OnAWord
<1>4. r.route = "ai" /\ r.wake = "no" => r.said = "no"
  BY DEF MayFollow
<1>5. ASSUME r.wake = "no" PROVE OnAWord(verdicts', n)
  <2>1. CASE r.route = "ai" /\ r.said = "no"
    <3>1. /\ n \in 1..n /\ verdicts'[n].route = "ai" /\ verdicts'[n].said = "no"
          /\ verdicts'[n].identity = verdicts'[n].identity
      BY <1>0, <1>1, <1>2, <2>1
    <3>. QED
      BY <3>1 DEF OnAWord
  <2>2. CASE r.route # "ai"
    <3>1. PICK p \in DOMAIN verdicts :
            /\ verdicts[p].wake = "no"
            /\ \/ verdicts[p].identity = r.identity
               \/ verdicts[p].route = "ai" /\ verdicts[p].rule = r.rule
      BY <1>5, <2>2 DEF MayFollow
    <3>2. CASE verdicts[p].identity = r.identity
      <4>1. OnAWord(verdicts', p)
        BY <1>1, <1>3, <3>1
      <4>2. PICK j \in 1..p, k \in 1..p :
              /\ verdicts'[j].route = "ai" /\ verdicts'[j].said = "no"
              /\ verdicts'[k].identity = verdicts'[p].identity
              /\ verdicts'[j].identity = verdicts'[k].identity \/ verdicts'[j].rule = verdicts'[k].rule
        BY <4>1 DEF OnAWord
      <4>3. j \in 1..n /\ k \in 1..n /\ verdicts'[p].identity = verdicts'[n].identity
        BY <1>0, <1>1, <1>2, <3>1, <3>2
      <4>. QED
        BY <4>2, <4>3 DEF OnAWord
    <3>3. CASE verdicts[p].route = "ai" /\ verdicts[p].rule = r.rule
      <4>1. /\ p \in 1..n /\ n \in 1..n /\ verdicts'[p].rule = verdicts'[n].rule
            /\ verdicts'[p].route = "ai" /\ verdicts'[p].said = "no"
        BY <1>0, <1>1, <1>2, <3>1, <3>3
      <4>. QED
        BY <4>1 DEF OnAWord
    <3>. QED
      BY <3>1, <3>2, <3>3
  <2>. QED
    BY <1>5, <2>1, <2>2 DEF MayFollow
<1>6. ASSUME NEW i \in DOMAIN verdicts'
      PROVE  /\ verdicts'[i].route = "ai" /\ verdicts'[i].wake = "no" => verdicts'[i].said = "no"
             /\ verdicts'[i].wake = "no" => OnAWord(verdicts', i)
  <2>1. CASE i = n
    BY <1>2, <1>4, <1>5, <2>1
  <2>2. CASE i # n
    <3>1. i \in DOMAIN verdicts
      BY <1>0, <1>1, <1>2, <2>2
    <3>. QED
      BY <1>1, <1>2, <1>3, <3>1
  <2>. QED
    BY <2>1, <2>2
<1>7. VerdictType'
  BY <1>2 DEF VerdictType
<1>. QED
  BY <1>6, <1>7 DEF VerdictInv

\* The ledger is empty.
LEMMA VerdictInit == V!VerdictInit => VerdictInv
<1>. SUFFICES ASSUME V!VerdictInit PROVE VerdictInv
  OBVIOUS
<1>1. V!NoPin \in [dialect : 0..3, age : Nat]
  BY DEF V!NoPin
<1>. QED
  BY <1>1 DEF V!VerdictInit, VerdictInv, VerdictType

\* The dialect a call begins with is one of the three, or none is remembered.
LEMMA OpeningDialect == VerdictType => V!Opening \in 0..3
<1>. SUFFICES ASSUME VerdictType PROVE V!Opening \in 0..3
  OBVIOUS
<1>1. V!Remembered \in 0..3
  BY DEF V!Remembered, VerdictType
<1>2. V!First \in 0..3
  <2>1. CASE Preferred = "auto"
    BY <2>1 DEF V!First
  <2>2. CASE Preferred # "auto"
    <3>1. Preferred \in {"schema", "tools", "object"}
      <4>1. Preferred \in V!ToSet(V!Dialects)
        BY <2>2, NodeAssumption DEF V!VerdictAssumption
      <4>2. V!ToSet(V!Dialects) = {V!Dialects[i] : i \in DOMAIN V!Dialects}
        BY DEF V!ToSet
      <4>3. DOMAIN V!Dialects = 1..3
        BY DEF V!Dialects
      <4>4. PICK d \in 1..3 : Preferred = V!Dialects[d]
        BY <4>1, <4>2, <4>3
      <4>. QED
        BY <4>4 DEF V!Dialects
    <3>2. \E d \in 1..3 : <<"schema", "tools", "object">>[d] = Preferred
      BY <3>1
    <3>3. V!First = CHOOSE d \in 1..3 : <<"schema", "tools", "object">>[d] = Preferred
      BY <2>2 DEF V!First, V!Dialects
    <3>. QED
      BY <3>2, <3>3
  <2>. QED
    BY <2>1, <2>2
<1>. QED
  BY <1>1, <1>2 DEF V!Opening

\* The floor is in the vocabulary, and leaves waking unanswered.
LEMMA FloorFollows ==
  ASSUME NEW e \in Events, NEW billed \in BOOLEAN
  PROVE  V!RuleVerdict(e, billed) \in Judgement /\ MayFollow(V!RuleVerdict(e, billed))
<1>1. V!Floor(e) \in V!Importance
  BY DEF V!Floor, V!Normalized, V!Importance
<1>2. V!RuleVerdict(e, billed) \in Judgement /\ V!RuleVerdict(e, billed).wake = ""
  <2>1. V!RuleVerdict(e, billed) = V!Row(e, "rule", V!Floor(e), "", billed, "")
    BY DEF V!RuleVerdict
  <2>2. PICK floor \in V!Importance : floor = V!Floor(e)
    BY <1>1
  <2>3. V!Row(e, "rule", floor, "", billed, "") \in Judgement
    BY RecoveryIsBoolean DEF V!Row, Judgement
  <2>4. V!Row(e, "rule", floor, "", billed, "").wake = ""
    BY DEF V!Row
  <2>. QED
    BY <2>1, <2>2, <2>3, <2>4
<1>. QED
  BY <1>2 DEF MayFollow

\* An answer that serves again follows: the row it is taken from is of the same
\* condition, or of the same rule and a model's.
LEMMA VerdictStep ==
  ASSUME VerdictInv, V!VerdictNext \/ UNCHANGED verdictVars
  PROVE  VerdictInv'
<1>. DEFINE Asking == [event : Events, dialect : 0..3, attempt : Nat \ {0}]
<1>a. /\ asking \in [Slots -> {V!NoCall} \cup Asking] /\ pin \in [dialect : 0..3, age : Nat]
      /\ verdicts \in Seq(Judgement) /\ VerdictType
      /\ Len(verdicts) \in Nat /\ DOMAIN verdicts = 1..Len(verdicts)
      /\ \A i \in DOMAIN verdicts :
           verdicts[i].route = "ai" /\ verdicts[i].wake = "no" => verdicts[i].said = "no"
  BY DEF VerdictInv, VerdictType
<1>b. V!NoCall \in {V!NoCall} \cup Asking
  OBVIOUS
<1>. HIDE DEF Asking
<1>1. ASSUME UNCHANGED verdicts, asking' \in [Slots -> {V!NoCall} \cup Asking],
             pin' \in [dialect : 0..3, age : Nat]
      PROVE  VerdictInv'
  BY <1>1 DEF VerdictInv, VerdictType, Asking
<1>2. ASSUME NEW w \in Judgement, MayFollow(w), V!Recorded(w),
             asking' \in [Slots -> {V!NoCall} \cup Asking], pin' \in [dialect : 0..3, age : Nat]
      PROVE  VerdictInv'
  BY <1>2, OneMore DEF V!Recorded, Asking
<1>3. ASSUME NEW s \in Slots, NEW w \in Judgement, MayFollow(w), V!Over(s, w),
             pin' \in [dialect : 0..3, age : Nat]
      PROVE  VerdictInv'
  <2>1. asking' \in [Slots -> {V!NoCall} \cup Asking] /\ V!Recorded(w)
    BY <1>3, <1>a, <1>b DEF V!Over
  <2>. QED
    BY <1>2, <1>3, <2>1
<1>4. ASSUME NEW s \in Slots, V!Calling(s) PROVE asking[s] \in Asking
  BY <1>4, <1>a DEF V!Calling
<1>5. CASE V!Hour
  <2>1. UNCHANGED <<asking, verdicts>>
    BY <1>5 DEF V!Hour
  <2>2. pin' \in [dialect : 0..3, age : Nat]
    BY <1>5, <1>a DEF V!Hour, V!NoPin
  <2>. QED
    BY <1>1, <1>a, <2>1, <2>2
<1>6. CASE V!ProviderChanges \/ UNCHANGED verdictVars
  BY <1>1, <1>6, <1>a DEF V!ProviderChanges, verdictVars
<1>7. ASSUME NEW s \in Slots, NEW e \in Events, NEW fresh \in BOOLEAN, NEW affordable \in BOOLEAN,
             V!Decide(s, e, fresh, affordable)
      PROVE  VerdictInv'
  <2>. DEFINE prior == IF V!IsRecovery(e) \/ fresh THEN V!Prior(e) ELSE {}
              ofRule == IF fresh THEN V!PriorOfRule(e) ELSE {}
  <2>0. UNCHANGED pin
    BY <1>7 DEF V!Decide
  <2>1. \/ /\ prior # {} /\ V!Recorded(V!ReuseVerdict(e, verdicts[V!Newest(prior)]))
           /\ UNCHANGED asking
        \/ V!Recorded(V!RuleVerdict(e, FALSE)) /\ UNCHANGED asking
        \/ /\ ofRule # {} /\ V!Recorded(V!RuleReuseVerdict(e, verdicts[V!Newest(ofRule)]))
           /\ UNCHANGED asking
        \/ /\ asking' = [asking EXCEPT ![s] = [event |-> e, dialect |-> V!Opening, attempt |-> 1]]
           /\ UNCHANGED verdicts
    BY <1>7 DEF V!Decide
  <2>2. CASE prior # {} /\ V!Recorded(V!ReuseVerdict(e, verdicts[V!Newest(prior)])) /\ UNCHANGED asking
    <3>1. prior \subseteq {i \in DOMAIN verdicts : verdicts[i].identity = V!Identity(e)}
      BY DEF V!Prior
    <3>2. PICK p \in DOMAIN verdicts : p = V!Newest(prior) /\ verdicts[p].identity = V!Identity(e)
      <4>1. prior \in SUBSET (1..Len(verdicts))
        BY <1>a, <3>1
      <4>2. V!Newest(prior) \in prior
        BY <1>a, <2>2, <4>1, NewestIsOne
      <4>. QED
        BY <3>1, <4>2
    <3>. DEFINE q == verdicts[p]
    <3>3. q \in Judgement
      BY <1>a
    <3>4. q.wake \in {"yes", "no", ""} /\ q.importance \in V!Importance
      BY <3>3 DEF Judgement
    <3>. HIDE DEF q
    <3>5. PICK how \in {"recovery", "reuse"} :
            V!ReuseVerdict(e, q) = V!Row(e, how, q.importance, q.wake, FALSE, "")
      BY <3>4 DEF V!ReuseVerdict, V!Answered
    <3>6. /\ V!ReuseVerdict(e, q) \in Judgement /\ V!ReuseVerdict(e, q).identity = V!Identity(e)
          /\ V!ReuseVerdict(e, q).route # "ai" /\ V!ReuseVerdict(e, q).wake = q.wake
      <4>1. PICK importance \in V!Importance, wake \in {"yes", "no", ""} :
              importance = q.importance /\ wake = q.wake
        BY <3>4
      <4>2. V!Row(e, how, importance, wake, FALSE, "") \in Judgement
        BY RecoveryIsBoolean DEF V!Row, Judgement
      <4>3. /\ V!Row(e, how, importance, wake, FALSE, "").identity = V!Identity(e)
            /\ V!Row(e, how, importance, wake, FALSE, "").route # "ai"
            /\ V!Row(e, how, importance, wake, FALSE, "").wake = wake
        BY DEF V!Row
      <4>. QED
        BY <3>5, <4>1, <4>2, <4>3
    <3>7. MayFollow(V!ReuseVerdict(e, q))
      BY <3>2, <3>6 DEF MayFollow, q
    <3>. QED
      BY <1>2, <1>a, <2>0, <2>2, <3>2, <3>6, <3>7 DEF q
  <2>3. CASE V!Recorded(V!RuleVerdict(e, FALSE)) /\ UNCHANGED asking
    BY <1>2, <1>a, <2>0, <2>3, FloorFollows
  <2>4. CASE /\ ofRule # {} /\ V!Recorded(V!RuleReuseVerdict(e, verdicts[V!Newest(ofRule)]))
             /\ UNCHANGED asking
    <3>1. ofRule \subseteq {i \in DOMAIN verdicts : verdicts[i].rule = V!RuleKey(e) /\ verdicts[i].route = "ai"}
      BY DEF V!PriorOfRule
    <3>2. PICK p \in DOMAIN verdicts : /\ p = V!Newest(ofRule) /\ verdicts[p].rule = V!RuleKey(e)
                                       /\ verdicts[p].route = "ai"
      <4>1. ofRule \in SUBSET (1..Len(verdicts))
        BY <1>a, <3>1
      <4>2. V!Newest(ofRule) \in ofRule
        BY <1>a, <2>4, <4>1, NewestIsOne
      <4>. QED
        BY <3>1, <4>2
    <3>. DEFINE q == verdicts[p]
    <3>3. q \in Judgement
      BY <1>a
    <3>4. q.wake \in {"yes", "no", ""} /\ q.importance \in V!Importance
      BY <3>3 DEF Judgement
    <3>. HIDE DEF q
    <3>5. V!RuleReuseVerdict(e, q) = V!Row(e, "rule-reuse", q.importance, q.wake, FALSE, "")
      BY <3>4 DEF V!RuleReuseVerdict, V!Answered
    <3>6. /\ V!RuleReuseVerdict(e, q) \in Judgement /\ V!RuleReuseVerdict(e, q).rule = V!RuleKey(e)
          /\ V!RuleReuseVerdict(e, q).route # "ai" /\ V!RuleReuseVerdict(e, q).wake = q.wake
      <4>1. PICK importance \in V!Importance, wake \in {"yes", "no", ""} :
              importance = q.importance /\ wake = q.wake
        BY <3>4
      <4>2. V!Row(e, "rule-reuse", importance, wake, FALSE, "") \in Judgement
        BY RecoveryIsBoolean DEF V!Row, Judgement
      <4>3. /\ V!Row(e, "rule-reuse", importance, wake, FALSE, "").rule = V!RuleKey(e)
            /\ V!Row(e, "rule-reuse", importance, wake, FALSE, "").route # "ai"
            /\ V!Row(e, "rule-reuse", importance, wake, FALSE, "").wake = wake
        BY DEF V!Row
      <4>. QED
        BY <3>5, <4>1, <4>2, <4>3
    <3>7. MayFollow(V!RuleReuseVerdict(e, q))
      BY <3>2, <3>6 DEF MayFollow, q
    <3>. QED
      BY <1>2, <1>a, <2>0, <2>4, <3>2, <3>6, <3>7 DEF q
  <2>5. CASE /\ asking' = [asking EXCEPT ![s] = [event |-> e, dialect |-> V!Opening, attempt |-> 1]]
             /\ UNCHANGED verdicts
    <3>1. [event |-> e, dialect |-> V!Opening, attempt |-> 1] \in Asking
      BY <1>a, OpeningDialect DEF Asking
    <3>. QED
      BY <1>1, <1>a, <2>0, <2>5, <3>1
  <2>. QED
    BY <2>1, <2>2, <2>3, <2>4, <2>5
<1>8. ASSUME NEW s \in Slots, V!Stumbles(s) PROVE VerdictInv'
  <2>1. asking[s] \in Asking /\ UNCHANGED pin
    BY <1>4, <1>8 DEF V!Stumbles
  <2>2. asking[s].event \in Events /\ asking[s].attempt \in Nat
    BY <2>1 DEF Asking
  <2>3. \/ asking' = [asking EXCEPT ![s] = [asking[s] EXCEPT !.attempt = asking[s].attempt + 1]]
           /\ UNCHANGED verdicts
        \/ V!Over(s, V!RuleVerdict(asking[s].event, FALSE))
    BY <1>8 DEF V!Stumbles
  <2>4. [asking[s] EXCEPT !.attempt = asking[s].attempt + 1] \in Asking
    BY <2>1 DEF Asking
  <2>. QED
    BY <1>1, <1>3, <1>a, <2>1, <2>2, <2>3, <2>4, FloorFollows
<1>9. ASSUME NEW s \in Slots, V!Refused(s) PROVE VerdictInv'
  <2>1. asking[s].event \in Events /\ UNCHANGED pin
    BY <1>4, <1>9 DEF V!Refused, Asking
  <2>. QED
    BY <1>3, <1>9, <1>a, <2>1, FloorFollows DEF V!Refused
<1>10. ASSUME NEW s \in Slots, V!StepDown(s) PROVE VerdictInv'
  <2>1. asking[s] \in Asking /\ UNCHANGED pin
    BY <1>4, <1>10 DEF V!StepDown
  <2>2. asking[s].event \in Events /\ asking[s].dialect \in 0..3
    BY <2>1 DEF Asking
  <2>3. \/ /\ asking[s].dialect < 3 /\ UNCHANGED verdicts
           /\ asking' = [asking EXCEPT ![s] = [asking[s] EXCEPT !.dialect = asking[s].dialect + 1]]
        \/ V!Over(s, V!RuleVerdict(asking[s].event, FALSE))
    BY <1>10 DEF V!StepDown, V!Dialects
  <2>4. asking[s].dialect < 3 => [asking[s] EXCEPT !.dialect = asking[s].dialect + 1] \in Asking
    BY <2>1, <2>2 DEF Asking
  <2>. QED
    BY <1>1, <1>3, <1>a, <2>1, <2>2, <2>3, <2>4, FloorFollows
<1>11. ASSUME NEW s \in Slots, V!Answers(s) PROVE VerdictInv'
  <2>1. asking[s].event \in Events /\ asking[s].dialect \in 0..3
    BY <1>4, <1>11 DEF V!Answers, Asking
  <2>2. pin' \in [dialect : 0..3, age : Nat]
    BY <1>11, <2>1 DEF V!Answers
  <2>3. CASE V!Over(s, V!RuleVerdict(asking[s].event, TRUE))
    BY <1>3, <2>1, <2>2, <2>3, FloorFollows
  <2>4. ASSUME NEW importance \in {"high", "grave"}, NEW wake \in {"yes", "no", ""},
               V!Over(s, V!Row(asking[s].event, "ai", V!Normalized(importance), V!Answered(wake), TRUE, wake))
        PROVE  VerdictInv'
    <3>1. V!Normalized(importance) \in V!Importance
      BY DEF V!Normalized, V!Importance
    <3>2. V!Answered(wake) = wake
      BY DEF V!Answered
    <3>. DEFINE w == V!Row(asking[s].event, "ai", V!Normalized(importance), wake, TRUE, wake)
    <3>3. w \in Judgement /\ w.route = "ai" /\ w.wake = wake /\ w.said = wake
      BY <2>1, <3>1, RecoveryIsBoolean DEF V!Row, Judgement
    <3>4. V!Over(s, w)
      BY <2>4, <3>2
    <3>. HIDE DEF w
    <3>5. MayFollow(w)
      BY <3>3 DEF MayFollow
    <3>. QED
      BY <1>3, <2>2, <3>3, <3>4, <3>5
  <2>. QED
    BY <1>11, <2>3, <2>4 DEF V!Answers
<1>. QED
  BY <1>5, <1>6, <1>7, <1>8, <1>9, <1>10, <1>11 DEF V!VerdictNext

\* However answers are reused, along conditions and along rules, an alert is held
\* back from people only on a model's word.
THEOREM VerdictIsAnswered == NodeSpec => []QuietWasAnswered
<1>. DEFINE I == part = "verdict" => VerdictInv
<1>1. NodeInit => I
  BY VerdictInit DEF NodeInit
<1>2. I /\ [NodeNext]_nodeVars => I'
  BY VerdictStep, StepOfPart
<1>3. I => QuietWasAnswered
  BY DEF QuietWasAnswered, V!QuietWasAnswered, V!Outgoing, VerdictInv, OnAWord
<1>. QED
  BY <1>1, <1>2, <1>3, PTL DEF NodeSpec
-----------------------------------------------------------------------------
(***************************************************************************)
(* Library: what history holds of the manifest a write displaces.          *)
(***************************************************************************)
\* A manifest: its cases, and how often a hand changed it.
Manifest == [cases : Seq(Sessions), hand : Nat]

\* The values the manifest, its history and what is under way take.
LibraryType ==
    /\ manifest \in {Nothing} \cup Manifest
    /\ history \in Seq(Manifest)
    /\ proposal \in {Nothing, Outdated} \cup Manifest
    /\ draft \in {Nothing, Unread} \cup Manifest
    /\ page \in {Nothing} \cup Manifest
    /\ saves \in Nat

\* The first of a manifest's cases are cases.
LEMMA NewestCases ==
  ASSUME NEW s \in Seq(Sessions), NEW n \in Nat
  PROVE  L!Newest(s, n) \in Seq(Sessions)
BY DEF L!Newest

\* A snapshot puts the version last.
LEMMA SnapshotEnds ==
  ASSUME NEW h \in Seq(Manifest), NEW m \in Manifest
  PROVE  /\ L!Snapshot(h, m) \in Seq(Manifest) /\ Len(L!Snapshot(h, m)) >= 1
         /\ L!Snapshot(h, m)[Len(L!Snapshot(h, m))] = m
         /\ L!Contains(L!Snapshot(h, m), m)
<1>0. Keep \in Nat \ {0, 1}
  BY NodeAssumption DEF L!LibraryAssumption
<1>1. L!Snapshot(h, m) \in Seq(Manifest) /\ Len(L!Snapshot(h, m)) \in Nat \ {0}
      /\ L!Snapshot(h, m)[Len(L!Snapshot(h, m))] = m
  BY <1>0 DEF L!Snapshot
<1>. QED
  BY <1>1 DEF L!Contains

\* The next snapshot lets the oldest version go, which is not the last.
LEMMA SnapshotKeepsTheLast ==
  ASSUME NEW h \in Seq(Manifest), NEW n \in Manifest, Len(h) >= 1
  PROVE  L!Contains(L!Snapshot(h, n), h[Len(h)])
<1>0. Keep \in Nat \ {0, 1}
  BY NodeAssumption DEF L!LibraryAssumption
<1>1. CASE Len(h) < Keep
  <2>1. Len(h) \in 1..Len(Append(h, n)) /\ Append(h, n)[Len(h)] = h[Len(h)]
    OBVIOUS
  <2>. QED
    BY <1>1, <2>1 DEF L!Snapshot, L!Contains
<1>2. CASE ~(Len(h) < Keep)
  <2>1. Len(h) >= 2 /\ Tail(h) \in Seq(Manifest) /\ Len(Tail(h)) = Len(h) - 1
    BY <1>0, <1>2
  <2>2. Tail(h)[Len(h) - 1] = h[Len(h)]
    BY <2>1
  <2>3. /\ Len(h) - 1 \in 1..Len(Append(Tail(h), n))
        /\ Append(Tail(h), n)[Len(h) - 1] = Tail(h)[Len(h) - 1]
    BY <2>1
  <2>. QED
    BY <1>2, <2>2, <2>3 DEF L!Snapshot, L!Contains
<1>. QED
  BY <1>1, <1>2

\* A manifest of one more case is one.
LEMMA MergedIsManifest ==
  ASSUME LibraryType, NEW s \in Sessions PROVE L!Merged(s) \in Manifest
<1>0. MaxCases \in Nat
  BY NodeAssumption DEF L!LibraryAssumption
<1>1. CASE manifest = Nothing
  BY <1>1 DEF L!Merged, Manifest
<1>2. CASE manifest # Nothing
  <2>1. manifest \in Manifest /\ manifest.cases \in Seq(Sessions)
    BY <1>2 DEF LibraryType, Manifest
  <2>2. <<s>> \o manifest.cases \in Seq(Sessions)
    BY <2>1
  <2>3. L!Newest(<<s>> \o manifest.cases, MaxCases) \in Seq(Sessions)
    BY <1>0, <2>2, NewestCases
  <2>4. L!Merged(s) = [manifest EXCEPT !.cases = L!Newest(<<s>> \o manifest.cases, MaxCases)]
    BY <1>2 DEF L!Merged
  <2>. QED
    BY <2>1, <2>3, <2>4 DEF Manifest
<1>. QED
  BY <1>1, <1>2

\* An empty library holds nothing but an old draft.
LEMMA LibraryInit == L!LibraryInit => LibraryType
<1>1. L!Parked \in Manifest
  BY DEF L!Parked, Manifest
<1>. QED
  BY <1>1 DEF L!LibraryInit, LibraryType

\* What a step keeps of the displaced manifest.
Kept == manifest # Nothing /\ manifest' # manifest => L!Contains(history', manifest) \/ L!Forget

\* Every door that writes takes its snapshot first.
LEMMA LibraryStep ==
  ASSUME LibraryType, L!LibraryNext \/ UNCHANGED libraryVars
  PROVE  LibraryType' /\ Kept
<1>0. Keep \in Nat \ {0, 1}
  BY NodeAssumption DEF L!LibraryAssumption
<1>a. /\ manifest \in {Nothing} \cup Manifest /\ history \in Seq(Manifest)
      /\ proposal \in {Nothing, Outdated} \cup Manifest
      /\ draft \in {Nothing, Unread} \cup Manifest /\ page \in {Nothing} \cup Manifest
      /\ saves \in Nat
  BY DEF LibraryType
<1>1. ASSUME UNCHANGED <<manifest, history>>, proposal' \in {Nothing, Outdated} \cup Manifest,
             draft' \in {Nothing, Unread} \cup Manifest, page' \in {Nothing} \cup Manifest,
             saves' \in Nat
      PROVE  LibraryType' /\ Kept
  BY <1>1, <1>a DEF LibraryType, Kept
<1>2. ASSUME manifest # Nothing, history' = L!Snapshot(history, manifest),
             manifest' \in {Nothing} \cup Manifest,
             proposal' \in {Nothing, Outdated} \cup Manifest,
             draft' \in {Nothing, Unread} \cup Manifest, page' \in {Nothing} \cup Manifest,
             saves' \in Nat
      PROVE  LibraryType' /\ Kept
  <2>1. history' \in Seq(Manifest) /\ L!Contains(history', manifest)
    BY <1>2, <1>a, SnapshotEnds
  <2>. QED
    BY <1>2, <2>1 DEF LibraryType, Kept
<1>3. ASSUME NEW s \in Sessions, L!Distill(s) PROVE LibraryType' /\ Kept
  <2>. DEFINE grownBy == L!SnapshotOf(history, manifest)
  <2>1. /\ \/ /\ proposal \notin {Nothing, Outdated} /\ manifest' = proposal
              /\ history' = L!Snapshot(grownBy, L!Merged(s))
           \/ manifest' = L!Merged(s) /\ history' = grownBy
        /\ draft' = Unread \/ draft' = draft
        /\ proposal' = Nothing /\ UNCHANGED <<page, saves>>
    BY <1>3 DEF L!Distill
  <2>2. L!Merged(s) \in Manifest
    BY MergedIsManifest
  <2>3. /\ grownBy \in Seq(Manifest)
        /\ manifest # Nothing => /\ Len(grownBy) >= 1 /\ grownBy[Len(grownBy)] = manifest
                                 /\ L!Contains(grownBy, manifest)
    BY <1>a, SnapshotEnds DEF L!SnapshotOf
  <2>. HIDE DEF grownBy
  <2>4. history' \in Seq(Manifest) /\ manifest' \in Manifest
    BY <1>a, <2>1, <2>2, <2>3, SnapshotEnds
  <2>5. manifest # Nothing => L!Contains(history', manifest)
    BY <2>1, <2>2, <2>3, SnapshotKeepsTheLast
  <2>. QED
    BY <1>a, <2>1, <2>4, <2>5 DEF LibraryType, Kept
<1>4. CASE L!DraftReads \/ L!DraftRefused \/ L!DraftRunFails \/ L!OpenPage \/ L!Review \/ L!Reject
  BY <1>1, <1>4, <1>a DEF L!DraftReads, L!DraftRefused, L!DraftRunFails, L!OpenPage, L!Review, L!Reject
<1>5. CASE L!DraftLands
  <2>1. draft \in Manifest /\ draft.cases \in Seq(Sessions) /\ draft.hand \in Nat
    BY <1>5, <1>a DEF L!DraftLands, Manifest
  <2>2. L!Newest(draft.cases, 1) \in Seq(Sessions)
    BY <2>1, NewestCases
  <2>3. L!Consolidated \in Manifest
    BY <2>1, <2>2 DEF L!Consolidated, Manifest
  <2>. QED
    BY <1>2, <1>5, <1>a, <2>3 DEF L!DraftLands
<1>6. ASSUME NEW s \in Sessions, NEW v \in {"none", "useful", "useless"}, L!Rule(s, v)
      PROVE  LibraryType' /\ Kept
  <2>1. /\ UNCHANGED <<proposal, draft, page, saves>>
        /\ \/ manifest # Nothing /\ history' = L!Snapshot(history, manifest) /\ manifest' = Nothing
           \/ UNCHANGED <<manifest, history>>
    BY <1>6 DEF L!Rule, L!HasCaseOf
  <2>. QED
    BY <1>1, <1>2, <1>a, <2>1
<1>7. CASE L!SaveEdit
  <2>1. /\ saves' = saves + 1 /\ page' = manifest' /\ UNCHANGED <<proposal, draft>>
        /\ manifest' = IF page = Nothing THEN [cases |-> <<>>, hand |-> saves'] ELSE [page EXCEPT !.hand = saves']
        /\ history' = IF manifest = Nothing THEN history ELSE L!Snapshot(history, manifest)
    BY <1>7 DEF L!SaveEdit, L!SnapshotOf
  <2>2. saves' \in Nat
    BY <1>a, <2>1
  <2>3. manifest' \in Manifest
    <3>1. CASE page = Nothing
      BY <2>1, <2>2, <3>1 DEF Manifest
    <3>2. CASE page # Nothing
      <4>1. page \in Manifest
        BY <1>a, <3>2
      <4>. QED
        BY <2>1, <2>2, <3>2, <4>1 DEF Manifest
    <3>. QED
      BY <3>1, <3>2
  <2>4. CASE manifest = Nothing
    BY <1>a, <2>1, <2>2, <2>3, <2>4 DEF LibraryType, Kept
  <2>5. CASE manifest # Nothing
    BY <1>2, <1>a, <2>1, <2>2, <2>3, <2>5
  <2>. QED
    BY <2>4, <2>5
<1>8. ASSUME NEW i \in 1..Len(history), L!Restore(i) PROVE LibraryType' /\ Kept
  <2>1. history[i] \in Manifest
    BY <1>a
  <2>2. /\ manifest # Nothing /\ history' = L!Snapshot(history, manifest)
        /\ manifest' = manifest \/ manifest' = history[i]
        /\ UNCHANGED <<proposal, draft, page, saves>>
    BY <1>8 DEF L!Restore
  <2>. QED
    BY <1>2, <1>a, <2>1, <2>2
<1>9. CASE L!Approve
  <2>1. L!Parked \in Manifest
    BY DEF L!Parked, Manifest
  <2>2. /\ manifest # Nothing /\ history' = L!Snapshot(history, manifest)
        /\ manifest' \in Manifest /\ proposal' = Nothing
        /\ UNCHANGED <<draft, page, saves>>
    BY <1>9, <1>a, <2>1 DEF L!Approve
  <2>. QED
    BY <1>2, <1>a, <2>2
<1>10. CASE L!Forget
  <2>1. /\ manifest' = Nothing /\ history' = <<>> /\ proposal' = Nothing
        /\ UNCHANGED <<draft, page, saves>>
    BY <1>10 DEF L!Forget
  <2>2. Kept
    BY <1>10 DEF Kept
  <2>. QED
    BY <1>a, <2>1, <2>2 DEF LibraryType
<1>11. CASE UNCHANGED libraryVars
  BY <1>1, <1>11, <1>a DEF libraryVars
<1>. QED
  BY <1>3, <1>4, <1>5, <1>6, <1>7, <1>8, <1>9, <1>10, <1>11 DEF L!LibraryNext

\* Whoever replaces or withdraws a manifest, its text is in history afterwards,
\* however full history was; only the delete takes it away.
THEOREM LibraryDestroysNothing == NodeSpec => NothingIsDestroyed
<1>. DEFINE I == part = "library" => LibraryType
<1>1. NodeInit => I
  BY LibraryInit DEF NodeInit
<1>2. I /\ [NodeNext]_nodeVars => I'
  <2>. SUFFICES ASSUME I, [NodeNext]_nodeVars, part' = "library" PROVE LibraryType'
    OBVIOUS
  <2>. QED
    BY LibraryStep, StepOfPart
<1>3. I /\ [NodeNext]_nodeVars => [Kept]_(L!libraryVars)
  <2>. SUFFICES ASSUME I, [NodeNext]_nodeVars PROVE Kept \/ UNCHANGED L!libraryVars
    OBVIOUS
  <2>1. CASE part = "library"
    BY <2>1, LibraryStep, StepOfPart
  <2>2. CASE part # "library"
    BY <2>2, StepOfPart DEF libraryVars, L!libraryVars
  <2>. QED
    BY <2>1, <2>2
<1>. QED
  BY <1>1, <1>2, <1>3, PTL DEF NodeSpec, NothingIsDestroyed, L!NothingIsDestroyed, Kept
-----------------------------------------------------------------------------
(***************************************************************************)
(* Memory: what a run asks to remember.                                    *)
(***************************************************************************)
\* A line a person accepted.
Approved(line) == \E id \in DOMAIN filed : filed[id] = line /\ answered[id] = "accepted"

\* The text of a memory file: of no line does it say more than is true.
Sections == [heading : {M!Learned, M!Observed}, lines : SUBSET Lines]
Vouched(text) ==
    /\ text \in Seq(Sections)
    /\ \A k \in DOMAIN text : \A line \in text[k].lines :
          IF text[k].heading = M!Observed THEN line \in Safe ELSE Approved(line)

\* A write somebody has still to make.
Tasks == [kind : {"observe", "file", "learn", "accepted", "dismissed"}, lines : Seq(Lines), row : Nat]
Sound(task) ==
    /\ task \in Tasks
    /\ task.kind = "observe" => task.lines # <<>> /\ task.lines[1] \in Safe
    /\ task.kind = "learn" => task.lines # <<>> /\ Approved(task.lines[1])

Due(tasks) == \A k \in DOMAIN tasks : Sound(tasks[k])

\* The queue holds every row that was filed, in order, as it was answered.
Rows(q) ==
    /\ q = [k \in 1..Len(filed) |-> [id |-> k, line |-> filed[k], status |-> answered[k]]]
    /\ Cardinality(M!Open(q)) <= QueueCap

\* Whoever holds the queue read what is in it, and nobody else holds it.
Locked ==
    \A w \in Writers : M!Holds(w, "queue") =>
        view[w] = queue /\ \A v \in Writers \ {w} : ~M!Holds(v, "queue")

MemoryInv ==
    /\ filed \in Seq(Lines) /\ answered \in Seq({"open", "accepted", "dismissed"})
    /\ Len(answered) = Len(filed)
    /\ Rows(queue) /\ Vouched(memory) /\ (screen # Unread => Vouched(screen))
    /\ doing \in [Writers -> Seq(Tasks)] /\ \A w \in Writers : Due(doing[w])
    /\ DOMAIN view = Writers
    /\ \A w \in Writers : view[w] # Unread => doing[w] # <<>>
    /\ \A w \in Writers : M!Holds(w, "memory") => Vouched(view[w])
    /\ Locked

\* The memory counts as the library does.
LEMMA SameCount == ASSUME NEW T PROVE M!Cardinality(T) = Cardinality(T)
BY DEF M!Cardinality, Cardinality

\* Some places among n.
LEMMA SomeOf ==
  ASSUME NEW n \in Nat, NEW I \in SUBSET (1..n)
  PROVE  /\ IsFiniteSet(I) /\ Cardinality(I) \in Nat
         /\ \A i \in I : i \in Nat /\ 1 <= i /\ i <= n
<1>1. IsFiniteSet(1..n)
  BY FS_Interval
<1>2. IsFiniteSet(I)
  BY <1>1, FS_Subset
<1>3. \A i \in I : i \in 1..n
  OBVIOUS
<1>. QED
  BY <1>2, <1>3, FS_CardinalityType

\* Some places among n, counted from the first: every count up to all of them is met.
LEMMA CountIsMet ==
  ASSUME NEW n \in Nat, NEW I \in SUBSET (1..n), NEW k \in 1..Cardinality(I)
  PROVE  \E j \in I : Cardinality({i \in I : i <= j}) = k
<1>. DEFINE Below(j) == {i \in I : i <= j}
            Enough == {j \in 1..n : Cardinality(Below(j)) >= k}
<1>1. /\ IsFiniteSet(I) /\ Cardinality(I) \in Nat
      /\ \A i \in I : i \in Nat /\ 1 <= i /\ i <= n
  BY SomeOf
<1>2. ASSUME NEW j \in Int PROVE IsFiniteSet(Below(j)) /\ Cardinality(Below(j)) \in Nat
  <2>1. Below(j) \in SUBSET I
    OBVIOUS
  <2>. QED
    BY <1>1, <2>1, FS_Subset, FS_CardinalityType
<1>3. n \in Enough
  <2>1. Below(n) = I
    BY <1>1
  <2>2. I # {}
    BY <1>1, FS_EmptySet
  <2>3. n \in 1..n
    <3>1. PICK i \in I : TRUE
      BY <2>2
    <3>2. i \in Nat /\ 1 <= i /\ i <= n
      BY <1>1
    <3>. QED
      BY <3>2
  <2>4. Cardinality(I) >= k
    BY <1>1
  <2>. QED
    BY <2>1, <2>3, <2>4
<1>4. PICK j \in Enough : \A i \in Enough : j <= i
  <2>1. Enough \subseteq Nat
    OBVIOUS
  <2>. QED
    BY <1>3, <2>1, SmallestOf
<1>5. j \in 1..n /\ Cardinality(Below(j)) >= k
  OBVIOUS
<1>. HIDE DEF Below
<1>6. Cardinality(Below(j - 1)) < k
  <2>1. CASE j = 1
    <3>1. \A i \in I : ~(i <= j - 1)
      BY <1>1, <2>1
    <3>2. Below(j - 1) = {}
      BY <3>1 DEF Below
    <3>. QED
      BY <1>1, <3>2, FS_EmptySet
  <2>2. CASE j # 1
    <3>1. j - 1 \in 1..n /\ ~(j <= j - 1)
      BY <1>5, <2>2
    <3>2. j - 1 \notin Enough
      BY <1>4, <3>1
    <3>3. Cardinality(Below(j - 1)) \in Nat
      BY <1>2, <3>1
    <3>. QED
      BY <1>1, <3>1, <3>2, <3>3
  <2>. QED
    BY <2>1, <2>2
<1>7. j \in I
  <2>1. SUFFICES ASSUME j \notin I PROVE FALSE
    OBVIOUS
  <2>2. Below(j) = Below(j - 1)
    <3>1. \A i \in I : i <= j <=> i <= j - 1
      BY <1>1, <1>5, <2>1
    <3>. QED
      BY <3>1 DEF Below
  <2>3. Cardinality(Below(j)) \in Nat
    BY <1>2, <1>5
  <2>. QED
    BY <1>1, <1>5, <1>6, <2>2, <2>3
<1>8. Cardinality(Below(j)) = Cardinality(Below(j - 1)) + 1
  <2>1. Below(j) = Below(j - 1) \cup {j} /\ j \notin Below(j - 1)
    <3>1. \A i \in I : i <= j <=> i <= j - 1 \/ i = j
      BY <1>1, <1>5
    <3>2. j <= j /\ ~(j <= j - 1)
      BY <1>5
    <3>. QED
      BY <1>7, <3>1, <3>2 DEF Below
  <2>2. IsFiniteSet(Below(j - 1))
    BY <1>2, <1>5
  <2>. QED
    BY <2>1, <2>2, FS_AddElement
<1>9. Cardinality(Below(j)) = k
  <2>1. Cardinality(Below(j - 1)) \in Nat
    BY <1>2, <1>5
  <2>. QED
    BY <1>1, <1>5, <1>6, <1>8, <2>1
<1>. QED
  BY <1>7, <1>9 DEF Below

\* The lines at some places are lines at those places.
LEMMA LinesAt ==
  ASSUME NEW text \in Seq(Lines), NEW I \in SUBSET (DOMAIN text)
  PROVE  /\ M!At(text, I) \in Seq(Lines)
         /\ \A k \in DOMAIN M!At(text, I) : \E j \in I : M!At(text, I)[k] = text[j]
<1>1. Len(text) \in Nat /\ DOMAIN text = 1..Len(text)
  OBVIOUS
<1>2. IsFiniteSet(I) /\ Cardinality(I) \in Nat
  BY <1>1, SomeOf
<1>. DEFINE Place(k) == CHOOSE j \in I : Cardinality({i \in I : i <= j}) = k
<1>3. M!At(text, I) = [k \in 1..Cardinality(I) |-> text[Place(k)]]
  BY DEF M!At, M!Cardinality, Cardinality
<1>4. ASSUME NEW k \in 1..Cardinality(I) PROVE Place(k) \in I
  BY <1>1, CountIsMet
<1>. HIDE DEF Place
<1>5. \A k \in 1..Cardinality(I) : Place(k) \in DOMAIN text /\ text[Place(k)] \in Lines
  BY <1>1, <1>4
<1>. QED
  BY <1>2, <1>3, <1>4, <1>5

\* The smaller and the larger of two numbers.
LEMMA OfTwo ==
  ASSUME NEW a \in Int, NEW b \in Int
  PROVE  /\ M!Min({a, b}) = IF a <= b THEN a ELSE b
         /\ M!Max({a, b}) = IF a <= b THEN b ELSE a
<1>1. M!Min({a, b}) = CHOOSE x \in {a, b} : \A y \in {a, b} : x <= y
  BY DEF M!Min
<1>2. M!Max({a, b}) = CHOOSE x \in {a, b} : \A y \in {a, b} : x >= y
  BY DEF M!Max
<1>3. \E x \in {a, b} : \A y \in {a, b} : x <= y
  OBVIOUS
<1>4. \E x \in {a, b} : \A y \in {a, b} : x >= y
  OBVIOUS
<1>. QED
  BY <1>1, <1>2, <1>3, <1>4

\* One list after another.
Both(s, u) == s \o u

\* It is t, of n and m lines.
Appended(t, s, u, n, m) ==
    /\ Len(t) = n + m /\ t = [k \in 1..(n + m) |-> t[k]]
    /\ \A k \in 1..(n + m) : t[k] = IF k <= n THEN s[k] ELSE u[k - n]

LEMMA Joined ==
  ASSUME NEW T, NEW s \in Seq(T), NEW u \in Seq(T), NEW n \in Nat, NEW m \in Nat,
         Len(s) = n, Len(u) = m
  PROVE  Both(s, u) \in Seq(T) /\ Appended(Both(s, u), s, u, n, m)
<1>1. s \o u \in Seq(T) /\ Len(s \o u) = n + m
  OBVIOUS
<1>2. \A k \in 1..(n + m) : (s \o u)[k] = IF k <= n THEN s[k] ELSE u[k - n]
  OBVIOUS
<1>3. PICK t \in Seq(T) : t = s \o u
  BY <1>1
<1>4. t = [k \in 1..Len(t) |-> t[k]]
  OBVIOUS
<1>5. t = Both(s, u)
  BY <1>3 DEF Both
<1>6. \A k \in 1..(n + m) : t[k] = IF k <= n THEN s[k] ELSE u[k - n]
  BY <1>2, <1>3
<1>7. Len(t) = n + m
  BY <1>1, <1>3
<1>8. Appended(t, s, u, n, m)
  BY <1>4, <1>6, <1>7 DEF Appended
<1>. QED
  BY <1>3, <1>5, <1>8

\* The first lines of a list.
LEMMA FirstLines ==
  ASSUME NEW text \in Seq(Lines), NEW m \in Nat, m <= Len(text)
  PROVE  SubSeq(text, 1, m) \in Seq(Lines) /\ Len(SubSeq(text, 1, m)) = m
<1>1. Len(text) \in Nat /\ DOMAIN text = 1..Len(text) /\ \A k \in 1..Len(text) : text[k] \in Lines
  OBVIOUS
<1>2. SubSeq(text, 1, m) = [k \in 1..m |-> text[k]]
  BY <1>1
<1>3. \A k \in 1..m : text[k] \in Lines
  BY <1>1
<1>4. [k \in 1..m |-> text[k]] \in Seq(Lines) /\ Len([k \in 1..m |-> text[k]]) = m
  BY <1>3
<1>. QED
  BY <1>2, <1>4

\* What a report is read for is a list of lines.
LEMMA ExtractOfLines ==
  ASSUME NEW text \in Seq(Lines)
  PROVE  M!Extract(text) \in Seq(Lines)
<1>. DEFINE unique == M!At(text, M!Firsts(text))
<1>1. unique \in Seq(Lines)
  <2>1. M!Firsts(text) \in SUBSET (DOMAIN text)
    BY DEF M!Firsts
  <2>. QED
    BY <2>1, LinesAt
<1>. HIDE DEF unique
<1>2. PICK m \in Nat : m = M!Min({PerRun, Len(unique)}) /\ m <= Len(unique)
  <2>1. PerRun \in Nat
    BY NodeAssumption DEF M!MemoryAssumption
  <2>2. Len(unique) \in Nat
    BY <1>1
  <2>. QED
    BY <2>1, <2>2, OfTwo
<1>3. SubSeq(unique, 1, m) \in Seq(Lines)
  BY <1>1, <1>2, FirstLines
<1>. QED
  BY <1>2, <1>3 DEF M!Extract, unique

-----------------------------------------------------------------------------
\* What is filed stays filed, and what was accepted stays accepted.
Lasting ==
    \A id \in DOMAIN filed :
        /\ id \in DOMAIN filed' /\ filed'[id] = filed[id]
        /\ answered[id] = "accepted" => answered'[id] = "accepted"

LEMMA VouchedLasts == ASSUME Lasting, NEW text, Vouched(text) PROVE Vouched(text)'
BY DEF Lasting, Vouched, Approved, Sections

LEMMA DueLasts == ASSUME Lasting, NEW tasks, Due(tasks) PROVE Due(tasks)'
BY DEF Lasting, Due, Sound, Approved, Tasks

\* Nothing is filed, and nobody does anything.
LEMMA MemoryStarts == M!MemoryInit => MemoryInv
<1>. SUFFICES ASSUME M!MemoryInit PROVE MemoryInv
  OBVIOUS
<1>1. /\ queue = <<>> /\ memory = <<>> /\ screen = Unread /\ filed = <<>> /\ answered = <<>>
      /\ doing = [w \in Writers |-> <<>>] /\ view = [w \in Writers |-> Unread]
  BY DEF M!MemoryInit
<1>2. Rows(queue)
  <2>1. M!Open(queue) = {}
    BY <1>1 DEF M!Open
  <2>2. Cardinality(M!Open(queue)) <= QueueCap
    BY <2>1, FS_EmptySet, NodeAssumption DEF M!MemoryAssumption
  <2>. QED
    BY <1>1, <2>2 DEF Rows
<1>3. Vouched(memory)
  BY <1>1 DEF Vouched
<1>4. \A w \in Writers : Due(doing[w]) /\ ~M!Holds(w, "queue") /\ ~M!Holds(w, "memory")
  BY <1>1 DEF Due, M!Holds
<1>. QED
  BY <1>1, <1>2, <1>3, <1>4 DEF MemoryInv, Locked

\* Somebody takes up work who had none, and no file changes.
LEMMA TakesUp ==
  ASSUME MemoryInv, NEW w \in Writers, doing[w] = <<>>,
         UNCHANGED <<queue, memory, screen, filed, answered, view>>,
         NEW tasks \in Seq(Tasks), Due(tasks), doing' = [doing EXCEPT ![w] = tasks]
  PROVE  MemoryInv'
<1>1. view[w] = Unread
  BY DEF MemoryInv
<1>2. \A v \in Writers : doing'[v] = IF v = w THEN tasks ELSE doing[v]
  BY DEF MemoryInv
<1>3. ASSUME NEW v \in Writers, NEW f PROVE M!Holds(v, f)' => M!Holds(v, f) /\ v # w
  BY <1>1, <1>2 DEF M!Holds, M!File
<1>4. Lasting
  BY DEF Lasting
<1>5. \A v \in Writers : Due(doing[v])'
  <2>1. ASSUME NEW v \in Writers PROVE Due(doing[v])'
    <3>1. PICK x : x = IF v = w THEN tasks ELSE doing[v]
      OBVIOUS
    <3>2. Due(x)
      BY <3>1 DEF MemoryInv
    <3>3. Due(x)'
      BY <1>4, <3>2, DueLasts
    <3>. QED
      BY <1>2, <3>1, <3>3
  <2>. QED
    BY <2>1
<1>6. doing' \in [Writers -> Seq(Tasks)]
  BY DEF MemoryInv
<1>7. Locked'
  BY <1>3 DEF MemoryInv, Locked
<1>8. Rows(queue)' /\ Vouched(memory)' /\ (screen # Unread => Vouched(screen))'
  BY DEF MemoryInv, Rows, Vouched, Approved
<1>9. \A v \in Writers : (M!Holds(v, "memory") => Vouched(view[v]))'
  BY <1>3 DEF MemoryInv, Vouched, Approved
<1>10. \A v \in Writers : view'[v] # Unread => doing'[v] # <<>>
  BY <1>1, <1>2 DEF MemoryInv
<1>. QED
  BY <1>5, <1>6, <1>7, <1>8, <1>9, <1>10 DEF MemoryInv

\* Somebody lets the lock go, with what is left to do.
LEMMA LetsGo ==
  ASSUME MemoryInv, NEW w \in Writers, Lasting,
         NEW left \in Seq(Tasks), Due(left)',
         doing' = [doing EXCEPT ![w] = left], view' = [view EXCEPT ![w] = Unread],
         filed' \in Seq(Lines), answered' \in Seq({"open", "accepted", "dismissed"}),
         Len(answered') = Len(filed'),
         queue' = queue \/ M!Holds(w, "queue"),
         Rows(queue)', Vouched(memory)', screen' = screen
  PROVE  MemoryInv'
<1>1. \A v \in Writers : /\ doing'[v] = IF v = w THEN left ELSE doing[v]
                         /\ view'[v] = IF v = w THEN Unread ELSE view[v]
  BY DEF MemoryInv
<1>2. ASSUME NEW v \in Writers, NEW f PROVE M!Holds(v, f)' => M!Holds(v, f) /\ v # w
  BY <1>1 DEF M!Holds, M!File
<1>3. \A v \in Writers : Due(doing[v])'
  <2>1. ASSUME NEW v \in Writers PROVE Due(doing[v])'
    <3>1. CASE v = w
      BY <1>1, <3>1
    <3>2. CASE v # w
      <4>1. PICK x : x = doing[v]
        OBVIOUS
      <4>2. Due(x)'
        BY <4>1, DueLasts DEF MemoryInv
      <4>. QED
        BY <1>1, <3>2, <4>1, <4>2
    <3>. QED
      BY <3>1, <3>2
  <2>. QED
    BY <2>1
<1>4. doing' \in [Writers -> Seq(Tasks)] /\ DOMAIN view' = Writers
  BY DEF MemoryInv
<1>5. Locked'
  <2>1. ASSUME NEW v \in Writers, M!Holds(v, "queue")' PROVE view'[v] = queue'
    <3>1. M!Holds(v, "queue") /\ v # w
      BY <1>2, <2>1
    <3>2. view[v] = queue /\ ~M!Holds(w, "queue")
      BY <3>1 DEF MemoryInv, Locked
    <3>. QED
      BY <1>1, <3>1, <3>2
  <2>2. ASSUME NEW v \in Writers, M!Holds(v, "queue")', NEW u \in Writers \ {v}
        PROVE  ~M!Holds(u, "queue")'
    BY <1>2, <2>2 DEF MemoryInv, Locked
  <2>. QED
    BY <2>1, <2>2 DEF Locked
<1>6. (screen # Unread => Vouched(screen))'
  <2>1. PICK x : x = screen
    OBVIOUS
  <2>2. x # Unread => Vouched(x)'
    BY <2>1, VouchedLasts DEF MemoryInv
  <2>. QED
    BY <2>1, <2>2
<1>7. \A v \in Writers : (M!Holds(v, "memory") => Vouched(view[v]))'
  <2>1. ASSUME NEW v \in Writers, M!Holds(v, "memory")' PROVE Vouched(view[v])'
    <3>1. M!Holds(v, "memory") /\ v # w
      BY <1>2, <2>1
    <3>2. PICK x : x = view[v]
      OBVIOUS
    <3>3. Vouched(x)'
      BY <3>1, <3>2, VouchedLasts DEF MemoryInv
    <3>. QED
      BY <1>1, <3>1, <3>2, <3>3
  <2>. QED
    BY <2>1
<1>8. \A v \in Writers : view'[v] # Unread => doing'[v] # <<>>
  BY <1>1 DEF MemoryInv
<1>. QED
  BY <1>3, <1>4, <1>5, <1>6, <1>7, <1>8 DEF MemoryInv

-----------------------------------------------------------------------------
\* A report asks for facts that cannot act, and for rows.
LEMMA SuggestKeeps ==
  ASSUME MemoryInv, NEW w \in Writers, NEW text \in Seq(Lines), M!Suggest(w, text)
  PROVE  MemoryInv'
<1>. DEFINE facts == M!Extract(text)
            safe  == M!At(facts, {k \in DOMAIN facts : M!Applied(facts[k])})
            rest  == M!At(facts, {k \in DOMAIN facts : ~M!Applied(facts[k])})
            observes == [k \in DOMAIN safe |-> M!Task("observe", <<safe[k]>>, 0)]
            files == IF rest = <<>> THEN <<>> ELSE <<M!Task("file", rest, 0)>>
<1>1. /\ doing[w] = <<>> /\ doing' = [doing EXCEPT ![w] = observes \o files]
      /\ UNCHANGED <<queue, memory, view, screen, filed, answered>>
  BY DEF M!Suggest
<1>2. facts \in Seq(Lines)
  BY ExtractOfLines
<1>. HIDE DEF facts
<1>3. safe \in Seq(Lines) /\ \A k \in DOMAIN safe : safe[k] \in Safe
  <2>1. {k \in DOMAIN facts : M!Applied(facts[k])} \in SUBSET (DOMAIN facts)
    OBVIOUS
  <2>2. \A j \in {k \in DOMAIN facts : M!Applied(facts[k])} : facts[j] \in Safe
    BY DEF M!Applied
  <2>. QED
    BY <1>2, <2>1, <2>2, LinesAt
<1>4. rest \in Seq(Lines)
  <2>1. {k \in DOMAIN facts : ~M!Applied(facts[k])} \in SUBSET (DOMAIN facts)
    OBVIOUS
  <2>. QED
    BY <1>2, <2>1, LinesAt
<1>. HIDE DEF safe, rest
<1>5. observes \in Seq(Tasks) /\ Due(observes)
  <2>1. \A k \in DOMAIN safe : /\ M!Task("observe", <<safe[k]>>, 0) \in Tasks
                               /\ Sound(M!Task("observe", <<safe[k]>>, 0))
    BY <1>3 DEF M!Task, Tasks, Sound
  <2>2. Len(safe) \in Nat /\ DOMAIN safe = 1..Len(safe)
    BY <1>3
  <2>. QED
    BY <2>1, <2>2 DEF Due
<1>6. files \in Seq(Tasks) /\ Due(files)
  <2>1. M!Task("file", rest, 0) \in Tasks /\ Sound(M!Task("file", rest, 0))
    BY <1>4 DEF M!Task, Tasks, Sound
  <2>. QED
    BY <2>1 DEF Due
<1>. HIDE DEF observes, files
<1>7. observes \o files \in Seq(Tasks) /\ Due(observes \o files)
  BY <1>5, <1>6 DEF Due
<1>. QED
  BY <1>1, <1>7, TakesUp

\* A person accepts a row, or dismisses it.
LEMMA AnswerKeeps ==
  ASSUME MemoryInv, NEW w \in Writers, NEW asked \in DOMAIN filed,
         M!Remember(w, asked) \/ M!Dismiss(w, asked)
  PROVE  MemoryInv'
<1>1. PICK d \in {"accepted", "dismissed"} : M!Answer(w, asked, d)
  BY DEF M!Remember, M!Dismiss
<1>2. PICK x : x = M!Task(d, <<>>, asked)
  OBVIOUS
<1>3. /\ doing[w] = <<>> /\ doing' = [doing EXCEPT ![w] = <<x>>]
      /\ UNCHANGED <<queue, memory, view, screen, filed, answered>>
  BY <1>1, <1>2 DEF M!Answer
<1>4. x \in Tasks /\ Sound(x)
  BY <1>2 DEF M!Task, Tasks, Sound, MemoryInv
<1>5. <<x>> \in Seq(Tasks) /\ Due(<<x>>)
  BY <1>4 DEF Due
<1>. QED
  BY <1>3, <1>5, TakesUp

\* Somebody reads a file whose lock is free.
LEMMA ReadKeeps ==
  ASSUME MemoryInv, NEW w \in Writers, M!Reads(w)
  PROVE  MemoryInv'
<1>1. PICK f : f = M!File(Head(doing[w]))
  OBVIOUS
<1>2. /\ doing[w] # <<>> /\ \A v \in Writers : ~M!Holds(v, f)
      /\ view' = [view EXCEPT ![w] = IF f = "memory" THEN memory ELSE queue]
      /\ UNCHANGED <<queue, memory, doing, screen, filed, answered>>
  BY <1>1 DEF M!Reads, M!Free
<1>3. \A v \in Writers : view'[v] = IF v # w THEN view[v] ELSE IF f = "memory" THEN memory ELSE queue
  BY <1>2 DEF MemoryInv
<1>4. ASSUME NEW v \in Writers, NEW g PROVE M!Holds(v, g)' => IF v = w THEN g = f ELSE M!Holds(v, g)
  BY <1>1, <1>2, <1>3 DEF M!Holds, M!File
<1>5. f \in {"memory", "queue"}
  BY <1>1 DEF M!File
<1>6. Locked'
  <2>1. ASSUME NEW v \in Writers, M!Holds(v, "queue")' PROVE view'[v] = queue'
    BY <1>2, <1>3, <1>4, <2>1 DEF MemoryInv, Locked
  <2>2. ASSUME NEW v \in Writers, M!Holds(v, "queue")', NEW u \in Writers \ {v}
        PROVE  ~M!Holds(u, "queue")'
    BY <1>2, <1>4, <2>2 DEF MemoryInv, Locked
  <2>. QED
    BY <2>1, <2>2 DEF Locked
<1>7. \A v \in Writers : (M!Holds(v, "memory") => Vouched(view[v]))'
  <2>1. ASSUME NEW v \in Writers, M!Holds(v, "memory")' PROVE Vouched(view[v])'
    <3>1. Vouched(IF v = w THEN memory ELSE view[v])
      BY <1>4, <2>1 DEF MemoryInv
    <3>2. view'[v] = IF v = w THEN memory ELSE view[v]
      BY <1>3, <1>4, <2>1
    <3>. QED
      BY <1>2, <3>1, <3>2 DEF Vouched, Approved
  <2>. QED
    BY <2>1
<1>8. Rows(queue)' /\ Vouched(memory)' /\ (screen # Unread => Vouched(screen))'
  BY <1>2 DEF MemoryInv, Rows, Vouched, Approved
<1>9. \A v \in Writers : Due(doing[v])'
  <2>1. ASSUME NEW v \in Writers PROVE Due(doing[v])'
    <3>1. PICK x : x = doing[v]
      OBVIOUS
    <3>2. Due(x)'
      BY <1>2, <3>1, DueLasts DEF MemoryInv, Lasting
    <3>. QED
      BY <1>2, <3>1, <3>2
  <2>. QED
    BY <2>1
<1>10. \A v \in Writers : view'[v] # Unread => doing'[v] # <<>>
  BY <1>2, <1>3 DEF MemoryInv
<1>. QED
  BY <1>2, <1>6, <1>7, <1>8, <1>9, <1>10 DEF MemoryInv

\* A line under its heading, in a file that says no more than is true.
LEMMA UnderIsVouched ==
  ASSUME NEW text, Vouched(text), NEW heading \in {M!Learned, M!Observed}, NEW line \in Lines,
         IF heading = M!Observed THEN line \in Safe ELSE Approved(line)
  PROVE  Vouched(M!Under(text, heading, line))
<1>1. text \in Seq(Sections) /\ Len(text) \in Nat /\ DOMAIN text = 1..Len(text)
  BY DEF Vouched
<1>2. CASE \E k \in DOMAIN text : text[k].heading = heading
  <2>1. M!Under(text, heading, line) =
          [k \in DOMAIN text |-> IF text[k].heading = heading
                                 THEN [text[k] EXCEPT !.lines = text[k].lines \cup {line}] ELSE text[k]]
    BY <1>2 DEF M!Under
  <2>2. ASSUME NEW k \in DOMAIN text
        PROVE  /\ M!Under(text, heading, line)[k] \in Sections
               /\ M!Under(text, heading, line)[k].heading = text[k].heading
               /\ M!Under(text, heading, line)[k].lines \subseteq
                    text[k].lines \cup (IF text[k].heading = heading THEN {line} ELSE {})
    <3>1. PICK s \in Sections : s = text[k]
      BY <1>1
    <3>. QED
      BY <2>1, <3>1 DEF Sections
  <2>3. M!Under(text, heading, line) \in Seq(Sections)
    BY <1>1, <2>1, <2>2
  <2>4. ASSUME NEW k \in DOMAIN text, NEW l \in M!Under(text, heading, line)[k].lines
        PROVE  IF text[k].heading = M!Observed THEN l \in Safe ELSE Approved(l)
    BY <2>2, <2>4 DEF Vouched
  <2>. QED
    BY <2>1, <2>2, <2>3, <2>4 DEF Vouched
<1>3. CASE ~\E k \in DOMAIN text : text[k].heading = heading
  <2>1. PICK s : s = [heading |-> heading, lines |-> {line}]
    OBVIOUS
  <2>2. M!Under(text, heading, line) = Append(text, s)
    BY <1>3, <2>1 DEF M!Under
  <2>3. s \in Sections /\ s.heading = heading /\ s.lines = {line}
    BY <2>1 DEF Sections
  <2>4. /\ Append(text, s) \in Seq(Sections) /\ DOMAIN Append(text, s) = 1..(Len(text) + 1)
        /\ \A k \in 1..Len(text) : Append(text, s)[k] = text[k]
        /\ Append(text, s)[Len(text) + 1] = s
    BY <1>1, <2>3
  <2>. QED
    BY <1>1, <2>2, <2>3, <2>4 DEF Vouched
<1>. QED
  BY <1>2, <1>3

\* A fact goes where it belongs, into what was read.
LEMMA MemoryWriteKeeps ==
  ASSUME MemoryInv, NEW w \in Writers, M!WritesMemory(w)
  PROVE  MemoryInv'
<1>1. PICK tasks \in Seq(Tasks) : tasks = doing[w]
  BY DEF MemoryInv
<1>2. PICK task \in Tasks : task = Head(tasks)
  BY <1>1 DEF M!WritesMemory
<1>3. /\ tasks # <<>> /\ M!Holds(w, "memory") /\ Due(tasks) /\ Sound(task)
      /\ task.kind \in {"observe", "learn"}
  <2>1. tasks # <<>> /\ M!Holds(w, "memory") /\ Due(tasks)
    BY <1>1 DEF M!WritesMemory, MemoryInv
  <2>2. Sound(task)
    BY <1>1, <1>2, <2>1 DEF Due
  <2>3. M!File(task) = "memory"
    BY <1>1, <1>2, <2>1 DEF M!Holds
  <2>. QED
    BY <2>1, <2>2, <2>3 DEF M!File
<1>4. PICK heading, line : /\ heading = IF task.kind = "learn" THEN M!Learned ELSE M!Observed
                           /\ line = task.lines[1]
  OBVIOUS
<1>5. PICK text : text = view[w]
  OBVIOUS
<1>6. /\ memory' = M!Under(text, heading, line)
      /\ doing' = [doing EXCEPT ![w] = Tail(tasks)] /\ view' = [view EXCEPT ![w] = Unread]
      /\ UNCHANGED <<queue, screen, filed, answered>>
  BY <1>1, <1>2, <1>4, <1>5 DEF M!WritesMemory, M!Proceeds
<1>7. Vouched(M!Under(text, heading, line))
  <2>1. Vouched(text)
    BY <1>3, <1>5 DEF MemoryInv
  <2>2. /\ heading \in {M!Learned, M!Observed} /\ line \in Lines
        /\ IF heading = M!Observed THEN line \in Safe ELSE Approved(line)
    <3>1. task.lines \in Seq(Lines) /\ task.lines # <<>>
      BY <1>3 DEF Sound, Tasks
    <3>2. line \in Lines
      BY <1>4, <3>1
    <3>3. M!Learned # M!Observed
      BY DEF M!Learned, M!Observed
    <3>. QED
      BY <1>3, <1>4, <3>2, <3>3 DEF Sound
  <2>. QED
    BY <2>1, <2>2, UnderIsVouched
<1>8. Lasting
  BY <1>6 DEF Lasting
<1>9. Vouched(memory)' /\ Rows(queue)'
  BY <1>6, <1>7 DEF MemoryInv, Vouched, Approved, Rows
<1>10. Tail(tasks) \in Seq(Tasks) /\ Due(Tail(tasks))
  BY <1>3 DEF Due
<1>11. Due(Tail(tasks))'
  BY <1>8, <1>10, DueLasts
<1>12. /\ filed' \in Seq(Lines) /\ answered' \in Seq({"open", "accepted", "dismissed"})
       /\ Len(answered') = Len(filed')
  BY <1>6 DEF MemoryInv
<1>. QED
  BY <1>6, <1>8, <1>9, <1>10, <1>11, <1>12, LetsGo

\* A write fails: what was to follow is not done.
LEMMA StopKeeps ==
  ASSUME MemoryInv, NEW w \in Writers, M!Stops(w)
  PROVE  MemoryInv'
<1>1. /\ doing' = [doing EXCEPT ![w] = <<>>] /\ view' = [view EXCEPT ![w] = Unread]
      /\ UNCHANGED <<queue, memory, screen, filed, answered>>
  BY DEF M!Stops
<1>2. Lasting /\ <<>> \in Seq(Tasks) /\ Due(<<>>)'
  BY <1>1 DEF Lasting, Due
<1>3. Rows(queue)' /\ Vouched(memory)'
  BY <1>1 DEF MemoryInv, Vouched, Approved, Rows
<1>4. /\ filed' \in Seq(Lines) /\ answered' \in Seq({"open", "accepted", "dismissed"})
      /\ Len(answered') = Len(filed')
  BY <1>1 DEF MemoryInv
<1>. QED
  BY <1>1, <1>2, <1>3, <1>4, LetsGo

\* Rows go to the end of the queue, as many as there is room for.
LEMMA RowsKeep ==
  ASSUME MemoryInv, NEW w \in Writers, M!WritesRows(w)
  PROVE  MemoryInv'
<1>1. PICK tasks \in Seq(Tasks) : tasks = doing[w]
  BY DEF MemoryInv
<1>2. PICK task : task = Head(tasks)
  OBVIOUS
<1>3. tasks # <<>> /\ M!Holds(w, "queue") /\ view[w] = queue /\ task \in Tasks /\ Due(tasks)
  <2>1. tasks # <<>> /\ M!Holds(w, "queue") /\ Due(tasks)
    BY <1>1 DEF M!WritesRows, MemoryInv
  <2>. QED
    BY <1>1, <1>2, <2>1 DEF MemoryInv, Locked
<1>4. PICK n, q, a, c : /\ n = Len(filed) /\ q = queue /\ a = answered
                        /\ c = Cardinality(M!Open(queue))
  OBVIOUS
<1>5. /\ n \in Nat /\ filed \in Seq(Lines) /\ a \in Seq({"open", "accepted", "dismissed"})
      /\ Len(a) = n /\ DOMAIN filed = 1..n /\ DOMAIN a = 1..n
      /\ q = [k \in 1..n |-> [id |-> k, line |-> filed[k], status |-> a[k]]]
      /\ c <= QueueCap
  BY <1>4 DEF MemoryInv, Rows
<1>6. M!Open(q) \subseteq 1..n /\ IsFiniteSet(M!Open(q)) /\ c \in Nat /\ QueueCap \in Nat
  <2>1. M!Open(q) \in SUBSET (1..n)
    BY <1>5 DEF M!Open
  <2>. QED
    BY <1>4, <1>5, <2>1, SomeOf, NodeAssumption DEF M!MemoryAssumption
<1>7. PICK m \in Nat : /\ m = M!Min({M!Max({0, QueueCap - c}), Len(task.lines)})
                       /\ m <= QueueCap - c /\ m <= Len(task.lines)
  <2>1. Len(task.lines) \in Nat
    BY <1>3 DEF Tasks
  <2>2. PICK room \in Nat : room = QueueCap - c
    BY <1>5, <1>6
  <2>3. M!Max({0, room}) = room
    <3>1. PICK zero, upper \in Int : zero = 0 /\ upper = room
      OBVIOUS
    <3>2. M!Max({zero, upper}) = IF zero <= upper THEN upper ELSE zero
      BY OfTwo
    <3>3. {0, room} = {zero, upper} /\ zero <= upper
      BY <3>1
    <3>. QED
      BY <3>1, <3>2, <3>3
  <2>4. PICK m \in Nat : m = M!Min({room, Len(task.lines)}) /\ m <= room /\ m <= Len(task.lines)
    BY <2>1, OfTwo
  <2>. QED
    BY <2>2, <2>3, <2>4
<1>8. PICK new : new = SubSeq(task.lines, 1, m)
  OBVIOUS
<1>9. new \in Seq(Lines) /\ Len(new) = m /\ DOMAIN new = 1..m
  <2>1. task.lines \in Seq(Lines)
    BY <1>3 DEF Tasks
  <2>2. new \in Seq(Lines) /\ Len(new) = m
    BY <1>7, <1>8, <2>1, FirstLines
  <2>. QED
    BY <2>2
<1>10. PICK more, opens : /\ more = [k \in 1..m |-> [id |-> n + k, line |-> new[k], status |-> "open"]]
                          /\ opens = [k \in 1..m |-> "open"]
  OBVIOUS
<1>11. /\ queue' = q \o more /\ filed' = filed \o new /\ answered' = a \o opens
       /\ doing' = [doing EXCEPT ![w] = Tail(tasks)] /\ view' = [view EXCEPT ![w] = Unread]
       /\ UNCHANGED <<memory, screen>>
  <2>1. M!Cardinality(M!Open(view[w])) = c
    BY <1>3, <1>4, SameCount
  <2>2. new = SubSeq(task.lines, 1, M!Min({M!Max({0, QueueCap - M!Cardinality(M!Open(view[w]))}),
                                           Len(task.lines)}))
    BY <1>7, <1>8, <2>1
  <2>. QED
    BY <1>1, <1>2, <1>4, <1>9, <1>10, <2>2 DEF M!WritesRows, M!Proceeds
<1>12. /\ filed' \in Seq(Lines) /\ Len(filed') = n + m
       /\ \A k \in 1..(n + m) : filed'[k] = IF k <= n THEN filed[k] ELSE new[k - n]
  <2>1. filed \in Seq(Lines) /\ Len(filed) = n /\ n \in Nat
    BY <1>4, <1>5
  <2>2. new \in Seq(Lines) /\ Len(new) = m
    BY <1>9
  <2>3. Both(filed, new) \in Seq(Lines) /\ Appended(Both(filed, new), filed, new, n, m)
    BY <2>1, <2>2, Joined
  <2>4. filed' = Both(filed, new)
    BY <1>11 DEF Both
  <2>. QED
    BY <2>3, <2>4 DEF Appended
<1>13. /\ answered' \in Seq({"open", "accepted", "dismissed"}) /\ Len(answered') = n + m
       /\ \A k \in 1..(n + m) : answered'[k] = IF k <= n THEN a[k] ELSE "open"
  <2>1. opens \in Seq({"open", "accepted", "dismissed"}) /\ Len(opens) = m
    BY <1>10
  <2>2. \A k \in 1..m : opens[k] = "open"
    BY <1>10
  <2>3. answered' = Both(a, opens)
    BY <1>11 DEF Both
  <2>4. a \in Seq({"open", "accepted", "dismissed"}) /\ Len(a) = n /\ n \in Nat
    BY <1>5
  <2>5. /\ Both(a, opens) \in Seq({"open", "accepted", "dismissed"})
        /\ Appended(Both(a, opens), a, opens, n, m)
    BY <2>1, <2>4, Joined
  <2>6. \A k \in 1..(n + m) : ~(k <= n) => k - n \in 1..m
    BY <1>5
  <2>. QED
    BY <2>2, <2>3, <2>5, <2>6 DEF Appended
<1>14. queue' = [k \in 1..(n + m) |-> [id |-> k, line |-> filed'[k], status |-> answered'[k]]]
  <2>1. PICK T : T = [id : Nat, line : Lines, status : {"open", "accepted", "dismissed"}]
    OBVIOUS
  <2>2. q \in Seq(T) /\ Len(q) = n
    <3>1. \A k \in 1..n : [id |-> k, line |-> filed[k], status |-> a[k]] \in T
      BY <1>5, <2>1
    <3>. QED
      BY <1>5, <3>1
  <2>3. more \in Seq(T) /\ Len(more) = m
    <3>1. \A k \in 1..m : [id |-> n + k, line |-> new[k], status |-> "open"] \in T
      BY <1>5, <1>9, <2>1
    <3>. QED
      BY <1>10, <3>1
  <2>4. Both(q, more) \in Seq(T) /\ Appended(Both(q, more), q, more, n, m)
    BY <1>5, <2>2, <2>3, Joined
  <2>5. \A k \in 1..m : more[k] = [id |-> n + k, line |-> new[k], status |-> "open"]
    BY <1>10
  <2>6. ASSUME NEW k \in 1..(n + m)
        PROVE  Both(q, more)[k] = [id |-> k, line |-> filed'[k], status |-> answered'[k]]
    <3>0. Both(q, more)[k] = IF k <= n THEN q[k] ELSE more[k - n]
      BY <2>4 DEF Appended
    <3>1. CASE k <= n
      BY <1>5, <1>12, <1>13, <3>0, <3>1
    <3>2. CASE ~(k <= n)
      <4>1. k - n \in 1..m /\ n + (k - n) = k
        BY <1>5, <3>2
      <4>. QED
        BY <1>5, <1>12, <1>13, <2>5, <3>0, <3>2, <4>1
    <3>. QED
      BY <3>1, <3>2
  <2>7. queue' = Both(q, more)
    BY <1>11 DEF Both
  <2>8. Both(q, more) = [k \in 1..(n + m) |-> Both(q, more)[k]]
    BY <2>4 DEF Appended
  <2>. QED
    BY <2>6, <2>7, <2>8
<1>15. Cardinality(M!Open(queue')) <= QueueCap
  <2>1. M!Open(queue') = M!Open(q) \cup ((n + 1)..(n + m))
    <3>1. \A k \in 1..(n + m) : queue'[k].status = IF k <= n THEN q[k].status ELSE "open"
      BY <1>5, <1>13, <1>14
    <3>. QED
      BY <1>5, <1>14, <3>1 DEF M!Open
  <2>2. IsFiniteSet((n + 1)..(n + m)) /\ Cardinality((n + 1)..(n + m)) = m
    <3>1. PICK x, y \in Int : x = n + 1 /\ y = n + m
      BY <1>5
    <3>2. IsFiniteSet(x..y) /\ Cardinality(x..y) = IF x > y THEN 0 ELSE y - x + 1
      BY <3>1, FS_Interval
    <3>. QED
      BY <1>5, <3>1, <3>2
  <2>3. Cardinality(M!Open(q) \cup ((n + 1)..(n + m))) <= c + m
    <3>1. PICK s, u : s = M!Open(q) /\ u = (n + 1)..(n + m)
      OBVIOUS
    <3>2. s \cap u \in SUBSET u
      OBVIOUS
    <3>3. Cardinality(s \cap u) \in Nat
      BY <2>2, <3>1, <3>2, FS_Subset, FS_CardinalityType
    <3>4. Cardinality(s \cup u) = Cardinality(s) + Cardinality(u) - Cardinality(s \cap u)
      BY <1>6, <2>2, <3>1, FS_Union
    <3>. QED
      BY <1>4, <1>6, <2>2, <3>1, <3>3, <3>4
  <2>4. Cardinality(M!Open(q) \cup ((n + 1)..(n + m))) \in Nat
    BY <1>6, <2>2, FS_Union, FS_CardinalityType
  <2>. QED
    BY <1>6, <1>7, <2>1, <2>3, <2>4
<1>16. Lasting
  BY <1>4, <1>5, <1>12, <1>13 DEF Lasting
<1>17. Rows(queue)'
  BY <1>12, <1>14, <1>15 DEF Rows
<1>18. Vouched(memory)'
  <2>1. PICK text : text = memory
    OBVIOUS
  <2>2. Vouched(text)'
    BY <1>16, <2>1, VouchedLasts DEF MemoryInv
  <2>. QED
    BY <1>11, <2>1, <2>2
<1>19. Tail(tasks) \in Seq(Tasks) /\ Due(Tail(tasks))
  BY <1>3 DEF Due
<1>20. Due(Tail(tasks))'
  BY <1>16, <1>19, DueLasts
<1>21. Len(answered') = Len(filed')
  BY <1>12, <1>13
<1>. QED
  BY <1>3, <1>11, <1>12, <1>13, <1>16, <1>17, <1>18, <1>19, <1>20, <1>21, LetsGo

\* A row that is still open gets its answer, and what was accepted is to be learnt.
LEMMA ResolveKeeps ==
  ASSUME MemoryInv, NEW w \in Writers, M!Resolves(w)
  PROVE  MemoryInv'
<1>1. PICK tasks \in Seq(Tasks) : tasks = doing[w]
  BY DEF MemoryInv
<1>2. PICK task : task = Head(tasks)
  OBVIOUS
<1>3. /\ tasks # <<>> /\ M!Holds(w, "queue") /\ view[w] = queue /\ task \in Tasks
      /\ task.kind \in {"accepted", "dismissed"} /\ memory' = memory /\ filed' = filed
  <2>1. tasks # <<>> /\ M!Holds(w, "queue")
    BY <1>1 DEF M!Resolves
  <2>. QED
    BY <1>1, <1>2, <2>1 DEF M!Resolves, MemoryInv, Locked
<1>4. CASE M!Target(w, view[w]) = {} /\ M!Proceeds(w, <<>>) /\ UNCHANGED <<queue, answered>>
  <2>1. /\ doing' = [doing EXCEPT ![w] = <<>>] /\ view' = [view EXCEPT ![w] = Unread]
        /\ UNCHANGED <<queue, answered, screen>>
    BY <1>4 DEF M!Proceeds
  <2>2. Lasting /\ <<>> \in Seq(Tasks) /\ Due(<<>>)'
    BY <1>3, <2>1 DEF Lasting, Due
  <2>3. Rows(queue)' /\ Vouched(memory)'
    BY <1>3, <2>1 DEF MemoryInv, Vouched, Approved, Rows
  <2>4. /\ filed' \in Seq(Lines) /\ answered' \in Seq({"open", "accepted", "dismissed"})
        /\ Len(answered') = Len(filed')
    BY <1>3, <2>1 DEF MemoryInv
  <2>. QED
    BY <2>1, <2>2, <2>3, <2>4, LetsGo
<1>5. ASSUME NEW k \in M!Target(w, view[w]),
             queue' = [view[w] EXCEPT ![k].status = task.kind],
             answered' = [answered EXCEPT ![task.row] = task.kind],
             M!Proceeds(w, IF task.kind = "accepted"
                           THEN <<M!Task("learn", <<view[w][k].line>>, 0)>> ELSE <<>>)
      PROVE  MemoryInv'
  <2>1. PICK n, q, a : n = Len(filed) /\ q = queue /\ a = answered
    OBVIOUS
  <2>2. /\ n \in Nat /\ filed \in Seq(Lines) /\ a \in Seq({"open", "accepted", "dismissed"})
        /\ Len(a) = n /\ DOMAIN filed = 1..n /\ DOMAIN a = 1..n
        /\ q = [j \in 1..n |-> [id |-> j, line |-> filed[j], status |-> a[j]]]
        /\ Cardinality(M!Open(q)) <= QueueCap
    BY <2>1 DEF MemoryInv, Rows
  <2>3. k \in 1..n /\ a[k] = "open" /\ task.row = k /\ q[k].line = filed[k] /\ filed[k] \in Lines
    BY <1>1, <1>2, <1>3, <1>5, <2>1, <2>2 DEF M!Target, M!Open
  <2>4. /\ answered' = [a EXCEPT ![k] = task.kind]
        /\ answered' \in Seq({"open", "accepted", "dismissed"}) /\ Len(answered') = n
        /\ \A j \in 1..n : answered'[j] = IF j = k THEN task.kind ELSE a[j]
    BY <1>3, <1>5, <2>1, <2>2, <2>3
  <2>5. queue' = [j \in 1..n |-> [id |-> j, line |-> filed[j], status |-> answered'[j]]]
    <3>1. queue' = [q EXCEPT ![k].status = task.kind]
      BY <1>3, <1>5, <2>1
    <3>2. queue' = [j \in 1..n |-> IF j = k THEN [q[j] EXCEPT !.status = task.kind] ELSE q[j]]
      BY <2>2, <2>3, <3>1
    <3>3. ASSUME NEW j \in 1..n
          PROVE  queue'[j] = [id |-> j, line |-> filed[j], status |-> answered'[j]]
      BY <2>2, <2>4, <3>2
    <3>. QED
      BY <3>2, <3>3
  <2>6. Cardinality(M!Open(queue')) <= QueueCap
    <3>1. M!Open(queue') \in SUBSET M!Open(q)
      BY <1>3, <2>2, <2>4, <2>5 DEF M!Open
    <3>2. IsFiniteSet(M!Open(q)) /\ Cardinality(M!Open(q)) \in Nat /\ QueueCap \in Nat
      <4>1. M!Open(q) \in SUBSET (1..n)
        BY <2>2 DEF M!Open
      <4>. QED
        BY <2>2, <4>1, SomeOf, NodeAssumption DEF M!MemoryAssumption
    <3>3. /\ Cardinality(M!Open(queue')) <= Cardinality(M!Open(q))
          /\ Cardinality(M!Open(queue')) \in Nat
      BY <3>1, <3>2, FS_Subset, FS_CardinalityType
    <3>. QED
      BY <2>2, <3>2, <3>3
  <2>7. Lasting
    BY <1>3, <2>1, <2>2, <2>3, <2>4 DEF Lasting
  <2>8. Rows(queue)'
    BY <1>3, <2>1, <2>4, <2>5, <2>6 DEF Rows
  <2>9. Vouched(memory)'
    <3>1. PICK text : text = memory
      OBVIOUS
    <3>2. Vouched(text)'
      BY <2>7, <3>1, VouchedLasts DEF MemoryInv
    <3>. QED
      BY <1>3, <3>1, <3>2
  <2>10. PICK left : left = IF task.kind = "accepted"
                            THEN <<M!Task("learn", <<filed[k]>>, 0)>> ELSE <<>>
    OBVIOUS
  <2>11. left \in Seq(Tasks) /\ Due(left)'
    <3>1. CASE task.kind = "accepted"
      <4>1. PICK x : x = M!Task("learn", <<filed[k]>>, 0)
        OBVIOUS
      <4>2. x \in Tasks /\ x.kind = "learn" /\ x.lines # <<>> /\ x.lines[1] = filed[k]
        BY <2>3, <4>1 DEF M!Task, Tasks
      <4>3. Approved(filed[k])'
        BY <1>3, <2>2, <2>3, <2>4, <3>1 DEF Approved
      <4>4. Sound(x)'
        BY <1>3, <4>2, <4>3 DEF Sound, Approved, Tasks
      <4>. QED
        BY <2>10, <3>1, <4>1, <4>2, <4>4 DEF Due
    <3>2. CASE task.kind # "accepted"
      BY <2>10, <3>2 DEF Due
    <3>. QED
      BY <3>1, <3>2
  <2>12. /\ doing' = [doing EXCEPT ![w] = left] /\ view' = [view EXCEPT ![w] = Unread]
         /\ screen' = screen
    BY <1>3, <1>5, <2>1, <2>3, <2>10 DEF M!Proceeds
  <2>13. filed' \in Seq(Lines) /\ Len(answered') = Len(filed')
    BY <1>3, <2>1, <2>2, <2>4
  <2>. QED
    BY <1>3, <2>4, <2>7, <2>8, <2>9, <2>11, <2>12, <2>13, LetsGo
<1>6. \/ M!Target(w, view[w]) = {} /\ M!Proceeds(w, <<>>) /\ UNCHANGED <<queue, answered>>
      \/ \E k \in M!Target(w, view[w]) :
           /\ queue' = [view[w] EXCEPT ![k].status = task.kind]
           /\ answered' = [answered EXCEPT ![task.row] = task.kind]
           /\ M!Proceeds(w, IF task.kind = "accepted"
                            THEN <<M!Task("learn", <<view[w][k].line>>, 0)>> ELSE <<>>)
  BY <1>1, <1>2 DEF M!Resolves
<1>. QED
  BY <1>4, <1>5, <1>6

\* The page an operator opens, and the page he saves, with a line less.
LEMMA PageKeeps ==
  ASSUME MemoryInv, M!OpensPage \/ \E line \in Lines : M!SavesPage(line)
  PROVE  MemoryInv'
<1>1. /\ UNCHANGED <<queue, doing, view, filed, answered>>
      /\ memory' = memory \/ memory' = screen'
      /\ Vouched(screen')
  <2>1. CASE M!OpensPage
    BY <2>1 DEF M!OpensPage, MemoryInv
  <2>2. ASSUME NEW line \in Lines, M!SavesPage(line) PROVE Vouched(screen')
    <3>1. PICK text : text = screen
      OBVIOUS
    <3>2. /\ Vouched(text) /\ screen' = [k \in DOMAIN text |-> [text[k] EXCEPT !.lines = @ \ {line}]]
      BY <2>2, <3>1 DEF M!SavesPage, MemoryInv
    <3>3. text \in Seq(Sections) /\ Len(text) \in Nat /\ DOMAIN text = 1..Len(text)
      BY <3>2 DEF Vouched
    <3>4. ASSUME NEW k \in DOMAIN text
          PROVE  /\ screen'[k] \in Sections /\ screen'[k].heading = text[k].heading
                 /\ screen'[k].lines \subseteq text[k].lines
      <4>1. PICK s \in Sections : s = text[k]
        BY <3>3
      <4>. QED
        BY <3>2, <4>1 DEF Sections
    <3>5. screen' \in Seq(Sections) /\ DOMAIN screen' = DOMAIN text
      <4>1. PICK g : g = screen'
        OBVIOUS
      <4>2. g = [k \in 1..Len(text) |-> g[k]] /\ DOMAIN g = 1..Len(text)
        BY <3>2, <3>3, <4>1
      <4>3. \A k \in 1..Len(text) : g[k] \in Sections
        BY <3>3, <3>4, <4>1
      <4>. QED
        BY <3>3, <4>1, <4>2, <4>3
    <3>. QED
      BY <3>2, <3>4, <3>5 DEF Vouched
  <2>. QED
    BY <2>1, <2>2 DEF M!OpensPage, M!SavesPage
<1>2. Vouched(screen)' /\ Vouched(memory)'
  <2>1. Vouched(memory)
    BY DEF MemoryInv
  <2>. QED
    BY <1>1, <2>1 DEF Vouched, Approved
<1>3. Rows(queue)' /\ Locked'
  BY <1>1 DEF MemoryInv, Rows, Locked, M!Holds
<1>4. \A w \in Writers : Due(doing[w])' /\ (M!Holds(w, "memory") => Vouched(view[w]))'
  BY <1>1 DEF MemoryInv, Due, Sound, Approved, Vouched, M!Holds, Tasks
<1>. QED
  BY <1>1, <1>2, <1>3, <1>4 DEF MemoryInv

\* One step of the memory.
LEMMA MemorySteps ==
  ASSUME MemoryInv, M!MemoryNext
  PROVE  MemoryInv'
<1>1. CASE \E w \in Writers, n \in 1..(PerRun + 1) : \E text \in [1..n -> Lines] : M!Suggest(w, text)
  <2>1. PICK w \in Writers, n \in 1..(PerRun + 1) : \E text \in [1..n -> Lines] : M!Suggest(w, text)
    BY <1>1
  <2>2. PICK text \in [1..n -> Lines] : M!Suggest(w, text)
    BY <2>1
  <2>3. text \in Seq(Lines)
    BY NodeAssumption DEF M!MemoryAssumption
  <2>. QED
    BY <2>2, <2>3, SuggestKeeps
<1>2. CASE \E w \in Writers, asked \in DOMAIN filed : M!Remember(w, asked) \/ M!Dismiss(w, asked)
  BY <1>2, AnswerKeeps
<1>3. CASE \E w \in Writers : \/ M!Reads(w) \/ M!WritesMemory(w) \/ M!WritesRows(w)
                              \/ M!Resolves(w) \/ M!Stops(w)
  BY <1>3, ReadKeeps, MemoryWriteKeeps, RowsKeep, ResolveKeeps, StopKeeps
<1>4. CASE M!OpensPage \/ \E line \in Lines : M!SavesPage(line)
  BY <1>4, PageKeeps
<1>. QED
  BY <1>1, <1>2, <1>3, <1>4 DEF M!MemoryNext

\* A step that touches no file, no work and no lock.
LEMMA MemoryRestsKeep ==
  ASSUME MemoryInv, UNCHANGED <<queue, memory, doing, view, screen, filed, answered>>
  PROVE  MemoryInv'
<1>1. Locked' /\ Rows(queue)'
  BY DEF MemoryInv, Locked, Rows, M!Holds
<1>2. Vouched(memory)' /\ (screen # Unread => Vouched(screen))'
  BY DEF MemoryInv, Vouched, Approved
<1>3. \A w \in Writers : Due(doing[w])' /\ (M!Holds(w, "memory") => Vouched(view[w]))'
  BY DEF MemoryInv, Due, Sound, Approved, Vouched, M!Holds, Tasks
<1>. QED
  BY <1>1, <1>2, <1>3 DEF MemoryInv

\* Whatever two processes, an editor and a failing write do to each other, no row
\* that was filed is lost or misquoted, no more than the cap wait, and the memory
\* holds nothing that nobody vouched for.
THEOREM MemoryKeepsFacts == NodeSpec => []FactsAreKept
<1>. DEFINE I == part = "memory" => MemoryInv
<1>1. NodeInit => I
  BY MemoryStarts DEF NodeInit
<1>2. I /\ [NodeNext]_nodeVars => I'
  <2>1. UNCHANGED memoryVars => (MemoryInv => MemoryInv')
    BY MemoryRestsKeep DEF memoryVars
  <2>. QED
    BY <2>1, MemorySteps, StepOfPart
<1>3. I => FactsAreKept
  <2>1. MemoryInv => M!FactsAreKept
    <3>1. SUFFICES ASSUME MemoryInv PROVE M!FactsAreKept
      OBVIOUS
    <3>2. /\ queue = [k \in 1..Len(filed) |-> [id |-> k, line |-> filed[k], status |-> answered[k]]]
          /\ Cardinality(M!Open(queue)) <= QueueCap /\ DOMAIN filed = 1..Len(filed)
      BY <3>1 DEF MemoryInv, Rows
    <3>3. M!Cardinality(M!Open(queue)) <= QueueCap
      BY <3>2, SameCount
    <3>4. \A id \in DOMAIN filed :
            id \in {k \in DOMAIN queue : queue[k] = [id |-> id, line |-> filed[id], status |-> answered[id]]}
      BY <3>2
    <3>5. \A k \in DOMAIN memory : \A line \in memory[k].lines :
            IF memory[k].heading = M!Observed THEN line \in Safe
            ELSE \E id \in DOMAIN filed : filed[id] = line /\ answered[id] = "accepted"
      BY <3>1 DEF MemoryInv, Vouched, Approved
    <3>. QED
      BY <3>3, <3>4, <3>5 DEF M!FactsAreKept
  <2>. QED
    BY <2>1 DEF FactsAreKept
<1>. QED
  BY <1>1, <1>2, <1>3, PTL DEF NodeSpec
-----------------------------------------------------------------------------
(***************************************************************************)
(* Audit: what a head that left the box says.                              *)
(***************************************************************************)
Listed(s) == \E T : s \in Seq(T)

\* Links that add up and end in a digest.
ChainTo(s, digest) ==
    \E n \in Nat :
        /\ Len(s) = n
        /\ \A k \in 1..n : s[k].hash = A!Digest(s[k].fact, s[k].prev)
        /\ \A k \in 2..n : s[k].prev = s[k - 1].hash
        /\ n > 0 => s[n].hash = digest

AuditInv == Listed(lines) /\ \A sent \in off : ChainTo(sent.says, sent.head)

\* A digest tells the fact and the digest it is of.
LEMMA DigestTells ==
  ASSUME NEW f, NEW p, NEW g, NEW q, A!Digest(f, p) = A!Digest(g, q)
  PROVE  f = g /\ p = q
BY DEF A!Digest

\* What is made line by line is a list, a piece of a list is one, and so are two lists
\* one after the other.
LEMMA MadeIsListed ==
  ASSUME NEW n \in Nat, NEW s, s = [k \in 1..n |-> s[k]]
  PROVE  Listed(s) /\ Len(s) = n
<1>1. PICK T : T = {s[k] : k \in 1..n}
  OBVIOUS
<1>2. \A k \in 1..n : s[k] \in T
  BY <1>1
<1>3. s \in Seq(T) /\ Len(s) = n
  BY <1>2
<1>. QED
  BY <1>3 DEF Listed

LEMMA PieceIsListed ==
  ASSUME NEW s, NEW a \in Nat, NEW b \in Nat
  PROVE  Listed(SubSeq(s, a, b))
<1>1. PICK n \in Nat : SubSeq(s, a, b) = [k \in 1..n |-> s[a + k - 1]]
  <2>1. CASE a <= b
    <3>1. b - a + 1 \in Nat
      BY <2>1
    <3>2. SubSeq(s, a, b) = [k \in 1..(b - a + 1) |-> s[a + k - 1]]
      BY <2>1
    <3>. QED
      BY <3>1, <3>2
  <2>2. CASE ~(a <= b)
    <3>1. SubSeq(s, a, b) = [k \in 1..0 |-> s[a + k - 1]]
      BY <2>2
    <3>. QED
      BY <3>1
  <2>. QED
    BY <2>1, <2>2
<1>2. PICK t : t = [k \in 1..n |-> s[a + k - 1]]
  OBVIOUS
<1>3. t = [k \in 1..n |-> t[k]]
  BY <1>2
<1>. QED
  BY <1>1, <1>2, <1>3, MadeIsListed

LEMMA BothAreListed ==
  ASSUME NEW s, NEW u, Listed(s), Listed(u)
  PROVE  Listed(s \o u)
<1>1. PICK T : s \in Seq(T)
  BY DEF Listed
<1>2. PICK U : u \in Seq(U)
  BY DEF Listed
<1>3. s \in Seq(T \cup U) /\ u \in Seq(T \cup U)
  BY <1>1, <1>2
<1>4. s \o u \in Seq(T \cup U)
  BY <1>3
<1>. QED
  BY <1>4 DEF Listed

LEMMA ListLength ==
  ASSUME NEW s, Listed(s)
  PROVE  \E n \in Nat : Len(s) = n /\ DOMAIN s = 1..n /\ s = [k \in 1..n |-> s[k]]
<1>1. PICK T : s \in Seq(T)
  BY DEF Listed
<1>. QED
  BY <1>1

\* Whatever is written, rewritten or taken out, a list of lines is left.
LEMMA PutsAreListed ==
  ASSUME Listed(lines), NEW c, NEW new, Listed(new), A!Put(c, new)
  PROVE  Listed(lines')
<1>1. PICK n \in Nat : Len(lines) = n
  BY ListLength
<1>2. PICK I : I = {i \in 1..n : lines[i].day <= file[c]}
  OBVIOUS
<1>3. PICK p : p = Cardinality(I)
  OBVIOUS
<1>4. p \in Nat
  <2>1. IsFiniteSet(1..n)
    BY FS_Interval
  <2>2. I \subseteq 1..n
    BY <1>2
  <2>. QED
    BY <1>3, <2>1, <2>2, FS_Subset, FS_CardinalityType
<1>5. lines' = SubSeq(lines, 1, p) \o new \o SubSeq(lines, p + 1, n)
  BY <1>1, <1>2, <1>3 DEF A!Put, A!Cardinality, Cardinality
<1>6. PICK front : front = SubSeq(lines, 1, p)
  OBVIOUS
<1>7. PICK back : back = SubSeq(lines, p + 1, n)
  OBVIOUS
<1>8. Listed(front) /\ Listed(back)
  <2>1. 1 \in Nat /\ p + 1 \in Nat
    BY <1>4
  <2>. QED
    BY <1>4, <1>6, <1>7, <2>1, PieceIsListed
<1>9. Listed(front \o new)
  BY <1>8, BothAreListed
<1>10. Listed((front \o new) \o back)
  BY <1>8, <1>9, BothAreListed
<1>. QED
  BY <1>5, <1>6, <1>7, <1>10

LEMMA RelinkedIsListed ==
  ASSUME NEW s, Listed(s), NEW i, NEW before
  PROVE  Listed(A!Relinked(s, i, before)) /\ Listed(A!Bared(s, i))
<1>1. PICK n \in Nat : Len(s) = n
  BY ListLength
<1>2. PICK t : t = A!Relinked(s, i, before)
  OBVIOUS
<1>3. t = [k \in 1..n |-> t[k]]
  <2>. DEFINE links == CHOOSE chain : chain =
                [k \in (i - 1)..Len(s) |->
                   IF k = i - 1 THEN before
                   ELSE IF s[k].hash = A!Unlinked THEN chain[k - 1] ELSE A!Digest(s[k].fact, chain[k - 1])]
  <2>1. A!Relinked(s, i, before) =
          [k \in 1..Len(s) |-> IF k < i \/ s[k].hash = A!Unlinked THEN s[k]
                               ELSE [s[k] EXCEPT !.prev = links[k - 1],
                                                 !.hash = A!Digest(s[k].fact, links[k - 1])]]
    BY DEF A!Relinked
  <2>2. PICK all : all = links
    OBVIOUS
  <2>3. t = [k \in 1..n |-> IF k < i \/ s[k].hash = A!Unlinked THEN s[k]
                            ELSE [s[k] EXCEPT !.prev = all[k - 1],
                                              !.hash = A!Digest(s[k].fact, all[k - 1])]]
    BY <1>1, <1>2, <2>1, <2>2
  <2>. HIDE DEF links
  <2>4. DOMAIN t = 1..n /\ t = [k \in DOMAIN t |-> t[k]]
    BY <2>3, Zenon
  <2>. QED
    BY <2>4
<1>4. PICK u : u = A!Bared(s, i)
  OBVIOUS
<1>5. u = [k \in 1..n |-> u[k]]
  <2>1. DOMAIN u = 1..Len(s) /\ u = [k \in DOMAIN u |-> u[k]]
    BY <1>4, Zenon DEF A!Bared
  <2>. QED
    BY <1>1, <2>1
<1>. QED
  BY <1>2, <1>3, <1>4, <1>5, MadeIsListed

LEMMA ChangedIsListed ==
  ASSUME NEW s, Listed(s), NEW i, NEW line
  PROVE  Listed([s EXCEPT ![i] = line])
<1>1. PICK n \in Nat : DOMAIN s = 1..n
  BY ListLength
<1>2. PICK t : t = [s EXCEPT ![i] = line]
  OBVIOUS
<1>3. t = [k \in 1..n |-> t[k]]
  BY <1>1, <1>2
<1>. QED
  BY <1>2, <1>3, MadeIsListed

LEMMA TidiesAreListed ==
  ASSUME Listed(lines), NEW i \in 1..Len(lines), A!Tidy(i)
  PROVE  Listed(lines')
<1>1. PICK n \in Nat : Len(lines) = n
  BY ListLength
<1>2. i \in Nat /\ i + 1 \in Nat /\ i - 1 \in Nat /\ 1 \in Nat
  BY <1>1
<1>3. CASE A!Rewrite(i)
  <2>1. PICK plain : plain = [lines EXCEPT ![i] = [lines[i] EXCEPT !.fact = A!Tidied]]
    OBVIOUS
  <2>2. PICK own : own = [plain EXCEPT ![i] = [plain[i] EXCEPT !.hash = A!Digest(A!Tidied, lines[i].prev)]]
    OBVIOUS
  <2>3. Listed(plain)
    BY <2>1, ChangedIsListed
  <2>4. Listed(own)
    BY <2>2, <2>3, ChangedIsListed
  <2>5. Listed(A!Relinked(plain, i, lines[i].prev)) /\ Listed(A!Bared(plain, i))
    BY <2>3, RelinkedIsListed
  <2>6. lines' \in {plain, own, A!Relinked(plain, i, lines[i].prev), A!Bared(plain, i)}
    BY <1>3, <2>1, <2>2 DEF A!Rewrite
  <2>. QED
    BY <2>3, <2>4, <2>5, <2>6
<1>4. CASE A!Remove(i)
  <2>1. PICK beyond : beyond = SubSeq(lines, i + 1, n)
    OBVIOUS
  <2>2. PICK before : before = SubSeq(lines, 1, i - 1)
    OBVIOUS
  <2>3. PICK gone : gone = before \o beyond
    OBVIOUS
  <2>4. Listed(beyond) /\ Listed(before)
    BY <1>2, <2>1, <2>2, PieceIsListed
  <2>5. Listed(gone)
    BY <2>3, <2>4, BothAreListed
  <2>6. Listed(A!Relinked(gone, i, lines[i].prev)) /\ Listed(A!Bared(gone, i - 1))
    BY <2>5, RelinkedIsListed
  <2>7. lines' \in {gone, A!Relinked(gone, i, lines[i].prev), A!Bared(gone, i - 1), beyond}
    BY <1>1, <1>4, <2>1, <2>2, <2>3 DEF A!Remove
  <2>. QED
    BY <2>4, <2>5, <2>6, <2>7
<1>. QED
  BY <1>3, <1>4 DEF A!Tidy

\* The log as it reads up to a digest adds up and ends in it.
LEMMA ReadIsChain ==
  ASSUME Listed(lines), NEW digest
  PROVE  ChainTo(A!UpTo(digest), digest)
<1>1. CASE ~(A!Intact /\ A!Anchored(digest))
  <2>1. A!UpTo(digest) = <<>>
    BY <1>1 DEF A!UpTo
  <2>2. Len(<<>>) = 0 /\ 0 \in Nat /\ 1..0 = {} /\ 2..0 = {}
    OBVIOUS
  <2>. QED
    BY <2>1, <2>2 DEF ChainTo
<1>2. CASE A!Intact /\ A!Anchored(digest)
  <2>1. PICK top \in Nat : Len(lines) = top
    BY ListLength
  <2>2. PICK at : at = {i \in A!ReadLinks : lines[i].hash = digest}
    OBVIOUS
  <2>3. A!ReadLinks \in SUBSET (1..top) /\ at \in SUBSET A!ReadLinks /\ at # {}
    BY <1>2, <2>1, <2>2 DEF A!ReadLinks, A!Read, A!Anchored
  <2>4. PICK first \in A!ReadLinks : first = A!Min(A!ReadLinks) /\ \A i \in A!ReadLinks : first <= i
    <3>1. PICK m \in A!ReadLinks : \A j \in A!ReadLinks : m <= j
      <4>1. 1..top \subseteq Nat
        BY <2>1
      <4>2. PICK i : i \in at
        BY <2>3
      <4>3. A!ReadLinks \in SUBSET Nat /\ A!ReadLinks # {}
        BY <2>3, <4>1, <4>2
      <4>. QED
        BY <4>3, SmallestOf
    <3>2. A!Min(A!ReadLinks) = CHOOSE x \in A!ReadLinks : \A y \in A!ReadLinks : x <= y
      BY DEF A!Min
    <3>. QED
      BY <3>1, <3>2
  <2>5. PICK last \in at : last = A!Max(at) /\ \A i \in at : last >= i
    <3>1. PICK up : up = {k \in 0..top : top - k \in at}
      OBVIOUS
    <3>2. up \in SUBSET Nat /\ up # {}
      <4>1. PICK i \in at : i \in 1..top
        BY <2>3
      <4>2. top - i \in 0..top /\ top - (top - i) = i
        BY <4>1
      <4>. QED
        BY <3>1, <4>1, <4>2
    <3>3. PICK m \in up : \A j \in up : m <= j
      BY <3>2, SmallestOf
    <3>4. \A i \in at : i \in 1..top /\ top - i \in up
      BY <2>3, <3>1
    <3>5. top - m \in at /\ \A i \in at : top - m >= i
      BY <3>1, <3>3, <3>4
    <3>6. A!Max(at) = CHOOSE x \in at : \A y \in at : x >= y
      BY DEF A!Max
    <3>. QED
      BY <3>5, <3>6
  <2>6. first \in 1..top /\ last \in 1..top /\ first <= last /\ last - first + 1 \in Nat \ {0}
    BY <2>3, <2>4, <2>5
  <2>7. PICK n \in Nat \ {0} : n = last - first + 1
    BY <2>6
  <2>8. PICK s : s = A!UpTo(digest)
    OBVIOUS
  <2>9. s = [k \in 1..n |-> lines[first + k - 1]]
    BY <1>2, <2>2, <2>4, <2>5, <2>7, <2>8 DEF A!UpTo
  <2>10. Len(s) = n /\ \A k \in 1..n : s[k] = lines[first + k - 1]
    BY <2>9
  <2>11. ASSUME NEW i \in first..top PROVE i \in A!ReadLinks
    <3>1. first \in A!Read /\ i \in 1..top
      BY <2>4, <2>6 DEF A!ReadLinks
    <3>2. i \in A!Read
      <4>1. PICK f \in 1..first : A!Cardinality({lines[k].day : k \in f..Len(lines)}) <= ChainDays
        BY <3>1 DEF A!Read
      <4>2. f \in 1..i
        BY <2>6, <2>11
      <4>. QED
        BY <2>1, <3>1, <4>1, <4>2 DEF A!Read
    <3>3. CASE i = first
      BY <3>3
    <3>4. CASE i # first
      <4>1. first < i
        BY <2>6, <2>11, <3>4
      <4>. QED
        BY <1>2, <2>4, <3>2, <4>1 DEF A!Intact, A!ReadLinks
    <3>. QED
      BY <3>3, <3>4
  <2>12. ASSUME NEW i \in A!ReadLinks
         PROVE  /\ lines[i].hash = A!Digest(lines[i].fact, lines[i].prev)
                /\ i - 1 \in A!ReadLinks => lines[i].prev = lines[i - 1].hash
    <3>1. i \in A!Read
      BY DEF A!ReadLinks
    <3>. QED
      BY <1>2, <3>1 DEF A!Intact
  <2>13. ASSUME NEW k \in 1..n PROVE s[k].hash = A!Digest(s[k].fact, s[k].prev)
    <3>1. first + k - 1 \in first..top
      BY <2>6, <2>7
    <3>. QED
      BY <2>10, <2>11, <2>12, <3>1
  <2>14. ASSUME NEW k \in 2..n PROVE s[k].prev = s[k - 1].hash
    <3>1. PICK i \in first..top : i = first + k - 1 /\ i - 1 \in first..top /\ i - 1 = first + (k - 1) - 1
      BY <2>6, <2>7
    <3>2. k \in 1..n /\ k - 1 \in 1..n
      OBVIOUS
    <3>3. s[k] = lines[i] /\ s[k - 1] = lines[i - 1]
      BY <2>10, <3>1, <3>2
    <3>. QED
      BY <2>11, <2>12, <3>1, <3>3
  <2>15. s[n].hash = digest
    <3>1. n \in 1..n /\ first + n - 1 = last
      BY <2>6, <2>7
    <3>. QED
      BY <2>2, <2>5, <2>10, <3>1
  <2>16. ChainTo(s, digest)
    BY <2>7, <2>10, <2>13, <2>14, <2>15 DEF ChainTo
  <2>. QED
    BY <2>8, <2>16
<1>. QED
  BY <1>1, <1>2

\* Two chains to one digest say the same from the end on: where they first part, the
\* line behind binds what is before it.
LEMMA ChainsAgree ==
  ASSUME NEW s, NEW t, NEW digest, ChainTo(s, digest), ChainTo(t, digest)
  PROVE  A!Agree(s, t)
<1>1. PICK n \in Nat : /\ Len(s) = n
                       /\ \A k \in 1..n : s[k].hash = A!Digest(s[k].fact, s[k].prev)
                       /\ \A k \in 2..n : s[k].prev = s[k - 1].hash
                       /\ n > 0 => s[n].hash = digest
  BY DEF ChainTo
<1>2. PICK m \in Nat : /\ Len(t) = m
                       /\ \A k \in 1..m : t[k].hash = A!Digest(t[k].fact, t[k].prev)
                       /\ \A k \in 2..m : t[k].prev = t[k - 1].hash
                       /\ m > 0 => t[m].hash = digest
  BY DEF ChainTo
<1>3. PICK p \in Nat : p = A!Min({n, m}) /\ p <= n /\ p <= m
  <2>1. A!Min({n, m}) = CHOOSE x \in {n, m} : \A y \in {n, m} : x <= y
    BY DEF A!Min
  <2>2. \E x \in {n, m} : \A y \in {n, m} : x <= y
    OBVIOUS
  <2>. QED
    BY <2>1, <2>2
<1>4. PICK parted : parted = {k \in 0..(p - 1) : s[n - k].hash # t[m - k].hash}
  OBVIOUS
<1>5. parted = {}
  <2>1. SUFFICES ASSUME parted # {} PROVE FALSE
    OBVIOUS
  <2>2. parted \in SUBSET Nat
    BY <1>4
  <2>3. PICK b \in parted : \A k \in parted : b <= k
    BY <2>1, <2>2, SmallestOf
  <2>4. b \in 0..(p - 1) /\ s[n - b].hash # t[m - b].hash
    BY <1>4, <2>3
  <2>5. b # 0
    <3>1. ASSUME b = 0 PROVE FALSE
      <4>1. n > 0 /\ m > 0 /\ n - b = n /\ m - b = m
        BY <1>3, <2>4, <3>1
      <4>. QED
        BY <1>1, <1>2, <2>4, <4>1
    <3>. QED
      BY <3>1
  <2>6. b - 1 \in 0..(p - 1) /\ b - 1 \notin parted
    BY <2>3, <2>4, <2>5
  <2>7. s[n - (b - 1)].hash = t[m - (b - 1)].hash
    BY <1>4, <2>6
  <2>8. PICK i \in 2..n : i = n - (b - 1) /\ i \in 1..n /\ i - 1 = n - b
    BY <1>3, <2>4, <2>5
  <2>9. PICK j \in 2..m : j = m - (b - 1) /\ j \in 1..m /\ j - 1 = m - b
    BY <1>3, <2>4, <2>5
  <2>10. A!Digest(s[i].fact, s[i].prev) = A!Digest(t[j].fact, t[j].prev)
    BY <1>1, <1>2, <2>7, <2>8, <2>9
  <2>11. s[i].prev = t[j].prev
    BY <2>10, DigestTells
  <2>12. s[i].prev = s[i - 1].hash /\ t[j].prev = t[j - 1].hash
    BY <1>1, <1>2
  <2>. QED
    BY <2>4, <2>8, <2>9, <2>11, <2>12
<1>6. ASSUME NEW k \in 0..(p - 1) PROVE s[n - k].fact = t[m - k].fact
  <2>1. s[n - k].hash = t[m - k].hash
    BY <1>4, <1>5
  <2>2. PICK i \in 1..n : i = n - k
    BY <1>3
  <2>3. PICK j \in 1..m : j = m - k
    BY <1>3
  <2>4. A!Digest(s[i].fact, s[i].prev) = A!Digest(t[j].fact, t[j].prev)
    BY <1>1, <1>2, <2>1, <2>2, <2>3
  <2>5. s[i].fact = t[j].fact
    BY <2>4, DigestTells
  <2>. QED
    BY <2>2, <2>3, <2>5
<1>. QED
  BY <1>1, <1>2, <1>3, <1>6 DEF A!Agree

LEMMA AuditSteps ==
  ASSUME AuditInv, A!AuditNext \/ UNCHANGED A!auditVars
  PROVE  AuditInv'
<1>1. Listed(lines) /\ \A sent \in off : ChainTo(sent.says, sent.head)
  BY DEF AuditInv
<1>2. Listed(lines')
  <2>1. CASE UNCHANGED lines
    BY <1>1, <2>1
  <2>2. CASE \E i \in 1..Len(lines) : A!Tidy(i)
    BY <1>1, <2>2, TidiesAreListed
  <2>3. CASE \E c \in AuditedCalls : A!Write(c) \/ A!WriteUnchained(c) \/ A!WriteTwice(c)
    <3>1. PICK c, new : Listed(new) /\ A!Put(c, new)
      <4>1. PICK c \in AuditedCalls : A!Write(c) \/ A!WriteUnchained(c) \/ A!WriteTwice(c)
        BY <2>3
      <4>2. PICK one : one = A!Linked(c, head)
        OBVIOUS
      <4>3. PICK two : two = A!Unchained(c)
        OBVIOUS
      <4>4. \/ A!Put(c, <<one>>) \/ A!Put(c, <<two>>) \/ A!Put(c, <<one, two>>)
        BY <4>1, <4>2, <4>3 DEF A!Write, A!WriteUnchained, A!WriteTwice
      <4>5. <<one>> \in Seq({one}) /\ <<two>> \in Seq({two}) /\ <<one, two>> \in Seq({one, two})
        OBVIOUS
      <4>6. Listed(<<one>>) /\ Listed(<<two>>) /\ Listed(<<one, two>>)
        BY <4>5 DEF Listed
      <4>. QED
        BY <4>4, <4>6
    <3>. QED
      BY <1>1, <3>1, PutsAreListed
  <2>4. UNCHANGED lines \/ (\E i \in 1..Len(lines) : A!Tidy(i))
        \/ \E c \in AuditedCalls : A!Write(c) \/ A!WriteUnchained(c) \/ A!WriteTwice(c)
    BY DEF A!AuditNext, A!auditVars, A!ChooseFile, A!Midnight, A!EndTurn, A!Report
  <2>. QED
    BY <2>1, <2>2, <2>3, <2>4
<1>3. ASSUME NEW sent \in off' PROVE ChainTo(sent.says, sent.head)
  <2>1. off' = off \/ off' = off \cup {[head |-> head, says |-> A!UpTo(head)]}
    BY DEF A!AuditNext, A!auditVars, A!ChooseFile, A!Write, A!WriteUnchained, A!WriteTwice,
           A!Midnight, A!EndTurn, A!Report, A!Tidy
  <2>2. CASE sent \in off
    BY <1>1, <2>2
  <2>3. CASE sent = [head |-> head, says |-> A!UpTo(head)]
    <3>1. sent.head = head /\ sent.says = A!UpTo(head)
      BY <2>3
    <3>. QED
      BY <1>1, <3>1, ReadIsChain
  <2>. QED
    BY <2>1, <2>2, <2>3
<1>4. \A sent \in off' : ChainTo(sent.says, sent.head)'
  BY <1>3 DEF ChainTo, A!Digest
<1>. QED
  BY <1>2, <1>4 DEF AuditInv, Listed

LEMMA AuditStarts == A!AuditInit => AuditInv
<1>1. <<>> \in Seq({})
  OBVIOUS
<1>. QED
  BY <1>1 DEF A!AuditInit, AuditInv, Listed

\* What a log that adds up says before a head that left the box is what it said when
\* that head left, however lines were rewritten, deleted, relinked and written since,
\* and however writers raced over midnight: the invariant is of the heads alone, and
\* no edit can change what they bind.
THEOREM AuditTellsOfTampering == NodeSpec => []TamperShows
<1>. DEFINE I == part = "audit" => AuditInv
<1>1. NodeInit => I
  BY AuditStarts DEF NodeInit
<1>2. I /\ [NodeNext]_nodeVars => I'
  BY AuditSteps, StepOfPart DEF A!auditVars, auditVars
<1>3. AuditInv => A!TamperShows
  <2>. SUFFICES ASSUME AuditInv, NEW sent \in off PROVE A!Agree(sent.says, A!UpTo(sent.head))
    BY DEF A!TamperShows
  <2>1. ChainTo(sent.says, sent.head) /\ Listed(lines)
    BY DEF AuditInv
  <2>2. ChainTo(A!UpTo(sent.head), sent.head)
    BY <2>1, ReadIsChain
  <2>. QED
    BY <2>1, <2>2, ChainsAgree
<1>4. I => TamperShows
  BY <1>3 DEF TamperShows
<1>. QED
  BY <1>1, <1>2, <1>4, PTL DEF NodeSpec
=============================================================================
