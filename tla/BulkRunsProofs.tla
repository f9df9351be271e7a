--------------------------- MODULE BulkRunsProofs ---------------------------
(***************************************************************************)
(* Proofs about BulkRuns, for any number of targets, of runs in a family,  *)
(* of lost processes, resumes and edits, and any halt limits:              *)
(*   - one run of a family writes at a time;                               *)
(*   - the verb of an external run takes effect on a target at most once;  *)
(*   - no more targets receive a run's verb than the owner allowed;        *)
(*   - a run reported as undone, and an atomic run whose rollback calls    *)
(*     itself complete, left nothing behind.                               *)
(*                                                                         *)
(* The argument.  Only the loop of an open run writes, and there is one    *)
(* open run, so every other run of the family stands still while a loop    *)
(* steps.  What a target holds by a run is covered by that run's row: it   *)
(* was marked as sent before it left, and is not marked as undone (Held).  *)
(* The row therefore keeps the target on the rollback's list, or on the    *)
(* list of what is left to undo, until the value is gone.  The count of    *)
(* unclear sends covers what may yet be carried out in the same way.       *)
(***************************************************************************)
EXTENDS BulkRuns, FiniteSetTheorems, WellFoundedInduction, TLAPS

(***************************************************************************)
(* The inductive invariant.                                                *)
(***************************************************************************)

RunRec == [phase : Phases, halted : BOOLEAN, max : 0 .. N, peak : 0 .. N,
           failed : Nat, clean : BOOLEAN, source : 0 .. Depth, forth : BOOLEAN]

RowRec == [in : {"no", "in", "out"}, applied : BOOLEAN, found : BOOLEAN,
           sent : BOOLEAN, unknown : 0 .. 2, error : Errors, undone : BOOLEAN,
           claim : {"none", "fresh", "stale"}]

LoopRec == [pc : {"none", "top", "read", "send", "sent", "landed", "back",
                  "restored"},
            todo : SUBSET Targets, t : 0 .. N, fails : Nat, capped : BOOLEAN,
            probed : BOOLEAN, stop : BOOLEAN, clean : BOOLEAN]

Cell == [val : {"before", "after", "other"}, by : Runs \cup {Other, Late}]

\* The types the proofs need: TypeOK without the bounds on the two counters
\* of failures.
Types ==
    /\ mode \in Modes /\ probe \in BOOLEAN
    /\ run \in [Runs -> RunRec]
    /\ row \in [Runs -> [Targets -> RowRec]]
    /\ armed \in [Runs -> BOOLEAN]
    /\ loop \in [Runs -> LoopRec]
    /\ world \in [Targets -> Cell]
    /\ adrift \in SUBSET (Runs \X Targets)
    /\ landed \in [Runs -> [Targets -> 0 .. 2]]
    /\ events \in Nat

\* An undo has an earlier run as its source, and writes the other way.
SourceOK(r) ==
    run[r].source # 0 =>
        /\ run[r].source # r
        /\ run[run[r].source].phase # "unplanned"
        /\ run[run[r].source].forth # run[r].forth

\* At most one run may write, and only such a run has a loop.
OneOpen == \A r, q \in Runs : MayWrite(r) /\ MayWrite(q) => r = q

LoopOpen == \A r \in Runs : loop[r].pc # "none" => MayWrite(r)

\* What a target holds by a run, the run's row knows of.
Held(r, t) ==
    world[t].by = r =>
        /\ world[t].val = after(r)
        /\ row[r][t].sent /\ row[r][t].in = "in" /\ ~row[r][t].undone

\* What was found as planned was not sent to; a run that is not approved yet
\* has sent nothing.
RowOK(r, t) ==
    /\ row[r][t].found => row[r][t].applied /\ ~row[r][t].sent
    /\ run[r].phase \in {"unplanned", "previewed"} =>
          ~row[r][t].sent /\ row[r][t].unknown = 0

\* The targets a run sent to, within the most the owner allowed.
SentBy(r) == {t \in Targets : row[r][t].sent}

MaxOK(r) ==
    /\ run[r].phase \in {"unplanned", "previewed"} => run[r].peak = 0
    /\ run[r].max <= run[r].peak
    /\ Cardinality(SentBy(r)) <= run[r].peak

\* An external request that may be carried out, or was, is counted as one
\* unclear send, and there is one at most.
ChanceOK(r, t) ==
    external =>
        /\ row[r][t].unknown <= 1
        /\ row[r][t].unknown = 0 => landed[r][t] = 0 /\ <<r, t>> \notin adrift
        /\ landed[r][t] <= 1
        /\ <<r, t>> \in adrift => landed[r][t] = 0

\* The loop between its claim of a target and the record of its answer.
AtTarget == {"read", "send", "sent", "landed"}

LoopOK(r) ==
    LET pc == loop[r].pc
        t == loop[r].t
    IN  /\ pc \in AtTarget =>
              /\ t \in Targets
              /\ row[r][t].in = "in" /\ ~row[r][t].applied /\ ~row[r][t].undone
        /\ pc \in {"read", "send"} =>
              row[r][t].sent \/ Cardinality(SentBy(r)) < run[r].peak
        /\ pc \in {"sent", "landed"} => row[r][t].sent
        /\ pc = "landed" => world[t].by \in {r, Other, Late}
        /\ external /\ pc = "send" => row[r][t].unknown = 0
        /\ external /\ pc \in {"sent", "landed"} => row[r][t].unknown = 1
        /\ external /\ pc = "sent" => landed[r][t] = 0 /\ <<r, t>> \notin adrift
        /\ pc = "restored" => t \in Targets /\ world[t].by # r
        /\ pc \in {"back", "restored"} /\ loop[r].clean =>
              \A s \in Targets : world[s].by = r => s \in loop[r].todo

\* What is reported as undone, or as rolled back, is gone.
GoneOK(r) ==
    \A t \in Targets : world[t].by = r =>
        /\ run[r].phase = "undone" => ~external /\ ~row[r][t].applied
        /\ ~(run[r].phase = "aborted" /\ run[r].clean)

RunsOK == \A r \in Runs : SourceOK(r) /\ MaxOK(r) /\ LoopOK(r) /\ GoneOK(r)

CellsOK == \A r \in Runs, t \in Targets : Held(r, t) /\ RowOK(r, t) /\ ChanceOK(r, t)

IInv == Types /\ OneOpen /\ LoopOpen /\ RunsOK /\ CellsOK

-----------------------------------------------------------------------------
(***************************************************************************)
(* Records, sets of targets and their first and last members.              *)
(***************************************************************************)

\* A run, a row and a loop stay what they are when a field is written.
LEMMA RunWith ==
    ASSUME NEW x \in RunRec
    PROVE  /\ \A v \in Phases : [x EXCEPT !.phase = v] \in RunRec
           /\ \A v \in BOOLEAN : [x EXCEPT !.halted = v] \in RunRec
           /\ \A v \in 0 .. N : [x EXCEPT !.max = v] \in RunRec
           /\ \A v \in 0 .. N : [x EXCEPT !.peak = v] \in RunRec
           /\ \A v \in Nat : [x EXCEPT !.failed = v] \in RunRec
           /\ \A v \in BOOLEAN : [x EXCEPT !.clean = v] \in RunRec
           /\ \A v \in 0 .. Depth : [x EXCEPT !.source = v] \in RunRec
           /\ \A v \in BOOLEAN : [x EXCEPT !.forth = v] \in RunRec
  BY DEF RunRec

\* The same for a row ...
LEMMA RowWith ==
    ASSUME NEW x \in RowRec
    PROVE  /\ \A v \in {"no", "in", "out"} : [x EXCEPT !.in = v] \in RowRec
           /\ \A v \in BOOLEAN : [x EXCEPT !.applied = v] \in RowRec
           /\ \A v \in BOOLEAN : [x EXCEPT !.found = v] \in RowRec
           /\ \A v \in BOOLEAN : [x EXCEPT !.sent = v] \in RowRec
           /\ \A v \in 0 .. 2 : [x EXCEPT !.unknown = v] \in RowRec
           /\ \A v \in Errors : [x EXCEPT !.error = v] \in RowRec
           /\ \A v \in BOOLEAN : [x EXCEPT !.undone = v] \in RowRec
           /\ \A v \in {"none", "fresh", "stale"} : [x EXCEPT !.claim = v] \in RowRec
  BY DEF RowRec

\* ... and for a loop.
LEMMA LoopWith ==
    ASSUME NEW x \in LoopRec
    PROVE  /\ \A v \in {"none", "top", "read", "send", "sent", "landed",
                        "back", "restored"} : [x EXCEPT !.pc = v] \in LoopRec
           /\ \A v \in SUBSET Targets : [x EXCEPT !.todo = v] \in LoopRec
           /\ \A v \in 0 .. N : [x EXCEPT !.t = v] \in LoopRec
           /\ \A v \in Nat : [x EXCEPT !.fails = v] \in LoopRec
           /\ \A v \in BOOLEAN : [x EXCEPT !.capped = v] \in LoopRec
           /\ \A v \in BOOLEAN : [x EXCEPT !.probed = v] \in LoopRec
           /\ \A v \in BOOLEAN : [x EXCEPT !.stop = v] \in LoopRec
           /\ \A v \in BOOLEAN : [x EXCEPT !.clean = v] \in LoopRec
  BY DEF LoopRec

\* The records things start as.
LEMMA NoRecords ==
    /\ NoRow \in RowRec /\ NoRun \in RunRec /\ NoLoop \in LoopRec
    /\ NoLoop.pc = "none"
    /\ NoRow.in = "no" /\ NoRow.applied = FALSE /\ NoRow.found = FALSE
    /\ NoRow.sent = FALSE /\ NoRow.unknown = 0 /\ NoRow.undone = FALSE
  BY BulkAssumption
  DEF NoRow, NoRun, NoLoop, RowRec, RunRec, LoopRec, Phases, Errors

\* A set of targets that is not empty has a first member, ...
LEMMA MinIn ==
    ASSUME NEW S \in SUBSET Targets, S # {}
    PROVE  Min(S) \in S
<1>1. IsWellFoundedOn(OpToRel(<, Nat), Nat)
  BY NatLessThanWellFounded
<1>2. S \subseteq Nat /\ S # {}
  BY BulkAssumption DEF Targets
<1>3. PICK x \in S : \A y \in S : <<y, x>> \notin OpToRel(<, Nat)
  BY <1>1, <1>2, WFMin
<1>4. \A y \in S : x <= y
  <2> TAKE y \in S
  <2>1. y \in Nat /\ x \in Nat
    BY <1>2
  <2>2. ~(y < x)
    BY <1>3, <2>1 DEF OpToRel
  <2>3. QED
    BY <2>1, <2>2
<1>5. QED
  BY <1>4 DEF Min

\* ... and a last one.
LEMMA MaxIn ==
    ASSUME NEW S \in SUBSET Targets, S # {}
    PROVE  Max(S) \in S
<1> DEFINE T == {N - x : x \in S}
<1>0. N \in Nat /\ S \subseteq 1 .. N
  BY BulkAssumption DEF Targets
<1>1. IsWellFoundedOn(OpToRel(<, Nat), Nat)
  BY NatLessThanWellFounded
<1>2. T \subseteq Nat
  BY <1>0
<1>3. T # {}
  <2>1. PICK s \in S : TRUE
    OBVIOUS
  <2>2. QED
    BY <2>1
<1>4. PICK x \in T : \A y \in T : <<y, x>> \notin OpToRel(<, Nat)
  BY <1>1, <1>2, <1>3, WFMin
<1>5. PICK z \in S : x = N - z
  OBVIOUS
<1>6. \A y \in S : z >= y
  <2> TAKE y \in S
  <2>1. N - y \in T /\ N - y \in Nat /\ N - z \in Nat
    BY <1>2, <1>5
  <2>2. ~(N - y < N - z)
    BY <1>4, <1>5, <2>1 DEF OpToRel
  <2>3. QED
    BY <1>0, <2>2
<1>7. QED
  BY <1>6 DEF Max

\* The next target is one of the list, whichever way the list is read.
LEMMA FirstIn ==
    ASSUME NEW r, NEW S \in SUBSET Targets, S # {}
    PROVE  FirstOf(r, S) \in S /\ LastOf(r, S) \in S
  BY MinIn, MaxIn DEF FirstOf, LastOf

\* Sets of targets are finite.
LEMMA TargetsFinite ==
    ASSUME NEW S \in SUBSET Targets
    PROVE  IsFiniteSet(S) /\ Cardinality(S) \in Nat
<1>1. IsFiniteSet(Targets)
  BY FS_Interval, BulkAssumption DEF Targets
<1>2. IsFiniteSet(S)
  BY <1>1, FS_Subset
<1>3. QED
  BY <1>2, FS_CardinalityType

\* One row is written.
LEMMA RowPut ==
    ASSUME NEW rows \in [Runs -> [Targets -> RowRec]], NEW r \in Runs,
           NEW t \in Targets, NEW s \in RowRec
    PROVE  LET new == [rows EXCEPT ![r][t] = s]
           IN  /\ new \in [Runs -> [Targets -> RowRec]]
               /\ new[r][t] = s
               /\ \A q \in Runs, u \in Targets :
                     q # r \/ u # t => new[q][u] = rows[q][u]
  OBVIOUS

-----------------------------------------------------------------------------
(***************************************************************************)
(* Steps of the ledger: no target changes.                                 *)
(***************************************************************************)

\* What the ledger says of a target is left, its error, its claim and its
\* count of unclear sends aside.
SameRow(x, y) ==
    /\ y.in = x.in /\ y.applied = x.applied /\ y.found = x.found
    /\ y.sent = x.sent /\ y.undone = x.undone

RowsSame ==
    /\ row' \in [Runs -> [Targets -> RowRec]]
    /\ \A q \in Runs, u \in Targets : SameRow(row[q][u], row'[q][u])

CountsSame == \A q \in Runs, u \in Targets : row'[q][u].unknown = row[q][u].unknown

\* What a step may do to a run: it stays planned and keeps its source, what
\* it may send grows, and it is reported as undone or rolled back only when
\* nothing of it is left.
RunMove(r) ==
    /\ run'[r] \in RunRec
    /\ run'[r].source = run[r].source /\ run'[r].forth = run[r].forth
    /\ run'[r].phase = "unplanned" <=> run[r].phase = "unplanned"
    /\ run'[r].phase \in {"unplanned", "previewed"} =>
          run'[r].phase = run[r].phase /\ run'[r].peak = run[r].peak
    /\ run[r].peak <= run'[r].peak /\ run'[r].max <= run'[r].peak
    /\ run'[r].phase = "undone" =>
          \/ run[r].phase = "undone"
          \/ \A t \in Targets : world[t].by = r => ~external /\ ~row[r][t].applied
    /\ run'[r].phase = "aborted" /\ run'[r].clean =>
          \/ run[r].phase = "aborted" /\ run[r].clean
          \/ \A t \in Targets : world[t].by # r

RunsMove == run' \in [Runs -> RunRec] /\ \A r \in Runs : RunMove(r)

\* A run that is left.
LEMMA MoveNone ==
    ASSUME IInv, NEW r \in Runs, run'[r] = run[r]
    PROVE  RunMove(r)
<1>1. run[r] \in RunRec /\ MaxOK(r)
  BY DEF IInv, Types, RunsOK
<1>2. run[r].peak \in 0 .. N
  BY <1>1 DEF RunRec
<1>3. QED
  BY <1>1, <1>2 DEF RunMove, MaxOK

\* Undos keep their sources.
LEMMA SourcesKept ==
    ASSUME IInv, RunsMove
    PROVE  \A r \in Runs : SourceOK(r)'
<1> TAKE r \in Runs
<1>1. run[r] \in RunRec /\ SourceOK(r) /\ RunMove(r)
  BY DEF IInv, Types, RunsOK, RunsMove
<1>2. CASE run[r].source = 0
  BY <1>1, <1>2 DEF SourceOK, RunMove
<1>3. CASE run[r].source # 0
  <2>1. run[r].source \in Runs
    BY <1>1, <1>3, BulkAssumption DEF RunRec, Runs
  <2>2. RunMove(run[r].source)
    BY <2>1 DEF RunsMove
  <2>3. QED
    BY <1>1, <1>3, <2>2 DEF SourceOK, RunMove
<1>4. QED
  BY <1>2, <1>3

\* The rest of the invariant follows from the loops and the counts.
LEMMA LedgerStep ==
    ASSUME IInv, UNCHANGED <<mode, world, landed>>, RowsSame, RunsMove,
           probe' \in BOOLEAN, armed' \in [Runs -> BOOLEAN],
           loop' \in [Runs -> LoopRec], adrift' \in SUBSET (Runs \X Targets),
           events' \in Nat,
           OneOpen', LoopOpen', \A r \in Runs : LoopOK(r)',
           \A r \in Runs, t \in Targets : ChanceOK(r, t)',
           \A r \in Runs, t \in Targets :
               row'[r][t].unknown = 0 \/ run[r].phase \notin {"unplanned", "previewed"}
    PROVE  IInv'
<1>1. Types'
  BY DEF IInv, Types, RowsSame, RunsMove
<1>2. external' = external
  BY DEF external
<1>3. \A r \in Runs : SourceOK(r)'
  BY SourcesKept
<1>4. ASSUME NEW r \in Runs PROVE MaxOK(r)'
  <2>1. SentBy(r)' = SentBy(r)
    BY DEF SentBy, RowsSame, SameRow
  <2>2. Cardinality(SentBy(r)) \in Nat
    BY TargetsFinite DEF SentBy
  <2>3. /\ MaxOK(r) /\ RunMove(r) /\ run[r] \in RunRec /\ run'[r] \in RunRec
    BY <1>4 DEF IInv, Types, RunsOK, RunsMove
  <2>4. run[r].peak \in Nat /\ run'[r].peak \in Nat
    BY <2>3, BulkAssumption DEF RunRec
  <2>5. QED
    BY <2>1, <2>2, <2>3, <2>4 DEF MaxOK, RunMove
<1>5. ASSUME NEW r \in Runs PROVE GoneOK(r)'
  <2>1. GoneOK(r) /\ RunMove(r)
    BY <1>5 DEF IInv, RunsOK, RunsMove
  <2>2. \A t \in Targets : SameRow(row[r][t], row'[r][t])
    BY <1>5 DEF RowsSame
  <2>3. QED
    BY <1>2, <2>1, <2>2 DEF GoneOK, RunMove, SameRow
<1>6. ASSUME NEW r \in Runs, NEW t \in Targets PROVE Held(r, t)' /\ RowOK(r, t)'
  <2>1. Held(r, t) /\ RowOK(r, t) /\ RunMove(r) /\ SameRow(row[r][t], row'[r][t])
    BY <1>6 DEF IInv, CellsOK, RunsMove, RowsSame
  <2>2. Held(r, t)'
    BY <2>1 DEF Held, RunMove, SameRow, after
  <2>3. RowOK(r, t)'
    BY <2>1 DEF RowOK, RunMove, SameRow
  <2>4. QED
    BY <2>2, <2>3
<1>7. RunsOK' /\ CellsOK'
  BY <1>3, <1>4, <1>5, <1>6 DEF RunsOK, CellsOK
<1>8. QED
  BY <1>1, <1>7 DEF IInv

\* The counts of unclear sends, when nothing about them changes.
LEMMA ChancesKept ==
    ASSUME IInv, UNCHANGED <<mode, landed, adrift>>, CountsSame
    PROVE  /\ \A r \in Runs, t \in Targets : ChanceOK(r, t)'
           /\ \A r \in Runs, t \in Targets :
               row'[r][t].unknown = 0 \/ run[r].phase \notin {"unplanned", "previewed"}
<1>1. external' = external
  BY DEF external
<1>2. ASSUME NEW r \in Runs, NEW t \in Targets
      PROVE  /\ ChanceOK(r, t)'
             /\ row'[r][t].unknown = 0 \/ run[r].phase \notin {"unplanned", "previewed"}
  BY <1>1, <1>2 DEF IInv, CellsOK, ChanceOK, RowOK, CountsSame
<1>3. QED
  BY <1>2

\* Rows that are left.
LEMMA RowsLeft ==
    ASSUME IInv, UNCHANGED row
    PROVE  RowsSame /\ CountsSame
  BY DEF IInv, Types, RowsSame, CountsSame, SameRow

\* While a run is open, no other has a loop.
LEMMA OneLoop ==
    ASSUME IInv, NEW r \in Runs, loop[r].pc # "none" \/ MayWrite(r)
    PROVE  MayWrite(r) /\ \A q \in Runs \ {r} : ~MayWrite(q) /\ loop[q].pc = "none"
  BY DEF IInv, OneOpen, LoopOpen

\* A loop that is not at work asks for nothing, ...
LEMMA LoopRests ==
    ASSUME NEW r \in Runs, loop'[r].pc \in {"none", "top"}
    PROVE  LoopOK(r)'
  BY DEF LoopOK, AtTarget

\* ... so a step of one loop is about that loop.
LEMMA LoopAlone ==
    ASSUME IInv, NEW r \in Runs, loop[r].pc # "none" \/ MayWrite(r), NEW l \in LoopRec,
           loop' = [loop EXCEPT ![r] = l], LoopOK(r)'
    PROVE  /\ loop' \in [Runs -> LoopRec] /\ loop'[r] = l
           /\ \A q \in Runs \ {r} : loop'[q].pc = "none"
           /\ \A q \in Runs : LoopOK(q)'
<1>1. loop \in [Runs -> LoopRec]
  BY DEF IInv, Types
<1>2. /\ loop' \in [Runs -> LoopRec] /\ loop'[r] = l
      /\ \A q \in Runs \ {r} : loop'[q] = loop[q]
  BY <1>1
<1>3. \A q \in Runs \ {r} : loop'[q].pc = "none"
  BY <1>2, OneLoop
<1>4. QED
  BY <1>2, <1>3, LoopRests

-----------------------------------------------------------------------------
(***************************************************************************)
(* How a step of a loop ends: on to the next target, at the start of the   *)
(* rollback, or with the loop over.                                        *)
(***************************************************************************)

\* The rows of the runs after the step: nothing opens.
RunsClose == RunsMove /\ \A q \in Runs : MayWrite(q)' => MayWrite(q)

Outcome(r) ==
    /\ RunsClose
    /\ armed' \in [Runs -> BOOLEAN]
    /\ \E l \in LoopRec :
          /\ loop' = [loop EXCEPT ![r] = l]
          /\ l.pc # "none" => MayWrite(r)'
          /\ \/ l.pc \in {"none", "top"}
             \/ l.pc = "back" /\ l.todo = listApplied(r) \cup listSentUnrecorded(r)

\* A run that keeps its phase and is at most halted.
LEMMA RunOne ==
    ASSUME IInv, NEW r \in Runs, NEW x \in RunRec, run' = [run EXCEPT ![r] = x],
           x.phase = run[r].phase, x.source = run[r].source,
           x.forth = run[r].forth, x.max = run[r].max, x.peak = run[r].peak,
           x.clean = run[r].clean, x.halted \/ x.halted = run[r].halted
    PROVE  RunsClose /\ (x.halted = run[r].halted => (MayWrite(r)' <=> MayWrite(r)))
<1>1. run \in [Runs -> RunRec] /\ MaxOK(r)
  BY DEF IInv, Types, RunsOK
<1>2. /\ run' \in [Runs -> RunRec] /\ run'[r] = x
      /\ \A q \in Runs \ {r} : run'[q] = run[q]
  BY <1>1
<1>3. run[r].peak \in 0 .. N
  BY <1>1 DEF RunRec
<1>4. RunMove(r)
  BY <1>1, <1>2, <1>3 DEF RunMove, MaxOK
<1>5. \A q \in Runs : RunMove(q)
  BY <1>2, <1>4, MoveNone
<1>6. \A q \in Runs : MayWrite(q)' => MayWrite(q)
  BY <1>2 DEF MayWrite
<1>7. QED
  BY <1>2, <1>5, <1>6 DEF MayWrite, RunsClose, RunsMove

\* Runs that are left.
LEMMA RunsLeft ==
    ASSUME IInv, UNCHANGED run
    PROVE  RunsClose /\ \A q \in Runs : MayWrite(q)' <=> MayWrite(q)
<1>1. run' \in [Runs -> RunRec]
  BY DEF IInv, Types
<1>2. \A q \in Runs : RunMove(q)
  BY MoveNone
<1>3. \A q \in Runs : MayWrite(q)' <=> MayWrite(q)
  BY DEF MayWrite
<1>4. QED
  BY <1>1, <1>2, <1>3 DEF RunsClose, RunsMove

\* The loop is over.
LEMMA EndOutcome ==
    ASSUME IInv, NEW r \in Runs, NEW again \in BOOLEAN, EndLoop(r, again), RunsClose
    PROVE  Outcome(r)
<1>1. armed \in [Runs -> BOOLEAN]
  BY DEF IInv, Types
<1>2. armed' \in [Runs -> BOOLEAN]
  BY <1>1 DEF EndLoop
<1>3. loop' = [loop EXCEPT ![r] = NoLoop]
  BY DEF EndLoop
<1>4. QED
  BY <1>2, <1>3, NoRecords DEF Outcome

\* The loop is over and its run is halted.
LEMMA HaltOutcome ==
    ASSUME IInv, NEW r \in Runs, Halt(r)
    PROVE  Outcome(r)
<1> DEFINE x == [run[r] EXCEPT !.halted = TRUE]
<1>1. run \in [Runs -> RunRec] /\ run[r] \in RunRec
  BY DEF IInv, Types
<1>2. run' = [run EXCEPT ![r] = x] /\ EndLoop(r, FALSE)
  BY DEF Halt
<1>3. x \in RunRec
  BY <1>1, RunWith
<1>4. /\ x.phase = run[r].phase /\ x.source = run[r].source
      /\ x.forth = run[r].forth /\ x.max = run[r].max /\ x.peak = run[r].peak
      /\ x.clean = run[r].clean /\ x.halted
  BY <1>1 DEF RunRec
<1> HIDE DEF x
<1>5. RunsClose
  BY <1>2, <1>3, <1>4, RunOne
<1>6. QED
  BY <1>2, <1>5, EndOutcome

\* On to the next target.
LEMMA ContinueOutcome ==
    ASSUME IInv, NEW r \in Runs, loop[r].pc # "none", NEW fails \in Nat,
           Continue(r, fails), RunsClose, MayWrite(r)', UNCHANGED armed
    PROVE  Outcome(r)
<1> DEFINE l == [loop[r] EXCEPT !.pc = "top", !.todo = @ \ {loop[r].t},
                                !.t = 0, !.fails = fails]
<1>1. /\ loop \in [Runs -> LoopRec] /\ loop[r] \in LoopRec
      /\ armed' \in [Runs -> BOOLEAN]
  BY DEF IInv, Types
<1>2. loop' = [loop EXCEPT ![r] = l]
  BY <1>1 DEF Continue
<1>3. l \in LoopRec
  <2>1. /\ loop[r].todo \ {loop[r].t} \in SUBSET Targets
        /\ 0 \in 0 .. N /\ "top" \in {"none", "top", "read", "send", "sent",
                                      "landed", "back", "restored"}
    BY <1>1, BulkAssumption DEF LoopRec
  <2>2. [loop[r] EXCEPT !.pc = "top", !.todo = loop[r].todo \ {loop[r].t}] \in LoopRec
    BY <1>1, <2>1, LoopWith
  <2>3. QED
    BY <2>1, <2>2, LoopWith
<1>4. l.pc = "top"
  BY <1>1 DEF LoopRec
<1> HIDE DEF l
<1>5. QED
  BY <1>1, <1>2, <1>3, <1>4 DEF Outcome

\* The rollback begins.
LEMMA RollbackOutcome ==
    ASSUME IInv, NEW r \in Runs, loop[r].pc # "none", StartRollback(r),
           RunsClose, MayWrite(r)', UNCHANGED armed
    PROVE  Outcome(r)
<1> DEFINE list == listApplied(r) \cup listSentUnrecorded(r)
           l == [loop[r] EXCEPT !.pc = "back", !.t = 0, !.clean = TRUE, !.todo = list]
<1>1. /\ loop \in [Runs -> LoopRec] /\ loop[r] \in LoopRec
      /\ armed' \in [Runs -> BOOLEAN]
  BY DEF IInv, Types
<1>2. list \in SUBSET Targets
  BY DEF listApplied, listSentUnrecorded, Writing
<1>3. loop' = [loop EXCEPT ![r] = l]
  BY <1>1 DEF StartRollback
<1> HIDE DEF list
<1>4. l \in LoopRec
  <2>1. 0 \in 0 .. N /\ "back" \in {"none", "top", "read", "send", "sent",
                                    "landed", "back", "restored"}
    BY BulkAssumption
  <2>2. [loop[r] EXCEPT !.pc = "back", !.t = 0] \in LoopRec
    BY <1>1, <2>1, LoopWith
  <2>3. QED
    BY <1>2, <2>2, LoopWith
<1>5. l.pc = "back" /\ l.todo = list
  BY <1>1 DEF LoopRec
<1> HIDE DEF l
<1>6. QED
  BY <1>1, <1>3, <1>4, <1>5 DEF Outcome, list

\* The loop stops on demand, or at the end of its time.
LEMMA StopOutcome ==
    ASSUME IInv, NEW r \in Runs, loop[r].pc # "none", StopHere(r)
    PROVE  Outcome(r)
<1>1. CASE atomic /\ listApplied(r) # {}
  <2>1. StartRollback(r) /\ UNCHANGED <<run, armed>>
    BY <1>1 DEF StopHere
  <2>2. RunsClose /\ MayWrite(r)'
    BY <2>1, RunsLeft, OneLoop
  <2>3. QED
    BY <2>1, <2>2, RollbackOutcome
<1>2. CASE ~(atomic /\ listApplied(r) # {})
  BY <1>2, HaltOutcome DEF StopHere
<1>3. QED
  BY <1>1, <1>2

\* At the start of a rollback every target the run still holds is on its
\* list, recorded or not.
LEMMA RollbackListWhole ==
    ASSUME IInv, NEW r \in Runs, NEW t \in Targets, world[t].by = r
    PROVE  t \in listApplied(r) \cup listSentUnrecorded(r)
<1>1. Held(r, t) /\ RowOK(r, t) /\ row[r][t] \in RowRec
  BY DEF IInv, CellsOK, Types
<1>2. row[r][t].sent /\ row[r][t].in = "in" /\ ~row[r][t].undone /\ ~row[r][t].found
  BY <1>1 DEF Held, RowOK
<1>3. QED
  BY <1>2 DEF listApplied, listSentUnrecorded, Writing

\* The loops after such a step.
LEMMA OutcomeLoops ==
    ASSUME IInv, NEW r \in Runs, loop[r].pc # "none" \/ MayWrite(r), Outcome(r),
           UNCHANGED world
    PROVE  /\ loop' \in [Runs -> LoopRec] /\ armed' \in [Runs -> BOOLEAN]
           /\ \A q \in Runs : LoopOK(q)'
           /\ RunsMove /\ OneOpen' /\ LoopOpen'
<1>1. PICK l \in LoopRec :
          /\ loop' = [loop EXCEPT ![r] = l]
          /\ l.pc # "none" => MayWrite(r)'
          /\ \/ l.pc \in {"none", "top"}
             \/ l.pc = "back" /\ l.todo = listApplied(r) \cup listSentUnrecorded(r)
  BY DEF Outcome
<1>2. loop \in [Runs -> LoopRec] /\ loop'[r] = l
  BY <1>1 DEF IInv, Types
<1>3. LoopOK(r)'
  <2>1. CASE l.pc \in {"none", "top"}
    BY <1>2, <2>1, LoopRests
  <2>2. CASE l.pc = "back" /\ l.todo = listApplied(r) \cup listSentUnrecorded(r)
    <3>1. \A t \in Targets : world'[t].by = r => t \in loop'[r].todo
      BY <1>2, <2>2, RollbackListWhole
    <3>2. loop'[r].pc = "back"
      BY <1>2, <2>2
    <3>3. QED
      BY <3>1, <3>2 DEF LoopOK, AtTarget
  <2>3. QED
    BY <1>1, <2>1, <2>2
<1>4. /\ loop' \in [Runs -> LoopRec]
      /\ \A q \in Runs \ {r} : loop'[q].pc = "none"
      /\ \A q \in Runs : LoopOK(q)'
  BY <1>1, <1>3, LoopAlone
<1>5. RunsMove /\ \A q \in Runs : MayWrite(q)' => MayWrite(q)
  BY DEF Outcome, RunsClose
<1>6. OneOpen'
  BY <1>5 DEF IInv, OneOpen
<1>7. LoopOpen'
  BY <1>1, <1>2, <1>4 DEF LoopOpen
<1>8. armed' \in [Runs -> BOOLEAN]
  BY DEF Outcome
<1>9. QED
  BY <1>4, <1>5, <1>6, <1>7, <1>8

\* Whichever way the step ends, the invariant is kept.
LEMMA OutcomeKeeps ==
    ASSUME IInv, NEW r \in Runs, loop[r].pc # "none" \/ MayWrite(r), Outcome(r),
           RowsSame, UNCHANGED <<mode, probe, world, landed, events>>,
           adrift' \in SUBSET (Runs \X Targets),
           \A q \in Runs, t \in Targets : ChanceOK(q, t)',
           \A q \in Runs, t \in Targets :
               row'[q][t].unknown = 0 \/ run[q].phase \notin {"unplanned", "previewed"}
    PROVE  IInv'
<1>1. probe' \in BOOLEAN /\ events' \in Nat
  BY DEF IInv, Types
<1>2. QED
  BY <1>1, OutcomeLoops, LedgerStep

\* The same when the rows and the requests under way are left.
LEMMA OutcomeQuiet ==
    ASSUME IInv, NEW r \in Runs, loop[r].pc # "none" \/ MayWrite(r), Outcome(r),
           RowsSame, CountsSame,
           UNCHANGED <<mode, probe, world, adrift, landed, events>>
    PROVE  IInv'
<1>1. adrift' \in SUBSET (Runs \X Targets)
  BY DEF IInv, Types
<1>2. QED
  BY <1>1, ChancesKept, OutcomeKeeps

-----------------------------------------------------------------------------
(***************************************************************************)
(* A target that is given back or fails.                                   *)
(***************************************************************************)

\* Rows that agree with the ledger's but for errors and claims.
LikeRows(rows) ==
    /\ rows \in [Runs -> [Targets -> RowRec]]
    /\ \A q \in Runs, u \in Targets : SameRow(row[q][u], rows[q][u])

\* Rows with one of them replaced.
RowsPut(rows, r, t, x) == [rows EXCEPT ![r][t] = x]

\* recordFailed writes the error and gives the claim back.
RowsFailed(rows, r, t, error) ==
    [rows EXCEPT ![r][t].error = error, ![r][t].claim = "none"]

Claims == {"none", "fresh", "stale"}

RowsClaimed(rows, r, t, claim) == [rows EXCEPT ![r][t].claim = claim]

\* Rows that differ from others in one row, and there in errors and claims.
LEMMA LikePut ==
    ASSUME NEW rows, LikeRows(rows), NEW r \in Runs, NEW t \in Targets, NEW x \in RowRec,
           SameRow(rows[r][t], x), x.unknown = rows[r][t].unknown
    PROVE  /\ LikeRows(RowsPut(rows, r, t, x))
           /\ \A q \in Runs, u \in Targets :
                 RowsPut(rows, r, t, x)[q][u].unknown = rows[q][u].unknown
<1> DEFINE new == [rows EXCEPT ![r][t] = x]
<1>1. rows \in [Runs -> [Targets -> RowRec]]
  BY DEF LikeRows
<1>2. /\ new \in [Runs -> [Targets -> RowRec]] /\ new[r][t] = x
      /\ \A q \in Runs, u \in Targets : q # r \/ u # t => new[q][u] = rows[q][u]
  BY <1>1, RowPut
<1> HIDE DEF new
<1>3. \A q \in Runs, u \in Targets :
         SameRow(rows[q][u], new[q][u]) /\ new[q][u].unknown = rows[q][u].unknown
  BY <1>2 DEF SameRow
<1>4. LikeRows(new)
  BY <1>2, <1>3 DEF LikeRows, SameRow
<1>5. QED
  BY <1>3, <1>4 DEF new, RowsPut

\* A target that failed keeps what was sent to it, ...
LEMMA FailedRow ==
    ASSUME NEW rows, LikeRows(rows), NEW r \in Runs, NEW t \in Targets,
           NEW error \in Errors
    PROVE  /\ LikeRows(RowsFailed(rows, r, t, error))
           /\ \A q \in Runs, u \in Targets :
                 RowsFailed(rows, r, t, error)[q][u].unknown = rows[q][u].unknown
<1> DEFINE x == [rows[r][t] EXCEPT !.error = error, !.claim = "none"]
<1>1. rows \in [Runs -> [Targets -> RowRec]] /\ rows[r][t] \in RowRec
  BY DEF LikeRows
<1>2. x \in RowRec
  <2>1. error \in Errors /\ "none" \in {"none", "fresh", "stale"}
    OBVIOUS
  <2>2. QED
    BY <1>1, <2>1, RowWith, Zenon
<1>3. SameRow(rows[r][t], x) /\ x.unknown = rows[r][t].unknown
  BY <1>1 DEF RowRec, SameRow
<1>4. RowsFailed(rows, r, t, error) = RowsPut(rows, r, t, x)
  BY <1>1 DEF RowsFailed, RowsPut
<1> HIDE DEF x
<1>5. QED
  BY <1>2, <1>3, <1>4, LikePut

\* ... and so does one whose claim is given back, taken, or grows stale.
LEMMA ClaimedRow ==
    ASSUME NEW rows, LikeRows(rows), NEW r \in Runs, NEW t \in Targets,
           NEW claim \in Claims
    PROVE  /\ LikeRows(RowsClaimed(rows, r, t, claim))
           /\ \A q \in Runs, u \in Targets :
                 RowsClaimed(rows, r, t, claim)[q][u].unknown = rows[q][u].unknown
<1> DEFINE x == [rows[r][t] EXCEPT !.claim = claim]
<1>1. rows \in [Runs -> [Targets -> RowRec]] /\ rows[r][t] \in RowRec
  BY DEF LikeRows
<1>2. x \in RowRec
  BY <1>1, RowWith DEF Claims
<1>3. SameRow(rows[r][t], x) /\ x.unknown = rows[r][t].unknown
  BY <1>1 DEF RowRec, SameRow
<1>4. RowsClaimed(rows, r, t, claim) = RowsPut(rows, r, t, x)
  BY <1>1 DEF RowsClaimed, RowsPut
<1> HIDE DEF x
<1>5. QED
  BY <1>2, <1>3, <1>4, LikePut

\* The ledger's own rows.
LEMMA OwnRows ==
    ASSUME IInv
    PROVE  LikeRows(row)
  BY DEF IInv, Types, LikeRows, SameRow

\* recordFailed and what follows.
LEMMA FailOutcome ==
    ASSUME IInv, NEW r \in Runs, loop[r].pc \in AtTarget, NEW rows, LikeRows(rows),
           NEW error \in Errors, FailTarget(r, rows, error)
    PROVE  /\ Outcome(r) /\ RowsSame
           /\ \A q \in Runs, u \in Targets : row'[q][u].unknown = rows[q][u].unknown
<1> DEFINE t == loop[r].t
           counted == error \notin {"conflict", "sent_unknown"}
           failed == run[r].failed + (IF counted THEN 1 ELSE 0)
           fails == loop[r].fails + 1
<1>1. /\ loop[r].pc # "none" /\ t \in Targets
      /\ run \in [Runs -> RunRec] /\ run[r] \in RunRec /\ loop[r] \in LoopRec
  BY DEF IInv, Types, RunsOK, LoopOK, AtTarget
<1>2. failed \in Nat /\ fails \in Nat /\ loop[r].fails \in Nat
  BY <1>1 DEF RunRec, LoopRec
<1>3. row' = RowsFailed(rows, r, t, error)
  BY DEF FailTarget, RowsFailed
<1>4. /\ RowsSame
      /\ \A q \in Runs, u \in Targets : row'[q][u].unknown = rows[q][u].unknown
  <2> HIDE DEF t
  <2>1. /\ LikeRows(row')
        /\ \A q \in Runs, u \in Targets : row'[q][u].unknown = rows[q][u].unknown
    BY <1>1, <1>3, FailedRow
  <2>2. QED
    BY <2>1 DEF RowsSame, LikeRows
<1>5. MayWrite(r)
  BY <1>1, OneLoop
<1> DEFINE x == [run[r] EXCEPT !.failed = failed]
           y == [run[r] EXCEPT !.failed = failed, !.halted = TRUE]
<1>6. \/ /\ \E f \in Nat : Continue(r, f)
         /\ UNCHANGED <<run, armed>>
      \/ /\ run' = [run EXCEPT ![r] = x] /\ UNCHANGED armed
         /\ \/ StartRollback(r)
            \/ \E f \in Nat : Continue(r, f)
      \/ run' = [run EXCEPT ![r] = y] /\ EndLoop(r, FALSE)
  <2>1. \/ Continue(r, loop[r].fails) /\ UNCHANGED <<run, armed>>
        \/ StartRollback(r) /\ run' = [run EXCEPT ![r].failed = failed] /\ UNCHANGED armed
        \/ Continue(r, 0) /\ UNCHANGED <<run, armed>>
        \/ /\ run' = [run EXCEPT ![r].failed = failed, ![r].halted = TRUE]
           /\ EndLoop(r, FALSE)
        \/ run' = [run EXCEPT ![r].failed = failed] /\ Continue(r, fails) /\ UNCHANGED armed
    BY DEF FailTarget
  <2> HIDE DEF failed, fails
  <2>2. /\ run' = [run EXCEPT ![r].failed = failed] => run' = [run EXCEPT ![r] = x]
        /\ run' = [run EXCEPT ![r].failed = failed, ![r].halted = TRUE]
              => run' = [run EXCEPT ![r] = y]
    BY <1>1
  <2> HIDE DEF x, y
  <2>3. QED
    BY <1>2, <2>1, <2>2
<1> HIDE DEF failed, fails
<1>7. /\ x \in RunRec /\ x.phase = run[r].phase /\ x.source = run[r].source
      /\ x.forth = run[r].forth /\ x.max = run[r].max /\ x.peak = run[r].peak
      /\ x.clean = run[r].clean /\ x.halted = run[r].halted
  BY <1>1, <1>2 DEF RunRec
<1>8. /\ y \in RunRec /\ y.phase = run[r].phase /\ y.source = run[r].source
      /\ y.forth = run[r].forth /\ y.max = run[r].max /\ y.peak = run[r].peak
      /\ y.clean = run[r].clean /\ y.halted
  <2>1. y \in RunRec
    <3>1. failed \in Nat /\ TRUE \in BOOLEAN
      BY <1>2
    <3>2. QED
      BY <1>1, <3>1, RunWith, Zenon
  <2>2. QED
    BY <1>1, <2>1 DEF RunRec
<1> HIDE DEF x, y
<1>9. Outcome(r)
  <2>1. CASE (\E f \in Nat : Continue(r, f)) /\ UNCHANGED <<run, armed>>
    <3>1. RunsClose /\ MayWrite(r)'
      BY <1>5, <2>1, RunsLeft
    <3>2. QED
      BY <1>1, <2>1, <3>1, ContinueOutcome
  <2>2. CASE /\ run' = [run EXCEPT ![r] = x] /\ UNCHANGED armed
             /\ StartRollback(r) \/ \E f \in Nat : Continue(r, f)
    <3>1. RunsClose /\ MayWrite(r)'
      BY <1>5, <1>7, <2>2, RunOne
    <3>2. QED
      BY <1>1, <2>2, <3>1, ContinueOutcome, RollbackOutcome
  <2>3. CASE run' = [run EXCEPT ![r] = y] /\ EndLoop(r, FALSE)
    <3>1. RunsClose
      BY <1>8, <2>3, RunOne
    <3>2. QED
      BY <2>3, <3>1, EndOutcome
  <2>4. QED
    BY <1>6, <2>1, <2>2, <2>3
<1>10. QED
  BY <1>4, <1>9

\* A target given back by a halt.
LEMMA HaltTargetOutcome ==
    ASSUME IInv, NEW r \in Runs, loop[r].pc \in AtTarget, NEW rows, LikeRows(rows),
           HaltTarget(r, rows)
    PROVE  /\ Outcome(r) /\ RowsSame
           /\ \A q \in Runs, u \in Targets : row'[q][u].unknown = rows[q][u].unknown
<1>1. loop[r].t \in Targets
  BY DEF IInv, RunsOK, LoopOK
<1>2. /\ row' = RowsClaimed(rows, r, loop[r].t, "none") /\ Halt(r)
      /\ "none" \in Claims
  BY DEF HaltTarget, RowsClaimed, Claims
<1>3. /\ RowsSame
      /\ \A q \in Runs, u \in Targets : row'[q][u].unknown = rows[q][u].unknown
  <2>1. /\ LikeRows(row')
        /\ \A q \in Runs, u \in Targets : row'[q][u].unknown = rows[q][u].unknown
    BY <1>1, <1>2, ClaimedRow
  <2>2. QED
    BY <2>1 DEF RowsSame, LikeRows
<1>4. QED
  BY <1>2, <1>3, HaltOutcome

\* The read fails, or the request is stopped before it leaves.
LEMMA NotSentKeeps ==
    ASSUME IInv, NEW r \in Runs, NotSent(r)
    PROVE  IInv'
<1>1. loop[r].pc \in AtTarget /\ loop[r].pc # "none"
  BY DEF NotSent, AtTarget
<1>2. Outcome(r) /\ RowsSame /\ CountsSame
  <2>1. CASE FailTarget(r, row, "failed") \/ FailTarget(r, row, "secret")
    BY <1>1, <2>1, OwnRows, FailOutcome DEF CountsSame, Errors
  <2>2. CASE HaltTarget(r, row)
    BY <1>1, <2>2, OwnRows, HaltTargetOutcome DEF CountsSame
  <2>3. QED
    BY <2>1, <2>2 DEF NotSent
<1>3. UNCHANGED <<mode, probe, world, adrift, landed, events>>
  BY DEF NotSent
<1>4. QED
  BY <1>1, <1>2, <1>3, OutcomeQuiet

\* A refusal takes the send's count back, and nothing else.
LEMMA RefusedRows ==
    ASSUME IInv, NEW r \in Runs, NEW t \in Targets
    PROVE  /\ LikeRows(markRefused(r, t))
           /\ \A q \in Runs, u \in Targets :
                 q # r \/ u # t => markRefused(r, t)[q][u].unknown = row[q][u].unknown
           /\ row[r][t].unknown = 1 => markRefused(r, t)[r][t].unknown = 0
<1> DEFINE n == IF row[r][t].unknown > 0 THEN row[r][t].unknown - 1 ELSE row[r][t].unknown
           x == [row[r][t] EXCEPT !.unknown = n]
           new == [row EXCEPT ![r][t] = x]
<1>1. row \in [Runs -> [Targets -> RowRec]] /\ row[r][t] \in RowRec
  BY DEF IInv, Types
<1>2. row[r][t].unknown \in 0 .. 2
  BY <1>1 DEF RowRec
<1>3. n \in 0 .. 2 /\ (row[r][t].unknown = 1 => n = 0)
  BY <1>2
<1>4. markRefused(r, t) = new
  BY <1>1 DEF markRefused
<1> HIDE DEF n
<1>5. x \in RowRec /\ SameRow(row[r][t], x) /\ x.unknown = n
  <2>1. x \in RowRec
    BY <1>1, <1>3, RowWith
  <2>2. QED
    BY <1>1, <2>1 DEF RowRec, SameRow
<1> HIDE DEF x
<1>6. /\ new \in [Runs -> [Targets -> RowRec]] /\ new[r][t] = x
      /\ \A q \in Runs, u \in Targets : q # r \/ u # t => new[q][u] = row[q][u]
  BY <1>1, <1>5, RowPut
<1> HIDE DEF new
<1>7. LikeRows(new)
  BY <1>5, <1>6 DEF LikeRows, SameRow
<1>8. QED
  BY <1>3, <1>4, <1>5, <1>6, <1>7

\* The write did not take effect.
LEMMA WriteRefusedKeeps ==
    ASSUME IInv, NEW r \in Runs, WriteRefused(r)
    PROVE  IInv'
<1> DEFINE t == loop[r].t
           rows == IF external THEN markRefused(r, t) ELSE row
<1>1. /\ loop[r].pc = "sent" /\ loop[r].pc \in AtTarget
      /\ FailTarget(r, rows, "failed") \/ HaltTarget(r, rows)
      /\ UNCHANGED <<mode, probe, world, adrift, landed, events>>
  BY DEF WriteRefused, AtTarget
<1>2. t \in Targets
  BY <1>1 DEF IInv, RunsOK, LoopOK
<1>3. MayWrite(r)
  BY <1>1, OneLoop
<1>4. LikeRows(rows)
  BY <1>2, RefusedRows, OwnRows
<1>5. CASE ~external
  <2>1. rows = row
    BY <1>5
  <2> HIDE DEF rows
  <2>2. "failed" \in Errors
    BY DEF Errors
  <2>3. Outcome(r) /\ RowsSame /\ CountsSame
    BY <1>1, <1>4, <2>1, <2>2, FailOutcome, HaltTargetOutcome DEF CountsSame
  <2>4. QED
    BY <1>1, <1>3, <2>3, OutcomeQuiet
<1>6. CASE external
  <2>1. /\ rows = markRefused(r, t)
        /\ row[r][t].unknown = 1 /\ landed[r][t] = 0 /\ <<r, t>> \notin adrift
    BY <1>1, <1>6 DEF IInv, RunsOK, LoopOK
  <2>2. /\ rows[r][t].unknown = 0
        /\ \A q \in Runs, u \in Targets :
              q # r \/ u # t => rows[q][u].unknown = row[q][u].unknown
    BY <1>2, <2>1, RefusedRows
  <2> HIDE DEF rows
  <2>3. "failed" \in Errors
    BY DEF Errors
  <2>4. /\ Outcome(r) /\ RowsSame
        /\ \A q \in Runs, u \in Targets : row'[q][u].unknown = rows[q][u].unknown
    BY <1>1, <1>4, <2>3, FailOutcome, HaltTargetOutcome
  <2> HIDE DEF t
  <2>5. ASSUME NEW q \in Runs, NEW u \in Targets
        PROVE  /\ ChanceOK(q, u)'
               /\ row'[q][u].unknown = 0 \/ run[q].phase \notin {"unplanned", "previewed"}
    <3>1. ChanceOK(q, u) /\ RowOK(q, u)
      BY DEF IInv, CellsOK
    <3>2. external' = external
      BY <1>1 DEF external
    <3>3. CASE q = r /\ u = t
      BY <1>1, <1>6, <2>1, <2>2, <2>4, <3>1, <3>2, <3>3 DEF ChanceOK
    <3>4. CASE ~(q = r /\ u = t)
      BY <1>1, <2>2, <2>4, <3>1, <3>2, <3>4 DEF ChanceOK, RowOK
    <3>5. QED
      BY <3>3, <3>4
  <2>6. adrift' \in SUBSET (Runs \X Targets)
    BY <1>1 DEF IInv, Types
  <2>7. QED
    BY <1>1, <1>3, <2>4, <2>5, <2>6, OutcomeKeeps
<1>7. QED
  BY <1>5, <1>6

\* The answer is unclear: what was sent may still be carried out.
LEMMA AnswerUnclearKeeps ==
    ASSUME IInv, NEW r \in Runs, AnswerUnclear(r)
    PROVE  IInv'
<1> DEFINE t == loop[r].t
<1>1. /\ external /\ loop[r].pc \in AtTarget
      /\ FailTarget(r, row, "failed") \/ HaltTarget(r, row)
      /\ \/ loop[r].pc = "landed" /\ UNCHANGED adrift
         \/ loop[r].pc = "sent" /\ adrift' = adrift \cup {<<r, t>>}
      /\ UNCHANGED <<mode, probe, world, landed, events>>
  BY DEF AnswerUnclear, AtTarget
<1>2. t \in Targets
  BY <1>1 DEF IInv, RunsOK, LoopOK
<1>3. MayWrite(r)
  BY <1>1, OneLoop DEF AtTarget
<1>4. "failed" \in Errors
  BY DEF Errors
<1>5. Outcome(r) /\ RowsSame /\ CountsSame
  BY <1>1, <1>4, OwnRows, FailOutcome, HaltTargetOutcome DEF CountsSame
<1>6. CASE UNCHANGED adrift
  BY <1>1, <1>3, <1>5, <1>6, OutcomeQuiet
<1>7. CASE loop[r].pc = "sent" /\ adrift' = adrift \cup {<<r, t>>}
  <2>1. row[r][t].unknown = 1 /\ landed[r][t] = 0
    BY <1>1, <1>7 DEF IInv, RunsOK, LoopOK
  <2>2. adrift \in SUBSET (Runs \X Targets)
    BY DEF IInv, Types
  <2> HIDE DEF t
  <2>3. adrift' \in SUBSET (Runs \X Targets)
    BY <1>2, <1>7, <2>2
  <2>4. ASSUME NEW q \in Runs, NEW u \in Targets
        PROVE  /\ ChanceOK(q, u)'
               /\ row'[q][u].unknown = 0 \/ run[q].phase \notin {"unplanned", "previewed"}
    <3>1. ChanceOK(q, u) /\ RowOK(q, u) /\ row'[q][u].unknown = row[q][u].unknown
      BY <1>5 DEF IInv, CellsOK, CountsSame
    <3>2. external' = external
      BY <1>1 DEF external
    <3>3. CASE q = r /\ u = t
      BY <1>1, <1>7, <2>1, <3>1, <3>2, <3>3 DEF ChanceOK, RowOK
    <3>4. CASE ~(q = r /\ u = t)
      <4>1. <<q, u>> \in adrift' <=> <<q, u>> \in adrift
        BY <1>7, <3>4
      <4>2. QED
        BY <1>1, <3>1, <3>2, <4>1 DEF ChanceOK, RowOK
    <3>5. QED
      BY <3>3, <3>4
  <2>5. QED
    BY <1>1, <1>3, <1>5, <2>3, <2>4, OutcomeKeeps
<1>8. QED
  BY <1>1, <1>6, <1>7

-----------------------------------------------------------------------------
(***************************************************************************)
(* The ends of a loop.                                                     *)
(***************************************************************************)

\* The checks before the loop halt the run.
LEMMA StartHaltsKeeps ==
    ASSUME IInv, NEW r \in Runs, StartHalts(r)
    PROVE  IInv'
<1>1. /\ MayWrite(r) /\ Halt(r)
      /\ UNCHANGED <<mode, probe, row, world, adrift, landed, events>>
  BY DEF StartHalts
<1>2. Outcome(r)
  BY <1>1, HaltOutcome
<1>3. QED
  BY <1>1, <1>2, RowsLeft, OutcomeQuiet

\* The time of the pass is over.
LEMMA OutOfTimeKeeps ==
    ASSUME IInv, NEW r \in Runs, OutOfTime(r)
    PROVE  IInv'
<1>1. /\ loop[r].pc # "none" /\ StopHere(r)
      /\ UNCHANGED <<mode, probe, row, world, adrift, landed, events>>
  BY DEF OutOfTime
<1>2. QED
  BY <1>1, StopOutcome, RowsLeft, OutcomeQuiet

\* A source is reported as undone when the ledger has nothing left to undo,
\* and then the targets hold nothing by it.
LEMMA NothingLeft ==
    ASSUME IInv, NEW r \in Runs, undoEligible(r) = {}, NEW t \in Targets,
           world[t].by = r
    PROVE  ~external /\ ~row[r][t].applied
<1>1. Held(r, t) /\ RowOK(r, t)
  BY DEF IInv, CellsOK
<1>2. row[r][t].sent /\ row[r][t].in = "in" /\ ~row[r][t].undone /\ ~row[r][t].found
  BY <1>1 DEF Held, RowOK
<1>3. t \notin undoEligible(r)
  OBVIOUS
<1>4. QED
  BY <1>2, <1>3 DEF undoEligible, Writing

\* BulkLedger.finish.
LEMMA FinishCloses ==
    ASSUME IInv, NEW r \in Runs, loop[r].pc # "none", finish(r)
    PROVE  RunsClose
<1> DEFINE src == run[r].source
           x == [run[r] EXCEPT !.phase = "done"]
           y == [run[src] EXCEPT !.phase = "undone"]
           done == [run EXCEPT ![r] = x]
           gone == /\ src # 0 /\ undoEligible(src) = {}
                   /\ run[src].phase \in {"done", "aborted", "writing"}
<1>1. /\ run \in [Runs -> RunRec] /\ run[r] \in RunRec /\ MaxOK(r) /\ SourceOK(r)
      /\ MayWrite(r)
  BY OneLoop DEF IInv, Types, RunsOK
<1>2. src # 0 => src \in Runs /\ src # r /\ run[src] \in RunRec /\ MaxOK(src)
  <2>1. src # 0 => src \in Runs /\ src # r
    BY <1>1, BulkAssumption DEF RunRec, Runs, SourceOK
  <2>2. QED
    BY <1>1, <2>1 DEF IInv, RunsOK
<1>3. x \in RunRec
  BY <1>1, RunWith DEF Phases
<1>4. /\ x.phase = "done" /\ x.source = run[r].source /\ x.forth = run[r].forth
      /\ x.max = run[r].max /\ x.peak = run[r].peak
  BY <1>1 DEF RunRec
<1>5. gone => y \in RunRec
  BY <1>2, RunWith DEF Phases
<1>6. gone => /\ y.phase = "undone" /\ y.source = run[src].source
              /\ y.forth = run[src].forth /\ y.max = run[src].max
              /\ y.peak = run[src].peak
  BY <1>2 DEF RunRec
<1>7. run' = IF gone THEN [done EXCEPT ![src] = y] ELSE done
  <2>1. run' = IF gone THEN [done EXCEPT ![src].phase = "undone"] ELSE done
    BY DEF finish
  <2>2. gone => [done EXCEPT ![src].phase = "undone"] = [done EXCEPT ![src] = y]
    BY <1>1, <1>2
  <2>3. QED
    BY <2>1, <2>2
<1>8. run[r].phase \in {"approved", "writing"}
  BY <1>1 DEF MayWrite
<1>9. run[r].peak \in Nat /\ (src # 0 => run[src].peak \in Nat)
  BY <1>1, <1>2, BulkAssumption DEF RunRec
<1> HIDE DEF x, y
<1>10. /\ run' \in [Runs -> RunRec] /\ run'[r] = x
       /\ gone => run'[src] = y
       /\ \A q \in Runs : q # r /\ ~(gone /\ q = src) => run'[q] = run[q]
  <2>1. CASE gone
    BY <1>1, <1>2, <1>3, <1>5, <1>7, <2>1
  <2>2. CASE ~gone
    BY <1>1, <1>3, <1>7, <2>2
  <2>3. QED
    BY <2>1, <2>2
<1>11. gone => src \in Runs /\ src # r /\ run[src].phase \in {"done", "aborted", "writing"}
                 /\ undoEligible(src) = {}
  BY <1>2
<1>12. RunMove(r)
  BY <1>1, <1>3, <1>4, <1>8, <1>9, <1>10 DEF RunMove, MaxOK
<1>13. gone => RunMove(src)
  <2>1. SUFFICES ASSUME gone PROVE RunMove(src)
    OBVIOUS
  <2>2. \A t \in Targets : world[t].by = src => ~external /\ ~row[src][t].applied
    BY <1>11, <2>1, NothingLeft
  <2>3. src # 0
    BY <2>1
  <2>4. /\ run'[src] = y /\ y \in RunRec /\ y.phase = "undone"
        /\ y.source = run[src].source
        /\ y.forth = run[src].forth /\ y.max = run[src].max
        /\ y.peak = run[src].peak /\ MaxOK(src) /\ run[src].peak \in Nat
        /\ run[src].phase # "unplanned"
    BY <1>2, <1>5, <1>6, <1>9, <1>10, <1>11, <2>1, <2>3
  <2> HIDE DEF src
  <2>5. QED
    BY <2>2, <2>4 DEF RunMove, MaxOK
<1>14. \A q \in Runs : MayWrite(q)' => MayWrite(q)
  BY <1>4, <1>6, <1>10 DEF MayWrite
<1>15. \A q \in Runs : RunMove(q)
  <2> HIDE DEF gone
  <2>1. QED
    BY <1>10, <1>12, <1>13, MoveNone
<1>16. QED
  BY <1>10, <1>14, <1>15 DEF RunsClose, RunsMove

\* The list is through.
LEMMA ThroughKeeps ==
    ASSUME IInv, NEW r \in Runs, Through(r)
    PROVE  IInv'
<1>1. /\ loop[r].pc # "none"
      /\ UNCHANGED <<mode, probe, row, world, adrift, landed, events>>
      /\ \/ finish(r) /\ EndLoop(r, FALSE)
         \/ Halt(r)
         \/ StopHere(r)
         \/ EndLoop(r, TRUE) /\ UNCHANGED run
  BY DEF Through
<1>2. Outcome(r)
  <2>1. CASE finish(r) /\ EndLoop(r, FALSE)
    BY <1>1, <2>1, FinishCloses, EndOutcome
  <2>2. CASE Halt(r)
    BY <2>2, HaltOutcome
  <2>3. CASE StopHere(r)
    BY <1>1, <2>3, StopOutcome
  <2>4. CASE EndLoop(r, TRUE) /\ UNCHANGED run
    BY <2>4, RunsLeft, EndOutcome
  <2>5. QED
    BY <1>1, <2>1, <2>2, <2>3, <2>4
<1>3. QED
  BY <1>1, <1>2, RowsLeft, OutcomeQuiet

\* The rollback is through: a clean one has nothing of its run left.
LEMMA RollbackEndsKeeps ==
    ASSUME IInv, NEW r \in Runs, RollbackEnds(r)
    PROVE  IInv'
<1> DEFINE x == [run[r] EXCEPT !.phase = "aborted", !.halted = TRUE,
                               !.clean = loop[r].clean]
<1>1. /\ loop[r].pc = "back" /\ loop[r].todo = {} /\ EndLoop(r, FALSE)
      /\ UNCHANGED <<mode, probe, row, world, adrift, landed, events>>
  BY DEF RollbackEnds
<1>2. /\ run \in [Runs -> RunRec] /\ run[r] \in RunRec /\ MaxOK(r) /\ LoopOK(r)
      /\ loop[r] \in LoopRec
  BY DEF IInv, Types, RunsOK
<1>3. loop[r].clean \in BOOLEAN /\ MayWrite(r)
  BY <1>1, <1>2, OneLoop DEF LoopRec
<1>4. x \in RunRec
  <2>1. "aborted" \in Phases /\ TRUE \in BOOLEAN
    BY DEF Phases
  <2>2. [run[r] EXCEPT !.phase = "aborted", !.halted = TRUE] \in RunRec
    BY <1>2, <2>1, RunWith, Zenon
  <2>3. QED
    BY <1>3, <2>2, RunWith, Zenon
<1>5. /\ x.phase = "aborted" /\ x.source = run[r].source /\ x.forth = run[r].forth
      /\ x.max = run[r].max /\ x.peak = run[r].peak /\ x.clean = loop[r].clean
  BY <1>2 DEF RunRec
<1>6. run' = [run EXCEPT ![r] = x]
  BY <1>2 DEF RollbackEnds
<1> HIDE DEF x
<1>7. /\ run' \in [Runs -> RunRec] /\ run'[r] = x
      /\ \A q \in Runs : q # r => run'[q] = run[q]
  BY <1>2, <1>4, <1>6
<1>8. loop[r].clean => \A t \in Targets : world[t].by # r
  BY <1>1, <1>2 DEF LoopOK
<1>9. run[r].peak \in Nat
  BY <1>2, BulkAssumption DEF RunRec
<1>10. RunMove(r)
  BY <1>2, <1>3, <1>4, <1>5, <1>7, <1>8, <1>9 DEF RunMove, MaxOK, MayWrite
<1>11. \A q \in Runs : MayWrite(q)' => MayWrite(q)
  BY <1>5, <1>7 DEF MayWrite
<1>12. RunsClose
  BY <1>7, <1>10, <1>11, MoveNone DEF RunsClose, RunsMove
<1>13. QED
  BY <1>1, <1>3, <1>12, EndOutcome, RowsLeft, OutcomeQuiet

-----------------------------------------------------------------------------
(***************************************************************************)
(* A loop moves and the ledger stands.                                     *)
(***************************************************************************)

\* A step of one loop that opens and closes no run.
LEMMA LoopMoves ==
    ASSUME IInv, NEW r \in Runs, loop[r].pc # "none", NEW l \in LoopRec,
           loop' = [loop EXCEPT ![r] = l], LoopOK(r)', RowsSame, CountsSame,
           UNCHANGED <<mode, probe, run, armed, world, adrift, landed, events>>
    PROVE  IInv'
<1>1. /\ loop' \in [Runs -> LoopRec] /\ \A q \in Runs \ {r} : loop'[q].pc = "none"
      /\ \A q \in Runs : LoopOK(q)'
  BY LoopAlone
<1>2. RunsMove /\ \A q \in Runs : MayWrite(q)' <=> MayWrite(q)
  BY RunsLeft DEF RunsClose
<1>3. OneOpen'
  BY <1>2 DEF IInv, OneOpen
<1>4. LoopOpen'
  BY <1>1, <1>2, OneLoop DEF LoopOpen
<1>5. /\ probe' \in BOOLEAN /\ armed' \in [Runs -> BOOLEAN] /\ events' \in Nat
      /\ adrift' \in SUBSET (Runs \X Targets)
  BY DEF IInv, Types
<1>6. QED
  BY <1>1, <1>2, <1>3, <1>4, <1>5, ChancesKept, LedgerStep

\* A write left for the owner's next resume, or claimed by a dead loop, is
\* skipped.
LEMMA SkipKeeps ==
    ASSUME IInv, NEW r \in Runs, loop[r].pc = "top", NEW l \in LoopRec,
           loop' = [loop EXCEPT ![r] = l], l.pc = "top",
           UNCHANGED <<mode, probe, run, row, armed, world, adrift, landed, events>>
    PROVE  IInv'
<1>1. loop \in [Runs -> LoopRec]
  BY DEF IInv, Types
<1>2. loop'[r].pc = "top"
  BY <1>1
<1>3. LoopOK(r)'
  BY <1>2, LoopRests
<1>4. QED
  BY <1>3, RowsLeft, LoopMoves

\* The room below the owner's maximum: a target that is not capped was sent to
\* before, or is one more within the maximum.
LEMMA RoomLeft ==
    ASSUME IInv, NEW r \in Runs, NEW t \in Targets, ~Capped(r, t),
           ~row[r][t].applied
    PROVE  row[r][t].sent \/ Cardinality(SentBy(r)) < run[r].peak
<1>1. CASE row[r][t].sent
  BY <1>1
<1>2. CASE ~row[r][t].sent
  <2>1. ~(Cardinality(sentTargets(r)) >= bulkWriteCap(run[r].max, loop[r].probed))
    BY <1>2 DEF Capped, wasSent
  <2>2. /\ SentBy(r) \in SUBSET Targets /\ sentTargets(r) \in SUBSET Targets
        /\ SentBy(r) \subseteq sentTargets(r)
    BY DEF SentBy, sentTargets
  <2>3. /\ Cardinality(SentBy(r)) \in Nat /\ Cardinality(sentTargets(r)) \in Nat
        /\ IsFiniteSet(sentTargets(r))
    BY <2>2, TargetsFinite
  <2>4. Cardinality(SentBy(r)) <= Cardinality(sentTargets(r))
    BY <2>2, <2>3, FS_Subset
  <2>5. run[r] \in RunRec /\ MaxOK(r)
    BY DEF IInv, Types, RunsOK
  <2>6. run[r].max \in Nat /\ run[r].peak \in Nat /\ run[r].max <= run[r].peak
    BY <2>5, BulkAssumption DEF RunRec, MaxOK
  <2>7. /\ bulkWriteCap(run[r].max, loop[r].probed) \in Nat
        /\ bulkWriteCap(run[r].max, loop[r].probed) <= run[r].max
    BY <2>6 DEF bulkWriteCap
  <2>8. QED
    BY <2>1, <2>3, <2>4, <2>6, <2>7
<1>3. QED
  BY <1>1, <1>2

\* The target is claimed and read next.
LEMMA ClaimKeeps ==
    ASSUME IInv, NEW r \in Runs, NEW t \in Targets, loop[r].pc = "top",
           ~Capped(r, t), claimTarget(r, t),
           row' = RowsClaimed(row, r, t, "fresh"),
           loop' = [loop EXCEPT ![r].pc = "read", ![r].t = t],
           UNCHANGED <<mode, probe, run, armed, world, adrift, landed, events>>
    PROVE  IInv'
<1> DEFINE l == [loop[r] EXCEPT !.pc = "read", !.t = t]
<1>1. /\ loop \in [Runs -> LoopRec] /\ loop[r] \in LoopRec
      /\ "fresh" \in Claims
  BY DEF IInv, Types, Claims
<1>2. RowsSame /\ CountsSame
  <2>1. /\ LikeRows(row')
        /\ \A q \in Runs, u \in Targets : row'[q][u].unknown = row[q][u].unknown
    BY <1>1, OwnRows, ClaimedRow
  <2>2. QED
    BY <2>1 DEF RowsSame, CountsSame, LikeRows
<1>3. l \in LoopRec
  <2>1. t \in 0 .. N /\ "read" \in {"none", "top", "read", "send", "sent",
                                    "landed", "back", "restored"}
    BY DEF Targets
  <2>2. QED
    BY <1>1, <2>1, LoopWith, Zenon
<1>4. l.pc = "read" /\ l.t = t
  BY <1>1 DEF LoopRec
<1>5. loop' = [loop EXCEPT ![r] = l]
  BY <1>1
<1> HIDE DEF l
<1>6. loop'[r].pc = "read" /\ loop'[r].t = t
  BY <1>1, <1>4, <1>5
<1>7. row[r][t].in = "in" /\ ~row[r][t].applied /\ ~row[r][t].undone
  BY DEF claimTarget, listPending, Writing
<1>8. row[r][t].sent \/ Cardinality(SentBy(r)) < run[r].peak
  BY <1>7, RoomLeft
<1>9. SameRow(row[r][t], row'[r][t]) /\ SentBy(r)' = SentBy(r)
  BY <1>2 DEF RowsSame, SameRow, SentBy
<1>10. LoopOK(r)'
  BY <1>6, <1>7, <1>8, <1>9 DEF LoopOK, AtTarget, SameRow
<1>11. QED
  BY <1>2, <1>3, <1>5, <1>10, LoopMoves

\* The head of the loop.
LEMMA PickTargetKeeps ==
    ASSUME IInv, NEW r \in Runs, PickTarget(r)
    PROVE  IInv'
<1> DEFINE t == FirstOf(r, loop[r].todo)
           rest == loop[r].todo \ {t}
           l == [loop[r] EXCEPT !.todo = rest]
           m == [loop[r] EXCEPT !.todo = rest, !.capped = TRUE]
<1>1. /\ loop \in [Runs -> LoopRec] /\ loop[r] \in LoopRec
  BY DEF IInv, Types
<1>2. /\ loop[r].pc = "top" /\ loop[r].pc # "none" /\ loop[r].todo # {}
      /\ UNCHANGED <<mode, probe, world, adrift, landed, events>>
  BY DEF PickTarget
<1>3. loop[r].todo \in SUBSET Targets
  BY <1>1 DEF LoopRec
<1>4. t \in Targets
  BY <1>2, <1>3, FirstIn
<1>5. \/ StopHere(r) /\ UNCHANGED row
      \/ loop' = [loop EXCEPT ![r] = m] /\ UNCHANGED <<run, row, armed>>
      \/ /\ ~Capped(r, t) /\ claimTarget(r, t) /\ UNCHANGED <<run, armed>>
         /\ row' = [row EXCEPT ![r][t].claim = "fresh"]
         /\ loop' = [loop EXCEPT ![r].pc = "read", ![r].t = t]
      \/ loop' = [loop EXCEPT ![r] = l] /\ UNCHANGED <<run, row, armed>>
  <2>1. \/ StopHere(r) /\ UNCHANGED row
        \/ /\ loop' = [loop EXCEPT ![r].todo = @ \ {t}, ![r].capped = TRUE]
           /\ UNCHANGED <<run, row, armed>>
        \/ /\ ~Capped(r, t) /\ claimTarget(r, t) /\ UNCHANGED <<run, armed>>
           /\ row' = [row EXCEPT ![r][t].claim = "fresh"]
           /\ loop' = [loop EXCEPT ![r].pc = "read", ![r].t = t]
        \/ /\ loop' = [loop EXCEPT ![r].todo = @ \ {t}]
           /\ UNCHANGED <<run, row, armed>>
    BY DEF PickTarget
  <2> HIDE DEF t
  <2>2. /\ loop' = [loop EXCEPT ![r].todo = @ \ {t}, ![r].capped = TRUE]
              => loop' = [loop EXCEPT ![r] = m]
        /\ loop' = [loop EXCEPT ![r].todo = @ \ {t}] => loop' = [loop EXCEPT ![r] = l]
    <3>1. [loop EXCEPT ![r].todo = @ \ {t}, ![r].capped = TRUE] = [loop EXCEPT ![r] = m]
      BY <1>1
    <3>2. [loop EXCEPT ![r].todo = @ \ {t}] = [loop EXCEPT ![r] = l]
      BY <1>1
    <3>3. QED
      BY <3>1, <3>2
  <2> HIDE DEF l, m
  <2>3. QED
    BY <2>1, <2>2
<1> HIDE DEF t
<1>6. rest \in SUBSET Targets
  BY <1>3
<1> HIDE DEF rest
<1>7. l \in LoopRec /\ m \in LoopRec
  <2>1. l \in LoopRec
    BY <1>1, <1>6, LoopWith
  <2>2. TRUE \in BOOLEAN
    OBVIOUS
  <2>3. m \in LoopRec
    BY <1>1, <1>6, <2>2, LoopWith, Zenon
  <2>4. QED
    BY <2>1, <2>3
<1>8. l.pc = "top" /\ m.pc = "top"
  BY <1>1, <1>2 DEF LoopRec
<1> HIDE DEF l, m
<1>9. CASE StopHere(r) /\ UNCHANGED row
  BY <1>2, <1>9, StopOutcome, RowsLeft, OutcomeQuiet
<1>10. CASE loop' = [loop EXCEPT ![r] = m] /\ UNCHANGED <<run, row, armed>>
  BY <1>2, <1>7, <1>8, <1>10, SkipKeeps
<1>11. CASE loop' = [loop EXCEPT ![r] = l] /\ UNCHANGED <<run, row, armed>>
  BY <1>2, <1>7, <1>8, <1>11, SkipKeeps
<1>12. CASE /\ ~Capped(r, t) /\ claimTarget(r, t) /\ UNCHANGED <<run, armed>>
            /\ row' = [row EXCEPT ![r][t].claim = "fresh"]
            /\ loop' = [loop EXCEPT ![r].pc = "read", ![r].t = t]
  <2>1. row' = RowsClaimed(row, r, t, "fresh")
    BY <1>12 DEF RowsClaimed
  <2>2. QED
    BY <1>2, <1>4, <1>12, <2>1, ClaimKeeps
<1>13. QED
  BY <1>5, <1>9, <1>10, <1>11, <1>12

-----------------------------------------------------------------------------
(***************************************************************************)
(* A loop reads, sends and records its target.                             *)
(***************************************************************************)

\* The parts of the invariant, put together after a step that moves the runs.
LEMMA Assemble ==
    ASSUME IInv, Types', RunsMove, OneOpen', LoopOpen',
           \A q \in Runs : LoopOK(q)' /\ GoneOK(q)',
           \A q \in Runs : Cardinality(SentBy(q)') <= run'[q].peak,
           \A q \in Runs, u \in Targets : Held(q, u)' /\ RowOK(q, u)' /\ ChanceOK(q, u)'
    PROVE  IInv'
<1>1. ASSUME NEW q \in Runs PROVE MaxOK(q)'
  <2>1. MaxOK(q) /\ RunMove(q) /\ Cardinality(SentBy(q)') <= run'[q].peak
    BY <1>1 DEF IInv, RunsOK, RunsMove
  <2>2. QED
    BY <2>1 DEF MaxOK, RunMove
<1>2. \A q \in Runs : SourceOK(q)'
  BY SourcesKept
<1>3. RunsOK' /\ CellsOK'
  BY <1>1, <1>2 DEF RunsOK, CellsOK
<1>4. QED
  BY <1>3 DEF IInv

\* A step of one loop that leaves the runs as they are.
LEMMA CellStep ==
    ASSUME IInv, NEW r \in Runs, loop[r].pc # "none", NEW l \in LoopRec,
           loop' = [loop EXCEPT ![r] = l], LoopOK(r)',
           UNCHANGED <<mode, probe, run, armed, events>>,
           row' \in [Runs -> [Targets -> RowRec]], world' \in [Targets -> Cell],
           adrift' \in SUBSET (Runs \X Targets),
           landed' \in [Runs -> [Targets -> 0 .. 2]],
           \A q \in Runs : Cardinality(SentBy(q)') <= run[q].peak,
           \A q \in Runs, u \in Targets : Held(q, u)' /\ RowOK(q, u)' /\ ChanceOK(q, u)',
           \A q \in Runs \ {r}, u \in Targets :
               /\ world'[u].by = q => world[u].by = q
               /\ row'[q][u].applied = row[q][u].applied
    PROVE  IInv'
<1>1. /\ loop' \in [Runs -> LoopRec] /\ \A q \in Runs \ {r} : loop'[q].pc = "none"
      /\ \A q \in Runs : LoopOK(q)'
  BY LoopAlone
<1>2. MayWrite(r)
  BY OneLoop
<1>3. RunsMove /\ \A q \in Runs : MayWrite(q)' <=> MayWrite(q)
  BY RunsLeft DEF RunsClose
<1>4. OneOpen'
  BY <1>3 DEF IInv, OneOpen
<1>5. LoopOpen'
  BY <1>1, <1>2, <1>3 DEF LoopOpen
<1>6. Types'
  BY <1>1 DEF IInv, Types
<1>7. ASSUME NEW q \in Runs PROVE GoneOK(q)'
  <2>1. CASE q = r
    BY <1>2, <2>1 DEF MayWrite, GoneOK
  <2>2. CASE q # r
    <3>1. GoneOK(q) /\ external' = external
      BY DEF IInv, RunsOK, external
    <3>2. \A u \in Targets : /\ world'[u].by = q => world[u].by = q
                             /\ row'[q][u].applied = row[q][u].applied
      BY <2>2
    <3>3. QED
      BY <3>1, <3>2 DEF GoneOK
  <2>3. QED
    BY <2>1, <2>2
<1>8. QED
  BY <1>1, <1>3, <1>4, <1>5, <1>6, <1>7, Assemble

\* A loop that goes on with its target.
LEMMA GoToLoop ==
    ASSUME IInv, NEW r \in Runs,
           NEW pc \in {"none", "top", "read", "send", "sent", "landed", "back", "restored"},
           GoTo(r, pc)
    PROVE  \E l \in LoopRec :
              /\ loop' = [loop EXCEPT ![r] = l] /\ loop'[r] = l
              /\ l.pc = pc /\ l.t = loop[r].t
<1> DEFINE l == [loop[r] EXCEPT !.pc = pc]
<1>1. loop \in [Runs -> LoopRec] /\ loop[r] \in LoopRec
  BY DEF IInv, Types
<1>2. l \in LoopRec
  BY <1>1, LoopWith
<1>3. l.pc = pc /\ l.t = loop[r].t
  BY <1>1 DEF LoopRec
<1>4. loop' = [loop EXCEPT ![r] = l] /\ loop'[r] = l
  BY <1>1 DEF GoTo
<1> HIDE DEF l
<1>5. QED
  BY <1>2, <1>3, <1>4

\* The target is as planned, and nothing under way may still change it: it is
\* written next.
LEMMA GoSendKeeps ==
    ASSUME IInv, NEW r \in Runs, loop[r].pc = "read", GoTo(r, "send"),
           ~(external /\ row[r][loop[r].t].unknown > 0),
           UNCHANGED <<mode, probe, run, row, armed, world, adrift, landed, events>>
    PROVE  IInv'
<1> DEFINE t == loop[r].t
<1>1. LoopOK(r) /\ loop[r].pc = "read"
  BY DEF IInv, RunsOK
<1>2. /\ t \in Targets /\ row[r][t].in = "in" /\ ~row[r][t].applied /\ ~row[r][t].undone
      /\ row[r][t].sent \/ Cardinality(SentBy(r)) < run[r].peak
  BY <1>1 DEF LoopOK, AtTarget
<1>3. external => row[r][t].unknown = 0
  <2>1. row[r][t] \in RowRec
    BY <1>2 DEF IInv, Types
  <2>2. row[r][t].unknown \in 0 .. 2
    BY <2>1 DEF RowRec
  <2>3. QED
    BY <2>2
<1>4. PICK l \in LoopRec : /\ loop' = [loop EXCEPT ![r] = l] /\ loop'[r] = l
                           /\ l.pc = "send" /\ l.t = t
  BY GoToLoop
<1> HIDE DEF t
<1>5. LoopOK(r)'
  <2>1. SentBy(r)' = SentBy(r) /\ external' = external
    BY DEF SentBy, external
  <2>2. loop'[r].pc = "send" /\ loop'[r].t = t
    BY <1>4
  <2>3. QED
    BY <1>2, <1>3, <2>1, <2>2 DEF LoopOK, AtTarget
<1>6. QED
  BY <1>1, <1>4, <1>5, RowsLeft, LoopMoves

\* A row keeps what was sent to its target and what became of it, whether or
\* not it is marked as undone.
KeptRow(x, y) ==
    /\ y.in = x.in /\ y.applied = x.applied /\ y.found = x.found
    /\ y.sent = x.sent /\ y.unknown = x.unknown

\* Marking a row as undone, or as standing again.
LEMMA UndoneRow ==
    ASSUME NEW x \in RowRec, NEW b \in BOOLEAN
    PROVE  LET y == [x EXCEPT !.undone = b]
           IN  y \in RowRec /\ KeptRow(x, y) /\ y.undone = b
<1>1. [x EXCEPT !.undone = b] \in RowRec
  BY RowWith
<1>2. QED
  BY <1>1 DEF RowRec, KeptRow

\* The source's row is the only one SourceUndone writes.
LEMMA SourceRows ==
    ASSUME IInv, NEW rows \in [Runs -> [Targets -> RowRec]], NEW r \in Runs,
           NEW t \in Targets, NEW b \in BOOLEAN
    PROVE  /\ SourceUndone(rows, r, t, b) \in [Runs -> [Targets -> RowRec]]
           /\ \A q \in Runs, u \in Targets :
                 /\ KeptRow(rows[q][u], SourceUndone(rows, r, t, b)[q][u])
                 /\ q # run[r].source \/ u # t =>
                       SourceUndone(rows, r, t, b)[q][u] = rows[q][u]
                 /\ q = run[r].source /\ u = t =>
                       SourceUndone(rows, r, t, b)[q][u].undone = b
<1> DEFINE src == run[r].source
           new == SourceUndone(rows, r, t, b)
<1>1. CASE src = 0
  <2>1. new = rows
    BY <1>1 DEF SourceUndone
  <2>2. QED
    BY <1>1, <2>1 DEF KeptRow, Runs
<1>2. CASE src # 0
  <2> DEFINE y == [rows[src][t] EXCEPT !.undone = b]
  <2>1. src \in Runs
    <3>1. run[r] \in RunRec
      BY DEF IInv, Types
    <3>2. QED
      BY <1>2, <3>1, BulkAssumption DEF RunRec, Runs
  <2>2. new = [rows EXCEPT ![src][t].undone = b]
    BY <1>2 DEF SourceUndone
  <2> HIDE DEF src, new
  <2>3. new = [rows EXCEPT ![src][t] = y]
    BY <2>1, <2>2
  <2>4. y \in RowRec /\ KeptRow(rows[src][t], y) /\ y.undone = b
    BY <2>1, UndoneRow
  <2> HIDE DEF y
  <2>5. /\ new \in [Runs -> [Targets -> RowRec]] /\ new[src][t] = y
        /\ \A q \in Runs, u \in Targets : q # src \/ u # t => new[q][u] = rows[q][u]
    BY <2>1, <2>3, <2>4
  <2>6. \A q \in Runs, u \in Targets : KeptRow(rows[q][u], new[q][u])
    BY <2>4, <2>5 DEF KeptRow
  <2>7. QED
    BY <2>4, <2>5, <2>6 DEF new, src
<1>3. QED
  BY <1>1, <1>2

\* recordApplied: the target is recorded, and taken off what is left to undo
\* of the source.
LEMMA AppliedRows ==
    ASSUME IInv, NEW r \in Runs, NEW t \in Targets, ~row[r][t].applied,
           NEW already \in BOOLEAN, recordApplied(r, t, already)
    PROVE  /\ row' \in [Runs -> [Targets -> RowRec]]
           /\ \A q \in Runs, u \in Targets :
                 /\ row'[q][u].in = row[q][u].in /\ row'[q][u].sent = row[q][u].sent
                 /\ row'[q][u].unknown = row[q][u].unknown
                 /\ q # run[r].source \/ u # t => row'[q][u].undone = row[q][u].undone
                 /\ q # r \/ u # t => KeptRow(row[q][u], row'[q][u])
           /\ row'[r][t].applied /\ (row'[r][t].found => ~row'[r][t].sent)
<1> DEFINE f == already /\ ~row[r][t].sent
           x == [row[r][t] EXCEPT !.applied = TRUE, !.claim = "none", !.found = f]
           rows == [row EXCEPT ![r][t] = x]
<1>1. row \in [Runs -> [Targets -> RowRec]] /\ row[r][t] \in RowRec
  BY DEF IInv, Types
<1>2. f \in BOOLEAN /\ (f => ~row[r][t].sent)
  OBVIOUS
<1>3. row' = SourceUndone([row EXCEPT ![r][t].applied = TRUE, ![r][t].claim = "none",
                                      ![r][t].found = f], r, t, TRUE)
  BY DEF recordApplied
<1> HIDE DEF f
<1>4. [row EXCEPT ![r][t].applied = TRUE, ![r][t].claim = "none", ![r][t].found = f] = rows
  BY <1>1
<1>5. PICK b \in BOOLEAN : row' = SourceUndone(rows, r, t, b)
  BY <1>3, <1>4
<1>6. x \in RowRec
  <2>1. TRUE \in BOOLEAN /\ "none" \in {"none", "fresh", "stale"}
    OBVIOUS
  <2>2. [row[r][t] EXCEPT !.applied = TRUE, !.claim = "none"] \in RowRec
    BY <1>1, <2>1, RowWith, Zenon
  <2>3. QED
    BY <1>2, <2>2, RowWith, Zenon
<1>7. /\ x.in = row[r][t].in /\ x.sent = row[r][t].sent /\ x.unknown = row[r][t].unknown
      /\ x.undone = row[r][t].undone /\ x.applied = TRUE /\ x.found = f
  BY <1>1 DEF RowRec
<1> HIDE DEF x
<1>8. /\ rows \in [Runs -> [Targets -> RowRec]] /\ rows[r][t] = x
      /\ \A q \in Runs, u \in Targets : q # r \/ u # t => rows[q][u] = row[q][u]
  BY <1>1, <1>6, RowPut
<1> HIDE DEF rows
<1>9. /\ row' \in [Runs -> [Targets -> RowRec]]
      /\ \A q \in Runs, u \in Targets :
            /\ KeptRow(rows[q][u], row'[q][u])
            /\ q # run[r].source \/ u # t => row'[q][u] = rows[q][u]
  BY <1>5, <1>8, SourceRows
<1>10. ASSUME NEW q \in Runs, NEW u \in Targets
       PROVE  /\ row'[q][u].in = row[q][u].in /\ row'[q][u].sent = row[q][u].sent
              /\ row'[q][u].unknown = row[q][u].unknown
              /\ q # run[r].source \/ u # t => row'[q][u].undone = row[q][u].undone
              /\ q # r \/ u # t => KeptRow(row[q][u], row'[q][u])
  <2>1. CASE q = r /\ u = t
    BY <1>7, <1>8, <1>9, <2>1 DEF KeptRow
  <2>2. CASE ~(q = r /\ u = t)
    BY <1>8, <1>9, <2>2 DEF KeptRow
  <2>3. QED
    BY <2>1, <2>2
<1>11. row'[r][t].applied /\ (row'[r][t].found => ~row'[r][t].sent)
  BY <1>2, <1>7, <1>8, <1>9 DEF KeptRow
<1>12. QED
  BY <1>9, <1>10, <1>11

\* Recording a target keeps the invariant as long as the target does not hold
\* what the source put there.
LEMMA RecordKeeps ==
    ASSUME IInv, NEW r \in Runs, loop[r].pc \in AtTarget, NEW already \in BOOLEAN,
           recordApplied(r, loop[r].t, already),
           world[loop[r].t].by = run[r].source => run[r].source = 0,
           Outcome(r), run'[r].phase = run[r].phase,
           UNCHANGED <<mode, probe, world, adrift, landed, events>>
    PROVE  IInv'
<1> DEFINE t == loop[r].t
<1>1. LoopOK(r) /\ loop[r].pc # "none"
  BY DEF IInv, RunsOK, AtTarget
<1>2. t \in Targets /\ ~row[r][t].applied
  BY <1>1 DEF LoopOK
<1>3. /\ row' \in [Runs -> [Targets -> RowRec]]
      /\ \A q \in Runs, u \in Targets :
            /\ row'[q][u].in = row[q][u].in /\ row'[q][u].sent = row[q][u].sent
            /\ row'[q][u].unknown = row[q][u].unknown
            /\ q # run[r].source \/ u # t => row'[q][u].undone = row[q][u].undone
            /\ q # r \/ u # t => KeptRow(row[q][u], row'[q][u])
      /\ row'[r][t].applied /\ (row'[r][t].found => ~row'[r][t].sent)
  BY <1>2, AppliedRows
<1>4. world[t].by = run[r].source => run[r].source = 0
  OBVIOUS
<1>5. MayWrite(r)
  BY <1>1, OneLoop
<1> HIDE DEF t
<1>6. /\ loop' \in [Runs -> LoopRec] /\ armed' \in [Runs -> BOOLEAN]
      /\ \A q \in Runs : LoopOK(q)'
      /\ RunsMove /\ OneOpen' /\ LoopOpen'
  BY <1>1, OutcomeLoops
<1>7. Types'
  BY <1>3, <1>6 DEF IInv, Types, RunsMove
<1>8. external' = external
  BY DEF external
<1>9. ASSUME NEW q \in Runs PROVE GoneOK(q)'
  <2>1. CASE q = r
    BY <1>5, <2>1 DEF MayWrite, GoneOK
  <2>2. CASE q # r
    <3>1. GoneOK(q) /\ RunMove(q) /\ \A u \in Targets : KeptRow(row[q][u], row'[q][u])
      BY <1>3, <1>6, <2>2 DEF IInv, RunsOK, RunsMove
    <3>2. QED
      BY <1>8, <3>1 DEF GoneOK, RunMove, KeptRow
  <2>3. QED
    BY <2>1, <2>2
<1>10. ASSUME NEW q \in Runs PROVE Cardinality(SentBy(q)') <= run'[q].peak
  <2>1. SentBy(q)' = SentBy(q)
    BY <1>3 DEF SentBy
  <2>2. Cardinality(SentBy(q)) \in Nat
    BY TargetsFinite DEF SentBy
  <2>3. MaxOK(q) /\ RunMove(q) /\ run[q] \in RunRec /\ run'[q] \in RunRec
    BY <1>6 DEF IInv, RunsOK, RunsMove, Types
  <2>4. run[q].peak \in Nat /\ run'[q].peak \in Nat
    BY <2>3, BulkAssumption DEF RunRec
  <2>5. QED
    BY <2>1, <2>2, <2>3, <2>4 DEF MaxOK, RunMove
<1>11. ASSUME NEW q \in Runs, NEW u \in Targets
       PROVE  Held(q, u)' /\ RowOK(q, u)' /\ ChanceOK(q, u)'
  <2>1. Held(q, u) /\ RowOK(q, u) /\ ChanceOK(q, u) /\ RunMove(q)
    BY <1>6, <1>11 DEF IInv, CellsOK, RunsMove
  <2>2. /\ row'[q][u].in = row[q][u].in /\ row'[q][u].sent = row[q][u].sent
        /\ row'[q][u].unknown = row[q][u].unknown
    BY <1>3
  <2>3. Held(q, u)'
    <3>1. CASE world[u].by = q
      <4>1. row'[q][u].undone = row[q][u].undone
        <5>1. q # 0
          BY DEF Runs
        <5>2. QED
          BY <1>3, <1>4, <3>1, <5>1
      <4>2. QED
        BY <2>1, <2>2, <4>1 DEF Held, RunMove, after
    <3>2. CASE world[u].by # q
      BY <3>2 DEF Held
    <3>3. QED
      BY <3>1, <3>2
  <2>4. RowOK(q, u)'
    <3>1. CASE q = r /\ u = t
      BY <1>3, <1>5, <3>1 DEF RowOK, MayWrite
    <3>2. CASE ~(q = r /\ u = t)
      <4>1. KeptRow(row[q][u], row'[q][u])
        BY <1>3, <3>2
      <4>2. QED
        BY <2>1, <4>1 DEF RowOK, KeptRow, RunMove
    <3>3. QED
      BY <3>1, <3>2
  <2>5. ChanceOK(q, u)'
    BY <1>8, <2>1, <2>2 DEF ChanceOK
  <2>6. QED
    BY <2>3, <2>4, <2>5
<1>12. QED
  BY <1>6, <1>7, <1>9, <1>10, <1>11, Assemble

\* The two directions of a family.
LEMMA OtherWay ==
    ASSUME IInv, NEW r \in Runs, NEW t \in Targets, run[r].source # 0,
           world[t].val = after(r)
    PROVE  world[t].by # run[r].source
<1> DEFINE src == run[r].source
<1>1. run[r] \in RunRec /\ SourceOK(r)
  BY DEF IInv, Types, RunsOK
<1>2. src \in Runs /\ run[src].forth # run[r].forth
  BY <1>1, BulkAssumption DEF RunRec, Runs, SourceOK
<1>3. run[src] \in RunRec
  BY <1>2 DEF IInv, Types
<1>4. after(src) # after(r)
  BY <1>1, <1>2, <1>3 DEF after, RunRec
<1>5. Held(src, t)
  BY <1>2 DEF IInv, CellsOK
<1>6. QED
  BY <1>4, <1>5 DEF Held

\* writeOne's read.
LEMMA ReadTargetKeeps ==
    ASSUME IInv, NEW r \in Runs, ReadTarget(r)
    PROVE  IInv'
<1> DEFINE t == loop[r].t
<1>1. /\ loop[r].pc = "read" /\ loop[r].pc \in AtTarget /\ loop[r].pc # "none"
      /\ UNCHANGED <<mode, probe, world, adrift, landed, events>>
      /\ \/ /\ world[t].val = after(r) /\ recordApplied(r, t, TRUE)
            /\ Continue(r, 0) /\ UNCHANGED <<run, armed>>
         \/ FailTarget(r, row, "conflict")
         \/ FailTarget(r, row, "sent_unknown")
         \/ /\ ~(external /\ row[r][t].unknown > 0) /\ GoTo(r, "send")
            /\ UNCHANGED <<run, row, armed>>
  BY DEF ReadTarget, AtTarget
<1>2. t \in Targets
  BY <1>1 DEF IInv, RunsOK, LoopOK
<1>3. MayWrite(r)
  BY <1>1, OneLoop
<1>4. CASE /\ world[t].val = after(r) /\ recordApplied(r, t, TRUE)
           /\ Continue(r, 0) /\ UNCHANGED <<run, armed>>
  <2>1. RunsClose /\ MayWrite(r)'
    BY <1>3, <1>4, RunsLeft
  <2>2. Outcome(r)
    BY <1>1, <1>4, <2>1, ContinueOutcome
  <2>3. world[t].by = run[r].source => run[r].source = 0
    BY <1>2, <1>4, OtherWay
  <2>4. PICK already \in BOOLEAN : recordApplied(r, t, already)
    BY <1>4
  <2>5. QED
    BY <1>1, <1>4, <2>2, <2>3, <2>4, RecordKeeps
<1>5. CASE FailTarget(r, row, "conflict") \/ FailTarget(r, row, "sent_unknown")
  <2>1. PICK error \in Errors : FailTarget(r, row, error)
    BY <1>5 DEF Errors
  <2>2. Outcome(r) /\ RowsSame /\ CountsSame
    BY <1>1, <2>1, OwnRows, FailOutcome DEF CountsSame
  <2>3. QED
    BY <1>1, <2>2, OutcomeQuiet
<1>6. CASE /\ ~(external /\ row[r][t].unknown > 0) /\ GoTo(r, "send")
           /\ UNCHANGED <<run, row, armed>>
  BY <1>1, <1>6, GoSendKeeps
<1>7. QED
  BY <1>1, <1>4, <1>5, <1>6

\* The write is answered and recorded.
LEMMA RecordTargetKeeps ==
    ASSUME IInv, NEW r \in Runs, RecordTarget(r)
    PROVE  IInv'
<1> DEFINE t == loop[r].t
<1>1. /\ loop[r].pc = "landed" /\ loop[r].pc \in AtTarget /\ loop[r].pc # "none"
      /\ recordApplied(r, t, FALSE)
      /\ \/ Continue(r, 0) /\ UNCHANGED <<run, armed>>
         \/ Halt(r)
      /\ UNCHANGED <<mode, probe, world, adrift, landed, events>>
  BY DEF RecordTarget, AtTarget
<1>2. MayWrite(r)
  BY <1>1, OneLoop
<1>3. Outcome(r)
  <2>1. CASE Continue(r, 0) /\ UNCHANGED <<run, armed>>
    <3>1. RunsClose /\ MayWrite(r)'
      BY <1>2, <2>1, RunsLeft
    <3>2. QED
      BY <1>1, <2>1, <3>1, ContinueOutcome
  <2>2. CASE Halt(r)
    BY <2>2, HaltOutcome
  <2>3. QED
    BY <1>1, <2>1, <2>2
<1>4. run'[r].phase = run[r].phase
  <2>1. run \in [Runs -> RunRec] /\ run[r] \in RunRec
    BY DEF IInv, Types
  <2>2. QED
    <3>1. CASE UNCHANGED run
      BY <3>1
    <3>2. CASE Halt(r)
      <4>1. run' = [run EXCEPT ![r].halted = TRUE]
        BY <3>2 DEF Halt
      <4>2. QED
        BY <2>1, <4>1 DEF RunRec
    <3>3. QED
      BY <1>1, <3>1, <3>2
<1>5. world[t].by = run[r].source => run[r].source = 0
  <2>1. /\ world[t].by \in {r, Other, Late} /\ run[r] \in RunRec /\ SourceOK(r)
    BY <1>1 DEF IInv, RunsOK, LoopOK, Types
  <2>2. run[r].source \in 0 .. Depth
    BY <2>1 DEF RunRec
  <2>3. QED
    BY <2>1, <2>2, BulkAssumption DEF SourceOK, Other, Late
<1>6. PICK already \in BOOLEAN : recordApplied(r, t, already)
  BY <1>1
<1>7. QED
  BY <1>1, <1>3, <1>4, <1>5, <1>6, RecordKeeps

\* The send is marked and counted before it leaves.
LEMMA SendKeeps ==
    ASSUME IInv, NEW r \in Runs, Send(r)
    PROVE  IInv'
<1> DEFINE t == loop[r].t
           n == IF row[r][t].unknown < 2 THEN row[r][t].unknown + 1 ELSE row[r][t].unknown
           x == [row[r][t] EXCEPT !.sent = TRUE, !.unknown = n]
<1>1. /\ loop[r].pc = "send" /\ loop[r].pc # "none" /\ markSent(r, t) /\ GoTo(r, "sent")
      /\ UNCHANGED <<mode, probe, run, armed, world, adrift, landed, events>>
  BY DEF Send
<1>2. /\ t \in Targets /\ row[r][t].in = "in" /\ ~row[r][t].applied /\ ~row[r][t].undone
      /\ row[r][t].sent \/ Cardinality(SentBy(r)) < run[r].peak
      /\ external => row[r][t].unknown = 0
  BY <1>1 DEF IInv, RunsOK, LoopOK, AtTarget
<1>3. PICK l \in LoopRec : /\ loop' = [loop EXCEPT ![r] = l] /\ loop'[r] = l
                           /\ l.pc = "sent" /\ l.t = t
  BY <1>1, GoToLoop
<1> HIDE DEF t
<1>4. row \in [Runs -> [Targets -> RowRec]] /\ row[r][t] \in RowRec
  BY <1>2 DEF IInv, Types
<1>5. row[r][t].unknown \in 0 .. 2
  BY <1>4 DEF RowRec
<1>6. n \in 0 .. 2 /\ n # 0 /\ (row[r][t].unknown = 0 => n = 1)
  BY <1>5
<1>7. row' = [row EXCEPT ![r][t] = x]
  BY <1>1, <1>2, <1>4 DEF markSent
<1> HIDE DEF n
<1>8. x \in RowRec
  <2>1. TRUE \in BOOLEAN
    OBVIOUS
  <2>2. QED
    BY <1>4, <1>6, <2>1, RowWith, Zenon
<1>9. /\ x.in = row[r][t].in /\ x.applied = row[r][t].applied /\ x.found = row[r][t].found
      /\ x.undone = row[r][t].undone /\ x.sent = TRUE /\ x.unknown = n
  BY <1>4 DEF RowRec
<1> HIDE DEF x
<1>10. /\ row' \in [Runs -> [Targets -> RowRec]] /\ row'[r][t] = x
       /\ \A q \in Runs, u \in Targets : q # r \/ u # t => row'[q][u] = row[q][u]
  BY <1>2, <1>4, <1>7, <1>8
<1>11. MayWrite(r)
  BY <1>1, OneLoop
<1>12. external' = external
  BY <1>1 DEF external
<1>13. external => landed[r][t] = 0 /\ <<r, t>> \notin adrift
  BY <1>2 DEF IInv, CellsOK, ChanceOK
<1>14. LoopOK(r)'
  <2>1. loop'[r].pc = "sent" /\ loop'[r].t = t
    BY <1>3
  <2>2. row'[r][t].in = "in" /\ ~row'[r][t].applied /\ ~row'[r][t].undone
    BY <1>2, <1>9, <1>10
  <2>3. row'[r][t].sent /\ (external => row'[r][t].unknown = 1)
    BY <1>2, <1>6, <1>9, <1>10
  <2>4. QED
    BY <1>1, <1>2, <1>12, <1>13, <2>1, <2>2, <2>3 DEF LoopOK, AtTarget
<1>15. ASSUME NEW q \in Runs PROVE Cardinality(SentBy(q)') <= run[q].peak
  <2>1. MaxOK(q)
    BY DEF IInv, RunsOK
  <2>2. CASE q # r \/ row[r][t].sent
    <3>1. SentBy(q)' = SentBy(q)
      BY <1>9, <1>10, <2>2 DEF SentBy
    <3>2. QED
      BY <2>1, <3>1 DEF MaxOK
  <2>3. CASE q = r /\ ~row[r][t].sent
    <3>1. SentBy(q)' = SentBy(q) \cup {t}
      BY <1>2, <1>9, <1>10, <2>3 DEF SentBy
    <3>2. t \notin SentBy(q) /\ SentBy(q) \in SUBSET Targets
      BY <2>3 DEF SentBy
    <3>3. IsFiniteSet(SentBy(q)) /\ Cardinality(SentBy(q)) \in Nat
      BY <3>2, TargetsFinite
    <3>4. Cardinality(SentBy(q)') = Cardinality(SentBy(q)) + 1
      BY <3>1, <3>2, <3>3, FS_AddElement
    <3>5. run[q].peak \in Nat
      <4>1. run[q] \in RunRec
        BY DEF IInv, Types
      <4>2. QED
        BY <4>1, BulkAssumption DEF RunRec
    <3>6. QED
      BY <1>2, <2>3, <3>3, <3>4, <3>5
  <2>4. QED
    BY <2>2, <2>3
<1>16. ASSUME NEW q \in Runs, NEW u \in Targets
       PROVE  Held(q, u)' /\ RowOK(q, u)' /\ ChanceOK(q, u)'
  <2>1. Held(q, u) /\ RowOK(q, u) /\ ChanceOK(q, u)
    BY <1>16 DEF IInv, CellsOK
  <2>2. CASE q = r /\ u = t
    <3>1. Held(q, u)'
      BY <1>1, <1>2, <1>9, <1>10, <2>1, <2>2 DEF Held, after
    <3>2. RowOK(q, u)'
      BY <1>1, <1>2, <1>9, <1>10, <1>11, <2>1, <2>2 DEF RowOK, MayWrite
    <3>3. ChanceOK(q, u)'
      BY <1>1, <1>2, <1>6, <1>9, <1>10, <1>12, <1>13, <2>2 DEF ChanceOK
    <3>4. QED
      BY <3>1, <3>2, <3>3
  <2>3. CASE ~(q = r /\ u = t)
    <3>1. row'[q][u] = row[q][u]
      BY <1>10, <2>3
    <3>2. QED
      BY <1>1, <1>12, <2>1, <3>1 DEF Held, RowOK, ChanceOK, after
  <2>4. QED
    BY <2>2, <2>3
<1>17. /\ world' \in [Targets -> Cell] /\ adrift' \in SUBSET (Runs \X Targets)
       /\ landed' \in [Runs -> [Targets -> 0 .. 2]]
  BY <1>1 DEF IInv, Types
<1>18. \A q \in Runs \ {r}, u \in Targets :
          /\ world'[u].by = q => world[u].by = q
          /\ row'[q][u].applied = row[q][u].applied
  BY <1>1, <1>10
<1>19. QED
  BY <1>1, <1>3, <1>10, <1>14, <1>15, <1>16, <1>17, <1>18, CellStep

\* What a target holds after it was written.
LEMMA PutCell ==
    ASSUME IInv, NEW t \in Targets, NEW v \in {"before", "after", "other"},
           NEW by \in Runs \cup {Other, Late}, Put(t, v, by)
    PROVE  /\ world' \in [Targets -> Cell]
           /\ world'[t].val = v /\ world'[t].by = by
           /\ \A u \in Targets : u # t => world'[u] = world[u]
<1>1. world \in [Targets -> Cell]
  BY DEF IInv, Types
<1>2. [val |-> v, by |-> by] \in Cell
  BY DEF Cell
<1>3. QED
  BY <1>1, <1>2 DEF Put

\* A write that took effect.
LEMMA CountCell ==
    ASSUME IInv, NEW r \in Runs, NEW t \in Targets, CountLanding(r, t)
    PROVE  /\ landed' \in [Runs -> [Targets -> 0 .. 2]]
           /\ landed[r][t] = 0 => landed'[r][t] = 1
           /\ \A q \in Runs, u \in Targets :
                 q # r \/ u # t => landed'[q][u] = landed[q][u]
<1> DEFINE n == IF landed[r][t] < 2 THEN landed[r][t] + 1 ELSE landed[r][t]
<1>1. landed \in [Runs -> [Targets -> 0 .. 2]] /\ landed[r][t] \in 0 .. 2
  BY DEF IInv, Types
<1>2. n \in 0 .. 2 /\ (landed[r][t] = 0 => n = 1)
  BY <1>1
<1>3. landed' = [landed EXCEPT ![r][t] = n]
  BY <1>1 DEF CountLanding
<1> HIDE DEF n
<1>4. QED
  BY <1>1, <1>2, <1>3

\* The write takes effect.
LEMMA WriteLandsKeeps ==
    ASSUME IInv, NEW r \in Runs, WriteLands(r)
    PROVE  IInv'
<1> DEFINE t == loop[r].t
<1>1. /\ loop[r].pc = "sent" /\ loop[r].pc # "none" /\ Put(t, after(r), r)
      /\ CountLanding(r, t) /\ GoTo(r, "landed")
      /\ UNCHANGED <<mode, probe, run, row, armed, adrift, events>>
  BY DEF WriteLands
<1>2. /\ t \in Targets /\ row[r][t].in = "in" /\ ~row[r][t].applied /\ ~row[r][t].undone
      /\ row[r][t].sent
      /\ external => row[r][t].unknown = 1 /\ landed[r][t] = 0 /\ <<r, t>> \notin adrift
  BY <1>1 DEF IInv, RunsOK, LoopOK, AtTarget
<1>3. PICK l \in LoopRec : /\ loop' = [loop EXCEPT ![r] = l] /\ loop'[r] = l
                           /\ l.pc = "landed" /\ l.t = t
  BY <1>1, GoToLoop
<1> HIDE DEF t
<1>4. after(r) \in {"before", "after", "other"}
  BY DEF after
<1>5. /\ world' \in [Targets -> Cell]
      /\ world'[t].val = after(r) /\ world'[t].by = r
      /\ \A u \in Targets : u # t => world'[u] = world[u]
  BY <1>1, <1>2, <1>4, PutCell
<1>6. /\ landed' \in [Runs -> [Targets -> 0 .. 2]]
      /\ landed[r][t] = 0 => landed'[r][t] = 1
      /\ \A q \in Runs, u \in Targets : q # r \/ u # t => landed'[q][u] = landed[q][u]
  BY <1>1, <1>2, CountCell
<1>7. external' = external
  BY <1>1 DEF external
<1>8. LoopOK(r)'
  <2>1. loop'[r].pc = "landed" /\ loop'[r].t = t
    BY <1>3
  <2>2. QED
    BY <1>1, <1>2, <1>5, <1>7, <2>1 DEF LoopOK, AtTarget
<1>9. ASSUME NEW q \in Runs, NEW u \in Targets
      PROVE  Held(q, u)' /\ RowOK(q, u)' /\ ChanceOK(q, u)'
  <2>1. Held(q, u) /\ RowOK(q, u) /\ ChanceOK(q, u)
    BY <1>9 DEF IInv, CellsOK
  <2>2. Held(q, u)'
    <3>1. CASE u = t
      BY <1>1, <1>2, <1>5, <3>1 DEF Held, after
    <3>2. CASE u # t
      BY <1>1, <1>5, <2>1, <3>2 DEF Held, after
    <3>3. QED
      BY <3>1, <3>2
  <2>3. RowOK(q, u)'
    BY <1>1, <2>1 DEF RowOK
  <2>4. ChanceOK(q, u)'
    <3>1. CASE q = r /\ u = t
      BY <1>1, <1>2, <1>6, <1>7, <3>1 DEF ChanceOK
    <3>2. CASE ~(q = r /\ u = t)
      BY <1>1, <1>6, <1>7, <2>1, <3>2 DEF ChanceOK
    <3>3. QED
      BY <3>1, <3>2
  <2>5. QED
    BY <2>2, <2>3, <2>4
<1>10. ASSUME NEW q \in Runs PROVE Cardinality(SentBy(q)') <= run[q].peak
  <2>1. SentBy(q)' = SentBy(q)
    BY <1>1 DEF SentBy
  <2>2. QED
    BY <2>1 DEF IInv, RunsOK, MaxOK
<1>11. /\ row' \in [Runs -> [Targets -> RowRec]]
       /\ adrift' \in SUBSET (Runs \X Targets)
  BY <1>1 DEF IInv, Types
<1>12. \A q \in Runs \ {r}, u \in Targets :
          /\ world'[u].by = q => world[u].by = q
          /\ row'[q][u].applied = row[q][u].applied
  BY <1>1, <1>5
<1>13. QED
  BY <1>1, <1>3, <1>5, <1>6, <1>8, <1>9, <1>10, <1>11, <1>12, CellStep

-----------------------------------------------------------------------------
(***************************************************************************)
(* The rollback.                                                           *)
(***************************************************************************)

\* A target is skipped.
LEMMA BackLoop ==
    ASSUME IInv, NEW r \in Runs, NEW t, NEW whole \in BOOLEAN, BackNext(r, t, whole)
    PROVE  \E l \in LoopRec :
              /\ loop' = [loop EXCEPT ![r] = l] /\ loop'[r] = l /\ l.pc = loop[r].pc
              /\ l.todo = loop[r].todo \ {t}
              /\ l.clean => loop[r].clean /\ whole
<1> DEFINE rest == loop[r].todo \ {t}
           c == loop[r].clean /\ whole
           l == [loop[r] EXCEPT !.todo = rest, !.clean = c]
<1>1. loop \in [Runs -> LoopRec] /\ loop[r] \in LoopRec
  BY DEF IInv, Types
<1>2. rest \in SUBSET Targets /\ c \in BOOLEAN
  BY <1>1 DEF LoopRec
<1>3. c => loop[r].clean /\ whole
  OBVIOUS
<1>4. loop' = [loop EXCEPT ![r] = l]
  <2>1. loop' = [loop EXCEPT ![r].todo = rest, ![r].clean = c]
    BY <1>1 DEF BackNext
  <2> HIDE DEF rest, c
  <2>2. QED
    BY <1>1, <2>1
<1> HIDE DEF rest, c
<1>5. l \in LoopRec
  BY <1>1, <1>2, LoopWith, Zenon
<1>6. l.pc = loop[r].pc /\ l.todo = rest /\ l.clean = c
  BY <1>1 DEF LoopRec
<1> HIDE DEF l
<1>7. loop'[r] = l
  BY <1>1, <1>4
<1>8. QED
  BY <1>3, <1>4, <1>5, <1>6, <1>7 DEF rest

\* The rollback could not take a target back, and will not call itself
\* complete.
LEMMA BackSkips ==
    ASSUME IInv, NEW r \in Runs, loop[r].pc = "back", NEW t, BackNext(r, t, FALSE),
           UNCHANGED <<mode, probe, run, row, armed, world, adrift, landed, events>>
    PROVE  IInv'
<1>1. PICK w \in BOOLEAN : BackNext(r, t, w) /\ ~w
  OBVIOUS
<1>2. PICK l \in LoopRec : /\ loop' = [loop EXCEPT ![r] = l] /\ loop'[r] = l
                           /\ l.pc = loop[r].pc /\ ~l.clean
  BY <1>1, BackLoop
<1>3. LoopOK(r)'
  <2>1. loop'[r].pc = "back" /\ ~loop'[r].clean
    BY <1>2
  <2>2. QED
    BY <2>1 DEF LoopOK, AtTarget
<1>4. QED
  BY <1>2, <1>3, RowsLeft, LoopMoves

\* A read or a write of the rollback fails.
LEMMA RollbackFailsKeeps ==
    ASSUME IInv, NEW r \in Runs, RollbackFails(r)
    PROVE  IInv'
  BY BackSkips DEF RollbackFails

\* A target that holds nothing of the run any more leaves the list.
LEMMA BackStep ==
    ASSUME IInv, NEW r \in Runs, NEW t \in Targets, loop[r].pc \in {"back", "restored"},
           NEW l \in LoopRec, loop' = [loop EXCEPT ![r] = l], l.pc = "back",
           l.todo = loop[r].todo \ {t}, l.clean => loop[r].clean,
           world[t].by # r,
           row' \in [Runs -> [Targets -> RowRec]],
           \A q \in Runs, u \in Targets :
               /\ KeptRow(row[q][u], row'[q][u])
               /\ q # r \/ u # t => (row'[q][u].undone => row[q][u].undone),
           UNCHANGED <<mode, probe, run, armed, world, adrift, landed, events>>
    PROVE  IInv'
<1>1. loop[r].pc # "none" /\ LoopOK(r) /\ loop \in [Runs -> LoopRec]
  BY DEF IInv, RunsOK, Types
<1>2. loop'[r].pc = "back" /\ loop'[r].todo = loop[r].todo \ {t}
      /\ (loop'[r].clean => loop[r].clean)
  BY <1>1
<1>3. LoopOK(r)'
  <2>1. loop'[r].clean => \A s \in Targets : world'[s].by = r => s \in loop'[r].todo
    BY <1>1, <1>2 DEF LoopOK
  <2>2. QED
    BY <1>2, <2>1 DEF LoopOK, AtTarget
<1>4. external' = external
  BY DEF external
<1>5. ASSUME NEW q \in Runs, NEW u \in Targets
      PROVE  Held(q, u)' /\ RowOK(q, u)' /\ ChanceOK(q, u)'
  <2>1. /\ Held(q, u) /\ RowOK(q, u) /\ ChanceOK(q, u)
        /\ KeptRow(row[q][u], row'[q][u])
        /\ q # r \/ u # t => (row'[q][u].undone => row[q][u].undone)
    BY <1>5 DEF IInv, CellsOK
  <2>2. Held(q, u)'
    BY <2>1 DEF Held, KeptRow, after
  <2>3. RowOK(q, u)' /\ ChanceOK(q, u)'
    BY <1>4, <2>1 DEF RowOK, ChanceOK, KeptRow
  <2>4. QED
    BY <2>2, <2>3
<1>6. ASSUME NEW q \in Runs PROVE Cardinality(SentBy(q)') <= run[q].peak
  <2>1. SentBy(q)' = SentBy(q)
    BY DEF SentBy, KeptRow
  <2>2. QED
    BY <2>1 DEF IInv, RunsOK, MaxOK
<1>7. /\ world' \in [Targets -> Cell] /\ adrift' \in SUBSET (Runs \X Targets)
      /\ landed' \in [Runs -> [Targets -> 0 .. 2]]
  BY DEF IInv, Types
<1>8. \A q \in Runs \ {r}, u \in Targets :
         /\ world'[u].by = q => world[u].by = q
         /\ row'[q][u].applied = row[q][u].applied
  BY DEF KeptRow
<1>9. QED
  BY <1>1, <1>3, <1>5, <1>6, <1>7, <1>8, CellStep

\* The rows after the rollback marked one.
RowsMarked(r, t, b) == [row EXCEPT ![r][t].undone = b]

\* A mark is all that changes.
LEMMA MarkedRows ==
    ASSUME IInv, NEW r \in Runs, NEW t \in Targets, NEW b \in BOOLEAN
    PROVE  /\ RowsMarked(r, t, b) \in [Runs -> [Targets -> RowRec]]
           /\ \A q \in Runs, u \in Targets :
                 /\ KeptRow(row[q][u], RowsMarked(r, t, b)[q][u])
                 /\ q # r \/ u # t => RowsMarked(r, t, b)[q][u] = row[q][u]
<1> DEFINE x == [row[r][t] EXCEPT !.undone = b]
           rows == [row EXCEPT ![r][t] = x]
<1>1. row \in [Runs -> [Targets -> RowRec]] /\ row[r][t] \in RowRec
  BY DEF IInv, Types
<1>2. RowsMarked(r, t, b) = rows
  BY <1>1 DEF RowsMarked
<1>3. x \in RowRec /\ KeptRow(row[r][t], x)
  BY <1>1, UndoneRow
<1> HIDE DEF x
<1>4. /\ rows \in [Runs -> [Targets -> RowRec]] /\ rows[r][t] = x
      /\ \A q \in Runs, u \in Targets : q # r \/ u # t => rows[q][u] = row[q][u]
  BY <1>1, <1>3, RowPut
<1> HIDE DEF rows
<1>5. \A q \in Runs, u \in Targets : KeptRow(row[q][u], rows[q][u])
  BY <1>3, <1>4 DEF KeptRow
<1>6. QED
  BY <1>2, <1>4, <1>5

\* The rollback reads a target, and puts it back while it holds what the run
\* wrote.
LEMMA RollbackReadKeeps ==
    ASSUME IInv, NEW r \in Runs, RollbackRead(r)
    PROVE  IInv'
<1> DEFINE t == LastOf(r, loop[r].todo)
           cur == world[t].val
<1>1. /\ loop[r].pc = "back" /\ loop[r].todo # {} /\ loop[r].pc # "none"
      /\ UNCHANGED <<mode, probe, run, armed, adrift, landed, events>>
      /\ \/ /\ cur = expected(r) /\ row' = recordUnrecordedSettled(r, t)
            /\ BackNext(r, t, TRUE) /\ UNCHANGED world
         \/ BackNext(r, t, FALSE) /\ UNCHANGED <<row, world>>
         \/ /\ Put(t, expected(r), Other)
            /\ loop' = [loop EXCEPT ![r].pc = "restored", ![r].t = t]
            /\ UNCHANGED row
  BY DEF RollbackRead
<1>2. /\ loop \in [Runs -> LoopRec] /\ loop[r] \in LoopRec /\ LoopOK(r)
      /\ row \in [Runs -> [Targets -> RowRec]]
  BY DEF IInv, Types, RunsOK
<1>3. t \in Targets
  <2>1. loop[r].todo \in SUBSET Targets
    BY <1>2 DEF LoopRec
  <2>2. QED
    BY <1>1, <2>1, FirstIn
<1> HIDE DEF t
<1>4. row[r][t] \in RowRec
  BY <1>2, <1>3
<1>5. CASE /\ cur = expected(r) /\ row' = recordUnrecordedSettled(r, t)
           /\ BackNext(r, t, TRUE) /\ UNCHANGED world
  <2> DEFINE b == row[r][t].undone \/ (row[r][t].sent /\ ~row[r][t].applied)
  <2>1. b \in BOOLEAN
    OBVIOUS
  <2>2. row' = RowsMarked(r, t, b)
    BY <1>2, <1>3, <1>5 DEF recordUnrecordedSettled, RowsMarked
  <2> HIDE DEF b
  <2>3. /\ row' \in [Runs -> [Targets -> RowRec]]
        /\ \A q \in Runs, u \in Targets :
              /\ KeptRow(row[q][u], row'[q][u])
              /\ q # r \/ u # t => (row'[q][u].undone => row[q][u].undone)
    BY <1>3, <2>1, <2>2, MarkedRows
  <2>4. world[t].by # r
    <3>1. Held(r, t)
      BY <1>3 DEF IInv, CellsOK
    <3>2. QED
      BY <1>5, <3>1 DEF Held, after, expected
  <2>5. PICK w \in BOOLEAN : BackNext(r, t, w)
    BY <1>5
  <2>6. PICK l \in LoopRec : /\ loop' = [loop EXCEPT ![r] = l] /\ loop'[r] = l
                             /\ l.pc = loop[r].pc /\ l.todo = loop[r].todo \ {t}
                             /\ l.clean => loop[r].clean
    BY <2>5, BackLoop
  <2>7. QED
    BY <1>1, <1>3, <1>5, <2>3, <2>4, <2>6, BackStep
<1>6. CASE BackNext(r, t, FALSE) /\ UNCHANGED <<row, world>>
  BY <1>1, <1>6, BackSkips
<1>7. CASE /\ Put(t, expected(r), Other)
           /\ loop' = [loop EXCEPT ![r].pc = "restored", ![r].t = t]
           /\ UNCHANGED row
  <2> DEFINE l == [loop[r] EXCEPT !.pc = "restored", !.t = t]
  <2>1. l \in LoopRec
    <3>1. t \in 0 .. N /\ "restored" \in {"none", "top", "read", "send", "sent",
                                          "landed", "back", "restored"}
      BY <1>3 DEF Targets
    <3>2. QED
      BY <1>2, <3>1, LoopWith, Zenon
  <2>2. /\ l.pc = "restored" /\ l.t = t /\ l.todo = loop[r].todo
        /\ l.clean = loop[r].clean
    BY <1>2 DEF LoopRec
  <2>3. loop' = [loop EXCEPT ![r] = l]
    BY <1>2, <1>7
  <2> HIDE DEF l
  <2>4. /\ loop'[r].pc = "restored" /\ loop'[r].t = t /\ loop'[r].todo = loop[r].todo
        /\ loop'[r].clean = loop[r].clean
    BY <1>2, <2>2, <2>3
  <2>5. /\ world' \in [Targets -> Cell] /\ world'[t].by = Other
        /\ \A u \in Targets : u # t => world'[u] = world[u]
    <3>1. expected(r) \in {"before", "after", "other"}
      BY DEF expected
    <3>2. QED
      BY <1>3, <1>7, <3>1, PutCell
  <2>6. \A q \in Runs : q # Other
    BY DEF Runs, Other
  <2>7. LoopOK(r)'
    <3>1. loop'[r].clean => \A s \in Targets : world'[s].by = r => s \in loop'[r].todo
      <4>1. loop[r].clean => \A s \in Targets : world[s].by = r => s \in loop[r].todo
        BY <1>1, <1>2 DEF LoopOK
      <4>2. QED
        BY <2>4, <2>5, <2>6, <4>1
    <3>2. QED
      BY <1>3, <2>4, <2>5, <2>6, <3>1 DEF LoopOK, AtTarget
  <2>8. external' = external
    BY <1>1 DEF external
  <2>9. ASSUME NEW q \in Runs, NEW u \in Targets
        PROVE  Held(q, u)' /\ RowOK(q, u)' /\ ChanceOK(q, u)'
    <3>1. Held(q, u) /\ RowOK(q, u) /\ ChanceOK(q, u)
      BY <2>9 DEF IInv, CellsOK
    <3>2. Held(q, u)'
      BY <1>1, <1>7, <2>5, <2>6, <3>1 DEF Held, after
    <3>3. RowOK(q, u)' /\ ChanceOK(q, u)'
      BY <1>1, <1>7, <2>8, <3>1 DEF RowOK, ChanceOK
    <3>4. QED
      BY <3>2, <3>3
  <2>10. ASSUME NEW q \in Runs PROVE Cardinality(SentBy(q)') <= run[q].peak
    <3>1. SentBy(q)' = SentBy(q)
      BY <1>7 DEF SentBy
    <3>2. QED
      BY <3>1 DEF IInv, RunsOK, MaxOK
  <2>11. /\ row' \in [Runs -> [Targets -> RowRec]]
         /\ adrift' \in SUBSET (Runs \X Targets)
         /\ landed' \in [Runs -> [Targets -> 0 .. 2]]
    BY <1>1, <1>7 DEF IInv, Types
  <2>12. \A q \in Runs \ {r}, u \in Targets :
            /\ world'[u].by = q => world[u].by = q
            /\ row'[q][u].applied = row[q][u].applied
    BY <1>7, <2>5, <2>6
  <2>13. QED
    BY <1>1, <2>1, <2>3, <2>5, <2>7, <2>9, <2>10, <2>11, <2>12, CellStep
<1>8. QED
  BY <1>1, <1>5, <1>6, <1>7

\* A target that was put back is marked, and stands again for the source.
LEMMA RollbackRecordKeeps ==
    ASSUME IInv, NEW r \in Runs, RollbackRecord(r)
    PROVE  IInv'
<1> DEFINE t == loop[r].t
           l == [loop[r] EXCEPT !.pc = "back", !.t = 0, !.todo = loop[r].todo \ {t}]
           b == IF row[r][t].applied THEN row[r][t].undone \/ row[r][t].applied
                ELSE row[r][t].undone \/ (row[r][t].sent /\ ~row[r][t].applied)
<1>1. /\ loop[r].pc = "restored" /\ loop[r].pc # "none"
      /\ row' = IF row[r][t].applied THEN recordRolledBack(r, t)
                ELSE recordUnrecordedSettled(r, t)
      /\ loop' = [loop EXCEPT ![r].pc = "back", ![r].t = 0, ![r].todo = @ \ {t}]
      /\ UNCHANGED <<mode, probe, run, armed, world, adrift, landed, events>>
  BY DEF RollbackRecord
<1>2. /\ loop \in [Runs -> LoopRec] /\ loop[r] \in LoopRec /\ LoopOK(r)
      /\ row \in [Runs -> [Targets -> RowRec]]
  BY DEF IInv, Types, RunsOK
<1>3. t \in Targets /\ world[t].by # r
  BY <1>1, <1>2 DEF LoopOK
<1> HIDE DEF t
<1>4. row[r][t] \in RowRec /\ b \in BOOLEAN
  <2>1. row[r][t] \in RowRec
    BY <1>2, <1>3
  <2>2. b \in BOOLEAN
    OBVIOUS
  <2>3. QED
    BY <2>1, <2>2
<1>5. /\ row' \in [Runs -> [Targets -> RowRec]]
      /\ \A q \in Runs, u \in Targets :
            /\ KeptRow(row[q][u], row'[q][u])
            /\ q # r \/ u # t => (row'[q][u].undone => row[q][u].undone)
  <2>1. CASE ~row[r][t].applied
    <3>1. row' = RowsMarked(r, t, b)
      BY <1>1, <1>2, <1>3, <2>1 DEF recordUnrecordedSettled, RowsMarked
    <3> HIDE DEF b
    <3>2. QED
      BY <1>3, <1>4, <3>1, MarkedRows
  <2>2. CASE row[r][t].applied
    <3> DEFINE rows == RowsMarked(r, t, b)
    <3>1. row' = SourceUndone(rows, r, t, FALSE)
      BY <1>1, <1>2, <1>3, <2>2 DEF recordRolledBack, RowsMarked
    <3>2. PICK c \in BOOLEAN : row' = SourceUndone(rows, r, t, c) /\ ~c
      BY <3>1
    <3> HIDE DEF b
    <3>3. /\ rows \in [Runs -> [Targets -> RowRec]]
          /\ \A q \in Runs, u \in Targets :
                /\ KeptRow(row[q][u], rows[q][u])
                /\ q # r \/ u # t => rows[q][u] = row[q][u]
      BY <1>3, <1>4, MarkedRows
    <3> HIDE DEF rows
    <3>4. /\ row' \in [Runs -> [Targets -> RowRec]]
          /\ \A q \in Runs, u \in Targets :
                /\ KeptRow(rows[q][u], row'[q][u])
                /\ q # run[r].source \/ u # t => row'[q][u] = rows[q][u]
                /\ q = run[r].source /\ u = t => ~row'[q][u].undone
      BY <1>3, <3>2, <3>3, SourceRows
    <3>5. QED
      BY <3>3, <3>4 DEF KeptRow
  <2>3. QED
    BY <2>1, <2>2
<1>6. loop' = [loop EXCEPT ![r] = l]
  BY <1>1, <1>2
<1>7. l \in LoopRec
  <2>1. /\ loop[r].todo \ {t} \in SUBSET Targets /\ 0 \in 0 .. N
        /\ "back" \in {"none", "top", "read", "send", "sent", "landed", "back", "restored"}
    BY <1>2, BulkAssumption DEF LoopRec
  <2>2. [loop[r] EXCEPT !.pc = "back", !.t = 0] \in LoopRec
    BY <1>2, <2>1, LoopWith, Zenon
  <2>3. QED
    BY <2>1, <2>2, LoopWith, Zenon
<1>8. l.pc = "back" /\ l.todo = loop[r].todo \ {t} /\ l.clean = loop[r].clean
  BY <1>2 DEF LoopRec
<1> HIDE DEF l
<1>9. /\ loop[r].pc \in {"back", "restored"} /\ (l.clean => loop[r].clean)
      /\ UNCHANGED <<mode, probe, run, armed, world, adrift, landed, events>>
  BY <1>1, <1>8
<1>10. QED
  BY <1>3, <1>5, <1>6, <1>7, <1>8, <1>9, BackStep

-----------------------------------------------------------------------------
(***************************************************************************)
(* The world around the loop.                                              *)
(***************************************************************************)

\* Somebody outside the family's loops sets a target.
LEMMA WorldStep ==
    ASSUME IInv, NEW t \in Targets, NEW v \in {"before", "after", "other"},
           NEW by \in {Other, Late}, Put(t, v, by),
           UNCHANGED <<mode, probe, run, row, armed, loop>>, events' \in Nat,
           adrift' \in SUBSET (Runs \X Targets),
           landed' \in [Runs -> [Targets -> 0 .. 2]],
           \A q \in Runs, u \in Targets : ChanceOK(q, u)',
           \A q \in Runs : external /\ loop[q].pc = "sent" =>
               landed'[q][loop[q].t] = 0 /\ <<q, loop[q].t>> \notin adrift'
    PROVE  IInv'
<1>1. /\ world' \in [Targets -> Cell] /\ world'[t].by \in {Other, Late}
      /\ \A u \in Targets : u # t => world'[u] = world[u]
  <2>1. by \in Runs \cup {Other, Late}
    OBVIOUS
  <2>2. QED
    BY <2>1, PutCell
<1>2. \A q \in Runs : q \notin {Other, Late}
  BY DEF Runs, Other, Late
<1>3. \A q \in Runs, u \in Targets :
         world'[u].by = q => world'[u] = world[u] /\ world[u].by = q
  BY <1>1, <1>2
<1>4. RunsMove /\ \A q \in Runs : MayWrite(q)' <=> MayWrite(q)
  BY RunsLeft DEF RunsClose
<1>5. OneOpen' /\ LoopOpen'
  BY <1>4 DEF IInv, OneOpen, LoopOpen
<1>6. external' = external
  BY DEF external
<1>7. ASSUME NEW q \in Runs PROVE LoopOK(q)'
  <2> DEFINE u == loop[q].t
  <2>1. LoopOK(q) /\ SentBy(q)' = SentBy(q)
    BY DEF IInv, RunsOK, SentBy
  <2>2. loop[q].pc = "landed" => world'[u].by \in {q, Other, Late}
    BY <1>1, <2>1 DEF LoopOK, AtTarget
  <2>3. loop[q].pc = "restored" => u \in Targets /\ world'[u].by # q
    BY <1>3, <2>1 DEF LoopOK
  <2>4. loop[q].pc \in {"back", "restored"} /\ loop[q].clean =>
           \A s \in Targets : world'[s].by = q => s \in loop[q].todo
    BY <1>3, <2>1 DEF LoopOK
  <2>5. external /\ loop[q].pc = "sent" => landed'[q][u] = 0 /\ <<q, u>> \notin adrift'
    OBVIOUS
  <2>6. QED
    BY <1>6, <2>1, <2>2, <2>3, <2>4, <2>5 DEF LoopOK
<1>8. ASSUME NEW q \in Runs PROVE GoneOK(q)'
  BY <1>3, <1>6 DEF IInv, RunsOK, GoneOK
<1>9. ASSUME NEW q \in Runs PROVE Cardinality(SentBy(q)') <= run'[q].peak
  <2>1. SentBy(q)' = SentBy(q)
    BY DEF SentBy
  <2>2. QED
    BY <2>1 DEF IInv, RunsOK, MaxOK
<1>10. ASSUME NEW q \in Runs, NEW u \in Targets PROVE Held(q, u)' /\ RowOK(q, u)'
  <2>1. Held(q, u) /\ RowOK(q, u)
    BY <1>10 DEF IInv, CellsOK
  <2>2. Held(q, u)'
    BY <1>3, <2>1 DEF Held, after
  <2>3. RowOK(q, u)'
    BY <2>1 DEF RowOK
  <2>4. QED
    BY <2>2, <2>3
<1>11. Types'
  BY <1>1 DEF IInv, Types
<1>12. QED
  BY <1>4, <1>5, <1>7, <1>8, <1>9, <1>10, <1>11, Assemble

\* A target is edited.
LEMMA EditKeeps ==
    ASSUME IInv, NEW t \in Targets, NEW val \in {"before", "after", "other"}, Edit(t, val)
    PROVE  IInv'
<1>1. /\ Put(t, val, Other) /\ events' = events + 1
      /\ UNCHANGED <<mode, probe, run, row, armed, loop, adrift, landed>>
  BY DEF Edit
<1>2. /\ events' \in Nat /\ adrift' \in SUBSET (Runs \X Targets)
      /\ landed' \in [Runs -> [Targets -> 0 .. 2]]
  BY <1>1 DEF IInv, Types
<1>3. \A q \in Runs, u \in Targets : ChanceOK(q, u)'
  BY <1>1, ChancesKept DEF CountsSame
<1>4. \A q \in Runs : external /\ loop[q].pc = "sent" =>
         landed'[q][loop[q].t] = 0 /\ <<q, loop[q].t>> \notin adrift'
  BY <1>1 DEF IInv, RunsOK, LoopOK
<1>5. QED
  BY <1>1, <1>2, <1>3, <1>4, WorldStep

\* A request that outlived its loop is carried out: it was the one chance its
\* target had.
LEMMA LandLateKeeps ==
    ASSUME IInv, NEW r \in Runs, NEW t \in Targets, LandLate(r, t)
    PROVE  IInv'
<1>1. /\ <<r, t>> \in adrift /\ Put(t, after(r), Late) /\ adrift' = adrift \ {<<r, t>>}
      /\ CountLanding(r, t)
      /\ UNCHANGED <<mode, probe, run, row, armed, loop, events>>
  BY DEF LandLate
<1>2. /\ events' \in Nat /\ adrift' \in SUBSET (Runs \X Targets)
  BY <1>1 DEF IInv, Types
<1>3. /\ landed' \in [Runs -> [Targets -> 0 .. 2]]
      /\ landed[r][t] = 0 => landed'[r][t] = 1
      /\ \A q \in Runs, u \in Targets : q # r \/ u # t => landed'[q][u] = landed[q][u]
  BY <1>1, CountCell
<1>4. ASSUME NEW q \in Runs, NEW u \in Targets PROVE ChanceOK(q, u)'
  <2>1. ChanceOK(q, u) /\ external' = external
    BY <1>1, <1>4 DEF IInv, CellsOK, external
  <2>2. CASE q = r /\ u = t
    BY <1>1, <1>3, <2>1, <2>2 DEF ChanceOK
  <2>3. CASE ~(q = r /\ u = t)
    <3>1. landed'[q][u] = landed[q][u] /\ (<<q, u>> \in adrift' => <<q, u>> \in adrift)
      BY <1>1, <1>3, <2>3
    <3>2. QED
      BY <1>1, <2>1, <3>1 DEF ChanceOK
  <2>4. QED
    BY <2>2, <2>3
<1>5. ASSUME NEW q \in Runs, external, loop[q].pc = "sent"
      PROVE  landed'[q][loop[q].t] = 0 /\ <<q, loop[q].t>> \notin adrift'
  <2> DEFINE u == loop[q].t
  <2>1. u \in Targets /\ landed[q][u] = 0 /\ <<q, u>> \notin adrift
    BY <1>5 DEF IInv, RunsOK, LoopOK, AtTarget
  <2> HIDE DEF u
  <2>2. ~(q = r /\ u = t)
    BY <1>1, <2>1
  <2>3. landed'[q][u] = 0 /\ <<q, u>> \notin adrift'
    BY <1>1, <1>3, <2>1, <2>2
  <2>4. QED
    BY <2>3 DEF u
<1>6. after(r) \in {"before", "after", "other"}
  BY DEF after
<1>7. QED
  BY <1>1, <1>2, <1>3, <1>4, <1>5, <1>6, WorldStep

\* The process dies: a request on its way to a host may still be carried out.
LEMMA CrashKeeps ==
    ASSUME IInv, Crash
    PROVE  IInv'
<1> DEFINE going == {<<q, loop[q].t>> : q \in {p \in Runs : external /\ loop[p].pc = "sent"}}
<1>1. /\ loop' = [q \in Runs |-> NoLoop] /\ adrift' = adrift \cup going
      /\ events' = events + 1
      /\ UNCHANGED <<mode, probe, run, row, armed, world, landed>>
  BY DEF Crash
<1>2. \A q \in Runs : loop'[q] = NoLoop /\ loop'[q].pc = "none"
  BY <1>1, NoRecords
<1>3. loop' \in [Runs -> LoopRec]
  BY <1>1, NoRecords
<1>4. \A q \in Runs : LoopOK(q)'
  BY <1>2, LoopRests
<1>5. LoopOpen'
  BY <1>2 DEF LoopOpen
<1>6. RunsMove /\ \A q \in Runs : MayWrite(q)' <=> MayWrite(q)
  BY <1>1, RunsLeft DEF RunsClose
<1>7. OneOpen'
  BY <1>6 DEF IInv, OneOpen
<1>8. \A q \in Runs : external /\ loop[q].pc = "sent" =>
         /\ loop[q].t \in Targets
         /\ row[q][loop[q].t].unknown = 1 /\ landed[q][loop[q].t] = 0
  BY DEF IInv, RunsOK, LoopOK, AtTarget
<1>9. \A q \in Runs, u \in Targets : <<q, u>> \in going =>
         external /\ row[q][u].unknown = 1 /\ landed[q][u] = 0
  BY <1>8
<1>10. going \in SUBSET (Runs \X Targets)
  BY <1>8
<1> HIDE DEF going
<1>11. adrift' \in SUBSET (Runs \X Targets) /\ events' \in Nat /\ probe' \in BOOLEAN
       /\ armed' \in [Runs -> BOOLEAN]
  BY <1>1, <1>10 DEF IInv, Types
<1>12. ASSUME NEW q \in Runs, NEW u \in Targets
       PROVE  /\ ChanceOK(q, u)'
              /\ row'[q][u].unknown = 0 \/ run[q].phase \notin {"unplanned", "previewed"}
  <2>1. ChanceOK(q, u) /\ RowOK(q, u) /\ external' = external
    BY <1>1, <1>12 DEF IInv, CellsOK, external
  <2>2. <<q, u>> \in adrift' => <<q, u>> \in adrift \/ <<q, u>> \in going
    BY <1>1
  <2>3. ChanceOK(q, u)'
    BY <1>1, <1>9, <2>1, <2>2 DEF ChanceOK
  <2>4. QED
    BY <1>1, <2>1, <2>3 DEF RowOK
<1>13. QED
  BY <1>1, <1>3, <1>4, <1>5, <1>6, <1>7, <1>11, <1>12, RowsLeft, LedgerStep

\* A loop that stays where it is.
LEMMA LoopsKept ==
    ASSUME IInv, UNCHANGED <<mode, world, adrift, landed>>, RowsSame, CountsSame, RunsMove,
           NEW q \in Runs, loop'[q].pc = loop[q].pc, loop'[q].t = loop[q].t,
           loop'[q].todo = loop[q].todo, loop'[q].clean = loop[q].clean
    PROVE  LoopOK(q)'
<1> DEFINE t == loop[q].t
<1>1. LoopOK(q) /\ external' = external
  BY DEF IInv, RunsOK, external
<1>2. SentBy(q)' = SentBy(q)
  BY DEF SentBy, RowsSame, SameRow
<1>3. Cardinality(SentBy(q)) \in Nat
  BY TargetsFinite DEF SentBy
<1>4. run[q].peak \in Nat /\ run'[q].peak \in Nat /\ run[q].peak <= run'[q].peak
  <2>1. run[q] \in RunRec /\ run'[q] \in RunRec /\ RunMove(q)
    BY DEF IInv, Types, RunsMove
  <2>2. QED
    BY <2>1, BulkAssumption DEF RunRec, RunMove
<1>5. t \in Targets => SameRow(row[q][t], row'[q][t]) /\ row'[q][t].unknown = row[q][t].unknown
  BY DEF RowsSame, CountsSame
<1>6. CASE loop[q].pc \in AtTarget
  <2>1. t \in Targets
    BY <1>1, <1>6 DEF LoopOK
  <2>2. QED
    BY <1>1, <1>2, <1>3, <1>4, <1>5, <1>6, <2>1 DEF LoopOK, AtTarget, SameRow
<1>7. CASE loop[q].pc \notin AtTarget
  BY <1>1, <1>7 DEF LoopOK, AtTarget
<1>8. QED
  BY <1>6, <1>7

-----------------------------------------------------------------------------
(***************************************************************************)
(* The owner, the trigger and time.                                        *)
(***************************************************************************)

\* A step that moves no loop and no target, and opens at most one run, when no
\* other is open.
LEMMA OwnerStep ==
    ASSUME IInv, UNCHANGED <<mode, world, adrift, landed>>, RowsSame, CountsSame, RunsMove,
           probe' \in BOOLEAN, armed' \in [Runs -> BOOLEAN],
           loop' \in [Runs -> LoopRec], events' \in Nat,
           \A q \in Runs : /\ loop'[q].pc = loop[q].pc /\ loop'[q].t = loop[q].t
                           /\ loop'[q].todo = loop[q].todo /\ loop'[q].clean = loop[q].clean,
           OneOpen', \A q \in Runs : MayWrite(q) => MayWrite(q)'
    PROVE  IInv'
<1>1. \A q \in Runs : LoopOK(q)'
  BY LoopsKept
<1>2. LoopOpen'
  BY DEF IInv, LoopOpen
<1>3. adrift' \in SUBSET (Runs \X Targets)
  BY DEF IInv, Types
<1>4. QED
  BY <1>1, <1>2, <1>3, ChancesKept, LedgerStep

\* The owner asks a loop to stop.
LEMMA AskStopKeeps ==
    ASSUME IInv, NEW r \in Runs, AskStop(r)
    PROVE  IInv'
<1> DEFINE l == [loop[r] EXCEPT !.stop = TRUE]
<1>1. /\ loop' = [loop EXCEPT ![r].stop = TRUE]
      /\ UNCHANGED <<mode, probe, run, row, armed, world, adrift, landed, events>>
  BY DEF AskStop
<1>2. loop \in [Runs -> LoopRec] /\ loop[r] \in LoopRec
  BY DEF IInv, Types
<1>3. l \in LoopRec
  BY <1>2, LoopWith
<1>4. /\ l.pc = loop[r].pc /\ l.t = loop[r].t /\ l.todo = loop[r].todo
      /\ l.clean = loop[r].clean
  BY <1>2 DEF LoopRec
<1>5. loop' = [loop EXCEPT ![r] = l]
  BY <1>1, <1>2
<1> HIDE DEF l
<1>6. /\ loop' \in [Runs -> LoopRec]
      /\ \A q \in Runs : /\ loop'[q].pc = loop[q].pc /\ loop'[q].t = loop[q].t
                         /\ loop'[q].todo = loop[q].todo /\ loop'[q].clean = loop[q].clean
  BY <1>2, <1>3, <1>4, <1>5
<1>7. RunsMove /\ \A q \in Runs : MayWrite(q)' <=> MayWrite(q)
  BY <1>1, RunsLeft DEF RunsClose
<1>8. OneOpen'
  BY <1>7 DEF IInv, OneOpen
<1>9. /\ probe' \in BOOLEAN /\ armed' \in [Runs -> BOOLEAN] /\ events' \in Nat
  BY <1>1 DEF IInv, Types
<1>10. QED
  BY <1>1, <1>6, <1>7, <1>8, <1>9, RowsLeft, OwnerStep

\* The probe's confirmation changes; the claim of a dead loop grows stale; or
\* nothing happens.
LEMMA QuietKeeps ==
    ASSUME IInv, RowsSame, CountsSame, probe' \in BOOLEAN,
           UNCHANGED <<mode, run, armed, loop, world, adrift, landed, events>>
    PROVE  IInv'
<1>1. RunsMove /\ \A q \in Runs : MayWrite(q)' <=> MayWrite(q)
  BY RunsLeft DEF RunsClose
<1>2. OneOpen'
  BY <1>1 DEF IInv, OneOpen
<1>3. /\ armed' \in [Runs -> BOOLEAN] /\ loop' \in [Runs -> LoopRec] /\ events' \in Nat
  BY DEF IInv, Types
<1>4. QED
  BY <1>1, <1>2, <1>3, OwnerStep

\* ProbeChanges.
LEMMA ProbeChangesKeeps ==
    ASSUME IInv, ProbeChanges
    PROVE  IInv'
<1>1. /\ probe' = ~probe
      /\ UNCHANGED <<mode, run, row, armed, loop, world, adrift, landed, events>>
  BY DEF ProbeChanges
<1>2. probe' \in BOOLEAN
  BY <1>1
<1>3. QED
  BY <1>1, <1>2, RowsLeft, QuietKeeps

\* ClaimGrowsStale.
LEMMA ClaimGrowsStaleKeeps ==
    ASSUME IInv, NEW r \in Runs, NEW t \in Targets, ClaimGrowsStale(r, t)
    PROVE  IInv'
<1>1. /\ row' = RowsClaimed(row, r, t, "stale") /\ "stale" \in Claims
      /\ UNCHANGED <<mode, probe, run, armed, loop, world, adrift, landed, events>>
  BY DEF ClaimGrowsStale, RowsClaimed, Claims
<1>2. RowsSame /\ CountsSame
  <2>1. /\ LikeRows(row')
        /\ \A q \in Runs, u \in Targets : row'[q][u].unknown = row[q][u].unknown
    BY <1>1, OwnRows, ClaimedRow
  <2>2. QED
    BY <2>1 DEF RowsSame, CountsSame, LikeRows
<1>3. probe' \in BOOLEAN
  BY <1>1 DEF IInv, Types
<1>4. QED
  BY <1>1, <1>2, <1>3, QuietKeeps

\* A run that is opened, or stays open, while no other is.
LEMMA OpenStep ==
    ASSUME IInv, NEW r \in Runs, NEW x \in RunRec, run' = [run EXCEPT ![r] = x],
           x.phase \in {"approved", "writing"}, run[r].phase # "unplanned",
           x.source = run[r].source, x.forth = run[r].forth,
           ~x.halted, x.max <= x.peak, run[r].peak <= x.peak,
           \A q \in Runs \ {r} : ~MayWrite(q)
    PROVE  RunsMove /\ OneOpen' /\ \A q \in Runs : MayWrite(q) => MayWrite(q)'
<1>1. run \in [Runs -> RunRec]
  BY DEF IInv, Types
<1>2. /\ run' \in [Runs -> RunRec] /\ run'[r] = x
      /\ \A q \in Runs \ {r} : run'[q] = run[q]
  BY <1>1
<1>3. RunMove(r)
  BY <1>2 DEF RunMove
<1>4. RunsMove
  BY <1>2, <1>3, MoveNone DEF RunsMove
<1>5. MayWrite(r)' /\ \A q \in Runs \ {r} : ~MayWrite(q)'
  BY <1>2 DEF MayWrite
<1>6. QED
  BY <1>4, <1>5 DEF OneOpen

\* The owner approves a run: no other run of the family is open.
LEMMA ApproveKeeps ==
    ASSUME IInv, NEW r \in Runs, NEW max \in Targets, Approve(r, max)
    PROVE  IInv'
<1> DEFINE x == [run[r] EXCEPT !.phase = "approved", !.max = max, !.peak = max,
                               !.halted = FALSE]
<1>1. /\ run[r].phase = "previewed" /\ ~writeBlocked(r)
      /\ run' = [run EXCEPT ![r].phase = "approved", ![r].max = max,
                            ![r].peak = max, ![r].halted = FALSE]
      /\ armed' = [armed EXCEPT ![r] = TRUE]
      /\ UNCHANGED <<mode, probe, row, loop, world, adrift, landed, events>>
  BY DEF Approve
<1>2. /\ run \in [Runs -> RunRec] /\ run[r] \in RunRec /\ MaxOK(r)
      /\ armed \in [Runs -> BOOLEAN]
  BY DEF IInv, Types, RunsOK
<1>3. run' = [run EXCEPT ![r] = x]
  BY <1>1, <1>2
<1>4. x \in RunRec
  <2>1. "approved" \in Phases /\ max \in 0 .. N /\ FALSE \in BOOLEAN
    BY DEF Phases, Targets
  <2>2. [run[r] EXCEPT !.phase = "approved", !.max = max] \in RunRec
    BY <1>2, <2>1, RunWith, Zenon
  <2>3. QED
    BY <2>1, <2>2, RunWith, Zenon
<1>5. /\ x.phase = "approved" /\ x.max = max /\ x.peak = max /\ ~x.halted
      /\ x.source = run[r].source /\ x.forth = run[r].forth
  BY <1>2 DEF RunRec
<1> HIDE DEF x
<1>6. \A q \in Runs \ {r} : ~MayWrite(q)
  BY <1>1 DEF writeBlocked, openInFamily
<1>7. x.max <= x.peak /\ run[r].peak <= x.peak
  <2>1. run[r].peak = 0
    BY <1>1, <1>2 DEF MaxOK
  <2>2. QED
    BY <1>5, <2>1, BulkAssumption DEF Targets
<1>8. RunsMove /\ OneOpen' /\ \A q \in Runs : MayWrite(q) => MayWrite(q)'
  <2>1. x.phase \in {"approved", "writing"} /\ run[r].phase # "unplanned"
    BY <1>1, <1>5
  <2>2. QED
    BY <1>3, <1>4, <1>5, <1>6, <1>7, <2>1, OpenStep
<1>9. /\ probe' \in BOOLEAN /\ armed' \in [Runs -> BOOLEAN]
      /\ loop' \in [Runs -> LoopRec] /\ events' \in Nat
  BY <1>1, <1>2 DEF IInv, Types
<1>10. QED
  BY <1>1, <1>8, <1>9, RowsLeft, OwnerStep

\* The owner resumes a run: the failed targets are tried again, and what may
\* be sent only grows.
LEMMA ResumeKeeps ==
    ASSUME IInv, NEW r \in Runs, NEW max \in Targets, Resume(r, max)
    PROVE  IInv'
<1> DEFINE p == IF max > run[r].peak THEN max ELSE run[r].peak
           x == [run[r] EXCEPT !.halted = FALSE, !.failed = 0, !.max = max, !.peak = p]
           again(t) == [row[r][t] EXCEPT !.error = "none", !.claim = "none"]
           new == [t \in Targets |->
                     IF ~row[r][t].applied /\ row[r][t].error \notin {"none", "secret"}
                     THEN again(t) ELSE row[r][t]]
<1>1. /\ run[r].phase \in {"approved", "writing"} /\ ~writeBlocked(r)
      /\ run' = [run EXCEPT ![r].halted = FALSE, ![r].failed = 0, ![r].max = max,
                            ![r].peak = IF max > @ THEN max ELSE @]
      /\ row' = [row EXCEPT ![r] = [t \in Targets |->
                    IF ~@[t].applied /\ @[t].error \notin {"none", "secret"}
                    THEN [@[t] EXCEPT !.error = "none", !.claim = "none"] ELSE @[t]]]
      /\ armed' = [armed EXCEPT ![r] = TRUE] /\ events' = events + 1
      /\ UNCHANGED <<mode, probe, loop, world, adrift, landed>>
  BY DEF Resume
<1>2. /\ run \in [Runs -> RunRec] /\ run[r] \in RunRec /\ MaxOK(r)
      /\ armed \in [Runs -> BOOLEAN] /\ row \in [Runs -> [Targets -> RowRec]]
  BY DEF IInv, Types, RunsOK
<1>3. run' = [run EXCEPT ![r] = x]
  BY <1>1, <1>2
<1>4. p \in 0 .. N /\ max <= p /\ run[r].peak <= p
  <2>1. run[r].peak \in 0 .. N /\ max \in 1 .. N
    BY <1>2 DEF RunRec, Targets
  <2>2. QED
    BY <2>1, BulkAssumption
<1> HIDE DEF p
<1>5. x \in RunRec
  <2>1. FALSE \in BOOLEAN /\ 0 \in Nat /\ max \in 0 .. N
    BY DEF Targets
  <2>2. [run[r] EXCEPT !.halted = FALSE, !.failed = 0] \in RunRec
    BY <1>2, <2>1, RunWith, Zenon
  <2>3. QED
    BY <1>4, <2>1, <2>2, RunWith, Zenon
<1>6. /\ x.phase = run[r].phase /\ x.max = max /\ x.peak = p /\ ~x.halted
      /\ x.source = run[r].source /\ x.forth = run[r].forth
  BY <1>2 DEF RunRec
<1> HIDE DEF x
<1>7. \A q \in Runs \ {r} : ~MayWrite(q)
  BY <1>1 DEF writeBlocked, openInFamily
<1>8. RunsMove /\ OneOpen' /\ \A q \in Runs : MayWrite(q) => MayWrite(q)'
  <2>1. /\ x.phase \in {"approved", "writing"} /\ run[r].phase # "unplanned"
        /\ x.max <= x.peak /\ run[r].peak <= x.peak
    BY <1>1, <1>4, <1>6
  <2>2. QED
    BY <1>3, <1>5, <1>6, <1>7, <2>1, OpenStep
<1>9. row' = [row EXCEPT ![r] = new]
  BY <1>1, <1>2
<1>10. ASSUME NEW t \in Targets
       PROVE  /\ new[t] \in RowRec /\ SameRow(row[r][t], new[t])
              /\ new[t].unknown = row[r][t].unknown
  <2>1. row[r][t] \in RowRec
    BY <1>2
  <2>2. again(t) \in RowRec
    <3>1. "none" \in Errors /\ "none" \in {"none", "fresh", "stale"}
      BY DEF Errors
    <3>2. QED
      BY <2>1, <3>1, RowWith, Zenon
  <2>3. SameRow(row[r][t], again(t)) /\ again(t).unknown = row[r][t].unknown
    BY <2>1 DEF RowRec, SameRow
  <2>4. SameRow(row[r][t], row[r][t])
    BY DEF SameRow
  <2> HIDE DEF again
  <2>5. new[t] = again(t) \/ new[t] = row[r][t]
    OBVIOUS
  <2> HIDE DEF new
  <2>6. QED
    BY <2>1, <2>2, <2>3, <2>4, <2>5
<1>11. new \in [Targets -> RowRec]
  <2>1. \A t \in Targets : new[t] \in RowRec
    BY <1>10
  <2>2. new = [t \in Targets |-> new[t]]
    OBVIOUS
  <2> HIDE DEF new
  <2>3. QED
    BY <2>1, <2>2
<1> HIDE DEF new
<1>12. /\ row' \in [Runs -> [Targets -> RowRec]] /\ row'[r] = new
       /\ \A q \in Runs : q # r => row'[q] = row[q]
  BY <1>2, <1>9, <1>11
<1>13. RowsSame /\ CountsSame
  BY <1>10, <1>12 DEF RowsSame, CountsSame, SameRow
<1>14. /\ probe' \in BOOLEAN /\ armed' \in [Runs -> BOOLEAN]
       /\ loop' \in [Runs -> LoopRec] /\ events' \in Nat
  <2>1. /\ armed' = [armed EXCEPT ![r] = TRUE] /\ events' = events + 1
        /\ UNCHANGED <<probe, loop>>
    BY <1>1
  <2>2. QED
    BY <1>2, <2>1 DEF IInv, Types
<1>15. /\ UNCHANGED <<mode, world, adrift, landed>>
       /\ \A q \in Runs : /\ loop'[q].pc = loop[q].pc /\ loop'[q].t = loop[q].t
                          /\ loop'[q].todo = loop[q].todo /\ loop'[q].clean = loop[q].clean
  BY <1>1
<1>16. QED
  BY <1>8, <1>13, <1>14, <1>15, OwnerStep

\* A run's loop starts: the run was open, so no other loop runs.
LEMMA StartKeeps ==
    ASSUME IInv, NEW r \in Runs, Start(r)
    PROVE  IInv'
<1> DEFINE x == [run[r] EXCEPT !.phase = "writing"]
           todo == listPending(r)
           probed == probeHolds(r)
           l == [NoLoop EXCEPT !.pc = "top", !.todo = todo, !.probed = probed]
<1>1. /\ MayWrite(r) /\ run' = [run EXCEPT ![r].phase = "writing"]
      /\ loop' = [loop EXCEPT ![r] = l]
      /\ UNCHANGED <<mode, probe, row, armed, world, adrift, landed, events>>
  BY DEF Start
<1>2. /\ run \in [Runs -> RunRec] /\ run[r] \in RunRec /\ MaxOK(r)
      /\ loop \in [Runs -> LoopRec] /\ NoLoop \in LoopRec
  BY NoRecords DEF IInv, Types, RunsOK
<1>3. todo \in SUBSET Targets
  BY DEF listPending, Writing
<1>4. probed \in BOOLEAN
  BY DEF probeHolds
<1> HIDE DEF todo, probed
<1>5. l \in LoopRec
  <2>1. "top" \in {"none", "top", "read", "send", "sent", "landed", "back", "restored"}
    OBVIOUS
  <2>2. [NoLoop EXCEPT !.pc = "top", !.todo = todo] \in LoopRec
    BY <1>2, <1>3, <2>1, LoopWith, Zenon
  <2>3. QED
    BY <1>4, <2>2, LoopWith, Zenon
<1>6. l.pc = "top"
  BY <1>2 DEF LoopRec
<1> HIDE DEF l
<1>7. loop'[r].pc = "top"
  BY <1>1, <1>2, <1>6
<1>8. /\ loop' \in [Runs -> LoopRec] /\ \A q \in Runs \ {r} : loop'[q].pc = "none"
      /\ \A q \in Runs : LoopOK(q)'
  <2>1. LoopOK(r)'
    BY <1>7, LoopRests
  <2>2. QED
    BY <1>1, <1>5, <2>1, LoopAlone
<1>9. x \in RunRec
  BY <1>2, RunWith DEF Phases
<1>10. /\ x.phase = "writing" /\ x.max = run[r].max /\ x.peak = run[r].peak
       /\ x.halted = run[r].halted /\ x.source = run[r].source /\ x.forth = run[r].forth
  BY <1>2 DEF RunRec
<1>11. run' = [run EXCEPT ![r] = x]
  BY <1>1, <1>2
<1> HIDE DEF x
<1>12. RunsMove /\ OneOpen' /\ \A q \in Runs : MayWrite(q) => MayWrite(q)'
  <2>1. /\ run[r].phase # "unplanned" /\ ~x.halted /\ x.phase \in {"approved", "writing"}
    BY <1>1, <1>10 DEF MayWrite
  <2>2. \A q \in Runs \ {r} : ~MayWrite(q)
    BY <1>1, OneLoop
  <2>3. run[r].peak \in Nat
    BY <1>2, BulkAssumption DEF RunRec
  <2>4. x.max <= x.peak /\ run[r].peak <= x.peak
    BY <1>2, <1>10, <2>3 DEF MaxOK
  <2>5. QED
    BY <1>9, <1>10, <1>11, <2>1, <2>2, <2>4, OpenStep
<1>13. LoopOpen'
  BY <1>1, <1>8, <1>12 DEF LoopOpen
<1>14. /\ probe' \in BOOLEAN /\ armed' \in [Runs -> BOOLEAN] /\ events' \in Nat
       /\ adrift' \in SUBSET (Runs \X Targets)
  BY <1>1 DEF IInv, Types
<1>15. QED
  BY <1>1, <1>8, <1>12, <1>13, <1>14, RowsLeft, ChancesKept, LedgerStep

\* The owner takes a target out of a previewed run, or back in: nothing was
\* sent to it.
LEMMA SetSelectedKeeps ==
    ASSUME IInv, NEW r \in Runs, NEW t \in Targets, SetSelected(r, t)
    PROVE  IInv'
<1> DEFINE v == IF row[r][t].in = "in" THEN "out" ELSE "in"
           x == [row[r][t] EXCEPT !.in = v]
<1>1. /\ run[r].phase = "previewed"
      /\ row' = [row EXCEPT ![r][t].in = IF @ = "in" THEN "out" ELSE "in"]
      /\ UNCHANGED <<mode, probe, run, armed, loop, world, adrift, landed, events>>
  BY DEF SetSelected
<1>2. row \in [Runs -> [Targets -> RowRec]] /\ row[r][t] \in RowRec
  BY DEF IInv, Types
<1>3. v \in {"no", "in", "out"} /\ row' = [row EXCEPT ![r][t] = x]
  BY <1>1, <1>2
<1> HIDE DEF v
<1>4. x \in RowRec
  BY <1>2, <1>3, RowWith
<1>5. /\ x.applied = row[r][t].applied /\ x.found = row[r][t].found
      /\ x.sent = row[r][t].sent /\ x.unknown = row[r][t].unknown
      /\ x.undone = row[r][t].undone
  BY <1>2 DEF RowRec
<1> HIDE DEF x
<1>6. /\ row' \in [Runs -> [Targets -> RowRec]] /\ row'[r][t] = x
      /\ \A q \in Runs, u \in Targets : q # r \/ u # t => row'[q][u] = row[q][u]
  BY <1>2, <1>3, <1>4
<1>7. \A q \in Runs, u \in Targets :
         /\ row'[q][u].applied = row[q][u].applied /\ row'[q][u].found = row[q][u].found
         /\ row'[q][u].sent = row[q][u].sent /\ row'[q][u].unknown = row[q][u].unknown
         /\ row'[q][u].undone = row[q][u].undone
         /\ q # r => row'[q][u].in = row[q][u].in
  BY <1>5, <1>6
<1>8. RunsMove /\ \A q \in Runs : MayWrite(q)' <=> MayWrite(q)
  BY <1>1, RunsLeft DEF RunsClose
<1>9. OneOpen' /\ LoopOpen'
  BY <1>1, <1>8 DEF IInv, OneOpen, LoopOpen
<1>10. loop[r].pc = "none"
  BY <1>1 DEF IInv, LoopOpen, MayWrite
<1>11. external' = external
  BY <1>1 DEF external
<1>12. ASSUME NEW q \in Runs PROVE SentBy(q)' = SentBy(q)
  BY <1>7 DEF SentBy
<1>13. ASSUME NEW q \in Runs PROVE LoopOK(q)'
  <2>1. CASE q = r
    BY <1>1, <1>10, <2>1, LoopRests
  <2>2. CASE q # r
    <3>1. LoopOK(q) /\ SentBy(q)' = SentBy(q)
      BY <1>12 DEF IInv, RunsOK
    <3>2. \A u \in Targets : row'[q][u] = row[q][u]
      BY <1>6, <2>2
    <3>3. QED
      BY <1>1, <1>11, <3>1, <3>2 DEF LoopOK, AtTarget
  <2>3. QED
    BY <2>1, <2>2
<1>14. ASSUME NEW q \in Runs PROVE GoneOK(q)'
  BY <1>1, <1>7, <1>11 DEF IInv, RunsOK, GoneOK
<1>15. ASSUME NEW q \in Runs PROVE Cardinality(SentBy(q)') <= run'[q].peak
  BY <1>1, <1>12 DEF IInv, RunsOK, MaxOK
<1>16. ASSUME NEW q \in Runs, NEW u \in Targets
       PROVE  Held(q, u)' /\ RowOK(q, u)' /\ ChanceOK(q, u)'
  <2>1. Held(q, u) /\ RowOK(q, u) /\ ChanceOK(q, u)
    BY <1>16 DEF IInv, CellsOK
  <2>2. Held(q, u)'
    <3>1. q = r => ~row[q][u].sent
      BY <1>1, <2>1 DEF RowOK
    <3>2. QED
      BY <1>1, <1>7, <2>1, <3>1 DEF Held, after
  <2>3. RowOK(q, u)' /\ ChanceOK(q, u)'
    BY <1>1, <1>7, <1>11, <2>1 DEF RowOK, ChanceOK
  <2>4. QED
    BY <2>2, <2>3
<1>17. Types'
  BY <1>1, <1>6 DEF IInv, Types
<1>18. QED
  BY <1>8, <1>9, <1>13, <1>14, <1>15, <1>16, <1>17, Assemble

\* An undo is planned: its number was never used, and nothing of the
\* family is open.
LEMMA PlanUndoKeeps ==
    ASSUME IInv, NEW src \in Runs, NEW r \in Runs, PlanUndo(src, r)
    PROVE  IInv'
<1> DEFINE forth == ~run[src].forth
           x == [NoRun EXCEPT !.phase = "previewed", !.source = src, !.forth = forth]
           fresh == [NoRow EXCEPT !.in = "in"]
           new == [t \in Targets |-> IF t \in undoEligible(src) THEN fresh ELSE NoRow]
<1>1. /\ run[r].phase = "unplanned" /\ isStopped(src) /\ openInFamily(0) = {}
      /\ run' = [run EXCEPT ![r] = x] /\ row' = [row EXCEPT ![r] = new]
      /\ UNCHANGED <<mode, probe, armed, loop, world, adrift, landed, events>>
  BY DEF PlanUndo, Planned
<1>2. /\ run \in [Runs -> RunRec] /\ row \in [Runs -> [Targets -> RowRec]]
      /\ run[src] \in RunRec /\ NoRun \in RunRec /\ NoRow \in RowRec
  BY NoRecords DEF IInv, Types
<1>3. forth \in BOOLEAN /\ forth # run[src].forth
  BY <1>2 DEF RunRec
<1> HIDE DEF forth
<1>4. x \in RunRec
  <2>1. "previewed" \in Phases /\ src \in 0 .. Depth
    BY BulkAssumption DEF Phases, Runs
  <2>2. [NoRun EXCEPT !.phase = "previewed", !.source = src] \in RunRec
    BY <1>2, <2>1, RunWith, Zenon
  <2>3. QED
    BY <1>3, <2>2, RunWith, Zenon
<1>5. /\ x.phase = "previewed" /\ x.source = src /\ x.forth = forth /\ x.max = 0
      /\ x.peak = 0
  BY DEF NoRun
<1> HIDE DEF x
<1>6. /\ fresh \in RowRec /\ ~fresh.found /\ ~fresh.sent /\ fresh.unknown = 0
  <2>1. fresh \in RowRec
    BY <1>2, RowWith
  <2>2. QED
    BY <2>1, NoRecords DEF NoRow
<1>7. ~NoRow.found /\ ~NoRow.sent /\ NoRow.unknown = 0
  BY NoRecords
<1> HIDE DEF fresh
<1>8. /\ new \in [Targets -> RowRec]
      /\ \A t \in Targets : ~new[t].found /\ ~new[t].sent /\ new[t].unknown = 0
  BY <1>2, <1>6, <1>7
<1> HIDE DEF new
<1>9. /\ run' \in [Runs -> RunRec] /\ run'[r] = x
      /\ \A q \in Runs : q # r => run'[q] = run[q]
  BY <1>1, <1>2, <1>4
<1>10. /\ row' \in [Runs -> [Targets -> RowRec]] /\ row'[r] = new
       /\ \A q \in Runs : q # r => row'[q] = row[q]
  BY <1>1, <1>2, <1>8
<1>11. src # r /\ run[src].phase # "unplanned"
  BY <1>1 DEF isStopped
<1>12. \A q \in Runs : ~MayWrite(q) /\ ~MayWrite(q)'
  <2>1. \A q \in Runs : ~MayWrite(q)
    BY <1>1 DEF openInFamily, Runs
  <2>2. QED
    BY <1>5, <1>9, <2>1 DEF MayWrite
<1>13. \A q \in Runs : loop'[q].pc = "none"
  BY <1>1, <1>12 DEF IInv, LoopOpen
<1>14. OneOpen' /\ LoopOpen'
  BY <1>12, <1>13 DEF OneOpen, LoopOpen
<1>15. external' = external
  BY <1>1 DEF external
<1>16. \A t \in Targets : /\ world[t].by # r /\ row[r][t].unknown = 0
  BY <1>1 DEF IInv, CellsOK, Held, RowOK
<1>17. ASSUME NEW q \in Runs PROVE SourceOK(q)'
  <2>1. CASE q = r
    BY <1>3, <1>5, <1>9, <1>11, <2>1 DEF SourceOK
  <2>2. CASE q # r
    <3>1. SourceOK(q) /\ run[q] \in RunRec /\ run'[q] = run[q]
      BY <1>2, <1>9, <2>2 DEF IInv, RunsOK
    <3>2. CASE run[q].source = 0
      BY <3>1, <3>2 DEF SourceOK
    <3>3. CASE run[q].source # 0
      <4>1. run[q].source \in Runs /\ run[q].source # r
        BY <1>1, <3>1, <3>3, BulkAssumption DEF SourceOK, RunRec, Runs
      <4>2. run'[run[q].source] = run[run[q].source]
        BY <1>9, <4>1
      <4>3. QED
        BY <3>1, <4>2 DEF SourceOK
    <3>4. QED
      BY <3>2, <3>3
  <2>3. QED
    BY <2>1, <2>2
<1>18. ASSUME NEW q \in Runs PROVE MaxOK(q)'
  <2>1. CASE q = r
    <3>1. SentBy(q)' = {}
      BY <1>8, <1>10, <2>1 DEF SentBy
    <3>2. Cardinality(SentBy(q)') = 0
      BY <3>1, FS_EmptySet
    <3>3. QED
      BY <1>5, <1>9, <2>1, <3>2 DEF MaxOK
  <2>2. CASE q # r
    <3>1. SentBy(q)' = SentBy(q)
      BY <1>10, <2>2 DEF SentBy
    <3>2. QED
      BY <1>9, <2>2, <3>1 DEF IInv, RunsOK, MaxOK
  <2>3. QED
    BY <2>1, <2>2
<1>19. ASSUME NEW q \in Runs PROVE LoopOK(q)' /\ GoneOK(q)'
  <2>1. LoopOK(q)'
    BY <1>13, LoopRests
  <2>2. GoneOK(q)'
    <3>1. CASE q = r
      BY <1>5, <1>9, <3>1 DEF GoneOK
    <3>2. CASE q # r
      BY <1>1, <1>9, <1>10, <1>15, <3>2 DEF IInv, RunsOK, GoneOK
    <3>3. QED
      BY <3>1, <3>2
  <2>3. QED
    BY <2>1, <2>2
<1>20. ASSUME NEW q \in Runs, NEW u \in Targets
       PROVE  Held(q, u)' /\ RowOK(q, u)' /\ ChanceOK(q, u)'
  <2>1. Held(q, u) /\ RowOK(q, u) /\ ChanceOK(q, u)
    BY <1>20 DEF IInv, CellsOK
  <2>2. CASE q = r
    <3>1. Held(q, u)'
      BY <1>1, <1>16, <2>2 DEF Held
    <3>2. RowOK(q, u)'
      BY <1>8, <1>10, <2>2 DEF RowOK
    <3>3. row'[q][u].unknown = 0 /\ row[q][u].unknown = 0
      BY <1>8, <1>10, <1>16, <2>2
    <3>4. ChanceOK(q, u)'
      BY <1>1, <1>15, <2>1, <3>3 DEF ChanceOK
    <3>5. QED
      BY <3>1, <3>2, <3>4
  <2>3. CASE q # r
    <3>1. row'[q][u] = row[q][u] /\ run'[q] = run[q]
      BY <1>9, <1>10, <2>3
    <3>2. QED
      BY <1>1, <1>15, <2>1, <3>1 DEF Held, RowOK, ChanceOK, after
  <2>4. QED
    BY <2>2, <2>3
<1>21. Types'
  BY <1>1, <1>9, <1>10 DEF IInv, Types
<1>22. QED
  BY <1>14, <1>17, <1>18, <1>19, <1>20, <1>21 DEF IInv, RunsOK, CellsOK

-----------------------------------------------------------------------------
(***************************************************************************)
(* The invariant.                                                          *)
(***************************************************************************)

\* A previewed apply run, untouched targets, no loop.
LEMMA InitIInv == Init => IInv
<1> SUFFICES ASSUME Init PROVE IInv
  OBVIOUS
<1> DEFINE first == Planned(0, TRUE)
           fresh == [NoRow EXCEPT !.in = "in"]
           cell == [val |-> "before", by |-> Other]
<1>1. NoRun \in RunRec /\ NoRow \in RowRec /\ NoLoop \in LoopRec /\ NoLoop.pc = "none"
  BY NoRecords
<1>2. /\ first \in RunRec /\ first.phase = "previewed" /\ first.source = 0
      /\ first.max = 0 /\ first.peak = 0
  <2>1. "previewed" \in Phases /\ 0 \in 0 .. Depth /\ TRUE \in BOOLEAN
    BY BulkAssumption DEF Phases
  <2>2. [NoRun EXCEPT !.phase = "previewed", !.source = 0] \in RunRec
    BY <1>1, <2>1, RunWith, Zenon
  <2>3. [NoRun EXCEPT !.phase = "previewed", !.source = 0, !.forth = TRUE] \in RunRec
    BY <2>1, <2>2, RunWith, Zenon
  <2>4. QED
    BY <2>3 DEF Planned, NoRun
<1>3. /\ NoRun.phase = "unplanned" /\ NoRun.source = 0 /\ NoRun.max = 0 /\ NoRun.peak = 0
  BY DEF NoRun
<1>4. fresh \in RowRec /\ ~fresh.found /\ ~fresh.sent /\ fresh.unknown = 0
  <2>1. fresh \in RowRec
    BY <1>1, RowWith
  <2>2. QED
    BY <2>1 DEF NoRow
<1>5. ~NoRow.found /\ ~NoRow.sent /\ NoRow.unknown = 0
  BY NoRecords
<1>6. cell \in Cell /\ cell.by = Other
  BY DEF Cell
<1>7. /\ run = [r \in Runs |-> IF r = 1 THEN first ELSE NoRun]
      /\ row = [r \in Runs |-> [t \in Targets |-> IF r = 1 THEN fresh ELSE NoRow]]
      /\ loop = [r \in Runs |-> NoLoop] /\ world = [t \in Targets |-> cell]
      /\ landed = [r \in Runs |-> [t \in Targets |-> 0]] /\ adrift = {}
      /\ armed = [r \in Runs |-> FALSE]
      /\ mode \in Modes /\ probe \in BOOLEAN /\ events = 0
  BY DEF Init
<1> HIDE DEF first, fresh, cell
<1>8. /\ run \in [Runs -> RunRec]
      /\ \A r \in Runs : /\ run[r].phase \in {"unplanned", "previewed"}
                         /\ run[r].source = 0 /\ run[r].max = 0 /\ run[r].peak = 0
  BY <1>1, <1>2, <1>3, <1>7
<1>9. /\ row \in [Runs -> [Targets -> RowRec]]
      /\ \A r \in Runs, t \in Targets :
            ~row[r][t].found /\ ~row[r][t].sent /\ row[r][t].unknown = 0
  <2>1. \A r \in Runs, t \in Targets : row[r][t] \in {fresh, NoRow}
    BY <1>7
  <2>2. row \in [Runs -> [Targets -> RowRec]]
    BY <1>1, <1>4, <1>7
  <2>3. QED
    BY <1>4, <1>5, <2>1, <2>2
<1>10. loop \in [Runs -> LoopRec] /\ \A r \in Runs : loop[r].pc = "none"
  BY <1>1, <1>7
<1>11. world \in [Targets -> Cell] /\ \A t \in Targets : world[t].by = Other
  BY <1>6, <1>7
<1>12. Types
  <2>1. landed \in [Runs -> [Targets -> 0 .. 2]] /\ armed \in [Runs -> BOOLEAN]
    BY <1>7
  <2>2. QED
    BY <1>7, <1>8, <1>9, <1>10, <1>11, <2>1 DEF Types
<1>13. OneOpen /\ LoopOpen
  BY <1>8, <1>10 DEF OneOpen, LoopOpen, MayWrite
<1>14. \A r \in Runs : r # Other
  BY DEF Runs, Other
<1>15. ASSUME NEW r \in Runs PROVE SourceOK(r) /\ MaxOK(r) /\ LoopOK(r) /\ GoneOK(r)
  <2>1. SentBy(r) = {}
    BY <1>9 DEF SentBy
  <2>2. MaxOK(r)
    BY <1>8, <2>1, FS_EmptySet DEF MaxOK
  <2>3. QED
    BY <1>8, <1>10, <1>11, <1>14, <2>2 DEF SourceOK, LoopOK, AtTarget, GoneOK
<1>16. ASSUME NEW r \in Runs, NEW t \in Targets
       PROVE  Held(r, t) /\ RowOK(r, t) /\ ChanceOK(r, t)
  <2>1. landed[r][t] = 0 /\ adrift = {}
    BY <1>7
  <2>2. QED
    BY <1>9, <1>11, <1>14, <2>1 DEF Held, RowOK, ChanceOK
<1>17. QED
  BY <1>12, <1>13, <1>15, <1>16 DEF IInv, RunsOK, CellsOK

\* Every action keeps the invariant.
LEMMA NextIInv == IInv /\ [Next]_vars => IInv'
<1> SUFFICES ASSUME IInv, [Next]_vars PROVE IInv'
  OBVIOUS
<1>1. CASE UNCHANGED vars
  <2>1. UNCHANGED <<mode, probe, run, row, armed, loop, world, adrift, landed, events>>
    BY <1>1 DEF vars
  <2>2. probe' \in BOOLEAN
    BY <2>1 DEF IInv, Types
  <2>3. QED
    BY <2>1, <2>2, RowsLeft, QuietKeeps
<1>2. CASE Owner
  <2>1. PICK r \in Runs :
           \/ \E t \in Targets : SetSelected(r, t)
           \/ \E max \in Targets : Approve(r, max) \/ Resume(r, max)
           \/ \E src \in Runs : PlanUndo(src, r)
           \/ AskStop(r)
    BY <1>2 DEF Owner
  <2>2. QED
    BY <2>1, SetSelectedKeeps, ApproveKeeps, ResumeKeeps, PlanUndoKeeps, AskStopKeeps
<1>3. CASE ProbeChanges \/ Crash
  BY <1>3, ProbeChangesKeeps, CrashKeeps
<1>4. ASSUME NEW r \in Runs, Start(r) \/ StartHalts(r) \/ LoopStep(r) PROVE IInv'
  <2>1. CASE Start(r) \/ StartHalts(r)
    BY <2>1, StartKeeps, StartHaltsKeeps
  <2>2. CASE \/ PickTarget(r) \/ OutOfTime(r) \/ ReadTarget(r) \/ NotSent(r)
             \/ Send(r) \/ WriteLands(r) \/ WriteRefused(r)
    BY <2>2, PickTargetKeeps, OutOfTimeKeeps, ReadTargetKeeps, NotSentKeeps,
       SendKeeps, WriteLandsKeeps, WriteRefusedKeeps
  <2>3. CASE \/ AnswerUnclear(r) \/ RecordTarget(r) \/ Through(r) \/ RollbackRead(r)
             \/ RollbackFails(r) \/ RollbackRecord(r) \/ RollbackEnds(r)
    BY <2>3, AnswerUnclearKeeps, RecordTargetKeeps, ThroughKeeps, RollbackReadKeeps,
       RollbackFailsKeeps, RollbackRecordKeeps, RollbackEndsKeeps
  <2>4. QED
    BY <1>4, <2>1, <2>2, <2>3 DEF LoopStep
<1>5. ASSUME NEW r \in Runs, NEW t \in Targets, LandLate(r, t) \/ ClaimGrowsStale(r, t)
      PROVE  IInv'
  BY <1>5, LandLateKeeps, ClaimGrowsStaleKeeps
<1>6. ASSUME NEW t \in Targets, NEW val \in {"before", "after", "other"}, Edit(t, val)
      PROVE  IInv'
  BY <1>6, EditKeeps
<1>7. QED
  BY <1>1, <1>2, <1>3, <1>4, <1>5, <1>6 DEF Next

\* The inductive invariant holds in every state a family can reach, whatever
\* process is lost and whoever else changes the targets.
THEOREM Invariance == Spec => []IInv
  BY InitIInv, NextIInv, PTL DEF Spec

\* No two runs of a family may write at once, and only a run that may write
\* has a loop.
THEOREM SingleWriter == Spec => []OneWriter
<1>1. IInv => OneWriter
  <2> SUFFICES ASSUME IInv PROVE OneWriter
    OBVIOUS
  <2> DEFINE open == {r \in Runs : MayWrite(r)}
  <2>1. Cardinality(open) <= 1
    <3>1. CASE open = {}
      BY <3>1, FS_EmptySet
    <3>2. CASE open # {}
      <4>1. PICK r \in open : TRUE
        BY <3>2
      <4>2. open = {r}
        BY <4>1 DEF IInv, OneOpen
      <4>3. QED
        BY <4>2, FS_Singleton
    <3>3. QED
      BY <3>1, <3>2
  <2>2. QED
    BY <2>1 DEF IInv, LoopOpen, OneWriter
<1>2. QED
  BY <1>1, Invariance, PTL

\* The verb of an external run takes effect on a target at most once, whatever
\* becomes of the answers, of the process and of later passes.
THEOREM CarriedOutAtMostOnce == Spec => []CarriedOutOnce
<1>1. IInv => CarriedOutOnce
  BY DEF IInv, CellsOK, ChanceOK, CarriedOutOnce
<1>2. QED
  BY <1>1, Invariance, PTL

\* No more targets receive a run's verb than the owner ever allowed it.
THEOREM WithinTheApproval == Spec => []SentWithinMax
<1>1. IInv => SentWithinMax
  BY DEF IInv, RunsOK, MaxOK, SentBy, SentWithinMax
<1>2. QED
  BY <1>1, Invariance, PTL

\* A run reported as undone left nothing that can be traced to it.
THEOREM UndoComplete == Spec => []UndoneIsGone
<1>1. IInv => UndoneIsGone
  BY DEF IInv, RunsOK, GoneOK, UndoneIsGone
<1>2. QED
  BY <1>1, Invariance, PTL

\* An atomic run whose rollback calls itself complete left nothing behind.
THEOREM RollbackComplete == Spec => []RollbackLeavesNothing
<1>1. IInv => RollbackLeavesNothing
  BY DEF IInv, RunsOK, GoneOK, RollbackLeavesNothing
<1>2. QED
  BY <1>1, Invariance, PTL

=============================================================================
