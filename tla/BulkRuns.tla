------------------------------- MODULE BulkRuns -------------------------------
(***************************************************************************)
(* The write phase of a bulk run and of its undos: the ledger's approve,   *)
(* resume, planUndo and target rows (src/src/core/bulk-ledger.ts), the     *)
(* loop that writes one target after another (src/src/core/bulk-apply.ts), *)
(* and the trigger that starts the loop, again after a lost process        *)
(* (src/src/core/worker-loop.ts, executeBulk).                             *)
(*                                                                         *)
(* Run 1 is an apply run; every other run is the undo of an earlier one,   *)
(* so the runs that exist are one family.  A target holds "before",        *)
(* "after" or a value the family does not know.  The steps of a loop end   *)
(* where the code awaits: the process may die between any two of them.     *)
(* One loop at a time runs a run (its trigger's lease, module WorkerLease).*)
(*                                                                         *)
(* A send a host answers 429 is made once more after a wait; the refusal   *)
(* takes its mark back, so the two leave what the last one leaves and are  *)
(* one send here.  Checksums, the approval window, the switch of a store   *)
(* and the run's trail are the ways StartHalts halts a run.                *)
(***************************************************************************)
EXTENDS Integers, FiniteSets, FiniteSetsExt

CONSTANTS
    N,                  \* targets of the apply run
    Depth,              \* runs of the family
    Modes,              \* kinds of run: "local", "atomic" (local), "external"
    HALT_CONSECUTIVE,   \* counted failures in a row that halt a run
    HALT_FAILURE_SHARE, \* percent of the targets that may fail in a pass
    MaxEvents           \* processes lost, resumes by the owner and changes of
                        \* a target by somebody else, together

ASSUME BulkAssumption ==
    /\ N \in Nat \ {0} /\ Depth \in Nat \ {0}
    /\ Modes \subseteq {"local", "atomic", "external"}
    /\ HALT_CONSECUTIVE \in Nat \ {0} /\ HALT_FAILURE_SHARE \in 0 .. 100
    /\ MaxEvents \in Nat

VARIABLES
    mode,    \* the family's target system, and whether its runs are atomic
    probe,   \* the owner confirmed what the verb does to fields not sent
    run,     \* the rows of bulk_runs
    row,     \* the rows of bulk_targets
    armed,   \* runs whose trigger is due
    loop,    \* the loop that writes a run
    world,   \* what each target holds and who put it there
    adrift,  \* requests that went out and may still be carried out
    landed,  \* history: how often a run's write took effect on a target
    events   \* crashes, resumes and edits so far

vars == <<mode, probe, run, row, armed, loop, world, adrift, landed, events>>

Runs == 1 .. Depth
Targets == 1 .. N
Other == 0    \* a target's value was set by nobody of the family, or restored
Late == -1    \* ... by a request that outlived the loop that sent it

Phases == {"unplanned", "previewed", "approved", "writing", "done", "aborted", "undone"}
Errors == {"none", "conflict", "failed", "secret", "sent_unknown"}

external == mode = "external"
atomic == mode = "atomic"

NoRow == [in |-> "no", applied |-> FALSE, found |-> FALSE, sent |-> FALSE,
          unknown |-> 0, error |-> "none", undone |-> FALSE, claim |-> "none"]
NoLoop == [pc |-> "none", todo |-> {}, t |-> 0, fails |-> 0, capped |-> FALSE,
           probed |-> FALSE, stop |-> FALSE, clean |-> TRUE]
NoRun == [phase |-> "unplanned", halted |-> FALSE, max |-> 0, peak |-> 0,
          failed |-> 0, clean |-> FALSE, source |-> 0, forth |-> FALSE]

Planned(src, forth) ==
    [NoRun EXCEPT !.phase = "previewed", !.source = src, !.forth = forth]

Init ==
    /\ mode \in Modes
    /\ probe \in BOOLEAN /\ (probe \/ mode = "external")
    /\ run = [r \in Runs |-> IF r = 1 THEN Planned(0, TRUE) ELSE NoRun]
    /\ row = [r \in Runs |-> [t \in Targets |->
                 IF r = 1 THEN [NoRow EXCEPT !.in = "in"] ELSE NoRow]]
    /\ armed = [r \in Runs |-> FALSE]
    /\ loop = [r \in Runs |-> NoLoop]
    /\ world = [t \in Targets |-> [val |-> "before", by |-> Other]]
    /\ adrift = {}
    /\ landed = [r \in Runs |-> [t \in Targets |-> 0]]
    /\ events = 0

-----------------------------------------------------------------------------
(* What the ledger reads.                                                   *)

after(r) == IF run[r].forth THEN "after" ELSE "before"
expected(r) == IF run[r].forth THEN "before" ELSE "after"

\* WRITING_SQL: a change the run writes, not taken out by the owner.
Writing(r) == {t \in Targets : row[r][t].in = "in"}

listPending(r) ==
    {t \in Writing(r) : ~row[r][t].applied /\ row[r][t].error = "none" /\ ~row[r][t].undone}

listApplied(r) ==
    {t \in Writing(r) : row[r][t].applied /\ ~row[r][t].found /\ ~row[r][t].undone}

listSentUnrecorded(r) ==
    {t \in Writing(r) : row[r][t].sent /\ ~row[r][t].applied /\ ~row[r][t].undone}

\* MUTANT: a failed or unrecorded send uses up no slot of the approval.
sentTargets_Applied(r) == {t \in Targets : row[r][t].applied /\ ~row[r][t].found}

sentTargets(r) ==
    {t \in Targets : (row[r][t].applied /\ ~row[r][t].found) \/ row[r][t].sent}

wasSent(r, t) == row[r][t].applied \/ row[r][t].sent

\* MUTANT: a failed write to a host is taken to have changed nothing.
undoEligible_Recorded(r) ==
    {t \in Writing(r) : ~row[r][t].undone /\ row[r][t].applied /\ ~row[r][t].found}

undoEligible(r) ==
    {t \in Writing(r) : /\ ~row[r][t].undone
                        /\ \/ row[r][t].applied /\ ~row[r][t].found
                           \/ external /\ row[r][t].sent}

MayWrite(r) == run[r].phase \in {"approved", "writing"} /\ ~run[r].halted

isStopped(r) ==
    \/ run[r].phase \in {"done", "aborted"}
    \/ run[r].phase = "writing" /\ run[r].halted

openInFamily(except) == {q \in Runs \ {except} : MayWrite(q)}

\* MUTANT: an undo waits for its source, a source does not for its undo.
writeBlocked_Source(r) == run[r].source # 0 /\ run[r].source \in openInFamily(r)

writeBlocked(r) ==
    \/ openInFamily(r) # {}
    \/ /\ run[r].source # 0
       /\ \/ run[run[r].source].phase = "undone"
          \/ \E t \in undoEligible(run[r].source) : row[r][t].in = "no"

\* An undo writes with the verb its source used, so it needs no probe.
probeHolds(r) == probe \/ run[r].source # 0

bulkWriteCap(max, holds) == IF holds THEN max ELSE IF max < 1 THEN max ELSE 1

bulkFailureLimit(n) == (n * HALT_FAILURE_SHARE) \div 100

\* Targets are written in seq order: an undo's is its source's reversed.
FirstOf(r, S) == IF run[r].forth THEN Min(S) ELSE Max(S)
LastOf(r, S) == IF run[r].forth THEN Max(S) ELSE Min(S)

-----------------------------------------------------------------------------
(* The owner.                                                               *)

\* deselectTarget and reselectTarget: only before the approval, and not on the
\* undo of an atomic run.
SetSelected(r, t) ==
    /\ run[r].phase = "previewed"
    /\ ~(run[r].source # 0 /\ atomic)
    /\ row[r][t].in # "no"
    /\ row' = [row EXCEPT ![r][t].in = IF @ = "in" THEN "out" ELSE "in"]
    /\ UNCHANGED <<mode, probe, run, armed, loop, world, adrift, landed, events>>

\* A maximum approve and resume accept: a wide run needs the probe, and an
\* atomic one capped below its size could only stop half written.
AllowedMax(r, max) ==
    /\ max \in 1 .. Cardinality(Writing(r))
    /\ max > 1 => probeHolds(r)
    /\ atomic => max = Cardinality(Writing(r))

Approve(r, max) ==
    /\ run[r].phase = "previewed"
    /\ AllowedMax(r, max)
    /\ ~writeBlocked(r)
    /\ run' = [run EXCEPT ![r].phase = "approved", ![r].max = max,
                          ![r].peak = max, ![r].halted = FALSE]
    /\ armed' = [armed EXCEPT ![r] = TRUE]
    /\ UNCHANGED <<mode, probe, row, loop, world, adrift, landed, events>>

\* The window restarts, the halt clears, and every failed target but one whose
\* content was refused is tried again.  The run need not have stopped.
Resume(r, max) ==
    /\ events < MaxEvents
    /\ run[r].phase \in {"approved", "writing"}
    /\ AllowedMax(r, max)
    /\ ~writeBlocked(r)
    /\ run' = [run EXCEPT ![r].halted = FALSE, ![r].failed = 0, ![r].max = max,
                          ![r].peak = IF max > @ THEN max ELSE @]
    /\ row' = [row EXCEPT ![r] = [t \in Targets |->
                  IF ~@[t].applied /\ @[t].error \notin {"none", "secret"}
                  THEN [@[t] EXCEPT !.error = "none", !.claim = "none"] ELSE @[t]]]
    /\ armed' = [armed EXCEPT ![r] = TRUE]
    /\ events' = events + 1
    /\ UNCHANGED <<mode, probe, loop, world, adrift, landed>>

PlanUndo(src, r) ==
    /\ run[r].phase = "unplanned"
    /\ \A q \in 1 .. r - 1 : run[q].phase # "unplanned"
    /\ isStopped(src)
    /\ openInFamily(0) = {}
    /\ atomic => /\ run[src].phase = "done"
                 /\ \A t \in Writing(src) : row[src][t].applied /\ ~row[src][t].undone
    /\ undoEligible(src) # {}
    /\ run' = [run EXCEPT ![r] = Planned(src, ~run[src].forth)]
    /\ row' = [row EXCEPT ![r] = [t \in Targets |->
                  IF t \in undoEligible(src) THEN [NoRow EXCEPT !.in = "in"] ELSE NoRow]]
    /\ UNCHANGED <<mode, probe, armed, loop, world, adrift, landed, events>>

\* The owner stops a run that is being written, or turns bulk runs off.
AskStop(r) ==
    /\ loop[r].pc # "none" /\ ~loop[r].stop
    /\ loop' = [loop EXCEPT ![r].stop = TRUE]
    /\ UNCHANGED <<mode, probe, run, row, armed, world, adrift, landed, events>>

\* The owner confirms a host's probe, or the confirmation stops holding.
ProbeChanges ==
    /\ external
    /\ probe' = ~probe
    /\ UNCHANGED <<mode, run, row, armed, loop, world, adrift, landed, events>>

-----------------------------------------------------------------------------
(* The loop.  Each operator below is part of a step.                        *)

\* The trigger has run: it is spent, unless the run is left pending.
EndLoop(r, again) ==
    /\ loop' = [loop EXCEPT ![r] = NoLoop]
    /\ armed' = [armed EXCEPT ![r] = again]

Halt(r) ==
    /\ run' = [run EXCEPT ![r].halted = TRUE]
    /\ EndLoop(r, FALSE)

\* On to the next target of the loop's list.
Continue(r, fails) ==
    loop' = [loop EXCEPT ![r].pc = "top", ![r].todo = @ \ {loop[r].t},
                         ![r].t = 0, ![r].fails = fails]

GoTo(r, pc) == loop' = [loop EXCEPT ![r].pc = pc]

\* MUTANT: only what the run recorded is rolled back.
StartRollback_Recorded(r) ==
    loop' = [loop EXCEPT ![r].pc = "back", ![r].t = 0, ![r].clean = TRUE,
                         ![r].todo = listApplied(r)]

\* rollBack's list: what the run recorded as written, and what it sent to and
\* never recorded.
StartRollback(r) ==
    loop' = [loop EXCEPT ![r].pc = "back", ![r].t = 0, ![r].clean = TRUE,
                         ![r].todo = listApplied(r) \cup listSentUnrecorded(r)]

\* endStopped, and the end of the time budget: an atomic run with a recorded
\* write rolls back, any other run is halted where it stands.
StopHere(r) ==
    IF atomic /\ listApplied(r) # {}
    THEN StartRollback(r) /\ UNCHANGED <<run, armed>>
    ELSE Halt(r)

\* The rows after an undo's target took its source's target back, or gave it up.
SourceUndone(rows, r, t, undone) ==
    IF run[r].source = 0 THEN rows
    ELSE [rows EXCEPT ![run[r].source][t].undone = undone]

recordApplied(r, t, already) ==
    row' = IF row[r][t].applied THEN row
           ELSE SourceUndone([row EXCEPT ![r][t].applied = TRUE, ![r][t].claim = "none",
                                         ![r][t].found = already /\ ~row[r][t].sent],
                             r, t, TRUE)

\* recordFailed on `rows`, and what the loop does next.
FailTarget(r, rows, error) ==
    LET t == loop[r].t
        counted == error \notin {"conflict", "sent_unknown"}
        failed == run[r].failed + (IF counted THEN 1 ELSE 0)
        fails == loop[r].fails + 1
    IN  /\ row' = [rows EXCEPT ![r][t].error = error, ![r][t].claim = "none"]
        /\ \/ /\ error = "sent_unknown"
              /\ Continue(r, loop[r].fails)
              /\ UNCHANGED <<run, armed>>
           \/ /\ error # "sent_unknown" /\ atomic
              /\ StartRollback(r)
              /\ run' = [run EXCEPT ![r].failed = failed]
              /\ UNCHANGED armed
           \/ /\ error = "conflict" /\ ~atomic
              /\ Continue(r, 0)
              /\ UNCHANGED <<run, armed>>
           \/ /\ counted /\ ~atomic
              /\ IF fails >= HALT_CONSECUTIVE \/ failed > bulkFailureLimit(Cardinality(Writing(r)))
                 THEN /\ run' = [run EXCEPT ![r].failed = failed, ![r].halted = TRUE]
                      /\ EndLoop(r, FALSE)
                 ELSE /\ run' = [run EXCEPT ![r].failed = failed]
                      /\ Continue(r, fails)
                      /\ UNCHANGED armed

\* A halt on the way to a target: it is given back unwritten.
HaltTarget(r, rows) ==
    /\ row' = [rows EXCEPT ![r][loop[r].t].claim = "none"]
    /\ Halt(r)

\* runBulkEffect up to the loop: the checks pass.  The trigger of a run is armed
\* only while the run may write, so the refusals before them never apply.
Start(r) ==
    /\ armed[r] /\ loop[r].pc = "none"
    /\ MayWrite(r)
    /\ run' = [run EXCEPT ![r].phase = "writing"]
    /\ loop' = [loop EXCEPT ![r] = [NoLoop EXCEPT !.pc = "top", !.todo = listPending(r),
                                                  !.probed = probeHolds(r)]]
    /\ UNCHANGED <<mode, probe, row, armed, world, adrift, landed, events>>

\* ... or one of them halts the run: its window is over, its targets no longer
\* match the checksum, the store is switched off, no writer or no trail.
StartHalts(r) ==
    /\ armed[r] /\ loop[r].pc = "none"
    /\ MayWrite(r)
    /\ Halt(r)
    /\ UNCHANGED <<mode, probe, row, world, adrift, landed, events>>

\* The head of the loop, from the yield to the claim, in one stretch.  The run
\* is still open there: only its own loop halts or ends it.
Capped(r, t) ==
    /\ Cardinality(sentTargets(r)) >= bulkWriteCap(run[r].max, loop[r].probed)
    /\ ~wasSent(r, t)

\* MUTANT: the claim of a dead loop is never taken over.
claimTarget_Held(r, t) == t \in listPending(r) /\ row[r][t].claim = "none"

claimTarget(r, t) ==
    /\ t \in listPending(r)
    /\ row[r][t].claim # "fresh"

PickTarget(r) ==
    LET t == FirstOf(r, loop[r].todo)
    IN  /\ loop[r].pc = "top" /\ loop[r].todo # {}
        /\ \/ /\ loop[r].stop
              /\ StopHere(r)
              /\ UNCHANGED row
           \/ /\ ~loop[r].stop /\ Capped(r, t)
              /\ loop' = [loop EXCEPT ![r].todo = @ \ {t}, ![r].capped = TRUE]
              /\ UNCHANGED <<run, row, armed>>
           \/ /\ ~loop[r].stop /\ ~Capped(r, t)
              /\ IF claimTarget(r, t)
                 THEN /\ row' = [row EXCEPT ![r][t].claim = "fresh"]
                      /\ loop' = [loop EXCEPT ![r].pc = "read", ![r].t = t]
                 ELSE /\ loop' = [loop EXCEPT ![r].todo = @ \ {t}]
                      /\ UNCHANGED row
              /\ UNCHANGED <<run, armed>>
        /\ UNCHANGED <<mode, probe, world, adrift, landed, events>>

\* The time budget of the pass is over.
OutOfTime(r) ==
    /\ loop[r].pc = "top" /\ loop[r].todo # {}
    /\ ~loop[r].stop
    /\ ~Capped(r, FirstOf(r, loop[r].todo))
    /\ StopHere(r)
    /\ UNCHANGED <<mode, probe, row, world, adrift, landed, events>>

\* writeOne reads the target: as planned already, changed by somebody else,
\* sent to before without a clear answer, or to be written.
ReadTarget(r) ==
    LET t == loop[r].t
        cur == world[t].val
    IN  /\ loop[r].pc = "read"
        /\ \/ /\ cur = after(r)
              /\ recordApplied(r, t, TRUE)
              /\ Continue(r, 0)
              /\ UNCHANGED <<run, armed>>
           \/ /\ cur \notin {after(r), expected(r)}
              /\ FailTarget(r, row, "conflict")
           \/ /\ cur = expected(r) /\ external /\ row[r][t].unknown > 0
              /\ FailTarget(r, row, "sent_unknown")
           \/ /\ cur = expected(r) /\ ~(external /\ row[r][t].unknown > 0)
              /\ GoTo(r, "send")
              /\ UNCHANGED <<run, row, armed>>
        /\ UNCHANGED <<mode, probe, world, adrift, landed, events>>

\* The read fails, the body carries a secret, or a request halts the run before
\* it leaves: no credential, a call outside the contract, a closed shop.
NotSent(r) ==
    /\ \/ /\ loop[r].pc = "read"
          /\ FailTarget(r, row, "failed")
       \/ /\ loop[r].pc = "send" /\ external
          /\ FailTarget(r, row, "secret")
       \/ /\ loop[r].pc \in {"read", "send"} /\ external
          /\ HaltTarget(r, row)
    /\ UNCHANGED <<mode, probe, world, adrift, landed, events>>

\* MUTANT: a send is counted as unclear once its answer is, not as it leaves.
markSent_Uncounted(r, t) == row' = [row EXCEPT ![r][t].sent = TRUE]

\* unknown_sends counts; the model stops at two.
markSent(r, t) ==
    row' = [row EXCEPT ![r][t].sent = TRUE, ![r][t].unknown = IF @ < 2 THEN @ + 1 ELSE @]

Send(r) ==
    /\ loop[r].pc = "send"
    /\ markSent(r, loop[r].t)
    /\ GoTo(r, "sent")
    /\ UNCHANGED <<mode, probe, run, armed, world, adrift, landed, events>>

Put(t, val, by) == world' = [world EXCEPT ![t] = [val |-> val, by |-> by]]

CountLanding(r, t) == landed' = [landed EXCEPT ![r][t] = IF @ < 2 THEN @ + 1 ELSE @]

\* The write takes effect; the loop has not heard of it yet.
WriteLands(r) ==
    /\ loop[r].pc = "sent"
    /\ Put(loop[r].t, after(r), r)
    /\ CountLanding(r, loop[r].t)
    /\ GoTo(r, "landed")
    /\ UNCHANGED <<mode, probe, run, row, armed, adrift, events>>

\* What a loop does with a send its host refused: the target fails, or the
\* refusal is about the credential and the run halts.
markRefused(r, t) ==
    [row EXCEPT ![r][t].unknown = IF @ > 0 THEN @ - 1 ELSE @]

\* A write that did not take effect: a local write fails, a host refuses.
WriteRefused(r) ==
    LET rows == IF external THEN markRefused(r, loop[r].t) ELSE row
    IN  /\ loop[r].pc = "sent"
        /\ \/ FailTarget(r, rows, "failed")
           \/ external /\ HaltTarget(r, rows)
        /\ UNCHANGED <<mode, probe, world, adrift, landed, events>>

\* No clear answer (a timeout, a server error, a redirect): the request was
\* carried out already, or may be at any later time, or never.  The target fails;
\* an answer that is about every target (a closed shop, a form too costly) halts
\* the run instead, the target released with its send left unclear.
AnswerUnclear(r) ==
    /\ external
    /\ \/ loop[r].pc = "landed" /\ UNCHANGED adrift
       \/ loop[r].pc = "sent" /\ adrift' = adrift \cup {<<r, loop[r].t>>}
    /\ FailTarget(r, row, "failed") \/ HaltTarget(r, row)
    /\ UNCHANGED <<mode, probe, world, landed, events>>

\* The write is answered and recorded; a host that kept markup the run never
\* sent halts it.
RecordTarget(r) ==
    /\ loop[r].pc = "landed"
    /\ recordApplied(r, loop[r].t, FALSE)
    /\ \/ Continue(r, 0) /\ UNCHANGED <<run, armed>>
       \/ external /\ Halt(r)
    /\ UNCHANGED <<mode, probe, world, adrift, landed, events>>

\* BulkLedger.finish: the source is undone once nothing is left standing.
finish(r) ==
    LET src == run[r].source
        done == [run EXCEPT ![r].phase = "done"]
    IN  run' = IF /\ src # 0
                  /\ undoEligible(src) = {}
                  /\ run[src].phase \in {"done", "aborted", "writing"}
               THEN [done EXCEPT ![src].phase = "undone"] ELSE done

\* The list is through: finished, at its maximum, stopped during the last
\* write, or left pending on targets a dead loop still holds.
Through(r) ==
    /\ loop[r].pc = "top" /\ loop[r].todo = {}
    /\ \/ /\ listPending(r) = {}
          /\ finish(r)
          /\ EndLoop(r, FALSE)
       \/ /\ listPending(r) # {} /\ loop[r].capped
          /\ Halt(r)
       \/ /\ listPending(r) # {} /\ ~loop[r].capped /\ loop[r].stop
          /\ StopHere(r)
       \/ /\ listPending(r) # {} /\ ~loop[r].capped /\ ~loop[r].stop
          /\ EndLoop(r, TRUE)
          /\ UNCHANGED run
    /\ UNCHANGED <<mode, probe, row, world, adrift, landed, events>>

-----------------------------------------------------------------------------
(* rollBack: newest first, each target only while it holds what the run     *)
(* wrote.                                                                   *)

recordUnrecordedSettled(r, t) ==
    [row EXCEPT ![r][t].undone = @ \/ (row[r][t].sent /\ ~row[r][t].applied)]

recordRolledBack(r, t) ==
    SourceUndone([row EXCEPT ![r][t].undone = @ \/ row[r][t].applied], r, t, FALSE)

\* The target is skipped: `whole` says whether nothing of the run is left on it.
BackNext(r, t, whole) ==
    loop' = [loop EXCEPT ![r].todo = @ \ {t}, ![r].clean = @ /\ whole]

RollbackRead(r) ==
    LET t == LastOf(r, loop[r].todo)
        cur == world[t].val
    IN  /\ loop[r].pc = "back" /\ loop[r].todo # {}
        /\ \/ /\ ~row[r][t].applied /\ cur = expected(r)
              /\ row' = recordUnrecordedSettled(r, t)
              /\ BackNext(r, t, TRUE)
              /\ UNCHANGED world
           \/ /\ cur # after(r) /\ ~(~row[r][t].applied /\ cur = expected(r))
              /\ BackNext(r, t, FALSE)
              /\ UNCHANGED <<row, world>>
           \/ /\ cur = after(r)
              /\ Put(t, expected(r), Other)
              /\ loop' = [loop EXCEPT ![r].pc = "restored", ![r].t = t]
              /\ UNCHANGED row
        /\ UNCHANGED <<mode, probe, run, armed, adrift, landed, events>>

\* The read or the write of a target fails.
RollbackFails(r) ==
    /\ loop[r].pc = "back" /\ loop[r].todo # {}
    /\ BackNext(r, LastOf(r, loop[r].todo), FALSE)
    /\ UNCHANGED <<mode, probe, run, row, armed, world, adrift, landed, events>>

RollbackRecord(r) ==
    LET t == loop[r].t
    IN  /\ loop[r].pc = "restored"
        /\ row' = IF row[r][t].applied THEN recordRolledBack(r, t)
                  ELSE recordUnrecordedSettled(r, t)
        /\ loop' = [loop EXCEPT ![r].pc = "back", ![r].t = 0, ![r].todo = @ \ {t}]
        /\ UNCHANGED <<mode, probe, run, armed, world, adrift, landed, events>>

RollbackEnds(r) ==
    /\ loop[r].pc = "back" /\ loop[r].todo = {}
    /\ run' = [run EXCEPT ![r].phase = "aborted", ![r].halted = TRUE,
                          ![r].clean = loop[r].clean]
    /\ EndLoop(r, FALSE)
    /\ UNCHANGED <<mode, probe, row, world, adrift, landed, events>>

-----------------------------------------------------------------------------
(* The world around the loop.                                               *)

\* Somebody else changes a target.
Edit(t, val) ==
    /\ events < MaxEvents
    /\ world[t].val # val
    /\ Put(t, val, Other)
    /\ events' = events + 1
    /\ UNCHANGED <<mode, probe, run, row, armed, loop, adrift, landed>>

\* A request nobody waits for any more is carried out.
LandLate(r, t) ==
    /\ <<r, t>> \in adrift
    /\ Put(t, after(r), Late)
    /\ adrift' = adrift \ {<<r, t>>}
    /\ CountLanding(r, t)
    /\ UNCHANGED <<mode, probe, run, row, armed, loop, events>>

\* The process dies.  The ledger stays, claims included; the lease of a trigger
\* whose run was going on lapses, and the trigger starts the run again
\* (RESUMES_AFTER_LOSS).  A request on its way to a host goes on.
Crash ==
    /\ events < MaxEvents
    /\ \E r \in Runs : loop[r].pc # "none"
    /\ loop' = [r \in Runs |-> NoLoop]
    /\ adrift' = adrift \cup {<<r, loop[r].t>> : r \in {q \in Runs : external /\ loop[q].pc = "sent"}}
    /\ events' = events + 1
    /\ UNCHANGED <<mode, probe, run, row, armed, world, landed>>

\* BULK_CLAIM_STALE_MS pass over the claim of a loop that died.
ClaimGrowsStale(r, t) ==
    /\ row[r][t].claim = "fresh"
    /\ loop[r].t # t
    /\ row' = [row EXCEPT ![r][t].claim = "stale"]
    /\ UNCHANGED <<mode, probe, run, armed, loop, world, adrift, landed, events>>

-----------------------------------------------------------------------------

LoopStep(r) ==
    \/ PickTarget(r) \/ OutOfTime(r) \/ ReadTarget(r) \/ NotSent(r)
    \/ Send(r) \/ WriteLands(r) \/ WriteRefused(r) \/ AnswerUnclear(r)
    \/ RecordTarget(r) \/ Through(r)
    \/ RollbackRead(r) \/ RollbackFails(r) \/ RollbackRecord(r) \/ RollbackEnds(r)

Owner ==
    \E r \in Runs :
        \/ \E t \in Targets : SetSelected(r, t)
        \/ \E max \in Targets : Approve(r, max) \/ Resume(r, max)
        \/ \E src \in Runs : PlanUndo(src, r)
        \/ AskStop(r)

Next ==
    \/ Owner \/ ProbeChanges \/ Crash
    \/ \E r \in Runs : Start(r) \/ StartHalts(r) \/ LoopStep(r)
    \/ \E r \in Runs, t \in Targets : LandLate(r, t) \/ ClaimGrowsStale(r, t)
    \/ \E t \in Targets, val \in {"before", "after", "other"} : Edit(t, val)

Spec == Init /\ [][Next]_vars

\* The worker starts a trigger that is due, a loop goes on (every await ends, a
\* request's by its timeout), and time passes.
Fairness ==
    /\ \A r \in Runs : WF_vars(Start(r) \/ StartHalts(r)) /\ WF_vars(LoopStep(r))
    /\ \A r \in Runs, t \in Targets : WF_vars(ClaimGrowsStale(r, t))

FairSpec == Spec /\ Fairness

-----------------------------------------------------------------------------

TypeOK ==
    /\ mode \in Modes /\ probe \in BOOLEAN
    /\ run \in [Runs -> [phase : Phases, halted : BOOLEAN, max : 0 .. N, peak : 0 .. N,
                         failed : 0 .. N, clean : BOOLEAN, source : 0 .. Depth,
                         forth : BOOLEAN]]
    /\ row \in [Runs -> [Targets -> [in : {"no", "in", "out"}, applied : BOOLEAN,
                         found : BOOLEAN, sent : BOOLEAN, unknown : 0 .. 2, error : Errors,
                         undone : BOOLEAN, claim : {"none", "fresh", "stale"}]]]
    /\ armed \in [Runs -> BOOLEAN]
    /\ loop \in [Runs -> [pc : {"none", "top", "read", "send", "sent", "landed", "back",
                                "restored"},
                          todo : SUBSET Targets, t : 0 .. N, fails : 0 .. HALT_CONSECUTIVE,
                          capped : BOOLEAN, probed : BOOLEAN, stop : BOOLEAN,
                          clean : BOOLEAN]]
    /\ world \in [Targets -> [val : {"before", "after", "other"}, by : Runs \cup {Other, Late}]]
    /\ adrift \subseteq Runs \X Targets
    /\ landed \in [Runs -> [Targets -> 0 .. 2]]
    /\ events \in 0 .. MaxEvents

\* A run and its undos write the same targets in opposite directions, so no two
\* runs of a family may write at once (writeBlocked in approve and resume), and
\* a run being written is one that may write.
OneWriter ==
    /\ Cardinality({r \in Runs : MayWrite(r)}) <= 1
    /\ \A r \in Runs : loop[r].pc # "none" => MayWrite(r)

\* The verb of an external run takes effect on a target at most once, whatever
\* becomes of the answers, of the process and of later passes (hasUnknownSend).
CarriedOutOnce ==
    external => \A r \in Runs, t \in Targets : landed[r][t] <= 1

\* No more targets receive a run's verb than the owner ever allowed it,
\* failed, refused and unrecorded sends included (sentCount, bulkWriteCap).
SentWithinMax ==
    \A r \in Runs : Cardinality({t \in Targets : row[r][t].sent}) <= run[r].peak

\* A run reported as undone left nothing a later reader could trace to it: no
\* target still holds what an external run wrote, nor what a local run recorded
\* as written.  (A request that outlived its loop may land at any time.)
UndoneIsGone ==
    \A r \in Runs, t \in Targets :
        run[r].phase = "undone" /\ world[t].by = r => ~external /\ ~row[r][t].applied

\* An atomic run whose rollback calls itself complete left nothing behind, the
\* unrecorded writes of dead loops included.
RollbackLeavesNothing ==
    \A r \in Runs, t \in Targets :
        run[r].phase = "aborted" /\ run[r].clean => world[t].by # r

\* An approved run is written to its end or halted, whatever process is lost.
OpenRunEnds == \A r \in Runs : MayWrite(r) ~> ~MayWrite(r)

\* What bulk-apply.ts says of an atomic run, which "must not stop half written":
\* one that ends `done` with a write of its own standing has all of its targets
\* as planned.
AtomicNotHalf ==
    [][\A r \in Runs :
          /\ atomic /\ run[r].phase # "done" /\ run'[r].phase = "done"
          /\ listApplied(r) # {}
          => \A t \in Writing(r) : row[r][t].applied]_vars

=============================================================================
