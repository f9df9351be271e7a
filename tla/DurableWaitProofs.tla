--------------------------- MODULE DurableWaitProofs ---------------------------
(***************************************************************************)
(* What a durable wait keeps, for any number of questions, triggers,       *)
(* sessions, processes and failed writes:                                  *)
(*   - the worker loop uses the prompt store only through its operations;  *)
(*   - an answer is handed out once per process, and never thrown away;    *)
(*   - a shutdown keeps a question, and an open question has an audience;  *)
(*   - a one-shot its owner stopped is started by nobody else.             *)
(*                                                                         *)
(* The argument.  A run between asking and un-parking knows its question   *)
(* (RunInv), and a run waits only where a process is up or draining        *)
(* (ProcInv).  The store changes under the wait only in the ways of        *)
(* StoreOK, so that what is attached to a trigger is what its run, or its  *)
(* row, waits for (AskInv, AudInv).                                        *)
(***************************************************************************)
EXTENDS DurableWait, TLAPS

HasQuestion == {"parking", "asking", "drained", "detached"}

RunInv ==
    /\ run \in [Triggers -> Run]
    /\ \A t \in Triggers : run[t].phase \in HasQuestion => run[t].prompt \in Prompts

\* At the start nothing runs.
LEMMA RunInit == Init => RunInv
  BY DEF Init, RunInv, NoRun, HasQuestion, Run, Phase

\* The run of one trigger changes.
LEMMA OneRun ==
  ASSUME RunInv, NEW t \in Triggers, NEW r \in Run, run' = [run EXCEPT ![t] = r],
         r.phase \in HasQuestion => r.prompt \in Prompts
  PROVE  RunInv'
  BY DEF RunInv

\* A run learns of its question when it asks and keeps it to the end.
LEMMA RunStep == RunInv /\ [Next]_vars => RunInv'
<1> SUFFICES ASSUME RunInv, [Next]_vars PROVE RunInv'
  OBVIOUS
<1> USE DEF RunInv, Run, Phase, HasQuestion, NoRun
<1>1. CASE run' = run
  BY <1>1
<1>2. ASSUME NEW t \in Triggers, Dispatch(t) PROVE RunInv'
  BY <1>2 DEF Dispatch
<1>3. ASSUME NEW t \in Triggers, RunTriggerNow(t) PROVE RunInv'
  BY <1>3 DEF RunTriggerNow
<1>4. ASSUME NEW t \in Triggers, Load(t) PROVE RunInv'
  <2>1. Store!AnsweredFor(t) \subseteq Prompts
    BY DEF Store!AnsweredFor
  <2>2. CASE run' = [run EXCEPT ![t].phase = "working"]
    BY <2>2
  <2>3. ASSUME NEW p \in Prompts \union {Null},
               run' = [run EXCEPT ![t] = [@ EXCEPT !.phase = "working", !.thread = p]]
        PROVE  RunInv'
    <3> DEFINE r == [run[t] EXCEPT !.phase = "working", !.thread = p]
    <3>1. r \in Run /\ r.phase = "working"
      OBVIOUS
    <3> QED
      BY <2>3, <3>1, OneRun
  <2> QED
    BY <1>4, <2>1, <2>2, <2>3 DEF Load
<1>5. ASSUME NEW t \in Triggers, LoadRefused(t) \/ AskRefused(t) PROVE RunInv'
  <2>1. CASE run' = [run EXCEPT ![t].phase = "refused"]
    BY <2>1
  <2>2. CASE run' = [run EXCEPT ![t].unanswered = TRUE]
    BY <2>2
  <2> QED
    BY <1>5, <2>1, <2>2 DEF LoadRefused, AskRefused
<1>6. ASSUME NEW t \in Triggers, NEW p \in Prompts, Ask(t, p) PROVE RunInv'
  <2> DEFINE r == [run[t] EXCEPT !.phase = "parking", !.prompt = p, !.thread = p]
  <2>1. r \in Run /\ r.prompt = p
    OBVIOUS
  <2>2. run' = [run EXCEPT ![t] = r]
    BY <1>6 DEF Ask
  <2> QED
    BY <2>1, <2>2, OneRun
<1>7. ASSUME NEW t \in Triggers, Park(t) PROVE RunInv'
  <2>1. run' = [run EXCEPT ![t].phase = "asking"] /\ run[t].phase = "parking"
    BY <1>7 DEF Park
  <2> QED
    BY <2>1
<1>8. ASSUME NEW t \in Triggers, Drain(t) \/ Take(t) PROVE RunInv'
  <2>1. run[t].phase = "asking"
    BY <1>8 DEF Drain, Take, Settled
  <2>2. WaitOver(t) \in Run /\ (WaitOver(t).phase \in HasQuestion => WaitOver(t).prompt \in Prompts)
    BY <2>1 DEF WaitOver
  <2> DEFINE r == [WaitOver(t) EXCEPT !.unanswered = TRUE]
  <2>3. r \in Run /\ (r.phase \in HasQuestion => r.prompt \in Prompts)
    BY <2>2
  <2>4. run' = [run EXCEPT ![t] = r] \/ run' = [run EXCEPT ![t] = WaitOver(t)]
    BY <1>8 DEF Drain, Take
  <2> QED
    BY <2>2, <2>3, <2>4, OneRun
<1>9. ASSUME NEW t \in Triggers, Detach(t) PROVE RunInv'
  <2>1. run' = [run EXCEPT ![t].phase = "detached"] /\ run[t].phase = "drained"
    BY <1>9 DEF Detach
  <2> QED
    BY <2>1
<1>10. ASSUME NEW t \in Triggers, Unpark(t) PROVE RunInv'
  <2> DEFINE r == [run[t] EXCEPT !.phase = "working", !.prompt = Null]
  <2>1. r \in Run /\ r.phase = "working"
    OBVIOUS
  <2>2. run' = [run EXCEPT ![t] = r]
    BY <1>10 DEF Unpark
  <2> QED
    BY <2>1, <2>2, OneRun
<1>11. ASSUME NEW t \in Triggers, NEW o, EndRun(t, o) PROVE RunInv'
  BY <1>11 DEF EndRun
<1>12. ASSUME NEW t \in Triggers, StopTask(t) PROVE RunInv'
  BY <1>12 DEF StopTask
<1>13. CASE Exit
  BY <1>13 DEF Exit
<1>14. ASSUME \/ \E t \in Triggers :
                    \/ ReArm(t) \/ ReArmDue(t)
                    \/ Sweep(t) \/ SweepEnd(t) \/ SweepRecord(t)
                    \/ ToolTimeout(t) \/ LeaseLapses(t) \/ Occur(t)
              \/ \E t \in Triggers, st \in {"open", "completed"} : SetStatus(t, st)
              \/ \E p \in Prompts : Answer(p) \/ Timer(p)
              \/ ExpireOld \/ Stop \/ Boot \/ Advance
              \/ UNCHANGED vars
       PROVE  run' = run
  BY <1>14
  DEF ReArm, ReArmDue, Sweep, SweepEnd, SweepRecord, ToolTimeout, LeaseLapses,
      Occur, SetStatus, Answer, Timer, ExpireOld, Stop, Boot, Advance, vars
<1> QED
  BY <1>1, <1>2, <1>3, <1>4, <1>5, <1>6, <1>7, <1>8, <1>9, <1>10, <1>11,
     <1>12, <1>13, <1>14 DEF Next

-----------------------------------------------------------------------------
(* Every step is a step of the store, or leaves it alone.                  *)

\* The store starts as PromptStore says.
LEMMA StoreInit == Init => Store!Init
  BY DEF Init

\* Every step does one operation of the store, or none.
LEMMA StoreStep == RunInv /\ [Next]_vars => [Store!Next]_(Store!vars)
<1> SUFFICES ASSUME RunInv, [Next]_vars PROVE [Store!Next]_(Store!vars)
  OBVIOUS
<1>0. CASE UNCHANGED store
  BY <1>0 DEF store, Store!vars
<1>1. ASSUME NEW t \in Triggers, NEW r \in {"timed_out", "plan_ended"},
             Store!ExpirePendingForTrigger(t, r)
      PROVE  Store!Next
  BY <1>1 DEF Store!Next
<1>2. ASSUME NEW t \in Triggers, Sweep(t) PROVE Store!Next \/ UNCHANGED store
  BY <1>1, <1>2 DEF Sweep
<1>3. ASSUME NEW t \in Triggers, RunTriggerNow(t) PROVE Store!Next \/ UNCHANGED store
  BY <1>1, <1>3 DEF RunTriggerNow
<1>4. ASSUME NEW p \in Prompts, Store!ReleaseTrigger(p) PROVE Store!Next
  BY <1>4 DEF Store!Next
<1>5. ASSUME NEW t \in Triggers, Load(t) \/ LoadRefused(t)
      PROVE  Store!Next \/ UNCHANGED store
  BY <1>4, <1>5 DEF Load, LoadRefused, Store!AnsweredFor
<1>6. ASSUME NEW t \in Triggers, NEW p \in Prompts, Ask(t, p) PROVE Store!Next
  BY <1>6 DEF Ask, Store!Next, Store!Askers
<1>7. ASSUME NEW t \in Triggers, Park(t) PROVE Store!Next
  BY <1>7 DEF Park, Store!Next, RunInv, HasQuestion
<1>8. ASSUME NEW t \in Triggers, Drain(t) PROVE Store!Next \/ UNCHANGED store
  <2>1. run[t].prompt \in Prompts
    BY <1>8 DEF Drain, Settled, RunInv, HasQuestion
  <2> QED
    BY <1>8, <2>1 DEF Drain, Store!Next
<1>9. ASSUME NEW t \in Triggers, Detach(t) PROVE Store!Next \/ UNCHANGED store
  BY <1>4, <1>9 DEF Detach, RunInv, HasQuestion
<1>10. ASSUME NEW ps \in SUBSET Prompts, Store!Abort(ps) PROVE Store!Next
  BY <1>10 DEF Store!Next
<1>11. ASSUME NEW t \in Triggers, StopTask(t) \/ ToolTimeout(t)
       PROVE  Store!Next \/ UNCHANGED store
  BY <1>10, <1>11 DEF StopTask, ToolTimeout, RunInv, HasQuestion
<1>12. CASE Stop
  <2> DEFINE ps == {run[t].prompt : t \in {u \in Triggers : /\ run[u].phase = "asking"
                                                           /\ ~Settled(u)}}
  <2>1. ps \in SUBSET Prompts
    BY DEF RunInv, HasQuestion
  <2>2. Store!Abort(ps)
    BY <1>12 DEF Stop
  <2> QED
    BY <1>10, <2>1, <2>2
<1>13. CASE \/ \E p \in Prompts : Answer(p) \/ Timer(p)
            \/ ExpireOld
            \/ Boot
            \/ Advance
  BY <1>13 DEF Answer, Timer, ExpireOld, Boot, Advance, Store!Next
<1>14. ASSUME \/ \E t \in Triggers :
                    \/ ReArm(t) \/ ReArmDue(t) \/ SweepEnd(t) \/ SweepRecord(t)
                    \/ Dispatch(t) \/ AskRefused(t) \/ Take(t) \/ Unpark(t)
                    \/ LeaseLapses(t) \/ Occur(t)
              \/ \E t \in Triggers, o \in {"success", "failed", "stopped"} : EndRun(t, o)
              \/ \E t \in Triggers, st \in {"open", "completed"} : SetStatus(t, st)
              \/ Exit
              \/ UNCHANGED vars
       PROVE  UNCHANGED store
  BY <1>14
  DEF ReArm, ReArmDue, SweepEnd, SweepRecord, Dispatch, AskRefused, Take, Unpark,
      LeaseLapses, Occur, EndRun, SetStatus, Exit, vars
<1> QED
  BY <1>0, <1>2, <1>3, <1>5, <1>6, <1>7, <1>8, <1>9, <1>11, <1>12, <1>13, <1>14 DEF Next

\* DurableWait implements PromptStore: whatever runs, ticks, stops, crashes and
\* owners do, the prompt store sees only its own operations, so all that is
\* proved of it holds of the questions here.
THEOREM ImplementsStore == Spec => StoreSpec
<1>1. Spec => []RunInv
  BY RunInit, RunStep, PTL DEF Spec
<1> QED
  BY <1>1, StoreInit, StoreStep, PTL DEF Spec, StoreSpec, Store!Spec

-----------------------------------------------------------------------------
(* What the operations of the store that are used here do to a row.        *)

SameRow(q) ==
    /\ prompt'[q].status = prompt[q].status
    /\ prompt'[q].trigger = prompt[q].trigger
    /\ prompt'[q].expiresAt = prompt[q].expiresAt

Closes(q) ==
    /\ prompt[q].status = "pending" /\ prompt'[q].status = "expired"
    /\ prompt'[q].trigger = prompt[q].trigger
    /\ prompt'[q].expiresAt = prompt[q].expiresAt

LetsGo(q) ==
    /\ prompt[q].status \in {"answered", "expired"} /\ prompt'[q].status = prompt[q].status
    /\ prompt'[q].trigger = Null
    /\ prompt'[q].expiresAt = prompt[q].expiresAt

Reasons == Store!ClosedReasons

ClosedAs(x, r) == [x EXCEPT !.status = "expired", !.closedReason = r]

\* Closing a row writes its status and its reason.
LEMMA ClosedRow ==
    ASSUME NEW x \in Store!Row, NEW r \in Reasons
    PROVE  /\ ClosedAs(x, r) \in Store!Row
           /\ ClosedAs(x, r).status = "expired"
           /\ ClosedAs(x, r).trigger = x.trigger
           /\ ClosedAs(x, r).expiresAt = x.expiresAt
BY DEF ClosedAs, Store!Row, Store!Status, Reasons

\* The reasons the worker loop and the store give.
LEMMA KnownReasons ==
    /\ "timed_out" \in Reasons /\ "plan_ended" \in Reasons /\ "run_stopped" \in Reasons
    /\ "superseded" \in Reasons /\ "process_restarted" \in Reasons
BY DEF Reasons, Store!ClosedReasons

\* A row that is written closed is closed.
LEMMA ClosedCloses ==
    ASSUME Store!TypeOK, NEW q \in Store!Pending, NEW r \in Reasons,
           prompt'[q] = ClosedAs(prompt[q], r)
    PROVE  Closes(q)
<1>1. q \in Prompts /\ prompt[q].status = "pending" /\ prompt[q] \in Store!Row
  BY DEF Store!Pending, Store!TypeOK
<1> QED
  BY <1>1, ClosedRow DEF Closes

\* Closing some of the open rows.
LEMMA ClosedRows ==
    ASSUME Store!TypeOK, NEW ps \in SUBSET Store!Pending, NEW r \in Reasons
    PROVE  /\ Store!Closed(ps, r) \in [Prompts -> Store!Row]
           /\ prompt' = Store!Closed(ps, r) =>
                 /\ \A q \in ps : Closes(q)
                 /\ \A q \in Prompts \ ps : SameRow(q)
<1>1. \A q \in Prompts : prompt[q] \in Store!Row
  BY DEF Store!TypeOK
<1>2. \A q \in Prompts :
         Store!Closed(ps, r)[q] = IF q \in ps
                                  THEN ClosedAs(prompt[q], r)
                                  ELSE prompt[q]
  BY DEF Store!Closed, ClosedAs
<1>3. Store!Closed(ps, r) \in [Prompts -> Store!Row]
  <2>1. Store!Closed(ps, r) = [q \in Prompts |-> IF q \in ps THEN ClosedAs(prompt[q], r)
                                                 ELSE prompt[q]]
    BY DEF Store!Closed, ClosedAs
  <2>2. \A q \in Prompts : ClosedAs(prompt[q], r) \in Store!Row
    BY <1>1, ClosedRow
  <2> QED
    BY <1>1, <2>1, <2>2
<1>4. ASSUME prompt' = Store!Closed(ps, r)
      PROVE  (\A q \in ps : Closes(q)) /\ \A q \in Prompts \ ps : SameRow(q)
  BY <1>1, <1>2, <1>4, ClosedRow DEF Closes, SameRow, Store!Pending
<1> QED
  BY <1>3, <1>4

\* The store's own types, apart from the table and the waits.
LEMMA StoreTyped ==
    ASSUME Store!TypeOK, prompt' \in [Prompts -> Store!Row],
           wait' \in [Prompts -> Store!WaitState], UNCHANGED <<live, now>>
    PROVE  Store!TypeOK'
BY DEF Store!TypeOK

\* A deliberate close reaches the waiter in the same step.
LEMMA CloseEffect ==
    ASSUME Store!TypeOK, NEW ps \in SUBSET Store!Pending, NEW r \in Reasons,
           Store!CloseAndWake(ps, r), UNCHANGED <<live, now>>
    PROVE  /\ Store!TypeOK'
           /\ \A q \in ps : Closes(q)
           /\ \A q \in Prompts \ ps : SameRow(q)
           /\ \A q \in Prompts : \/ wait'[q] = wait[q]
                                 \/ q \in ps /\ wait[q] = "waiting" /\ wait'[q] = "expired"
<1>1. prompt' = Store!Closed(ps, r)
  BY DEF Store!CloseAndWake
<1>2. wait' = [q \in Prompts |-> IF q \in ps /\ wait[q] = "waiting" THEN "expired" ELSE wait[q]]
  BY DEF Store!CloseAndWake, Store!Wake
<1>3. wait' \in [Prompts -> Store!WaitState]
  BY <1>2 DEF Store!TypeOK, Store!WaitState
<1> QED
  BY <1>1, <1>2, <1>3, ClosedRows, StoreTyped

\* What an answer does to the store: one row, and its waiter.
LEMMA AnswerEffect ==
    ASSUME Store!TypeOK, NEW p \in Prompts, Store!Answer(p)
    PROVE  /\ Store!TypeOK'
           /\ prompt[p].status = "pending" /\ prompt'[p].status = "answered"
           /\ prompt'[p].trigger = prompt[p].trigger /\ prompt'[p].expiresAt = prompt[p].expiresAt
           /\ \A q \in Prompts \ {p} : SameRow(q) /\ wait'[q] = wait[q]
           /\ wait'[p] = IF wait[p] = "waiting" THEN "answered" ELSE wait[p]
<1>1. prompt' = [prompt EXCEPT ![p] = [prompt[p] EXCEPT !.status = "answered"]] /\ prompt[p].status = "pending"
  BY DEF Store!Answer, Store!Pending
<1>2. wait' = [q \in Prompts |-> IF q \in {p} /\ wait[q] = "waiting" THEN "answered" ELSE wait[q]]
  BY DEF Store!Answer, Store!Wake
<1>3. wait' \in [Prompts -> Store!WaitState]
  BY <1>2 DEF Store!TypeOK, Store!WaitState
<1>4. prompt[p] \in Store!Row
  BY DEF Store!TypeOK
<1>5. [prompt[p] EXCEPT !.status = "answered"] \in Store!Row
  BY <1>4 DEF Store!Row, Store!Status
<1>6. prompt' \in [Prompts -> Store!Row]
  BY <1>1, <1>5 DEF Store!TypeOK
<1>7. /\ prompt'[p] = [prompt[p] EXCEPT !.status = "answered"]
      /\ \A q \in Prompts \ {p} : prompt'[q] = prompt[q]
  BY <1>1 DEF Store!TypeOK
<1>8. /\ prompt'[p].status = "answered" /\ prompt'[p].trigger = prompt[p].trigger
      /\ prompt'[p].expiresAt = prompt[p].expiresAt
  BY <1>4, <1>7 DEF Store!Row
<1>9. Store!TypeOK'
  BY <1>3, <1>6, StoreTyped DEF Store!Answer
<1> QED
  BY <1>1, <1>2, <1>7, <1>8, <1>9 DEF SameRow

\* What detaching a question from its trigger does to the store.
LEMMA ReleaseEffect ==
    ASSUME Store!TypeOK, NEW p \in Prompts, Store!ReleaseTrigger(p)
    PROVE  /\ Store!TypeOK' /\ wait' = wait
           /\ LetsGo(p) /\ prompt[p].trigger # Null
           /\ \A q \in Prompts \ {p} : SameRow(q)
<1>1. prompt' = [prompt EXCEPT ![p] = [prompt[p] EXCEPT !.trigger = Null]]
  BY DEF Store!ReleaseTrigger
<1>2. prompt[p] \in Store!Row
  BY DEF Store!TypeOK
<1>3. [prompt[p] EXCEPT !.trigger = Null] \in Store!Row
  BY <1>2 DEF Store!Row
<1>4. prompt' \in [Prompts -> Store!Row]
  BY <1>1, <1>3 DEF Store!TypeOK
<1>5. /\ prompt'[p] = [prompt[p] EXCEPT !.trigger = Null]
      /\ \A q \in Prompts \ {p} : prompt'[q] = prompt[q]
  BY <1>1 DEF Store!TypeOK
<1>6. /\ prompt'[p].trigger = Null /\ prompt'[p].status = prompt[p].status
      /\ prompt'[p].expiresAt = prompt[p].expiresAt
  BY <1>2, <1>5 DEF Store!Row
<1>7. Store!TypeOK' /\ wait' = wait
  BY <1>4, StoreTyped DEF Store!ReleaseTrigger, Store!TypeOK
<1> QED
  BY <1>5, <1>6, <1>7 DEF LetsGo, SameRow, Store!ReleaseTrigger

\* A waiter reads its row; past its time every lapsed row is closed.
LEMMA EvaluateEffect ==
    ASSUME Store!TypeOK, NEW p \in Prompts, Store!Evaluate(p), UNCHANGED <<live, now>>
    PROVE  /\ Store!TypeOK'
           /\ \A q \in Prompts : SameRow(q) \/ Closes(q)
           /\ \A q \in Prompts \ {p} : wait'[q] = wait[q]
           /\ wait'[p] = "answered" <=> prompt'[p].status = "answered"
<1> DEFINE Goal == /\ Store!TypeOK'
                   /\ \A q \in Prompts : SameRow(q) \/ Closes(q)
                   /\ \A q \in Prompts \ {p} : wait'[q] = wait[q]
                   /\ wait'[p] = "answered" <=> prompt'[p].status = "answered"
<1>0. Store!PendingLapsed \in SUBSET Store!Pending /\ prompt \in [Prompts -> Store!Row]
  BY DEF Store!PendingLapsed, Store!TypeOK
<1>1. CASE /\ p \in Store!PendingLapsed
           /\ prompt' = Store!Closed(Store!PendingLapsed, "timed_out")
           /\ wait' = [wait EXCEPT ![p] = "expired"]
  <2>1. /\ \A q \in Store!PendingLapsed : Closes(q)
        /\ \A q \in Prompts \ Store!PendingLapsed : SameRow(q)
        /\ prompt' \in [Prompts -> Store!Row]
    BY <1>0, <1>1, ClosedRows, KnownReasons
  <2>2. /\ wait' \in [Prompts -> Store!WaitState] /\ wait'[p] = "expired"
        /\ \A q \in Prompts \ {p} : wait'[q] = wait[q]
    BY <1>1 DEF Store!TypeOK, Store!WaitState
  <2>3. prompt'[p].status = "expired"
    BY <1>1, <2>1 DEF Closes
  <2> QED
    BY <2>1, <2>2, <2>3, StoreTyped
<1>2. CASE /\ p \in Store!Pending /\ prompt' = prompt /\ wait' = [wait EXCEPT ![p] = "waiting"]
  <2>1. /\ wait' \in [Prompts -> Store!WaitState] /\ wait'[p] = "waiting"
        /\ \A q \in Prompts \ {p} : wait'[q] = wait[q]
    BY <1>2 DEF Store!TypeOK, Store!WaitState
  <2>2. prompt'[p].status = "pending"
    BY <1>2 DEF Store!Pending
  <2> QED
    BY <1>0, <1>2, <2>1, <2>2, StoreTyped DEF SameRow
<1>3. CASE /\ prompt[p].status \in {"answered", "expired"} /\ prompt' = prompt
           /\ wait' = [wait EXCEPT ![p] = prompt[p].status]
  <2>1. /\ wait' \in [Prompts -> Store!WaitState] /\ wait'[p] = prompt[p].status
        /\ \A q \in Prompts \ {p} : wait'[q] = wait[q]
    BY <1>3 DEF Store!TypeOK, Store!WaitState
  <2> QED
    BY <1>0, <1>3, <2>1, StoreTyped DEF SameRow
<1> QED
  BY <1>1, <1>2, <1>3 DEF Store!Evaluate

\* What aborting waits does to the store: no row changes.
LEMMA AbortEffect ==
    ASSUME Store!TypeOK, NEW ps, Store!Abort(ps)
    PROVE  /\ Store!TypeOK' /\ prompt' = prompt
           /\ \A q \in Prompts : wait'[q] = IF q \in ps THEN "aborted" ELSE wait[q]
BY DEF Store!Abort, Store!TypeOK, Store!WaitState

\* What the sweep of old rows does to the store.
LEMMA ExpireOldEffect ==
    ASSUME Store!TypeOK, Store!ExpireOld
    PROVE  /\ Store!TypeOK'
           /\ \A q \in Prompts : SameRow(q) \/ Closes(q) \/ (LetsGo(q) /\ Store!Lapsed(q))
           /\ \A q \in Prompts : wait'[q] = wait[q] \/ (wait[q] = "waiting" /\ wait'[q] = "expired")
<1> DEFINE ps == Store!PendingLapsed
           cl == Store!Closed(ps, "timed_out")
<1>0. ps \in SUBSET Store!Pending /\ \A q \in Prompts : prompt[q] \in Store!Row
  BY DEF Store!PendingLapsed, Store!TypeOK
<1>1. prompt' = [q \in Prompts |->
                   IF prompt[q].status = "answered" /\ Store!Lapsed(q)
                   THEN [prompt[q] EXCEPT !.trigger = Null]
                   ELSE cl[q]]
  BY DEF Store!ExpireOld
<1>2. cl \in [Prompts -> Store!Row]
  BY <1>0, ClosedRows, KnownReasons
<1>3. \A q \in Prompts :
        /\ q \in ps => cl[q] = ClosedAs(prompt[q], "timed_out")
        /\ q \notin ps => cl[q] = prompt[q]
  BY DEF Store!Closed, ClosedAs
<1>4. \A q \in ps : q \in Prompts /\ prompt[q].status = "pending"
  BY DEF Store!PendingLapsed, Store!Pending
<1>5. wait' = [q \in Prompts |-> IF q \in ps /\ wait[q] = "waiting" THEN "expired" ELSE wait[q]]
  BY DEF Store!ExpireOld, Store!Wake
<1>6. wait' \in [Prompts -> Store!WaitState]
  BY <1>5 DEF Store!TypeOK, Store!WaitState
<1> HIDE DEF ps, cl
<1>7. \A q \in Prompts : [prompt[q] EXCEPT !.trigger = Null] \in Store!Row
  BY <1>0 DEF Store!Row
<1>8. prompt' \in [Prompts -> Store!Row]
  BY <1>1, <1>2, <1>7
<1>9. ASSUME NEW q \in ps
      PROVE  Closes(q)
  <2>1. prompt'[q] = ClosedAs(prompt[q], "timed_out")
    BY <1>1, <1>3, <1>4
  <2> QED
    BY <1>0, <2>1, ClosedCloses, KnownReasons
<1>10. ASSUME NEW q \in Prompts \ ps
       PROVE  SameRow(q) \/ (LetsGo(q) /\ Store!Lapsed(q))
  <2>1. CASE prompt'[q] = prompt[q]
    BY <2>1 DEF SameRow
  <2>2. CASE prompt'[q] # prompt[q]
    <3>1. /\ prompt'[q] = [prompt[q] EXCEPT !.trigger = Null]
          /\ prompt[q].status = "answered" /\ Store!Lapsed(q)
      BY <1>1, <1>3, <2>2
    <3>2. prompt[q] \in Store!Row
      BY <1>0
    <3>3. /\ prompt'[q].trigger = Null /\ prompt'[q].status = prompt[q].status
          /\ prompt'[q].expiresAt = prompt[q].expiresAt
      BY <3>1, <3>2 DEF Store!Row
    <3> QED
      BY <3>1, <3>3 DEF LetsGo
  <2> QED
    BY <2>1, <2>2
<1>11. Store!TypeOK'
  BY <1>6, <1>8, StoreTyped DEF Store!ExpireOld
<1> QED
  BY <1>4, <1>5, <1>9, <1>10, <1>11

\* A new process closes what is not parked; nobody waits any more.
LEMMA BootEffect ==
    ASSUME Store!TypeOK, Store!Boot
    PROVE  /\ Store!TypeOK'
           /\ \A q \in Prompts : SameRow(q) \/ (Closes(q) /\ prompt[q].trigger = Null)
           /\ \A q \in Prompts : wait'[q] = "none"
<1>0. \A q \in Prompts : prompt[q] \in Store!Row
  BY DEF Store!TypeOK
<1>1. \A q \in Prompts :
         IF q \in Store!Unparked
         THEN \E r \in Reasons :
                 prompt'[q] = ClosedAs(prompt[q], r)
         ELSE prompt'[q] = prompt[q]
  BY KnownReasons DEF Store!Boot, Store!UnparkedClosed, Store!Closed, ClosedAs
<1>2. \A q \in Prompts : prompt'[q] \in Store!Row
  BY <1>0, <1>1, ClosedRow
<1>3. prompt' \in [Prompts -> Store!Row]
  <2>1. prompt' = [q \in Prompts |-> prompt'[q]]
    BY DEF Store!Boot, Store!UnparkedClosed
  <2> QED
    BY <1>2, <2>1
<1>4. wait' = [q \in Prompts |-> "none"]
  BY DEF Store!Boot
<1>5. wait' \in [Prompts -> Store!WaitState]
  BY <1>4 DEF Store!WaitState
<1>6. ASSUME NEW q \in Prompts
      PROVE  SameRow(q) \/ (Closes(q) /\ prompt[q].trigger = Null)
  <2>1. CASE q \in Store!Unparked
    <3>1. prompt[q].status = "pending" /\ prompt[q].trigger = Null
      BY <2>1 DEF Store!Unparked, Store!Pending
    <3> QED
      BY <1>0, <1>1, <2>1, <3>1, ClosedRow DEF Closes
  <2>2. CASE q \notin Store!Unparked
    BY <1>1, <2>2 DEF SameRow
  <2> QED
    BY <2>1, <2>2
<1> QED
  BY <1>3, <1>4, <1>5, <1>6, StoreTyped DEF Store!Boot

\* A question is stored, open and pointing at its trigger.
LEMMA InsertEffect ==
    ASSUME Store!TypeOK, NEW p \in Prompts, NEW s \in Sessions, NEW t \in Triggers,
           Store!Insert(p, s, FALSE, t, "owner")
    PROVE  /\ Store!TypeOK' /\ wait' = wait
           /\ prompt[p].status = "absent" /\ prompt'[p].status = "pending"
           /\ prompt'[p].trigger = t
           /\ \A q \in Prompts \ {p} : SameRow(q) \/ Closes(q)
<1> DEFINE row == [status |-> "pending", session |-> s, card |-> FALSE, trigger |-> t,
                   asker |-> "owner", expiresAt |-> now + TTL,
                   closedReason |-> Null, partial |-> FALSE]
           ps == Store!Superseded(s, FALSE)
           cl == Store!Closed(ps, "superseded")
<1>1. prompt' = [cl EXCEPT ![p] = row] /\ prompt[p].status = "absent"
  BY DEF Store!Insert
<1>2. row \in Store!Row /\ row.status = "pending" /\ row.trigger = t
  BY DurableWaitAssumption DEF Store!TypeOK, Store!Row, Store!Status, Store!Askers
<1>3. ps \in SUBSET Store!Pending
  BY DEF Store!Superseded, Store!SlotHolders
<1>4. cl \in [Prompts -> Store!Row]
  BY <1>3, ClosedRows, KnownReasons
<1>5. \A q \in Prompts :
        /\ q \in ps => cl[q] = ClosedAs(prompt[q], "superseded")
        /\ q \notin ps => cl[q] = prompt[q]
  BY DEF Store!Closed, ClosedAs
<1>6. \A q \in ps : prompt[q].status = "pending"
  BY <1>3 DEF Store!Pending
<1> HIDE DEF row, ps, cl
<1>7. /\ prompt' \in [Prompts -> Store!Row] /\ prompt'[p] = row
      /\ \A q \in Prompts \ {p} : prompt'[q] = cl[q]
  BY <1>1, <1>2, <1>4
<1>8. \A q \in Prompts \ {p} : SameRow(q) \/ Closes(q)
  <2> SUFFICES ASSUME NEW q \in Prompts \ {p}
               PROVE  SameRow(q) \/ Closes(q)
    OBVIOUS
  <2>1. prompt[q] \in Store!Row
    BY DEF Store!TypeOK
  <2>2. CASE q \in ps
    <3>1. prompt'[q] = ClosedAs(prompt[q], "superseded") /\ q \in Store!Pending
      BY <1>3, <1>5, <1>7, <2>2
    <3> QED
      BY <3>1, ClosedCloses, KnownReasons
  <2>3. CASE q \notin ps
    BY <1>5, <1>7, <2>3 DEF SameRow
  <2> QED
    BY <2>2, <2>3
<1>9. Store!TypeOK' /\ wait' = wait
  BY <1>7, StoreTyped DEF Store!Insert, Store!TypeOK
<1> QED
  BY <1>1, <1>2, <1>7, <1>8, <1>9

-----------------------------------------------------------------------------
(* What the writes of a trigger's row do.                                  *)

RowStatus == {"open", "waiting", "completed", "failed", "stopped"}

\* The same wait: status and deadline.
SameWait(r, x) == x.status = r.status /\ x.until = r.until

\* The same outcome but for the schedule.
KeepsWait(r, x) ==
    /\ r.status = "waiting" => SameWait(r, x)
    /\ r.status # "waiting" => x.status # "waiting"

LEMMA WithStatus ==
    ASSUME NEW r \in Row, NEW s \in RowStatus
    PROVE  /\ [r EXCEPT !.status = s] \in Row /\ [r EXCEPT !.status = s].status = s
           /\ [r EXCEPT !.status = s].until = r.until
BY DEF Row, RowStatus

LEMMA WithRetry ==
    ASSUME NEW r \in Row, NEW n \in 0..MaxRetries
    PROVE  [r EXCEPT !.retry = n] \in Row /\ SameWait(r, [r EXCEPT !.retry = n])
BY DEF Row, SameWait

LEMMA ScheduledRow ==
    ASSUME NEW r \in Row, NEW n \in {"none", "later", "due"}
    PROVE  Scheduled(r, n) \in Row /\ SameWait(r, Scheduled(r, n))
BY DEF Row, SameWait, Scheduled

LEMMA ClaimedRow ==
    ASSUME NEW r \in Row
    PROVE  Claimed(r) \in Row /\ SameWait(r, Claimed(r))
BY DEF Row, SameWait, Claimed

LEMMA ReleasedRow ==
    ASSUME NEW r \in Row
    PROVE  Released(r) \in Row /\ SameWait(r, Released(r))
BY DEF Row, SameWait, Released

LEMMA WaitEndedRow ==
    ASSUME NEW r \in Row, NEW s \in {"open", "failed"}
    PROVE  /\ WaitEnded(r, s) \in Row
           /\ WaitEnded(r, s).status = IF r.status = "waiting" THEN s ELSE r.status
BY DEF Row, WaitEnded

LEMMA ParkedRow ==
    ASSUME NEW r \in Row, NEW s \in RowStatus, NEW n \in Nat \union {Null}
    PROVE  /\ [r EXCEPT !.status = s, !.until = n] \in Row
           /\ [r EXCEPT !.status = s, !.until = n].status = s
           /\ [r EXCEPT !.status = s, !.until = n].until = n
BY DEF Row, RowStatus

\* Recording an outcome leaves a wait alone, and gives a one-shot that is not
\* open no new chance.
LEMMA RecordedRow ==
    ASSUME NEW r \in Row, NEW c \in BOOLEAN,
           NEW o \in {"success", "failed", "interrupted", "stopped"}
    PROVE  /\ Recorded(r, c, o) \in Row
           /\ KeepsWait(r, Recorded(r, c, o))
           /\ ~c /\ (r.status # "open" \/ o = "stopped") => Recorded(r, c, o).status # "open"
<1> DEFINE mayWrite == r.status # "waiting" /\ o # "stopped"
           retrying == o \in {"failed", "interrupted"} /\ r.retry < MaxRetries
<1>0. r.status \in RowStatus /\ r.retry \in 0..MaxRetries
  BY DEF Row, RowStatus
<1>1. CASE c
  <2> DEFINE s == IF mayWrite /\ r.status \notin {"completed", "stopped"}
                  THEN IF o = "success" THEN "open" ELSE "failed" ELSE r.status
             n == IF o = "success" THEN 0 ELSE r.retry
             x == [r EXCEPT !.status = s, !.retry = n]
  <2>1. Recorded(r, c, o) = Scheduled(x, "later")
    BY <1>1 DEF Recorded
  <2>2. s \in RowStatus /\ n \in 0..MaxRetries
    BY <1>0, DurableWaitAssumption DEF RowStatus
  <2>3. (r.status = "waiting" => s = "waiting") /\ (r.status # "waiting" => s # "waiting")
    OBVIOUS
  <2> HIDE DEF s, n
  <2>4. x \in Row /\ x.status = s /\ x.until = r.until
    BY <2>2 DEF Row, RowStatus
  <2> HIDE DEF x
  <2>5. Scheduled(x, "later") \in Row /\ SameWait(x, Scheduled(x, "later"))
    BY <2>4, ScheduledRow
  <2> QED
    BY <1>1, <2>1, <2>3, <2>4, <2>5 DEF KeepsWait, SameWait
<1>2. CASE ~c /\ retrying
  <2>1. Recorded(r, c, o) = Scheduled([r EXCEPT !.retry = r.retry + 1], "later")
    BY <1>2 DEF Recorded
  <2>2. r.retry + 1 \in 0..MaxRetries
    BY <1>0, <1>2, DurableWaitAssumption
  <2> DEFINE x == [r EXCEPT !.retry = r.retry + 1]
  <2>3. x \in Row /\ SameWait(r, x)
    BY <2>2, WithRetry
  <2> HIDE DEF x
  <2>4. Scheduled(x, "later") \in Row /\ SameWait(x, Scheduled(x, "later"))
    BY <2>3, ScheduledRow
  <2> QED
    BY <1>2, <2>1, <2>3, <2>4 DEF KeepsWait, SameWait, x
<1>3. CASE ~c /\ o = "success"
  <2> DEFINE s == IF mayWrite THEN "completed" ELSE r.status
  <2>1. Recorded(r, c, o) = [r EXCEPT !.status = s]
    BY <1>3 DEF Recorded
  <2>2. s \in RowStatus
    BY <1>0 DEF RowStatus
  <2>3. /\ r.status = "waiting" => s = "waiting"
        /\ r.status # "waiting" => s # "waiting"
        /\ r.status # "open" => s # "open"
    OBVIOUS
  <2> HIDE DEF s
  <2> QED
    BY <1>3, <2>1, <2>2, <2>3, WithStatus DEF KeepsWait, SameWait
<1>4. CASE ~c /\ ~retrying /\ o # "success"
  <2> DEFINE s == IF mayWrite THEN "failed"
                  ELSE IF o = "stopped" /\ r.status \notin {"waiting", "completed"}
                       THEN "stopped" ELSE r.status
             x == [r EXCEPT !.status = s]
  <2>1. Recorded(r, c, o) = Scheduled(x, "none")
    BY <1>4 DEF Recorded
  <2>2. s \in RowStatus
    BY <1>0 DEF RowStatus
  <2>3. /\ r.status = "waiting" => s = "waiting"
        /\ r.status # "waiting" => s # "waiting"
        /\ s # "open"
    OBVIOUS
  <2> HIDE DEF s
  <2>4. x \in Row /\ x.status = s /\ x.until = r.until
    BY <2>2, WithStatus
  <2> HIDE DEF x
  <2>5. Scheduled(x, "none") \in Row /\ SameWait(x, Scheduled(x, "none"))
    BY <2>4, ScheduledRow
  <2> QED
    BY <2>1, <2>3, <2>4, <2>5 DEF KeepsWait, SameWait
<1> QED
  BY <1>1, <1>2, <1>3, <1>4

-----------------------------------------------------------------------------
(* What a step does to a question, and which steps do it.                  *)

Answered(q) ==
    /\ prompt[q].status = "pending" /\ prompt'[q].status = "answered"
    /\ prompt'[q].trigger = prompt[q].trigger
    /\ prompt'[q].expiresAt = prompt[q].expiresAt

Asked(q) == prompt[q].status = "absent" /\ prompt'[q].status = "pending"

\* A trigger lets go of a question because its time is over, because its run
\* is done with it, or because a run was just told the answer.
MayLetGo(q) ==
    \/ prompt[q].status = "answered" => Store!Lapsed(q)
    \/ \E t \in Triggers : run[t].phase = "drained" /\ run[t].prompt = q
    \/ delivered'[q] = delivered[q] + 1
    \/ Refused(prompt[q].trigger)

RowStep(q) ==
    \/ SameRow(q)
    \/ Closes(q)
    \/ LetsGo(q) /\ MayLetGo(q)
    \/ Answered(q) /\ Answer(q)
    \/ Asked(q) /\ \E t \in Triggers : Ask(t, q)

WaitStep(q) ==
    /\ wait'[q] = "answered" => wait[q] = "answered" \/ prompt'[q].status = "answered"
    /\ wait[q] = "answered" => wait'[q] = "answered" \/ proc = "down"

StoreOK == Store!TypeOK' /\ \A q \in Prompts : RowStep(q) /\ WaitStep(q)

\* The steps that leave the store alone, and those that close rows.
LEMMA QuietStore ==
    ASSUME Store!TypeOK, UNCHANGED store
    PROVE  StoreOK
BY DEF store, StoreOK, RowStep, WaitStep, SameRow, Store!TypeOK

\* Closing open questions only closes.
LEMMA ClosingStore ==
    ASSUME Store!TypeOK, NEW ps \in SUBSET Store!Pending, NEW r \in Reasons,
           Store!CloseAndWake(ps, r), UNCHANGED <<live, now>>
    PROVE  StoreOK
BY CloseEffect DEF StoreOK, RowStep, WaitStep

\* A waiter's check only closes what is past its time.
LEMMA EvaluatingStore ==
    ASSUME Store!TypeOK, NEW p \in Prompts, Store!Evaluate(p), wait[p] # "answered",
           UNCHANGED <<live, now>>
    PROVE  StoreOK
BY EvaluateEffect DEF StoreOK, RowStep, WaitStep

\* Aborting waits leaves every row alone.
LEMMA AbortingStore ==
    ASSUME Store!TypeOK, NEW ps, Store!Abort(ps)
    PROVE  StoreOK
<1>1. /\ Store!TypeOK' /\ prompt' = prompt
      /\ \A q \in Prompts : wait'[q] = IF q \in ps THEN "aborted" ELSE wait[q]
      /\ \A q \in ps : wait[q] = "waiting"
  BY AbortEffect DEF Store!Abort
<1> QED
  BY <1>1 DEF StoreOK, RowStep, WaitStep, SameRow

\* Detaching leaves alone what it may not let go of.
LEMMA ReleasingStore ==
    ASSUME Store!TypeOK, NEW p \in Prompts, Store!ReleaseTrigger(p), MayLetGo(p)
    PROVE  StoreOK
BY ReleaseEffect DEF StoreOK, RowStep, WaitStep

\* Questions are asked by Ask, answered by Answer and let go for a reason; an
\* answered row stays answered, and so does a wait it ended.
LEMMA NextStore ==
    ASSUME TypeOK, RunInv, [Next]_vars
    PROVE  StoreOK
<1>0. Store!TypeOK /\ delivered \in [Prompts -> Nat]
  BY DEF TypeOK
<1>1. ASSUME NEW t \in Triggers, NEW r \in {"timed_out", "plan_ended"},
             Store!ExpirePendingForTrigger(t, r)
      PROVE  StoreOK
  <2>1. Store!PendingFor(t) \in SUBSET Store!Pending /\ r \in Reasons
    BY KnownReasons DEF Store!PendingFor
  <2>2. Store!CloseAndWake(Store!PendingFor(t), r) /\ UNCHANGED <<live, now>>
    BY <1>1 DEF Store!ExpirePendingForTrigger
  <2> QED
    BY <1>0, <2>1, <2>2, ClosingStore
<1>2. ASSUME NEW t \in Triggers, Sweep(t) PROVE StoreOK
  BY <1>0, <1>1, <1>2, QuietStore DEF Sweep
<1>3. ASSUME NEW t \in Triggers, RunTriggerNow(t) PROVE StoreOK
  BY <1>0, <1>1, <1>3, QuietStore DEF RunTriggerNow
<1>4. ASSUME NEW t \in Triggers, Load(t) PROVE StoreOK
  <2>1. CASE UNCHANGED store
    BY <1>0, <2>1, QuietStore
  <2>2. CASE ~UNCHANGED store
    <3>1. PICK p \in Prompts : Store!ReleaseTrigger(p) /\ delivered' = [delivered EXCEPT ![p] = @ + 1]
      BY <1>4, <2>2 DEF Load, Store!AnsweredFor
    <3>2. MayLetGo(p)
      BY <1>0, <3>1 DEF MayLetGo
    <3> QED
      BY <1>0, <3>1, <3>2, ReleasingStore
  <2> QED
    BY <2>1, <2>2
<1>18. ASSUME NEW t \in Triggers, LoadRefused(t) PROVE StoreOK
  <2>1. CASE UNCHANGED store
    BY <1>0, <2>1, QuietStore
  <2>2. CASE ~UNCHANGED store
    <3>1. PICK p \in Prompts : Store!ReleaseTrigger(p) /\ prompt[p].trigger = t
      BY <1>18, <2>2 DEF LoadRefused, Store!AnsweredFor
    <3>2. Refused(t)
      BY <1>18 DEF LoadRefused, Refused, RunInv, Run
    <3>3. MayLetGo(p)
      BY <3>1, <3>2 DEF MayLetGo
    <3> QED
      BY <1>0, <3>1, <3>3, ReleasingStore
  <2> QED
    BY <2>1, <2>2
<1>5. ASSUME NEW t \in Triggers, NEW p \in Prompts, Ask(t, p) PROVE StoreOK
  <2>1. PICK s \in Sessions : Store!Insert(p, s, FALSE, t, "owner")
    BY <1>5 DEF Ask
  <2> QED
    BY <1>0, <1>5, <2>1, InsertEffect DEF StoreOK, RowStep, WaitStep, Asked
<1>6. ASSUME NEW t \in Triggers, Park(t) PROVE StoreOK
  <2>1. /\ run[t].prompt \in Prompts /\ Store!Evaluate(run[t].prompt)
        /\ wait[run[t].prompt] = "none" /\ UNCHANGED <<live, now>>
    BY <1>6 DEF Park, Store!WaitForSettled, RunInv, HasQuestion
  <2> QED
    BY <1>0, <2>1, EvaluatingStore
<1>7. ASSUME NEW t \in Triggers, Drain(t) PROVE StoreOK
  <2>1. CASE UNCHANGED store
    BY <1>0, <2>1, QuietStore
  <2>2. CASE Store!ExpirePrompt(run[t].prompt, "run_stopped")
    <3> DEFINE ps == {run[t].prompt}
    <3>1. ps \in SUBSET Store!Pending /\ Store!CloseAndWake(ps, "run_stopped")
          /\ UNCHANGED <<live, now>>
      BY <2>2 DEF Store!ExpirePrompt
    <3> HIDE DEF ps
    <3> QED
      BY <1>0, <3>1, ClosingStore, KnownReasons
  <2> QED
    BY <1>7, <2>1, <2>2 DEF Drain, store
<1>8. ASSUME NEW t \in Triggers, Detach(t) PROVE StoreOK
  <2>1. CASE UNCHANGED store
    BY <1>0, <2>1, QuietStore
  <2>2. CASE Store!ReleaseTrigger(run[t].prompt)
    <3>1. run[t].prompt \in Prompts /\ MayLetGo(run[t].prompt)
      BY <1>8 DEF Detach, RunInv, HasQuestion, MayLetGo
    <3> QED
      BY <1>0, <2>2, <3>1, ReleasingStore
  <2> QED
    BY <1>8, <2>1, <2>2 DEF Detach
<1>9. ASSUME NEW t \in Triggers, StopTask(t) \/ ToolTimeout(t) PROVE StoreOK
  BY <1>0, <1>9, AbortingStore, QuietStore DEF StopTask, ToolTimeout
<1>10. CASE Stop
  <2> DEFINE ps == {run[t].prompt : t \in {u \in Triggers : /\ run[u].phase = "asking"
                                                           /\ ~Settled(u)}}
  <2>1. Store!Abort(ps)
    BY <1>10 DEF Stop
  <2> QED
    BY <1>0, <2>1, AbortingStore
<1>11. ASSUME NEW p \in Prompts, Answer(p) PROVE StoreOK
  <2>1. Store!Answer(p)
    BY <1>11 DEF Answer
  <2> QED
    BY <1>0, <1>11, <2>1, AnswerEffect DEF StoreOK, RowStep, WaitStep, Answered
<1>12. ASSUME NEW p \in Prompts, Timer(p) PROVE StoreOK
  BY <1>0, <1>12, EvaluatingStore DEF Timer, Store!Timer
<1>13. CASE ExpireOld
  <2>1. Store!ExpireOld
    BY <1>13 DEF ExpireOld
  <2> QED
    BY <1>0, <2>1, ExpireOldEffect DEF StoreOK, RowStep, WaitStep, MayLetGo
<1>14. CASE Boot
  <2>1. Store!Boot /\ proc = "down"
    BY <1>14 DEF Boot
  <2> QED
    BY <1>0, <2>1, BootEffect DEF StoreOK, RowStep, WaitStep
<1>15. CASE Advance
  BY <1>0, <1>15, DurableWaitAssumption
  DEF Advance, Store!Advance, StoreOK, RowStep, WaitStep, SameRow, Store!TypeOK
<1>16. CASE UNCHANGED store
  BY <1>0, <1>16, QuietStore
<1>17. ASSUME \/ \E t \in Triggers :
                    \/ ReArm(t) \/ ReArmDue(t) \/ SweepEnd(t) \/ SweepRecord(t)
                    \/ Dispatch(t) \/ AskRefused(t) \/ Take(t) \/ Unpark(t)
                    \/ LeaseLapses(t) \/ Occur(t)
              \/ \E t \in Triggers, o \in {"success", "failed", "stopped"} : EndRun(t, o)
              \/ \E t \in Triggers, st \in {"open", "completed"} : SetStatus(t, st)
              \/ Exit
              \/ UNCHANGED vars
       PROVE  UNCHANGED store
  BY <1>17
  DEF ReArm, ReArmDue, SweepEnd, SweepRecord, Dispatch, AskRefused, Take, Unpark,
      LeaseLapses, Occur, EndRun, SetStatus, Exit, vars
<1> QED
  BY <1>2, <1>3, <1>4, <1>5, <1>6, <1>7, <1>8, <1>9, <1>10, <1>11, <1>12, <1>13,
     <1>14, <1>15, <1>16, <1>17, <1>18 DEF Next

-----------------------------------------------------------------------------
(* Types.                                                                  *)

\* The row of one trigger changes.
LEMMA OneTrig ==
    ASSUME trig \in [Triggers -> Row], NEW t \in Triggers, NEW x \in Row,
           trig' = [trig EXCEPT ![t] = x]
    PROVE  trig' \in [Triggers -> Row] /\ trig'[t] = x
OBVIOUS

\* The rows of the triggers are rows, whoever writes them.
LEMMA TrigStep ==
    ASSUME TypeOK, RunInv, [Next]_vars
    PROVE  trig' \in [Triggers -> Row]
<1> DEFINE Goal == trig' \in [Triggers -> Row]
<1>0. trig \in [Triggers -> Row] /\ \A t \in Triggers : trig[t] \in Row
  BY DEF TypeOK
<1>1. ASSUME NEW t \in Triggers, NEW x \in Row, trig' = [trig EXCEPT ![t] = x]
      PROVE  Goal
  BY <1>0, <1>1, OneTrig
<1> HIDE DEF Goal
<1>2. CASE trig' = trig
  BY <1>0, <1>2 DEF Goal
<1>3. ASSUME NEW t \in Triggers, ReArm(t) \/ SweepEnd(t) \/ Unpark(t) PROVE Goal
  <2>1. WaitEnded(trig[t], "open") \in Row /\ WaitEnded(trig[t], "failed") \in Row
    BY <1>0, WaitEndedRow
  <2> QED
    BY <1>1, <1>2, <1>3, <2>1 DEF ReArm, SweepEnd, Unpark
<1>4. ASSUME NEW t \in Triggers, ReArmDue(t) PROVE Goal
  <2>1. Scheduled(trig[t], "due") \in Row
    BY <1>0, ScheduledRow
  <2> QED
    BY <1>1, <1>2, <1>4, <2>1 DEF ReArmDue
<1>5. ASSUME NEW t \in Triggers, SweepRecord(t) PROVE Goal
  <2> DEFINE c == t \in cron
  <2>1. c \in BOOLEAN
    OBVIOUS
  <2>2. trig' = trig \/ trig' = [trig EXCEPT ![t] = Recorded(trig[t], c, "failed")]
    BY <1>5 DEF SweepRecord
  <2> HIDE DEF c
  <2>3. Recorded(trig[t], c, "failed") \in Row
    BY <1>0, <2>1, RecordedRow
  <2> QED
    BY <1>1, <1>2, <2>2, <2>3
<1>6. ASSUME NEW t \in Triggers, Dispatch(t) PROVE Goal
  <2> DEFINE c == t \in cron
  <2>1. c \in BOOLEAN
    OBVIOUS
  <2>2. \/ trig' = [trig EXCEPT ![t] = Released(Recorded(Claimed(trig[t]), c, "interrupted"))]
        \/ trig' = [trig EXCEPT ![t] = Claimed(trig[t])]
    BY <1>6 DEF Dispatch
  <2> HIDE DEF c
  <2>3. Claimed(trig[t]) \in Row
    BY <1>0, ClaimedRow
  <2>4. Recorded(Claimed(trig[t]), c, "interrupted") \in Row
    BY <2>1, <2>3, RecordedRow
  <2>5. Released(Recorded(Claimed(trig[t]), c, "interrupted")) \in Row
    BY <2>4, ReleasedRow
  <2> QED
    BY <1>1, <2>2, <2>3, <2>5
<1>7. ASSUME NEW t \in Triggers, RunTriggerNow(t) PROVE Goal
  <2>1. Claimed(trig[t]) \in Row
    BY <1>0, ClaimedRow
  <2> QED
    BY <1>1, <1>2, <1>7, <2>1 DEF RunTriggerNow
<1>8. ASSUME NEW t \in Triggers, NEW s \in RowStatus, NEW n \in Nat \union {Null},
             trig' = [trig EXCEPT ![t].status = s, ![t].until = n]
      PROVE  Goal
  <2> DEFINE x == [trig[t] EXCEPT !.status = s, !.until = n]
  <2>1. trig' = [trig EXCEPT ![t] = x]
    BY <1>0, <1>8
  <2>2. x \in Row
    BY <1>0, ParkedRow
  <2> QED
    BY <1>1, <2>1, <2>2
<1>9. ASSUME NEW t \in Triggers, Park(t) PROVE Goal
  <2> DEFINE n == prompt[run[t].prompt].expiresAt
  <2>1. n \in Nat
    BY <1>9 DEF Park, TypeOK, Store!TypeOK, Store!Row, RunInv, HasQuestion
  <2>2. trig' = trig \/ trig' = [trig EXCEPT ![t].status = "waiting", ![t].until = n]
    BY <1>9 DEF Park
  <2> HIDE DEF n
  <2> DEFINE x == [trig[t] EXCEPT !.status = "waiting", !.until = n]
  <2>3. trig' = trig \/ trig' = [trig EXCEPT ![t] = x]
    BY <1>0, <2>2
  <2>4. x \in Row
    BY <1>0, <2>1 DEF Row
  <2> QED
    BY <1>1, <1>2, <2>3, <2>4
<1>10. ASSUME NEW t \in Triggers, NEW st \in {"open", "completed"}, SetStatus(t, st) PROVE Goal
  BY <1>8, <1>10 DEF SetStatus, RowStatus
<1>11. ASSUME NEW t \in Triggers, NEW o \in {"success", "failed", "stopped"}, EndRun(t, o)
       PROVE  Goal
  <2> DEFINE c == t \in cron
  <2>1. c \in BOOLEAN
    OBVIOUS
  <2>2. trig' = [trig EXCEPT ![t] = Released(Recorded(trig[t], c, o))]
    BY <1>11 DEF EndRun
  <2> HIDE DEF c
  <2>3. Recorded(trig[t], c, o) \in Row
    BY <1>0, <2>1, RecordedRow
  <2>4. Released(Recorded(trig[t], c, o)) \in Row
    BY <2>3, ReleasedRow
  <2> QED
    BY <1>1, <2>2, <2>4
<1>12. ASSUME NEW t \in Triggers, LeaseLapses(t) \/ Occur(t) PROVE Goal
  BY <1>0, <1>12 DEF LeaseLapses, Occur, Row, Goal
<1>13. ASSUME \/ \E t \in Triggers :
                    \/ Sweep(t) \/ Load(t) \/ LoadRefused(t) \/ AskRefused(t) \/ Drain(t) \/ Take(t) \/ Detach(t)
                    \/ StopTask(t) \/ ToolTimeout(t)
              \/ \E t \in Triggers, p \in Prompts : Ask(t, p)
              \/ \E p \in Prompts : Answer(p) \/ Timer(p)
              \/ ExpireOld \/ Stop \/ Exit \/ Boot \/ Advance
              \/ UNCHANGED vars
       PROVE  trig' = trig
  BY <1>13
  DEF Sweep, Load, LoadRefused, AskRefused, Drain, Take, Detach, StopTask, ToolTimeout, Ask, Answer,
      Timer, ExpireOld, Stop, Exit, Boot, Advance, vars
<1>14. Goal
  <2>1. CASE \E t \in Triggers : \/ ReArm(t) \/ SweepEnd(t) \/ Unpark(t) \/ ReArmDue(t)
                                \/ SweepRecord(t) \/ Dispatch(t) \/ RunTriggerNow(t)
                                \/ Park(t) \/ LeaseLapses(t) \/ Occur(t)
    BY <1>3, <1>4, <1>5, <1>6, <1>7, <1>9, <1>12, <2>1
  <2>2. CASE \E t \in Triggers, st \in {"open", "completed"} : SetStatus(t, st)
    BY <1>10, <2>2
  <2>3. CASE \E t \in Triggers, o \in {"success", "failed", "stopped"} : EndRun(t, o)
    BY <1>11, <2>3
  <2>4. CASE \/ \E t \in Triggers :
                   \/ Sweep(t) \/ Load(t) \/ LoadRefused(t) \/ AskRefused(t) \/ Drain(t) \/ Take(t) \/ Detach(t)
                   \/ StopTask(t) \/ ToolTimeout(t)
             \/ \E t \in Triggers, p \in Prompts : Ask(t, p)
             \/ \E p \in Prompts : Answer(p) \/ Timer(p)
             \/ ExpireOld \/ Stop \/ Exit \/ Boot \/ Advance
             \/ UNCHANGED vars
    BY <1>2, <1>13, <2>4 DEF Goal
  <2> QED
    BY <2>1, <2>2, <2>3, <2>4 DEF Next
<1> QED
  BY <1>14 DEF Goal

\* What of the process holds at every step: a run ends with its process, a
\* question that is being stored is parked by the process that is up, and an
\* owner's stop is of a run that goes on.
ProcOf(t) ==
    /\ proc = "down" => run[t] = NoRun /\ tick[t] = "none"
    /\ proc # "up" => run[t].phase # "parking" /\ tick[t] = "none"
    /\ run[t].phase \notin HasQuestion => run[t].prompt = Null
    /\ run[t].phase \in {"none", "starting"} => ~run[t].stopReq

ProcInv ==
    /\ proc = "down" => boots < MaxBoots
    /\ proc # "down" => boots > 0
    /\ \A t \in Triggers : ProcOf(t)

RestTyped ==
    /\ cron \in SUBSET Triggers
    /\ tick \in [Triggers -> {"none", "rearm", "sweep", "record"}]
    /\ proc \in {"up", "draining", "down"}
    /\ boots \in 0..MaxBoots
    /\ faults \in 0..MaxFaults
    /\ asked \in [Triggers -> Prompts \union {Null}]
    /\ delivered \in [Prompts -> Nat]
    /\ orphaned \in [Triggers -> SUBSET Prompts]
    /\ halted \in SUBSET Triggers

\* What only grows.
Grows ==
    /\ cron' = cron
    /\ boots <= boots' /\ faults <= faults'
    /\ \A p \in Prompts : delivered[p] <= delivered'[p]
    /\ \A t \in Triggers : orphaned[t] \subseteq orphaned'[t]

\* The counters, the histories and the positions of the ticks.
LEMMA RestStep ==
    ASSUME TypeOK, RunInv, ProcInv, [Next]_vars
    PROVE  RestTyped' /\ Grows
<1> DEFINE Goal == RestTyped' /\ Grows
<1>0. RestTyped
  BY DEF TypeOK, RestTyped
<1> HIDE DEF Goal
<1> USE DurableWaitAssumption DEF RestTyped, Grows, Fault
<1>1. ASSUME NEW t \in Triggers, \/ ReArm(t) \/ ReArmDue(t) \/ Sweep(t) \/ SweepEnd(t)
                                 \/ SweepRecord(t)
      PROVE  Goal
  <2>1. UNCHANGED <<cron, proc, boots, history>> /\ \E x \in {"none", "rearm", "sweep", "record"} : tick' = [tick EXCEPT ![t] = x]
    BY <1>1 DEF ReArm, ReArmDue, Sweep, SweepEnd, SweepRecord
  <2>2. faults' = faults \/ (faults < MaxFaults /\ faults' = faults + 1)
    BY <1>1 DEF ReArm, ReArmDue, Sweep, SweepEnd, SweepRecord
  <2> QED
    BY <1>0, <2>1, <2>2 DEF history, Goal
<1>2. ASSUME NEW t \in Triggers, \/ Dispatch(t) \/ LoadRefused(t) \/ AskRefused(t) \/ Drain(t) \/ Detach(t)
                                 \/ Unpark(t) \/ StopTask(t) \/ ToolTimeout(t)
                                 \/ LeaseLapses(t) \/ Occur(t)
      PROVE  Goal
  <2>1. UNCHANGED <<cron, tick, proc, boots, history>>
    BY <1>2 DEF Dispatch, LoadRefused, AskRefused, Drain, Detach, Unpark, StopTask,
                ToolTimeout, LeaseLapses, Occur
  <2>2. faults' = faults \/ (faults < MaxFaults /\ faults' = faults + 1)
    BY <1>2 DEF Dispatch, LoadRefused, AskRefused, Drain, Detach, Unpark, StopTask,
                ToolTimeout, LeaseLapses, Occur
  <2> QED
    BY <1>0, <2>1, <2>2 DEF history, Goal
<1>3. ASSUME NEW t \in Triggers, NEW p \in Prompts, Ask(t, p) PROVE Goal
  BY <1>0, <1>3 DEF Ask, history, Goal
<1>4. ASSUME NEW p \in Prompts, Answer(p) \/ Timer(p) PROVE Goal
  BY <1>0, <1>4 DEF Answer, Timer, history, Goal
<1>5. CASE ExpireOld \/ Advance \/ UNCHANGED vars
  BY <1>0, <1>5 DEF ExpireOld, Advance, vars, history, Goal
<1>6. CASE Stop \/ Boot
  <2>1. UNCHANGED <<cron, tick, faults, history>> /\ proc' \in {"up", "draining"}
    BY <1>6 DEF Stop, Boot
  <2>2. boots' = boots \/ (boots < MaxBoots /\ boots' = boots + 1)
    BY <1>6 DEF Stop, Boot, ProcInv
  <2> QED
    BY <1>0, <2>1, <2>2 DEF history, Goal
<1>7. CASE Exit
  <2>1. UNCHANGED <<cron, boots, history>> /\ proc' = "down"
        /\ tick' = [t \in Triggers |-> "none"]
    BY <1>7 DEF Exit
  <2>2. faults' = faults \/ (faults < MaxFaults /\ faults' = faults + 1)
    BY <1>7 DEF Exit
  <2> QED
    BY <1>0, <2>1, <2>2 DEF history, Goal
<1>8. ASSUME NEW t \in Triggers, RunTriggerNow(t) PROVE Goal
  BY <1>0, <1>8 DEF RunTriggerNow, Goal
<1>9. ASSUME NEW t \in Triggers, Load(t) PROVE Goal
  <2>1. UNCHANGED <<cron, tick, proc, boots, faults, asked, orphaned, halted>>
    BY <1>9 DEF Load
  <2>2. delivered' = delivered \/ \E p \in Prompts : delivered' = [delivered EXCEPT ![p] = @ + 1]
    BY <1>9 DEF Load, Store!AnsweredFor
  <2> QED
    BY <1>0, <2>1, <2>2 DEF Goal
<1>10. ASSUME NEW t \in Triggers, Take(t) PROVE Goal
  <2>1. UNCHANGED <<cron, tick, proc, boots, faults, asked, orphaned, halted>>
        /\ run[t].prompt \in Prompts
        /\ delivered' = [delivered EXCEPT ![run[t].prompt] = @ + 1]
    BY <1>10 DEF Take, Settled, RunInv, HasQuestion
  <2> QED
    BY <1>0, <2>1 DEF Goal
<1>11. ASSUME NEW t \in Triggers, Park(t) PROVE Goal
  <2>1. UNCHANGED <<cron, tick, proc, boots, delivered, orphaned, halted>>
        /\ run[t].prompt \in Prompts
    BY <1>11 DEF Park, RunInv, HasQuestion
  <2>2. asked' = asked \/ asked' = [asked EXCEPT ![t] = run[t].prompt]
    BY <1>11 DEF Park
  <2>3. faults' = faults \/ (faults < MaxFaults /\ faults' = faults + 1)
    BY <1>11 DEF Park
  <2> QED
    BY <1>0, <2>1, <2>2, <2>3 DEF Goal
<1>12. ASSUME NEW t \in Triggers, NEW o \in {"success", "failed", "stopped"}, EndRun(t, o)
       PROVE  Goal
  BY <1>0, <1>12 DEF EndRun, Goal
<1>13. ASSUME NEW t \in Triggers, NEW st \in {"open", "completed"}, SetStatus(t, st) PROVE Goal
  <2>1. UNCHANGED <<cron, tick, proc, boots, faults, asked, delivered>>
        /\ halted' = halted \ {t} /\ Store!PendingFor(t) \subseteq Prompts
        /\ orphaned' = [orphaned EXCEPT ![t] = @ \union Store!PendingFor(t)]
    BY <1>13 DEF SetStatus, Store!PendingFor, Store!Pending
  <2> QED
    BY <1>0, <2>1 DEF Goal
<1>14. Goal
  <2>1. CASE \E t \in Triggers :
                \/ ReArm(t) \/ ReArmDue(t) \/ Sweep(t) \/ SweepEnd(t) \/ SweepRecord(t)
                \/ Dispatch(t) \/ LoadRefused(t) \/ AskRefused(t) \/ Drain(t) \/ Detach(t)
                \/ Unpark(t) \/ StopTask(t) \/ ToolTimeout(t)
                \/ LeaseLapses(t) \/ Occur(t)
                \/ RunTriggerNow(t) \/ Load(t) \/ Take(t) \/ Park(t)
    BY <1>1, <1>2, <1>8, <1>9, <1>10, <1>11, <2>1
  <2>2. CASE \E t \in Triggers, p \in Prompts : Ask(t, p)
    BY <1>3, <2>2
  <2>3. CASE \E p \in Prompts : Answer(p) \/ Timer(p)
    BY <1>4, <2>3
  <2>4. CASE \E t \in Triggers, o \in {"success", "failed", "stopped"} : EndRun(t, o)
    BY <1>12, <2>4
  <2>5. CASE \E t \in Triggers, st \in {"open", "completed"} : SetStatus(t, st)
    BY <1>13, <2>5
  <2>6. CASE ExpireOld \/ Advance \/ UNCHANGED vars \/ Stop \/ Boot \/ Exit
    BY <1>5, <1>6, <1>7, <2>6 DEF Goal
  <2> QED
    BY <2>1, <2>2, <2>3, <2>4, <2>5, <2>6 DEF Next
<1> QED
  BY <1>14 DEF Goal

\* Every variable keeps its type.
LEMMA TypeStep == TypeOK /\ RunInv /\ ProcInv /\ [Next]_vars => TypeOK'
<1> SUFFICES ASSUME TypeOK, RunInv, ProcInv, [Next]_vars PROVE TypeOK'
  OBVIOUS
<1>1. RestTyped' /\ trig' \in [Triggers -> Row] /\ Store!TypeOK' /\ RunInv'
  BY RestStep, TrigStep, NextStore, RunStep DEF StoreOK
<1> QED
  BY <1>1 DEF RestTyped, TypeOK, RunInv

-----------------------------------------------------------------------------
(* A step is of one trigger, of the process, or of neither.                *)

\* Where a step takes a run.
Moves(u, phase, p, stop) ==
    run'[u].phase = phase /\ run'[u].prompt = p /\ run'[u].stopReq = stop

\* What each action does to the run of its trigger.
LEMMA RunMoves ==
    ASSUME TypeOK, RunInv, NEW u \in Triggers
    PROVE  /\ Dispatch(u) \/ RunTriggerNow(u) =>
                 run'[u] = run[u] \/ Moves(u, "starting", run[u].prompt, run[u].stopReq)
           /\ Load(u) => Moves(u, "working", run[u].prompt, run[u].stopReq)
           /\ LoadRefused(u) => Moves(u, "refused", run[u].prompt, run[u].stopReq)
           /\ AskRefused(u) => Moves(u, run[u].phase, run[u].prompt, run[u].stopReq)
           /\ \A p \in Prompts : Ask(u, p) => Moves(u, "parking", p, run[u].stopReq)
           /\ Park(u) => Moves(u, "asking", run[u].prompt, run[u].stopReq)
           /\ Drain(u) \/ Take(u) =>
                 IF Keeps(u) THEN Moves(u, "working", Null, run[u].stopReq)
                 ELSE Moves(u, "drained", run[u].prompt, run[u].stopReq)
           /\ Detach(u) => Moves(u, "detached", run[u].prompt, run[u].stopReq)
           /\ Unpark(u) => Moves(u, "working", Null, run[u].stopReq)
           /\ \A o : EndRun(u, o) => run'[u] = NoRun /\ Moves(u, "none", Null, FALSE)
           /\ StopTask(u) => Moves(u, run[u].phase, run[u].prompt, TRUE)
<1>0. run \in [Triggers -> Run] /\ run[u] \in Run
  BY DEF RunInv
<1> USE <1>0 DEF Moves
<1>1. Dispatch(u) \/ RunTriggerNow(u) =>
         run'[u] = run[u] \/ Moves(u, "starting", run[u].prompt, run[u].stopReq)
  BY DEF Dispatch, RunTriggerNow, Run
<1>2. Load(u) => Moves(u, "working", run[u].prompt, run[u].stopReq)
  <2>1. ASSUME Load(u)
        PROVE  \/ run' = [run EXCEPT ![u].phase = "working"]
               \/ \E p : run' = [run EXCEPT ![u] = [@ EXCEPT !.phase = "working", !.thread = p]]
    BY <2>1 DEF Load
  <2>2. ASSUME NEW p, run' = [run EXCEPT ![u] = [@ EXCEPT !.phase = "working", !.thread = p]]
        PROVE  Moves(u, "working", run[u].prompt, run[u].stopReq)
    <3> DEFINE x == [run[u] EXCEPT !.phase = "working", !.thread = p]
    <3>1. x.phase = "working" /\ x.prompt = run[u].prompt /\ x.stopReq = run[u].stopReq
      BY DEF Run
    <3>2. run'[u] = x
      BY <2>2
    <3> HIDE DEF x
    <3> QED
      BY <3>1, <3>2
  <2>3. ASSUME run' = [run EXCEPT ![u].phase = "working"]
        PROVE  Moves(u, "working", run[u].prompt, run[u].stopReq)
    BY <2>3 DEF Run
  <2> HIDE DEF Moves
  <2> QED
    BY <2>1, <2>2, <2>3
<1>3. /\ LoadRefused(u) => Moves(u, "refused", run[u].prompt, run[u].stopReq)
      /\ AskRefused(u) => Moves(u, run[u].phase, run[u].prompt, run[u].stopReq)
  BY DEF LoadRefused, AskRefused, Run
<1>4. \A p \in Prompts : Ask(u, p) => Moves(u, "parking", p, run[u].stopReq)
  <2> SUFFICES ASSUME NEW p \in Prompts, Ask(u, p)
               PROVE  Moves(u, "parking", p, run[u].stopReq)
    OBVIOUS
  <2> DEFINE x == [run[u] EXCEPT !.phase = "parking", !.prompt = p, !.thread = p]
  <2>1. x.phase = "parking" /\ x.prompt = p /\ x.stopReq = run[u].stopReq
    BY DEF Run
  <2>2. run'[u] = x
    BY DEF Ask
  <2> HIDE DEF x
  <2> QED
    BY <2>1, <2>2
<1>5. Park(u) => Moves(u, "asking", run[u].prompt, run[u].stopReq)
  <2>1. Park(u) => run' = [run EXCEPT ![u].phase = "asking"]
    BY DEF Park
  <2> QED
    BY <2>1 DEF Run
<1>6. Drain(u) \/ Take(u) =>
         IF Keeps(u) THEN Moves(u, "working", Null, run[u].stopReq)
         ELSE Moves(u, "drained", run[u].prompt, run[u].stopReq)
  <2>1. ASSUME Drain(u) \/ Take(u)
        PROVE  \/ run' = [run EXCEPT ![u] = WaitOver(u)]
               \/ run' = [run EXCEPT ![u] = [WaitOver(u) EXCEPT !.unanswered = TRUE]]
    BY <2>1 DEF Drain, Take
  <2>2. /\ WaitOver(u) \in [phase : Phase, prompt : Prompts \union {Null},
                            thread : Prompts \union {Null}, stopReq : BOOLEAN,
                            unanswered : BOOLEAN]
        /\ IF Keeps(u) THEN WaitOver(u).phase = "working" /\ WaitOver(u).prompt = Null
                            /\ WaitOver(u).stopReq = run[u].stopReq
           ELSE WaitOver(u).phase = "drained" /\ WaitOver(u).prompt = run[u].prompt
                /\ WaitOver(u).stopReq = run[u].stopReq
    BY DEF WaitOver, Run, Phase
  <2> DEFINE w == WaitOver(u)
             x == [w EXCEPT !.unanswered = TRUE]
  <2>3. x.phase = w.phase /\ x.prompt = w.prompt /\ x.stopReq = w.stopReq
    BY <2>2
  <2> HIDE DEF w, x
  <2>4. Drain(u) \/ Take(u) => run'[u] = w \/ run'[u] = x
    BY <2>1 DEF w, x
  <2> QED
    BY <2>2, <2>3, <2>4 DEF w
<1>7. Detach(u) => Moves(u, "detached", run[u].prompt, run[u].stopReq)
  <2>1. Detach(u) => run' = [run EXCEPT ![u].phase = "detached"]
    BY DEF Detach
  <2> QED
    BY <2>1 DEF Run
<1>8. Unpark(u) => Moves(u, "working", Null, run[u].stopReq)
  <2>1. Unpark(u) => run' = [run EXCEPT ![u] = [@ EXCEPT !.phase = "working", !.prompt = Null]]
    BY DEF Unpark
  <2> QED
    BY <2>1 DEF Run
<1>9. \A o : EndRun(u, o) => run'[u] = NoRun /\ Moves(u, "none", Null, FALSE)
  BY DEF EndRun, NoRun
<1>10. StopTask(u) => Moves(u, run[u].phase, run[u].prompt, TRUE)
  <2>1. StopTask(u) => run' = [run EXCEPT ![u].stopReq = TRUE]
    BY DEF StopTask
  <2> QED
    BY <2>1 DEF Run
<1> QED
  BY <1>1, <1>2, <1>3, <1>4, <1>5, <1>6, <1>7, <1>8, <1>9, <1>10

Local(u) ==
    /\ run'[u] = run[u] /\ tick'[u] = tick[u] /\ trig'[u] = trig[u]
    /\ orphaned'[u] = orphaned[u]
    /\ u \in halted' <=> u \in halted

\* The steps of a trigger: its ticks, its run, its owner's writes.
OwnStep(u) ==
    \/ ReArm(u) \/ ReArmDue(u) \/ Sweep(u) \/ SweepEnd(u) \/ SweepRecord(u)
    \/ Dispatch(u) \/ RunTriggerNow(u)
    \/ Load(u) \/ LoadRefused(u) \/ AskRefused(u) \/ Park(u)
    \/ Drain(u) \/ Take(u) \/ Detach(u) \/ Unpark(u)
    \/ StopTask(u) \/ LeaseLapses(u) \/ Occur(u)
    \/ \E p \in Prompts : Ask(u, p)
    \/ \E o \in {"success", "failed", "stopped"} : EndRun(u, o)
    \/ \E st \in {"open", "completed"} : SetStatus(u, st)

\* A trigger's row, run and ticks are written by its own steps, and by the end
\* of the process.
LEMMA NextLocal ==
    ASSUME TypeOK, RunInv, [Next]_vars, NEW u \in Triggers
    PROVE  Local(u) \/ OwnStep(u) \/ Exit
<1>0. /\ run \in [Triggers -> Run] /\ tick \in [Triggers -> {"none", "rearm", "sweep", "record"}]
      /\ trig \in [Triggers -> Row] /\ orphaned \in [Triggers -> SUBSET Prompts]
  BY DEF TypeOK
<1> USE <1>0 DEF Local
<1>1. ASSUME NEW t \in Triggers \ {u},
             \/ ReArm(t) \/ ReArmDue(t) \/ Sweep(t) \/ SweepEnd(t) \/ SweepRecord(t)
      PROVE  Local(u)
  BY <1>1 DEF ReArm, ReArmDue, Sweep, SweepEnd, SweepRecord, history
<1>2. ASSUME NEW t \in Triggers \ {u}, Dispatch(t) \/ RunTriggerNow(t) PROVE Local(u)
  BY <1>2 DEF Dispatch, RunTriggerNow, history
<1>3. ASSUME NEW t \in Triggers \ {u}, Load(t) \/ LoadRefused(t) \/ AskRefused(t) PROVE Local(u)
  BY <1>3 DEF Load, LoadRefused, AskRefused, history
<1>4. ASSUME NEW t \in Triggers \ {u}, Park(t) \/ Drain(t) \/ Take(t) PROVE Local(u)
  BY <1>4 DEF Park, Drain, Take, history
<1>5. ASSUME NEW t \in Triggers \ {u}, Detach(t) \/ Unpark(t) \/ StopTask(t) PROVE Local(u)
  BY <1>5 DEF Detach, Unpark, StopTask, history
<1>6. ASSUME NEW t \in Triggers \ {u}, LeaseLapses(t) \/ Occur(t) PROVE Local(u)
  BY <1>6 DEF LeaseLapses, Occur, history
<1>7. ASSUME NEW t \in Triggers \ {u}, NEW p \in Prompts, Ask(t, p) PROVE Local(u)
  BY <1>7 DEF Ask, history
<1>8. ASSUME NEW t \in Triggers \ {u}, NEW o, EndRun(t, o) PROVE Local(u)
  BY <1>8 DEF EndRun
<1>9. ASSUME NEW t \in Triggers \ {u}, NEW st, SetStatus(t, st) PROVE Local(u)
  BY <1>9 DEF SetStatus
<1>10. ASSUME \/ \E t \in Triggers : ToolTimeout(t)
              \/ \E p \in Prompts : Answer(p) \/ Timer(p)
              \/ ExpireOld \/ Stop \/ Boot \/ Advance \/ UNCHANGED vars
       PROVE  Local(u)
  BY <1>10 DEF ToolTimeout, Answer, Timer, ExpireOld, Stop, Boot, Advance, vars, history
<1> USE DEF Next, OwnStep
<1> HIDE <1>0 DEF Local
<1>11. CASE \E t \in Triggers :
               \/ ReArm(t) \/ ReArmDue(t)
               \/ Sweep(t) \/ SweepEnd(t) \/ SweepRecord(t)
               \/ Dispatch(t) \/ RunTriggerNow(t)
               \/ Load(t) \/ LoadRefused(t) \/ AskRefused(t) \/ Park(t)
               \/ Drain(t) \/ Take(t) \/ Detach(t) \/ Unpark(t)
               \/ StopTask(t) \/ LeaseLapses(t) \/ Occur(t)
  <2>1. PICK t \in Triggers :
               \/ ReArm(t) \/ ReArmDue(t)
               \/ Sweep(t) \/ SweepEnd(t) \/ SweepRecord(t)
               \/ Dispatch(t) \/ RunTriggerNow(t)
               \/ Load(t) \/ LoadRefused(t) \/ AskRefused(t) \/ Park(t)
               \/ Drain(t) \/ Take(t) \/ Detach(t) \/ Unpark(t)
               \/ StopTask(t) \/ LeaseLapses(t) \/ Occur(t)
    BY <1>11
  <2>2. CASE t = u
    BY <2>1, <2>2
  <2>3. CASE t # u
    BY <1>1, <1>2, <1>3, <1>4, <1>5, <1>6, <2>1, <2>3
  <2> QED
    BY <2>2, <2>3
<1>12. CASE \E t \in Triggers, p \in Prompts : Ask(t, p)
  BY <1>7, <1>12
<1>13. CASE \E t \in Triggers, o \in {"success", "failed", "stopped"} : EndRun(t, o)
  BY <1>8, <1>13
<1>14. CASE \E t \in Triggers, st \in {"open", "completed"} : SetStatus(t, st)
  BY <1>9, <1>14
<1> QED
  BY <1>10, <1>11, <1>12, <1>13, <1>14

\* The process changes by being stopped, by going down and by being started.
LEMMA NextProc ==
    ASSUME [Next]_vars
    PROVE  \/ proc' = proc
           \/ Stop /\ proc = "up" /\ proc' = "draining"
           \/ Exit
           \/ Boot
<1>1. ASSUME \/ \E t \in Triggers :
                   \/ ReArm(t) \/ ReArmDue(t) \/ Sweep(t) \/ SweepEnd(t) \/ SweepRecord(t)
                   \/ Dispatch(t) \/ RunTriggerNow(t) \/ Load(t) \/ LoadRefused(t) \/ AskRefused(t) \/ Park(t)
                   \/ Drain(t) \/ Take(t) \/ Detach(t) \/ Unpark(t)
                   \/ StopTask(t) \/ ToolTimeout(t) \/ LeaseLapses(t) \/ Occur(t)
             \/ \E t \in Triggers, p \in Prompts : Ask(t, p)
             \/ \E t \in Triggers, o \in {"success", "failed", "stopped"} : EndRun(t, o)
             \/ \E t \in Triggers, st \in {"open", "completed"} : SetStatus(t, st)
             \/ \E p \in Prompts : Answer(p) \/ Timer(p)
             \/ ExpireOld \/ Advance \/ UNCHANGED vars
      PROVE  proc' = proc
  BY <1>1
  DEF ReArm, ReArmDue, Sweep, SweepEnd, SweepRecord, Dispatch, RunTriggerNow, Load,
      LoadRefused, AskRefused, Park, Drain, Take, Detach, Unpark, StopTask, ToolTimeout, LeaseLapses,
      Occur, Ask, EndRun, SetStatus, Answer, Timer, ExpireOld, Advance, vars
<1> QED
  BY <1>1 DEF Next, Stop

-----------------------------------------------------------------------------
(* The process and its runs.                                               *)

\* Runs wait only in a process that lives.
LEMMA ProcStep == TypeOK /\ RunInv /\ ProcInv /\ [Next]_vars => ProcInv'
<1> SUFFICES ASSUME TypeOK, RunInv, ProcInv, [Next]_vars PROVE ProcInv'
  OBVIOUS
<1>0. /\ boots \in Nat /\ MaxBoots \in Nat /\ boots' \in Nat /\ boots <= boots'
      /\ proc \in {"up", "draining", "down"}
  BY RestStep, DurableWaitAssumption DEF TypeOK, RestTyped, Grows
<1>1. CASE Exit
  <2>1. proc' = "down" /\ boots' = boots /\ boots < MaxBoots
        /\ \A t \in Triggers : run'[t] = NoRun /\ tick'[t] = "none"
    BY <1>1 DEF Exit
  <2>2. NoRun.phase = "none" /\ NoRun.prompt = Null /\ NoRun.stopReq = FALSE
    BY DEF NoRun
  <2>3. \A t \in Triggers : ProcOf(t)'
    BY <2>1, <2>2 DEF ProcOf
  <2> QED
    BY <2>1, <2>3 DEF ProcInv
<1>2. CASE Boot
  <2>1. /\ proc' = "up" /\ boots' = boots + 1 /\ proc = "down"
        /\ \A t \in Triggers : run'[t] = run[t] /\ tick'[t] = tick[t]
    BY <1>2 DEF Boot
  <2>2. \A t \in Triggers : ProcOf(t)'
    BY <2>1 DEF ProcInv, ProcOf
  <2> QED
    BY <1>0, <2>1, <2>2 DEF ProcInv
<1>3. CASE Stop
  <2>1. /\ proc' = "draining" /\ proc = "up" /\ boots' = boots
        /\ \A t \in Triggers : run'[t] = run[t] /\ tick'[t] = tick[t]
        /\ \A t \in Triggers : run[t].phase # "parking" /\ tick[t] = "none"
    BY <1>3 DEF Stop, MidWrite
  <2>2. \A t \in Triggers : ProcOf(t)'
    BY <2>1 DEF ProcInv, ProcOf
  <2> QED
    BY <1>0, <2>1, <2>2 DEF ProcInv
<1>4. CASE ~Exit /\ ~Boot /\ ~Stop
  <2>1. proc' = proc
    BY <1>4, NextProc
  <2>2. boots' = boots
    BY <1>4 DEF Next, vars, ReArm, ReArmDue, Sweep, SweepEnd, SweepRecord, Dispatch,
      RunTriggerNow, Load, LoadRefused, AskRefused, Park, Drain, Take, Detach, Unpark, StopTask,
      ToolTimeout, LeaseLapses, Occur, Ask, EndRun, SetStatus, Answer, Timer, ExpireOld,
      Advance
  <2>3. ASSUME NEW u \in Triggers PROVE ProcOf(u)'
    <3>0. ProcOf(u) /\ run[u].phase \in Phase /\ run[u].stopReq \in BOOLEAN
      BY DEF ProcInv, RunInv, Run
    <3>1. CASE Local(u)
      BY <2>1, <3>0, <3>1 DEF Local, ProcOf
    <3>2. CASE \/ ReArm(u) \/ ReArmDue(u) \/ Sweep(u) \/ SweepEnd(u) \/ SweepRecord(u)
      <4>1. run'[u] = run[u]
        BY <3>2 DEF ReArm, ReArmDue, Sweep, SweepEnd, SweepRecord
      <4>2. proc = "up" \/ tick[u] # "none"
        BY <3>2 DEF ReArm, ReArmDue, Sweep, SweepEnd, SweepRecord, Serving
      <4>3. proc = "up"
        BY <3>0, <4>2 DEF ProcOf
      <4> QED
        BY <2>1, <3>0, <4>1, <4>3 DEF ProcOf
    <3>3. CASE LeaseLapses(u) \/ Occur(u) \/ \E st \in {"open", "completed"} : SetStatus(u, st)
      <4>1. run'[u] = run[u] /\ tick'[u] = tick[u]
        BY <3>3 DEF LeaseLapses, Occur, SetStatus
      <4> QED
        BY <2>1, <3>0, <4>1 DEF ProcOf
    <3>4. CASE \/ Dispatch(u) \/ RunTriggerNow(u) \/ \E p \in Prompts : Ask(u, p)
      <4>1. tick'[u] = tick[u] /\ (run[u].phase = "none" \/ run[u].phase = "working")
        BY <3>4 DEF Dispatch, RunTriggerNow, Ask
      <4>2. proc = "up"
        <5>1. proc # "down"
          BY <3>4, <1>0 DEF Dispatch, RunTriggerNow, Ask, Serving, Turn
        <5> QED
          BY <1>0, <3>4, <5>1 DEF Dispatch, RunTriggerNow, Ask, Aborted, Serving
      <4>3. \/ run'[u] = run[u]
            \/ run[u].phase = "none" /\ Moves(u, "starting", run[u].prompt, run[u].stopReq)
            \/ \E p \in Prompts : Moves(u, "parking", p, run[u].stopReq)
        BY <3>4, RunMoves DEF Dispatch, RunTriggerNow
      <4> QED
        BY <2>1, <3>0, <4>1, <4>2, <4>3 DEF ProcOf, Moves, HasQuestion
    <3>5. CASE \/ Load(u) \/ LoadRefused(u) \/ AskRefused(u) \/ Park(u) \/ Drain(u) \/ Take(u) \/ Detach(u)
               \/ Unpark(u) \/ StopTask(u)
      <4>1. tick'[u] = tick[u] /\ run[u].phase # "none"
        BY <3>5 DEF Load, LoadRefused, AskRefused, Park, Drain, Take, Detach, Unpark, StopTask, Turn,
                    Settled
      <4>2. proc # "down"
        BY <3>0, <4>1 DEF ProcOf, NoRun
      <4>3. \/ run[u].phase = "starting" /\ Moves(u, "working", run[u].prompt, run[u].stopReq)
            \/ run[u].phase = "starting" /\ Moves(u, "refused", run[u].prompt, run[u].stopReq)
            \/ Moves(u, run[u].phase, run[u].prompt, run[u].stopReq)
            \/ Moves(u, "asking", run[u].prompt, run[u].stopReq)
            \/ Moves(u, "working", Null, run[u].stopReq)
            \/ Moves(u, "drained", run[u].prompt, run[u].stopReq)
            \/ Moves(u, "detached", run[u].prompt, run[u].stopReq)
            \/ run[u].phase \in {"working", "asking"} /\ Moves(u, run[u].phase, run[u].prompt, TRUE)
        BY <3>5, RunMoves DEF Load, LoadRefused, StopTask
      <4> QED
        BY <2>1, <3>0, <4>1, <4>2, <4>3 DEF ProcOf, Moves, HasQuestion
    <3>6. CASE \E o \in {"success", "failed", "stopped"} : EndRun(u, o)
      <4>1. tick'[u] = tick[u] /\ run'[u] = NoRun
        BY <3>6, RunMoves DEF EndRun
      <4> QED
        BY <2>1, <3>0, <4>1 DEF ProcOf, NoRun, HasQuestion
    <3> QED
      BY <1>4, <3>1, <3>2, <3>3, <3>4, <3>5, <3>6, NextLocal DEF OwnStep
  <2> QED
    BY <1>0, <1>4, <2>1, <2>2, <2>3 DEF ProcInv
<1> QED
  BY <1>1, <1>2, <1>3, <1>4

Base == TypeOK /\ RunInv /\ ProcInv

\* The first process has not started.
LEMMA BaseInit == Init => Base
<1> SUFFICES ASSUME Init PROVE Base
  OBVIOUS
<1>1. Store!TypeOK
  BY DurableWaitAssumption DEF Init, Store!Init, Store!TypeOK, Store!NoRow, Store!Row,
     Store!Status, Store!Askers, Store!WaitState
<1>2. trig \in [Triggers -> Row]
  BY DurableWaitAssumption DEF Init, Row
<1>3. RunInv
  BY RunInit
<1>4. ProcInv
  BY DurableWaitAssumption DEF Init, ProcInv, ProcOf, NoRun, HasQuestion
<1>5. RestTyped
  BY DurableWaitAssumption DEF Init, RestTyped
<1> QED
  BY <1>1, <1>2, <1>3, <1>4, <1>5 DEF Base, TypeOK, RestTyped, RunInv

\* Types, runs and processes together.
LEMMA BaseStep == Base /\ [Next]_vars => Base'
BY TypeStep, RunStep, ProcStep DEF Base

\* The types of all variables, among them that at most MaxBoots processes run
\* and MaxFaults writes fail, whatever the constants.
THEOREM TypeCorrect == Spec => []TypeOK
<1>1. Spec => []Base
  BY BaseInit, BaseStep, PTL DEF Spec
<1>2. Base => TypeOK
  BY DEF Base
<1> QED
  BY <1>1, <1>2, PTL

-----------------------------------------------------------------------------
(* A run and the question it asked.                                        *)

\* How a run came to where it is.
LEMMA RunFrom ==
    ASSUME Base, [Next]_vars, NEW u \in Triggers
    PROVE  /\ run'[u].phase \in HasQuestion =>
                 \/ run[u].phase \in HasQuestion /\ run'[u].prompt = run[u].prompt
                 \/ run'[u].prompt \in Prompts /\ Ask(u, run'[u].prompt)
           /\ run'[u].phase = "parking" => run[u].phase = "parking" \/ Ask(u, run'[u].prompt)
           /\ run'[u].phase = "asking" => run[u].phase = "asking" \/ Park(u)
           /\ run'[u].phase = "drained" => run[u].phase = "drained" \/ Drain(u) \/ Take(u)
           /\ run'[u].phase = "starting" =>
                 \/ run[u].phase = "starting"
                 \/ proc = "up" /\ (Dispatch(u) \/ RunTriggerNow(u))
           /\ run[u].phase = "none" =>
                 run'[u].phase = "none" \/ Dispatch(u) \/ RunTriggerNow(u)
           /\ run[u].phase = "drained" => run'[u] = run[u] \/ Detach(u) \/ Exit
<1>0. TypeOK /\ RunInv /\ run[u] \in Run /\ (run[u].phase \in HasQuestion => run[u].prompt \in Prompts)
  BY DEF Base, RunInv
<1>1. CASE run'[u] = run[u]
  BY <1>0, <1>1
<1>2. CASE Exit
  <2>1. run'[u] = NoRun
    BY <1>2 DEF Exit
  <2> QED
    BY <1>2, <2>1 DEF NoRun, HasQuestion
<1>3. CASE Dispatch(u) \/ RunTriggerNow(u)
  <2>1. run[u].phase = "none" /\ proc = "up"
    BY <1>3 DEF Dispatch, RunTriggerNow, Serving
  <2>2. run'[u] = run[u] \/ run'[u].phase = "starting"
    BY <1>0, <1>3, RunMoves DEF Moves
  <2> QED
    BY <1>3, <2>1, <2>2 DEF HasQuestion
<1>4. CASE Load(u) \/ LoadRefused(u) \/ AskRefused(u) \/ StopTask(u)
  <2>1. /\ run'[u].prompt = run[u].prompt
        /\ run[u].phase \in {"starting", "working", "asking"}
        /\ run'[u].phase = run[u].phase \/ run'[u].phase \in {"refused", "working"}
    BY <1>0, <1>4, RunMoves DEF Moves, Load, LoadRefused, AskRefused, StopTask
  <2> QED
    BY <2>1 DEF HasQuestion
<1>5. ASSUME NEW p \in Prompts, Ask(u, p) PROVE run[u].phase = "working" /\ Moves(u, "parking", p, run[u].stopReq)
  BY <1>0, <1>5, RunMoves DEF Ask
<1>6. CASE \E p \in Prompts : Ask(u, p)
  BY <1>5, <1>6 DEF Moves, HasQuestion
<1>7. CASE Park(u)
  <2>1. run[u].phase = "parking" /\ Moves(u, "asking", run[u].prompt, run[u].stopReq)
    BY <1>0, <1>7, RunMoves DEF Park
  <2> QED
    BY <1>7, <2>1 DEF Moves, HasQuestion
<1>8. CASE Drain(u) \/ Take(u)
  <2>1. run[u].phase = "asking"
    BY <1>8 DEF Drain, Take, Settled
  <2>2. \/ Moves(u, "working", Null, run[u].stopReq)
        \/ Moves(u, "drained", run[u].prompt, run[u].stopReq)
    BY <1>0, <1>8, RunMoves
  <2> QED
    BY <1>8, <2>1, <2>2 DEF Moves, HasQuestion
<1>9. CASE Detach(u)
  <2>1. run[u].phase = "drained" /\ Moves(u, "detached", run[u].prompt, run[u].stopReq)
    BY <1>0, <1>9, RunMoves DEF Detach
  <2> QED
    BY <1>9, <2>1 DEF Moves, HasQuestion
<1>10. CASE Unpark(u)
  <2>1. run[u].phase = "detached" /\ Moves(u, "working", Null, run[u].stopReq)
    BY <1>0, <1>10, RunMoves DEF Unpark
  <2> QED
    BY <2>1 DEF Moves, HasQuestion
<1>11. CASE \E o \in {"success", "failed", "stopped"} : EndRun(u, o)
  <2>1. run[u].phase \in {"working", "starting", "refused"} /\ Moves(u, "none", Null, FALSE)
    BY <1>0, <1>11, RunMoves DEF EndRun
  <2> QED
    BY <2>1 DEF Moves, HasQuestion
<1>12. ASSUME \/ Local(u)
              \/ ReArm(u) \/ ReArmDue(u) \/ Sweep(u) \/ SweepEnd(u) \/ SweepRecord(u)
              \/ LeaseLapses(u) \/ Occur(u)
              \/ \E st \in {"open", "completed"} : SetStatus(u, st)
       PROVE  run'[u] = run[u]
  BY <1>12 DEF Local, ReArm, ReArmDue, Sweep, SweepEnd, SweepRecord, LeaseLapses, Occur,
               SetStatus
<1>13. Local(u) \/ OwnStep(u) \/ Exit
  BY <1>0, NextLocal
<1>14. CASE ReArm(u) \/ ReArmDue(u) \/ Sweep(u) \/ SweepEnd(u) \/ SweepRecord(u) \/ LeaseLapses(u) \/ Occur(u)
  BY <1>1, <1>12, <1>14
<1>15. CASE Local(u) \/ \E st \in {"open", "completed"} : SetStatus(u, st)
  BY <1>1, <1>12, <1>15
<1> QED
  BY <1>2, <1>3, <1>4, <1>6, <1>7, <1>8, <1>9, <1>10, <1>11, <1>13, <1>14, <1>15 DEF OwnStep

\* What the rows keep.
LEMMA RowsKept ==
    ASSUME StoreOK, NEW q \in Prompts
    PROVE  /\ prompt[q].status # "absent" =>
                 /\ prompt'[q].status # "absent"
                 /\ prompt'[q].trigger \in {prompt[q].trigger, Null}
                 /\ prompt'[q].expiresAt = prompt[q].expiresAt
           /\ prompt[q].status = "answered" => prompt'[q].status = "answered"
           /\ prompt'[q].status = "answered" => prompt[q].status = "answered" \/ Answer(q)
           /\ prompt'[q].status = "pending" =>
                 \/ prompt[q].status = "pending" /\ prompt'[q].trigger = prompt[q].trigger
                 \/ \E t \in Triggers : Ask(t, q)
BY DEF StoreOK, RowStep, SameRow, Closes, LetsGo, Answered, Asked

\* A run that has a question is the only one that has it; what its wait ended
\* with is what the row says; a run that is done waiting for an answered
\* question was told the answer.
AskOf(t) ==
    run[t].phase \in HasQuestion =>
        /\ prompt[run[t].prompt].status # "absent"
        /\ prompt[run[t].prompt].trigger \in {t, Null}
        /\ run[t].phase = "asking" /\ prompt[run[t].prompt].status = "answered"
              => wait[run[t].prompt] = "answered"
        /\ run[t].phase = "drained" /\ prompt[run[t].prompt].status = "answered"
              => delivered[run[t].prompt] > 0

AskInv ==
    /\ \A p \in Prompts : wait[p] = "answered" => prompt[p].status = "answered"
    /\ \A t \in Triggers : AskOf(t)
    /\ \A t, u \in Triggers :
          /\ run[t].phase \in HasQuestion /\ run[u].phase \in HasQuestion
          /\ run[t].prompt = run[u].prompt
          => t = u

\* An answer arrives between two turns.
LEMMA AnswerIdle ==
    ASSUME Base, NEW p \in Prompts, Answer(p), NEW t \in Triggers
    PROVE  /\ run[t].phase \notin {"parking", "drained", "detached"}
           /\ run[t].phase = "asking" => wait[run[t].prompt] = "waiting"
           /\ proc = "up"
           /\ wait[p] = "waiting" => wait'[p] = "answered"
<1>1. Store!TypeOK /\ Serving /\ Store!Answer(p)
  BY DEF Answer, Base, TypeOK
<1>2. wait[p] = "waiting" => wait'[p] = "answered"
  BY <1>1, AnswerEffect
<1>3. ~MidWrite /\ ~Settled(t) /\ proc = "up"
  BY <1>1 DEF Serving, Idle
<1> QED
  BY <1>2, <1>3 DEF MidWrite, Settled

\* The latest question of a trigger stays its own.
LEMMA AskStep == Base /\ AskInv /\ [Next]_vars => AskInv'
<1> SUFFICES ASSUME Base, AskInv, [Next]_vars PROVE AskInv'
  OBVIOUS
<1>0. /\ TypeOK /\ RunInv /\ ProcInv /\ StoreOK /\ Grows
      /\ Base' /\ delivered \in [Prompts -> Nat] /\ delivered' \in [Prompts -> Nat]
      /\ \A p \in Prompts : wait[p] = "answered" => prompt[p].status = "answered"
  BY BaseStep, NextStore, RestStep DEF Base, AskInv, RestTyped, TypeOK
<1>1. ASSUME NEW p \in Prompts, wait'[p] = "answered" PROVE prompt'[p].status = "answered"
  <2>1. wait[p] = "answered" \/ prompt'[p].status = "answered"
    BY <1>0, <1>1 DEF StoreOK, WaitStep
  <2> QED
    BY <1>0, <2>1, RowsKept
<1>2. ASSUME NEW t \in Triggers, run'[t].phase \in HasQuestion
      PROVE  /\ run'[t].prompt \in Prompts
             /\ prompt'[run'[t].prompt].status # "absent"
             /\ prompt'[run'[t].prompt].trigger \in {t, Null}
             /\ \/ /\ run[t].phase \in HasQuestion /\ run'[t].prompt = run[t].prompt
                   /\ prompt[run[t].prompt].status # "absent"
                \/ Ask(t, run'[t].prompt) /\ prompt[run'[t].prompt].status = "absent"
  <2> DEFINE p == run'[t].prompt
  <2>1. CASE run[t].phase \in HasQuestion /\ run'[t].prompt = run[t].prompt
    <3>1. p \in Prompts /\ prompt[p].status # "absent" /\ prompt[p].trigger \in {t, Null}
      BY <1>0, <2>1 DEF AskInv, AskOf, RunInv
    <3> QED
      BY <1>0, <2>1, <3>1, RowsKept
  <2>2. CASE p \in Prompts /\ Ask(t, p)
    <3>0. PICK x \in Prompts : x = p
      BY <2>2
    <3>1. PICK s \in Sessions : Store!Insert(x, s, FALSE, t, "owner")
      BY <2>2, <3>0 DEF Ask
    <3>2. /\ prompt[x].status = "absent" /\ prompt'[x].status = "pending"
          /\ prompt'[x].trigger = t
      BY <1>0, <3>1, InsertEffect DEF TypeOK
    <3> QED
      BY <2>2, <3>0, <3>2
  <2> QED
    BY <1>2, <2>1, <2>2, RunFrom
<1>3. ASSUME NEW t \in Triggers PROVE AskOf(t)'
  <2> DEFINE p == run'[t].prompt
  <2>1. ASSUME run'[t].phase = "asking", prompt'[p].status = "answered"
        PROVE  wait'[p] = "answered"
    <3>0. p \in Prompts
      BY <1>2, <2>1 DEF HasQuestion
    <3>1. CASE Park(t)
      <4>1. /\ p = run[t].prompt /\ Store!Evaluate(p) /\ UNCHANGED <<live, now>>
        BY <1>0, <3>1, RunMoves DEF Park, Store!WaitForSettled, Moves
      <4> QED
        BY <1>0, <2>1, <3>0, <4>1, EvaluateEffect DEF TypeOK
    <3>2. CASE run[t].phase = "asking" /\ p = run[t].prompt
      <4>1. CASE prompt[p].status = "answered"
        <5>1. wait[p] = "answered" /\ proc # "down"
          BY <1>0, <3>2, <4>1 DEF AskInv, AskOf, HasQuestion, ProcInv, ProcOf, NoRun
        <5> QED
          BY <1>0, <3>0, <5>1 DEF StoreOK, WaitStep
      <4>2. CASE Answer(p)
        BY <3>0, <3>2, <4>2, AnswerIdle
      <4> QED
        BY <1>0, <2>1, <3>0, <4>1, <4>2, RowsKept
    <3>3. ~Ask(t, p)
      <4>1. Ask(t, p) => run'[t].phase = "parking"
        BY <1>0, <3>0, RunMoves DEF Moves
      <4> QED
        BY <2>1, <4>1
    <3> QED
      BY <1>2, <2>1, <3>1, <3>2, <3>3, RunFrom DEF HasQuestion
  <2>2. ASSUME run'[t].phase = "drained", prompt'[p].status = "answered"
        PROVE  delivered'[p] > 0
    <3>0. p \in Prompts /\ delivered[p] \in Nat /\ delivered'[p] \in Nat /\ delivered[p] <= delivered'[p]
      BY <1>0, <1>2, <2>2 DEF HasQuestion, Grows
    <3>1. ~Ask(t, p)
      <4>1. Ask(t, p) => run'[t].phase = "parking"
        BY <1>0, <3>0, RunMoves DEF Moves
      <4> QED
        BY <2>2, <4>1
    <3>2. p = run[t].prompt /\ run[t].phase \in HasQuestion
      BY <1>2, <2>2, <3>1 DEF HasQuestion
    <3>3. CASE run[t].phase = "drained"
      <4>1. prompt[p].status = "answered"
        BY <1>0, <2>2, <3>0, <3>3, RowsKept, AnswerIdle
      <4>2. delivered[p] > 0
        BY <3>2, <3>3, <4>1 DEF AskInv, AskOf
      <4> QED
        BY <3>0, <4>2
    <3>4. CASE Drain(t)
      <4>1. run[t].phase = "asking" /\ wait[p] # "answered" /\ wait[p] # "waiting"
        BY <3>2, <3>4 DEF Drain, Settled
      <4>2. prompt[p].status # "answered"
        BY <3>2, <4>1 DEF AskInv, AskOf
      <4> QED
        BY <1>0, <2>2, <3>0, <3>2, <4>1, <4>2, RowsKept, AnswerIdle
    <3>5. CASE Take(t)
      <4>1. delivered' = [delivered EXCEPT ![p] = @ + 1]
        BY <3>2, <3>5 DEF Take
      <4> QED
        BY <1>0, <3>0, <4>1
    <3> QED
      BY <2>2, <3>3, <3>4, <3>5, RunFrom
  <2> QED
    BY <1>2, <2>1, <2>2 DEF AskOf
<1>4. ASSUME NEW t \in Triggers, NEW u \in Triggers,
             run'[t].phase \in HasQuestion, run'[u].phase \in HasQuestion,
             run'[t].prompt = run'[u].prompt
      PROVE  t = u
  <2>1. ASSUME Ask(t, run'[t].prompt), t # u PROVE run'[u] = run[u]
    BY <1>0, <2>1 DEF Ask, RunInv
  <2>2. ASSUME Ask(u, run'[u].prompt), t # u PROVE run[u].phase \notin HasQuestion
    BY <2>2 DEF Ask, HasQuestion
  <2> QED
    BY <1>2, <1>4, <2>1, <2>2 DEF AskInv
<1> QED
  BY <1>1, <1>3, <1>4 DEF AskInv

-----------------------------------------------------------------------------
(* How often an answer is handed to a run.                                 *)

\* A delivery of the question's answer by this process may still come: its run
\* waits, or a run of its trigger will find the answer.
ToDeliver(p) ==
    \/ \E t \in Triggers : run[t].phase \in {"parking", "asking"} /\ run[t].prompt = p
    \/ proc = "up" /\ prompt[p].status = "pending" /\ prompt[p].trigger # Null
    \/ /\ prompt[p].status = "answered" /\ prompt[p].trigger # Null
       /\ \/ /\ proc = "up"
             /\ ~(run[prompt[p].trigger].phase = "drained" /\ run[prompt[p].trigger].prompt = p)
          \/ proc = "draining" /\ run[prompt[p].trigger].phase = "starting"

\* While one may come, there is a process or a failed write left to account for
\* it.
DelivOf(p) ==
    /\ prompt[p].status = "absent" => delivered[p] = 0
    /\ delivered[p] <= boots + faults
    /\ ToDeliver(p) => delivered[p] < boots + faults

DelivInv == \A p \in Prompts : DelivOf(p)

\* Answers are handed over by Load and by Take.
LEMMA NextDelivered ==
    ASSUME Base, [Next]_vars, NEW p \in Prompts
    PROVE  \/ delivered'[p] = delivered[p]
           \/ /\ delivered'[p] = delivered[p] + 1 /\ UNCHANGED <<boots, faults, proc>>
              /\ \E t \in Triggers :
                    \/ /\ Load(t) /\ prompt[p].status = "answered" /\ prompt[p].trigger = t
                       /\ Store!ReleaseTrigger(p)
                    \/ Take(t) /\ run[t].prompt = p
<1> DEFINE Goal == \/ delivered'[p] = delivered[p]
                   \/ /\ delivered'[p] = delivered[p] + 1 /\ UNCHANGED <<boots, faults, proc>>
                      /\ \E t \in Triggers :
                            \/ /\ Load(t) /\ prompt[p].status = "answered" /\ prompt[p].trigger = t
                               /\ Store!ReleaseTrigger(p)
                            \/ Take(t) /\ run[t].prompt = p
<1>0. delivered \in [Prompts -> Nat] /\ RunInv
  BY DEF Base, TypeOK
<1>1. ASSUME NEW t \in Triggers, Load(t) PROVE Goal
  <2>1. UNCHANGED <<boots, faults, proc>>
    BY <1>1 DEF Load
  <2>2. CASE delivered' = delivered
    BY <2>2
  <2>3. ASSUME NEW q \in Store!AnsweredFor(t), Store!ReleaseTrigger(q),
               delivered' = [delivered EXCEPT ![q] = @ + 1]
        PROVE  Goal
    <3>1. q \in Prompts /\ prompt[q].status = "answered" /\ prompt[q].trigger = t
      BY DEF Store!AnsweredFor
    <3>2. CASE p = q
      <4>1. delivered'[p] = delivered[p] + 1
        BY <1>0, <2>3, <3>2
      <4> QED
        BY <1>1, <2>1, <2>3, <3>1, <3>2, <4>1
    <3>3. CASE p # q
      BY <1>0, <2>3, <3>1, <3>3
    <3> QED
      BY <3>2, <3>3
  <2> QED
    BY <1>1, <2>2, <2>3 DEF Load
<1>2. ASSUME NEW t \in Triggers, Take(t) PROVE Goal
  <2>1. /\ UNCHANGED <<boots, faults, proc>>
        /\ delivered' = [delivered EXCEPT ![run[t].prompt] = @ + 1]
        /\ run[t].prompt \in Prompts
    BY <1>0, <1>2 DEF Take, Settled, RunInv, HasQuestion
  <2>2. CASE p = run[t].prompt
    <3>1. delivered'[p] = delivered[p] + 1
      BY <1>0, <2>1, <2>2
    <3> QED
      BY <1>2, <2>1, <2>2, <3>1
  <2>3. CASE p # run[t].prompt
    BY <1>0, <2>1, <2>3
  <2> QED
    BY <2>2, <2>3
<1>3. ASSUME \/ \E t \in Triggers :
                   \/ ReArm(t) \/ ReArmDue(t) \/ Sweep(t) \/ SweepEnd(t) \/ SweepRecord(t)
                   \/ Dispatch(t) \/ RunTriggerNow(t) \/ LoadRefused(t) \/ AskRefused(t) \/ Park(t)
                   \/ Drain(t) \/ Detach(t) \/ Unpark(t)
                   \/ StopTask(t) \/ ToolTimeout(t) \/ LeaseLapses(t) \/ Occur(t)
             \/ \E t \in Triggers, q \in Prompts : Ask(t, q)
             \/ \E t \in Triggers, o \in {"success", "failed", "stopped"} : EndRun(t, o)
             \/ \E t \in Triggers, st \in {"open", "completed"} : SetStatus(t, st)
             \/ \E q \in Prompts : Answer(q) \/ Timer(q)
             \/ ExpireOld \/ Stop \/ Exit \/ Boot \/ Advance \/ UNCHANGED vars
      PROVE  delivered' = delivered
  BY <1>3
  DEF ReArm, ReArmDue, Sweep, SweepEnd, SweepRecord, Dispatch, RunTriggerNow,
      LoadRefused, AskRefused, Park, Drain, Detach, Unpark, StopTask, ToolTimeout, LeaseLapses,
      Occur, Ask, EndRun, SetStatus, Answer, Timer, ExpireOld, Stop, Exit, Boot, Advance,
      vars, history
<1>4. CASE delivered' = delivered
  BY <1>4
<1> QED
  BY <1>1, <1>2, <1>3, <1>4 DEF Next

\* Nothing is delivered before it is asked.
LEMMA DelivInit == Init => AskInv /\ DelivInv
<1> SUFFICES ASSUME Init PROVE AskInv /\ DelivInv
  OBVIOUS
<1>1. /\ \A p \in Prompts : /\ wait[p] = "none" /\ delivered[p] = 0
                            /\ prompt[p].status = "absent"
      /\ \A t \in Triggers : run[t].phase = "none"
      /\ boots = 0 /\ faults = 0 /\ proc = "down"
  BY DEF Init, Store!Init, Store!NoRow, NoRun
<1>2. AskInv
  BY <1>1 DEF AskInv, AskOf, HasQuestion
<1>3. DelivInv
  BY <1>1 DEF DelivInv, DelivOf, ToDeliver
<1> QED
  BY <1>2, <1>3

\* A question that may still be delivered has been delivered less often than
\* the processes and failed writes allow.
LEMMA DelivStep == Base /\ AskInv /\ DelivInv /\ [Next]_vars => DelivInv'
<1> SUFFICES ASSUME Base, AskInv, DelivInv, [Next]_vars, NEW p \in Prompts
             PROVE  DelivOf(p)'
  BY DEF DelivInv
<1>0. /\ TypeOK /\ RunInv /\ ProcInv /\ StoreOK /\ Grows /\ DelivOf(p) /\ AskInv'
      /\ Store!TypeOK /\ RunInv'
  BY BaseStep, NextStore, RestStep, AskStep DEF Base, DelivInv, TypeOK
<1>1. /\ delivered[p] \in Nat /\ delivered'[p] \in Nat /\ boots \in Nat /\ faults \in Nat
      /\ boots' \in Nat /\ faults' \in Nat /\ boots <= boots' /\ faults <= faults'
  BY <1>0, RestStep, DurableWaitAssumption DEF TypeOK, RestTyped, Grows
<1>2. ASSUME NEW t \in Triggers, Load(t), prompt[p].status = "answered", prompt[p].trigger = t,
             Store!ReleaseTrigger(p), delivered'[p] = delivered[p] + 1,
             UNCHANGED <<boots, faults, proc>>
      PROVE  DelivOf(p)'
  <2>1. run[t].phase = "starting" /\ proc # "down" /\ Idle
    BY <1>2 DEF Load, Turn
  <2>2. ToDeliver(p)
    BY <1>0, <1>2, <2>1, DurableWaitAssumption DEF ToDeliver, TypeOK
  <2>3. prompt'[p].trigger = Null /\ prompt'[p].status = "answered"
    BY <1>0, <1>2, ReleaseEffect DEF LetsGo
  <2>4. ASSUME NEW u \in Triggers PROVE ~(run'[u].phase \in {"parking", "asking"} /\ run'[u].prompt = p)
    <3>1. CASE u = t
      <4>1. run'[u].phase = "working"
        BY <1>0, <1>2, <3>1, RunMoves DEF Moves
      <4> QED
        BY <4>1
    <3>2. CASE u # t
      <4>1. run'[u] = run[u]
        BY <1>0, <1>2, <3>2 DEF Load, RunInv
      <4>2. run[u].phase # "parking" /\ ~Settled(u)
        BY <2>1 DEF Idle, MidWrite
      <4>3. run[u].phase = "asking" /\ run[u].prompt = p => wait[p] = "answered"
        BY <1>0, <1>2 DEF AskInv, AskOf, HasQuestion
      <4> QED
        BY <4>1, <4>2, <4>3 DEF Settled
    <3> QED
      BY <3>1, <3>2
  <2>5. ~ToDeliver(p)'
    BY <2>3, <2>4 DEF ToDeliver
  <2>6. delivered'[p] <= boots' + faults'
    BY <1>0, <1>1, <1>2, <2>2 DEF DelivOf
  <2> QED
    BY <2>3, <2>5, <2>6 DEF DelivOf
<1>3. ASSUME NEW t \in Triggers, Take(t), run[t].prompt = p,
             delivered'[p] = delivered[p] + 1, UNCHANGED <<boots, faults, proc>>
      PROVE  DelivOf(p)'
  <2>1. run[t].phase = "asking" /\ proc # "down" /\ wait[p] = "answered"
    BY <1>3 DEF Take, Settled
  <2>2. ToDeliver(p)
    BY <1>3, <2>1 DEF ToDeliver
  <2>3. /\ prompt[p].status = "answered" /\ prompt[p].trigger \in {t, Null}
        /\ prompt' = prompt
    BY <1>0, <1>3, <2>1 DEF AskInv, AskOf, HasQuestion, Take, store
  <2>4. IF Keeps(t) THEN run'[t].phase = "working"
        ELSE run'[t].phase = "drained" /\ run'[t].prompt = p
    BY <1>0, <1>3, RunMoves DEF Moves
  <2>5. ASSUME NEW u \in Triggers PROVE ~(run'[u].phase \in {"parking", "asking"} /\ run'[u].prompt = p)
    <3>1. CASE u = t
      BY <2>4, <3>1
    <3>2. CASE u # t
      <4>1. run'[u] = run[u]
        BY <1>0, <1>3, <3>2 DEF Take, RunInv
      <4> QED
        BY <1>3, <2>1, <3>2, <4>1 DEF AskInv, HasQuestion
    <3> QED
      BY <3>1, <3>2
  <2>6. ~ToDeliver(p)'
    <3>1. proc = "up" => ~Keeps(t)
      BY DEF Keeps
    <3> QED
      BY <1>3, <2>3, <2>4, <2>5, <3>1 DEF ToDeliver
  <2>7. delivered'[p] <= boots' + faults'
    BY <1>0, <1>1, <1>3, <2>2 DEF DelivOf
  <2> QED
    BY <2>3, <2>6, <2>7 DEF DelivOf
<1>4. CASE delivered'[p] = delivered[p] /\ boots + faults < boots' + faults'
  <2>1. prompt'[p].status = "absent" => prompt[p].status = "absent"
    BY <1>0, RowsKept
  <2> QED
    BY <1>0, <1>1, <1>4, <2>1 DEF DelivOf
<1>5. CASE delivered'[p] = delivered[p] /\ boots' = boots /\ faults' = faults
  <2>1. prompt'[p].status = "absent" => prompt[p].status = "absent"
    BY <1>0, RowsKept
  <2>2. CASE \E t \in Triggers : Ask(t, p)
    <3>1. PICK t \in Triggers : Ask(t, p)
      BY <2>2
    <3>2. PICK s \in Sessions : Store!Insert(p, s, FALSE, t, "owner")
      BY <3>1 DEF Ask
    <3>3. prompt[p].status = "absent" /\ proc # "down"
      BY <1>0, <3>1, <3>2, InsertEffect DEF Ask, Turn
    <3>4. delivered[p] = 0 /\ boots > 0
      BY <1>0, <3>3 DEF DelivOf, ProcInv
    <3> QED
      BY <1>1, <1>5, <3>4 DEF DelivOf
  <2>3. CASE ~\E t \in Triggers : Ask(t, p)
    <3>1. proc' = "up" => proc = "up"
      <4>1. Boot => boots' # boots
        BY <1>1 DEF Boot
      <4>2. Exit => proc' = "down"
        BY DEF Exit
      <4> QED
        BY <1>5, <4>1, <4>2, NextProc
    <3>2. ASSUME NEW t \in Triggers, run'[t].phase \in {"parking", "asking"}, run'[t].prompt = p
          PROVE  ToDeliver(p)
      <4>1. run[t].phase \in HasQuestion /\ run[t].prompt = p
        BY <2>3, <3>2, RunFrom DEF HasQuestion
      <4>2. run[t].phase \in {"parking", "asking"}
        BY <2>3, <3>2, RunFrom DEF Park
      <4> QED
        BY <4>1, <4>2 DEF ToDeliver
    <3>3. ASSUME proc' = "up", prompt'[p].status = "pending", prompt'[p].trigger # Null
          PROVE  ToDeliver(p)
      BY <1>0, <2>3, <3>1, <3>3, RowsKept DEF ToDeliver
    <3>4. ASSUME prompt'[p].status = "answered", prompt'[p].trigger # Null,
                 \/ /\ proc' = "up"
                    /\ ~(run'[prompt'[p].trigger].phase = "drained" /\ run'[prompt'[p].trigger].prompt = p)
                 \/ proc' = "draining" /\ run'[prompt'[p].trigger].phase = "starting"
          PROVE  ToDeliver(p)
      <4>1. CASE Answer(p)
        <5>1. /\ Store!Answer(p) /\ proc = "up"
          BY <4>1 DEF Answer, Serving
        <5>2. prompt[p].status = "pending" /\ prompt'[p].trigger = prompt[p].trigger
          BY <1>0, <5>1, AnswerEffect
        <5> QED
          BY <3>4, <5>1, <5>2 DEF ToDeliver
      <4>2. CASE prompt[p].status = "answered"
        <5> DEFINE t == prompt[p].trigger
        <5>1. prompt'[p].trigger = t /\ t \in Triggers
          BY <1>0, <3>4, <4>2, RowsKept DEF Store!TypeOK, Store!Row
        <5>2. ASSUME proc' = "up", run[t].phase = "drained", run[t].prompt = p
              PROVE  run'[t] = run[t]
          <6>1. ~Exit
            BY <5>2 DEF Exit
          <6>2. ~Detach(t)
            <7>1. ASSUME Detach(t) PROVE FALSE
              <8>1. \/ Store!ReleaseTrigger(p)
                    \/ p \in Store!Pending \/ prompt[p].trigger = Null
                    \/ faults' = faults + 1
                BY <5>2, <7>1 DEF Detach, Fault
              <8>2. ~Store!ReleaseTrigger(p)
                BY <1>0, <3>4, <5>1, ReleaseEffect DEF LetsGo
              <8> QED
                BY <1>1, <1>5, <3>4, <4>2, <5>1, <8>1, <8>2 DEF Store!Pending
            <7> QED
              BY <7>1
          <6> QED
            BY <5>1, <5>2, <6>1, <6>2, RunFrom
        <5>3. CASE proc' = "up" /\ ~(run'[t].phase = "drained" /\ run'[t].prompt = p)
          BY <3>1, <3>4, <4>2, <5>1, <5>2, <5>3 DEF ToDeliver
        <5>4. CASE proc' = "draining" /\ run'[t].phase = "starting"
          <6>1. proc = "draining" \/ proc = "up"
            BY <5>4, NextProc DEF Exit, Boot
          <6>2. run[t].phase = "starting" \/ proc = "up"
            BY <5>1, <5>4, RunFrom
          <6>3. proc = "up" => run[t].phase # "drained"
            <7>1. CASE run[t].phase = "starting"
              BY <7>1
            <7>2. CASE Dispatch(t) \/ RunTriggerNow(t)
              BY <7>2 DEF Dispatch, RunTriggerNow
            <7> QED
              BY <5>1, <5>4, <7>1, <7>2, RunFrom
          <6> QED
            BY <3>4, <4>2, <5>1, <6>1, <6>2, <6>3 DEF ToDeliver
        <5> QED
          BY <3>4, <5>1, <5>3, <5>4
      <4> QED
        BY <1>0, <3>4, <4>1, <4>2, RowsKept
    <3>5. ToDeliver(p)' => ToDeliver(p)
      BY <3>2, <3>3, <3>4 DEF ToDeliver
    <3> QED
      BY <1>0, <1>1, <1>5, <2>1, <3>5 DEF DelivOf
  <2> QED
    BY <2>2, <2>3
<1>6. boots + faults < boots' + faults' \/ (boots' = boots /\ faults' = faults)
  <2>1. \A a, b, c, d \in Nat : a <= c /\ b <= d => a + b < c + d \/ (c = a /\ d = b)
    OBVIOUS
  <2> QED
    BY <1>1, <2>1
<1> QED
  BY <1>2, <1>3, <1>4, <1>5, <1>6, NextDelivered

\* The two invariants, in every state.
LEMMA AsksAndDeliveries == Spec => [](Base /\ AskInv /\ DelivInv)
BY BaseInit, BaseStep, DelivInit, AskStep, DelivStep, PTL DEF Spec

\* An answer is handed to a run at most once by each process and once more for
\* each failed write, for any number of triggers, questions, processes and
\* faults: no answer that was acted on is replayed into later runs.
THEOREM DeliveredOncePerProcessCorrect == Spec => []DeliveredOncePerProcess
<1>1. DelivInv => DeliveredOncePerProcess
  BY DEF DelivInv, DelivOf, DeliveredOncePerProcess
<1> QED
  BY <1>1, AsksAndDeliveries, PTL

\* Letting go of an answer, one step.
LEMMA LettingGo ==
    ASSUME Base, AskInv, [Next]_vars, NEW p \in Prompts,
           prompt[p].status = "answered", prompt[p].trigger # Null, prompt'[p].trigger = Null
    PROVE  \/ delivered'[p] > 0 \/ prompt[p].expiresAt <= now
           \/ Refused(prompt[p].trigger)
<1>0. StoreOK /\ Grows /\ delivered[p] \in Nat /\ delivered'[p] \in Nat
  BY NextStore, RestStep DEF Base, RestTyped, TypeOK
<1>1. MayLetGo(p)
  BY <1>0 DEF StoreOK, RowStep, SameRow, Closes, Answered, Asked
<1>2. CASE Store!Lapsed(p)
  BY <1>2 DEF Store!Lapsed
<1>3. CASE \E t \in Triggers : run[t].phase = "drained" /\ run[t].prompt = p
  <2>1. delivered[p] > 0
    BY <1>3 DEF AskInv, AskOf, HasQuestion
  <2> QED
    BY <1>0, <2>1 DEF Grows
<1>4. CASE delivered'[p] = delivered[p] + 1
  BY <1>0, <1>4
<1> QED
  BY <1>1, <1>2, <1>3, <1>4 DEF MayLetGo

\* A trigger lets go of an answer only when a run got it, its time is over, or
\* the run that came for it is refused the thread to put it in and fails,
\* whatever sweeps, stops, restarts and starts by hand come in between.
THEOREM AnswerNotThrownAwayCorrect == Spec => AnswerNotThrownAway
<1> DEFINE Kept == \A p \in Prompts :
                      prompt[p].status = "answered" /\ prompt[p].trigger # Null
                          /\ prompt'[p].trigger = Null
                      => \/ delivered'[p] > 0 \/ prompt[p].expiresAt <= now
                         \/ Refused(prompt[p].trigger)
<1>1. Base /\ AskInv /\ [Next]_vars => [Kept]_vars
  BY LettingGo
<1> QED
  BY <1>1, AsksAndDeliveries, PTL DEF Spec, AnswerNotThrownAway

\* A question while its process goes down, or is down.
LEMMA KeptOnTheWayDown ==
    ASSUME Base, AskInv, [Next]_vars, NEW p \in Prompts,
           proc # "up", prompt[p].status = "pending", prompt[p].trigger # Null,
           ~(run[prompt[p].trigger].prompt = p /\ run[prompt[p].trigger].stopReq)
    PROVE  prompt'[p].trigger = prompt[p].trigger /\ prompt'[p].status = "pending"
<1> DEFINE t == prompt[p].trigger
           Goal == prompt'[p].trigger = prompt[p].trigger /\ prompt'[p].status = "pending"
<1>0. /\ TypeOK /\ RunInv /\ ProcInv /\ Store!TypeOK
      /\ t \in Triggers
  BY DEF Base, TypeOK, Store!TypeOK, Store!Row
<1>1. CASE UNCHANGED store
  BY <1>1 DEF store
<1>2. ASSUME NEW q \in Prompts, Store!ReleaseTrigger(q) PROVE Goal
  <2>1. LetsGo(q) /\ \A x \in Prompts \ {q} : SameRow(x)
    BY <1>0, <1>2, ReleaseEffect
  <2> QED
    BY <2>1 DEF LetsGo, SameRow
<1>3. ASSUME NEW u \in Triggers, Load(u) \/ LoadRefused(u) PROVE Goal
  BY <1>1, <1>2, <1>3 DEF Load, LoadRefused, Store!AnsweredFor
<1>4. ASSUME NEW u \in Triggers, Detach(u) PROVE Goal
  BY <1>0, <1>1, <1>2, <1>4 DEF Detach, RunInv, HasQuestion
<1>5. ASSUME NEW u \in Triggers, Drain(u) PROVE Goal
  <2>1. /\ run[u].phase = "asking" /\ proc = "draining" /\ run[u].prompt \in Prompts
    BY <1>0, <1>5 DEF Drain, Settled, TypeOK, RunInv, HasQuestion
  <2>2. CASE Store!ExpirePrompt(run[u].prompt, "run_stopped") /\ ~Keeps(u)
    <3> DEFINE ps == {run[u].prompt}
    <3>1. ps \in SUBSET Store!Pending /\ Store!CloseAndWake(ps, "run_stopped")
          /\ UNCHANGED <<live, now>>
      BY <2>2 DEF Store!ExpirePrompt
    <3>2. p \notin ps
      <4>1. run[u].prompt = p => u = t
        BY <1>0, <2>1 DEF AskInv, AskOf, HasQuestion
      <4>2. run[u].stopReq
        BY <2>1, <2>2 DEF Keeps
      <4> QED
        BY <4>1, <4>2
    <3> HIDE DEF ps
    <3>3. SameRow(p)
      BY <1>0, <3>1, <3>2, CloseEffect, KnownReasons
    <3> QED
      BY <3>3 DEF SameRow
  <2> QED
    BY <1>1, <1>5, <2>2 DEF Drain, store
<1>6. CASE Boot
  <2>1. Store!Boot
    BY <1>6 DEF Boot
  <2>2. SameRow(p)
    BY <1>0, <2>1, BootEffect
  <2> QED
    BY <2>2 DEF SameRow
<1>7. ASSUME NEW u \in Triggers
      PROVE  /\ ~ReArm(u) /\ ~Sweep(u) /\ ~Dispatch(u) /\ ~RunTriggerNow(u)
             /\ ~StopTask(u) /\ ~ToolTimeout(u) /\ ~Park(u)
             /\ \A q \in Prompts : ~Ask(u, q)
  BY <1>0 DEF ReArm, Sweep, Dispatch, RunTriggerNow, StopTask, ToolTimeout, Park, Ask, Serving,
              ProcInv, ProcOf, Turn, Aborted, TypeOK
<1>8. ~Stop /\ ~ExpireOld /\ \A q \in Prompts : ~Answer(q) /\ ~Timer(q)
  BY DEF Stop, ExpireOld, Answer, Timer, Serving
<1>9. CASE Advance
  BY <1>9 DEF Advance, Store!Advance
<1>10. ASSUME \/ \E u \in Triggers :
                    \/ ReArmDue(u) \/ SweepEnd(u) \/ SweepRecord(u)
                    \/ AskRefused(u) \/ Take(u) \/ Unpark(u)
                    \/ LeaseLapses(u) \/ Occur(u)
              \/ \E u \in Triggers, o \in {"success", "failed", "stopped"} : EndRun(u, o)
              \/ \E u \in Triggers, st \in {"open", "completed"} : SetStatus(u, st)
              \/ Exit
              \/ UNCHANGED vars
       PROVE  UNCHANGED store
  BY <1>10
  DEF ReArmDue, SweepEnd, SweepRecord, AskRefused, Take, Unpark,
      LeaseLapses, Occur, EndRun, SetStatus, Exit, vars
<1> QED
  BY <1>1, <1>3, <1>4, <1>5, <1>6, <1>7, <1>8, <1>9, <1>10 DEF Next

\* A shutdown is not an end of the wait, whoever else is asking at the time.
THEOREM ShutdownKeepsQuestionCorrect == Spec => ShutdownKeepsQuestion
<1> DEFINE Kept == \A p \in Prompts :
                      LET t == prompt[p].trigger
                      IN proc # "up" /\ p \in Store!Pending /\ t # Null /\ faults = 0
                             /\ ~(run[t].prompt = p /\ run[t].stopReq)
                         => prompt'[p].trigger = t /\ prompt'[p].status = "pending"
<1>1. ASSUME Base, AskInv, [Next]_vars PROVE [Kept]_vars
  <2>1. Kept
    BY <1>1, KeptOnTheWayDown DEF Store!Pending
  <2> QED
    BY <2>1
<1>2. Base /\ AskInv /\ [Next]_vars => [Kept]_vars
  BY <1>1
<1> QED
  BY <1>2, AsksAndDeliveries, PTL DEF Spec, ShutdownKeepsQuestion

-----------------------------------------------------------------------------
(* The questions of a trigger.                                             *)

\* The open or answered questions that point at a trigger, but for the ones
\* the owner's own writes left behind.
Attached(t) ==
    {p \in Prompts : /\ prompt[p].trigger = t
                     /\ prompt[p].status \in {"pending", "answered"}
                     /\ p \notin orphaned[t]}

Open(t) == {p \in Attached(t) : prompt[p].status = "pending"}

\* No write failed, and no question the owner left behind was answered.
Clean(t) == faults = 0 /\ ~StrayAnswer(t)

\* A trigger has at most one question, the one its run is busy with or, between
\* runs, the one it is parked on.
Audience(t) ==
    /\ \A p, q \in Attached(t) : p = q
    /\ run[t].phase \in {"starting", "refused"} => Open(t) = {}
    /\ run[t].phase = "working" /\ (proc = "up" \/ run[t].stopReq) => Attached(t) = {}
    /\ run[t].phase \in {"parking", "asking", "drained"} => Attached(t) \subseteq {run[t].prompt}
    /\ run[t].phase = "drained" => Open(t) = {}
    /\ run[t].phase = "detached" => Attached(t) = {}
    /\ tick[t] \in {"sweep", "record"} => Open(t) = {}
    /\ run[t].phase # "parking" =>
          \A p \in Open(t) : trig[t].status = "waiting" /\ trig[t].until = prompt[p].expiresAt

AudInv == \A t \in Triggers : Clean(t) => Audience(t)

\* What is stray stays stray.
LEMMA CleanBefore ==
    ASSUME Base, [Next]_vars, NEW t \in Triggers, Clean(t)'
    PROVE  Clean(t) /\ faults' = faults
<1>0. /\ StoreOK /\ Grows /\ faults \in Nat /\ faults' = 0 /\ orphaned[t] \in SUBSET Prompts
  BY NextStore, RestStep DEF Base, TypeOK, Clean
<1>1. faults = 0
  BY <1>0, DurableWaitAssumption DEF Grows
<1>2. ASSUME NEW q \in orphaned[t], prompt[q].status = "answered" PROVE StrayAnswer(t)'
  <2>1. q \in orphaned'[t] /\ prompt'[q].status = "answered"
    BY <1>0, <1>2, RowsKept DEF Grows
  <2> QED
    BY <2>1 DEF StrayAnswer
<1> QED
  BY <1>0, <1>1, <1>2 DEF Clean, StrayAnswer

\* Only a run's own asking gives a trigger a question.
LEMMA Shrinks ==
    ASSUME Base, [Next]_vars, NEW t \in Triggers, \A p \in Prompts : ~Ask(t, p)
    PROVE  /\ Attached(t)' \subseteq Attached(t)
           /\ Open(t)' \subseteq Open(t)
           /\ \A p \in Open(t)' : prompt'[p].expiresAt = prompt[p].expiresAt
<1>0. /\ StoreOK /\ Grows /\ Store!TypeOK
  BY NextStore, RestStep DEF Base, TypeOK
<1>1. ASSUME NEW p \in Prompts, NEW u \in Triggers, Ask(u, p)
      PROVE  prompt'[p].trigger = u
  <2>1. PICK s \in Sessions : Store!Insert(p, s, FALSE, u, "owner")
    BY <1>1 DEF Ask
  <2> QED
    BY <1>0, <2>1, InsertEffect
<1>2. ASSUME NEW p \in Attached(t)'
      PROVE  /\ p \in Attached(t) /\ prompt'[p].expiresAt = prompt[p].expiresAt
             /\ prompt'[p].status = "pending" => prompt[p].status = "pending"
  <2>1. /\ p \in Prompts /\ prompt'[p].trigger = t
        /\ prompt'[p].status \in {"pending", "answered"} /\ p \notin orphaned'[t]
    BY DEF Attached
  <2>2. p \notin orphaned[t] /\ t # Null
    BY <1>0, <2>1, DurableWaitAssumption DEF Grows
  <2>3. SameRow(p) \/ Answered(p)
    <3>1. ~Closes(p) /\ ~LetsGo(p)
      BY <2>1, <2>2 DEF Closes, LetsGo
    <3>2. ~\E u \in Triggers : Ask(u, p)
      BY <1>1, <2>1
    <3> QED
      BY <1>0, <2>1, <3>1, <3>2 DEF StoreOK, RowStep
  <2> QED
    BY <2>1, <2>2, <2>3 DEF SameRow, Answered, Attached
<1> QED
  BY <1>2 DEF Open

\* A step that leaves the trigger, its run and its tick where they are.
LEMMA AudienceKept ==
    ASSUME NEW t \in Triggers, Audience(t),
           Attached(t)' \subseteq Attached(t), Open(t)' \subseteq Open(t),
           \A p \in Open(t)' : prompt'[p].expiresAt = prompt[p].expiresAt,
           run'[t].phase = run[t].phase, run'[t].prompt = run[t].prompt,
           tick'[t] \in {tick[t], "none", "rearm"},
           SameWait(trig[t], trig'[t]),
           run[t].phase = "working" /\ (proc' = "up" \/ run'[t].stopReq) => proc = "up" \/ run[t].stopReq
    PROVE  Audience(t)'
<1>1. /\ \A p, q \in Attached(t)' : p = q
      /\ run'[t].phase \in {"starting", "refused"} => Open(t)' = {}
      /\ run'[t].phase = "working" /\ (proc' = "up" \/ run'[t].stopReq) => Attached(t)' = {}
      /\ run'[t].phase \in {"parking", "asking", "drained"} => Attached(t)' \subseteq {run'[t].prompt}
      /\ run'[t].phase = "drained" => Open(t)' = {}
      /\ run'[t].phase = "detached" => Attached(t)' = {}
  BY DEF Audience
<1>2. tick'[t] \in {"sweep", "record"} => Open(t)' = {}
  BY DEF Audience
<1>3. run'[t].phase # "parking" =>
         \A p \in Open(t)' : trig'[t].status = "waiting" /\ trig'[t].until = prompt'[p].expiresAt
  BY DEF Audience, SameWait
<1> QED
  BY <1>1, <1>2, <1>3 DEF Audience

\* An answer that is found for a trigger is its question's.
LEMMA FoundAnswer ==
    ASSUME NEW t \in Triggers, Clean(t), NEW q \in Store!AnsweredFor(t)
    PROVE  q \in Attached(t) /\ q \notin Open(t)
BY DEF Store!AnsweredFor, Clean, StrayAnswer, Attached, Open

\* A step after which no question of the trigger is open.
LEMMA NoOpenQuestion ==
    ASSUME NEW t \in Triggers, Audience(t), Attached(t)' \subseteq Attached(t), Open(t)' = {},
           run'[t].phase = "working" /\ (proc' = "up" \/ run'[t].stopReq) => Attached(t)' = {},
           run'[t].phase \in {"parking", "asking", "drained"} => Attached(t)' \subseteq {run'[t].prompt},
           run'[t].phase = "detached" => Attached(t)' = {}
    PROVE  Audience(t)'
BY DEF Audience

\* A trigger without an open question needs no audience.
LEMMA NoOpenSameRun ==
    ASSUME NEW t \in Triggers, Audience(t), Attached(t)' \subseteq Attached(t), Open(t)' = {},
           run'[t] = run[t], proc' = proc
    PROVE  Audience(t)'
BY DEF Audience

\* The ticks of a trigger and what starts its runs.
LEMMA AudienceTick ==
    ASSUME Base, NEW t \in Triggers, Clean(t), faults' = faults, Audience(t),
           Attached(t)' \subseteq Attached(t), Open(t)' \subseteq Open(t),
           \A p \in Open(t)' : prompt'[p].expiresAt = prompt[p].expiresAt,
           \/ ReArm(t) \/ ReArmDue(t) \/ Sweep(t) \/ SweepEnd(t) \/ SweepRecord(t)
           \/ Dispatch(t) \/ RunTriggerNow(t)
    PROVE  Audience(t)'
<1>0. TypeOK /\ RunInv /\ Store!TypeOK /\ trig \in [Triggers -> Row] /\ trig[t] \in Row
      /\ tick \in [Triggers -> {"none", "rearm", "sweep", "record"}] /\ faults = 0
  BY DEF Base, TypeOK, Clean
<1>1. CASE ReArm(t)
  <2>1. run' = run /\ proc' = proc
    BY <1>1 DEF ReArm
  <2>2. PICK q : q \in Store!AnsweredFor(t)
    BY <1>1 DEF ReArm
  <2>3. q \in Attached(t) /\ q \notin Open(t)
    BY <2>2, FoundAnswer
  <2>4. Open(t) = {}
    BY <2>3 DEF Open, Audience
  <2> QED
    BY <2>1, <2>4, NoOpenSameRun
<1>2. CASE ReArmDue(t)
  <2>1. run' = run /\ proc' = proc /\ tick' = [tick EXCEPT ![t] = "none"]
        /\ (trig' = trig \/ trig' = [trig EXCEPT ![t] = Scheduled(trig[t], "due")])
    BY <1>2 DEF ReArmDue
  <2>2. SameWait(trig[t], Scheduled(trig[t], "due"))
    BY <1>0, ScheduledRow
  <2>3. SameWait(trig[t], trig'[t])
    BY <1>0, <2>1, <2>2 DEF SameWait
  <2>4. tick'[t] = "none"
    BY <1>0, <2>1
  <2> QED
    BY <2>1, <2>3, <2>4, AudienceKept
<1>3. ASSUME NEW r \in Reasons, Store!ExpirePendingForTrigger(t, r) PROVE Open(t)' = {}
  <2>1. Store!PendingFor(t) \in SUBSET Store!Pending
    BY DEF Store!PendingFor
  <2>2. \A q \in Store!PendingFor(t) : Closes(q)
    BY <1>0, <1>3, <2>1, CloseEffect DEF Store!ExpirePendingForTrigger
  <2>3. ASSUME NEW p \in Open(t)' PROVE FALSE
    <3>1. p \in Store!PendingFor(t)
      BY DEF Open, Attached, Store!PendingFor, Store!Pending
    <3>2. prompt'[p].status = "pending"
      BY DEF Open
    <3> QED
      BY <2>2, <3>1, <3>2 DEF Closes
  <2> QED
    BY <2>3
<1>4. CASE Sweep(t)
  <2>1. run' = run /\ proc' = proc /\ Store!ExpirePendingForTrigger(t, "timed_out")
    BY <1>0, <1>4 DEF Sweep, Fault
  <2>2. Open(t)' = {}
    BY <1>3, <2>1, KnownReasons
  <2> QED
    BY <2>1, <2>2, NoOpenSameRun
<1>5. CASE SweepEnd(t) \/ SweepRecord(t)
  <2>1. run' = run /\ proc' = proc /\ tick[t] \in {"sweep", "record"}
    BY <1>5 DEF SweepEnd, SweepRecord
  <2>2. Open(t)' = {}
    BY <2>1 DEF Audience
  <2> QED
    BY <2>1, <2>2, NoOpenSameRun
<1>6. CASE Dispatch(t)
  <2>1. run[t].phase = "none" /\ trig[t].status # "waiting"
    BY <1>6 DEF Dispatch, Due, Armed
  <2>2. Open(t)' = {}
    BY <2>1 DEF Audience
  <2>3. run'[t].phase \in {"none", "starting"}
    BY <1>0, <1>6, <2>1, RunMoves DEF Moves
  <2> QED
    BY <2>2, <2>3, NoOpenQuestion
<1>7. CASE RunTriggerNow(t)
  <2>1. run[t].phase = "none"
    BY <1>7 DEF RunTriggerNow
  <2>2. Open(t)' = {}
    <3>1. CASE Store!PendingFor(t) = {}
      BY <3>1 DEF Open, Attached, Store!PendingFor, Store!Pending
    <3>2. CASE Store!ExpirePendingForTrigger(t, "plan_ended")
      BY <1>3, <3>2, KnownReasons
    <3> QED
      BY <1>7, <3>1, <3>2 DEF RunTriggerNow
  <2>3. run'[t].phase \in {"none", "starting"}
    BY <1>0, <1>7, <2>1, RunMoves DEF Moves
  <2> QED
    BY <2>2, <2>3, NoOpenQuestion
<1> QED
  BY <1>1, <1>2, <1>4, <1>5, <1>6, <1>7

\* The steps of a run.
LEMMA AudienceRun ==
    ASSUME Base, AskInv, NEW t \in Triggers, Clean(t), faults' = faults, Audience(t),
           Attached(t)' \subseteq Attached(t), Open(t)' \subseteq Open(t),
           \A p \in Open(t)' : prompt'[p].expiresAt = prompt[p].expiresAt,
           \/ Load(t) \/ LoadRefused(t) \/ AskRefused(t) \/ Park(t) \/ Drain(t) \/ Take(t) \/ Detach(t)
           \/ Unpark(t) \/ \E o \in {"success", "failed", "stopped"} : EndRun(t, o)
    PROVE  Audience(t)'
<1>0. /\ TypeOK /\ RunInv /\ Store!TypeOK /\ trig \in [Triggers -> Row] /\ trig[t] \in Row
      /\ run[t].stopReq \in BOOLEAN /\ faults = 0 /\ faults \in Nat
      /\ run[t].phase \in HasQuestion => run[t].prompt \in Prompts
  BY DEF Base, TypeOK, RunInv, Run, Clean
<1>1. CASE Load(t)
  <2>1. run[t].phase = "starting" /\ run'[t].phase = "working" /\ Open(t) = {}
    BY <1>0, <1>1, RunMoves DEF Load, Moves, Audience
  <2>2. Attached(t)' = {}
    <3>1. CASE Store!AnsweredFor(t) = {}
      BY <2>1, <3>1 DEF Attached, Open, Store!AnsweredFor
    <3>2. ASSUME NEW p \in Store!AnsweredFor(t), Store!ReleaseTrigger(p) PROVE Attached(t)' = {}
      <4>1. p \in Prompts /\ p \in Attached(t)
        BY FoundAnswer DEF Store!AnsweredFor
      <4>2. prompt'[p].trigger = Null
        BY <1>0, <3>2, <4>1, ReleaseEffect DEF LetsGo
      <4>3. p \notin Attached(t)'
        BY <4>2, DurableWaitAssumption DEF Attached
      <4> QED
        BY <4>1, <4>3 DEF Audience
    <3> QED
      BY <1>1, <3>1, <3>2 DEF Load
  <2>3. Open(t)' = {}
    BY <2>1
  <2> QED
    BY <2>1, <2>2, <2>3, NoOpenQuestion
<1>9. CASE LoadRefused(t)
  <2>1. run[t].phase = "starting" /\ run'[t].phase = "refused"
    BY <1>0, <1>9, RunMoves DEF LoadRefused, Moves
  <2>2. Open(t)' = {}
    BY <2>1 DEF Audience
  <2> QED
    BY <2>1, <2>2, NoOpenQuestion
<1>2. CASE AskRefused(t)
  <2>1. UNCHANGED <<trig, tick, proc>> /\ Moves(t, run[t].phase, run[t].prompt, run[t].stopReq)
    BY <1>0, <1>2, RunMoves DEF AskRefused
  <2> QED
    BY <2>1, AudienceKept DEF Moves, SameWait
<1>3. CASE Park(t)
  <2> DEFINE p == run[t].prompt
  <2>1. /\ run[t].phase = "parking" /\ tick' = tick
        /\ trig' = [trig EXCEPT ![t].status = "waiting", ![t].until = prompt[p].expiresAt]
    BY <1>0, <1>3 DEF Park, Fault
  <2>2. Moves(t, "asking", p, run[t].stopReq) /\ p \in Prompts
    BY <1>0, <1>3, <2>1, RunMoves DEF HasQuestion
  <2>3. Attached(t)' \subseteq {p} /\ Open(t)' \subseteq Attached(t)'
    BY <2>1 DEF Audience, Open
  <2>4. trig'[t].status = "waiting" /\ trig'[t].until = prompt[p].expiresAt
    BY <1>0, <2>1 DEF Row
  <2>5. \A q \in Open(t)' : trig'[t].status = "waiting" /\ trig'[t].until = prompt'[q].expiresAt
    BY <2>3, <2>4
  <2>6. tick'[t] \in {"sweep", "record"} => Open(t)' = {}
    BY <2>1 DEF Audience
  <2> HIDE DEF p
  <2> QED
    BY <2>2, <2>3, <2>5, <2>6 DEF Moves, Audience
<1>4. CASE (Drain(t) \/ Take(t)) /\ Keeps(t)
  <2>1. /\ UNCHANGED <<trig, tick, proc>> /\ run[t].phase = "asking" /\ proc = "draining"
        /\ ~run[t].stopReq /\ Moves(t, "working", Null, run[t].stopReq)
    BY <1>0, <1>4, RunMoves DEF Drain, Take, Keeps, Settled
  <2>2. \A q \in Open(t)' : trig'[t].status = "waiting" /\ trig'[t].until = prompt'[q].expiresAt
    BY <2>1 DEF Audience
  <2>3. /\ \A p, q \in Attached(t)' : p = q
        /\ tick'[t] \in {"sweep", "record"} => Open(t)' = {}
    BY <2>1 DEF Audience
  <2> QED
    BY <2>1, <2>2, <2>3 DEF Moves, Audience
<1>5. CASE (Drain(t) \/ Take(t)) /\ ~Keeps(t)
  <2> DEFINE p == run[t].prompt
  <2>1. run[t].phase = "asking" /\ Moves(t, "drained", p, run[t].stopReq) /\ p \in Prompts
    BY <1>0, <1>5, RunMoves DEF Drain, Take, Settled, HasQuestion
  <2>2. Attached(t)' \subseteq {p} /\ Attached(t) \subseteq {p}
    BY <2>1 DEF Audience
  <2>3. prompt'[p].status # "pending" \/ prompt[p].status # "pending"
    <3>1. CASE Drain(t)
      <4>1. CASE Store!ExpirePrompt(p, "run_stopped")
        <5> DEFINE ps == {p}
        <5>1. ps \in SUBSET Store!Pending /\ Store!CloseAndWake(ps, "run_stopped")
              /\ UNCHANGED <<live, now>> /\ p \in ps
          BY <4>1 DEF Store!ExpirePrompt
        <5> HIDE DEF ps
        <5>2. Closes(p)
          BY <1>0, <5>1, CloseEffect, KnownReasons
        <5> QED
          BY <5>2 DEF Closes
      <4>2. CASE p \notin Store!Pending
        BY <2>1, <4>2 DEF Store!Pending
      <4> QED
        BY <1>0, <1>5, <3>1, <4>1, <4>2 DEF Drain, Fault
    <3>2. CASE Take(t)
      BY <2>1, <3>2 DEF Take, AskInv
    <3> QED
      BY <1>5, <3>1, <3>2
  <2>4. Open(t)' = {}
    BY <2>2, <2>3 DEF Open
  <2> HIDE DEF p
  <2> QED
    BY <2>1, <2>2, <2>4, NoOpenQuestion DEF Moves
<1>6. CASE Detach(t)
  <2> DEFINE p == run[t].prompt
  <2>1. run[t].phase = "drained" /\ Moves(t, "detached", p, run[t].stopReq) /\ p \in Prompts
    BY <1>0, <1>6, RunMoves DEF Detach, HasQuestion
  <2>2. Attached(t) \subseteq {p} /\ Open(t) = {}
    BY <2>1 DEF Audience
  <2>3. p \notin Attached(t)'
    <3>1. CASE Store!ReleaseTrigger(p)
      <4>1. prompt'[p].trigger = Null
        BY <1>0, <2>1, <3>1, ReleaseEffect DEF LetsGo
      <4> QED
        BY <4>1, DurableWaitAssumption DEF Attached
    <3>2. CASE p \in Store!Pending
      BY <2>2, <3>2 DEF Open, Attached, Store!Pending
    <3>3. CASE prompt[p].trigger = Null
      BY <3>3, DurableWaitAssumption DEF Attached
    <3> QED
      BY <1>0, <1>6, <3>1, <3>2, <3>3 DEF Detach, Fault
  <2>4. Attached(t)' = {} /\ Open(t)' = {}
    BY <2>2, <2>3
  <2> QED
    BY <2>1, <2>4, NoOpenQuestion DEF Moves
<1>7. CASE Unpark(t)
  <2>1. run[t].phase = "detached" /\ run'[t].phase = "working"
    BY <1>0, <1>7, RunMoves DEF Unpark, Moves
  <2>2. Attached(t)' = {} /\ Open(t)' = {}
    BY <2>1 DEF Audience, Open
  <2> QED
    BY <2>1, <2>2, NoOpenQuestion
<1>8. ASSUME NEW o \in {"success", "failed", "stopped"}, EndRun(t, o) PROVE Audience(t)'
  <2> DEFINE c == t \in cron
             x == Recorded(trig[t], c, o)
  <2>0. tick' = tick /\ trig' = [trig EXCEPT ![t] = Released(x)] /\ c \in BOOLEAN
    BY <1>8 DEF EndRun
  <2>1. run'[t].phase = "none" /\ run[t].phase \in {"working", "starting", "refused"}
    BY <1>0, <1>8, RunMoves DEF EndRun, Moves
  <2> HIDE DEF c
  <2>2. x \in Row /\ KeepsWait(trig[t], x)
    BY <1>0, <2>0, RecordedRow
  <2> HIDE DEF x
  <2>3. SameWait(x, Released(x)) /\ trig'[t] = Released(x)
    BY <1>0, <2>0, <2>2, ReleasedRow
  <2>4. \A q \in Open(t)' : trig'[t].status = "waiting" /\ trig'[t].until = prompt'[q].expiresAt
    BY <2>1, <2>2, <2>3 DEF Audience, KeepsWait, SameWait
  <2>5. /\ \A p, q \in Attached(t)' : p = q
        /\ tick'[t] \in {"sweep", "record"} => Open(t)' = {}
    BY <2>0, <2>1 DEF Audience
  <2> QED
    BY <2>1, <2>4, <2>5 DEF Audience
<1> QED
  BY <1>1, <1>2, <1>3, <1>4, <1>5, <1>6, <1>7, <1>8, <1>9

\* No step leaves a trigger's open question without an audience.
LEMMA AudStep == Base /\ AskInv /\ AudInv /\ [Next]_vars => AudInv'
<1> SUFFICES ASSUME Base, AskInv, AudInv, [Next]_vars, NEW t \in Triggers, Clean(t)'
             PROVE  Audience(t)'
  BY DEF AudInv
<1>0. /\ Clean(t) /\ faults' = faults /\ Audience(t) /\ faults = 0
      /\ TypeOK /\ RunInv /\ ProcInv /\ Store!TypeOK /\ trig \in [Triggers -> Row] /\ trig[t] \in Row
  BY CleanBefore DEF AudInv, Base, TypeOK, Clean
<1>1. ASSUME NEW p \in Prompts, Ask(t, p) PROVE Audience(t)'
  <2>1. /\ run[t].phase = "working" /\ proc = "up" /\ tick' = tick /\ orphaned' = orphaned
    BY <1>0, <1>1 DEF Ask, Turn, Aborted, TypeOK, history
  <2>2. Attached(t) = {} /\ Moves(t, "parking", p, run[t].stopReq) /\ tick[t] \notin {"sweep", "record"}
    <3>1. Idle
      BY <1>1 DEF Ask, Turn
    <3> QED
      BY <1>0, <1>1, <2>1, <3>1, RunMoves DEF Audience, Idle, MidWrite
  <2>3. PICK s \in Sessions : Store!Insert(p, s, FALSE, t, "owner")
    BY <1>1 DEF Ask
  <2>4. \A q \in Prompts \ {p} : SameRow(q) \/ Closes(q)
    BY <1>0, <2>3, InsertEffect
  <2>5. Attached(t)' \subseteq {p}
    <3> SUFFICES ASSUME NEW q \in Attached(t)', q # p PROVE FALSE
      OBVIOUS
    <3>1. q \in Prompts \ {p} /\ prompt'[q].status \in {"pending", "answered"}
          /\ prompt'[q].trigger = t /\ q \notin orphaned[t]
      BY <2>1 DEF Attached
    <3>2. q \in Attached(t)
      BY <2>4, <3>1 DEF SameRow, Closes, Attached
    <3> QED
      BY <2>2, <3>2
  <2> QED
    BY <2>1, <2>2, <2>5 DEF Moves, Audience
<1>2. CASE \A p \in Prompts : ~Ask(t, p)
  <2>0. /\ Attached(t)' \subseteq Attached(t) /\ Open(t)' \subseteq Open(t)
        /\ \A p \in Open(t)' : prompt'[p].expiresAt = prompt[p].expiresAt
    BY <1>2, Shrinks
  <2>1. CASE \/ ReArm(t) \/ ReArmDue(t) \/ Sweep(t) \/ SweepEnd(t) \/ SweepRecord(t)
             \/ Dispatch(t) \/ RunTriggerNow(t)
    BY <1>0, <2>0, <2>1, AudienceTick
  <2>2. CASE \/ Load(t) \/ LoadRefused(t) \/ AskRefused(t) \/ Park(t) \/ Drain(t) \/ Take(t) \/ Detach(t)
             \/ Unpark(t) \/ \E o \in {"success", "failed", "stopped"} : EndRun(t, o)
    BY <1>0, <2>0, <2>2, AudienceRun
  <2>3. CASE StopTask(t)
    <3>1. UNCHANGED <<trig, tick, proc>> /\ Moves(t, run[t].phase, run[t].prompt, TRUE)
          /\ run[t].phase \in {"working", "asking"} /\ proc = "up"
      BY <1>0, <2>3, RunMoves DEF StopTask, Serving
    <3> QED
      BY <1>0, <2>0, <3>1, AudienceKept DEF Moves, SameWait
  <2>4. CASE LeaseLapses(t) \/ Occur(t)
    <3>1. UNCHANGED <<run, tick, proc>> /\ SameWait(trig[t], trig'[t])
      BY <1>0, <2>4 DEF LeaseLapses, Occur, SameWait, Row
    <3> QED
      BY <1>0, <2>0, <3>1, AudienceKept
  <2>5. ASSUME NEW st \in {"open", "completed"}, SetStatus(t, st) PROVE Audience(t)'
    <3>1. run' = run /\ proc' = proc /\ orphaned' = [orphaned EXCEPT ![t] = @ \union Store!PendingFor(t)]
      BY <2>5 DEF SetStatus
    <3>2. ASSUME NEW p \in Open(t)' PROVE FALSE
      <4>1. p \in Store!PendingFor(t)
        BY <2>0 DEF Open, Attached, Store!PendingFor, Store!Pending
      <4>2. p \in orphaned'[t]
        BY <1>0, <3>1, <4>1 DEF TypeOK
      <4> QED
        BY <4>2 DEF Open, Attached
    <3> QED
      BY <1>0, <2>0, <3>1, <3>2, NoOpenSameRun
  <2>6. CASE Exit
    <3>1. ~MidWrite /\ trig' = trig
      BY <1>0, <2>6 DEF Exit, Fault
    <3>2. run[t].phase # "parking"
      BY <3>1 DEF MidWrite
    <3>3. run'[t].phase = "none" /\ tick'[t] = "none"
      BY <2>6 DEF Exit, NoRun
    <3>4. \A q \in Open(t)' : trig'[t].status = "waiting" /\ trig'[t].until = prompt'[q].expiresAt
      BY <1>0, <2>0, <3>1, <3>2 DEF Audience
    <3>5. \A p, q \in Attached(t)' : p = q
      BY <1>0, <2>0 DEF Audience
    <3> QED
      BY <3>3, <3>4, <3>5 DEF Audience
  <2>7. CASE Local(t) /\ ~Exit
    <3>1. proc' = "up" => proc = "up" \/ run[t].phase = "none"
      <4>1. Boot => run[t].phase = "none"
        BY <1>0 DEF Boot, ProcInv, ProcOf, NoRun
      <4> QED
        BY <2>7, <4>1, NextProc
    <3> QED
      BY <1>0, <2>0, <2>7, <3>1, AudienceKept DEF Local, SameWait
  <2> QED
    BY <1>0, <1>2, <2>1, <2>2, <2>3, <2>4, <2>5, <2>6, <2>7, NextLocal DEF OwnStep
<1> QED
  BY <1>1, <1>2

\* No trigger has a question before the first process.
LEMMA AudInit == Init => AudInv
<1> SUFFICES ASSUME Init, NEW t \in Triggers PROVE Audience(t)
  BY DEF AudInv
<1>1. Attached(t) = {} /\ Open(t) = {}
  BY DEF Init, Store!Init, Store!NoRow, Attached, Open
<1> QED
  BY <1>1 DEF Audience

\* An open question of a trigger has somebody to answer to, whatever ran, was
\* stopped, crashed and was started again in between.
THEOREM QuestionHasAudienceCorrect == Spec => []QuestionHasAudience
<1>1. AudInv => QuestionHasAudience
  <2> SUFFICES ASSUME AudInv, NEW p \in Prompts, NEW t \in Triggers, p \in Store!PendingFor(t),
                      p \notin orphaned[t], ~StrayAnswer(t), faults = 0, run[t].prompt # p
               PROVE  trig[t].status = "waiting" /\ trig[t].until = prompt[p].expiresAt
    BY DEF QuestionHasAudience
  <2>1. Audience(t)
    BY DEF AudInv, Clean
  <2>2. p \in Open(t) /\ p \in Attached(t)
    BY DEF Open, Attached, Store!PendingFor, Store!Pending
  <2> QED
    BY <2>1, <2>2 DEF Audience
<1> QED
  BY <1>1, AsksAndDeliveries, AudInit, AudStep, PTL DEF Spec

-----------------------------------------------------------------------------
(* A stop sticks.                                                          *)

\* A one-shot whose run the owner stopped has nothing left that could start it.
Still(t) ==
    /\ t \notin cron /\ run[t].phase = "none" /\ Attached(t) = {}
    /\ trig[t].status # "open" /\ tick[t] # "rearm"

HaltInv == \A t \in Triggers : Clean(t) /\ t \in halted => Still(t)

\* Neither the clock nor an answer starts it.
LEMMA NotStarted ==
    ASSUME NEW t \in Triggers, TypeOK, Clean(t), Still(t)
    PROVE  ~Dispatch(t) /\ ~ReArm(t)
<1>1. ~Dispatch(t)
  BY DEF TypeOK, Row, Dispatch, Due, Armed, Still
<1>2. ASSUME ReArm(t) PROVE FALSE
  <2>1. PICK q : q \in Store!AnsweredFor(t)
    BY <1>2 DEF ReArm
  <2>2. q \in Attached(t)
    BY <2>1, FoundAnswer
  <2> QED
    BY <2>2 DEF Still
<1> QED
  BY <1>1, <1>2

\* A stopped one-shot stays where nothing but its owner starts it.
LEMMA HaltStep == Base /\ AskInv /\ AudInv /\ HaltInv /\ [Next]_vars => HaltInv'
<1> SUFFICES ASSUME Base, AskInv, AudInv, HaltInv, [Next]_vars, NEW t \in Triggers, Clean(t)',
                    t \in halted'
             PROVE  Still(t)'
  BY DEF HaltInv
<1>0. /\ Clean(t) /\ Audience(t) /\ cron' = cron
      /\ TypeOK /\ RunInv /\ trig \in [Triggers -> Row] /\ trig[t] \in Row
      /\ halted \in SUBSET Triggers
      /\ tick \in [Triggers -> {"none", "rearm", "sweep", "record"}]
  BY CleanBefore, RestStep DEF AudInv, Base, TypeOK, Grows
<1>1. ASSUME EndRun(t, "stopped"), t \notin cron PROVE Still(t)'
  <2>1. run[t].phase = "working" /\ run[t].stopReq /\ Idle /\ tick' = tick
    BY <1>1 DEF EndRun, Turn
  <2>2. Attached(t) = {} /\ tick'[t] # "rearm"
    BY <1>0, <2>1 DEF Audience, Idle, MidWrite
  <2>3. \A p \in Prompts : ~Ask(t, p)
    <3>1. run'[t].phase = "none"
      BY <1>0, <1>1, RunMoves DEF Moves
    <3>2. ASSUME NEW p \in Prompts, Ask(t, p) PROVE run'[t].phase = "parking"
      BY <1>0, <3>2, RunMoves DEF Moves
    <3> QED
      BY <3>1, <3>2
  <2>4. Attached(t)' = {}
    BY <2>2, <2>3, Shrinks
  <2> DEFINE c == t \in cron
             x == Recorded(trig[t], c, "stopped")
  <2>5. c = FALSE /\ trig' = [trig EXCEPT ![t] = Released(x)]
    BY <1>1 DEF EndRun
  <2> HIDE DEF c
  <2>6. x \in Row /\ x.status # "open"
    BY <1>0, <2>5, RecordedRow
  <2> HIDE DEF x
  <2>7. trig'[t].status # "open"
    BY <1>0, <2>5, <2>6, ReleasedRow DEF SameWait
  <2>8. run'[t].phase = "none"
    BY <1>0, <1>1, RunMoves DEF Moves
  <2> QED
    BY <1>0, <1>1, <2>2, <2>4, <2>7, <2>8 DEF Still
<1>2. CASE t \notin halted
  <2>1. ~Local(t)
    BY <1>2 DEF Local
  <2>2. \A u \in Triggers : ~RunTriggerNow(u) /\ \A st : ~SetStatus(u, st)
    BY <1>2 DEF RunTriggerNow, SetStatus
  <2>3. ASSUME NEW u \in Triggers, NEW o, EndRun(u, o) PROVE u = t /\ o = "stopped" /\ t \notin cron
    BY <1>2, <2>3 DEF EndRun
  <2>4. ASSUME \/ ReArm(t) \/ ReArmDue(t) \/ Sweep(t) \/ SweepEnd(t) \/ SweepRecord(t)
               \/ Dispatch(t) \/ Load(t) \/ LoadRefused(t) \/ AskRefused(t) \/ Park(t)
               \/ Drain(t) \/ Take(t) \/ Detach(t) \/ Unpark(t)
               \/ StopTask(t) \/ LeaseLapses(t) \/ Occur(t)
               \/ \E p \in Prompts : Ask(t, p)
               \/ Exit
        PROVE  halted' = halted
    BY <2>4 DEF ReArm, ReArmDue, Sweep, SweepEnd, SweepRecord, Dispatch, Load, LoadRefused, AskRefused, Park,
       Drain, Take, Detach, Unpark, StopTask, LeaseLapses, Occur, Ask, Exit, history
  <2>5. \E o \in {"success", "failed", "stopped"} : EndRun(t, o)
    BY <1>0, <1>2, <2>1, <2>2, <2>4, NextLocal DEF OwnStep
  <2> QED
    BY <1>1, <2>3, <2>5
<1>3. CASE t \in halted
  <2>0. Still(t) /\ ~Dispatch(t) /\ ~ReArm(t)
    BY <1>0, <1>3, NotStarted DEF HaltInv
  <2>1. \A p \in Prompts : ~Ask(t, p)
    BY <2>0 DEF Ask, Still
  <2>2. Attached(t)' = {}
    BY <2>0, <2>1, Shrinks DEF Still
  <2>3. CASE Local(t)
    BY <1>0, <2>0, <2>2, <2>3 DEF Local, Still
  <2>4. /\ ~Load(t) /\ ~LoadRefused(t) /\ ~AskRefused(t) /\ ~Park(t) /\ ~Drain(t) /\ ~Take(t) /\ ~Detach(t)
        /\ ~Unpark(t) /\ ~StopTask(t) /\ \A o : ~EndRun(t, o)
    BY <2>0 DEF Still, Load, LoadRefused, AskRefused, Park, Drain, Take, Detach, Unpark, StopTask, EndRun,
                Settled, Turn
  <2>5. /\ ~ReArmDue(t) /\ \A st : ~SetStatus(t, st)
    BY <2>0 DEF Still, ReArmDue, SetStatus
  <2>6. CASE RunTriggerNow(t)
    <3>1. UNCHANGED <<trig, run, tick>>
      BY <2>6 DEF RunTriggerNow
    <3> QED
      BY <1>0, <2>0, <2>2, <3>1 DEF Still
  <2>7. CASE Sweep(t)
    <3>1. UNCHANGED <<trig, run>> /\ tick' = [tick EXCEPT ![t] = "sweep"]
      BY <2>7 DEF Sweep
    <3>2. tick'[t] = "sweep"
      BY <1>0, <3>1
    <3> QED
      BY <1>0, <2>0, <2>2, <3>1, <3>2 DEF Still
  <2>8. CASE SweepEnd(t)
    <3>1. run' = run /\ tick' = [tick EXCEPT ![t] = "record"]
          /\ trig' = [trig EXCEPT ![t] = WaitEnded(trig[t], "failed")]
      BY <2>8 DEF SweepEnd
    <3>2. tick'[t] = "record" /\ trig'[t] = WaitEnded(trig[t], "failed")
      BY <1>0, <3>1
    <3>3. trig'[t].status # "open"
      BY <1>0, <2>0, <3>2, WaitEndedRow DEF Still
    <3> QED
      BY <1>0, <2>0, <2>2, <3>1, <3>2, <3>3 DEF Still
  <2>9. CASE SweepRecord(t)
    <3> DEFINE c == t \in cron
    <3>1. run' = run /\ tick' = [tick EXCEPT ![t] = "none"] /\ c = FALSE
          /\ (trig' = trig \/ trig' = [trig EXCEPT ![t] = Recorded(trig[t], c, "failed")])
      BY <2>0, <2>9 DEF SweepRecord, Still
    <3> HIDE DEF c
    <3>2. Recorded(trig[t], c, "failed").status # "open"
      BY <1>0, <2>0, <3>1, RecordedRow DEF Still
    <3>3. tick'[t] = "none" /\ (trig'[t] = trig[t] \/ trig'[t] = Recorded(trig[t], c, "failed"))
      BY <1>0, <3>1
    <3> QED
      BY <1>0, <2>0, <2>2, <3>1, <3>2, <3>3 DEF Still
  <2>10. CASE LeaseLapses(t) \/ Occur(t)
    <3>1. UNCHANGED <<run, tick>> /\ trig'[t].status = trig[t].status
      BY <1>0, <2>10 DEF LeaseLapses, Occur, Row
    <3> QED
      BY <1>0, <2>0, <2>2, <3>1 DEF Still
  <2>11. CASE Exit
    <3>1. run'[t].phase = "none" /\ tick'[t] = "none" /\ trig' = trig
      BY <2>11 DEF Exit, NoRun
    <3> QED
      BY <1>0, <2>0, <2>2, <3>1 DEF Still
  <2> QED
    BY <1>0, <2>0, <2>1, <2>3, <2>4, <2>5, <2>6, <2>7, <2>8, <2>9, <2>10, <2>11, NextLocal DEF OwnStep
<1> QED
  BY <1>2, <1>3

\* All of it, in every state.
LEMMA DurableInvariance == Spec => [](Base /\ AskInv /\ AudInv /\ HaltInv)
<1>1. Init => HaltInv
  BY DEF Init, HaltInv
<1> QED
  BY <1>1, BaseInit, BaseStep, DelivInit, AskStep, AudInit, AudStep, HaltStep, PTL DEF Spec

\* A one-shot whose run the owner stopped is started again by nobody but the
\* owner: not by a retry, not by the deadline of its question, not by a late
\* answer, not by a restart.
THEOREM StopSticksCorrect == Spec => StopSticks
<1> DEFINE Stays == \A t \in Triggers :
                       t \in halted /\ faults = 0 /\ ~StrayAnswer(t)
                           /\ run[t].phase = "none" /\ run'[t].phase # "none"
                       => t \notin halted'
<1>1. ASSUME Base, HaltInv, [Next]_vars PROVE [Stays]_vars
  <2> SUFFICES ASSUME NEW t \in Triggers, t \in halted, faults = 0, ~StrayAnswer(t),
                      run[t].phase = "none", run'[t].phase # "none"
               PROVE  t \notin halted'
    OBVIOUS
  <2>1. Clean(t) /\ Still(t)
    BY <1>1 DEF Clean, HaltInv
  <2>2. RunTriggerNow(t)
    BY <1>1, <2>1, NotStarted, RunFrom DEF Base
  <2>3. run' # run
    OBVIOUS
  <2> QED
    BY <2>2, <2>3 DEF RunTriggerNow
<1>2. Base /\ HaltInv /\ [Next]_vars => [Stays]_vars
  BY <1>1
<1> QED
  BY <1>2, DurableInvariance, PTL DEF Spec, StopSticks

=============================================================================
