------------------------------ MODULE DurableWait ------------------------------
(***************************************************************************)
(* A trigger's run that waits for a human, across restarts of the engine   *)
(* (core/worker-loop.ts with core/trigger-store.ts, core/task-manager.ts   *)
(* and core/prompt-store.ts).                                              *)
(*                                                                         *)
(* The run's question is a row of the prompt store (history.db) that       *)
(* points at the trigger; the trigger's row (engine.db) is parked:         *)
(* `waiting`, until the question's own deadline.  There is no transaction  *)
(* over the two files.  A live run ends its own wait; what a process that  *)
(* is gone left behind is collected by the next one's tick: an answer      *)
(* re-arms the trigger, a deadline ends it.  A shutdown is not an end of   *)
(* the wait: question, pointer and parked row outlive it.                  *)
(*                                                                         *)
(* The prompt store is an instance of PromptStore, and every step here is  *)
(* one of its steps or leaves it alone (StoreSpec).  One process at a      *)
(* time; of the lease there is only what a restart leaves behind           *)
(* (WorkerLease has the rest); `next` is next_run_at seen from now.        *)
(* Questions of mandates (an answer to one whose access has ended is let   *)
(* go of unread, too), tests by hand of a proposal, and plan pauses are    *)
(* left out.                                                               *)
(***************************************************************************)
EXTENDS Naturals, FiniteSets

CONSTANTS
    Prompts, Sessions, Triggers, Null, TTL, MaxTime,    \* as in PromptStore
    MaxRetries,  \* max_retries of a one-shot
    MaxBoots,    \* processes, one after the other
    MaxFaults    \* writes that fail, and crashes between two writes, at most

ASSUME DurableWaitAssumption ==
    /\ Null \notin Prompts \union Sessions \union Triggers
    /\ TTL \in Nat \ {0}
    /\ {MaxTime, MaxRetries, MaxFaults} \subseteq Nat
    /\ MaxBoots \in Nat \ {0}

VARIABLES
    prompt, wait, live, now,    \* PromptStore's
    cron,       \* the triggers that recur; the others are one-shots
    trig,       \* the triggers' rows
    run,        \* the run of each trigger in this process
    tick,       \* where a tick is between two writes about a trigger
    proc,       \* "up", "draining" (WorkerLoop.stop was called) or "down"
    boots,      \* processes so far
    faults,
    asked,      \* the question a trigger was last parked on
    delivered,  \* how often each answer was handed to a run
    orphaned,   \* a trigger's questions that were open when the owner ended its wait
    halted      \* one-shots whose run the owner stopped, and did not start again

store == <<prompt, wait, live, now>>
history == <<asked, delivered, orphaned, halted>>
vars == <<store, cron, trig, run, tick, proc, boots, faults, history>>

Store == INSTANCE PromptStore
            WITH Mandates <- {},
                 PromptReasons <- {"run_stopped"},
                 TriggerReasons <- {"timed_out", "plan_ended"}

Row == [status : {"open", "waiting", "completed", "failed", "stopped"},
        until : Nat \union {Null},                  \* waiting_until
        next : {"none", "later", "due"},            \* next_run_at
        retry : 0..MaxRetries,
        lease : {"free", "held", "lapsed"},
        unsettled : BOOLEAN]                        \* next_run_at <= lease_since

\* Where a run is: parking (its question is stored, the trigger not parked
\* yet), asking, then drained and detached, each before the next write; refused
\* (the answer it came for is let go of, its failure not recorded yet).
Phase == {"none", "starting", "refused", "working", "parking", "asking", "drained",
          "detached"}

Run == [phase : Phase,
        prompt : Prompts \union {Null},      \* pendingPromptId
        thread : Prompts \union {Null},      \* a question of the run's thread
        stopReq : BOOLEAN,                   \* stopRequested
        unanswered : BOOLEAN]                \* questionWentUnanswered

NoRun == [phase |-> "none", prompt |-> Null, thread |-> Null,
          stopReq |-> FALSE, unanswered |-> FALSE]

TypeOK ==
    /\ Store!TypeOK
    /\ cron \in SUBSET Triggers
    /\ trig \in [Triggers -> Row]
    /\ run \in [Triggers -> Run]
    /\ tick \in [Triggers -> {"none", "rearm", "sweep", "record"}]
    /\ proc \in {"up", "draining", "down"}
    /\ boots \in 0..MaxBoots
    /\ faults \in 0..MaxFaults
    /\ asked \in [Triggers -> Prompts \union {Null}]
    /\ delivered \in [Prompts -> Nat]
    /\ orphaned \in [Triggers -> SUBSET Prompts]
    /\ halted \in SUBSET Triggers

Init ==
    /\ Store!Init
    /\ cron \in SUBSET Triggers
    /\ trig = [t \in Triggers |->
                 [status |-> "open", until |-> Null, next |-> "later",
                  retry |-> 0, lease |-> "free", unsettled |-> FALSE]]
    /\ run = [t \in Triggers |-> NoRun]
    /\ tick = [t \in Triggers |-> "none"]
    /\ proc = "down"
    /\ boots = 0
    /\ faults = 0
    /\ asked = [t \in Triggers |-> Null]
    /\ delivered = [p \in Prompts |-> 0]
    /\ orphaned = [t \in Triggers |-> {}]
    /\ halted = {}

-----------------------------------------------------------------------------
(* Turns of the event loop.                                                *)

\* Between two writes of one synchronous stretch.
MidWrite ==
    \/ \E t \in Triggers : run[t].phase \in {"refused", "parking", "drained", "detached"}
    \/ \E t \in Triggers : tick[t] # "none"

\* A wait has settled and its run's continuation is the next microtask.
Settled(t) == run[t].phase = "asking" /\ wait[run[t].prompt] # "waiting"

\* A new turn can begin: a request, a timer, a tick.
Idle == ~MidWrite /\ ~\E t \in Triggers : Settled(t)

Serving == proc = "up" /\ Idle

\* Some writes of a stretch throw, and the throw is swallowed.
Fault == faults < MaxFaults /\ faults' = faults + 1

-----------------------------------------------------------------------------
(* Trigger rows.                                                           *)

\* ARMED_SQL
Armed(t) ==
    /\ trig[t].status \notin {"completed", "stopped", "waiting"}
    /\ trig[t].status = "failed" => t \in cron

\* getDue
Due(t) == Armed(t) /\ trig[t].next = "due" /\ trig[t].lease # "held"

Claimed(r) == [r EXCEPT !.lease = "held", !.unsettled = (r.next = "due")]

Released(r) == [r EXCEPT !.lease = "free", !.unsettled = FALSE]

Scheduled(r, n) == [r EXCEPT !.next = n, !.unsettled = FALSE]

\* endWait: conditional on the row still waiting
WaitEnded(r, status) ==
    IF r.status = "waiting" THEN [r EXCEPT !.status = status, !.until = Null]
    ELSE r

\* MUTANT: the outcome is written over an open wait.
Recorded_EndsWait(r, recurs, outcome) ==
    Scheduled([r EXCEPT !.status = IF outcome = "success" THEN "completed" ELSE "failed"],
              IF recurs THEN "later" ELSE "none")

\* recordTaskRun: a waiting row's status is not its to write, the schedule is.
Recorded(r, recurs, outcome) ==
    LET mayWriteStatus == r.status # "waiting" /\ outcome # "stopped"
        retrying == outcome \in {"failed", "interrupted"} /\ r.retry < MaxRetries
    IN CASE recurs ->
              Scheduled([r EXCEPT
                  !.status = IF mayWriteStatus /\ @ \notin {"completed", "stopped"}
                             THEN IF outcome = "success" THEN "open" ELSE "failed"
                             ELSE @,
                  !.retry = IF outcome = "success" THEN 0 ELSE @], "later")
         [] ~recurs /\ retrying ->
              Scheduled([r EXCEPT !.retry = @ + 1], "later")
         [] ~recurs /\ outcome = "success" ->
              [r EXCEPT !.status = IF mayWriteStatus THEN "completed" ELSE @]
         [] ~recurs /\ ~retrying /\ outcome # "success" ->
              Scheduled([r EXCEPT
                  !.status = IF mayWriteStatus THEN "failed"
                             ELSE IF outcome = "stopped" /\ @ \notin {"waiting", "completed"}
                                  THEN "stopped"
                                  ELSE @], "none")

-----------------------------------------------------------------------------
(* The tick: for each trigger, the re-arm before the sweep, then dispatch. *)

\* A parked trigger whose question was answered ends its wait ...
ReArm(t) ==
    /\ Serving
    /\ trig[t].status = "waiting"
    /\ Store!AnsweredFor(t) # {}
    /\ trig' = [trig EXCEPT ![t] = WaitEnded(@, "open")]
    /\ tick' = [tick EXCEPT ![t] = "rearm"]
    /\ UNCHANGED <<store, cron, run, proc, boots, faults, history>>

\* ... and is made due, in a second write.
ReArmDue(t) ==
    /\ tick[t] = "rearm"
    /\ tick' = [tick EXCEPT ![t] = "none"]
    /\ \/ /\ trig' = [trig EXCEPT ![t] = Scheduled(@, "due")]
          /\ faults' = faults
       \/ /\ Fault
          /\ trig' = trig
    /\ UNCHANGED <<store, cron, run, proc, boots, history>>

ExpiredWaiting(t) == trig[t].status = "waiting" /\ trig[t].until <= now

\* MUTANT: the sweep looks for waits through their pending questions.
Sweep_PendingOnly(t) ==
    /\ Serving
    /\ ExpiredWaiting(t)
    /\ Store!PendingFor(t) # {}
    /\ Store!AnsweredFor(t) = {}
    /\ tick' = [tick EXCEPT ![t] = "sweep"]
    /\ Store!ExpirePendingForTrigger(t, "timed_out")
    /\ faults' = faults
    /\ UNCHANGED <<cron, trig, run, proc, boots, history>>

\* A wait past its deadline: its question is settled first, best effort.  (An
\* answered one is here only if the re-arm's store call threw.)
Sweep(t) ==
    /\ Serving
    /\ ExpiredWaiting(t)
    /\ tick' = [tick EXCEPT ![t] = "sweep"]
    /\ \/ /\ Store!AnsweredFor(t) = {}
          /\ Store!ExpirePendingForTrigger(t, "timed_out")
          /\ faults' = faults
       \/ /\ Fault
          /\ Store!AnsweredFor(t) = {}
          /\ UNCHANGED store
       \/ /\ Fault
          /\ Store!AnsweredFor(t) # {}
          /\ Store!ExpirePendingForTrigger(t, "timed_out")
    /\ UNCHANGED <<cron, trig, run, proc, boots, history>>

\* Then the wait is ended, and ...
SweepEnd(t) ==
    /\ tick[t] = "sweep"
    /\ trig' = [trig EXCEPT ![t] = WaitEnded(@, "failed")]
    /\ tick' = [tick EXCEPT ![t] = "record"]
    /\ UNCHANGED <<store, cron, run, proc, boots, faults, history>>

\* ... recorded as the failed run it was.
SweepRecord(t) ==
    /\ tick[t] = "record"
    /\ tick' = [tick EXCEPT ![t] = "none"]
    /\ \/ /\ trig' = [trig EXCEPT ![t] = Recorded(@, t \in cron, "failed")]
          /\ faults' = faults
       \/ /\ Fault
          /\ trig' = trig
    /\ UNCHANGED <<store, cron, run, proc, boots, history>>

\* A due trigger is started; a run that was lost is recorded instead.
Dispatch(t) ==
    /\ Serving
    /\ Due(t)
    /\ run[t].phase = "none"
    /\ IF trig[t].lease = "lapsed" /\ trig[t].unsettled
       THEN /\ trig' = [trig EXCEPT ![t] =
                          Released(Recorded(Claimed(@), t \in cron, "interrupted"))]
            /\ run' = run
       ELSE /\ trig' = [trig EXCEPT ![t] = Claimed(@)]
            /\ run' = [run EXCEPT ![t].phase = "starting"]
    /\ UNCHANGED <<store, cron, tick, proc, boots, faults, history>>

\* runTriggerNow.  A question left over from a wait the owner ended is closed
\* on the way, before the lease is asked for; an open wait refuses.
RunTriggerNow(t) ==
    /\ Serving
    /\ run[t].phase = "none"
    /\ \/ /\ Store!PendingFor(t) = {}
          /\ UNCHANGED store
       \/ /\ Store!PendingFor(t) # {}
          /\ trig[t].status # "waiting"
          /\ Store!ExpirePendingForTrigger(t, "plan_ended")
    /\ IF trig[t].lease = "held"
       THEN UNCHANGED <<trig, run, halted>>
       ELSE /\ trig' = [trig EXCEPT ![t] = Claimed(@)]
            /\ run' = [run EXCEPT ![t].phase = "starting"]
            /\ halted' = halted \ {t}
    /\ UNCHANGED <<cron, tick, proc, boots, faults, asked, delivered, orphaned>>

-----------------------------------------------------------------------------
(* The run (executeStandard).                                              *)

Turn(t) == proc # "down" /\ Idle /\ run[t].phase # "none"

\* A run that an answer started, or finds one, is told it and lets go of it
\* before its turn; it goes on in the thread that asked, or in a new one if the
\* owner deleted that.
Load(t) ==
    /\ Turn(t)
    /\ run[t].phase = "starting"
    /\ \/ /\ Store!AnsweredFor(t) = {}
          /\ run' = [run EXCEPT ![t].phase = "working"]
          /\ UNCHANGED <<store, delivered>>
       \/ \E p \in Store!AnsweredFor(t) :
             /\ Store!ReleaseTrigger(p)
             /\ \E thread \in {p, Null} :
                   run' = [run EXCEPT ![t] = [@ EXCEPT !.phase = "working", !.thread = thread]]
             /\ delivered' = [delivered EXCEPT ![p] = @ + 1]
    /\ UNCHANGED <<cron, trig, tick, proc, boots, faults, asked, orphaned, halted>>

\* The deleted thread was contained and its successor cannot be: the answer is
\* let go of unread, best effort, and the run does not start.
LoadRefused(t) ==
    /\ Turn(t)
    /\ run[t].phase = "starting"
    /\ \E p \in Store!AnsweredFor(t) :
          \/ Store!ReleaseTrigger(p) /\ faults' = faults
          \/ Fault /\ UNCHANGED store
    /\ run' = [run EXCEPT ![t].phase = "refused"]
    /\ UNCHANGED <<cron, trig, tick, proc, boots, history>>

\* The run's controller has been aborted: by the owner's stop or by stop().
Aborted(t) == run[t].stopReq \/ proc = "draining"

\* promptUser in an aborted run raises no question.
AskRefused(t) ==
    /\ Turn(t)
    /\ run[t].phase = "working"
    /\ Aborted(t)
    /\ run' = [run EXCEPT ![t].unanswered = TRUE]
    /\ UNCHANGED <<store, cron, trig, tick, proc, boots, faults, history>>

\* Otherwise the question is stored, pointing at the trigger, ...
Ask(t, p) ==
    /\ Turn(t)
    /\ run[t].phase = "working"
    /\ ~Aborted(t)
    /\ \E s \in Sessions :
          /\ IF run[t].thread = Null
             THEN \A q \in Prompts : prompt[q].session # s
             ELSE s = prompt[run[t].thread].session
          /\ Store!Insert(p, s, FALSE, t, "owner")
    /\ run' = [run EXCEPT ![t] =
                  [@ EXCEPT !.phase = "parking", !.prompt = p, !.thread = p]]
    /\ UNCHANGED <<cron, trig, tick, proc, boots, faults, history>>

\* ... the trigger is parked until the question's deadline, and the run waits.
Park(t) ==
    /\ run[t].phase = "parking"
    /\ \/ /\ trig' = [trig EXCEPT ![t].status = "waiting",
                                  ![t].until = prompt[run[t].prompt].expiresAt]
          /\ asked' = [asked EXCEPT ![t] = run[t].prompt]
          /\ faults' = faults
       \/ /\ Fault
          /\ UNCHANGED <<trig, asked>>
    /\ run' = [run EXCEPT ![t].phase = "asking"]
    /\ Store!WaitForSettled(run[t].prompt)
    /\ UNCHANGED <<cron, tick, proc, boots, delivered, orphaned, halted>>

\* MUTANT: a teardown keeps the question even of a run its owner stopped.
Keeps_Stopped(t) == proc = "draining"

\* MUTANT: a shutdown is an end of the wait like any other.
Keeps_Never(t) == FALSE

\* keepsQuestionForNextProcess
Keeps(t) == proc = "draining" /\ ~run[t].stopReq

\* Past its wait the run goes on, at a teardown without the two writes below.
WaitOver(t) ==
    IF Keeps(t) THEN [run[t] EXCEPT !.phase = "working", !.prompt = Null]
    ELSE [run[t] EXCEPT !.phase = "drained"]

\* The wait ended without an answer.  At a teardown everything is kept for the
\* next process; otherwise the question, if still open, is closed.
Drain(t) ==
    /\ proc # "down"
    /\ Settled(t)
    /\ wait[run[t].prompt] # "answered"
    /\ run' = [run EXCEPT ![t] = [WaitOver(t) EXCEPT !.unanswered = TRUE]]
    /\ \/ /\ ~Keeps(t)
          /\ Store!ExpirePrompt(run[t].prompt, "run_stopped")
          /\ faults' = faults
       \/ /\ Keeps(t) \/ run[t].prompt \notin Store!Pending
          /\ UNCHANGED <<store, faults>>
       \/ /\ ~Keeps(t)
          /\ Fault
          /\ UNCHANGED store
    /\ UNCHANGED <<cron, trig, tick, proc, boots, history>>

\* The wait ended with the answer, which the turn goes on with.
Take(t) ==
    /\ proc # "down"
    /\ Settled(t)
    /\ wait[run[t].prompt] = "answered"
    /\ run' = [run EXCEPT ![t] = WaitOver(t)]
    /\ delivered' = [delivered EXCEPT ![run[t].prompt] = @ + 1]
    /\ UNCHANGED <<store, cron, trig, tick, proc, boots, faults, asked, orphaned,
                   halted>>

\* MUTANT: the pointer of the ended wait's question is left.
Detach_Skipped(t) ==
    /\ run[t].phase = "drained"
    /\ run' = [run EXCEPT ![t].phase = "detached"]
    /\ UNCHANGED <<store, cron, trig, tick, proc, boots, faults, history>>

\* MUTANT: the pointer is cleared, and the question withdrawn with it.
Detach_Deletes(t) ==
    /\ run[t].phase = "drained"
    /\ prompt' = [prompt EXCEPT ![run[t].prompt].trigger = Null,
                                ![run[t].prompt].status = "expired"]
    /\ run' = [run EXCEPT ![t].phase = "detached"]
    /\ UNCHANGED <<wait, live, now, cron, trig, tick, proc, boots, faults, history>>

\* The finally of promptUser: the question is detached (a no-op while it is
\* pending, or detached already) ...
Detach(t) ==
    /\ run[t].phase = "drained"
    /\ run' = [run EXCEPT ![t].phase = "detached"]
    /\ \/ /\ Store!ReleaseTrigger(run[t].prompt)
          /\ faults' = faults
       \/ /\ \/ run[t].prompt \in Store!Pending
             \/ prompt[run[t].prompt].trigger = Null
          /\ UNCHANGED <<store, faults>>
       \/ /\ Fault
          /\ UNCHANGED store
    /\ UNCHANGED <<cron, trig, tick, proc, boots, history>>

\* ... and the trigger un-parked.
Unpark(t) ==
    /\ run[t].phase = "detached"
    /\ run' = [run EXCEPT ![t] = [@ EXCEPT !.phase = "working", !.prompt = Null]]
    /\ \/ /\ trig' = [trig EXCEPT ![t] = WaitEnded(@, "open")]
          /\ faults' = faults
       \/ /\ Fault
          /\ trig' = trig
    /\ UNCHANGED <<store, cron, tick, proc, boots, history>>

\* The turn is over and recorded; the lease is given up.
EndRun(t, outcome) ==
    /\ \/ Turn(t) /\ run[t].phase = "working"
       \/ Turn(t) /\ run[t].phase = "starting" /\ outcome = "failed"
       \/ proc # "down" /\ run[t].phase = "refused" /\ outcome = "failed"
    /\ outcome = "success" => ~run[t].unanswered
    /\ outcome = "stopped" => run[t].stopReq
    /\ trig' = [trig EXCEPT ![t] = Released(Recorded(@, t \in cron, outcome))]
    /\ run' = [run EXCEPT ![t] = NoRun]
    /\ halted' = IF outcome = "stopped" /\ t \notin cron THEN halted \union {t} ELSE halted
    /\ UNCHANGED <<store, cron, tick, proc, boots, faults, asked, delivered, orphaned>>

-----------------------------------------------------------------------------
(* The owner.                                                              *)

Answer(p) ==
    /\ Serving
    /\ Store!Answer(p)
    /\ UNCHANGED <<cron, trig, run, tick, proc, boots, faults, history>>

\* stopTask aborts the run's controller, which settles its wait.
StopTask(t) ==
    /\ Serving
    /\ run[t].phase \in {"working", "asking"}
    /\ ~run[t].stopReq
    /\ run' = [run EXCEPT ![t].stopReq = TRUE]
    /\ \/ run[t].phase = "working" /\ UNCHANGED store
       \/ run[t].phase = "asking" /\ Store!Abort({run[t].prompt})
    /\ UNCHANGED <<cron, trig, tick, proc, boots, faults, history>>

\* complete, update and reopen write the status and leave the questions alone.
SetStatus(t, status) ==
    /\ Serving
    /\ trig' = [trig EXCEPT ![t].status = status, ![t].until = Null]
    /\ orphaned' = [orphaned EXCEPT ![t] = @ \union Store!PendingFor(t)]
    /\ halted' = halted \ {t}
    /\ UNCHANGED <<store, cron, run, tick, proc, boots, faults, asked, delivered>>

-----------------------------------------------------------------------------
(* Timers, the process, and time.                                          *)

\* The engine stops waiting for the tool call that asks.
ToolTimeout(t) ==
    /\ Serving
    /\ run[t].phase = "asking"
    /\ Store!Abort({run[t].prompt})
    /\ UNCHANGED <<cron, trig, run, tick, proc, boots, faults, history>>

\* The waiter's own interval, and the engine's five-minute sweep.
Timer(p) ==
    /\ Serving
    /\ Store!Timer(p)
    /\ UNCHANGED <<cron, trig, run, tick, proc, boots, faults, history>>

ExpireOld ==
    /\ Serving
    /\ Store!ExpireOld
    /\ UNCHANGED <<cron, trig, run, tick, proc, boots, faults, history>>

\* WorkerLoop.stop: every run is marked and its controller aborted.  It may come
\* in the same turn as an answer, before the run's continuation.
Stop ==
    /\ proc = "up" /\ ~MidWrite
    /\ boots < MaxBoots
    /\ proc' = "draining"
    /\ Store!Abort({run[t].prompt : t \in {u \in Triggers : /\ run[u].phase = "asking"
                                                           /\ ~Settled(u)}})
    /\ UNCHANGED <<cron, trig, run, tick, boots, faults, history>>

\* The process is gone: it exited, or crashed.  Its leases stay.
Exit ==
    /\ proc # "down"
    /\ boots < MaxBoots
    /\ IF MidWrite THEN Fault ELSE faults' = faults
    /\ proc' = "down"
    /\ run' = [t \in Triggers |-> NoRun]
    /\ tick' = [t \in Triggers |-> "none"]
    /\ UNCHANGED <<store, cron, trig, boots, history>>

Boot ==
    /\ proc = "down"
    /\ boots' = boots + 1
    /\ proc' = "up"
    /\ Store!Boot
    /\ UNCHANGED <<cron, trig, run, tick, faults, history>>

\* A lease nobody renews.
LeaseLapses(t) ==
    /\ trig[t].lease = "held"
    /\ run[t].phase = "none"
    /\ trig' = [trig EXCEPT ![t].lease = "lapsed"]
    /\ UNCHANGED <<store, cron, run, tick, proc, boots, faults, history>>

\* next_run_at has come.
Occur(t) ==
    /\ trig[t].next = "later"
    /\ trig' = [trig EXCEPT ![t].next = "due"]
    /\ UNCHANGED <<store, cron, run, tick, proc, boots, faults, history>>

\* A turn is short: the clock does not move inside one.
Advance ==
    /\ Idle
    /\ Store!Advance
    /\ UNCHANGED <<cron, trig, run, tick, proc, boots, faults, history>>

Next ==
    \/ \E t \in Triggers :
          \/ ReArm(t) \/ ReArmDue(t)
          \/ Sweep(t) \/ SweepEnd(t) \/ SweepRecord(t)
          \/ Dispatch(t) \/ RunTriggerNow(t)
          \/ Load(t) \/ LoadRefused(t) \/ AskRefused(t) \/ Park(t)
          \/ Drain(t) \/ Take(t) \/ Detach(t) \/ Unpark(t)
          \/ StopTask(t) \/ ToolTimeout(t)
          \/ LeaseLapses(t) \/ Occur(t)
    \/ \E t \in Triggers, p \in Prompts : Ask(t, p)
    \/ \E t \in Triggers, outcome \in {"success", "failed", "stopped"} : EndRun(t, outcome)
    \/ \E t \in Triggers, status \in {"open", "completed"} : SetStatus(t, status)
    \/ \E p \in Prompts : Answer(p) \/ Timer(p)
    \/ ExpireOld
    \/ Stop \/ Exit \/ Boot
    \/ Advance

Spec == Init /\ [][Next]_vars

(***************************************************************************)
(* The clock moves, a process that went down is started again, the tick    *)
(* comes round every minute, a stretch of code that began is finished.  No *)
(* run is assumed to end, no human to answer.                              *)
(***************************************************************************)
Fairness ==
    /\ WF_vars(Advance)
    /\ WF_vars(Boot)
    /\ WF_vars(proc = "draining" /\ Exit)
    /\ \A t \in Triggers :
          /\ WF_vars(ReArm(t))
          /\ WF_vars(ReArmDue(t))
          /\ SF_vars(Sweep(t))
          /\ WF_vars(SweepEnd(t))
          /\ WF_vars(SweepRecord(t))
          /\ WF_vars(Park(t))
          /\ WF_vars(Drain(t))
          /\ WF_vars(Take(t))
          /\ WF_vars(Detach(t))
          /\ WF_vars(Unpark(t))
          /\ WF_vars(run[t].phase = "refused" /\ EndRun(t, "failed"))

FairSpec == Spec /\ Fairness

-----------------------------------------------------------------------------
(* Properties.                                                             *)

\* The prompt store is used only through its operations.
StoreSpec == Store!Spec

\* An answer to a question the owner's write left behind counts as one to the
\* question the trigger waits on now: the re-arm asks for any answered row.
StrayAnswer(t) == \E q \in orphaned[t] : prompt[q].status = "answered"

\* An open question of a trigger has somebody to answer to: its run waits for
\* it, or the trigger is parked until exactly its deadline, so that the next
\* tick finds the answer or the deadline.  What a failed or torn write, or the
\* owner ending the wait, left behind is the exception.
QuestionHasAudience ==
    \A p \in Prompts, t \in Triggers :
        /\ p \in Store!PendingFor(t)
        /\ p \notin orphaned[t] /\ ~StrayAnswer(t)
        /\ faults = 0
        => \/ run[t].prompt = p
           \/ /\ trig[t].status = "waiting"
              /\ trig[t].until = prompt[p].expiresAt

\* An answer is handed to a run at most once by each process, and once more for
\* each failed write: an answer that was acted on is not replayed into later
\* runs of the trigger.
DeliveredOncePerProcess ==
    \A p \in Prompts : delivered[p] <= boots + faults

\* The step in which a run that came for an answer is refused its thread.
Refused(t) == run[t].phase = "starting" /\ run'[t].phase = "refused"

\* A trigger lets go of an answer only when a run got it or its time is over:
\* no sweep, stop, restart or start by hand loses it.  The one exception is the
\* run that came for the answer and was refused the thread to put it in: it
\* fails instead.
AnswerNotThrownAway ==
    [][\A p \in Prompts :
          prompt[p].status = "answered" /\ prompt[p].trigger # Null
              /\ prompt'[p].trigger = Null
          => \/ delivered'[p] > 0 \/ prompt[p].expiresAt <= now
             \/ Refused(prompt[p].trigger)]_vars

\* A shutdown is not an end of the wait: while the process goes down, the
\* question of a run its owner did not stop stays open and stays attached.
ShutdownKeepsQuestion ==
    [][\A p \in Prompts :
          LET t == prompt[p].trigger
          IN proc # "up" /\ p \in Store!Pending /\ t # Null /\ faults = 0
                 /\ ~(run[t].prompt = p /\ run[t].stopReq)
             => prompt'[p].trigger = t /\ prompt'[p].status = "pending"]_vars

\* A one-shot whose run the owner stopped is started again by nobody but the
\* owner: not by a retry, not by a late answer to the stopped run's question.
\* (A stray answer to a question of a wait the owner had ended before does.)
StopSticks ==
    [][\A t \in Triggers :
          t \in halted /\ faults = 0 /\ ~StrayAnswer(t)
              /\ run[t].phase = "none" /\ run'[t].phase # "none"
          => t \notin halted']_vars

\* What the tick's comment promises ("an ANSWER ends a wait too, and long before
\* the deadline would"): a trigger that is still parked on a question answered
\* in time can still be re-armed by it.
AnsweredWaitRearms ==
    \A t \in Triggers :
        /\ trig[t].status = "waiting"
        /\ asked[t] # Null
        /\ prompt[asked[t]].status = "answered"
        /\ now < prompt[asked[t]].expiresAt
        /\ Idle
        /\ faults = 0
        => prompt[asked[t]].trigger = t

\* No trigger waits for ever, whatever became of the run that parked it, of its
\* process and of its question.
TriggerWaitEnds ==
    \A t \in Triggers : trig[t].status = "waiting" ~> trig[t].status # "waiting"

=============================================================================
