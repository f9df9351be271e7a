------------------------------ MODULE WorkerLease ------------------------------
(***************************************************************************)
(* Starting, leasing, losing and recording the runs of triggers            *)
(* (core/worker-loop.ts, core/trigger-store.ts, core/task-manager.ts).     *)
(*                                                                         *)
(* Engine processes share one engine.db.  A worker loop reads the list of  *)
(* due triggers, then takes each one's lease and starts its run; a live    *)
(* run renews its lease by heartbeat; the run records its result, which    *)
(* moves the schedule, and gives up the lease last.  A process can crash,  *)
(* be stopped (its runs go on for a while, its loop does not) or stall so  *)
(* long that its leases lapse.  A lapsed lease whose occurrence is still   *)
(* the due one is a LOST run: recorded `interrupted`, never started over,  *)
(* unless the effect is one that repeats nothing.                          *)
(*                                                                         *)
(* Time is a countdown, so it has no end: `dueIn` is next_run_at - now,    *)
(* `left` is lease_until - now, and `unsettled` holds claimLease's         *)
(* comparison next_run_at <= lease_since.  Waiting for a human is module   *)
(* DurableWait; consent gates, plan pauses and webhooks are left out.      *)
(***************************************************************************)
EXTENDS Naturals, FiniteSets

CONSTANTS
    Procs,       \* engine processes, each with its own leaseHolder uuid
    Triggers,
    Null,
    LeaseTTL,    \* LEASE_TTL_MS, in clock steps
    Delay,       \* a cron's period, a watch's interval, a retry's backoff
    MaxRetries,  \* the largest max_retries considered
    MaxTickers,  \* worker loops that may run at the same time
    MaxFaults    \* records that fail to be written, at most

ASSUME WorkerLeaseAssumption ==
    /\ Null \notin Procs
    /\ LeaseTTL \in Nat \ {0, 1}
    /\ Delay \in Nat \ {0}
    /\ {MaxRetries, MaxTickers, MaxFaults} \subseteq Nat

VARIABLES
    kind,     \* what each trigger is; never changes
    trig,     \* the triggers' rows
    proc,     \* the life of each process
    stalled,  \* processes whose event loop does not move now
    slow,     \* processes that have stalled at some time
    due,      \* what is left of the due list a tick has read
    run,      \* activeTasks and the runs themselves
    starts,   \* scheduled starts since the owner last opened the trigger,
              \* counted for the triggers that should have one
    faults    \* records lost so far

vars == <<kind, trig, proc, stalled, slow, due, run, starts, faults>>

Kind == [shape : {"oneshot", "cron", "watch"},
         resumes : BOOLEAN,            \* RESUMES_AFTER_LOSS[effect]
         retries : 0..MaxRetries]      \* max_retries

Row == [status : {"open", "completed", "failed", "stopped"},
        enabled : BOOLEAN,
        dueIn : (0..Delay) \union {Null},
        retry : 0..MaxRetries,
        holder : Procs \union {Null},
        left : 0..LeaseTTL,
        unsettled : BOOLEAN]

RunState == {"none", "running", "stopping", "recorded", "unrecorded"}

TypeOK ==
    /\ kind \in [Triggers -> Kind]
    /\ trig \in [Triggers -> Row]
    /\ proc \in [Procs -> {"new", "up", "draining", "down"}]
    /\ stalled \in SUBSET Procs
    /\ slow \in SUBSET Procs
    /\ due \in [Procs -> SUBSET Triggers]
    /\ run \in [Procs -> [Triggers -> RunState]]
    /\ starts \in [Triggers -> Nat]
    /\ faults \in 0..MaxFaults

\* Every trigger is scheduled and nobody has run it; every process is to come.
Init ==
    /\ kind \in [Triggers -> Kind]
    /\ trig = [t \in Triggers |->
                 [status |-> "open", enabled |-> TRUE, dueIn |-> Delay,
                  retry |-> 0, holder |-> Null, left |-> 0,
                  unsettled |-> FALSE]]
    /\ proc = [p \in Procs |-> "new"]
    /\ stalled = {}
    /\ slow = {}
    /\ due = [p \in Procs |-> {}]
    /\ run = [p \in Procs |-> [t \in Triggers |-> "none"]]
    /\ starts = [t \in Triggers |-> 0]
    /\ faults = 0

-----------------------------------------------------------------------------
(* Reading a row.                                                          *)

\* The process runs code now.
Awake(p) == proc[p] \in {"up", "draining"} /\ p \notin stalled

\* ... and is between two turns of its event loop: a tick is one synchronous
\* stretch of code, from the due list to the last dispatch.
Free(p) == Awake(p) /\ due[p] = {}

Active(p, t) == run[p][t] # "none"

Tickers == {p \in Procs : proc[p] = "up"}

\* One occurrence, and an effect that would repeat what a lost run had done.
StartsOnce(t) == kind[t].shape = "oneshot" /\ ~kind[t].resumes

\* ARMED_SQL without consent and plan pause; a failed cron stays armed.
Armed(t) ==
    /\ trig[t].dueIn # Null
    /\ trig[t].enabled
    /\ trig[t].status \notin {"completed", "stopped"}
    /\ trig[t].status = "failed" => kind[t].shape = "cron"

\* claimLease's `held`
Held(t) == trig[t].holder # Null /\ trig[t].left > 0

\* claimLease's `interrupted`: the lost run never recorded a result.
Lost(t) == ~Held(t) /\ trig[t].holder # Null /\ trig[t].unsettled

\* getDue
Due(t) == Armed(t) /\ trig[t].dueIn = 0 /\ ~Held(t)

-----------------------------------------------------------------------------
(* Writing one.                                                            *)

\* claimLease's write
Claimed(r, p) ==
    [r EXCEPT !.holder = p, !.left = LeaseTTL, !.unsettled = (r.dueIn = 0)]

\* MUTANT: whoever finishes clears the lease, whoever holds it.
Released_Anyone(r, p) ==
    [r EXCEPT !.holder = Null, !.left = 0, !.unsettled = FALSE]

\* releaseLease: another holder's lease is left alone
Released(r, p) ==
    IF r.holder = p
    THEN [r EXCEPT !.holder = Null, !.left = 0, !.unsettled = FALSE]
    ELSE r

\* next_run_at := now + d, later than any lease_since; or NULL
Scheduled(r, d) == [r EXCEPT !.dueIn = d, !.unsettled = FALSE]

\* recordTaskRun, by trigger shape.
Recorded(r, k, outcome) ==
    LET retrying == outcome \in {"failed", "interrupted"} /\ r.retry < k.retries
    IN CASE k.shape = "cron" ->
              Scheduled([r EXCEPT
                  !.status = IF \/ @ \in {"completed", "stopped"}
                                \/ outcome \in {"stopped", "halted"}
                             THEN @
                             ELSE IF outcome = "success" THEN "open" ELSE "failed",
                  !.retry = IF outcome = "success" THEN 0 ELSE @], Delay)
         [] k.shape = "watch" ->
              Scheduled([r EXCEPT
                  !.retry = IF outcome = "success" THEN 0 ELSE @], Delay)
         [] k.shape = "oneshot" /\ retrying ->
              Scheduled([r EXCEPT !.retry = @ + 1], Delay)
         [] k.shape = "oneshot" /\ outcome = "success" ->
              [r EXCEPT !.status = "completed"]
         [] k.shape = "oneshot" /\ ~retrying /\ outcome \in {"failed", "interrupted"} ->
              Scheduled([r EXCEPT !.status = "failed"], Null)
         [] k.shape = "oneshot" /\ outcome \in {"stopped", "halted"} ->
              Scheduled([r EXCEPT
                  !.status = IF @ = "completed" THEN @
                             ELSE IF outcome = "stopped" THEN "stopped"
                                  ELSE "completed"], Null)

-----------------------------------------------------------------------------
(* The worker loop.                                                        *)

\* A tick reads the due list, once, at its start.
TickRead(p) ==
    /\ proc[p] = "up" /\ Free(p)
    /\ due' = [due EXCEPT ![p] = {t \in Triggers : Due(t)}]
    /\ UNCHANGED <<kind, trig, proc, stalled, slow, run, starts, faults>>

\* p is at t in its tick, and runs no t itself.
Dispatching(p, t) ==
    /\ Awake(p)
    /\ t \in due[p]
    /\ due' = [due EXCEPT ![p] = @ \ {t}]
    /\ ~Active(p, t)

Counted(t) == IF StartsOnce(t) THEN [starts EXCEPT ![t] = @ + 1] ELSE starts

\* The lease is taken and the run starts: nothing was lost, or the effect
\* resumes.  next_run_at and status are not read again.
DispatchRun(p, t) ==
    /\ Dispatching(p, t)
    /\ ~Held(t)
    /\ Lost(t) => kind[t].resumes
    /\ trig' = [trig EXCEPT ![t] = Claimed(@, p)]
    /\ run' = [run EXCEPT ![p][t] = "running"]
    /\ starts' = Counted(t)
    /\ UNCHANGED <<kind, proc, stalled, slow, faults>>

\* MUTANT: a lost run is started over whatever its effect.
DispatchLost_Restarts(p, t) ==
    /\ Dispatching(p, t)
    /\ Lost(t) /\ ~kind[t].resumes
    /\ trig' = [trig EXCEPT ![t] = Claimed(@, p)]
    /\ run' = [run EXCEPT ![p][t] = "running"]
    /\ starts' = Counted(t)
    /\ UNCHANGED <<kind, proc, stalled, slow, faults>>

\* MUTANT: a lost run is skipped, its lease left to whoever lost it.
DispatchLost_Skips(p, t) ==
    /\ Dispatching(p, t)
    /\ Lost(t) /\ ~kind[t].resumes
    /\ UNCHANGED <<kind, trig, proc, stalled, slow, run, starts, faults>>

\* A lost run that must not start again is recorded and its lease given up.
DispatchLost(p, t) ==
    /\ Dispatching(p, t)
    /\ Lost(t) /\ ~kind[t].resumes
    /\ trig' = [trig EXCEPT ![t] =
                  Released(Recorded(Claimed(@, p), kind[t], "interrupted"), p)]
    /\ UNCHANGED <<kind, proc, stalled, slow, run, starts, faults>>

\* The store fails at that: the new lease stays, lapses, and is found again.
DispatchLostFails(p, t) ==
    /\ Dispatching(p, t)
    /\ Lost(t) /\ ~kind[t].resumes
    /\ trig' = [trig EXCEPT ![t] = Claimed(@, p)]
    /\ UNCHANGED <<kind, proc, stalled, slow, run, starts, faults>>

\* No budget, or the lease is held (a store error reads as held): t stays due.
Skip(p, t) ==
    /\ Awake(p)
    /\ t \in due[p]
    /\ due' = [due EXCEPT ![p] = @ \ {t}]
    /\ UNCHANGED <<kind, trig, proc, stalled, slow, run, starts, faults>>

\* runTriggerNow: the owner's start, whatever the schedule; a lost run does
\* not stop it.
RunTriggerNow(p, t) ==
    /\ proc[p] = "up" /\ Free(p)
    /\ ~Active(p, t)
    /\ ~Held(t)
    /\ trig' = [trig EXCEPT ![t] = Claimed(@, p)]
    /\ run' = [run EXCEPT ![p][t] = "running"]
    /\ UNCHANGED <<kind, proc, stalled, slow, due, starts, faults>>

-----------------------------------------------------------------------------
(* A run.                                                                  *)

\* The heartbeat; renewLease does not mind a lapsed lease nobody took.
Renew(p, t) ==
    /\ Free(p) /\ Active(p, t)
    /\ trig[t].holder = p
    /\ trig' = [trig EXCEPT ![t].left = LeaseTTL]
    /\ UNCHANGED <<kind, proc, stalled, slow, due, run, starts, faults>>

\* stopTask while the run has a handle.  After stop() the map is empty, so a
\* draining process stops nothing.
StopTask(p, t) ==
    /\ proc[p] = "up" /\ Free(p)
    /\ run[p][t] = "running"
    /\ run' = [run EXCEPT ![p][t] = "stopping"]
    /\ UNCHANGED <<kind, trig, proc, stalled, slow, due, starts, faults>>

\* The run ends and its result is recorded.  A stop may have missed it.
Record(p, t, outcome) ==
    /\ Free(p)
    /\ \/ run[p][t] = "running" /\ outcome \in {"success", "failed", "halted"}
       \/ run[p][t] = "stopping" /\ outcome \in {"success", "failed", "stopped"}
    /\ trig' = [trig EXCEPT ![t] = Recorded(@, kind[t], outcome)]
    /\ run' = [run EXCEPT ![p][t] = "recorded"]
    /\ UNCHANGED <<kind, proc, stalled, slow, due, starts, faults>>

\* Recording throws, in the run and again in its catch.
RecordFails(p, t) ==
    /\ Free(p)
    /\ run[p][t] \in {"running", "stopping"}
    /\ faults < MaxFaults
    /\ faults' = faults + 1
    /\ run' = [run EXCEPT ![p][t] = "unrecorded"]
    /\ UNCHANGED <<kind, trig, proc, stalled, slow, due, starts>>

\* The finally of #runInSlot: the map entry, the heartbeat, then the lease.
Finish(p, t) ==
    /\ Free(p)
    /\ run[p][t] \in {"recorded", "unrecorded"}
    /\ run' = [run EXCEPT ![p][t] = "none"]
    /\ \/ trig' = [trig EXCEPT ![t] = Released(@, p)]
       \/ trig' = trig    \* releaseLease threw: the lease lapses on its own
    /\ UNCHANGED <<kind, proc, stalled, slow, due, starts, faults>>

-----------------------------------------------------------------------------
(* The owner.                                                              *)

\* A request some process handles.
OwnerSets(t, row) ==
    /\ \E p \in Tickers : Free(p)
    /\ trig' = [trig EXCEPT ![t] = row]
    /\ UNCHANGED <<kind, proc, stalled, slow, due, run, faults>>

Complete(t) ==
    /\ OwnerSets(t, [trig[t] EXCEPT !.status = "completed"])
    /\ UNCHANGED starts

Reopen(t) ==
    /\ OwnerSets(t, [trig[t] EXCEPT !.status = "open"])
    /\ starts' = [starts EXCEPT ![t] = 0]

SetEnabled(t, on) ==
    /\ OwnerSets(t, [trig[t] EXCEPT !.enabled = on])
    /\ UNCHANGED starts

-----------------------------------------------------------------------------
(* Processes and time.                                                     *)

Boot(p) ==
    /\ proc[p] = "new"
    /\ Cardinality(Tickers) < MaxTickers
    /\ proc' = [proc EXCEPT ![p] = "up"]
    /\ UNCHANGED <<kind, trig, stalled, slow, due, run, starts, faults>>

\* WorkerLoop.stop: no more ticks, the runs are aborted but go on to their end.
Stop(p) ==
    /\ proc[p] = "up" /\ Free(p)
    /\ \E q \in Procs : proc[q] = "new"
    /\ proc' = [proc EXCEPT ![p] = "draining"]
    /\ UNCHANGED <<kind, trig, stalled, slow, due, run, starts, faults>>

\* The process is gone, with its runs.  (One is always left to take over.)
Crash(p) ==
    /\ \/ proc[p] = "up" /\ \E q \in Procs : proc[q] = "new"
       \/ proc[p] = "draining"
    /\ proc' = [proc EXCEPT ![p] = "down"]
    /\ stalled' = stalled \ {p}
    /\ due' = [due EXCEPT ![p] = {}]
    /\ run' = [run EXCEPT ![p] = [t \in Triggers |-> "none"]]
    /\ UNCHANGED <<kind, trig, slow, starts, faults>>

\* The event loop blocks, or the machine sleeps (bound: once per process).
Stall(p) ==
    /\ Awake(p)
    /\ p \notin slow
    /\ stalled' = stalled \union {p}
    /\ slow' = slow \union {p}
    /\ UNCHANGED <<kind, trig, proc, due, run, starts, faults>>

Resume(p) ==
    /\ p \in stalled
    /\ stalled' = stalled \ {p}
    /\ UNCHANGED <<kind, trig, proc, slow, due, run, starts, faults>>

Less(n) == IF n = 0 THEN 0 ELSE n - 1

\* A step of the clock.  Heartbeats are far shorter than the lease: a process
\* that is awake renews its runs' leases before they lapse.
Advance ==
    /\ \A p \in Procs, t \in Triggers :
          Awake(p) /\ Active(p, t) /\ trig[t].holder = p => trig[t].left > 1
    /\ trig' = [t \in Triggers |->
                  [trig[t] EXCEPT
                     !.dueIn = IF @ = Null THEN @ ELSE Less(@),
                     !.left = Less(@)]]
    /\ UNCHANGED <<kind, proc, stalled, slow, due, run, starts, faults>>

Next ==
    \/ \E p \in Procs :
          \/ TickRead(p)
          \/ Boot(p)
          \/ Stop(p)
          \/ Crash(p)
          \/ Stall(p)
          \/ Resume(p)
    \/ \E p \in Procs, t \in Triggers :
          \/ DispatchRun(p, t)
          \/ DispatchLost(p, t)
          \/ DispatchLostFails(p, t)
          \/ Skip(p, t)
          \/ RunTriggerNow(p, t)
          \/ Renew(p, t)
          \/ StopTask(p, t)
          \/ RecordFails(p, t)
          \/ Finish(p, t)
    \/ \E p \in Procs, t \in Triggers,
          outcome \in {"success", "failed", "stopped", "halted"} :
          Record(p, t, outcome)
    \/ \E t \in Triggers :
          \/ Complete(t)
          \/ Reopen(t)
          \/ \E on \in BOOLEAN : SetEnabled(t, on)
    \/ Advance

Spec == Init /\ [][Next]_vars

(***************************************************************************)
(* The clock moves, heartbeats fire, a process that stalled comes back or  *)
(* is replaced, and the loop ticks every minute for as long as a process   *)
(* is up.  A tick may pass a due trigger over (budget, a busy store), but  *)
(* not for ever: the caps' windows roll and a busy store recovers.  No run *)
(* is assumed to end, and the owner to do nothing.                         *)
(***************************************************************************)
Fairness ==
    /\ WF_vars(Advance)
    /\ \A p \in Procs :
          /\ WF_vars(TickRead(p))
          /\ WF_vars(Boot(p))
          /\ WF_vars(Resume(p))
          /\ \A t \in Triggers :
                /\ WF_vars(Renew(p, t))
                /\ WF_vars(Skip(p, t))
                /\ SF_vars(DispatchRun(p, t))
                /\ SF_vars(DispatchLost(p, t))

FairSpec == Spec /\ Fairness

-----------------------------------------------------------------------------
(* Properties.                                                             *)

\* A run that is going on in a process that never stalled holds a live lease:
\* nobody else can start its trigger meanwhile, whatever crashes, stops,
\* late finishes of slow processes and owners' starts happen around it.
LeaseHeldWhileRunning ==
    \A p \in Procs, t \in Triggers :
        Active(p, t) /\ p \notin slow => trig[t].holder = p /\ trig[t].left > 0

\* With one worker loop at a time (a stopped one's runs may outlive it), the
\* schedule starts a one-shot whose effect does not resume once, and again only
\* for a retry the owner asked for, a record that could not be written, or a
\* process that stalled past its lease and finished after all, each at most
\* once: no crash, shutdown or lost lease starts it over.  Two loops at a time
\* can do more: claimLease reads neither the status nor whether the occurrence
\* is still due, so a loop may start from a due list it read before the other
\* loop ran the trigger to its end.
AttemptsBounded ==
    MaxTickers <= 1 =>
        \A t \in Triggers :
            StartsOnce(t)
                => starts[t] <= 1 + trig[t].retry + faults + Cardinality(slow)

\* A lost run is noticed: the lease a run left behind (its process died, or
\* its release failed) does not keep an armed trigger for ever.
LostRunSettles ==
    \A t \in Triggers :
        LET abandoned == /\ Armed(t)
                         /\ trig[t].holder # Null
                         /\ ~Active(trig[t].holder, t)
        IN abandoned ~> ~abandoned

=============================================================================
