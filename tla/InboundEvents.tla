----------------------------- MODULE InboundEvents -----------------------------
(***************************************************************************)
(* Webhook deliveries and their runs: the receiver                         *)
(* (server/webhook-receiver.ts), the ledger (core/inbound-events.ts) and   *)
(* the worker loop's drain (core/worker-loop.ts).                          *)
(*                                                                         *)
(* A provider delivers a body once or many times, at one trigger or at     *)
(* several.  The receiver records the first verified delivery; the drain   *)
(* of some process runs it under its trigger's lease, at most one event    *)
(* per trigger at a time, and writes the outcome before it gives the lease *)
(* up.  An event that did not end well is told to the owner; one whose run *)
(* was lost is told to be of unknown outcome and is not run again.         *)
(*                                                                         *)
(* An event is named by its dedup key: a redelivery finds the row and      *)
(* changes nothing.  An attempt is named by its process, since a process   *)
(* begins an event at most once.  Verification, the mapping of values, the *)
(* texts of reasons and the routing of a notice are left out.              *)
(***************************************************************************)
EXTENDS Naturals, FiniteSets

CONSTANTS
    Events,      \* dedup keys
    Triggers,    \* webhook triggers
    Procs,       \* engine processes on the same engine.db
    Null,
    MaxWaiting,  \* MAX_WAITING_EVENTS
    MaxFaults,   \* writes at a run's end that fail, at most
    MaxStalls    \* processes that stall, at most

ASSUME InboundEventsAssumption ==
    /\ Null \notin Events \union Triggers \union Procs
    /\ Null \notin {"done", "failed", "dropped"}
    /\ MaxWaiting \in Nat \ {0}
    /\ MaxFaults \in Nat /\ MaxStalls \in Nat

VARIABLES
    ev,       \* the ledger
    arrived,  \* deliveries recorded so far: received_at of the next one
    accepts,  \* triggers that accept events now (ACCEPTS_SQL)
    lease,    \* the triggers' leases
    proc,     \* the life of each process
    slow,     \* processes that stalled past their leases at some time
    recv,     \* the delivery each process has judged and not yet recorded
    drain,    \* where each process's drain is
    run,      \* the event each process runs for a trigger
    ran,      \* how often each event was started
    told,     \* how often the owner was told of each event
    faults

vars == <<ev, arrived, accepts, lease, proc, slow, recv, drain, run, ran, told, faults>>

State == {"absent", "received", "running", "done", "failed", "dropped"}

Row == [state : State,
        trigger : Triggers \union {Null},
        at : Nat,                          \* received_at
        attempt : Procs \union {Null},     \* attempt_id
        values : BOOLEAN,                  \* values_json is set
        reported : BOOLEAN,                \* reported_at is set
        unknown : BOOLEAN]                 \* unknown_reported_at is set

Lease == [holder : Procs \union {Null}, live : BOOLEAN]

\* handle, between countWaiting and record.
Delivery == [event : Events \union {Null}, trigger : Triggers \union {Null}, keep : BOOLEAN]

\* todo: what is left of triggersWithWork.  at "read" an event and the lost
\* ones have been read, without the lease; at "leased" it is held.
Drain == [todo : SUBSET Triggers,
          at : {"none", "read", "leased"},
          trigger : Triggers \union {Null},
          event : Events \union {Null},
          lost : SUBSET Events]

\* "settled": the outcome is written (or could not be), the lease still held.
Run == [phase : {"none", "running", "settled"}, event : Events \union {Null}]

TypeOK ==
    /\ ev \in [Events -> Row]
    /\ arrived \in Nat
    /\ accepts \in SUBSET Triggers
    /\ lease \in [Triggers -> Lease]
    /\ proc \in [Procs -> {"new", "up", "draining", "down"}]
    /\ slow \in SUBSET Procs
    /\ recv \in [Procs -> Delivery]
    /\ drain \in [Procs -> Drain]
    /\ run \in [Procs -> [Triggers -> Run]]
    /\ ran \in [Events -> Nat]
    /\ told \in [Events -> Nat]
    /\ faults \in 0..MaxFaults

NoRow == [state |-> "absent", trigger |-> Null, at |-> 0, attempt |-> Null,
          values |-> FALSE, reported |-> FALSE, unknown |-> FALSE]

NoDelivery == [event |-> Null, trigger |-> Null, keep |-> FALSE]

NoDrain == [todo |-> {}, at |-> "none", trigger |-> Null, event |-> Null, lost |-> {}]

NoRun == [phase |-> "none", event |-> Null]

Init ==
    /\ ev = [e \in Events |-> NoRow]
    /\ arrived = 0
    /\ accepts = Triggers
    /\ lease = [t \in Triggers |-> [holder |-> Null, live |-> FALSE]]
    /\ proc = [p \in Procs |-> "new"]
    /\ slow = {}
    /\ recv = [p \in Procs |-> NoDelivery]
    /\ drain = [p \in Procs |-> NoDrain]
    /\ run = [p \in Procs |-> [t \in Triggers |-> NoRun]]
    /\ ran = [e \in Events |-> 0]
    /\ told = [e \in Events |-> 0]
    /\ faults = 0

-----------------------------------------------------------------------------
(* Reading the ledger.                                                     *)

Of(t, states) == {e \in Events : ev[e].trigger = t /\ ev[e].state \in states}

Waiting(t) == Of(t, {"received"})

\* MUTANT: any waiting event will do.
IsOldest_Any(e, t) == e \in Waiting(t)

\* oldestReceived
IsOldest(e, t) == e \in Waiting(t) /\ \A f \in Waiting(t) : ev[e].at <= ev[f].at

\* MUTANT: only the dropped ones are listed.
UnreportedEnds_Dropped(t) == {e \in Of(t, {"dropped"}) : ~ev[e].reported}

UnreportedEnds(t) == {e \in Of(t, {"dropped", "failed"}) : ~ev[e].reported}

UnreportedRunning(t) == {e \in Of(t, {"running"}) : ~ev[e].unknown}

\* MUTANT: a trigger with a running event is not visited.
HasWork_NoneRunning(t) ==
    Of(t, {"running"}) = {} /\ Waiting(t) \union UnreportedEnds(t) # {}

\* MUTANT: what is lost is looked for only when something else is to be done.
HasWork_NoLost(t) == Waiting(t) \union UnreportedEnds(t) # {}

\* triggersWithWork
HasWork(t) == Waiting(t) \union UnreportedEnds(t) \union UnreportedRunning(t) # {}

-----------------------------------------------------------------------------
(* Rows and leases after a write.                                          *)

Dropped(r) == [r EXCEPT !.state = "dropped", !.values = FALSE]

\* finish: conditional on the attempt; only a failed event keeps its values
Finished(r, p, outcome) ==
    IF r.state = "running" /\ r.attempt = p
    THEN [r EXCEPT !.state = outcome, !.values = @ /\ outcome = "failed"]
    ELSE r

\* MUTANT: past the window a done or dropped event is deleted.
Swept_Deletes(r, before) ==
    IF r.at < before /\ (r.state = "done" \/ (r.state = "dropped" /\ r.reported))
    THEN NoRow
    ELSE r

\* sweepValues and tombstoneRows: the row and its key stay for good
Swept(r, before) ==
    IF r.at < before /\ (r.state = "done" \/ (r.state = "dropped" /\ r.reported))
    THEN [r EXCEPT !.values = FALSE, !.attempt = Null]
    ELSE IF r.at < before /\ r.state \in {"failed", "running"}
         THEN [r EXCEPT !.values = FALSE]
         ELSE r

\* releaseLease
Released(l, p) == IF l.holder = p THEN [holder |-> Null, live |-> FALSE] ELSE l

\* markReported or markUnknownReported, and the notice, for each event of es
\* (a run the owner or a paused plan ended is marked and not said again)
Tell(es) == told' = [e \in Events |-> IF e \in es THEN told[e] + 1 ELSE told[e]]

-----------------------------------------------------------------------------
(* The receiver.                                                           *)

\* MUTANT: every verified delivery is kept to run.
Kept_All(t, misdelivered) == TRUE

\* A delivery is kept to run, unless it is for another shop or over the cap.
Kept(t, misdelivered) == ~misdelivered /\ Cardinality(Waiting(t)) < MaxWaiting

\* The process's event loop is free: no delivery, no drain and no end of a run
\* is under way.
Idle(p) ==
    /\ proc[p] \in {"up", "draining"}
    /\ recv[p] = NoDelivery
    /\ drain[p] = NoDrain
    /\ \A t \in Triggers : run[p][t].phase # "settled"

\* handle, a verified delivery whose key is not here yet: whether it is to run
\* is judged by what waits now.  The trigger accepted events when the request
\* began; it may have stopped while the body was read.
Judge(p, e, t, misdelivered) ==
    /\ proc[p] = "up" /\ Idle(p)
    /\ ev[e].state = "absent"
    /\ recv' = [recv EXCEPT ![p] =
                  [event |-> e, trigger |-> t, keep |-> Kept(t, misdelivered)]]
    /\ UNCHANGED <<ev, arrived, accepts, lease, proc, slow, drain, run, ran, told, faults>>

\* record: a key that has come here meanwhile changes nothing.
Record(p) ==
    LET d == recv[p]
        row == [NoRow EXCEPT !.state = IF d.keep THEN "received" ELSE "dropped",
                             !.trigger = d.trigger,
                             !.at = arrived,
                             !.values = d.keep]
    IN /\ d # NoDelivery
       /\ recv' = [recv EXCEPT ![p] = NoDelivery]
       /\ IF ev[d.event].state = "absent"
          THEN /\ ev' = [ev EXCEPT ![d.event] = row]
               /\ arrived' = arrived + 1
          ELSE UNCHANGED <<ev, arrived>>
       /\ UNCHANGED <<accepts, lease, proc, slow, drain, run, ran, told, faults>>

-----------------------------------------------------------------------------
(* The drain of a process: one synchronous stretch of a tick.  The steps   *)
(* of other processes fall between its statements.                         *)

Busy(p, t) == run[p][t].phase # "none"

\* A tick's drain begins: what is past the window goes, the work is listed.
DrainOpen(p) ==
    /\ proc[p] = "up" /\ Idle(p)
    /\ \E windowStart \in 0..arrived : ev' = [e \in Events |-> Swept(ev[e], windowStart)]
    /\ drain' = [drain EXCEPT ![p].todo = {t \in Triggers : HasWork(t)}]
    /\ UNCHANGED <<arrived, accepts, lease, proc, slow, recv, run, ran, told, faults>>

\* The drain comes to t: the events that ended and were not told are told, ...
Turn(p, t) ==
    /\ t \in drain[p].todo
    /\ drain[p].at = "none"
    /\ Tell(UnreportedEnds(t))

\* ... which is marked on their rows; es are dropped in this turn.
Told(t, es) ==
    [e \in Events |->
        IF e \in UnreportedEnds(t) THEN [ev[e] EXCEPT !.reported = TRUE]
        ELSE IF e \in es THEN Dropped(ev[e])
        ELSE ev[e]]

Pass(p, t, es) ==
    /\ Turn(p, t)
    /\ ev' = Told(t, es)
    /\ drain' = [drain EXCEPT ![p].todo = @ \ {t}]
    /\ UNCHANGED <<arrived, accepts, lease, proc, slow, recv, run, ran, faults>>

\* ... and that is all if this process runs t now.
PassBusy(p, t) == Busy(p, t) /\ Pass(p, t, {})

\* A trigger that no longer accepts events loses the ones that wait.
PassNotLive(p, t) == ~Busy(p, t) /\ t \notin accepts /\ Pass(p, t, Waiting(t))

\* The connection of the trigger serves another shop now.
PassShopMoved(p, t) ==
    /\ ~Busy(p, t) /\ t \in accepts
    /\ \E e \in Events : IsOldest(e, t) /\ Pass(p, t, {e})

\* Nothing to run and nothing lost, or the budget is used up.
PassDeferred(p, t) == ~Busy(p, t) /\ t \in accepts /\ Pass(p, t, {})

\* Otherwise the oldest event, if any, and the lost ones have been read.
PassRead(p, t) ==
    /\ ~Busy(p, t) /\ t \in accepts
    /\ Turn(p, t)
    /\ ev' = Told(t, {})
    /\ Waiting(t) \union UnreportedRunning(t) # {}
    /\ \E e \in Events \union {Null} :
          /\ IF Waiting(t) = {} THEN e = Null ELSE e # Null /\ IsOldest(e, t)
          /\ drain' = [drain EXCEPT ![p] =
                         [todo |-> @.todo \ {t}, at |-> "read", trigger |-> t,
                          event |-> e, lost |-> UnreportedRunning(t)]]
    /\ UNCHANGED <<arrived, accepts, lease, proc, slow, recv, run, ran, faults>>

Visit(p, t) ==
    \/ PassBusy(p, t) \/ PassNotLive(p, t) \/ PassShopMoved(p, t)
    \/ PassDeferred(p, t) \/ PassRead(p, t)

\* The drain goes on to the next trigger of its list.
Onward(p) == drain' = [drain EXCEPT ![p] = [NoDrain EXCEPT !.todo = drain[p].todo]]

\* MUTANT: a held lease does not hold the drain up.
TakeLease_Held(p) ==
    /\ drain[p].at = "read"
    /\ drain' = [drain EXCEPT ![p].at = "leased"]
    /\ UNCHANGED <<ev, arrived, accepts, lease, proc, slow, recv, run, ran, told, faults>>

\* takeLease: claimed, ...
TakeLease(p) ==
    /\ drain[p].at = "read"
    /\ ~lease[drain[p].trigger].live
    /\ lease' = [lease EXCEPT ![drain[p].trigger] = [holder |-> p, live |-> TRUE]]
    /\ drain' = [drain EXCEPT ![p].at = "leased"]
    /\ UNCHANGED <<ev, arrived, accepts, proc, slow, recv, run, ran, told, faults>>

\* ... or held by another process, or the store threw.
NoLease(p) ==
    /\ drain[p].at = "read"
    /\ Onward(p)
    /\ UNCHANGED <<ev, arrived, accepts, lease, proc, slow, recv, run, ran, told, faults>>

\* MUTANT: what was untold before the lease was taken is told.
StillLost_Read(p) == {e \in drain[p].lost : ev[e].state = "running"}

\* The lost events that are still running and untold.
StillLost(p) == {e \in drain[p].lost : ev[e].state = "running" /\ ~ev[e].unknown}

\* begin is conditional on the row still being `received`.
CanBegin(p) == drain[p].event # Null /\ ev[drain[p].event].state = "received"

\* Under the lease: what is lost is told, and the event's next state written.
Marked(p, state) ==
    [e \in Events |->
        IF e \in StillLost(p) THEN [ev[e] EXCEPT !.unknown = TRUE]
        ELSE IF e = drain[p].event /\ CanBegin(p)
             THEN [ev[e] EXCEPT !.state = state, !.attempt = p]
             ELSE ev[e]]

\* The event is begun and its run starts, with the values read before.
Begin(p) ==
    /\ drain[p].at = "leased"
    /\ CanBegin(p)
    /\ ev' = Marked(p, "running")
    /\ Tell(StillLost(p))
    /\ run' = [run EXCEPT ![p][drain[p].trigger] =
                 [phase |-> "running", event |-> drain[p].event]]
    /\ ran' = [ran EXCEPT ![drain[p].event] = @ + 1]
    /\ Onward(p)
    /\ UNCHANGED <<arrived, accepts, lease, proc, slow, recv, faults>>

\* Nothing to begin any more, or its values cannot be read: begun and failed
\* at once.  The lease is given back.
BeginNothing(p) ==
    /\ drain[p].at = "leased"
    /\ ev' = Marked(p, "failed")
    /\ Tell(StillLost(p))
    /\ lease' = [lease EXCEPT ![drain[p].trigger] = Released(@, p)]
    /\ Onward(p)
    /\ UNCHANGED <<arrived, accepts, proc, slow, recv, run, ran, faults>>

-----------------------------------------------------------------------------
(* A run.                                                                  *)

\* outcomeOfRun: a run that ended without setting one (Null) failed
OutcomeOfRun(set) == IF set = Null THEN "failed" ELSE set

\* The run has ended: its outcome is written, or the write fails.
Settle(p, t, set) ==
    /\ Idle(p)
    /\ run[p][t].phase = "running"
    /\ run' = [run EXCEPT ![p][t].phase = "settled"]
    /\ \/ /\ ev' = [ev EXCEPT ![run[p][t].event] = Finished(@, p, OutcomeOfRun(set))]
          /\ faults' = faults
       \/ /\ faults < MaxFaults
          /\ faults' = faults + 1
          /\ ev' = ev
    /\ UNCHANGED <<arrived, accepts, lease, proc, slow, recv, drain, ran, told>>

\* MUTANT: the lease is given up before the outcome is written.
Release_BeforeOutcome(p, t) ==
    /\ Busy(p, t)
    /\ run' = [run EXCEPT ![p][t] = IF @.phase = "settled" THEN NoRun ELSE @]
    /\ lease' = [lease EXCEPT ![t] = Released(@, p)]
    /\ UNCHANGED <<ev, arrived, accepts, proc, slow, recv, drain, ran, told, faults>>

\* Then the lease is given up; if that write fails, it is left to lapse.
Release(p, t) ==
    /\ run[p][t].phase = "settled"
    /\ run' = [run EXCEPT ![p][t] = NoRun]
    /\ \/ /\ lease' = [lease EXCEPT ![t] = Released(@, p)]
          /\ faults' = faults
       \/ /\ faults < MaxFaults
          /\ faults' = faults + 1
          /\ lease' = lease
    /\ UNCHANGED <<ev, arrived, accepts, proc, slow, recv, drain, ran, told>>

\* The heartbeat of a run that came back in time to find its lease not taken.
Renew(p, t) ==
    /\ Idle(p) /\ Busy(p, t)
    /\ lease[t].holder = p
    /\ lease' = [lease EXCEPT ![t].live = TRUE]
    /\ UNCHANGED <<ev, arrived, accepts, proc, slow, recv, drain, run, ran, told, faults>>

-----------------------------------------------------------------------------
(* The owner, the processes and time.                                      *)

\* The trigger is switched off (disabled, stopped, deleted, paused) or on.
Switch(t) ==
    /\ accepts' = IF t \in accepts THEN accepts \ {t} ELSE accepts \union {t}
    /\ UNCHANGED <<ev, arrived, lease, proc, slow, recv, drain, run, ran, told, faults>>

Boot(p) ==
    /\ proc[p] = "new"
    /\ proc' = [proc EXCEPT ![p] = "up"]
    /\ UNCHANGED <<ev, arrived, accepts, lease, slow, recv, drain, run, ran, told, faults>>

\* WorkerLoop.stop: no more ticks; the runs go on to their end.
Stop(p) ==
    /\ proc[p] = "up" /\ Idle(p)
    /\ \E q \in Procs : proc[q] = "new"
    /\ proc' = [proc EXCEPT ![p] = "draining"]
    /\ UNCHANGED <<ev, arrived, accepts, lease, slow, recv, drain, run, ran, told, faults>>

\* The process is gone, with its runs.  (One is always left to take over.)
Crash(p) ==
    /\ \/ proc[p] = "up" /\ \E q \in Procs : proc[q] = "new"
       \/ proc[p] = "draining"
    /\ proc' = [proc EXCEPT ![p] = "down"]
    /\ recv' = [recv EXCEPT ![p] = NoDelivery]
    /\ drain' = [drain EXCEPT ![p] = NoDrain]
    /\ run' = [run EXCEPT ![p] = [t \in Triggers |-> NoRun]]
    /\ UNCHANGED <<ev, arrived, accepts, lease, slow, ran, told, faults>>

\* The process that holds t's lease is at work on t.
AtWork(t) ==
    LET p == lease[t].holder
    IN p # Null /\ (Busy(p, t) \/ (drain[p].at = "leased" /\ drain[p].trigger = t))

\* A lease nobody renews lapses: its process is gone, or left it behind.
LeaseLapses(t) ==
    /\ lease[t].live
    /\ ~AtWork(t)
    /\ lease' = [lease EXCEPT ![t].live = FALSE]
    /\ UNCHANGED <<ev, arrived, accepts, proc, slow, recv, drain, run, ran, told, faults>>

\* A process stalls, or its machine sleeps, for longer than its lease lasts.
Stall(t) ==
    /\ lease[t].live
    /\ AtWork(t)
    /\ Cardinality(slow) < MaxStalls
    /\ slow' = slow \union {lease[t].holder}
    /\ lease' = [lease EXCEPT ![t].live = FALSE]
    /\ UNCHANGED <<ev, arrived, accepts, proc, recv, drain, run, ran, told, faults>>

Next ==
    \/ \E p \in Procs, e \in Events, t \in Triggers, misdelivered \in BOOLEAN :
          Judge(p, e, t, misdelivered)
    \/ \E p \in Procs :
          \/ Record(p)
          \/ DrainOpen(p)
          \/ TakeLease(p) \/ NoLease(p)
          \/ Begin(p) \/ BeginNothing(p)
          \/ Boot(p) \/ Stop(p) \/ Crash(p)
    \/ \E p \in Procs, t \in Triggers :
          \/ Visit(p, t)
          \/ \E set \in {Null, "done", "failed", "dropped"} : Settle(p, t, set)
          \/ Release(p, t)
          \/ Renew(p, t)
    \/ \E t \in Triggers : Switch(t) \/ LeaseLapses(t) \/ Stall(t)

Spec == Init /\ [][Next]_vars

(***************************************************************************)
(* The tick comes round every minute in a process that is up, and finishes *)
(* its drain; a replacement boots; a lease nobody renews lapses.  A run's  *)
(* end is not assumed, but a run that ended gives its lease up.  The       *)
(* budget, a store error or another process's lease may hold a trigger up, *)
(* not for ever.                                                           *)
(***************************************************************************)
Fairness ==
    /\ \A p \in Procs :
          /\ WF_vars(Boot(p))
          /\ WF_vars(Record(p))
          /\ WF_vars(DrainOpen(p))
          /\ WF_vars(TakeLease(p) \/ NoLease(p))
          /\ SF_vars(TakeLease(p))
          /\ WF_vars(Begin(p) \/ BeginNothing(p))
          /\ \A t \in Triggers :
                /\ WF_vars(Visit(p, t))
                /\ SF_vars(PassRead(p, t))
                /\ WF_vars(Release(p, t))
    /\ \A t \in Triggers : WF_vars(LeaseLapses(t))

FairSpec == Spec /\ Fairness

-----------------------------------------------------------------------------
(* Properties.                                                             *)

\* A body is run at most once, however often and wherever it is delivered,
\* whoever drains it, whatever crashes in between and however long ago it ran.
RunsOnce == \A e \in Events : ran[e] <= 1

\* Two events of a trigger are run at the same time only after a process
\* stalled past its lease.
OneRunPerTrigger ==
    \A p, q \in Procs, t \in Triggers :
        p # q /\ run[p][t].phase = "running" /\ run[q][t].phase = "running"
            => p \in slow \/ q \in slow

\* An event is told to be of unknown outcome only if its run is gone, has ended
\* without its outcome written, or is in a process that stalled: the outcome is
\* written while the lease is held, and the lost rows are marked under it.
UnknownOnlyIfLost ==
    [][\A e \in Events :
          ~ev[e].unknown /\ ev'[e].unknown =>
             LET p == ev[e].attempt
             IN \/ p \in slow
                \/ ~\E t \in Triggers : run[p][t].event = e]_vars

\* The owner is told of an event once; twice only if its run was taken for lost
\* while its process was slow.
ToldOnce ==
    \A e \in Events : told[e] <= 1 \/ (told[e] = 2 /\ ev[e].unknown /\ slow # {})

Booted == {p \in Procs : proc[p] # "new"}

\* One process keeps a trigger's queue within MAX_WAITING_EVENTS; each further one
\* can take it one past, since a delivery is judged by the count and recorded in
\* two statements.
QueueBounded ==
    \A t \in Triggers :
        Waiting(t) # {} => Cardinality(Waiting(t)) < MaxWaiting + Cardinality(Booted)

\* Events of a trigger start in the order in which they came.
StartsInOrder ==
    [][\A e, f \in Events :
          /\ ev[e].state = "received" /\ ev'[e].state = "running"
          /\ ev[f].state = "received" /\ ev[f].trigger = ev[e].trigger
          => ev[e].at <= ev[f].at]_vars

\* Runs end again and again: no process is busy for ever.
RunsEnd == []<>(\A p \in Procs, t \in Triggers : run[p][t].phase = "none")

\* An event does not wait for ever behind runs that do end, or behind a run or a
\* lease that a lost process left: it is run, or dropped.
EventLeaves ==
    \A e \in Events :
        RunsEnd => (ev[e].state = "received" ~> ev[e].state # "received")

\* Every event that was dropped or failed is reported to the owner, by a drain of
\* whichever process is left.
EndIsTold ==
    \A e \in Events :
        ev[e].state \in {"dropped", "failed"} ~> ev[e].reported

Lost(e) == ev[e].state = "running" /\ proc[ev[e].attempt] = "down"

\* A running event whose process is gone is reported to be of unknown outcome,
\* if its trigger goes on accepting events.
LostIsToldIfAccepting ==
    \A e \in Events :
        RunsEnd => (Lost(e) ~> ev[e].unknown \/ ev[e].trigger \notin accepts)

=============================================================================
