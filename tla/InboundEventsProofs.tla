-------------------------- MODULE InboundEventsProofs --------------------------
(***************************************************************************)
(* The event ledger and its drain for every number of bodies, triggers and *)
(* processes, and every number of stalls and lost outcomes.                *)
(***************************************************************************)
EXTENDS InboundEvents, FiniteSetTheorems, TLAPS

-----------------------------------------------------------------------------
(* What the row and lease writers return.                                  *)

\* The drain's and the run's writes keep a row a row.
LEMMA WrittenRow ==
    ASSUME NEW r \in Row
    PROVE  /\ Dropped(r) \in Row
           /\ \A n \in Nat : Swept(r, n) \in Row
           /\ \A p \in Procs, o \in {"done", "failed", "dropped"} : Finished(r, p, o) \in Row
<1>1. Dropped(r) \in Row
  BY DEF Dropped, Row, State
<1>2. ASSUME NEW n \in Nat
      PROVE  Swept(r, n) \in Row
  BY DEF Swept, Row, State
<1>3. ASSUME NEW p \in Procs, NEW o \in {"done", "failed", "dropped"}
      PROVE  Finished(r, p, o) \in Row
  <2>1. (r.values /\ o = "failed") \in BOOLEAN
    BY DEF Row
  <2> QED
    BY <2>1 DEF Finished, Row, State
<1> QED
  BY <1>1, <1>2, <1>3

\* Marking a row keeps it a row.
LEMMA MarkedRow ==
    ASSUME NEW r \in Row
    PROVE  /\ [r EXCEPT !.reported = TRUE] \in Row
           /\ [r EXCEPT !.unknown = TRUE] \in Row
           /\ \A s \in State, p \in Procs : [r EXCEPT !.state = s, !.attempt = p] \in Row
BY DEF Row

\* Giving a lease up touches nobody else's.
LEMMA ReleasedLease ==
    ASSUME NEW l \in Lease, NEW p \in Procs
    PROVE  /\ Released(l, p) \in Lease
           /\ l.holder # p => Released(l, p) = l
BY DEF Released, Lease

-----------------------------------------------------------------------------
(* Type correctness.                                                       *)

\* The initial state is well typed.
LEMMA InitType == Init => TypeOK
BY InboundEventsAssumption
   DEF Init, TypeOK, NoRow, Row, State, Lease, NoDelivery, Delivery, NoDrain, Drain,
       NoRun, Run

\* The ledger after a drain's turn or under the lease.
LEMMA LedgerType ==
    ASSUME TypeOK
    PROVE  /\ \A t \in Triggers, es \in SUBSET Events : Told(t, es) \in [Events -> Row]
           /\ \A p \in Procs, s \in {"running", "failed"} : Marked(p, s) \in [Events -> Row]
           /\ \A n \in Nat : [e \in Events |-> Swept(ev[e], n)] \in [Events -> Row]
<1>1. \A e \in Events : ev[e] \in Row
  BY DEF TypeOK
<1>2. ASSUME NEW t \in Triggers, NEW es \in SUBSET Events
      PROVE  Told(t, es) \in [Events -> Row]
  BY <1>1, WrittenRow, MarkedRow DEF Told
<1>3. ASSUME NEW p \in Procs, NEW s \in {"running", "failed"}
      PROVE  Marked(p, s) \in [Events -> Row]
  <2>1. s \in State
    BY DEF State
  <2> QED
    BY <1>1, <2>1, MarkedRow DEF Marked
<1>4. ASSUME NEW n \in Nat
      PROVE  [e \in Events |-> Swept(ev[e], n)] \in [Events -> Row]
  BY <1>1, WrittenRow
<1> QED
  BY <1>2, <1>3, <1>4

\* Telling the owner counts up.
LEMMA TellType ==
    ASSUME TypeOK, NEW es, Tell(es)
    PROVE  told' \in [Events -> Nat]
BY DEF TypeOK, Tell

\* A drain that goes on keeps its type,
LEMMA OnwardType ==
    ASSUME TypeOK, NEW p \in Procs, Onward(p)
    PROVE  drain' \in [Procs -> Drain]
<1>1. [NoDrain EXCEPT !.todo = drain[p].todo] \in Drain
  BY DEF TypeOK, NoDrain, Drain
<1> QED
  BY <1>1 DEF TypeOK, Onward

\* as it does with a shorter list.
LEMMA TodoType ==
    ASSUME NEW d \in Drain, NEW ts \in SUBSET Triggers
    PROVE  [d EXCEPT !.todo = ts] \in Drain
BY DEF Drain

\* A trigger's turn that ends early.
LEMMA PassType ==
    ASSUME TypeOK, NEW p \in Procs, NEW t \in Triggers, NEW es \in SUBSET Events, Pass(p, t, es)
    PROVE  TypeOK'
<1>1. ev' \in [Events -> Row] /\ told' \in [Events -> Nat]
  BY LedgerType, TellType DEF Pass, Turn
<1>2. [drain[p] EXCEPT !.todo = @ \ {t}] \in Drain
  <2>1. drain[p] \in Drain
    BY DEF TypeOK
  <2>2. drain[p].todo \ {t} \in SUBSET Triggers
    BY <2>1 DEF Drain
  <2> QED
    BY <2>1, <2>2, TodoType
<1>3. drain' \in [Procs -> Drain]
  BY <1>2 DEF TypeOK, Pass
<1> QED
  BY <1>1, <1>3 DEF TypeOK, Pass

\* A trigger's turn that begins.
LEMMA VisitType ==
    ASSUME TypeOK, NEW p \in Procs, NEW t \in Triggers, Visit(p, t)
    PROVE  TypeOK'
<1>0. {} \in SUBSET Events /\ Waiting(t) \in SUBSET Events /\ \A e \in Events : {e} \in SUBSET Events
  BY DEF Waiting, Of
<1>1. CASE PassBusy(p, t)
  BY <1>0, <1>1, PassType DEF PassBusy
<1>2. CASE PassNotLive(p, t)
  BY <1>0, <1>2, PassType DEF PassNotLive
<1>3. CASE PassShopMoved(p, t)
  BY <1>0, <1>3, PassType DEF PassShopMoved
<1>4. CASE PassDeferred(p, t)
  BY <1>0, <1>4, PassType DEF PassDeferred
<1>5. CASE PassRead(p, t)
  <2>1. ev' \in [Events -> Row] /\ told' \in [Events -> Nat]
    BY <1>0, <1>5, LedgerType, TellType DEF PassRead, Turn
  <2>2. PICK e \in Events \union {Null} :
           drain' = [drain EXCEPT ![p] =
                       [todo |-> drain[p].todo \ {t}, at |-> "read", trigger |-> t,
                        event |-> e, lost |-> UnreportedRunning(t)]]
    BY <1>5 DEF PassRead
  <2>3. UnreportedRunning(t) \in SUBSET Events /\ drain[p].todo \ {t} \in SUBSET Triggers
    BY DEF UnreportedRunning, Of, TypeOK, Drain
  <2>4. drain' \in [Procs -> Drain]
    BY <2>2, <2>3 DEF TypeOK, Drain
  <2> QED
    BY <1>5, <2>1, <2>4 DEF TypeOK, PassRead
<1> QED
  BY <1>1, <1>2, <1>3, <1>4, <1>5 DEF Visit

\* What remains of the actions, one by one.
LEMMA NextType == TypeOK /\ [Next]_vars => TypeOK'
<1> SUFFICES ASSUME TypeOK, [Next]_vars
             PROVE  TypeOK'
  OBVIOUS
<1>1. ASSUME NEW p \in Procs, NEW e \in Events, NEW t \in Triggers, NEW b \in BOOLEAN,
             Judge(p, e, t, b)
      PROVE  TypeOK'
  <2>1. Kept(t, b) \in BOOLEAN
    BY DEF Kept
  <2>2. [event |-> e, trigger |-> t, keep |-> Kept(t, b)] \in Delivery
    BY <2>1 DEF Delivery
  <2> QED
    BY <1>1, <2>2 DEF TypeOK, Judge
<1>2. ASSUME NEW p \in Procs, Record(p)
      PROVE  TypeOK'
  <2> DEFINE d == recv[p]
             row == [NoRow EXCEPT !.state = IF d.keep THEN "received" ELSE "dropped",
                                  !.trigger = d.trigger,
                                  !.at = arrived,
                                  !.values = d.keep]
  <2>1. row \in Row
    BY InboundEventsAssumption DEF TypeOK, Delivery, NoRow, Row, State
  <2>2. NoDelivery \in Delivery
    BY DEF NoDelivery, Delivery
  <2>3. recv' \in [Procs -> Delivery]
    BY <1>2, <2>2 DEF TypeOK, Record
  <2>4. \/ ev' = [ev EXCEPT ![d.event] = row] /\ arrived' = arrived + 1
        \/ ev' = ev /\ arrived' = arrived
    BY <1>2 DEF Record
  <2> HIDE DEF row, d
  <2>5. ev' \in [Events -> Row] /\ arrived' \in Nat
    BY <2>1, <2>4 DEF TypeOK
  <2> QED
    BY <1>2, <2>3, <2>5 DEF TypeOK, Record
<1>3. ASSUME NEW p \in Procs, DrainOpen(p)
      PROVE  TypeOK'
  <2>1. ev' \in [Events -> Row]
    <3>1. PICK n \in 0..arrived : ev' = [e \in Events |-> Swept(ev[e], n)]
      BY <1>3 DEF DrainOpen
    <3>2. n \in Nat
      BY DEF TypeOK
    <3> QED
      BY <3>1, <3>2, LedgerType
  <2>2. drain[p] \in Drain /\ {t \in Triggers : HasWork(t)} \in SUBSET Triggers
    BY DEF TypeOK
  <2>3. [drain[p] EXCEPT !.todo = {t \in Triggers : HasWork(t)}] \in Drain
    BY <2>2, TodoType
  <2>4. drain' = [drain EXCEPT ![p] = [drain[p] EXCEPT !.todo = {t \in Triggers : HasWork(t)}]]
    BY <1>3 DEF DrainOpen
  <2>5. drain' \in [Procs -> Drain]
    BY <2>3, <2>4 DEF TypeOK
  <2> QED
    BY <1>3, <2>1, <2>5 DEF TypeOK, DrainOpen
<1>4. ASSUME NEW p \in Procs, NEW t \in Triggers, Visit(p, t)
      PROVE  TypeOK'
  BY <1>4, VisitType
<1>5. ASSUME NEW p \in Procs, TakeLease(p)
      PROVE  TypeOK'
  <2>1. [holder |-> p, live |-> TRUE] \in Lease
    BY DEF Lease
  <2>2. [drain[p] EXCEPT !.at = "leased"] \in Drain
    <3>1. drain[p] \in Drain
      BY DEF TypeOK
    <3> QED
      BY <3>1 DEF Drain
  <2> QED
    BY <1>5, <2>1, <2>2 DEF TypeOK, TakeLease
<1>6. ASSUME NEW p \in Procs, NoLease(p)
      PROVE  TypeOK'
  BY <1>6, OnwardType DEF TypeOK, NoLease
<1>7. ASSUME NEW p \in Procs, Begin(p)
      PROVE  TypeOK'
  <2>1. ev' \in [Events -> Row] /\ told' \in [Events -> Nat] /\ drain' \in [Procs -> Drain]
    BY <1>7, LedgerType, TellType, OnwardType DEF Begin
  <2>2. [phase |-> "running", event |-> drain[p].event] \in Run
    BY DEF TypeOK, Drain, Run
  <2>3. run' \in [Procs -> [Triggers -> Run]]
    BY <1>7, <2>2 DEF TypeOK, Begin
  <2>4. ran' \in [Events -> Nat]
    <3>1. drain[p].event \in Events
      BY <1>7 DEF TypeOK, Drain, Begin, CanBegin
    <3>2. ran[drain[p].event] + 1 \in Nat
      BY <3>1 DEF TypeOK
    <3>3. ran' = [ran EXCEPT ![drain[p].event] = ran[drain[p].event] + 1]
      BY <1>7 DEF Begin
    <3> QED
      BY <3>2, <3>3 DEF TypeOK
  <2> QED
    BY <1>7, <2>1, <2>3, <2>4 DEF TypeOK, Begin
<1>8. ASSUME NEW p \in Procs, BeginNothing(p)
      PROVE  TypeOK'
  <2>1. ev' \in [Events -> Row] /\ told' \in [Events -> Nat] /\ drain' \in [Procs -> Drain]
    BY <1>8, LedgerType, TellType, OnwardType DEF BeginNothing
  <2>2. lease' \in [Triggers -> Lease]
    BY <1>8, ReleasedLease DEF TypeOK, BeginNothing
  <2> QED
    BY <1>8, <2>1, <2>2 DEF TypeOK, BeginNothing
<1>9. ASSUME NEW p \in Procs, Boot(p) \/ Stop(p)
      PROVE  TypeOK'
  BY <1>9 DEF TypeOK, Boot, Stop
<1>10. ASSUME NEW p \in Procs, Crash(p)
       PROVE  TypeOK'
  <2>1. NoDrain \in Drain /\ NoDelivery \in Delivery /\ NoRun \in Run
    BY DEF NoDrain, Drain, NoDelivery, Delivery, NoRun, Run
  <2>2. [t \in Triggers |-> NoRun] \in [Triggers -> Run]
    BY <2>1
  <2> QED
    BY <1>10, <2>1, <2>2 DEF TypeOK, Crash
<1>11. ASSUME NEW p \in Procs, NEW t \in Triggers,
              NEW set \in {Null, "done", "failed", "dropped"}, Settle(p, t, set)
       PROVE  TypeOK'
  <2>1. OutcomeOfRun(set) \in {"done", "failed", "dropped"}
    BY DEF OutcomeOfRun
  <2>2. [run[p][t] EXCEPT !.phase = "settled"] \in Run
    BY DEF TypeOK, Run
  <2>3. run' = [run EXCEPT ![p] = [run[p] EXCEPT ![t] = [run[p][t] EXCEPT !.phase = "settled"]]]
    BY <1>11 DEF Settle
  <2>4. run' \in [Procs -> [Triggers -> Run]]
    BY <2>2, <2>3 DEF TypeOK
  <2>5. \A e \in Events : Finished(ev[e], p, OutcomeOfRun(set)) \in Row
    BY <2>1, WrittenRow DEF TypeOK
  <2>6. ev' \in [Events -> Row] /\ faults' \in 0..MaxFaults
    BY <1>11, <2>5, InboundEventsAssumption DEF TypeOK, Settle
  <2> QED
    BY <1>11, <2>4, <2>6 DEF TypeOK, Settle
<1>12. ASSUME NEW p \in Procs, NEW t \in Triggers, Release(p, t)
       PROVE  TypeOK'
  <2>1. run' \in [Procs -> [Triggers -> Run]]
    <3>1. NoRun \in Run
      BY DEF NoRun, Run
    <3> QED
      BY <1>12, <3>1 DEF TypeOK, Release
  <2>2. lease' \in [Triggers -> Lease]
    <3>1. Released(lease[t], p) \in Lease
      BY ReleasedLease DEF TypeOK
    <3>2. \/ lease' = [lease EXCEPT ![t] = Released(lease[t], p)]
          \/ lease' = lease
      BY <1>12 DEF Release
    <3> QED
      BY <3>1, <3>2 DEF TypeOK
  <2>3. faults' \in 0..MaxFaults
    BY <1>12, InboundEventsAssumption DEF TypeOK, Release
  <2> QED
    BY <1>12, <2>1, <2>2, <2>3 DEF TypeOK, Release
<1>13. ASSUME NEW p \in Procs, NEW t \in Triggers, Renew(p, t)
       PROVE  TypeOK'
  <2>1. [lease[t] EXCEPT !.live = TRUE] \in Lease
    BY DEF TypeOK, Lease
  <2> QED
    BY <1>13, <2>1 DEF TypeOK, Renew
<1>14. ASSUME NEW t \in Triggers, Switch(t)
       PROVE  TypeOK'
  BY <1>14 DEF TypeOK, Switch
<1>15. ASSUME NEW t \in Triggers, LeaseLapses(t) \/ Stall(t)
       PROVE  TypeOK'
  <2>1. [lease[t] EXCEPT !.live = FALSE] \in Lease
    BY DEF TypeOK, Lease
  <2>2. lease' = [lease EXCEPT ![t] = [lease[t] EXCEPT !.live = FALSE]]
    BY <1>15 DEF LeaseLapses, Stall
  <2>3. lease' \in [Triggers -> Lease]
    BY <2>1, <2>2 DEF TypeOK
  <2>4. slow' \in SUBSET Procs
    <3>1. CASE LeaseLapses(t)
      BY <3>1 DEF TypeOK, LeaseLapses
    <3>2. CASE Stall(t)
      <4>1. lease[t].holder \in Procs
        BY <3>2 DEF TypeOK, Lease, Stall, AtWork
      <4> QED
        BY <3>2, <4>1 DEF TypeOK, Stall
    <3> QED
      BY <1>15, <3>1, <3>2
  <2> QED
    BY <1>15, <2>3, <2>4 DEF TypeOK, LeaseLapses, Stall
<1>16. CASE UNCHANGED vars
  BY <1>16 DEF TypeOK, vars
<1> QED
  BY <1>1, <1>2, <1>3, <1>4, <1>5, <1>6, <1>7, <1>8, <1>9, <1>10, <1>11, <1>12, <1>13,
     <1>14, <1>15, <1>16 DEF Next

\* The ledger, the leases, the drains and the runs keep their types.
THEOREM TypeCorrect == Spec => []TypeOK
BY InitType, NextType, PTL DEF Spec

-----------------------------------------------------------------------------
(* The inductive invariant.                                                *)

Unstarted == {"absent", "received"}

\* An event that has not left the queue has not been started, none was started
\* twice, and one that runs has its attempt on its row.
EventsInv ==
    /\ \A e \in Events : ev[e].state \in Unstarted => ran[e] = 0
    /\ \A e \in Events : ran[e] <= 1
    /\ \A e \in Events : ev[e].state = "running" => ev[e].attempt \in Procs

\* A run's event has left its trigger's queue.
RunsInv ==
    \A p \in Procs, t \in Triggers :
        /\ run[p][t].event = Null <=> ~Busy(p, t)
        /\ run[p][t].event # Null =>
              /\ ev[run[p][t].event].trigger = t
              /\ ev[run[p][t].event].state \notin Unstarted

\* What a drain has read is of its trigger, and what it takes for lost has left
\* the queue; it came here because its own process does not run the trigger.
DrainInv ==
    \A p \in Procs : drain[p].at # "none" =>
        /\ drain[p].trigger \in Triggers
        /\ ~Busy(p, drain[p].trigger)
        /\ drain[p].event # Null =>
              /\ ev[drain[p].event].trigger = drain[p].trigger
              /\ ev[drain[p].event].state # "absent"
        /\ \A e \in drain[p].lost :
              /\ ev[e].trigger = drain[p].trigger
              /\ ev[e].state \notin Unstarted

Leased(p, t) == drain[p].at = "leased" /\ drain[p].trigger = t

\* A process that never stalled holds the live lease of what it is at work on.
LeaseInv ==
    \A p \in Procs, t \in Triggers :
        p \notin slow /\ (Busy(p, t) \/ Leased(p, t)) => lease[t] = [holder |-> p, live |-> TRUE]

\* Once the lease is taken, what was read as lost has no run left, unless in a
\* process that stalled.
LostInv ==
    \A p \in Procs : drain[p].at = "leased" =>
        \A e \in drain[p].lost : ev[e].state = "running" =>
            \/ ev[e].attempt \in slow
            \/ \A t \in Triggers : run[ev[e].attempt][t].event # e

IInv == TypeOK /\ EventsInv /\ RunsInv /\ DrainInv /\ LeaseInv /\ LostInv

\* At the start the ledger is empty and nothing runs.
LEMMA InitIInv == Init => IInv
<1> SUFFICES ASSUME Init
             PROVE  IInv
  OBVIOUS
<1>1. TypeOK
  BY InitType
<1>2. EventsInv
  BY DEF Init, EventsInv, NoRow
<1>3. RunsInv
  BY DEF Init, RunsInv, NoRun, Busy
<1>4. DrainInv /\ LostInv
  BY DEF Init, DrainInv, LostInv, NoDrain
<1>5. LeaseInv
  BY DEF Init, LeaseInv, NoDrain, NoRun, Busy, Leased
<1> QED
  BY <1>1, <1>2, <1>3, <1>4, <1>5 DEF IInv

-----------------------------------------------------------------------------
(* What a step that begins nothing does to a row.                          *)

Quiet(e) ==
    /\ ev[e].state # "absent" => ev'[e].state # "absent" /\ ev'[e].trigger = ev[e].trigger
    /\ ev'[e].state \in Unstarted => ev[e].state \in Unstarted
    /\ ev'[e].state = "running" => ev[e].state = "running" /\ ev'[e].attempt = ev[e].attempt

\* Telling starts nothing and forgets no start;
LEMMA TurnIsQuiet ==
    ASSUME TypeOK, NEW t \in Triggers, NEW es \in SUBSET Events, ev' = Told(t, es)
    PROVE  \A e \in Events : Quiet(e)
<1> SUFFICES ASSUME NEW e \in Events
             PROVE  Quiet(e)
  OBVIOUS
<1>1. ev[e] \in Row
  BY DEF TypeOK
<1>2. \/ ev'[e] = ev[e]
      \/ ev'[e] = Dropped(ev[e])
      \/ ev'[e] = [ev[e] EXCEPT !.reported = TRUE]
  BY DEF Told
<1> QED
  BY <1>1, <1>2 DEF Quiet, Dropped, Row, Unstarted

\* nor does the sweep,
LEMMA SweepIsQuiet ==
    ASSUME TypeOK, NEW n \in Nat, ev' = [e \in Events |-> Swept(ev[e], n)]
    PROVE  \A e \in Events : Quiet(e)
<1> SUFFICES ASSUME NEW e \in Events
             PROVE  Quiet(e)
  OBVIOUS
<1>1. ev[e] \in Row /\ ev'[e] = Swept(ev[e], n)
  BY DEF TypeOK
<1> QED
  BY <1>1 DEF Quiet, Swept, Row, Unstarted

\* a run that could not begin,
LEMMA FailIsQuiet ==
    ASSUME TypeOK, NEW p \in Procs, ev' = Marked(p, "failed")
    PROVE  \A e \in Events : Quiet(e)
<1> SUFFICES ASSUME NEW e \in Events
             PROVE  Quiet(e)
  OBVIOUS
<1>1. ev[e] \in Row
  BY DEF TypeOK
<1>2. \/ ev'[e] = ev[e]
      \/ ev'[e] = [ev[e] EXCEPT !.unknown = TRUE]
      \/ ev'[e] = [ev[e] EXCEPT !.state = "failed", !.attempt = p]
  BY DEF Marked
<1> QED
  BY <1>1, <1>2 DEF Quiet, Row, Unstarted

\* a delivery that is recorded,
LEMMA RecordIsQuiet ==
    ASSUME TypeOK, NEW p \in Procs, Record(p)
    PROVE  \A e \in Events : Quiet(e)
<1> SUFFICES ASSUME NEW e \in Events
             PROVE  Quiet(e)
  OBVIOUS
<1>1. CASE ev'[e] = ev[e]
  BY <1>1 DEF Quiet
<1>2. CASE ev'[e] # ev[e]
  <2>1. ev[e].state = "absent"
    BY <1>2 DEF TypeOK, Record
  <2>2. ev'[e].state \in {"received", "dropped"}
    <3> DEFINE s == IF recv[p].keep THEN "received" ELSE "dropped"
               row == [NoRow EXCEPT !.state = s,
                                    !.trigger = recv[p].trigger,
                                    !.at = arrived,
                                    !.values = recv[p].keep]
    <3>1. ev' = ev \/ ev' = [ev EXCEPT ![recv[p].event] = row]
      BY DEF Record
    <3>2. s \in {"received", "dropped"}
      OBVIOUS
    <3> HIDE DEF s
    <3>3. row.state = s
      BY DEF NoRow
    <3> HIDE DEF row
    <3>4. ev'[e] = row
      BY <1>2, <3>1 DEF TypeOK
    <3> QED
      BY <3>2, <3>3, <3>4
  <2> QED
    BY <2>1, <2>2 DEF Quiet, Unstarted
<1> QED
  BY <1>1, <1>2

\* or a run that ends.
LEMMA SettleIsQuiet ==
    ASSUME TypeOK, NEW p \in Procs, NEW t \in Triggers,
           NEW set \in {Null, "done", "failed", "dropped"}, Settle(p, t, set)
    PROVE  \A e \in Events : Quiet(e)
<1> SUFFICES ASSUME NEW e \in Events
             PROVE  Quiet(e)
  OBVIOUS
<1>1. ev[e] \in Row /\ OutcomeOfRun(set) \in {"done", "failed", "dropped"}
  BY DEF TypeOK, OutcomeOfRun
<1>2. ev'[e] = ev[e] \/ ev'[e] = Finished(ev[e], p, OutcomeOfRun(set))
  BY DEF TypeOK, Settle
<1> QED
  BY <1>1, <1>2 DEF Quiet, Finished, Row, Unstarted

-----------------------------------------------------------------------------
(* What such a step keeps.                                                 *)

\* No run begins; runs end.
Calm ==
    /\ \A e \in Events : Quiet(e)
    /\ ran' = ran
    /\ slow \subseteq slow'
    /\ \A p \in Procs, t \in Triggers :
          /\ run'[p][t].event = run[p][t].event \/ run'[p][t].event = Null
          /\ run'[p][t].event = Null <=> ~Busy(p, t)'

\* The drain of p is where it was, or at an end.
DrainStays(p) ==
    \/ drain'[p].at = "none"
    \/ /\ drain'[p].at = drain[p].at
       /\ drain'[p].trigger = drain[p].trigger
       /\ drain'[p].event = drain[p].event
       /\ drain'[p].lost = drain[p].lost

\* A step that starts nothing keeps what rows and runs say of each other,
LEMMA CalmEvents ==
    ASSUME IInv, Calm
    PROVE  EventsInv' /\ RunsInv'
<1>1. EventsInv'
  BY DEF IInv, EventsInv, Calm, Quiet, Unstarted
<1>2. RunsInv'
  <2> SUFFICES ASSUME NEW p \in Procs, NEW t \in Triggers
               PROVE  /\ run'[p][t].event = Null <=> ~Busy(p, t)'
                      /\ run'[p][t].event # Null =>
                            /\ ev'[run'[p][t].event].trigger = t
                            /\ ev'[run'[p][t].event].state \notin Unstarted
    BY DEF RunsInv, Busy
  <2>1. run[p][t].event # Null => run[p][t].event \in Events
    BY DEF IInv, TypeOK, Run
  <2> QED
    BY <2>1 DEF IInv, RunsInv, Calm, Quiet, Unstarted
<1> QED
  BY <1>1, <1>2

\* and, where drains stay as they are, what they have read.
LEMMA CalmDrain ==
    ASSUME IInv, Calm, \A p \in Procs : DrainStays(p)
    PROVE  DrainInv' /\ LostInv'
<1>1. \A p \in Procs : drain[p].lost \subseteq Events /\ (drain[p].event # Null => drain[p].event \in Events)
  BY DEF IInv, TypeOK, Drain
<1>2. \A p \in Procs, t \in Triggers : Busy(p, t)' => Busy(p, t)
  BY DEF IInv, RunsInv, Calm
<1>3. DrainInv'
  <2> SUFFICES ASSUME NEW p \in Procs, drain'[p].at # "none"
               PROVE  /\ drain'[p].trigger \in Triggers
                      /\ run'[p][drain'[p].trigger].phase = "none"
                      /\ drain'[p].event # Null =>
                            /\ ev'[drain'[p].event].trigger = drain'[p].trigger
                            /\ ev'[drain'[p].event].state # "absent"
                      /\ \A e \in drain'[p].lost :
                            /\ ev'[e].trigger = drain'[p].trigger
                            /\ ev'[e].state \notin Unstarted
    BY DEF DrainInv, Busy
  <2>1. /\ drain'[p].at = drain[p].at
        /\ drain'[p].trigger = drain[p].trigger
        /\ drain'[p].event = drain[p].event
        /\ drain'[p].lost = drain[p].lost
    BY DEF DrainStays
  <2>2. /\ drain[p].trigger \in Triggers
        /\ ~Busy(p, drain[p].trigger)
        /\ drain[p].event # Null =>
              /\ ev[drain[p].event].trigger = drain[p].trigger
              /\ ev[drain[p].event].state # "absent"
        /\ \A e \in drain[p].lost :
              /\ ev[e].trigger = drain[p].trigger
              /\ ev[e].state \notin Unstarted
    BY <2>1 DEF IInv, DrainInv
  <2>3. run'[p][drain'[p].trigger].phase = "none"
    BY <1>2, <2>1, <2>2 DEF Busy
  <2> QED
    BY <1>1, <2>1, <2>2, <2>3 DEF Calm, Quiet, Unstarted
<1>4. LostInv'
  <2> SUFFICES ASSUME NEW p \in Procs, drain'[p].at = "leased",
                      NEW e \in drain'[p].lost, ev'[e].state = "running"
               PROVE  \/ ev'[e].attempt \in slow'
                      \/ \A t \in Triggers : run'[ev'[e].attempt][t].event # e
    BY DEF LostInv
  <2>1. drain[p].at = "leased" /\ e \in drain[p].lost /\ e \in Events
    BY <1>1 DEF DrainStays
  <2>2. ev[e].state = "running" /\ ev'[e].attempt = ev[e].attempt /\ ev[e].attempt \in Procs
    BY <2>1 DEF Calm, Quiet, IInv, EventsInv
  <2>3. e # Null
    BY <2>1, InboundEventsAssumption
  <2> QED
    BY <2>1, <2>2, <2>3 DEF IInv, LostInv, Calm
<1> QED
  BY <1>3, <1>4

\* Leases that stay keep what they held.
LEMMA CalmLease ==
    ASSUME IInv, lease' = lease, slow \subseteq slow',
           \A p \in Procs, t \in Triggers :
               Busy(p, t)' \/ Leased(p, t)' => Busy(p, t) \/ Leased(p, t)
    PROVE  LeaseInv'
BY DEF IInv, LeaseInv

-----------------------------------------------------------------------------
(* Every step keeps the invariant.                                         *)

Rest == EventsInv /\ RunsInv /\ DrainInv /\ LeaseInv /\ LostInv

\* A step that leaves runs and leases alone, and sends no drain ahead.
LEMMA StillStep ==
    ASSUME IInv, \A e \in Events : Quiet(e), UNCHANGED <<run, lease, slow, ran>>,
           \A p \in Procs : DrainStays(p)
    PROVE  Rest'
<1>1. Calm
  BY DEF Calm, IInv, RunsInv, Busy
<1>2. LeaseInv'
  <2>1. \A p \in Procs, t \in Triggers :
            Busy(p, t)' \/ Leased(p, t)' => Busy(p, t) \/ Leased(p, t)
    BY DEF Busy, Leased, DrainStays
  <2> QED
    BY <2>1, CalmLease
<1> QED
  BY <1>1, <1>2, CalmEvents, CalmDrain DEF Rest

\* No row changes.
LEMMA SameLedger ==
    ASSUME ev' = ev
    PROVE  \A e \in Events : Quiet(e)
BY DEF Quiet

\* No drain changes.
LEMMA SameDrain ==
    ASSUME drain' = drain
    PROVE  \A p \in Procs : DrainStays(p)
BY DEF DrainStays

\* A drain that goes on forgets what it read, and no other drain moves.
LEMMA OnwardStays ==
    ASSUME TypeOK, NEW p \in Procs, Onward(p)
    PROVE  \A q \in Procs : DrainStays(q) /\ (drain'[q] = drain[q] \/ drain'[q].at = "none") /\ drain'[p].at = "none"
<1>1. [NoDrain EXCEPT !.todo = drain[p].todo].at = "none"
  BY DEF NoDrain
<1> QED
  BY <1>1 DEF TypeOK, Onward, DrainStays

\* A trigger's turn that ends early keeps the invariant.
LEMMA PassStep ==
    ASSUME IInv, NEW p \in Procs, NEW t \in Triggers, NEW es \in SUBSET Events, Pass(p, t, es)
    PROVE  Rest'
<1>1. TypeOK
  BY DEF IInv
<1>2. \A e \in Events : Quiet(e)
  BY <1>1, TurnIsQuiet DEF Pass
<1>3. \A q \in Procs : DrainStays(q)
  <2>1. drain[p].at = "none" /\ drain[p] \in Drain
    BY <1>1 DEF Pass, Turn, TypeOK
  <2>2. [drain[p] EXCEPT !.todo = @ \ {t}].at = "none"
    BY <2>1 DEF Drain
  <2>3. drain' = [drain EXCEPT ![p] = [drain[p] EXCEPT !.todo = @ \ {t}]]
    BY DEF Pass
  <2> QED
    BY <1>1, <2>2, <2>3 DEF TypeOK, DrainStays
<1> QED
  BY <1>2, <1>3, StillStep DEF Pass

\* The drain reads the oldest event and the lost ones.
LEMMA ReadStep ==
    ASSUME IInv, NEW p \in Procs, NEW t \in Triggers, PassRead(p, t)
    PROVE  Rest'
<1>1. TypeOK
  BY DEF IInv
<1>2. \A e \in Events : Quiet(e)
  <2>1. {} \in SUBSET Events
    OBVIOUS
  <2> QED
    BY <1>1, <2>1, TurnIsQuiet DEF PassRead
<1>3. Calm
  BY <1>2 DEF Calm, PassRead, IInv, RunsInv, Busy
<1>4. PICK e \in Events \union {Null} :
         /\ e # Null => e \in Waiting(t)
         /\ drain' = [drain EXCEPT ![p] =
                        [todo |-> drain[p].todo \ {t}, at |-> "read", trigger |-> t,
                         event |-> e, lost |-> UnreportedRunning(t)]]
  BY DEF PassRead, IsOldest
<1>5. /\ drain'[p].at = "read" /\ drain'[p].trigger = t
      /\ drain'[p].event = e /\ drain'[p].lost = UnreportedRunning(t)
      /\ \A q \in Procs \ {p} : drain'[q] = drain[q]
  BY <1>1, <1>4 DEF TypeOK
<1>6. EventsInv' /\ RunsInv'
  BY <1>3, CalmEvents
<1>7. LeaseInv'
  <2>1. \A q \in Procs, u \in Triggers :
            Busy(q, u)' \/ Leased(q, u)' => Busy(q, u) \/ Leased(q, u)
    BY <1>5 DEF Busy, Leased, PassRead
  <2> QED
    BY <2>1, CalmLease DEF PassRead
<1>8. DrainInv'
  <2> SUFFICES ASSUME NEW q \in Procs, drain'[q].at # "none"
               PROVE  /\ drain'[q].trigger \in Triggers
                      /\ run'[q][drain'[q].trigger].phase = "none"
                      /\ drain'[q].event # Null =>
                            /\ ev'[drain'[q].event].trigger = drain'[q].trigger
                            /\ ev'[drain'[q].event].state # "absent"
                      /\ \A f \in drain'[q].lost :
                            /\ ev'[f].trigger = drain'[q].trigger
                            /\ ev'[f].state \notin Unstarted
    BY DEF DrainInv, Busy
  <2>1. CASE q = p
    <3>1. run'[p][t].phase = "none"
      BY DEF PassRead, Busy
    <3>2. e # Null => e \in Events /\ ev[e].trigger = t /\ ev[e].state = "received"
      BY <1>4 DEF Waiting, Of
    <3>3. \A f \in UnreportedRunning(t) : f \in Events /\ ev[f].trigger = t /\ ev[f].state = "running"
      BY DEF UnreportedRunning, Of
    <3> QED
      BY <1>2, <1>5, <2>1, <3>1, <3>2, <3>3 DEF Quiet, Unstarted
  <2>2. CASE q # p
    <3>1. drain'[q] = drain[q]
      BY <1>5, <2>2
    <3>2. /\ drain[q].trigger \in Triggers
          /\ run[q][drain[q].trigger].phase = "none"
          /\ drain[q].event # Null =>
                /\ ev[drain[q].event].trigger = drain[q].trigger
                /\ ev[drain[q].event].state # "absent"
          /\ \A f \in drain[q].lost :
                /\ ev[f].trigger = drain[q].trigger
                /\ ev[f].state \notin Unstarted
      BY <3>1 DEF IInv, DrainInv, Busy
    <3>3. drain[q].lost \subseteq Events /\ (drain[q].event # Null => drain[q].event \in Events)
      BY <1>1 DEF TypeOK, Drain
    <3>4. run' = run
      BY DEF PassRead
    <3> QED
      BY <1>2, <3>1, <3>2, <3>3, <3>4 DEF Quiet, Unstarted
  <2> QED
    BY <2>1, <2>2
<1>9. LostInv'
  <2> SUFFICES ASSUME NEW q \in Procs, drain'[q].at = "leased",
                      NEW f \in drain'[q].lost, ev'[f].state = "running"
               PROVE  \/ ev'[f].attempt \in slow'
                      \/ \A u \in Triggers : run'[ev'[f].attempt][u].event # f
    BY DEF LostInv
  <2>1. drain'[q] = drain[q]
    BY <1>5
  <2>2. f \in drain[q].lost /\ f \in Events /\ drain[q].at = "leased"
    BY <1>1, <2>1 DEF TypeOK, Drain
  <2>3. ev[f].state = "running" /\ ev'[f].attempt = ev[f].attempt
    BY <1>2, <2>2 DEF Quiet
  <2> QED
    BY <2>2, <2>3 DEF IInv, LostInv, PassRead
<1> QED
  BY <1>6, <1>7, <1>8, <1>9 DEF Rest

\* The lease is taken: whoever was at work on the trigger has stalled or ended.
LEMMA TakeStep ==
    ASSUME IInv, NEW p \in Procs, TakeLease(p)
    PROVE  Rest'
<1> DEFINE t == drain[p].trigger
<1>1. TypeOK /\ t \in Triggers /\ ~Busy(p, t) /\ ~lease[t].live
  BY DEF IInv, DrainInv, TakeLease
<1>2. Calm
  BY SameLedger DEF Calm, TakeLease, IInv, RunsInv, Busy
<1>3. EventsInv' /\ RunsInv'
  BY <1>2, CalmEvents
<1>4. /\ drain'[p].at = "leased" /\ drain'[p].trigger = t
      /\ drain'[p].event = drain[p].event /\ drain'[p].lost = drain[p].lost
      /\ \A q \in Procs \ {p} : drain'[q] = drain[q]
  <2>1. drain[p] \in Drain
    BY <1>1 DEF TypeOK
  <2>2. drain'[p] = [drain[p] EXCEPT !.at = "leased"]
    BY <1>1 DEF TypeOK, TakeLease
  <2>3. \A q \in Procs \ {p} : drain'[q] = drain[q]
    BY <1>1 DEF TypeOK, TakeLease
  <2> QED
    BY <2>1, <2>2, <2>3 DEF Drain
<1>5. DrainInv'
  BY <1>4 DEF IInv, DrainInv, TakeLease, Busy
<1>6. lease'[t] = [holder |-> p, live |-> TRUE] /\ \A u \in Triggers \ {t} : lease'[u] = lease[u]
  BY <1>1 DEF TypeOK, TakeLease
<1>7. LeaseInv'
  <2> SUFFICES ASSUME NEW q \in Procs, NEW u \in Triggers, q \notin slow',
                      Busy(q, u)' \/ Leased(q, u)'
               PROVE  lease'[u] = [holder |-> q, live |-> TRUE]
    BY DEF LeaseInv
  <2>1. q \notin slow /\ (Busy(q, u)' => Busy(q, u))
    BY DEF TakeLease, Busy
  <2>2. CASE Busy(q, u) \/ Leased(q, u)
    <3>1. lease[u] = [holder |-> q, live |-> TRUE]
      BY <2>1, <2>2 DEF IInv, LeaseInv
    <3>2. u # t
      BY <1>1, <3>1
    <3> QED
      BY <1>6, <3>1, <3>2
  <2>3. CASE ~Busy(q, u) /\ ~Leased(q, u)
    <3>1. q = p /\ u = t
      BY <1>4, <2>1, <2>3 DEF Leased
    <3> QED
      BY <1>6, <3>1
  <2> QED
    BY <2>2, <2>3
<1>8. LostInv'
  <2> SUFFICES ASSUME NEW q \in Procs, drain'[q].at = "leased",
                      NEW e \in drain'[q].lost, ev'[e].state = "running",
                      ev'[e].attempt \notin slow',
                      NEW u \in Triggers, run'[ev'[e].attempt][u].event = e
               PROVE  FALSE
    BY DEF LostInv
  <2>1. UNCHANGED <<ev, slow, run>>
    BY DEF TakeLease
  <2>2. e \in drain[q].lost /\ e \in Events /\ ev[e].attempt \in Procs
    BY <1>1, <1>4, <2>1 DEF TypeOK, Drain, IInv, EventsInv
  <2>3. CASE q # p
    BY <1>4, <2>1, <2>2, <2>3 DEF IInv, LostInv
  <2>4. CASE q = p
    <3>1. ev[e].trigger = t
      BY <2>2, <2>4 DEF IInv, DrainInv, TakeLease
    <3>2. e # Null
      BY <2>2, InboundEventsAssumption
    <3>3. u = t /\ Busy(ev[e].attempt, t)
      BY <2>1, <2>2, <3>1, <3>2 DEF IInv, RunsInv
    <3>4. lease[t] = [holder |-> ev[e].attempt, live |-> TRUE]
      BY <1>1, <2>1, <2>2, <3>3 DEF IInv, LeaseInv
    <3> QED
      BY <1>1, <3>4
  <2> QED
    BY <2>3, <2>4
<1> QED
  BY <1>3, <1>5, <1>7, <1>8 DEF Rest

\* An event is begun under the lease: it waited, so it has not been started.
LEMMA BeginStep ==
    ASSUME IInv, NEW p \in Procs, Begin(p)
    PROVE  Rest'
<1> DEFINE t == drain[p].trigger
           e == drain[p].event
<1>1. TypeOK /\ t \in Triggers /\ ~Busy(p, t)
  BY DEF IInv, DrainInv, Begin
<1>2. e \in Events /\ ev[e].state = "received" /\ ev[e].trigger = t
  BY <1>1 DEF Begin, CanBegin, TypeOK, Drain, IInv, DrainInv
<1>3. ev[e] \in Row /\ e \notin StillLost(p)
  BY <1>1, <1>2 DEF TypeOK, StillLost
<1>4. ev'[e].state = "running" /\ ev'[e].attempt = p /\ ev'[e].trigger = t
  <2>1. ev'[e] = [ev[e] EXCEPT !.state = "running", !.attempt = p]
    BY <1>2, <1>3 DEF Begin, Marked
  <2> QED
    BY <1>2, <1>3, <2>1 DEF Row
<1>5. \A f \in Events \ {e} : /\ ev'[f].state = ev[f].state
                              /\ ev'[f].trigger = ev[f].trigger
                              /\ ev'[f].attempt = ev[f].attempt
  <2> TAKE f \in Events \ {e}
  <2>1. ev[f] \in Row
    BY <1>1 DEF TypeOK
  <2>2. ev'[f] = ev[f] \/ ev'[f] = [ev[f] EXCEPT !.unknown = TRUE]
    BY DEF Begin, Marked
  <2> QED
    BY <2>1, <2>2 DEF Row
<1>6. /\ run'[p][t] = [phase |-> "running", event |-> e]
      /\ \A q \in Procs, u \in Triggers : q # p \/ u # t => run'[q][u] = run[q][u]
  BY <1>1 DEF TypeOK, Begin
<1>7. \A q \in Procs : drain'[q].at # "none" => drain'[q] = drain[q] /\ q # p
  BY <1>1, OnwardStays DEF Begin
<1>8. UNCHANGED <<lease, slow>>
  BY DEF Begin
<1>9. e # Null /\ e \in Events
  BY <1>2, InboundEventsAssumption
<1>10. EventsInv'
  <2>1. ran'[e] = ran[e] + 1 /\ \A f \in Events \ {e} : ran'[f] = ran[f]
    BY <1>1, <1>2 DEF TypeOK, Begin
  <2>2. ran[e] = 0
    BY <1>2 DEF IInv, EventsInv, Unstarted
  <2>3. \A f \in Events : ran'[f] <= 1
    BY <2>1, <2>2 DEF IInv, EventsInv
  <2>4. \A f \in Events : ev'[f].state \in Unstarted => ran'[f] = 0
    BY <1>4, <1>5, <2>1 DEF IInv, EventsInv, Unstarted
  <2>5. \A f \in Events : ev'[f].state = "running" => ev'[f].attempt \in Procs
    BY <1>4, <1>5 DEF IInv, EventsInv
  <2> QED
    BY <2>3, <2>4, <2>5 DEF EventsInv
<1> HIDE DEF e, t
<1>11. RunsInv'
  <2> SUFFICES ASSUME NEW q \in Procs, NEW u \in Triggers
               PROVE  /\ run'[q][u].event = Null <=> run'[q][u].phase = "none"
                      /\ run'[q][u].event # Null =>
                            /\ ev'[run'[q][u].event].trigger = u
                            /\ ev'[run'[q][u].event].state \notin Unstarted
    BY DEF RunsInv, Busy
  <2>1. CASE q = p /\ u = t
    BY <1>4, <1>6, <1>9, <2>1 DEF Unstarted
  <2>2. CASE q # p \/ u # t
    <3>1. run'[q][u] = run[q][u]
      BY <1>6, <2>2
    <3>2. run[q][u].event # Null => run[q][u].event \in Events
      BY <1>1 DEF TypeOK, Run
    <3>3. /\ run[q][u].event = Null <=> run[q][u].phase = "none"
          /\ run[q][u].event # Null =>
                /\ ev[run[q][u].event].trigger = u
                /\ ev[run[q][u].event].state \notin Unstarted
      BY DEF IInv, RunsInv, Busy
    <3>4. run[q][u].event # e
      BY <1>2, <1>9, <3>3 DEF Unstarted
    <3> QED
      BY <1>5, <3>1, <3>2, <3>3, <3>4
  <2> QED
    BY <2>1, <2>2
<1>12. DrainInv'
  <2> SUFFICES ASSUME NEW q \in Procs, drain'[q].at # "none"
               PROVE  /\ drain'[q].trigger \in Triggers
                      /\ run'[q][drain'[q].trigger].phase = "none"
                      /\ drain'[q].event # Null =>
                            /\ ev'[drain'[q].event].trigger = drain'[q].trigger
                            /\ ev'[drain'[q].event].state # "absent"
                      /\ \A f \in drain'[q].lost :
                            /\ ev'[f].trigger = drain'[q].trigger
                            /\ ev'[f].state \notin Unstarted
    BY DEF DrainInv, Busy
  <2>1. drain'[q] = drain[q] /\ q # p
    BY <1>7
  <2>2. /\ drain[q].trigger \in Triggers
        /\ run[q][drain[q].trigger].phase = "none"
        /\ drain[q].event # Null =>
              /\ ev[drain[q].event].trigger = drain[q].trigger
              /\ ev[drain[q].event].state # "absent"
        /\ \A f \in drain[q].lost :
              /\ ev[f].trigger = drain[q].trigger
              /\ ev[f].state \notin Unstarted
    BY <2>1 DEF IInv, DrainInv, Busy
  <2>3. drain[q].lost \subseteq Events /\ (drain[q].event # Null => drain[q].event \in Events)
    BY <1>1 DEF TypeOK, Drain
  <2>4. e \notin drain[q].lost
    BY <1>2, <2>2 DEF Unstarted
  <2>5. run'[q][drain[q].trigger] = run[q][drain[q].trigger]
    BY <1>6, <2>1, <2>2
  <2>6. drain[q].event # Null =>
           /\ ev'[drain[q].event].trigger = drain[q].trigger
           /\ ev'[drain[q].event].state # "absent"
    BY <1>2, <1>4, <1>5, <2>2, <2>3
  <2>7. \A f \in drain[q].lost :
           /\ ev'[f].trigger = drain[q].trigger
           /\ ev'[f].state \notin Unstarted
    BY <1>5, <2>2, <2>3, <2>4
  <2> QED
    BY <2>1, <2>2, <2>5, <2>6, <2>7
<1>13. LeaseInv'
  <2> SUFFICES ASSUME NEW q \in Procs, NEW u \in Triggers,
                      Busy(q, u)' \/ Leased(q, u)'
               PROVE  Busy(q, u) \/ Leased(q, u)
    BY <1>8, CalmLease
  <2>1. Leased(p, t)
    BY DEF Begin, Leased, t
  <2>2. Leased(q, u)' => Leased(q, u)
    BY <1>7 DEF Leased
  <2>3. CASE Busy(q, u)'
    BY <1>6, <2>1, <2>3 DEF Busy
  <2> QED
    BY <2>2, <2>3
<1>14. LostInv'
  <2> SUFFICES ASSUME NEW q \in Procs, drain'[q].at = "leased",
                      NEW f \in drain'[q].lost, ev'[f].state = "running"
               PROVE  \/ ev'[f].attempt \in slow'
                      \/ \A u \in Triggers : run'[ev'[f].attempt][u].event # f
    BY DEF LostInv
  <2>1. drain'[q] = drain[q] /\ q # p
    BY <1>7
  <2>2. f \in drain[q].lost /\ f \in Events /\ ev[f].state \notin Unstarted
    BY <1>1, <2>1 DEF TypeOK, Drain, IInv, DrainInv
  <2>3. f # e
    BY <1>2, <2>2 DEF Unstarted
  <2>4. ev[f].state = "running" /\ ev'[f].attempt = ev[f].attempt /\ ev[f].attempt \in Procs
    BY <1>5, <2>2, <2>3 DEF IInv, EventsInv
  <2>5. \/ ev[f].attempt \in slow
        \/ \A u \in Triggers : run[ev[f].attempt][u].event # f
    BY <2>1, <2>2, <2>4 DEF IInv, LostInv
  <2> QED
    BY <1>6, <1>8, <2>3, <2>4, <2>5
<1> QED
  BY <1>10, <1>11, <1>12, <1>13, <1>14 DEF Rest

\* A lease that is given up, or lapses, was not that of another process at work.
LEMMA LeaseStep ==
    ASSUME IInv, NEW t \in Triggers, NEW l, lease' = [lease EXCEPT ![t] = l],
           slow \subseteq slow',
           \A q \in Procs, u \in Triggers :
               Busy(q, u)' \/ Leased(q, u)' => Busy(q, u) \/ Leased(q, u),
           \A q \in Procs :
               q \notin slow' /\ (Busy(q, t)' \/ Leased(q, t)') /\ lease[t] = [holder |-> q, live |-> TRUE]
                   => l = lease[t]
    PROVE  LeaseInv'
<1> SUFFICES ASSUME NEW q \in Procs, NEW u \in Triggers, q \notin slow',
                    Busy(q, u)' \/ Leased(q, u)'
             PROVE  lease'[u] = [holder |-> q, live |-> TRUE]
  BY DEF LeaseInv
<1>1. lease[u] = [holder |-> q, live |-> TRUE]
  BY DEF IInv, LeaseInv
<1> QED
  BY <1>1 DEF IInv, TypeOK

\* Nothing is begun: the lease is given back.
LEMMA NothingStep ==
    ASSUME IInv, NEW p \in Procs, BeginNothing(p)
    PROVE  Rest'
<1>0. PICK t \in Triggers : t = drain[p].trigger /\ ~Busy(p, t)
  BY DEF IInv, DrainInv, BeginNothing
<1>1. TypeOK
  BY DEF IInv
<1>2. Calm
  BY <1>1, FailIsQuiet DEF Calm, BeginNothing, IInv, RunsInv, Busy
<1>3. \A q \in Procs : /\ DrainStays(q)
                       /\ drain'[q] = drain[q] \/ drain'[q].at = "none"
                       /\ drain'[p].at = "none"
  BY <1>1, OnwardStays DEF BeginNothing
<1>4. LeaseInv'
  <2>1. lease' = [lease EXCEPT ![t] = Released(lease[t], p)]
    BY <1>0 DEF BeginNothing
  <2>2. \A q \in Procs, u \in Triggers :
           /\ Busy(q, u)' => Busy(q, u)
           /\ Leased(q, u)' => Leased(q, u) /\ q # p
    BY <1>3 DEF BeginNothing, Busy, Leased
  <2>3. \A q \in Procs :
           (Busy(q, t)' \/ Leased(q, t)') /\ lease[t] = [holder |-> q, live |-> TRUE]
               => Released(lease[t], p) = lease[t]
    BY <1>0, <2>2 DEF Released
  <2>4. slow' = slow
    BY DEF BeginNothing
  <2> QED
    BY <2>1, <2>2, <2>3, <2>4, LeaseStep
<1> QED
  BY <1>2, <1>3, <1>4, CalmEvents, CalmDrain DEF Rest

\* The process is gone: its drain and its runs are.
LEMMA CrashStep ==
    ASSUME IInv, NEW p \in Procs, Crash(p)
    PROVE  Rest'
<1>1. TypeOK
  BY DEF IInv
<1>2. /\ drain'[p].at = "none"
      /\ \A q \in Procs \ {p} : drain'[q] = drain[q] /\ run'[q] = run[q]
      /\ \A t \in Triggers : run'[p][t] = NoRun
  BY <1>1 DEF TypeOK, Crash, NoDrain
<1>3. Calm
  BY <1>2, SameLedger DEF Calm, Crash, IInv, RunsInv, Busy, NoRun
<1>4. \A q \in Procs : DrainStays(q)
  BY <1>2 DEF DrainStays
<1>5. LeaseInv'
  <2>1. \A q \in Procs, u \in Triggers :
            Busy(q, u)' \/ Leased(q, u)' => Busy(q, u) \/ Leased(q, u)
    BY <1>2 DEF Busy, Leased, NoRun
  <2> QED
    BY <2>1, CalmLease DEF Crash
<1> QED
  BY <1>3, <1>4, <1>5, CalmEvents, CalmDrain DEF Rest

\* The outcome is written while the lease is held.
LEMMA SettleStep ==
    ASSUME IInv, NEW p \in Procs, NEW t \in Triggers,
           NEW set \in {Null, "done", "failed", "dropped"}, Settle(p, t, set)
    PROVE  Rest'
<1>1. TypeOK
  BY DEF IInv
<1>2. /\ run'[p][t].event = run[p][t].event /\ run'[p][t].phase = "settled"
      /\ \A q \in Procs, u \in Triggers : q # p \/ u # t => run'[q][u] = run[q][u]
  <2>1. run[p][t] \in Run
    BY <1>1 DEF TypeOK
  <2>2. run'[p][t] = [run[p][t] EXCEPT !.phase = "settled"]
    BY <1>1 DEF TypeOK, Settle
  <2>3. \A q \in Procs, u \in Triggers : q # p \/ u # t => run'[q][u] = run[q][u]
    BY <1>1 DEF TypeOK, Settle
  <2> QED
    BY <2>1, <2>2, <2>3 DEF Run
<1>3. run[p][t].phase = "running" /\ run[p][t].event # Null
  BY DEF Settle, IInv, RunsInv, Busy
<1>4. Calm
  <2>1. \A e \in Events : Quiet(e)
    BY <1>1, SettleIsQuiet
  <2>2. \A q \in Procs, u \in Triggers :
           /\ run'[q][u].event = run[q][u].event
           /\ run'[q][u].event = Null <=> ~Busy(q, u)'
    BY <1>2, <1>3 DEF IInv, RunsInv, Busy
  <2> QED
    BY <2>1, <2>2 DEF Calm, Settle
<1>5. LeaseInv'
  <2>1. \A q \in Procs, u \in Triggers :
            Busy(q, u)' \/ Leased(q, u)' => Busy(q, u) \/ Leased(q, u)
    BY <1>2, <1>3 DEF Busy, Leased, Settle
  <2> QED
    BY <2>1, CalmLease DEF Settle
<1>6. \A q \in Procs : DrainStays(q)
  BY SameDrain DEF Settle
<1> QED
  BY <1>4, <1>5, <1>6, CalmEvents, CalmDrain DEF Rest

\* The run is over and its lease, if still its own, is free or left to lapse.
LEMMA ReleaseStep ==
    ASSUME IInv, NEW p \in Procs, NEW t \in Triggers, Release(p, t)
    PROVE  Rest'
<1>1. TypeOK
  BY DEF IInv
<1>2. /\ run'[p][t] = NoRun
      /\ \A q \in Procs, u \in Triggers : q # p \/ u # t => run'[q][u] = run[q][u]
  BY <1>1 DEF TypeOK, Release
<1>3. Calm
  BY <1>2, SameLedger DEF Calm, Release, IInv, RunsInv, Busy, NoRun
<1>4. LeaseInv'
  <2>1. \A q \in Procs, u \in Triggers :
            Busy(q, u)' \/ Leased(q, u)' => Busy(q, u) \/ Leased(q, u)
    BY <1>2 DEF Busy, Leased, NoRun, Release
  <2>2. slow' = slow
    BY DEF Release
  <2>3. CASE lease' = [lease EXCEPT ![t] = Released(lease[t], p)]
    <3>1. ~Leased(p, t)
      BY DEF Release, IInv, DrainInv, Busy, Leased
    <3>2. ~Busy(p, t)' /\ ~Leased(p, t)'
      BY <1>2, <3>1 DEF Busy, NoRun, Leased, Release
    <3>3. \A q \in Procs :
             (Busy(q, t)' \/ Leased(q, t)') /\ lease[t] = [holder |-> q, live |-> TRUE]
                 => Released(lease[t], p) = lease[t]
      BY <3>2 DEF Released
    <3> QED
      BY <2>1, <2>2, <2>3, <3>3, LeaseStep
  <2>4. CASE lease' = lease
    BY <2>1, <2>2, <2>4, CalmLease
  <2> QED
    BY <2>3, <2>4 DEF Release
<1>5. \A q \in Procs : DrainStays(q)
  BY SameDrain DEF Release
<1> QED
  BY <1>3, <1>4, <1>5, CalmEvents, CalmDrain DEF Rest

\* The heartbeat, a lapse and a stall change the one lease.
LEMMA ClockStep ==
    ASSUME IInv, NEW t \in Triggers,
           (\E p \in Procs : Renew(p, t)) \/ LeaseLapses(t) \/ Stall(t)
    PROVE  Rest'
<1>1. TypeOK
  BY DEF IInv
<1>2. UNCHANGED <<ev, run, ran, drain>> /\ slow \subseteq slow'
  BY DEF Renew, LeaseLapses, Stall
<1>3. Calm
  BY <1>2, SameLedger DEF Calm, IInv, RunsInv, Busy
<1>4. \A q \in Procs : DrainStays(q)
  BY <1>2, SameDrain
<1>5. \A q \in Procs, u \in Triggers :
          /\ Busy(q, u)' <=> Busy(q, u)
          /\ Leased(q, u)' <=> Leased(q, u)
  BY <1>2 DEF Busy, Leased
<1>6. lease[t] \in Lease
  BY <1>1 DEF TypeOK
<1>7. ASSUME NEW p \in Procs, Renew(p, t)
      PROVE  LeaseInv'
  <2>1. lease' = [lease EXCEPT ![t] = [lease[t] EXCEPT !.live = TRUE]]
    BY <1>7 DEF Renew
  <2>2. lease[t].live = TRUE => [lease[t] EXCEPT !.live = TRUE] = lease[t]
    BY <1>6 DEF Lease
  <2>3. \A q \in Procs :
           lease[t] = [holder |-> q, live |-> TRUE] => [lease[t] EXCEPT !.live = TRUE] = lease[t]
    BY <2>2
  <2> QED
    BY <1>2, <1>5, <2>1, <2>3, LeaseStep
<1>8. ASSUME LeaseLapses(t) \/ Stall(t)
      PROVE  LeaseInv'
  <2>1. lease' = [lease EXCEPT ![t] = [lease[t] EXCEPT !.live = FALSE]]
    BY <1>8 DEF LeaseLapses, Stall
  <2>2. ASSUME NEW q \in Procs, q \notin slow', Busy(q, t) \/ Leased(q, t),
               lease[t] = [holder |-> q, live |-> TRUE]
        PROVE  FALSE
    <3>1. lease[t].holder = q /\ q # Null
      BY <2>2, InboundEventsAssumption
    <3>2. AtWork(t)
      BY <2>2, <3>1 DEF AtWork, Leased
    <3>3. Stall(t)
      BY <1>8, <3>2 DEF LeaseLapses
    <3> QED
      BY <2>2, <3>1, <3>3 DEF Stall
  <2> QED
    BY <1>2, <1>5, <2>1, <2>2, LeaseStep
<1> QED
  BY <1>3, <1>4, <1>7, <1>8, CalmEvents, CalmDrain DEF Rest

\* Every step keeps the invariant.
LEMMA NextIInv == IInv /\ [Next]_vars => IInv'
<1> SUFFICES ASSUME IInv, [Next]_vars
             PROVE  IInv'
  OBVIOUS
<1>0. TypeOK /\ TypeOK'
  BY NextType DEF IInv
<1>1. ASSUME NEW p \in Procs, NEW e \in Events, NEW t \in Triggers, NEW b \in BOOLEAN,
             Judge(p, e, t, b)
      PROVE  Rest'
  BY <1>1, SameLedger, SameDrain, StillStep DEF Judge
<1>2. ASSUME NEW p \in Procs, Record(p)
      PROVE  Rest'
  BY <1>0, <1>2, RecordIsQuiet, SameDrain, StillStep DEF Record
<1>3. ASSUME NEW p \in Procs, DrainOpen(p)
      PROVE  Rest'
  <2>1. PICK n \in 0..arrived : ev' = [e \in Events |-> Swept(ev[e], n)]
    BY <1>3 DEF DrainOpen
  <2>2. n \in Nat
    BY <1>0 DEF TypeOK
  <2>3. \A e \in Events : Quiet(e)
    BY <1>0, <2>1, <2>2, SweepIsQuiet
  <2>4. drain[p] \in Drain /\ drain[p].at = "none"
    <3>1. drain[p] = NoDrain
      BY <1>3 DEF DrainOpen, Idle
    <3>2. NoDrain.at = "none"
      BY DEF NoDrain
    <3>3. drain[p] \in Drain
      BY <1>0 DEF TypeOK
    <3> QED
      BY <3>1, <3>2, <3>3
  <2>5. [drain[p] EXCEPT !.todo = {t \in Triggers : HasWork(t)}].at = "none"
    BY <2>4 DEF Drain
  <2>6. drain' = [drain EXCEPT ![p] = [drain[p] EXCEPT !.todo = {t \in Triggers : HasWork(t)}]]
    BY <1>3 DEF DrainOpen
  <2>7. \A q \in Procs : DrainStays(q)
    BY <1>0, <2>5, <2>6 DEF TypeOK, DrainStays
  <2> QED
    BY <1>3, <2>3, <2>7, StillStep DEF DrainOpen
<1>4. ASSUME NEW p \in Procs, NEW t \in Triggers, Visit(p, t)
      PROVE  Rest'
  <2>0. {} \in SUBSET Events /\ Waiting(t) \in SUBSET Events /\ \A e \in Events : {e} \in SUBSET Events
    BY DEF Waiting, Of
  <2>1. CASE PassRead(p, t)
    BY <2>1, ReadStep
  <2>2. CASE ~PassRead(p, t)
    <3>1. \E es \in SUBSET Events : Pass(p, t, es)
      BY <1>4, <2>0, <2>2
         DEF Visit, PassBusy, PassNotLive, PassShopMoved, PassDeferred
    <3> QED
      BY <3>1, PassStep
  <2> QED
    BY <2>1, <2>2
<1>5. ASSUME NEW p \in Procs, NoLease(p)
      PROVE  Rest'
  BY <1>0, <1>5, SameLedger, OnwardStays, StillStep DEF NoLease
<1>6. ASSUME NEW p \in Procs, Boot(p) \/ Stop(p)
      PROVE  Rest'
  BY <1>6, SameLedger, SameDrain, StillStep DEF Boot, Stop
<1>7. ASSUME NEW t \in Triggers, Switch(t)
      PROVE  Rest'
  BY <1>7, SameLedger, SameDrain, StillStep DEF Switch
<1>8. ASSUME UNCHANGED vars
      PROVE  Rest'
  <2>1. ev' = ev /\ drain' = drain /\ UNCHANGED <<run, lease, slow, ran>>
    BY <1>8 DEF vars
  <2> QED
    BY <2>1, SameLedger, SameDrain, StillStep
<1>9. ASSUME NEW p \in Procs, TakeLease(p) \/ Begin(p) \/ BeginNothing(p) \/ Crash(p)
      PROVE  Rest'
  BY <1>9, TakeStep, BeginStep, NothingStep, CrashStep
<1>10. ASSUME NEW p \in Procs, NEW t \in Triggers,
              \/ \E set \in {Null, "done", "failed", "dropped"} : Settle(p, t, set)
              \/ Release(p, t)
       PROVE  Rest'
  BY <1>10, SettleStep, ReleaseStep
<1>11. ASSUME NEW t \in Triggers,
              (\E p \in Procs : Renew(p, t)) \/ LeaseLapses(t) \/ Stall(t)
       PROVE  Rest'
  BY <1>11, ClockStep
<1>12. Rest'
  BY <1>1, <1>2, <1>3, <1>4, <1>5, <1>6, <1>7, <1>8, <1>9, <1>10, <1>11 DEF Next
<1> QED
  BY <1>0, <1>12 DEF IInv, Rest

-----------------------------------------------------------------------------
(* What follows.                                                           *)

\* The leases, the drains and the rows agree in every state.
THEOREM Invariance == Spec => []IInv
BY InitIInv, NextIInv, PTL DEF Spec

\* A body is started at most once, whatever is redelivered, drained twice, lost
\* or swept: `begin` is conditional on a state no write ever restores.
THEOREM RunsOnceCorrect == Spec => []RunsOnce
<1>1. IInv => RunsOnce
  BY DEF IInv, EventsInv, RunsOnce
<1> QED
  BY <1>1, Invariance, PTL

\* Two processes run the same trigger's events only if one stalled past its lease.
THEOREM OneRunPerTriggerCorrect == Spec => []OneRunPerTrigger
<1>1. IInv => OneRunPerTrigger
  <2> SUFFICES ASSUME IInv, NEW p \in Procs, NEW q \in Procs, NEW t \in Triggers,
                      p # q, Busy(p, t), Busy(q, t), p \notin slow, q \notin slow
               PROVE  FALSE
    BY DEF OneRunPerTrigger, Busy
  <2>1. lease[t] = [holder |-> p, live |-> TRUE] /\ lease[t] = [holder |-> q, live |-> TRUE]
    BY DEF IInv, LeaseInv
  <2> QED
    BY <2>1
<1> QED
  BY <1>1, Invariance, PTL

\* The owner is told that an event's outcome is unknown only when its run is gone,
\* ended without a written outcome, or stalled: the rows are marked under the
\* lease, which the run's outcome is written before giving up.
THEOREM UnknownOnlyIfLostCorrect == Spec => UnknownOnlyIfLost
<1> DEFINE Justified == \A e \in Events :
             ~ev[e].unknown /\ ev'[e].unknown =>
                LET p == ev[e].attempt
                IN \/ p \in slow
                   \/ ~\E t \in Triggers : run[p][t].event = e
<1>1. IInv /\ [Next]_vars => [Justified]_vars
  <2> SUFFICES ASSUME IInv, Next, NEW e \in Events, ~ev[e].unknown, ev'[e].unknown
               PROVE  \/ ev[e].attempt \in slow
                      \/ \A t \in Triggers : run[ev[e].attempt][t].event # e
    BY DEF Justified
  <2>0. TypeOK /\ ev[e] \in Row
    BY DEF IInv, TypeOK
  <2>1. PICK p \in Procs : drain[p].at = "leased" /\ e \in StillLost(p)
    <3>1. ASSUME NEW p \in Procs, NEW s \in State, drain[p].at = "leased", ev' = Marked(p, s)
          PROVE  e \in StillLost(p)
      <4> SUFFICES ASSUME e \notin StillLost(p)
                   PROVE  FALSE
        OBVIOUS
      <4>1. ev'[e] = ev[e] \/ ev'[e] = [ev[e] EXCEPT !.state = s, !.attempt = p]
        BY <3>1 DEF Marked
      <4>2. [ev[e] EXCEPT !.state = s, !.attempt = p].unknown = ev[e].unknown
        BY <2>0 DEF Row
      <4> QED
        BY <4>1, <4>2
    <3>2. \A t \in Triggers, es \in SUBSET Events : ev' # Told(t, es)
      <4> SUFFICES ASSUME NEW t \in Triggers, NEW es \in SUBSET Events, ev' = Told(t, es)
                   PROVE  FALSE
        OBVIOUS
      <4>1. \/ ev'[e] = ev[e]
            \/ ev'[e] = Dropped(ev[e])
            \/ ev'[e] = [ev[e] EXCEPT !.reported = TRUE]
        BY DEF Told
      <4> QED
        BY <2>0, <4>1 DEF Dropped, Row
    <3>3. \A n \in Nat : ev'[e] # Swept(ev[e], n)
      BY <2>0 DEF Swept, Row
    <3>4. \A p \in Procs : ~Record(p)
      <4> SUFFICES ASSUME NEW p \in Procs, Record(p)
                   PROVE  FALSE
        OBVIOUS
      <4> DEFINE s == IF recv[p].keep THEN "received" ELSE "dropped"
                 row == [NoRow EXCEPT !.state = s,
                                      !.trigger = recv[p].trigger,
                                      !.at = arrived,
                                      !.values = recv[p].keep]
      <4>1. ev' = ev \/ ev' = [ev EXCEPT ![recv[p].event] = row]
        BY DEF Record
      <4> HIDE DEF s
      <4>2. row.unknown = FALSE
        BY DEF NoRow
      <4> HIDE DEF row
      <4> QED
        BY <2>0, <4>1, <4>2 DEF TypeOK
    <3>5. \A p \in Procs, t \in Triggers, set \in {Null, "done", "failed", "dropped"} : ~Settle(p, t, set)
      <4> SUFFICES ASSUME NEW p \in Procs, NEW t \in Triggers, NEW set \in {Null, "done", "failed", "dropped"},
                          Settle(p, t, set)
                   PROVE  FALSE
        OBVIOUS
      <4>1. ev'[e] = ev[e] \/ ev'[e] = Finished(ev[e], p, OutcomeOfRun(set))
        BY <2>0 DEF TypeOK, Settle
      <4> QED
        BY <2>0, <4>1 DEF Finished, Row
    <3>6. \A p \in Procs : ~DrainOpen(p)
      BY <2>0, <3>3 DEF DrainOpen, TypeOK
    <3>7. \A p \in Procs, t \in Triggers : ~Visit(p, t)
      <4>1. \A t \in Triggers : {} \in SUBSET Events /\ Waiting(t) \in SUBSET Events
                                /\ \A f \in Events : {f} \in SUBSET Events
        BY DEF Waiting, Of
      <4> QED
        BY <3>2, <4>1 DEF Visit, PassBusy, PassNotLive, PassShopMoved, PassDeferred, PassRead, Pass
    <3>8. ev' # ev
      OBVIOUS
    <3>9. \E p \in Procs : Begin(p) \/ BeginNothing(p)
      BY <3>4, <3>5, <3>6, <3>7, <3>8
         DEF Next, Judge, TakeLease, NoLease, Boot, Stop, Crash, Release, Renew, Switch,
             LeaseLapses, Stall
    <3>10. "running" \in State /\ "failed" \in State
      BY DEF State
    <3> QED
      BY <3>1, <3>9, <3>10 DEF Begin, BeginNothing
  <2>2. e \in drain[p].lost /\ ev[e].state = "running"
    BY <2>1 DEF StillLost
  <2> QED
    BY <2>1, <2>2 DEF IInv, LostInv
<1>2. UnknownOnlyIfLost <=> [][Justified]_vars
  BY DEF UnknownOnlyIfLost
<1> QED
  BY <1>1, <1>2, Invariance, PTL DEF Spec

-----------------------------------------------------------------------------
(* What a step may do to an event, and what the owner hears of it.         *)

\* The row keeps its trigger and its place in the queue.
InPlace(e) == ev'[e].trigger = ev[e].trigger /\ ev'[e].at = ev[e].at

SameMarks(e) ==
    ev'[e].reported = ev[e].reported /\ ev'[e].unknown = ev[e].unknown /\ told'[e] = told[e]

\* Nothing, or its values are swept.
LeftAlone(e) ==
    /\ InPlace(e) /\ SameMarks(e)
    /\ ev'[e].state = ev[e].state
    /\ ev[e].state = "running" => ev'[e].attempt = ev[e].attempt

\* The receiver writes it at the end of the queue.
Recorded(e) ==
    /\ ev[e].state = "absent" /\ ev'[e].state \in {"received", "dropped"}
    /\ ev'[e].at = arrived /\ arrived' = arrived + 1
    /\ ~ev'[e].reported /\ ~ev'[e].unknown /\ told'[e] = told[e]

\* A drain tells of its end.
ToldOfEnd(e) ==
    /\ InPlace(e)
    /\ ev[e].state \in {"dropped", "failed"} /\ ev'[e].state = ev[e].state
    /\ ~ev[e].reported /\ ev'[e].reported
    /\ ev'[e].unknown = ev[e].unknown /\ told'[e] = told[e] + 1

\* A drain drops it, or begins it under the lease.
LeavesQueue(e) ==
    /\ InPlace(e) /\ SameMarks(e)
    /\ ev[e].state = "received" /\ ev'[e].state \notin Unstarted
    /\ ev'[e].state = "running" => \E p \in Procs : drain[p].at = "leased" /\ drain[p].event = e

\* A drain tells, under the lease, that it was lost.
ToldUnknown(e) ==
    /\ InPlace(e)
    /\ ev[e].state = "running" /\ ev'[e].state = "running" /\ ev'[e].attempt = ev[e].attempt
    /\ \E p \in Procs : drain[p].at = "leased" /\ e \in drain[p].lost
    /\ ~ev[e].unknown /\ ev'[e].unknown
    /\ ev'[e].reported = ev[e].reported /\ told'[e] = told[e] + 1

\* Its run writes the outcome.
Ended(e) ==
    /\ InPlace(e) /\ SameMarks(e)
    /\ ev[e].state = "running" /\ ev'[e].state \notin Unstarted \union {"running"}
    /\ ev[e].attempt \in Procs /\ \E t \in Triggers : run[ev[e].attempt][t].event = e

RowStep(e) ==
    LeftAlone(e) \/ Recorded(e) \/ ToldOfEnd(e) \/ LeavesQueue(e) \/ ToldUnknown(e) \/ Ended(e)

\* An unwritten ledger leaves every event alone.
LEMMA SameRows ==
    ASSUME ev' = ev, told' = told
    PROVE  \A e \in Events : RowStep(e)
BY DEF RowStep, LeftAlone, InPlace, SameMarks

\* A turn of the drain drops only what waits.
LEMMA TurnRows ==
    ASSUME TypeOK, NEW t \in Triggers, NEW es \in SUBSET Waiting(t),
           Tell(UnreportedEnds(t)), ev' = Told(t, es)
    PROVE  \A e \in Events : RowStep(e)
<1> SUFFICES ASSUME NEW e \in Events
             PROVE  RowStep(e)
  OBVIOUS
<1>1. ev[e] \in Row /\ told[e] \in Nat
  BY DEF TypeOK
<1>2. CASE e \in UnreportedEnds(t)
  <2>1. ev'[e] = [ev[e] EXCEPT !.reported = TRUE] /\ told'[e] = told[e] + 1
    BY <1>2 DEF Told, Tell
  <2>2. ev[e].state \in {"dropped", "failed"} /\ ~ev[e].reported
    BY <1>2 DEF UnreportedEnds, Of
  <2>3. ToldOfEnd(e)
    BY <1>1, <2>1, <2>2 DEF ToldOfEnd, InPlace, Row
  <2> QED
    BY <2>3 DEF RowStep
<1>3. CASE e \notin UnreportedEnds(t) /\ e \in es
  <2>1. ev'[e] = Dropped(ev[e]) /\ told'[e] = told[e]
    BY <1>3 DEF Told, Tell
  <2>2. ev[e].state = "received"
    BY <1>3 DEF Waiting, Of
  <2>3. LeavesQueue(e)
    BY <1>1, <2>1, <2>2 DEF LeavesQueue, InPlace, SameMarks, Dropped, Row, Unstarted
  <2> QED
    BY <2>3 DEF RowStep
<1>4. CASE e \notin UnreportedEnds(t) /\ e \notin es
  <2>1. ev'[e] = ev[e] /\ told'[e] = told[e]
    BY <1>4 DEF Told, Tell
  <2> QED
    BY <2>1 DEF RowStep, LeftAlone, InPlace, SameMarks
<1> QED
  BY <1>2, <1>3, <1>4

\* Under the lease, what is lost is told and the event read is begun.
LEMMA LeasedRows ==
    ASSUME TypeOK, NEW p \in Procs, NEW s \in {"running", "failed"}, drain[p].at = "leased",
           Tell(StillLost(p)), ev' = Marked(p, s)
    PROVE  \A e \in Events : RowStep(e)
<1> SUFFICES ASSUME NEW e \in Events
             PROVE  RowStep(e)
  OBVIOUS
<1>1. ev[e] \in Row /\ told[e] \in Nat
  BY DEF TypeOK
<1>2. CASE e \in StillLost(p)
  <2>1. ev'[e] = [ev[e] EXCEPT !.unknown = TRUE] /\ told'[e] = told[e] + 1
    <3>1. told'[e] = told[e] + 1
      BY <1>2 DEF Tell
    <3>2. ev'[e] = [ev[e] EXCEPT !.unknown = TRUE]
      BY <1>2 DEF Marked
    <3> QED
      BY <3>1, <3>2
  <2>2. ev[e].state = "running" /\ ~ev[e].unknown /\ e \in drain[p].lost
    BY <1>2 DEF StillLost
  <2>3. ToldUnknown(e)
    BY <1>1, <2>1, <2>2 DEF ToldUnknown, InPlace, Row
  <2> QED
    BY <2>3 DEF RowStep
<1>3. CASE e \notin StillLost(p) /\ e = drain[p].event /\ CanBegin(p)
  <2>1. ev'[e] = [ev[e] EXCEPT !.state = s, !.attempt = p] /\ told'[e] = told[e]
    <3>1. told'[e] = told[e]
      BY <1>3 DEF Tell
    <3>2. ev'[e] = [ev[e] EXCEPT !.state = s, !.attempt = p]
      BY <1>3 DEF Marked
    <3> QED
      BY <3>1, <3>2
  <2>2. ev[e].state = "received"
    BY <1>3 DEF CanBegin
  <2>3. LeavesQueue(e)
    BY <1>1, <1>3, <2>1, <2>2 DEF LeavesQueue, InPlace, SameMarks, Row, Unstarted
  <2> QED
    BY <2>3 DEF RowStep
<1>4. CASE e \notin StillLost(p) /\ ~(e = drain[p].event /\ CanBegin(p))
  <2>1. ev'[e] = ev[e] /\ told'[e] = told[e]
    <3>1. told'[e] = told[e]
      BY <1>4 DEF Tell
    <3>2. ev'[e] = ev[e]
      BY <1>4 DEF Marked
    <3> QED
      BY <3>1, <3>2
  <2> QED
    BY <2>1 DEF RowStep, LeftAlone, InPlace, SameMarks
<1> QED
  BY <1>2, <1>3, <1>4

\* The sweep leaves every event's state and marks.
LEMMA SweptRows ==
    ASSUME TypeOK, NEW n \in Nat, ev' = [e \in Events |-> Swept(ev[e], n)], told' = told
    PROVE  \A e \in Events : RowStep(e)
<1> SUFFICES ASSUME NEW e \in Events
             PROVE  LeftAlone(e)
  BY DEF RowStep
<1>1. ev[e] \in Row /\ ev'[e] = Swept(ev[e], n) /\ told'[e] = told[e]
  BY DEF TypeOK
<1>2. /\ ev'[e].state = ev[e].state /\ ev'[e].trigger = ev[e].trigger /\ ev'[e].at = ev[e].at
      /\ ev'[e].reported = ev[e].reported /\ ev'[e].unknown = ev[e].unknown
  BY <1>1 DEF Swept, Row
<1>3. ev[e].state = "running" => ev'[e].attempt = ev[e].attempt
  BY <1>1 DEF Swept, Row
<1> QED
  BY <1>1, <1>2, <1>3 DEF LeftAlone, InPlace, SameMarks

\* A key that is here already is not written again.
LEMMA RecordRows ==
    ASSUME TypeOK, NEW p \in Procs, Record(p)
    PROVE  \A e \in Events : RowStep(e)
<1> SUFFICES ASSUME NEW e \in Events
             PROVE  RowStep(e)
  OBVIOUS
<1>0. told'[e] = told[e]
  BY DEF Record
<1>1. CASE ev'[e] = ev[e]
  BY <1>0, <1>1 DEF RowStep, LeftAlone, InPlace, SameMarks
<1>2. CASE ev'[e] # ev[e]
  <2> DEFINE s == IF recv[p].keep THEN "received" ELSE "dropped"
             row == [NoRow EXCEPT !.state = s,
                                  !.trigger = recv[p].trigger,
                                  !.at = arrived,
                                  !.values = recv[p].keep]
  <2>1. s \in {"received", "dropped"}
    OBVIOUS
  <2>2. \/ ev' = ev
        \/ /\ ev' = [ev EXCEPT ![recv[p].event] = row] /\ arrived' = arrived + 1
           /\ ev[recv[p].event].state = "absent"
    BY DEF Record
  <2> HIDE DEF s
  <2>3. row.state = s /\ row.at = arrived /\ row.reported = FALSE /\ row.unknown = FALSE
    BY DEF NoRow
  <2> HIDE DEF row
  <2>4. ev'[e] = row /\ arrived' = arrived + 1 /\ ev[e].state = "absent"
    BY <1>2, <2>2 DEF TypeOK
  <2>5. Recorded(e)
    BY <1>0, <2>1, <2>3, <2>4 DEF Recorded
  <2> QED
    BY <2>5 DEF RowStep
<1> QED
  BY <1>1, <1>2

\* The outcome is written by the attempt that is on the row.
LEMMA SettleRows ==
    ASSUME TypeOK, NEW p \in Procs, NEW t \in Triggers,
           NEW set \in {Null, "done", "failed", "dropped"}, Settle(p, t, set)
    PROVE  \A e \in Events : RowStep(e)
<1> SUFFICES ASSUME NEW e \in Events
             PROVE  RowStep(e)
  OBVIOUS
<1>0. told'[e] = told[e] /\ ev[e] \in Row
  BY DEF Settle, TypeOK
<1>1. OutcomeOfRun(set) \in {"done", "failed", "dropped"}
  BY DEF OutcomeOfRun
<1>2. \/ ev'[e] = ev[e]
      \/ ev'[e] = Finished(ev[e], p, OutcomeOfRun(set)) /\ run[p][t].event = e
  BY DEF TypeOK, Settle
<1>3. CASE ev'[e] = ev[e]
  BY <1>0, <1>3 DEF RowStep, LeftAlone, InPlace, SameMarks
<1>4. CASE ev'[e] # ev[e]
  <2>1. /\ ev[e].state = "running" /\ ev[e].attempt = p /\ run[p][t].event = e
        /\ ev'[e] = [ev[e] EXCEPT !.state = OutcomeOfRun(set),
                                  !.values = ev[e].values /\ OutcomeOfRun(set) = "failed"]
    BY <1>2, <1>4 DEF Finished
  <2>2. /\ ev'[e].state = OutcomeOfRun(set) /\ ev'[e].trigger = ev[e].trigger
        /\ ev'[e].at = ev[e].at
        /\ ev'[e].reported = ev[e].reported /\ ev'[e].unknown = ev[e].unknown
    BY <1>0, <2>1 DEF Row
  <2>3. Ended(e)
    BY <1>0, <1>1, <2>1, <2>2 DEF Ended, InPlace, SameMarks, Unstarted
  <2> QED
    BY <2>3 DEF RowStep
<1> QED
  BY <1>3, <1>4

\* Every step does one of these to every event.
LEMMA NextRows ==
    ASSUME TypeOK, [Next]_vars
    PROVE  \A e \in Events : RowStep(e)
<1>1. ASSUME NEW p \in Procs, DrainOpen(p)
      PROVE  \A e \in Events : RowStep(e)
  <2>1. PICK n \in 0..arrived : ev' = [e \in Events |-> Swept(ev[e], n)]
    BY <1>1 DEF DrainOpen
  <2>2. n \in Nat /\ told' = told
    BY <1>1 DEF TypeOK, DrainOpen
  <2> QED
    BY <2>1, <2>2, SweptRows
<1>2. ASSUME NEW p \in Procs, NEW t \in Triggers, Visit(p, t)
      PROVE  \A e \in Events : RowStep(e)
  <2>1. PICK es \in SUBSET Waiting(t) : Tell(UnreportedEnds(t)) /\ ev' = Told(t, es)
    <3>1. {} \in SUBSET Waiting(t) /\ Waiting(t) \in SUBSET Waiting(t)
      OBVIOUS
    <3>2. \A e \in Events : IsOldest(e, t) => {e} \in SUBSET Waiting(t)
      BY DEF IsOldest
    <3> QED
      BY <1>2, <3>1, <3>2
         DEF Visit, PassBusy, PassNotLive, PassShopMoved, PassDeferred, PassRead, Pass, Turn
  <2> QED
    BY <2>1, TurnRows
<1>3. ASSUME NEW p \in Procs, Begin(p) \/ BeginNothing(p)
      PROVE  \A e \in Events : RowStep(e)
  BY <1>3, LeasedRows DEF Begin, BeginNothing
<1>4. ASSUME ev' = ev, told' = told
      PROVE  \A e \in Events : RowStep(e)
  BY <1>4, SameRows
<1>5. CASE UNCHANGED vars
  BY <1>4, <1>5 DEF vars
<1> QED
  BY <1>1, <1>2, <1>3, <1>4, <1>5, RecordRows, SettleRows
     DEF Next, Judge, TakeLease, NoLease, Boot, Stop, Crash, Release, Renew, Switch,
         LeaseLapses, Stall

-----------------------------------------------------------------------------
(* What the owner is told.                                                 *)

\* The owner was told what the marks say; only an end is reported, and what was
\* taken for lost has no run that could still end, unless a process stalled.
ToldInv ==
    \A e \in Events :
        /\ told[e] = (IF ev[e].reported THEN 1 ELSE 0) + (IF ev[e].unknown THEN 1 ELSE 0)
        /\ ev[e].reported => ev[e].state \in {"dropped", "failed"}
        /\ ev[e].unknown => ev[e].state \notin Unstarted
        /\ ev[e].unknown /\ ev[e].state # "running" => slow # {}
        /\ ev[e].unknown /\ ev[e].state = "running" =>
              \/ ev[e].attempt \in slow
              \/ \A t \in Triggers : run[ev[e].attempt][t].event # e

\* A process starts to run only what waited.
LEMMA NextRuns ==
    ASSUME IInv, [Next]_vars
    PROVE  /\ slow \subseteq slow'
           /\ \A p \in Procs, t \in Triggers :
                 \/ run'[p][t].event \in {run[p][t].event, Null}
                 \/ ev[run'[p][t].event].state = "received"
<1> DEFINE Runs == \A p \in Procs, t \in Triggers :
                      \/ run'[p][t].event \in {run[p][t].event, Null}
                      \/ ev[run'[p][t].event].state = "received"
<1>0. TypeOK
  BY DEF IInv
<1>1. slow \subseteq slow'
  <2>1. ASSUME slow' # slow
        PROVE  \E t \in Triggers : Stall(t)
    <3>1. \A p \in Procs : ~(Begin(p) \/ BeginNothing(p) \/ Crash(p) \/ Record(p) \/ DrainOpen(p))
      BY <2>1 DEF Begin, BeginNothing, Crash, Record, DrainOpen
    <3>2. \A p \in Procs, t \in Triggers : ~Visit(p, t)
      BY <2>1 DEF Visit, PassBusy, PassNotLive, PassShopMoved, PassDeferred, PassRead, Pass
    <3>3. \A p \in Procs, t \in Triggers :
             ~(Release(p, t) \/ Renew(p, t) \/ \E set \in {Null, "done", "failed", "dropped"} : Settle(p, t, set))
      BY <2>1 DEF Release, Renew, Settle
    <3> QED
      BY <2>1, <3>1, <3>2, <3>3
         DEF Next, vars, Judge, TakeLease, NoLease, Boot, Stop, Switch, LeaseLapses
  <2>2. \A t \in Triggers : Stall(t) => slow \subseteq slow'
    BY DEF Stall
  <2> QED
    BY <2>1, <2>2
<1>2. ASSUME run' = run
      PROVE  Runs
  BY <1>2
<1>3. ASSUME NEW p \in Procs, Begin(p)
      PROVE  Runs
  <2>1. drain[p].trigger \in Triggers /\ ev[drain[p].event].state = "received"
    BY <1>3 DEF IInv, DrainInv, Begin, CanBegin
  <2>2. run' = [run EXCEPT ![p] = [run[p] EXCEPT ![drain[p].trigger] =
                  [phase |-> "running", event |-> drain[p].event]]]
    BY <1>3 DEF Begin
  <2> QED
    BY <1>0, <2>1, <2>2 DEF TypeOK
<1>4. ASSUME NEW p \in Procs, Crash(p)
      PROVE  Runs
  BY <1>0, <1>4 DEF TypeOK, Crash, NoRun
<1>5. ASSUME NEW p \in Procs, NEW t \in Triggers, NEW set, Settle(p, t, set)
      PROVE  Runs
  <2>1. run[p][t] \in Run
    BY <1>0 DEF TypeOK
  <2>2. [run[p][t] EXCEPT !.phase = "settled"].event = run[p][t].event
    BY <2>1 DEF Run
  <2>3. run' = [run EXCEPT ![p] = [run[p] EXCEPT ![t] = [run[p][t] EXCEPT !.phase = "settled"]]]
    BY <1>5 DEF Settle
  <2> QED
    BY <1>0, <2>2, <2>3 DEF TypeOK
<1>6. ASSUME NEW p \in Procs, NEW t \in Triggers, Release(p, t)
      PROVE  Runs
  BY <1>0, <1>6 DEF TypeOK, Release, NoRun
<1>7. Runs
  <2>1. CASE run' = run
    BY <1>2, <2>1
  <2>2. CASE run' # run
    <3>1. \/ \E p \in Procs : Begin(p) \/ Crash(p)
          \/ \E p \in Procs, t \in Triggers :
                Release(p, t) \/ \E set \in {Null, "done", "failed", "dropped"} : Settle(p, t, set)
      BY <2>2 DEF Next, vars, Judge, Record, DrainOpen, Visit, PassBusy, PassNotLive,
             PassShopMoved, PassDeferred, PassRead, Pass, TakeLease, NoLease, BeginNothing,
             Boot, Stop, Renew, Switch, LeaseLapses, Stall
    <3> HIDE DEF Runs
    <3> QED
      BY <1>3, <1>4, <1>5, <1>6, <3>1
  <2> QED
    BY <2>1, <2>2
<1> QED
  BY <1>1, <1>7

\* Initially nobody was told anything.
LEMMA ToldInit == Init => ToldInv
BY DEF Init, ToldInv, NoRow

\* The notices and the marks move together, and an event found lost under the
\* lease ends later only in a process that stalled.
LEMMA ToldStep ==
    ASSUME IInv, ToldInv, [Next]_vars
    PROVE  ToldInv'
<1> DEFINE Marks(r) == (IF r.reported THEN 1 ELSE 0) + (IF r.unknown THEN 1 ELSE 0)
<1> SUFFICES ASSUME NEW e \in Events
             PROVE  /\ told'[e] = Marks(ev'[e])
                    /\ ev'[e].reported => ev'[e].state \in {"dropped", "failed"}
                    /\ ev'[e].unknown => ev'[e].state \notin Unstarted
                    /\ ev'[e].unknown /\ ev'[e].state # "running" => slow' # {}
                    /\ ev'[e].unknown /\ ev'[e].state = "running" =>
                          \/ ev'[e].attempt \in slow'
                          \/ \A t \in Triggers : run'[ev'[e].attempt][t].event # e
  BY DEF ToldInv
<1>0. /\ told[e] = Marks(ev[e])
      /\ ev[e].reported => ev[e].state \in {"dropped", "failed"}
      /\ ev[e].unknown => ev[e].state \notin Unstarted
      /\ ev[e].unknown /\ ev[e].state # "running" => slow # {}
      /\ ev[e].unknown /\ ev[e].state = "running" =>
            \/ ev[e].attempt \in slow
            \/ \A t \in Triggers : run[ev[e].attempt][t].event # e
  BY DEF ToldInv
<1>1. RowStep(e)
  BY NextRows DEF IInv
<1>2. slow \subseteq slow' /\ e # Null
  BY NextRuns, InboundEventsAssumption
<1>3. ASSUME ev[e].state = "running", NEW p \in Procs,
             \A t \in Triggers : run[p][t].event # e
      PROVE  \A t \in Triggers : run'[p][t].event # e
  BY <1>2, <1>3, NextRuns
<1>4. ev[e].state = "running" => ev[e].attempt \in Procs
  BY DEF IInv, EventsInv
<1>5. CASE LeftAlone(e)
  BY <1>0, <1>2, <1>3, <1>4, <1>5 DEF LeftAlone, SameMarks
<1>6. CASE Recorded(e)
  <2>1. ~ev[e].reported /\ ~ev[e].unknown
    BY <1>0, <1>6 DEF Recorded, Unstarted
  <2> QED
    BY <1>0, <1>6, <2>1 DEF Recorded
<1>7. CASE ToldOfEnd(e)
  BY <1>0, <1>2, <1>7 DEF ToldOfEnd
<1>8. CASE LeavesQueue(e)
  <2>1. ~ev[e].reported /\ ~ev[e].unknown
    BY <1>0, <1>8 DEF LeavesQueue, Unstarted
  <2> QED
    BY <1>0, <1>8, <2>1 DEF LeavesQueue, SameMarks
<1>9. CASE ToldUnknown(e)
  <2>1. ev[e].attempt \in slow \/ \A t \in Triggers : run[ev[e].attempt][t].event # e
    BY <1>9 DEF ToldUnknown, IInv, LostInv
  <2>2. ev'[e].attempt \in slow' \/ \A t \in Triggers : run'[ev'[e].attempt][t].event # e
    BY <1>2, <1>3, <1>4, <1>9, <2>1 DEF ToldUnknown
  <2>3. told'[e] = Marks(ev'[e]) /\ ~ev[e].reported
    BY <1>0, <1>9 DEF ToldUnknown
  <2> QED
    BY <1>0, <1>9, <2>2, <2>3 DEF ToldUnknown, Unstarted
<1>10. CASE Ended(e)
  <2>1. ev[e].unknown => slow' # {}
    BY <1>0, <1>2, <1>10 DEF Ended
  <2>2. ~ev[e].reported
    BY <1>0, <1>10 DEF Ended
  <2> QED
    BY <1>0, <1>10, <2>1, <2>2 DEF Ended, SameMarks
<1> QED
  BY <1>1, <1>5, <1>6, <1>7, <1>8, <1>9, <1>10 DEF RowStep

\* The owner is told of an event once, and a second time only of the real end of
\* a run that was taken for lost while its process stalled.
THEOREM ToldOnceCorrect == Spec => []ToldOnce
<1>1. ToldInv => ToldOnce
  BY DEF ToldInv, ToldOnce
<1> QED
  BY <1>1, ToldInit, ToldStep, Invariance, PTL DEF Spec

-----------------------------------------------------------------------------
(* The order of starts.                                                    *)

\* Every recorded event came before the next one will, and nothing that waits is
\* older than an event that a drain has read, while that event still waits.
OrderInv ==
    /\ \A e \in Events : ev[e].state # "absent" => ev[e].at < arrived
    /\ \A p \in Procs :
          drain[p].at # "none" /\ drain[p].event # Null =>
             \A f \in Events :
                /\ ev[drain[p].event].state = "received"
                /\ ev[f].state = "received" /\ ev[f].trigger = drain[p].trigger
                => ev[drain[p].event].at <= ev[f].at

\* A drain that has read an event has read it before, or reads the oldest now.
DrainStep(p) ==
    \/ drain'[p].at = "none"
    \/ /\ drain[p].at # "none"
       /\ drain'[p].trigger = drain[p].trigger /\ drain'[p].event = drain[p].event
    \/ drain'[p].event # Null => IsOldest(drain'[p].event, drain'[p].trigger)

\* Every step moves a drain this way.
LEMMA NextDrains ==
    ASSUME TypeOK, [Next]_vars
    PROVE  \A p \in Procs : DrainStep(p)
<1>1. ASSUME drain' = drain
      PROVE  \A p \in Procs : DrainStep(p)
  BY <1>1 DEF DrainStep
<1>2. ASSUME NEW p \in Procs, Onward(p)
      PROVE  \A q \in Procs : DrainStep(q)
  BY <1>2, OnwardStays DEF DrainStep
<1>3. ASSUME NEW p \in Procs, DrainOpen(p)
      PROVE  \A q \in Procs : DrainStep(q)
  <2>1. drain[p] \in Drain /\ drain[p].at = "none"
    <3>1. drain[p] = NoDrain /\ drain[p] \in Drain
      BY <1>3 DEF DrainOpen, Idle, TypeOK
    <3> QED
      BY <3>1 DEF NoDrain
  <2>2. [drain[p] EXCEPT !.todo = {t \in Triggers : HasWork(t)}].at = "none"
    BY <2>1 DEF Drain
  <2>3. drain' = [drain EXCEPT ![p] = [drain[p] EXCEPT !.todo = {t \in Triggers : HasWork(t)}]]
    BY <1>3 DEF DrainOpen
  <2> QED
    BY <2>2, <2>3 DEF TypeOK, DrainStep
<1>4. ASSUME NEW p \in Procs, NEW t \in Triggers, NEW es, Pass(p, t, es)
      PROVE  \A q \in Procs : DrainStep(q)
  <2>1. drain[p] \in Drain /\ drain[p].at = "none"
    BY <1>4 DEF Pass, Turn, TypeOK
  <2>2. [drain[p] EXCEPT !.todo = @ \ {t}].at = "none"
    BY <2>1 DEF Drain
  <2>3. drain' = [drain EXCEPT ![p] = [drain[p] EXCEPT !.todo = @ \ {t}]]
    BY <1>4 DEF Pass
  <2> QED
    BY <2>2, <2>3 DEF TypeOK, DrainStep
<1>5. ASSUME NEW p \in Procs, NEW t \in Triggers, PassRead(p, t)
      PROVE  \A q \in Procs : DrainStep(q)
  <2>1. PICK e \in Events \union {Null} :
           /\ e # Null => IsOldest(e, t)
           /\ drain' = [drain EXCEPT ![p] =
                          [todo |-> drain[p].todo \ {t}, at |-> "read", trigger |-> t,
                           event |-> e, lost |-> UnreportedRunning(t)]]
    BY <1>5 DEF PassRead
  <2>2. drain'[p].trigger = t /\ drain'[p].event = e /\ \A q \in Procs \ {p} : drain'[q] = drain[q]
    BY <2>1 DEF TypeOK
  <2> QED
    BY <2>1, <2>2 DEF DrainStep
<1>6. ASSUME NEW p \in Procs, TakeLease(p)
      PROVE  \A q \in Procs : DrainStep(q)
  <2>1. drain[p] \in Drain /\ drain[p].at = "read"
    BY <1>6 DEF TypeOK, TakeLease
  <2>2. drain'[p] = [drain[p] EXCEPT !.at = "leased"] /\ \A q \in Procs \ {p} : drain'[q] = drain[q]
    BY <1>6 DEF TypeOK, TakeLease
  <2>3. drain'[p].trigger = drain[p].trigger /\ drain'[p].event = drain[p].event
    BY <2>1, <2>2 DEF Drain
  <2> QED
    BY <2>1, <2>2, <2>3 DEF DrainStep
<1>7. ASSUME NEW p \in Procs, Crash(p)
      PROVE  \A q \in Procs : DrainStep(q)
  BY <1>7 DEF TypeOK, Crash, NoDrain, DrainStep
<1>8. CASE UNCHANGED vars
  BY <1>1, <1>8 DEF vars
<1>9. ASSUME NEW p \in Procs, NEW t \in Triggers, Visit(p, t)
      PROVE  \A q \in Procs : DrainStep(q)
  BY <1>4, <1>5, <1>9 DEF Visit, PassBusy, PassNotLive, PassShopMoved, PassDeferred
<1>10. ASSUME NEW p \in Procs, NoLease(p) \/ Begin(p) \/ BeginNothing(p)
       PROVE  \A q \in Procs : DrainStep(q)
  BY <1>2, <1>10 DEF NoLease, Begin, BeginNothing
<1> QED
  BY <1>1, <1>3, <1>6, <1>7, <1>8, <1>9, <1>10
     DEF Next, Judge, Record, Boot, Stop, Settle, Release, Renew, Switch, LeaseLapses, Stall

\* A delivery counts once, when its row is written.
LEMMA NextArrived ==
    ASSUME TypeOK, [Next]_vars
    PROVE  arrived' \in {arrived, arrived + 1}
<1>1. ASSUME NEW p \in Procs, Record(p)
      PROVE  arrived' \in {arrived, arrived + 1}
  BY <1>1 DEF Record
<1>2. ASSUME NEW p \in Procs, NEW t \in Triggers, Visit(p, t)
      PROVE  arrived' = arrived
  BY <1>2 DEF Visit, PassBusy, PassNotLive, PassShopMoved, PassDeferred, PassRead, Pass
<1>3. CASE UNCHANGED vars
  BY <1>3 DEF vars
<1> QED
  BY <1>1, <1>2, <1>3
     DEF Next, Judge, DrainOpen, TakeLease, NoLease, Begin, BeginNothing, Boot, Stop, Crash,
         Settle, Release, Renew, Switch, LeaseLapses, Stall

\* Initially nothing has come and no drain has read anything.
LEMMA OrderInit == Init => OrderInv
BY DEF Init, OrderInv, NoRow, NoDrain

\* What comes later waits behind what was read.
LEMMA OrderStep ==
    ASSUME IInv, OrderInv, [Next]_vars
    PROVE  OrderInv'
<1>0. TypeOK /\ \A e \in Events : ev[e] \in Row /\ RowStep(e)
  BY NextRows DEF IInv, TypeOK
<1>1. \A e \in Events : ev[e].at \in Nat /\ arrived \in Nat
  BY <1>0 DEF TypeOK, Row
<1>2. ASSUME NEW e \in Events, ev'[e].state # "absent"
      PROVE  ev'[e].at < arrived'
  <2>1. arrived' = arrived \/ arrived' = arrived + 1
    BY <1>0, NextArrived
  <2>2. CASE Recorded(e)
    BY <1>1, <2>2 DEF Recorded
  <2>3. CASE ~Recorded(e)
    <3>1. ev'[e].at = ev[e].at /\ ev[e].state # "absent"
      BY <1>0, <1>2, <2>3
         DEF RowStep, LeftAlone, ToldOfEnd, LeavesQueue, ToldUnknown, Ended, InPlace
    <3> QED
      BY <1>1, <2>1, <3>1 DEF OrderInv
  <2> QED
    BY <2>2, <2>3
<1>3. ASSUME NEW f \in Events, ev'[f].state = "received"
      PROVE  \/ ev[f].state = "received" /\ ev'[f].at = ev[f].at /\ ev'[f].trigger = ev[f].trigger
             \/ ev[f].state = "absent" /\ ev'[f].at = arrived
  BY <1>0, <1>3
     DEF RowStep, LeftAlone, Recorded, ToldOfEnd, LeavesQueue, ToldUnknown, Ended, InPlace,
         Unstarted
<1>4. ASSUME NEW p \in Procs, drain'[p].at # "none", drain'[p].event # Null,
             NEW f \in Events,
             ev'[drain'[p].event].state = "received",
             ev'[f].state = "received", ev'[f].trigger = drain'[p].trigger
      PROVE  ev'[drain'[p].event].at <= ev'[f].at
  <2>1. PICK e \in Events : e = drain'[p].event
    <3>1. TypeOK'
      BY <1>0, NextType
    <3> QED
      BY <1>4, <3>1 DEF TypeOK, Drain
  <2>2. /\ ev[e].state # "absent"
        /\ ev[f].state = "received" /\ ev[e].state = "received" /\ ev[f].trigger = drain'[p].trigger
              => ev[e].at <= ev[f].at
    <3>1. CASE /\ drain[p].at # "none"
               /\ drain'[p].trigger = drain[p].trigger /\ drain'[p].event = drain[p].event
      BY <1>4, <2>1, <3>1 DEF OrderInv, IInv, DrainInv
    <3>2. CASE IsOldest(e, drain'[p].trigger)
      BY <3>2 DEF IsOldest, Waiting, Of
    <3>3. DrainStep(p)
      BY <1>0, NextDrains
    <3> QED
      BY <1>4, <2>1, <3>1, <3>2, <3>3 DEF DrainStep
  <2>3. ev[e].state = "received" /\ ev'[e].at = ev[e].at /\ ev[e].at < arrived
    BY <1>3, <1>4, <2>1, <2>2 DEF OrderInv
  <2> QED
    BY <1>1, <1>3, <1>4, <2>1, <2>2, <2>3
<1> QED
  BY <1>2, <1>4 DEF OrderInv

\* Events of a trigger start in the order in which they came: the drain reads the
\* oldest before it has the lease, and `begin` finds it either gone or still oldest.
THEOREM StartsInOrderCorrect == Spec => StartsInOrder
<1> DEFINE Ordered == \A e, f \in Events :
             /\ ev[e].state = "received" /\ ev'[e].state = "running"
             /\ ev[f].state = "received" /\ ev[f].trigger = ev[e].trigger
             => ev[e].at <= ev[f].at
<1>1. IInv /\ OrderInv /\ [Next]_vars => [Ordered]_vars
  <2> SUFFICES ASSUME IInv, OrderInv, Next, NEW e \in Events, NEW f \in Events,
                      ev[e].state = "received", ev'[e].state = "running",
                      ev[f].state = "received", ev[f].trigger = ev[e].trigger
               PROVE  ev[e].at <= ev[f].at
    BY DEF Ordered
  <2>1. RowStep(e)
    BY NextRows DEF IInv
  <2>2. LeavesQueue(e)
    BY <2>1 DEF RowStep, LeftAlone, Recorded, ToldOfEnd, ToldUnknown, Ended
  <2>3. PICK p \in Procs : drain[p].at = "leased" /\ drain[p].event = e
    BY <2>2 DEF LeavesQueue
  <2>4. ev[e].trigger = drain[p].trigger /\ e # Null
    BY <2>3, InboundEventsAssumption DEF IInv, DrainInv
  <2> QED
    BY <2>3, <2>4 DEF OrderInv
<1>2. StartsInOrder <=> [][Ordered]_vars
  BY DEF StartsInOrder
<1> QED
  BY <1>1, <1>2, OrderInit, OrderStep, Invariance, PTL DEF Spec

-----------------------------------------------------------------------------
(* The length of a queue.                                                  *)

\* The processes that have judged a delivery for t worth keeping and not yet
\* written it.
Promised(t) == {p \in Procs : recv[p].keep /\ recv[p].trigger = t}

\* Counting what is promised as waiting already, the queue stays below its limit
\* and one for each process that ever came up.
QueueInv ==
    /\ \A p \in Procs : recv[p] # NoDelivery => recv[p].event # Null /\ p \in Booted
    /\ IsFiniteSet(Booted)
    /\ \A t \in Triggers :
          /\ IsFiniteSet(Waiting(t))
          /\ Cardinality(Waiting(t)) + Cardinality(Promised(t)) < MaxWaiting + Cardinality(Booted)

\* Sets that shrink under a bound that grows keep to it.
LEMMA Shrink ==
    ASSUME NEW A, NEW B, NEW C, NEW A1 \in SUBSET A, NEW B1 \in SUBSET B, NEW C1,
           C \subseteq C1, IsFiniteSet(A), IsFiniteSet(B), IsFiniteSet(C1), NEW m \in Nat,
           Cardinality(A) + Cardinality(B) < m + Cardinality(C)
    PROVE  IsFiniteSet(A1) /\ Cardinality(A1) + Cardinality(B1) < m + Cardinality(C1)
<1>1. IsFiniteSet(A1) /\ Cardinality(A1) <= Cardinality(A)
  BY FS_Subset
<1>2. IsFiniteSet(B1) /\ Cardinality(B1) <= Cardinality(B)
  BY FS_Subset
<1>3. IsFiniteSet(C) /\ Cardinality(C) <= Cardinality(C1)
  BY FS_Subset
<1>4. /\ Cardinality(A) \in Nat /\ Cardinality(B) \in Nat /\ Cardinality(C) \in Nat
      /\ Cardinality(A1) \in Nat /\ Cardinality(B1) \in Nat /\ Cardinality(C1) \in Nat
  BY <1>1, <1>2, <1>3, FS_CardinalityType
<1> QED
  BY <1>1, <1>2, <1>3, <1>4

\* What is promised is promised by processes that came up.
LEMMA PromisedFinite ==
    ASSUME TypeOK, QueueInv
    PROVE  \A t \in Triggers : Promised(t) \in SUBSET Booted /\ IsFiniteSet(Promised(t))
<1> SUFFICES ASSUME NEW t \in Triggers
             PROVE  Promised(t) \in SUBSET Booted /\ IsFiniteSet(Promised(t))
  OBVIOUS
<1>1. ~NoDelivery.keep
  BY DEF NoDelivery
<1>2. Promised(t) \in SUBSET Booted
  BY <1>1 DEF QueueInv, Promised
<1> QED
  BY <1>2, FS_Subset DEF QueueInv

\* Initially no queue and no process is there.
LEMMA QueueInit == Init => QueueInv
<1> SUFFICES ASSUME Init
             PROVE  QueueInv
  OBVIOUS
<1>1. Booted = {} /\ \A t \in Triggers : Waiting(t) = {} /\ Promised(t) = {}
  <2>1. NoDelivery.keep = FALSE /\ NoRow.state = "absent"
    BY DEF NoDelivery, NoRow
  <2> QED
    BY <2>1 DEF Init, Booted, Waiting, Of, Promised
<1>2. \A p \in Procs : recv[p] = NoDelivery
  BY DEF Init
<1> QED
  BY <1>1, <1>2, FS_EmptySet, InboundEventsAssumption DEF QueueInv

\* A step that adds nothing to what waits or is promised.
LEMMA QueueShrinks ==
    ASSUME TypeOK, QueueInv,
           \A p \in Procs : recv'[p] \in {recv[p], NoDelivery},
           \A t \in Triggers : Waiting(t)' \subseteq Waiting(t),
           Booted \subseteq Booted', IsFiniteSet(Booted')
    PROVE  QueueInv'
<1>1. \A p \in Procs : recv'[p] # NoDelivery => recv'[p].event # Null /\ p \in Booted'
  BY DEF QueueInv
<1>2. ASSUME NEW t \in Triggers
      PROVE  /\ IsFiniteSet(Waiting(t)')
             /\ Cardinality(Waiting(t)') + Cardinality(Promised(t)') < MaxWaiting + Cardinality(Booted')
  <2>1. ~NoDelivery.keep
    BY DEF NoDelivery
  <2>2. Promised(t)' \subseteq Promised(t)
    BY <2>1 DEF Promised
  <2>3. /\ IsFiniteSet(Waiting(t)) /\ IsFiniteSet(Promised(t))
        /\ Cardinality(Waiting(t)) + Cardinality(Promised(t)) < MaxWaiting + Cardinality(Booted)
    BY PromisedFinite DEF QueueInv
  <2>4. MaxWaiting \in Nat /\ Waiting(t)' \in SUBSET Waiting(t) /\ Promised(t)' \in SUBSET Promised(t)
    BY <2>2, InboundEventsAssumption
  <2> HIDE DEF Waiting, Promised, Booted
  <2> QED
    BY <2>3, <2>4, Shrink
<1> QED
  BY <1>1, <1>2 DEF QueueInv

\* A delivery is judged: less than the limit waits, and every promise is another
\* process's.
LEMMA JudgeQueue ==
    ASSUME TypeOK, QueueInv, NEW p \in Procs, NEW e \in Events, NEW u \in Triggers,
           NEW b \in BOOLEAN, Judge(p, e, u, b)
    PROVE  QueueInv'
<1> DEFINE new == [event |-> e, trigger |-> u, keep |-> Kept(u, b)]
<1>1. recv' = [recv EXCEPT ![p] = new] /\ ev' = ev /\ proc' = proc
  BY DEF Judge
<1>2. new.event = e /\ new.trigger = u /\ new.keep = Kept(u, b) /\ e # Null
  BY InboundEventsAssumption
<1> HIDE DEF new
<1>3. Booted' = Booted /\ p \in Booted /\ \A t \in Triggers : Waiting(t)' = Waiting(t)
  BY <1>1 DEF Booted, Judge, Waiting, Of
<1>4. \A q \in Procs : recv'[q] # NoDelivery => recv'[q].event # Null /\ q \in Booted'
  BY <1>1, <1>2, <1>3 DEF QueueInv, TypeOK
<1>5. ASSUME NEW t \in Triggers
      PROVE  /\ IsFiniteSet(Waiting(t)')
             /\ Cardinality(Waiting(t)') + Cardinality(Promised(t)') < MaxWaiting + Cardinality(Booted')
  <2>1. IsFiniteSet(Waiting(t)) /\ IsFiniteSet(Booted) /\ MaxWaiting \in Nat
    BY InboundEventsAssumption DEF QueueInv
  <2>2. CASE Kept(u, b) /\ t = u
    <3>1. Cardinality(Waiting(t)) < MaxWaiting
      BY <2>2 DEF Kept
    <3>2. Promised(t)' \in SUBSET Booted
      <4>1. Promised(t) \in SUBSET Booted
        BY PromisedFinite
      <4> QED
        BY <1>1, <1>3, <4>1 DEF TypeOK, Promised
    <3>3. IsFiniteSet(Promised(t)') /\ Cardinality(Promised(t)') <= Cardinality(Booted)
      BY <2>1, <3>2, FS_Subset
    <3>4. /\ Cardinality(Waiting(t)) \in Nat /\ Cardinality(Booted) \in Nat
          /\ Cardinality(Promised(t)') \in Nat
      BY <2>1, <3>3, FS_CardinalityType
    <3> QED
      BY <1>3, <2>1, <3>1, <3>3, <3>4
  <2>3. CASE ~(Kept(u, b) /\ t = u)
    <3>1. Promised(t)' \in SUBSET Promised(t)
      BY <1>1, <1>2, <2>3 DEF TypeOK, Promised
    <3>2. IsFiniteSet(Promised(t)) /\ Waiting(t)' \in SUBSET Waiting(t) /\ Booted \subseteq Booted'
      BY <1>3, PromisedFinite
    <3>3. /\ Cardinality(Waiting(t)) + Cardinality(Promised(t)) < MaxWaiting + Cardinality(Booted)
          /\ IsFiniteSet(Booted')
      BY <1>3 DEF QueueInv
    <3> QED
      BY <2>1, <3>1, <3>2, <3>3, Shrink
  <2> QED
    BY <2>2, <2>3
<1> QED
  BY <1>3, <1>4, <1>5 DEF QueueInv

\* A delivery is recorded: one more waits, and one promise less is out.
LEMMA RecordQueue ==
    ASSUME TypeOK, QueueInv, NEW p \in Procs, Record(p)
    PROVE  QueueInv'
<1> DEFINE d == recv[p]
           row == [NoRow EXCEPT !.state = IF d.keep THEN "received" ELSE "dropped",
                                !.trigger = d.trigger,
                                !.at = arrived,
                                !.values = d.keep]
<1>1. /\ ev' = [ev EXCEPT ![d.event] = row] \/ ev' = ev
      /\ recv' = [recv EXCEPT ![p] = NoDelivery]
      /\ proc' = proc /\ d # NoDelivery
  BY DEF Record
<1>2. row.trigger = d.trigger /\ (row.state = "received" <=> d.keep)
  <2> DEFINE s == IF d.keep THEN "received" ELSE "dropped"
  <2>1. s = "received" <=> d.keep
    OBVIOUS
  <2> HIDE DEF s, d
  <2>2. [NoRow EXCEPT !.state = s, !.trigger = d.trigger, !.at = arrived, !.values = d.keep].trigger = d.trigger
    BY DEF NoRow
  <2>3. [NoRow EXCEPT !.state = s, !.trigger = d.trigger, !.at = arrived, !.values = d.keep].state = s
    BY DEF NoRow
  <2> QED
    BY <2>1, <2>2, <2>3 DEF s
<1> HIDE DEF row, d
<1>3. d.event \in Events /\ p \in Booted /\ d = recv[p]
  BY <1>1 DEF d, QueueInv, TypeOK, Delivery
<1>4. Booted' = Booted /\ IsFiniteSet(Booted)
  BY <1>1 DEF Booted, QueueInv
<1>5. recv'[p] = NoDelivery /\ \A q \in Procs \ {p} : recv'[q] = recv[q]
  BY <1>1 DEF TypeOK
<1>6. \A q \in Procs : recv'[q] # NoDelivery => recv'[q].event # Null /\ q \in Booted'
  BY <1>4, <1>5 DEF QueueInv
<1>7. ASSUME NEW t \in Triggers
      PROVE  /\ IsFiniteSet(Waiting(t)')
             /\ Cardinality(Waiting(t)') + Cardinality(Promised(t)') < MaxWaiting + Cardinality(Booted')
  <2>1. /\ IsFiniteSet(Waiting(t)) /\ IsFiniteSet(Promised(t)) /\ MaxWaiting \in Nat
        /\ Cardinality(Waiting(t)) + Cardinality(Promised(t)) < MaxWaiting + Cardinality(Booted)
    BY PromisedFinite, InboundEventsAssumption DEF QueueInv
  <2>2. Promised(t)' \in SUBSET Promised(t) /\ p \notin Promised(t)'
    <3>1. ~NoDelivery.keep
      BY DEF NoDelivery
    <3> QED
      BY <1>5, <3>1 DEF Promised
  <2>3. CASE d.keep /\ d.trigger = t
    <3>1. Waiting(t)' \in SUBSET (Waiting(t) \union {d.event})
      <4>1. \A f \in Events : f # d.event => ev'[f] = ev[f]
        BY <1>1, <1>3 DEF TypeOK
      <4> QED
        BY <4>1 DEF Waiting, Of
    <3>2. p \in Promised(t)
      BY <1>3, <2>3 DEF Promised
    <3>3. Promised(t)' \in SUBSET (Promised(t) \ {p})
      BY <2>2
    <3>4. /\ IsFiniteSet(Promised(t) \ {p})
          /\ Cardinality(Promised(t) \ {p}) = Cardinality(Promised(t)) - 1
      BY <2>1, <3>2, FS_RemoveElement
    <3>5. /\ IsFiniteSet(Waiting(t) \union {d.event})
          /\ Cardinality(Waiting(t) \union {d.event}) \in {Cardinality(Waiting(t)), Cardinality(Waiting(t)) + 1}
      BY <2>1, FS_AddElement
    <3>6. /\ Cardinality(Waiting(t)) \in Nat /\ Cardinality(Promised(t)) \in Nat
          /\ Cardinality(Booted) \in Nat
      BY <1>4, <2>1, FS_CardinalityType
    <3>7. Cardinality(Waiting(t) \union {d.event}) + Cardinality(Promised(t) \ {p})
             < MaxWaiting + Cardinality(Booted)
      BY <2>1, <3>4, <3>5, <3>6
    <3>8. Booted \subseteq Booted' /\ IsFiniteSet(Booted')
      BY <1>4
    <3> DEFINE A == Waiting(t) \union {d.event}
               B == Promised(t) \ {p}
    <3>9. /\ Waiting(t)' \in SUBSET A /\ Promised(t)' \in SUBSET B
          /\ IsFiniteSet(A) /\ IsFiniteSet(B) /\ MaxWaiting \in Nat
          /\ Cardinality(A) + Cardinality(B) < MaxWaiting + Cardinality(Booted)
      BY <2>1, <3>1, <3>3, <3>4, <3>5, <3>7
    <3> HIDE DEF A, B
    <3> QED
      BY <3>8, <3>9, Shrink
  <2>4. CASE ~(d.keep /\ d.trigger = t)
    <3>1. Waiting(t)' \in SUBSET Waiting(t)
      <4>1. \A f \in Events : ev'[f] = ev[f] \/ ev'[f] = row
        BY <1>1, <1>3 DEF TypeOK
      <4> QED
        BY <1>2, <2>4, <4>1 DEF Waiting, Of
    <3>2. Booted \subseteq Booted' /\ IsFiniteSet(Booted')
      BY <1>4
    <3> QED
      BY <2>1, <2>2, <3>1, <3>2, Shrink
  <2> QED
    BY <2>3, <2>4
<1> QED
  BY <1>4, <1>6, <1>7 DEF QueueInv

\* Only the receiver adds to a queue.
LEMMA QueueStep ==
    ASSUME TypeOK, QueueInv, [Next]_vars
    PROVE  QueueInv'
<1>1. CASE \E p \in Procs, e \in Events, t \in Triggers, b \in BOOLEAN : Judge(p, e, t, b)
  BY <1>1, JudgeQueue
<1>2. CASE \E p \in Procs : Record(p)
  BY <1>2, RecordQueue
<1>3. CASE /\ \A p \in Procs, e \in Events, t \in Triggers, b \in BOOLEAN : ~Judge(p, e, t, b)
           /\ \A p \in Procs : ~Record(p)
  <2>1. \A p \in Procs : recv'[p] \in {recv[p], NoDelivery}
    <3>1. CASE \E p \in Procs : Crash(p)
      BY <3>1 DEF TypeOK, Crash
    <3>2. CASE \A p \in Procs : ~Crash(p)
      <4>1. \A p \in Procs, t \in Triggers : Visit(p, t) => recv' = recv
        BY DEF Visit, PassBusy, PassNotLive, PassShopMoved, PassDeferred, PassRead, Pass
      <4>2. recv' = recv
        BY <1>3, <3>2, <4>1
           DEF Next, vars, DrainOpen, TakeLease, NoLease, Begin, BeginNothing, Boot, Stop,
               Settle, Release, Renew, Switch, LeaseLapses, Stall
      <4> QED
        BY <4>2
    <3> QED
      BY <3>1, <3>2
  <2>2. \A t \in Triggers : Waiting(t)' \subseteq Waiting(t)
    <3>1. \A e \in Events : ~Recorded(e)
      <4>1. arrived' = arrived
        <5>1. \A p \in Procs, t \in Triggers : Visit(p, t) => arrived' = arrived
          BY DEF Visit, PassBusy, PassNotLive, PassShopMoved, PassDeferred, PassRead, Pass
        <5> QED
          BY <1>3, <5>1
             DEF Next, vars, DrainOpen, TakeLease, NoLease, Begin, BeginNothing, Boot, Stop,
                 Crash, Settle, Release, Renew, Switch, LeaseLapses, Stall
      <4> QED
        BY <4>1 DEF Recorded, TypeOK
    <3>2. \A e \in Events : ev'[e].state = "received" =>
             ev[e].state = "received" /\ ev'[e].trigger = ev[e].trigger
      BY <3>1, NextRows
         DEF RowStep, LeftAlone, ToldOfEnd, LeavesQueue, ToldUnknown, Ended, InPlace, Unstarted
    <3> QED
      BY <3>2 DEF Waiting, Of
  <2>3. Booted \subseteq Booted' /\ IsFiniteSet(Booted')
    <3>1. ASSUME NEW p \in Procs, Boot(p)
          PROVE  Booted' = Booted \union {p}
      BY <3>1 DEF TypeOK, Boot, Booted
    <3>2. ASSUME NEW p \in Procs, Stop(p) \/ Crash(p)
          PROVE  Booted' = Booted
      BY <3>2 DEF TypeOK, Stop, Crash, Booted
    <3>3. ASSUME proc' = proc
          PROVE  Booted' = Booted
      BY <3>3 DEF Booted
    <3>4. \A p \in Procs, t \in Triggers : Visit(p, t) => proc' = proc
      BY DEF Visit, PassBusy, PassNotLive, PassShopMoved, PassDeferred, PassRead, Pass
    <3>5. proc' = proc \/ \E p \in Procs : Boot(p) \/ Stop(p) \/ Crash(p)
      BY <1>3, <3>4
         DEF Next, vars, DrainOpen, TakeLease, NoLease, Begin, BeginNothing,
             Settle, Release, Renew, Switch, LeaseLapses, Stall
    <3>6. Booted' = Booted \/ \E p \in Procs : Booted' = Booted \union {p}
      BY <3>1, <3>2, <3>3, <3>5
    <3>7. IsFiniteSet(Booted) /\ \A p \in Procs : IsFiniteSet(Booted \union {p})
      BY FS_AddElement DEF QueueInv
    <3> QED
      BY <3>6, <3>7
  <2> QED
    BY <2>1, <2>2, <2>3, QueueShrinks
<1> QED
  BY <1>1, <1>2, <1>3

\* A queue exceeds MAX_WAITING_EVENTS by less than the processes that ever came
\* up, whatever their number: a delivery is counted and recorded in two
\* statements, and a process has one such delivery at a time.
THEOREM QueueBoundedCorrect == Spec => []QueueBounded
<1>1. TypeOK /\ QueueInv => QueueBounded
  <2> SUFFICES ASSUME TypeOK, QueueInv, NEW t \in Triggers
               PROVE  Cardinality(Waiting(t)) < MaxWaiting + Cardinality(Booted)
    BY DEF QueueBounded
  <2>1. /\ IsFiniteSet(Waiting(t)) /\ IsFiniteSet(Promised(t)) /\ IsFiniteSet(Booted)
        /\ Cardinality(Waiting(t)) + Cardinality(Promised(t)) < MaxWaiting + Cardinality(Booted)
    BY PromisedFinite DEF QueueInv
  <2>2. /\ Cardinality(Waiting(t)) \in Nat /\ Cardinality(Promised(t)) \in Nat
        /\ Cardinality(Booted) \in Nat
    BY <2>1, FS_CardinalityType
  <2> QED
    BY <2>1, <2>2, InboundEventsAssumption
<1>2. TypeOK /\ QueueInv /\ [Next]_vars => QueueInv'
  BY QueueStep
<1> QED
  BY <1>1, <1>2, QueueInit, TypeCorrect, PTL DEF Spec

=============================================================================
