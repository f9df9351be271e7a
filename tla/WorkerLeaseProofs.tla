--------------------------- MODULE WorkerLeaseProofs ---------------------------
(***************************************************************************)
(* The run lease for every number of processes, triggers, retries and      *)
(* concurrent worker loops, and every lease and schedule length; and, with *)
(* one loop at a time, the starts of a one-shot, each paid for by a retry, *)
(* a record that failed or a process that stalled.                         *)
(***************************************************************************)
EXTENDS WorkerLease, FiniteSetTheorems, TLAPS

Outcomes == {"success", "failed", "stopped", "halted", "interrupted"}

-----------------------------------------------------------------------------
(* What the row writers do.                                                *)

\* Claiming gives the claimer a full lease.
LEMMA ClaimedRow ==
    ASSUME NEW r \in Row, NEW p \in Procs
    PROVE  /\ Claimed(r, p) \in Row
           /\ Claimed(r, p).holder = p
           /\ Claimed(r, p).left = LeaseTTL
<1>1. ASSUME NEW b \in BOOLEAN
      PROVE  LET s == [r EXCEPT !.holder = p, !.left = LeaseTTL, !.unsettled = b]
             IN  s \in Row /\ s.holder = p /\ s.left = LeaseTTL
  <2>1. LeaseTTL \in 0..LeaseTTL
    BY WorkerLeaseAssumption
  <2> QED
    BY <2>1 DEF Row
<1>2. (r.dueIn = 0) \in BOOLEAN
  OBVIOUS
<1> QED
  BY <1>1, <1>2 DEF Claimed

\* Releasing touches nobody else's lease.
LEMMA ReleasedRow ==
    ASSUME NEW r \in Row, NEW p \in Procs
    PROVE  /\ Released(r, p) \in Row
           /\ r.holder # p => Released(r, p) = r
<1>1. 0 \in 0..LeaseTTL
  BY WorkerLeaseAssumption
<1>2. [r EXCEPT !.holder = Null, !.left = 0, !.unsettled = FALSE] \in Row
  BY <1>1 DEF Row
<1> QED
  BY <1>2 DEF Released

\* Moving the schedule leaves the lease alone.
LEMMA ScheduledRow ==
    ASSUME NEW r \in Row, NEW d \in (0..Delay) \union {Null}
    PROVE  /\ Scheduled(r, d) \in Row
           /\ Scheduled(r, d).holder = r.holder
           /\ Scheduled(r, d).left = r.left
BY DEF Scheduled, Row

\* So does recording a result, whatever the trigger and the outcome.
LEMMA RecordedRow ==
    ASSUME NEW r \in Row, NEW k \in Kind, NEW o \in Outcomes
    PROVE  /\ Recorded(r, k, o) \in Row
           /\ Recorded(r, k, o).holder = r.holder
           /\ Recorded(r, k, o).left = r.left
<1> USE WorkerLeaseAssumption
<1>a. Delay \in (0..Delay) \union {Null} /\ Null \in (0..Delay) \union {Null}
  OBVIOUS
<1>b. k.shape \in {"oneshot", "cron", "watch"}
  BY DEF Kind
<1>1. CASE k.shape = "cron"
  <2> DEFINE st == IF \/ r.status \in {"completed", "stopped"}
                      \/ o \in {"stopped", "halted"}
                   THEN r.status
                   ELSE IF o = "success" THEN "open" ELSE "failed"
             n == IF o = "success" THEN 0 ELSE r.retry
             s == [r EXCEPT !.status = st, !.retry = n]
  <2>a. st \in {"open", "completed", "failed", "stopped"} /\ n \in 0..MaxRetries
    BY DEF Row
  <2>2. Recorded(r, k, o) = Scheduled(s, Delay)
    BY <1>1 DEF Recorded
  <2> HIDE DEF st, n
  <2>1. s \in Row /\ s.holder = r.holder /\ s.left = r.left
    BY <2>a DEF Row
  <2> HIDE DEF s
  <2> QED
    BY <1>a, <2>1, <2>2, ScheduledRow
<1>2. CASE k.shape = "watch"
  <2> DEFINE s == [r EXCEPT !.retry = IF o = "success" THEN 0 ELSE @]
  <2>1. s \in Row /\ s.holder = r.holder /\ s.left = r.left
    BY DEF Row
  <2>2. Recorded(r, k, o) = Scheduled(s, Delay)
    BY <1>2 DEF Recorded
  <2> HIDE DEF s
  <2> QED
    BY <1>a, <2>1, <2>2, ScheduledRow
<1>3. CASE k.shape = "oneshot" /\ o \in {"failed", "interrupted"} /\ r.retry < k.retries
  <2> DEFINE s == [r EXCEPT !.retry = @ + 1]
  <2>1. s \in Row /\ s.holder = r.holder /\ s.left = r.left
    BY <1>3 DEF Row, Kind
  <2>2. Recorded(r, k, o) = Scheduled(s, Delay)
    BY <1>3 DEF Recorded
  <2> HIDE DEF s
  <2> QED
    BY <1>a, <2>1, <2>2, ScheduledRow
<1>4. CASE k.shape = "oneshot" /\ o \in {"failed", "interrupted"} /\ ~(r.retry < k.retries)
  <2> DEFINE s == [r EXCEPT !.status = "failed"]
  <2>1. s \in Row /\ s.holder = r.holder /\ s.left = r.left
    BY DEF Row
  <2>2. Recorded(r, k, o) = Scheduled(s, Null)
    BY <1>4 DEF Recorded
  <2> HIDE DEF s
  <2> QED
    BY <1>a, <2>1, <2>2, ScheduledRow
<1>5. CASE k.shape = "oneshot" /\ o = "success"
  <2>1. Recorded(r, k, o) = [r EXCEPT !.status = "completed"]
    BY <1>5 DEF Recorded
  <2> QED
    BY <2>1 DEF Row
<1>6. CASE k.shape = "oneshot" /\ o \in {"stopped", "halted"}
  <2> DEFINE s == [r EXCEPT !.status = IF @ = "completed" THEN @
                                       ELSE IF o = "stopped" THEN "stopped"
                                            ELSE "completed"]
  <2>1. s \in Row /\ s.holder = r.holder /\ s.left = r.left
    BY DEF Row
  <2>2. Recorded(r, k, o) = Scheduled(s, Null)
    BY <1>6 DEF Recorded
  <2> HIDE DEF s
  <2> QED
    BY <1>a, <2>1, <2>2, ScheduledRow
<1> QED
  BY <1>b, <1>1, <1>2, <1>3, <1>4, <1>5, <1>6 DEF Outcomes

\* A step of the clock on one row.
LEMMA AdvancedRow ==
    ASSUME NEW r \in Row
    PROVE  LET s == [r EXCEPT !.dueIn = IF @ = Null THEN @ ELSE Less(@),
                              !.left = Less(@)]
           IN  /\ s \in Row
               /\ s.holder = r.holder
               /\ r.left > 1 => s.left > 0
<1>1. Less(r.left) \in 0..LeaseTTL /\ (r.left > 1 => Less(r.left) > 0)
  BY WorkerLeaseAssumption DEF Row, Less
<1>2. (IF r.dueIn = Null THEN r.dueIn ELSE Less(r.dueIn)) \in (0..Delay) \union {Null}
  BY WorkerLeaseAssumption DEF Row, Less
<1> DEFINE d == IF r.dueIn = Null THEN r.dueIn ELSE Less(r.dueIn)
           n == Less(r.left)
<1>4. [r EXCEPT !.dueIn = IF @ = Null THEN @ ELSE Less(@), !.left = Less(@)]
         = [r EXCEPT !.dueIn = d, !.left = n]
  OBVIOUS
<1> HIDE DEF d, n
<1>5. d \in (0..Delay) \union {Null} /\ n \in 0..LeaseTTL /\ (r.left > 1 => n > 0)
  BY <1>1, <1>2 DEF d, n
<1> DEFINE s == [r EXCEPT !.dueIn = d, !.left = n]
<1>6. s \in Row /\ s.holder = r.holder /\ s.left = n
  BY <1>5 DEF Row
<1> HIDE DEF s
<1> QED
  BY <1>4, <1>5, <1>6 DEF s

-----------------------------------------------------------------------------
(* Types, and the two facts about processes the lease rests on: a run lives *)
(* in a live process, and a process that is stalled counts as slow.        *)

IInv == /\ TypeOK
        /\ stalled \subseteq slow
        /\ \A p \in Procs, t \in Triggers :
              Active(p, t) => proc[p] \in {"up", "draining"}
        /\ LeaseHeldWhileRunning

\* At the start nothing is leased.
LEMMA LeaseInit == Init => IInv
BY WorkerLeaseAssumption
DEF Init, IInv, TypeOK, Kind, Row, RunState, Active, LeaseHeldWhileRunning

\* Every step keeps the invariant.
LEMMA LeaseStep == IInv /\ [Next]_vars => IInv'
<1> SUFFICES ASSUME IInv, [Next]_vars PROVE IInv'
  OBVIOUS
<1>a. TypeOK
  BY DEF IInv
<1>b. \A t \in Triggers : trig[t] \in Row /\ kind[t] \in Kind
  BY <1>a DEF TypeOK
\* A step that leaves runs, rows and slowness alone.
<1>1. ASSUME UNCHANGED <<trig, run, slow>>, TypeOK',
             stalled' \subseteq slow',
             \A p \in Procs : proc[p] \in {"up", "draining"}
                                 => proc'[p] \in {"up", "draining"}
      PROVE  IInv'
  BY <1>1 DEF IInv, Active, LeaseHeldWhileRunning
\* A step that writes t's row and starts no run, keeping the lease of any run
\* that had one.
<1>2. ASSUME NEW t \in Triggers, NEW r \in Row,
             trig' = [trig EXCEPT ![t] = r],
             TypeOK',
             UNCHANGED <<proc, stalled, slow>>,
             \A p \in Procs, u \in Triggers : run'[p][u] # "none" => run[p][u] # "none",
             \A p \in Procs : run'[p][t] # "none" /\ p \notin slow
                                 => r.holder = p /\ r.left > 0
      PROVE  IInv'
  <2>1. trig'[t] = r /\ \A u \in Triggers \ {t} : trig'[u] = trig[u]
    BY <1>2, <1>a DEF TypeOK
  <2> QED
    BY <1>2, <2>1 DEF IInv, Active, LeaseHeldWhileRunning
\* Whoever takes a lease that is not held runs alone, the slow apart.
<1>3. ASSUME NEW t \in Triggers, ~Held(t), NEW p \in Procs, Active(p, t)
      PROVE  p \in slow
  BY <1>3, WorkerLeaseAssumption DEF IInv, LeaseHeldWhileRunning, Held
<1>4. ASSUME NEW p \in Procs, NEW t \in Triggers, Awake(p), ~Held(t),
             trig' = [trig EXCEPT ![t] = Claimed(@, p)],
             run' = [run EXCEPT ![p][t] = "running"],
             UNCHANGED <<proc, stalled, slow>>, TypeOK'
      PROVE  IInv'
  <2>1. /\ trig'[t] = Claimed(trig[t], p)
        /\ \A u \in Triggers \ {t} : trig'[u] = trig[u]
    BY <1>4, <1>a DEF TypeOK
  <2>2. /\ trig'[t].holder = p
        /\ trig'[t].left > 0
    BY <2>1, <1>b, ClaimedRow, WorkerLeaseAssumption
  <2>3. \A q \in Procs, u \in Triggers :
           run'[q][u] # "none" => run[q][u] # "none" \/ (q = p /\ u = t)
    BY <1>4, <1>a DEF TypeOK
  <2>4. LeaseHeldWhileRunning'
    BY <1>3, <1>4, <2>1, <2>2, <2>3 DEF IInv, LeaseHeldWhileRunning, Active
  <2>5. \A q \in Procs, u \in Triggers :
           run'[q][u] # "none" => proc[q] \in {"up", "draining"}
    BY <1>4, <2>3 DEF IInv, Active, Awake
  <2> QED
    BY <1>4, <2>4, <2>5 DEF IInv, Active
<1>5. ASSUME NEW p \in Procs, TickRead(p) PROVE IInv'
  <2>1. TypeOK'
    BY <1>5, <1>a DEF TickRead, TypeOK
  <2> QED
    BY <1>1, <1>5, <2>1 DEF TickRead, IInv
<1>6. ASSUME NEW p \in Procs, NEW t \in Triggers, DispatchRun(p, t) PROVE IInv'
  <2>1. Claimed(trig[t], p) \in Row
    BY <1>b, ClaimedRow
  <2>2. starts' \in [Triggers -> Nat]
    BY <1>6, <1>a DEF DispatchRun, Counted, TypeOK
  <2>3. run' \in [Procs -> [Triggers -> RunState]] /\ due' \in [Procs -> SUBSET Triggers]
    BY <1>6, <1>a DEF DispatchRun, Dispatching, TypeOK, RunState
  <2>4. TypeOK'
    BY <1>6, <2>1, <2>2, <2>3, <1>a DEF DispatchRun, TypeOK
  <2> QED
    BY <1>4, <1>6, <2>4 DEF DispatchRun, Dispatching
<1>7. ASSUME NEW p \in Procs, NEW t \in Triggers, DispatchLost(p, t) PROVE IInv'
  <2> DEFINE r == Released(Recorded(Claimed(trig[t], p), kind[t], "interrupted"), p)
  <2>1. r \in Row
    BY <1>b, ClaimedRow, RecordedRow, ReleasedRow DEF Outcomes
  <2>2. trig' = [trig EXCEPT ![t] = r] /\ ~Held(t)
    BY <1>7 DEF DispatchLost, Lost
  <2> HIDE DEF r
  <2>3. TypeOK'
    BY <1>7, <2>1, <2>2, <1>a DEF DispatchLost, Dispatching, TypeOK
  <2>4. \A q \in Procs : run'[q][t] # "none" => q \in slow
    BY <1>3, <1>7, <2>2 DEF DispatchLost, Active
  <2> QED
    BY <1>2, <1>7, <2>1, <2>2, <2>3, <2>4 DEF DispatchLost
<1>8. ASSUME NEW p \in Procs, NEW t \in Triggers, DispatchLostFails(p, t) PROVE IInv'
  <2> DEFINE r == Claimed(trig[t], p)
  <2>1. r \in Row
    BY <1>b, ClaimedRow
  <2>2. trig' = [trig EXCEPT ![t] = r] /\ ~Held(t)
    BY <1>8 DEF DispatchLostFails, Lost
  <2> HIDE DEF r
  <2>3. TypeOK'
    BY <1>8, <2>1, <2>2, <1>a DEF DispatchLostFails, Dispatching, TypeOK
  <2>4. \A q \in Procs : run'[q][t] # "none" => q \in slow
    BY <1>3, <1>8, <2>2 DEF DispatchLostFails, Active
  <2> QED
    BY <1>2, <1>8, <2>1, <2>2, <2>3, <2>4 DEF DispatchLostFails
<1>9. ASSUME NEW p \in Procs, NEW t \in Triggers, Skip(p, t) PROVE IInv'
  <2>1. TypeOK'
    BY <1>9, <1>a DEF Skip, TypeOK
  <2> QED
    BY <1>1, <1>9, <2>1 DEF Skip, IInv
<1>10. ASSUME NEW p \in Procs, NEW t \in Triggers, RunTriggerNow(p, t) PROVE IInv'
  <2>1. Claimed(trig[t], p) \in Row
    BY <1>b, ClaimedRow
  <2>2. TypeOK'
    BY <1>10, <2>1, <1>a DEF RunTriggerNow, TypeOK, RunState
  <2> QED
    BY <1>4, <1>10, <2>2 DEF RunTriggerNow, Free
<1>11. ASSUME NEW p \in Procs, NEW t \in Triggers, Renew(p, t) PROVE IInv'
  <2> DEFINE r == [trig[t] EXCEPT !.left = LeaseTTL]
  <2>1. r \in Row /\ r.holder = trig[t].holder /\ r.left > 0
    BY <1>b, WorkerLeaseAssumption DEF Row
  <2>2. trig' = [trig EXCEPT ![t] = r]
    BY <1>11, <1>a DEF Renew, TypeOK
  <2> HIDE DEF r
  <2>3. TypeOK'
    BY <1>11, <2>1, <2>2, <1>a DEF Renew, TypeOK
  <2>4. \A q \in Procs : run'[q][t] # "none" /\ q \notin slow => r.holder = q
    BY <1>11, <2>1 DEF Renew, IInv, LeaseHeldWhileRunning, Active
  <2> QED
    BY <1>2, <1>11, <2>1, <2>2, <2>3, <2>4 DEF Renew
<1>12. ASSUME NEW p \in Procs, NEW t \in Triggers, StopTask(p, t) \/ RecordFails(p, t)
       PROVE  IInv'
  <2>a. PICK x \in RunState : /\ run' = [run EXCEPT ![p][t] = x]
                              /\ run[p][t] # "none"
    BY <1>12 DEF StopTask, RecordFails, RunState
  <2>b. run' \in [Procs -> [Triggers -> RunState]]
    BY <2>a, <1>a DEF TypeOK
  <2>c. faults' \in 0..MaxFaults
    BY <1>12, <1>a, WorkerLeaseAssumption DEF StopTask, RecordFails, TypeOK
  <2>1. TypeOK'
    BY <1>12, <1>a, <2>b, <2>c DEF StopTask, RecordFails, TypeOK
  <2>2. trig' = [trig EXCEPT ![t] = trig[t]]
    BY <1>12, <1>a DEF StopTask, RecordFails, TypeOK
  <2>3. \A q \in Procs, u \in Triggers : run'[q][u] # "none" => run[q][u] # "none"
    BY <2>a, <1>a DEF TypeOK
  <2>4. \A q \in Procs : run'[q][t] # "none" /\ q \notin slow
                            => trig[t].holder = q /\ trig[t].left > 0
    BY <2>3 DEF IInv, LeaseHeldWhileRunning, Active
  <2> QED
    BY <1>2, <1>12, <1>b, <2>1, <2>2, <2>3, <2>4 DEF StopTask, RecordFails
<1>13. ASSUME NEW p \in Procs, NEW t \in Triggers,
              NEW o \in {"success", "failed", "stopped", "halted"}, Record(p, t, o)
       PROVE  IInv'
  <2> DEFINE r == Recorded(trig[t], kind[t], o)
  <2>a. o \in Outcomes
    BY DEF Outcomes
  <2>1. r \in Row /\ r.holder = trig[t].holder /\ r.left = trig[t].left
    BY <1>b, <2>a, RecordedRow
  <2>2. trig' = [trig EXCEPT ![t] = r]
    BY <1>13 DEF Record
  <2> HIDE DEF r
  <2>3. TypeOK'
    BY <1>13, <2>1, <2>2, <1>a DEF Record, TypeOK, RunState
  <2>4. \A q \in Procs, u \in Triggers : run'[q][u] # "none" => run[q][u] # "none"
    BY <1>13, <1>a DEF Record, TypeOK
  <2>5. \A q \in Procs : run'[q][t] # "none" /\ q \notin slow
                            => r.holder = q /\ r.left > 0
    BY <2>1, <2>4 DEF IInv, LeaseHeldWhileRunning, Active
  <2> QED
    BY <1>2, <1>13, <2>1, <2>2, <2>3, <2>4, <2>5 DEF Record
<1>14. ASSUME NEW p \in Procs, NEW t \in Triggers, Finish(p, t) PROVE IInv'
  <2>1. PICK r \in Row : /\ trig' = [trig EXCEPT ![t] = r]
                         /\ trig[t].holder # p => r = trig[t]
                         /\ r = Released(trig[t], p) \/ r = trig[t]
    <3>1. CASE trig' = [trig EXCEPT ![t] = Released(@, p)]
      BY <3>1, <1>b, ReleasedRow
    <3>2. CASE trig' = trig
      BY <3>2, <1>a, <1>b DEF TypeOK
    <3> QED
      BY <1>14, <3>1, <3>2 DEF Finish
  <2>2. TypeOK'
    BY <1>14, <2>1, <1>a DEF Finish, TypeOK, RunState
  <2>3. \A q \in Procs, u \in Triggers :
           run'[q][u] # "none" => run[q][u] # "none" /\ (q # p \/ u # t)
    BY <1>14, <1>a DEF Finish, TypeOK
  <2>4. \A q \in Procs : run'[q][t] # "none" /\ q \notin slow
                            => r.holder = q /\ r.left > 0
    BY <2>1, <2>3 DEF IInv, LeaseHeldWhileRunning, Active
  <2> QED
    BY <1>2, <1>14, <2>1, <2>2, <2>3, <2>4 DEF Finish
<1>15. ASSUME NEW t \in Triggers, NEW r \in Row, OwnerSets(t, r),
              starts' \in [Triggers -> Nat],
              r.holder = trig[t].holder, r.left = trig[t].left
       PROVE  IInv'
  <2>1. TypeOK'
    BY <1>15, <1>a DEF OwnerSets, TypeOK
  <2>2. \A q \in Procs : run'[q][t] # "none" /\ q \notin slow
                            => r.holder = q /\ r.left > 0
    BY <1>15 DEF OwnerSets, IInv, LeaseHeldWhileRunning, Active
  <2> QED
    BY <1>2, <1>15, <2>1, <2>2 DEF OwnerSets
<1>16. ASSUME NEW t \in Triggers, Complete(t) \/ Reopen(t) PROVE IInv'
  <2>1. PICK st \in {"completed", "open"} :
           OwnerSets(t, [trig[t] EXCEPT !.status = st])
    BY <1>16 DEF Complete, Reopen
  <2>2. /\ [trig[t] EXCEPT !.status = st] \in Row
        /\ [trig[t] EXCEPT !.status = st].holder = trig[t].holder
        /\ [trig[t] EXCEPT !.status = st].left = trig[t].left
    BY <1>b DEF Row
  <2>3. starts' \in [Triggers -> Nat]
    BY <1>16, <1>a DEF Complete, Reopen, TypeOK
  <2> QED
    BY <1>15, <2>1, <2>2, <2>3
<1>17. ASSUME NEW t \in Triggers, NEW on \in BOOLEAN, SetEnabled(t, on) PROVE IInv'
  <2>1. /\ [trig[t] EXCEPT !.enabled = on] \in Row
        /\ [trig[t] EXCEPT !.enabled = on].holder = trig[t].holder
        /\ [trig[t] EXCEPT !.enabled = on].left = trig[t].left
    BY <1>b DEF Row
  <2>2. starts' \in [Triggers -> Nat]
    BY <1>17, <1>a DEF SetEnabled, TypeOK
  <2> QED
    BY <1>15, <1>17, <2>1, <2>2 DEF SetEnabled
<1>18. ASSUME NEW p \in Procs, Boot(p) \/ Stop(p) PROVE IInv'
  <2>1. TypeOK'
    BY <1>18, <1>a DEF Boot, Stop, TypeOK
  <2>2. \A q \in Procs : proc[q] \in {"up", "draining"} => proc'[q] \in {"up", "draining"}
    BY <1>18, <1>a DEF Boot, Stop, TypeOK
  <2> QED
    BY <1>1, <1>18, <2>1, <2>2 DEF Boot, Stop, IInv
<1>19. ASSUME NEW p \in Procs, Crash(p) PROVE IInv'
  <2>1. TypeOK'
    BY <1>19, <1>a DEF Crash, TypeOK, RunState
  <2>2. \A q \in Procs, u \in Triggers :
           run'[q][u] # "none" => run[q][u] # "none" /\ q # p
    BY <1>19, <1>a DEF Crash, TypeOK
  <2>3. \A q \in Procs \ {p} : proc'[q] = proc[q]
    BY <1>19, <1>a DEF Crash, TypeOK
  <2> QED
    BY <1>19, <2>1, <2>2, <2>3 DEF Crash, IInv, Active, LeaseHeldWhileRunning
<1>20. ASSUME NEW p \in Procs, Stall(p) PROVE IInv'
  <2>1. TypeOK'
    BY <1>20, <1>a DEF Stall, TypeOK
  <2> QED
    BY <1>20, <2>1 DEF Stall, IInv, Active, LeaseHeldWhileRunning
<1>21. ASSUME NEW p \in Procs, Resume(p) PROVE IInv'
  <2>1. TypeOK'
    BY <1>21, <1>a DEF Resume, TypeOK
  <2> QED
    BY <1>1, <1>21, <2>1 DEF Resume, IInv
<1>22. CASE Advance
  <2>1. \A t \in Triggers : /\ trig'[t] \in Row
                            /\ trig'[t].holder = trig[t].holder
                            /\ trig[t].left > 1 => trig'[t].left > 0
    BY <1>22, <1>b, AdvancedRow DEF Advance
  <2>2. TypeOK'
    BY <1>22, <2>1, <1>a DEF Advance, TypeOK
  <2>3. ASSUME NEW p \in Procs, NEW t \in Triggers, Active(p, t), p \notin slow
        PROVE  trig'[t].holder = p /\ trig'[t].left > 0
    <3>1. Awake(p) /\ trig[t].holder = p
      BY <2>3 DEF IInv, Awake, LeaseHeldWhileRunning
    <3> QED
      BY <1>22, <2>1, <2>3, <3>1 DEF Advance
  <2> QED
    BY <1>22, <2>2, <2>3 DEF Advance, IInv, Active, LeaseHeldWhileRunning
<1>23. CASE UNCHANGED vars
  BY <1>23 DEF vars, IInv, TypeOK, Active, LeaseHeldWhileRunning
<1> QED
  BY <1>5, <1>6, <1>7, <1>8, <1>9, <1>10, <1>11, <1>12, <1>13, <1>14, <1>16,
     <1>17, <1>18, <1>19, <1>20, <1>21, <1>22, <1>23
  DEF Next

\* Rows, due lists, runs and process states stay in their types.
THEOREM TypeCorrect == Spec => []TypeOK
<1>1. IInv => TypeOK
  BY DEF IInv
<1> QED
  BY <1>1, LeaseInit, LeaseStep, PTL DEF Spec

\* The lease excludes: with any number of processes and of worker loops at the
\* same time, a run in a process that has not stalled past its lease is covered
\* by a live lease of its own (claimLease, renewLease and releaseLease).
THEOREM LeaseExcludes == Spec => []LeaseHeldWhileRunning
<1>1. IInv => LeaseHeldWhileRunning
  BY DEF IInv
<1> QED
  BY <1>1, LeaseInit, LeaseStep, PTL DEF Spec

-----------------------------------------------------------------------------
(* How often the schedule starts a one-shot, with one worker loop at a     *)
(* time.  Every start needs an allowance: the first one is free, and every *)
(* retry, lost record and slow process that is done with the trigger gives *)
(* one more.  Between two starts the trigger is ended, or claimed for an   *)
(* occurrence that has not been recorded, so the next claim finds a lost   *)
(* run; a due list read earlier is the one way around that, and only a run *)
(* in a slow process can move the row under it.                            *)

\* Slow processes that have done to t what they can do late.
Spent(t) == {q \in slow : /\ proc[q] \in {"draining", "down"}
                          /\ run[q][t] \notin {"running", "stopping"}}

\* The starts after the first one that are accounted for.
Allow(t) == trig[t].retry + faults + Cardinality(Spent(t))

\* The schedule is done with a one-shot.
Ended(t) == trig[t].status # "open" \/ trig[t].dueIn = Null

\* Claimed for an occurrence that has no record yet.
Taken(t) == trig[t].holder # Null /\ trig[t].unsettled

Listed(t) == \E p \in Procs : t \in due[p]

AttOf(t) ==
    /\ starts[t] <= 1 + Allow(t)
    /\ starts[t] <= Allow(t) \/ Ended(t) \/ Taken(t)
    /\ Listed(t) =>
          /\ starts[t] <= Allow(t) \/ Taken(t)
          /\ trig[t].dueIn \notin {0, Null} => starts[t] + 1 <= Allow(t)
          /\ \A q \in Procs : Active(q, t) => q \in slow
    /\ \A q \in Procs :
          run[q][t] \in {"recorded", "unrecorded"} /\ trig[t].holder = q
             => starts[t] <= Allow(t) \/ (Ended(t) /\ ~Listed(t))

\* One loop at a time, and it alone is in the middle of a tick; a claim is
\* unsettled only while its occurrence is due.
OneLoop ==
    /\ \A p \in Procs : due[p] # {} => proc[p] = "up"
    /\ \A p, q \in Procs : proc[p] = "up" /\ proc[q] = "up" => p = q
    /\ IsFiniteSet(slow)
    /\ \A t \in Triggers : trig[t].unsettled => trig[t].dueIn = 0

AttInv == /\ IInv
          /\ OneLoop
          /\ \A t \in Triggers : StartsOnce(t) => AttOf(t)

\* What recording does to a one-shot: another try, or the end.
LEMMA RecordedOnce ==
    ASSUME NEW r \in Row, NEW k \in Kind, NEW o \in Outcomes, k.shape = "oneshot"
    PROVE  LET s == Recorded(r, k, o)
           IN  \/ /\ s.retry = r.retry + 1 /\ s.status = r.status
                  /\ s.dueIn = Delay /\ ~s.unsettled
               \/ /\ s.retry = r.retry /\ s.status # "open"
                  /\ s.dueIn = r.dueIn /\ s.unsettled = r.unsettled
               \/ /\ s.retry = r.retry /\ s.dueIn = Null /\ ~s.unsettled
                  /\ r.status # "open" => s.status # "open"
<1> USE WorkerLeaseAssumption
<1>1. CASE o \in {"failed", "interrupted"} /\ r.retry < k.retries
  <2> DEFINE s == [r EXCEPT !.retry = @ + 1]
  <2>1. s.retry = r.retry + 1 /\ s.status = r.status
    BY DEF Row
  <2>2. Recorded(r, k, o) = [s EXCEPT !.dueIn = Delay, !.unsettled = FALSE]
    BY <1>1 DEF Recorded, Scheduled
  <2>3. s \in Row
    BY <1>1 DEF Row, Kind
  <2> HIDE DEF s
  <2>4. LET z == [s EXCEPT !.dueIn = Delay, !.unsettled = FALSE]
        IN  z.retry = s.retry /\ z.status = s.status /\ z.dueIn = Delay /\ z.unsettled = FALSE
    BY <2>3 DEF Row
  <2> QED
    BY <2>1, <2>2, <2>4
<1>2. CASE o = "success"
  <2>1. Recorded(r, k, o) = [r EXCEPT !.status = "completed"]
    BY <1>2 DEF Recorded
  <2> QED
    BY <2>1 DEF Row
<1>3. ASSUME NEW st \in {"open", "completed", "failed", "stopped"},
             Recorded(r, k, o) = Scheduled([r EXCEPT !.status = st], Null),
             st # "open"
      PROVE  LET s == Recorded(r, k, o)
             IN  s.retry = r.retry /\ s.dueIn = Null /\ ~s.unsettled /\ s.status # "open"
  <2> DEFINE s == [r EXCEPT !.status = st]
  <2>1. s \in Row /\ s.retry = r.retry /\ s.status = st
    BY DEF Row
  <2>2. Recorded(r, k, o) = [s EXCEPT !.dueIn = Null, !.unsettled = FALSE]
    BY <1>3 DEF Scheduled
  <2> HIDE DEF s
  <2>3. LET z == [s EXCEPT !.dueIn = Null, !.unsettled = FALSE]
        IN  z.retry = s.retry /\ z.status = s.status /\ z.dueIn = Null /\ z.unsettled = FALSE
    BY <2>1 DEF Row
  <2> QED
    BY <1>3, <2>1, <2>2, <2>3
<1>4. CASE o \in {"failed", "interrupted"} /\ ~(r.retry < k.retries)
  <2>1. Recorded(r, k, o) = Scheduled([r EXCEPT !.status = "failed"], Null)
    BY <1>4 DEF Recorded
  <2> QED
    BY <1>3, <2>1
<1>5. CASE o \in {"stopped", "halted"}
  <2> DEFINE st == IF r.status = "completed" THEN r.status
                   ELSE IF o = "stopped" THEN "stopped" ELSE "completed"
  <2>1. Recorded(r, k, o) = Scheduled([r EXCEPT !.status = st], Null)
    BY <1>5 DEF Recorded
  <2>2. st \in {"open", "completed", "failed", "stopped"} /\ st # "open"
    BY <1>5
  <2> HIDE DEF st
  <2> QED
    BY <1>3, <2>1, <2>2
<1> QED
  BY <1>1, <1>2, <1>4, <1>5 DEF Outcomes

\* Whatever the trigger, a record leaves a claim unsettled only where the
\* occurrence stays due.
LEMMA RecordedSettles ==
    ASSUME NEW r \in Row, NEW k \in Kind, NEW o \in Outcomes,
           r.unsettled => r.dueIn = 0
    PROVE  LET s == Recorded(r, k, o) IN s.unsettled => s.dueIn = 0
<1>1. CASE k.shape = "oneshot"
  BY <1>1, RecordedOnce
<1>2. ASSUME NEW s, NEW d, s \in Row PROVE Scheduled(s, d).unsettled = FALSE
  BY <1>2 DEF Scheduled, Row
<1>3. CASE k.shape = "watch"
  <2> DEFINE s == [r EXCEPT !.retry = IF o = "success" THEN 0 ELSE @]
  <2>1. s \in Row
    BY WorkerLeaseAssumption DEF Row
  <2>2. Recorded(r, k, o) = Scheduled(s, Delay)
    BY <1>3 DEF Recorded
  <2> HIDE DEF s
  <2> QED
    BY <1>2, <2>1, <2>2
<1>4. CASE k.shape = "cron"
  <2> DEFINE st == IF \/ r.status \in {"completed", "stopped"}
                      \/ o \in {"stopped", "halted"}
                   THEN r.status
                   ELSE IF o = "success" THEN "open" ELSE "failed"
             n == IF o = "success" THEN 0 ELSE r.retry
             s == [r EXCEPT !.status = st, !.retry = n]
  <2>a. st \in {"open", "completed", "failed", "stopped"} /\ n \in 0..MaxRetries
    BY WorkerLeaseAssumption DEF Row
  <2>2. Recorded(r, k, o) = Scheduled(s, Delay)
    BY <1>4 DEF Recorded
  <2> HIDE DEF st, n
  <2>1. s \in Row
    BY <2>a DEF Row
  <2> HIDE DEF s
  <2> QED
    BY <1>2, <2>1, <2>2
<1> QED
  BY <1>1, <1>3, <1>4 DEF Kind

\* A claim keeps the schedule, and is unsettled when the occurrence is due.
LEMMA ClaimedTakes ==
    ASSUME NEW r \in Row, NEW p \in Procs
    PROVE  LET s == Claimed(r, p)
           IN  /\ s.status = r.status /\ s.dueIn = r.dueIn /\ s.retry = r.retry
               /\ s.holder = p /\ s.unsettled = (r.dueIn = 0)
<1> DEFINE b == r.dueIn = 0
<1>1. Claimed(r, p) = [r EXCEPT !.holder = p, !.left = LeaseTTL, !.unsettled = b]
  BY DEF Claimed
<1>2. b \in BOOLEAN
  OBVIOUS
<1> HIDE DEF b
<1>3. LET s == [r EXCEPT !.holder = p, !.left = LeaseTTL, !.unsettled = b]
      IN  /\ s.status = r.status /\ s.dueIn = r.dueIn /\ s.retry = r.retry
          /\ s.holder = p /\ s.unsettled = b
  BY <1>2 DEF Row
<1> QED
  BY <1>1, <1>3 DEF b

\* A release keeps the schedule, and gives up nothing but its own claim.
LEMMA ReleasedDrops ==
    ASSUME NEW r \in Row, NEW p \in Procs
    PROVE  LET s == Released(r, p)
           IN  /\ s.status = r.status /\ s.dueIn = r.dueIn /\ s.retry = r.retry
               /\ s.unsettled => r.unsettled
               /\ r.holder = p => s.holder = Null
               /\ r.holder # p => s = r
<1> DEFINE z == [r EXCEPT !.holder = Null, !.left = 0, !.unsettled = FALSE]
<1>1. /\ z.status = r.status /\ z.dueIn = r.dueIn /\ z.retry = r.retry
      /\ z.unsettled = FALSE /\ z.holder = Null
  BY DEF Row
<1>2. Released(r, p) = IF r.holder = p THEN z ELSE r
  BY DEF Released
<1> HIDE DEF z
<1> QED
  BY <1>1, <1>2

\* The allowance of a trigger is a number.
LEMMA AllowNat ==
    ASSUME TypeOK, IsFiniteSet(slow), NEW t \in Triggers
    PROVE  Allow(t) \in Nat /\ Cardinality(Spent(t)) \in Nat
<1>1. Spent(t) \in SUBSET slow
  BY DEF Spent
<1>2. Cardinality(Spent(t)) \in Nat
  BY <1>1, FS_Subset, FS_CardinalityType
<1>3. trig[t].retry \in Nat /\ faults \in Nat
  BY WorkerLeaseAssumption DEF TypeOK, Row
<1> QED
  BY <1>2, <1>3 DEF Allow

\* It never shrinks while the parts it counts do not, and a process that is
\* newly spent adds one.
LEMMA AllowGrows ==
    ASSUME TypeOK, TypeOK', IsFiniteSet(slow), IsFiniteSet(slow'),
           NEW t \in Triggers, Spent(t) \subseteq Spent(t)',
           trig[t].retry <= trig'[t].retry, faults <= faults'
    PROVE  /\ Allow(t) \in Nat /\ Allow(t)' \in Nat
           /\ Allow(t) + (trig'[t].retry - trig[t].retry) + (faults' - faults) <= Allow(t)'
           /\ Spent(t) # Spent(t)'
                 => Allow(t) + (trig'[t].retry - trig[t].retry) + 1 <= Allow(t)'
<1> DEFINE S == Spent(t)
           T == Spent(t)'
<1>1. S \subseteq slow /\ T \subseteq slow'
  BY DEF Spent
<1>2. S \in SUBSET T /\ (S # T <=> Spent(t) # Spent(t)')
  OBVIOUS
<1>3. Allow(t) = trig[t].retry + faults + Cardinality(S)
  BY DEF Allow
<1>4. Allow(t)' = trig'[t].retry + faults' + Cardinality(T)
  BY DEF Allow
<1>5. /\ trig[t].retry \in Nat /\ faults \in Nat
      /\ trig'[t].retry \in Nat /\ faults' \in Nat
  BY WorkerLeaseAssumption DEF TypeOK, Row
<1>a. PICK a : a = trig'[t].retry
  OBVIOUS
<1>b. PICK b : b = faults'
  OBVIOUS
<1>c. PICK c : c = Allow(t)'
  OBVIOUS
<1>d. PICK U : U = T
  OBVIOUS
<1>e. PICK w : w = slow'
  OBVIOUS
<1> HIDE DEF S, T
<1>6. IsFiniteSet(U) /\ IsFiniteSet(S)
  BY <1>1, <1>d, <1>e, FS_Subset
<1>7. /\ Cardinality(S) \in Nat /\ Cardinality(U) \in Nat
      /\ Cardinality(S) <= Cardinality(U)
      /\ S # U => Cardinality(S) # Cardinality(U)
  BY <1>2, <1>d, <1>6, FS_Subset, FS_CardinalityType
<1>8. c = a + b + Cardinality(U)
  BY <1>4, <1>a, <1>b, <1>c, <1>d
<1>9. a \in Nat /\ b \in Nat /\ trig[t].retry <= a /\ faults <= b
  BY <1>5, <1>a, <1>b
<1>10. /\ Allow(t) \in Nat /\ c \in Nat
       /\ Allow(t) + (a - trig[t].retry) + (b - faults) <= c
       /\ S # U => Allow(t) + (a - trig[t].retry) + 1 <= c
  BY <1>3, <1>5, <1>7, <1>8, <1>9
<1> QED
  BY <1>2, <1>10, <1>a, <1>b, <1>c, <1>d

\* A step that starts and records nothing of t, gives up no claim on it and
\* puts it on no list.
Still(t) ==
    /\ trig[t].status # "open" => trig'[t].status # "open"
    /\ trig[t].dueIn = Null => trig'[t].dueIn = Null
    /\ trig[t].dueIn = 0 => trig'[t].dueIn = 0
    /\ trig'[t].retry = trig[t].retry
    /\ trig'[t].holder = trig[t].holder
    /\ trig'[t].unsettled = trig[t].unsettled
    /\ starts'[t] = starts[t]
    /\ \A p \in Procs : t \in due'[p] => t \in due[p]
    /\ \A p \in Procs : \/ run'[p][t] = run[p][t]
                        \/ run'[p][t] \in {"none", "stopping"} /\ run[p][t] # "none"

\* Where a step only widens the allowance of a trigger, it stays accounted for.
LEMMA StillKeeps ==
    ASSUME TypeOK, TypeOK', IsFiniteSet(slow), IsFiniteSet(slow'),
           NEW t \in Triggers, Spent(t) \subseteq Spent(t)', faults <= faults',
           slow \subseteq slow', AttOf(t), Still(t)
    PROVE  AttOf(t)'
<1> DEFINE a == Allow(t)
<1>b. PICK b : b = Allow(t)'
  OBVIOUS
<1>s. PICK s : s = starts[t] /\ s = starts'[t] /\ s \in Nat
  BY DEF TypeOK, Still
<1>1. a \in Nat /\ b \in Nat /\ a <= b
  <2>1. trig[t].retry \in Nat /\ faults \in Nat /\ faults' \in Nat
    BY WorkerLeaseAssumption DEF TypeOK, Row
  <2>2. trig[t].retry <= trig'[t].retry
    BY <2>1 DEF Still
  <2>3. /\ a \in Nat /\ b \in Nat
        /\ a + (trig'[t].retry - trig[t].retry) + (faults' - faults) <= b
    BY <1>b, <2>2, AllowGrows
  <2>4. trig'[t].retry - trig[t].retry = 0
    BY <2>1 DEF Still
  <2>5. faults' - faults \in Nat
    BY <2>1
  <2> QED
    BY <2>3, <2>4, <2>5
<1>2. /\ s <= 1 + a
      /\ s <= a \/ Ended(t) \/ Taken(t)
      /\ Listed(t) => /\ s <= a \/ Taken(t)
                      /\ trig[t].dueIn \notin {0, Null} => s + 1 <= a
                      /\ \A q \in Procs : Active(q, t) => q \in slow
      /\ \A q \in Procs :
            run[q][t] \in {"recorded", "unrecorded"} /\ trig[t].holder = q
               => s <= a \/ (Ended(t) /\ ~Listed(t))
  BY <1>s DEF AttOf
<1> HIDE DEF a
<1>3. (s <= 1 + a => s <= 1 + b) /\ (s <= a => s <= b) /\ (s + 1 <= a => s + 1 <= b)
  BY <1>1, <1>s
<1>4. (Ended(t) => Ended(t)') /\ (Taken(t) <=> Taken(t)') /\ (Listed(t)' => Listed(t))
  BY DEF Still, Ended, Taken, Listed
<1>5. \A q \in Procs : /\ Active(q, t)' => Active(q, t)
                       /\ run'[q][t] \in {"recorded", "unrecorded"}
                             => run[q][t] \in {"recorded", "unrecorded"}
  BY DEF Still, Active
<1>6. trig'[t].dueIn \notin {0, Null} => trig[t].dueIn \notin {0, Null}
  BY DEF Still
<1>7. trig'[t].holder = trig[t].holder
  BY DEF Still
<1>8. s <= 1 + b /\ (s <= b \/ Ended(t)' \/ Taken(t)')
  BY <1>2, <1>3, <1>4
<1>9. Listed(t)' => /\ s <= b \/ Taken(t)'
                    /\ trig'[t].dueIn \notin {0, Null} => s + 1 <= b
                    /\ \A q \in Procs : Active(q, t)' => q \in slow'
  BY <1>2, <1>3, <1>4, <1>5, <1>6
<1>10. \A q \in Procs :
          run'[q][t] \in {"recorded", "unrecorded"} /\ trig'[t].holder = q
             => s <= b \/ (Ended(t)' /\ ~Listed(t)')
  BY <1>2, <1>3, <1>4, <1>5, <1>7
<1> QED
  BY <1>b, <1>s, <1>8, <1>9, <1>10 DEF AttOf

\* Kinds never change, slowness and lost records only add up.
LEMMA SlowStep ==
    ASSUME TypeOK, IsFiniteSet(slow), [Next]_vars
    PROVE  kind' = kind /\ slow \subseteq slow' /\ IsFiniteSet(slow') /\ faults <= faults'
<1>a. faults \in Nat /\ faults <= faults /\ faults <= faults + 1
  BY WorkerLeaseAssumption DEF TypeOK
<1>1. ASSUME NEW p \in Procs, Stall(p)
      PROVE  kind' = kind /\ slow \subseteq slow' /\ IsFiniteSet(slow') /\ faults <= faults'
  BY <1>1, <1>a, FS_AddElement DEF Stall
<1>2. ASSUME NEW p \in Procs, NEW t \in Triggers, RecordFails(p, t)
      PROVE  kind' = kind /\ slow \subseteq slow' /\ IsFiniteSet(slow') /\ faults <= faults'
  BY <1>2, <1>a DEF RecordFails
<1>3. ASSUME UNCHANGED <<kind, slow, faults>>
      PROVE  kind' = kind /\ slow \subseteq slow' /\ IsFiniteSet(slow') /\ faults <= faults'
  BY <1>3, <1>a
<1>4. ASSUME NEW p \in Procs,
             TickRead(p) \/ Boot(p) \/ Stop(p) \/ Crash(p) \/ Resume(p)
      PROVE  UNCHANGED <<kind, slow, faults>>
  BY <1>4 DEF TickRead, Boot, Stop, Crash, Resume
<1>5. ASSUME NEW p \in Procs, NEW t \in Triggers,
             \/ DispatchRun(p, t) \/ DispatchLost(p, t) \/ DispatchLostFails(p, t)
             \/ Skip(p, t) \/ RunTriggerNow(p, t) \/ Renew(p, t)
             \/ StopTask(p, t) \/ Finish(p, t)
      PROVE  UNCHANGED <<kind, slow, faults>>
  BY <1>5 DEF DispatchRun, DispatchLost, DispatchLostFails, Skip, RunTriggerNow, Renew,
              StopTask, Finish
<1>6. ASSUME NEW p \in Procs, NEW t \in Triggers, NEW o, Record(p, t, o)
      PROVE  UNCHANGED <<kind, slow, faults>>
  BY <1>6 DEF Record
<1>7. ASSUME NEW t \in Triggers,
             Complete(t) \/ Reopen(t) \/ \E on \in BOOLEAN : SetEnabled(t, on)
      PROVE  UNCHANGED <<kind, slow, faults>>
  BY <1>7 DEF Complete, Reopen, SetEnabled, OwnerSets
<1>8. CASE Advance \/ UNCHANGED vars
  BY <1>3, <1>8 DEF Advance, vars
<1> QED
  BY <1>1, <1>2, <1>3, <1>4, <1>5, <1>6, <1>7, <1>8 DEF Next

\* A process that has stopped starts nothing: what is spent stays spent.
LEMMA SpentStep ==
    ASSUME TypeOK, [Next]_vars, \A p \in Procs : due[p] # {} => proc[p] = "up",
           slow \subseteq slow', NEW t \in Triggers
    PROVE  Spent(t) \subseteq Spent(t)'
<1>1. ASSUME \A q \in Procs : proc[q] \in {"draining", "down"} =>
                 /\ proc'[q] \in {"draining", "down"}
                 /\ run[q][t] \notin {"running", "stopping"}
                       => run'[q][t] \notin {"running", "stopping"}
      PROVE  Spent(t) \subseteq Spent(t)'
  BY <1>1 DEF Spent, TypeOK
<1>2. CASE UNCHANGED <<proc, run>>
  BY <1>1, <1>2
<1>3. ASSUME NEW p \in Procs, UNCHANGED run,
             Boot(p) \/ Stop(p)
      PROVE  Spent(t) \subseteq Spent(t)'
  BY <1>1, <1>3 DEF Boot, Stop, TypeOK
<1>4. ASSUME NEW p \in Procs, Crash(p) PROVE Spent(t) \subseteq Spent(t)'
  BY <1>1, <1>4 DEF Crash, TypeOK
<1>5. ASSUME NEW p \in Procs, NEW u \in Triggers, NEW x \in RunState,
             proc' = proc, run' = [run EXCEPT ![p][u] = x],
             \/ proc[p] = "up"
             \/ x \notin {"running", "stopping"}
      PROVE  Spent(t) \subseteq Spent(t)'
  BY <1>1, <1>5 DEF TypeOK
<1>6. ASSUME NEW p \in Procs, NEW u \in Triggers,
             DispatchRun(p, u) \/ RunTriggerNow(p, u)
      PROVE  Spent(t) \subseteq Spent(t)'
  <2>1. proc[p] = "up" /\ proc' = proc /\ run' = [run EXCEPT ![p][u] = "running"]
    BY <1>6 DEF DispatchRun, Dispatching, RunTriggerNow
  <2> QED
    BY <1>5, <2>1 DEF RunState
<1>7. ASSUME NEW p \in Procs, NEW u \in Triggers, StopTask(p, u)
      PROVE  Spent(t) \subseteq Spent(t)'
  <2>1. proc[p] = "up" /\ proc' = proc /\ run' = [run EXCEPT ![p][u] = "stopping"]
    BY <1>7 DEF StopTask
  <2> QED
    BY <1>5, <2>1 DEF RunState
<1>8. ASSUME NEW p \in Procs, NEW u \in Triggers,
             RecordFails(p, u) \/ Finish(p, u) \/ \E o : Record(p, u, o)
      PROVE  Spent(t) \subseteq Spent(t)'
  <2>1. PICK x \in {"recorded", "unrecorded", "none"} :
           proc' = proc /\ run' = [run EXCEPT ![p][u] = x]
    BY <1>8 DEF RecordFails, Finish, Record
  <2> QED
    BY <1>5, <2>1 DEF RunState
<1>9. ASSUME NEW p \in Procs, TickRead(p) \/ Stall(p) \/ Resume(p)
      PROVE  UNCHANGED <<proc, run>>
  BY <1>9 DEF TickRead, Stall, Resume
<1>10. ASSUME NEW p \in Procs, NEW u \in Triggers,
              DispatchLost(p, u) \/ DispatchLostFails(p, u) \/ Skip(p, u) \/ Renew(p, u)
       PROVE  UNCHANGED <<proc, run>>
  BY <1>10 DEF DispatchLost, DispatchLostFails, Skip, Renew
<1>11. ASSUME NEW u \in Triggers,
              Complete(u) \/ Reopen(u) \/ \E on \in BOOLEAN : SetEnabled(u, on)
       PROVE  UNCHANGED <<proc, run>>
  BY <1>11 DEF Complete, Reopen, SetEnabled, OwnerSets
<1>12. CASE Advance \/ UNCHANGED vars
  BY <1>2, <1>12 DEF Advance, vars
<1>13. ASSUME NEW p \in Procs, Boot(p) \/ Stop(p) PROVE UNCHANGED run
  BY <1>13 DEF Boot, Stop
<1> QED
  BY <1>2, <1>3, <1>4, <1>6, <1>7, <1>8, <1>9, <1>10, <1>11, <1>12, <1>13 DEF Next

\* At most one worker loop, and only it is in the middle of a tick.
LEMMA LoopStep ==
    ASSUME TypeOK, OneLoop, [Next]_vars, MaxTickers <= 1
    PROVE  /\ \A p \in Procs : due'[p] # {} => proc'[p] = "up"
           /\ \A p, q \in Procs : proc'[p] = "up" /\ proc'[q] = "up" => p = q
<1> DEFINE Goal == /\ \A p \in Procs : due'[p] # {} => proc'[p] = "up"
                   /\ \A p, q \in Procs : proc'[p] = "up" /\ proc'[q] = "up" => p = q
<1>a. /\ \A p \in Procs : due[p] # {} => proc[p] = "up"
      /\ \A p, q \in Procs : proc[p] = "up" /\ proc[q] = "up" => p = q
  BY DEF OneLoop
<1>b. ASSUME NEW p \in Procs, Boot(p) PROVE Tickers = {}
  <2>1. PICK q \in Procs : Tickers \subseteq {q}
    BY <1>a, <1>b DEF Tickers
  <2>2. IsFiniteSet(Tickers)
    BY <2>1, FS_Singleton, FS_Subset
  <2>3. Cardinality(Tickers) \in Nat /\ Cardinality(Tickers) < MaxTickers
    BY <1>b, <2>2, FS_CardinalityType DEF Boot
  <2>4. Cardinality(Tickers) = 0
    BY <2>3, WorkerLeaseAssumption
  <2> QED
    BY <2>2, <2>4, FS_EmptySet
<1>1. ASSUME NEW p \in Procs, Boot(p) PROVE Goal
  <2>1. \A q \in Procs : proc[q] # "up" /\ due[q] = {}
    BY <1>a, <1>b, <1>1 DEF Tickers
  <2>2. /\ due' = due
        /\ \A q \in Procs : proc'[q] = "up" => q = p
    BY <1>1, <2>1 DEF Boot, TypeOK
  <2> QED
    BY <2>1, <2>2
<1>2. ASSUME NEW p \in Procs, Stop(p) \/ Crash(p) PROVE Goal
  <2>1. /\ \A q \in Procs : proc'[q] = "up" => proc[q] = "up"
        /\ \A q \in Procs \ {p} : proc'[q] = proc[q] /\ due'[q] = due[q]
        /\ due'[p] = {}
    BY <1>2 DEF Stop, Crash, Free, TypeOK
  <2> QED
    BY <1>a, <2>1
<1>3. ASSUME proc' = proc, \A p \in Procs : due'[p] # {} => proc[p] = "up"
      PROVE  Goal
  BY <1>a, <1>3
<1>4. ASSUME NEW p \in Procs, TickRead(p) PROVE Goal
  <2>1. proc' = proc /\ \A q \in Procs : due'[q] # {} => due[q] # {} \/ q = p
    BY <1>4 DEF TickRead, TypeOK
  <2> QED
    BY <1>3, <1>4, <1>a, <2>1 DEF TickRead
<1>5. ASSUME NEW p \in Procs, NEW t \in Triggers,
             proc' = proc, due' = [due EXCEPT ![p] = @ \ {t}]
      PROVE  Goal
  <2>1. \A q \in Procs : due'[q] # {} => due[q] # {}
    BY <1>5 DEF TypeOK
  <2> QED
    BY <1>3, <1>5, <1>a, <2>1
<1>6. ASSUME NEW p \in Procs, NEW t \in Triggers,
             DispatchRun(p, t) \/ DispatchLost(p, t) \/ DispatchLostFails(p, t)
             \/ Skip(p, t)
      PROVE  Goal
  BY <1>5, <1>6 DEF DispatchRun, DispatchLost, DispatchLostFails, Skip, Dispatching
<1>7. ASSUME UNCHANGED <<proc, due>> PROVE Goal
  BY <1>3, <1>7, <1>a
<1>8. ASSUME NEW p \in Procs, NEW t \in Triggers,
             \/ RunTriggerNow(p, t) \/ Renew(p, t) \/ StopTask(p, t)
             \/ RecordFails(p, t) \/ Finish(p, t) \/ \E o : Record(p, t, o)
      PROVE  UNCHANGED <<proc, due>>
  BY <1>8 DEF RunTriggerNow, Renew, StopTask, RecordFails, Finish, Record
<1>9. ASSUME NEW p \in Procs, Stall(p) \/ Resume(p)
      PROVE  UNCHANGED <<proc, due>>
  BY <1>9 DEF Stall, Resume
<1>10. ASSUME NEW t \in Triggers,
              Complete(t) \/ Reopen(t) \/ \E on \in BOOLEAN : SetEnabled(t, on)
       PROVE  UNCHANGED <<proc, due>>
  BY <1>10 DEF Complete, Reopen, SetEnabled, OwnerSets
<1>11. ASSUME Advance \/ UNCHANGED vars PROVE Goal
  BY <1>7, <1>11 DEF Advance, vars
<1> HIDE DEF Goal
<1>12. Goal
  BY <1>1, <1>2, <1>4, <1>6, <1>7, <1>8, <1>9, <1>10, <1>11 DEF Next
<1> QED
  BY <1>12 DEF Goal

\* A claim is unsettled only while its occurrence is due.
LEMMA UnsettledStep ==
    ASSUME TypeOK, [Next]_vars,
           \A t \in Triggers : trig[t].unsettled => trig[t].dueIn = 0
    PROVE  \A t \in Triggers : trig'[t].unsettled => trig'[t].dueIn = 0
<1> DEFINE Goal == \A t \in Triggers : trig'[t].unsettled => trig'[t].dueIn = 0
           Ok(r) == r.unsettled => r.dueIn = 0
<1>a. \A t \in Triggers : trig[t] \in Row /\ kind[t] \in Kind /\ Ok(trig[t])
  BY DEF TypeOK
<1>1. ASSUME NEW t \in Triggers, NEW r, trig' = [trig EXCEPT ![t] = r], Ok(r)
      PROVE  Goal
  BY <1>1, <1>a DEF TypeOK
<1>2. ASSUME trig' = trig PROVE Goal
  BY <1>2, <1>a
<1>b. ASSUME NEW t \in Triggers, NEW p \in Procs PROVE Ok(Claimed(trig[t], p))
  <2> DEFINE s == Claimed(trig[t], p)
  <2>1. s.dueIn = trig[t].dueIn /\ s.unsettled = (trig[t].dueIn = 0)
    BY <1>a, ClaimedTakes
  <2> HIDE DEF s
  <2>2. ASSUME trig[t].dueIn = 0 PROVE s.dueIn = 0
    BY <2>1, <2>2
  <2>3. ASSUME trig[t].dueIn # 0 PROVE s.unsettled = FALSE
    BY <2>1, <2>3
  <2>4. s.unsettled => s.dueIn = 0
    BY <2>2, <2>3
  <2> QED
    BY <2>4 DEF s
<1>c. ASSUME NEW r \in Row, NEW p \in Procs, Ok(r) PROVE Ok(Released(r, p))
  BY <1>c, ReleasedDrops
<1>d. ASSUME NEW r \in Row, NEW k \in Kind, NEW o \in Outcomes, Ok(r)
      PROVE  Ok(Recorded(r, k, o))
  BY <1>d, RecordedSettles
<1> HIDE DEF Ok, Goal
<1>3. ASSUME NEW p \in Procs, NEW t \in Triggers,
             DispatchRun(p, t) \/ DispatchLostFails(p, t) \/ RunTriggerNow(p, t)
      PROVE  Goal
  BY <1>1, <1>3, <1>b DEF DispatchRun, DispatchLostFails, RunTriggerNow
<1>4. ASSUME NEW p \in Procs, NEW t \in Triggers, DispatchLost(p, t) PROVE Goal
  <2>1. Claimed(trig[t], p) \in Row /\ Ok(Claimed(trig[t], p))
    BY <1>a, <1>b, ClaimedRow
  <2>2. /\ Recorded(Claimed(trig[t], p), kind[t], "interrupted") \in Row
        /\ Ok(Recorded(Claimed(trig[t], p), kind[t], "interrupted"))
    BY <1>a, <1>d, <2>1, RecordedRow DEF Outcomes
  <2>3. Ok(Released(Recorded(Claimed(trig[t], p), kind[t], "interrupted"), p))
    BY <1>c, <2>2
  <2> QED
    BY <1>1, <1>4, <2>3 DEF DispatchLost
<1>5. ASSUME NEW p \in Procs, NEW t \in Triggers, Finish(p, t) PROVE Goal
  <2>1. Ok(Released(trig[t], p))
    BY <1>a, <1>c
  <2>2. trig' = [trig EXCEPT ![t] = Released(trig[t], p)] \/ trig' = trig
    BY <1>5 DEF Finish
  <2> QED
    BY <1>1, <1>2, <2>1, <2>2
<1>6. ASSUME NEW p \in Procs, NEW t \in Triggers,
             NEW o \in {"success", "failed", "stopped", "halted"}, Record(p, t, o)
      PROVE  Goal
  BY <1>1, <1>6, <1>a, <1>d DEF Record, Outcomes
<1>7. ASSUME NEW p \in Procs, NEW t \in Triggers, Renew(p, t) PROVE Goal
  <2>1. Ok([trig[t] EXCEPT !.left = LeaseTTL])
    BY <1>a DEF Ok, Row
  <2>2. trig' = [trig EXCEPT ![t] = [trig[t] EXCEPT !.left = LeaseTTL]]
    BY <1>7 DEF Renew
  <2> QED
    BY <1>1, <2>1, <2>2
<1>8. ASSUME NEW t \in Triggers, NEW st, OwnerSets(t, [trig[t] EXCEPT !.status = st])
      PROVE  Goal
  <2>1. Ok([trig[t] EXCEPT !.status = st])
    BY <1>a DEF Ok, Row
  <2> QED
    BY <1>1, <1>8, <2>1 DEF OwnerSets
<1>9. ASSUME NEW t \in Triggers, NEW on \in BOOLEAN, SetEnabled(t, on) PROVE Goal
  <2>1. Ok([trig[t] EXCEPT !.enabled = on])
    BY <1>a DEF Ok, Row
  <2> QED
    BY <1>1, <1>9, <2>1 DEF SetEnabled, OwnerSets
<1>10. ASSUME NEW t \in Triggers, Complete(t) \/ Reopen(t) PROVE Goal
  BY <1>8, <1>10 DEF Complete, Reopen
<1>11. ASSUME Advance PROVE Goal
  <2>1. ASSUME NEW t \in Triggers PROVE trig'[t].unsettled => trig'[t].dueIn = 0
    <3> DEFINE d == IF trig[t].dueIn = Null THEN trig[t].dueIn ELSE Less(trig[t].dueIn)
               n == Less(trig[t].left)
    <3>1. trig'[t] = [trig[t] EXCEPT !.dueIn = d, !.left = n]
      BY <1>11 DEF Advance
    <3>2. trig[t].dueIn = 0 => d = 0
      BY DEF Less
    <3> HIDE DEF d, n
    <3>3. trig'[t].unsettled = trig[t].unsettled /\ trig'[t].dueIn = d
      BY <3>1, <1>a DEF Row
    <3> QED
      BY <3>2, <3>3, <1>a DEF Ok
  <2> QED
    BY <2>1 DEF Goal
<1>12. ASSUME NEW p \in Procs,
              \/ TickRead(p) \/ Boot(p) \/ Stop(p) \/ Crash(p) \/ Stall(p) \/ Resume(p)
              \/ \E t \in Triggers : Skip(p, t) \/ StopTask(p, t) \/ RecordFails(p, t)
       PROVE  trig' = trig
  BY <1>12 DEF TickRead, Boot, Stop, Crash, Stall, Resume, Skip, StopTask, RecordFails
<1>13. ASSUME UNCHANGED vars PROVE Goal
  BY <1>2, <1>13 DEF vars
<1>14. Goal
  BY <1>2, <1>3, <1>4, <1>5, <1>6, <1>7, <1>9, <1>10, <1>11, <1>12, <1>13 DEF Next
<1> QED
  BY <1>14 DEF Goal

\* One trigger's account over every step.
LEMMA AttStep ==
    ASSUME AttInv, [Next]_vars, MaxTickers <= 1, IInv', OneLoop',
           NEW t \in Triggers, StartsOnce(t)
    PROVE  AttOf(t)'
<1> USE WorkerLeaseAssumption
<1>a. /\ TypeOK /\ TypeOK' /\ IsFiniteSet(slow) /\ IsFiniteSet(slow') /\ AttOf(t)
      /\ trig[t] \in Row /\ kind[t] \in Kind /\ kind[t].shape = "oneshot"
      /\ ~kind[t].resumes
  BY DEF AttInv, IInv, OneLoop, StartsOnce, TypeOK
<1>b. slow \subseteq slow' /\ faults <= faults' /\ kind' = kind
  BY <1>a, SlowStep
<1>c. Spent(t) \subseteq Spent(t)'
  BY <1>a, <1>b, SpentStep DEF AttInv, OneLoop
<1>d. /\ \A p \in Procs : due[p] # {} => proc[p] = "up"
      /\ \A p, q \in Procs : proc[p] = "up" /\ proc[q] = "up" => p = q
      /\ trig[t].unsettled => trig[t].dueIn = 0
  BY DEF AttInv, OneLoop
<1>e. Still(t) => AttOf(t)'
  BY <1>a, <1>b, <1>c, StillKeeps
<1> DEFINE a == Allow(t)
<1>f. PICK b : b = Allow(t)'
  OBVIOUS
<1>g. PICK s : s = starts[t] /\ s \in Nat
  BY <1>a DEF TypeOK
<1>h. PICK n : n = starts'[t] /\ n \in Nat
  BY <1>a DEF TypeOK
<1>i. PICK r \in Row : r = trig'[t]
  BY <1>a DEF TypeOK
<1>j. /\ s <= 1 + a
      /\ s <= a \/ Ended(t) \/ Taken(t)
      /\ Listed(t) => /\ s <= a \/ Taken(t)
                      /\ trig[t].dueIn \notin {0, Null} => s + 1 <= a
                      /\ \A q \in Procs : Active(q, t) => q \in slow
      /\ \A q \in Procs :
            run[q][t] \in {"recorded", "unrecorded"} /\ trig[t].holder = q
               => s <= a \/ (Ended(t) /\ ~Listed(t))
  BY <1>a, <1>g DEF AttOf
<1>k. /\ a \in Nat /\ trig[t].retry \in Nat /\ r.retry \in Nat
      /\ r.holder \in Procs \union {Null}
  BY <1>a, <1>i, AllowNat DEF Row
\* The allowance: never less, and one more for each thing counted.
<1>l. ASSUME trig[t].retry <= r.retry
      PROVE  /\ b \in Nat /\ a <= b
             /\ a + (r.retry - trig[t].retry) <= b
             /\ Spent(t) # Spent(t)' => a + (r.retry - trig[t].retry) + 1 <= b
             /\ faults' = faults + 1 => a + 1 <= b
  <2>1. faults \in Nat /\ faults' \in Nat
    BY <1>a DEF TypeOK
  <2>2. /\ b \in Nat
        /\ a + (trig'[t].retry - trig[t].retry) + (faults' - faults) <= b
        /\ Spent(t) # Spent(t)' => a + (trig'[t].retry - trig[t].retry) + 1 <= b
    BY <1>a, <1>b, <1>c, <1>f, <1>i, <1>l, AllowGrows
  <2>3. PICK x \in Nat : x = r.retry - trig[t].retry
    BY <1>k, <1>l
  <2>a. PICK f : f = faults'
    OBVIOUS
  <2>b. f \in Nat /\ faults <= f
    BY <1>b, <2>1, <2>a
  <2>c. f - faults \in Nat
    BY <2>1, <2>b
  <2>4. PICK y \in Nat : y = f - faults
    BY <2>c
  <2>5. a + x + y <= b /\ (Spent(t) # Spent(t)' => a + x + 1 <= b)
    BY <1>i, <2>2, <2>3, <2>4, <2>a
  <2>6. faults' = faults + 1 => y = 1
    BY <2>1, <2>4, <2>a
  <2>7. a + x <= b /\ a <= b /\ (y = 1 => a + 1 <= b)
    BY <1>k, <2>2, <2>5
  <2> QED
    BY <2>2, <2>3, <2>5, <2>6, <2>7
<1>m. /\ Ended(t)' <=> r.status # "open" \/ r.dueIn = Null
      /\ Taken(t)' <=> r.holder # Null /\ r.unsettled
  BY <1>i DEF Ended, Taken
<1> HIDE DEF a
\* The account of a trigger on no due list.
<1>n. ASSUME ~Listed(t)', n <= 1 + b, n <= b \/ Ended(t)' \/ Taken(t)',
             \A q \in Procs : run'[q][t] \in {"recorded", "unrecorded"} /\ r.holder = q
                                 => n <= b \/ Ended(t)'
      PROVE  AttOf(t)'
  BY <1>f, <1>h, <1>i, <1>n DEF AttOf
\* ... and of one with an allowance left, listed or not.
<1>o. ASSUME n \in Nat, b \in Nat, n <= b,
             Listed(t)' => /\ r.dueIn \notin {0, Null} => n + 1 <= b
                           /\ \A q \in Procs : Active(q, t)' => q \in slow'
      PROVE  AttOf(t)'
  <2>1. n <= 1 + b
    BY <1>o
  <2> QED
    BY <1>f, <1>h, <1>i, <1>o, <2>1 DEF AttOf
\* A step about another trigger.
<1>p. ASSUME NEW u \in Triggers, u # t, NEW x, trig' = [trig EXCEPT ![u] = x],
             \/ due' = due
             \/ \E p \in Procs : due' = [due EXCEPT ![p] = @ \ {u}],
             \/ run' = run
             \/ \E p \in Procs, y \in RunState : run' = [run EXCEPT ![p][u] = y],
             starts'[t] = starts[t]
      PROVE  AttOf(t)'
  <2>1. trig'[t] = trig[t]
    BY <1>a, <1>p DEF TypeOK
  <2>2. \A p \in Procs : t \in due'[p] => t \in due[p]
    BY <1>a, <1>p DEF TypeOK
  <2>3. \A p \in Procs : run'[p][t] = run[p][t]
    BY <1>a, <1>p DEF TypeOK
  <2> QED
    BY <1>e, <1>p, <2>1, <2>2, <2>3 DEF Still
\* A process in a tick is the only loop, so a due list that loses t was the
\* only one to hold it.
<1>q. ASSUME NEW p \in Procs, t \in due[p], due' = [due EXCEPT ![p] = @ \ {t}]
      PROVE  Listed(t) /\ ~Listed(t)'
  <2>1. t \notin due'[p] /\ \A q \in Procs \ {p} : due'[q] = due[q]
    BY <1>a, <1>q DEF TypeOK
  <2>2. \A q \in Procs \ {p} : due[q] = {}
    BY <1>d, <1>q
  <2> QED
    BY <1>q, <2>1, <2>2 DEF Listed
<1>r. ASSUME NEW p \in Procs, proc[p] = "up", due[p] = {}, due' = due
      PROVE  ~Listed(t) /\ ~Listed(t)'
  BY <1>a, <1>d, <1>r DEF Listed, TypeOK
<1>1. ASSUME NEW p \in Procs, TickRead(p) PROVE AttOf(t)'
  <2>1. /\ trig' = trig /\ run' = run /\ starts' = starts
        /\ due' = [due EXCEPT ![p] = {u \in Triggers : Due(u)}]
    BY <1>1 DEF TickRead
  <2>2. CASE ~Due(t)
    <3>1. \A q \in Procs : t \in due'[q] => t \in due[q]
      BY <1>a, <2>1, <2>2 DEF TypeOK
    <3> QED
      BY <1>e, <2>1, <3>1 DEF Still
  <2>3. CASE Due(t)
    <3>1. trig[t].status = "open" /\ trig[t].dueIn = 0 /\ trig[t].dueIn # Null /\ ~Held(t)
      BY <1>a, <2>3 DEF Due, Armed, Row
    <3>2. \A q \in Procs : Active(q, t) => q \in slow
      BY <3>1 DEF AttInv, IInv, LeaseHeldWhileRunning, Held
    <3>3. ~Ended(t) /\ r = trig[t] /\ n = s
      BY <1>g, <1>h, <1>i, <2>1, <3>1 DEF Ended
    <3>4. b \in Nat /\ a <= b
      BY <1>k, <1>l, <3>3
    <3>5. (s <= a => n <= b) /\ n <= 1 + b
      BY <1>g, <1>j, <1>k, <3>3, <3>4
    <3>6. n <= b \/ Taken(t)'
      BY <1>j, <1>m, <3>3, <3>5 DEF Taken
    <3>7. \A q \in Procs : run'[q][t] \in {"recorded", "unrecorded"} /\ r.holder = q
                              => n <= b
      BY <1>j, <2>1, <3>3, <3>5
    <3>8. \A q \in Procs : Active(q, t)' => q \in slow'
      BY <1>b, <2>1, <3>2 DEF Active
    <3>9. r.dueIn = 0
      BY <3>1, <3>3
    <3> QED
      BY <1>f, <1>h, <1>i, <3>5, <3>6, <3>7, <3>8, <3>9 DEF AttOf
  <2> QED
    BY <2>2, <2>3
<1>2. ASSUME NEW p \in Procs, NEW u \in Triggers, DispatchRun(p, u) PROVE AttOf(t)'
  <2>1. /\ u \in due[p] /\ due' = [due EXCEPT ![p] = @ \ {u}]
        /\ trig' = [trig EXCEPT ![u] = Claimed(trig[u], p)]
        /\ run' = [run EXCEPT ![p][u] = "running"]
        /\ ~Held(u) /\ (Lost(u) => kind[u].resumes)
        /\ starts' = Counted(u)
    BY <1>2 DEF DispatchRun, Dispatching
  <2>2. CASE u # t
    <3>1. starts'[t] = starts[t]
      BY <1>a, <2>1, <2>2 DEF Counted, TypeOK
    <3> QED
      BY <1>p, <2>1, <2>2, <3>1 DEF RunState
  <2>3. CASE u = t
    <3>1. Listed(t) /\ ~Listed(t)'
      BY <1>q, <2>1, <2>3
    <3>2. ~Taken(t)
      BY <1>a, <2>1, <2>3 DEF Lost, Taken
    <3>3. n = s + 1
      BY <1>a, <1>g, <1>h, <2>1, <2>3 DEF Counted, TypeOK
    <3>4. r = Claimed(trig[t], p)
      BY <1>a, <1>i, <2>1, <2>3 DEF TypeOK
    <3>5. /\ r.dueIn = trig[t].dueIn /\ r.retry = trig[t].retry
          /\ r.holder = p /\ r.unsettled = (trig[t].dueIn = 0)
      BY <1>a, <3>4, ClaimedTakes
    <3>6. b \in Nat /\ a <= b
      BY <1>k, <1>l, <3>5
    <3>7. s <= a /\ n <= 1 + b
      BY <1>g, <1>j, <1>k, <3>1, <3>2, <3>3, <3>6
    <3>8. n <= b \/ Ended(t)' \/ Taken(t)'
      <4>1. CASE trig[t].dueIn = 0
        <5>1. r.unsettled = TRUE /\ r.holder # Null
          BY <3>5, <4>1
        <5> QED
          BY <1>m, <5>1
      <4>2. CASE trig[t].dueIn = Null
        BY <1>m, <3>5, <4>2
      <4>3. CASE trig[t].dueIn \notin {0, Null}
        BY <1>g, <1>j, <1>k, <3>1, <3>3, <3>6, <4>3
      <4> QED
        BY <4>1, <4>2, <4>3
    <3>9. run'[p][t] = "running"
      BY <1>a, <2>1, <2>3 DEF TypeOK
    <3> QED
      BY <1>n, <3>1, <3>5, <3>7, <3>8, <3>9
  <2> QED
    BY <2>2, <2>3
<1>3. ASSUME NEW p \in Procs, NEW u \in Triggers, DispatchLost(p, u) PROVE AttOf(t)'
  <2> DEFINE z == Recorded(Claimed(trig[u], p), kind[u], "interrupted")
  <2>1. /\ u \in due[p] /\ due' = [due EXCEPT ![p] = @ \ {u}]
        /\ trig' = [trig EXCEPT ![u] = Released(z, p)]
        /\ run' = run /\ starts' = starts
    BY <1>3 DEF DispatchLost, Dispatching
  <2>2. CASE u # t
    BY <1>p, <2>1, <2>2
  <2>3. CASE u = t
    <3>1. Listed(t) /\ ~Listed(t)'
      BY <1>q, <2>1, <2>3
    <3>2. Claimed(trig[t], p) \in Row
      BY <1>a, ClaimedRow
    <3>a. Claimed(trig[t], p).holder = p
      BY <1>a, ClaimedTakes
    <3>3. z \in Row /\ z.holder = p
      BY <1>a, <2>3, <3>2, <3>a, RecordedRow DEF Outcomes
    <3>4. \/ z.retry = trig[t].retry + 1
          \/ z.retry = trig[t].retry /\ (z.status # "open" \/ z.dueIn = Null)
      BY <1>a, <2>3, <3>2, ClaimedTakes, RecordedOnce DEF Outcomes
    <3>5. r = Released(z, p) /\ n = s
      BY <1>a, <1>g, <1>h, <1>i, <2>1, <2>3 DEF TypeOK
    <3> HIDE DEF z
    <3>6. r.retry = z.retry /\ r.status = z.status /\ r.dueIn = z.dueIn /\ r.holder = Null
      BY <3>3, <3>5, ReleasedDrops
    <3>7. b \in Nat /\ a <= b /\ (r.retry = trig[t].retry + 1 => a + 1 <= b)
      BY <1>k, <1>l, <3>4, <3>6
    <3>8. n <= 1 + b /\ (n <= b \/ Ended(t)')
      BY <1>g, <1>j, <1>k, <1>m, <3>4, <3>5, <3>6, <3>7
    <3> QED
      BY <1>n, <3>1, <3>6, <3>8
  <2> QED
    BY <2>2, <2>3
<1>4. ASSUME NEW p \in Procs, NEW u \in Triggers, DispatchLostFails(p, u) PROVE AttOf(t)'
  <2>1. /\ u \in due[p] /\ due' = [due EXCEPT ![p] = @ \ {u}]
        /\ trig' = [trig EXCEPT ![u] = Claimed(trig[u], p)]
        /\ run' = run /\ starts' = starts
        /\ Lost(u) /\ run[p][u] = "none"
    BY <1>4 DEF DispatchLostFails, Dispatching, Active
  <2>2. CASE u # t
    BY <1>p, <2>1, <2>2
  <2>3. CASE u = t
    <3>1. ~Listed(t)'
      BY <1>q, <2>1, <2>3
    <3>2. r = Claimed(trig[t], p) /\ n = s
      BY <1>a, <1>g, <1>h, <1>i, <2>1, <2>3 DEF TypeOK
    <3>3. trig[t].dueIn = 0
      BY <1>d, <2>1, <2>3 DEF Lost
    <3>4. r.retry = trig[t].retry /\ r.holder = p /\ r.unsettled = (trig[t].dueIn = 0)
      BY <1>a, <3>2, ClaimedTakes
    <3>5. r.unsettled = TRUE /\ r.holder # Null
      BY <3>3, <3>4
    <3>6. b \in Nat /\ a <= b
      BY <1>k, <1>l, <3>4
    <3>7. n <= 1 + b
      BY <1>g, <1>j, <1>k, <3>2, <3>6
    <3>8. Taken(t)'
      BY <1>m, <3>5
    <3> QED
      BY <1>n, <2>1, <2>3, <3>1, <3>4, <3>7, <3>8
  <2> QED
    BY <2>2, <2>3
<1>5. ASSUME NEW p \in Procs, NEW u \in Triggers, RunTriggerNow(p, u) PROVE AttOf(t)'
  <2>1. /\ due' = due /\ due[p] = {} /\ proc[p] = "up"
        /\ trig' = [trig EXCEPT ![u] = Claimed(trig[u], p)]
        /\ run' = [run EXCEPT ![p][u] = "running"] /\ starts' = starts
    BY <1>5 DEF RunTriggerNow, Free
  <2>2. CASE u # t
    BY <1>p, <2>1, <2>2 DEF RunState
  <2>3. CASE u = t
    <3>1. ~Listed(t)'
      BY <1>r, <2>1
    <3>2. r = Claimed(trig[t], p) /\ n = s
      BY <1>a, <1>g, <1>h, <1>i, <2>1, <2>3 DEF TypeOK
    <3>3. /\ r.status = trig[t].status /\ r.dueIn = trig[t].dueIn
          /\ r.retry = trig[t].retry /\ r.holder = p
          /\ r.unsettled = (trig[t].dueIn = 0)
      BY <1>a, <3>2, ClaimedTakes
    <3>4. Taken(t) => r.unsettled = TRUE /\ r.holder # Null
      BY <1>d, <3>3 DEF Taken
    <3>5. b \in Nat /\ a <= b
      BY <1>k, <1>l, <3>3
    <3>6. n <= 1 + b /\ (s <= a => n <= b)
      BY <1>g, <1>j, <1>k, <3>2, <3>5
    <3>7. n <= b \/ Ended(t)' \/ Taken(t)'
      BY <1>j, <1>m, <3>3, <3>4, <3>6 DEF Ended
    <3>8. run'[p][t] = "running"
      BY <1>a, <2>1, <2>3 DEF TypeOK
    <3> QED
      BY <1>n, <3>1, <3>3, <3>6, <3>7, <3>8
  <2> QED
    BY <2>2, <2>3
<1>6. ASSUME NEW p \in Procs, NEW u \in Triggers, RecordFails(p, u) PROVE AttOf(t)'
  <2>1. /\ due' = due /\ trig' = trig /\ starts' = starts /\ faults' = faults + 1
        /\ run' = [run EXCEPT ![p][u] = "unrecorded"] /\ run[p][u] # "none"
    BY <1>6 DEF RecordFails
  <2>2. CASE u # t
    <3>1. trig' = [trig EXCEPT ![u] = trig[u]]
      BY <1>a, <2>1 DEF TypeOK
    <3> QED
      BY <1>p, <2>1, <2>2, <3>1 DEF RunState
  <2>3. CASE u = t
    <3>1. r = trig[t] /\ n = s
      BY <1>g, <1>h, <1>i, <2>1
    <3>2. b \in Nat /\ a <= b /\ a + 1 <= b
      BY <1>k, <1>l, <2>1, <3>1
    <3>3. n <= b /\ (s + 1 <= a => n + 1 <= b)
      BY <1>g, <1>j, <1>k, <3>1, <3>2
    <3>4. Listed(t)' => Listed(t)
      BY <2>1 DEF Listed
    <3>5. \A q \in Procs : Active(q, t)' => Active(q, t)
      BY <1>a, <2>1, <2>3 DEF Active, TypeOK
    <3> QED
      BY <1>b, <1>h, <1>j, <1>o, <3>1, <3>2, <3>3, <3>4, <3>5
  <2> QED
    BY <2>2, <2>3
<1>7. ASSUME NEW p \in Procs, NEW u \in Triggers,
             NEW o \in {"success", "failed", "stopped", "halted"}, Record(p, u, o)
      PROVE  AttOf(t)'
  <2>1. /\ due' = due /\ starts' = starts /\ proc' = proc
        /\ trig' = [trig EXCEPT ![u] = Recorded(trig[u], kind[u], o)]
        /\ run' = [run EXCEPT ![p][u] = "recorded"]
        /\ run[p][u] \in {"running", "stopping"}
        /\ proc[p] \in {"up", "draining"} /\ due[p] = {}
    BY <1>7 DEF Record, Free, Awake
  <2>2. CASE u # t
    BY <1>p, <2>1, <2>2 DEF RunState
  <2>3. CASE u = t
    <3>1. r = Recorded(trig[t], kind[t], o) /\ n = s /\ run'[p][t] = "recorded"
      BY <1>a, <1>g, <1>h, <1>i, <2>1, <2>3 DEF TypeOK
    <3>2. \/ r.retry = trig[t].retry + 1
          \/ /\ r.retry = trig[t].retry /\ r.status # "open"
             /\ r.dueIn = trig[t].dueIn
          \/ r.retry = trig[t].retry /\ r.dueIn = Null
      BY <1>a, <3>1, RecordedOnce DEF Outcomes
    <3>3. trig[t].retry <= r.retry
      BY <1>k, <3>2
    <3>4. /\ b \in Nat /\ a <= b
          /\ r.retry = trig[t].retry + 1 => a + 1 <= b
          /\ Spent(t) # Spent(t)' => a + 1 <= b
          /\ Spent(t) # Spent(t)' /\ r.retry = trig[t].retry + 1 => a + 2 <= b
      <4>1. /\ b \in Nat /\ a <= b
            /\ a + (r.retry - trig[t].retry) <= b
            /\ Spent(t) # Spent(t)' => a + (r.retry - trig[t].retry) + 1 <= b
        BY <1>l, <3>3
      <4> QED
        BY <1>k, <3>3, <4>1
    <3>5. CASE ~Listed(t)
      <4>1. ~Listed(t)'
        BY <2>1, <3>5 DEF Listed
      <4>2. n <= 1 + b /\ (n <= b \/ r.status # "open" \/ r.dueIn = Null)
        BY <1>g, <1>j, <1>k, <3>1, <3>2, <3>4
      <4> QED
        BY <1>m, <1>n, <4>1, <4>2
    <3>6. CASE Listed(t)
      <4>1. PICK w \in Procs : t \in due[w]
        BY <3>6 DEF Listed
      <4>2. proc[p] = "draining"
        BY <1>d, <2>1, <4>1
      <4>3. p \in slow
        BY <1>j, <2>1, <2>3, <3>6 DEF Active
      <4>4. p \notin Spent(t) /\ p \in Spent(t)'
        BY <1>b, <2>1, <2>3, <3>1, <4>2, <4>3 DEF Spent
      <4>5. Spent(t) # Spent(t)'
        BY <4>4
      <4>6. n <= b
        BY <1>g, <1>j, <1>k, <3>1, <3>4, <4>5
      <4>7. r.dueIn \notin {0, Null} => n + 1 <= b
        <5>1. CASE r.retry = trig[t].retry + 1
          BY <1>g, <1>j, <1>k, <3>1, <3>4, <4>5, <5>1
        <5>2. CASE r.dueIn = trig[t].dueIn
          BY <1>g, <1>j, <1>k, <3>1, <3>4, <3>6, <5>2
        <5> QED
          BY <3>2, <5>1, <5>2
      <4>8. \A q \in Procs : Active(q, t)' => Active(q, t)
        BY <1>a, <2>1, <2>3 DEF Active, TypeOK
      <4> QED
        BY <1>b, <1>h, <1>j, <1>o, <3>4, <3>6, <4>6, <4>7, <4>8
    <3> QED
      BY <3>5, <3>6
  <2> QED
    BY <2>2, <2>3
<1>8. ASSUME NEW p \in Procs, NEW u \in Triggers, Finish(p, u) PROVE AttOf(t)'
  <2>1. /\ due' = due /\ starts' = starts
        /\ run' = [run EXCEPT ![p][u] = "none"]
        /\ run[p][u] \in {"recorded", "unrecorded"}
        /\ trig' = [trig EXCEPT ![u] = Released(trig[u], p)] \/ trig' = trig
    BY <1>8 DEF Finish
  <2>2. CASE u # t
    <3>1. trig' = trig => trig' = [trig EXCEPT ![u] = trig[u]]
      BY <1>a DEF TypeOK
    <3> QED
      BY <1>p, <2>1, <2>2, <3>1 DEF RunState
  <2>3. CASE u = t /\ trig'[t] = trig[t]
    <3>1. \A q \in Procs : \/ run'[q][t] = run[q][t]
                           \/ run'[q][t] = "none" /\ run[q][t] # "none"
      BY <1>a, <2>1, <2>3 DEF TypeOK
    <3> QED
      BY <1>e, <2>1, <2>3, <3>1 DEF Still
  <2>4. CASE u = t /\ trig'[t] # trig[t]
    <3>1. r = Released(trig[t], p) /\ n = s /\ r # trig[t]
      BY <1>a, <1>g, <1>h, <1>i, <2>1, <2>4 DEF TypeOK
    <3>2. /\ trig[t].holder = p /\ r.holder = Null
          /\ r.status = trig[t].status /\ r.dueIn = trig[t].dueIn
          /\ r.retry = trig[t].retry
      BY <1>a, <3>1, ReleasedDrops
    <3>3. b \in Nat /\ a <= b
      BY <1>k, <1>l, <3>2
    <3>4. s <= a \/ (Ended(t) /\ ~Listed(t))
      BY <1>j, <2>1, <2>4, <3>2
    <3>5. Listed(t)' <=> Listed(t)
      BY <2>1 DEF Listed
    <3>6. Ended(t)' <=> Ended(t)
      BY <1>m, <3>2 DEF Ended
    <3>7. CASE s <= a
      <4>1. n <= b /\ (s + 1 <= a => n + 1 <= b)
        BY <1>g, <1>k, <3>1, <3>3, <3>7
      <4>2. \A q \in Procs : Active(q, t)' => Active(q, t)
        BY <1>a, <2>1, <2>4 DEF Active, TypeOK
      <4> QED
        BY <1>b, <1>h, <1>j, <1>o, <3>2, <3>3, <3>5, <4>1, <4>2
    <3>8. CASE Ended(t) /\ ~Listed(t)
      <4>1. n <= 1 + b
        BY <1>g, <1>j, <1>k, <3>1, <3>3
      <4> QED
        BY <1>n, <3>5, <3>6, <3>8, <4>1
    <3> QED
      BY <3>4, <3>7, <3>8
  <2> QED
    BY <2>2, <2>3, <2>4
<1>9. ASSUME NEW u \in Triggers, Reopen(u) PROVE AttOf(t)'
  <2>1. PICK p \in Procs : proc[p] = "up" /\ due[p] = {}
    BY <1>9 DEF Reopen, OwnerSets, Tickers, Free
  <2>2. /\ due' = due /\ run' = run
        /\ trig' = [trig EXCEPT ![u] = [trig[u] EXCEPT !.status = "open"]]
        /\ starts' = [starts EXCEPT ![u] = 0]
    BY <1>9 DEF Reopen, OwnerSets
  <2>3. CASE u # t
    <3>1. starts'[t] = starts[t]
      BY <1>a, <2>2, <2>3 DEF TypeOK
    <3> QED
      BY <1>p, <2>2, <2>3, <3>1
  <2>4. CASE u = t
    <3>1. n = 0 /\ r = [trig[t] EXCEPT !.status = "open"]
      BY <1>a, <1>h, <1>i, <2>2, <2>4 DEF TypeOK
    <3>2. r.retry = trig[t].retry
      BY <1>a, <3>1 DEF Row
    <3>3. b \in Nat
      BY <1>k, <1>l, <3>2
    <3>4. n <= b
      BY <3>1, <3>3
    <3>5. ~Listed(t)'
      BY <1>r, <2>1, <2>2
    <3> QED
      BY <1>h, <1>o, <3>3, <3>4, <3>5
  <2> QED
    BY <2>3, <2>4
<1>10. ASSUME NEW u \in Triggers,
              Complete(u) \/ \E on \in BOOLEAN : SetEnabled(u, on)
       PROVE  AttOf(t)'
  <2>1. due' = due /\ run' = run /\ starts' = starts
    BY <1>10 DEF Complete, SetEnabled, OwnerSets
  <2>2. PICK x : trig' = [trig EXCEPT ![u] = x]
    BY <1>10 DEF Complete, SetEnabled, OwnerSets
  <2>3. CASE u # t
    BY <1>p, <2>1, <2>2, <2>3
  <2>4. CASE u = t
    <3>1. \/ trig'[t] = [trig[t] EXCEPT !.status = "completed"]
          \/ \E on \in BOOLEAN : trig'[t] = [trig[t] EXCEPT !.enabled = on]
      BY <1>10, <1>a, <2>4 DEF Complete, SetEnabled, OwnerSets, TypeOK
    <3>2. /\ trig[t].status # "open" => r.status # "open"
          /\ r.dueIn = trig[t].dueIn /\ r.retry = trig[t].retry
          /\ r.holder = trig[t].holder /\ r.unsettled = trig[t].unsettled
      BY <1>a, <1>i, <3>1 DEF Row
    <3> QED
      BY <1>e, <1>i, <2>1, <3>2 DEF Still
  <2> QED
    BY <2>3, <2>4
<1>11. ASSUME NEW p \in Procs, NEW u \in Triggers,
              Skip(p, u) \/ Renew(p, u) \/ StopTask(p, u)
       PROVE  AttOf(t)'
  <2>1. starts' = starts /\ \A q \in Procs : t \in due'[q] => t \in due[q]
    BY <1>11, <1>a DEF Skip, Renew, StopTask, TypeOK
  <2>2. \A q \in Procs : \/ run'[q][t] = run[q][t]
                         \/ run'[q][t] = "stopping" /\ run[q][t] # "none"
    BY <1>11, <1>a DEF Skip, Renew, StopTask, TypeOK
  <2>3. trig'[t] = trig[t] \/ trig'[t] = [trig[t] EXCEPT !.left = LeaseTTL]
    BY <1>11, <1>a DEF Skip, Renew, StopTask, TypeOK
  <2>4. /\ r.status = trig[t].status /\ r.dueIn = trig[t].dueIn
        /\ r.retry = trig[t].retry /\ r.holder = trig[t].holder
        /\ r.unsettled = trig[t].unsettled
    BY <1>a, <1>i, <2>3 DEF Row
  <2> QED
    BY <1>e, <1>i, <2>1, <2>2, <2>4 DEF Still
<1>12. ASSUME NEW p \in Procs,
              Boot(p) \/ Stop(p) \/ Crash(p) \/ Stall(p) \/ Resume(p)
       PROVE  AttOf(t)'
  <2>1. trig' = trig /\ starts' = starts /\ \A q \in Procs : t \in due'[q] => t \in due[q]
    BY <1>12, <1>a DEF Boot, Stop, Crash, Stall, Resume, TypeOK
  <2>2. \A q \in Procs : \/ run'[q][t] = run[q][t]
                         \/ run'[q][t] = "none" /\ run[q][t] # "none"
    BY <1>12, <1>a DEF Boot, Stop, Crash, Stall, Resume, TypeOK
  <2> QED
    BY <1>e, <2>1, <2>2 DEF Still
<1>13. ASSUME Advance PROVE AttOf(t)'
  <2> DEFINE d == IF trig[t].dueIn = Null THEN trig[t].dueIn ELSE Less(trig[t].dueIn)
             m == Less(trig[t].left)
  <2>1. trig'[t] = [trig[t] EXCEPT !.dueIn = d, !.left = m]
    BY <1>13 DEF Advance
  <2>2. (trig[t].dueIn = 0 => d = 0) /\ (trig[t].dueIn = Null => d = Null)
    BY DEF Less
  <2> HIDE DEF d, m
  <2>3. /\ r.status = trig[t].status /\ r.dueIn = d
        /\ r.retry = trig[t].retry /\ r.holder = trig[t].holder
        /\ r.unsettled = trig[t].unsettled
    BY <1>a, <1>i, <2>1 DEF Row
  <2>4. starts' = starts /\ due' = due /\ run' = run
    BY <1>13 DEF Advance
  <2> QED
    BY <1>e, <1>i, <2>2, <2>3, <2>4 DEF Still
<1>14. ASSUME UNCHANGED vars PROVE AttOf(t)'
  BY <1>e, <1>14 DEF Still, vars
<1> QED
  BY <1>1, <1>2, <1>3, <1>4, <1>5, <1>6, <1>7, <1>8, <1>9, <1>10, <1>11, <1>12,
     <1>13, <1>14
  DEF Next

\* At the start nothing has been started.
LEMMA AttInit == Init => AttInv
<1> SUFFICES ASSUME Init PROVE AttInv
  OBVIOUS
<1>1. IInv /\ TypeOK
  BY LeaseInit DEF IInv
<1>2. OneLoop
  BY FS_EmptySet DEF Init, OneLoop
<1>3. ASSUME NEW t \in Triggers PROVE AttOf(t)
  <2>1. Allow(t) \in Nat
    BY <1>1, <1>2, AllowNat DEF OneLoop
  <2>2. starts[t] = 0 /\ ~Listed(t) /\ trig[t].holder = Null
    BY DEF Init, Listed
  <2>3. starts[t] <= Allow(t) /\ starts[t] <= 1 + Allow(t)
    BY <2>1, <2>2
  <2> QED
    BY <2>2, <2>3 DEF AttOf
<1> QED
  BY <1>1, <1>2, <1>3 DEF AttInv

\* Every step keeps the account of starts, with one loop at a time.
LEMMA AttNext ==
    ASSUME AttInv, [Next]_vars, MaxTickers <= 1
    PROVE  AttInv'
<1>1. IInv' /\ IInv /\ TypeOK /\ OneLoop
  BY LeaseStep DEF AttInv, IInv
<1>2. IsFiniteSet(slow') /\ kind' = kind
  BY <1>1, SlowStep DEF OneLoop
<1>3. /\ \A p \in Procs : due'[p] # {} => proc'[p] = "up"
      /\ \A p, q \in Procs : proc'[p] = "up" /\ proc'[q] = "up" => p = q
  BY <1>1, LoopStep
<1>4. \A t \in Triggers : trig'[t].unsettled => trig'[t].dueIn = 0
  BY <1>1, UnsettledStep DEF OneLoop
<1>5. OneLoop'
  BY <1>2, <1>3, <1>4 DEF OneLoop
<1>6. ASSUME NEW t \in Triggers, StartsOnce(t)' PROVE AttOf(t)'
  <2>1. StartsOnce(t)
    BY <1>2, <1>6 DEF StartsOnce
  <2> QED
    BY <1>1, <1>5, <2>1, AttStep
<1> QED
  BY <1>1, <1>5, <1>6 DEF AttInv

\* With one worker loop at a time, and any number of processes one after the
\* other, crashes, stalls and retries, the schedule starts a one-shot no more
\* often than its retries, lost records and slow processes account for
\* (claimLease's `interrupted` and recordTaskRun).
THEOREM AttemptsAccountedFor == Spec => []AttemptsBounded
<1>1. CASE MaxTickers <= 1
  <2>1. AttInv => AttemptsBounded
    <3> SUFFICES ASSUME AttInv, NEW t \in Triggers, StartsOnce(t)
                 PROVE  starts[t] <= 1 + trig[t].retry + faults + Cardinality(slow)
      BY DEF AttemptsBounded
    <3>1. TypeOK /\ IsFiniteSet(slow) /\ starts[t] <= 1 + Allow(t)
      BY DEF AttInv, IInv, OneLoop, AttOf
    <3>2. Spent(t) \in SUBSET slow
      BY DEF Spent
    <3>3. /\ Cardinality(Spent(t)) \in Nat /\ Cardinality(slow) \in Nat
          /\ Cardinality(Spent(t)) <= Cardinality(slow)
      BY <3>1, <3>2, FS_Subset, FS_CardinalityType
    <3>4. starts[t] \in Nat /\ trig[t].retry \in Nat /\ faults \in Nat
      BY <3>1, WorkerLeaseAssumption DEF TypeOK, Row
    <3> QED
      BY <3>1, <3>3, <3>4 DEF Allow
  <2>2. AttInv /\ [Next]_vars => AttInv'
    BY <1>1, AttNext
  <2> QED
    BY <2>1, <2>2, AttInit, PTL DEF Spec
<1>2. CASE ~(MaxTickers <= 1)
  <2>1. AttemptsBounded
    BY <1>2 DEF AttemptsBounded
  <2> QED
    BY <2>1, PTL
<1> QED
  BY <1>1, <1>2

=============================================================================
