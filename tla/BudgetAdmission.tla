---------------------------- MODULE BudgetAdmission ----------------------------
(***************************************************************************)
(* Who spends under the daily and the monthly cap:                         *)
(* src/src/core/session-budget.ts (recorded spend, reservation, headroom), *)
(* the admission in the worker's tick and drain and the run started by     *)
(* hand (src/src/core/worker-loop.ts), the ends of a run that book its     *)
(* cost (src/src/core/session.ts, run-history.ts) and the calls of a bulk  *)
(* run's judge (src/src/core/bulk-judge.ts).                               *)
(*                                                                         *)
(* A run's cost reaches the recorded spend only when the run ends, so the  *)
(* tick and the drain reserve what a run may spend before it starts and    *)
(* give it back once the cost is booked.  Three kinds of spender reserve   *)
(* nothing and only read the recorded spend: a run started by hand, a chat *)
(* and a judge, whose trigger is admitted at the estimate 0 and which      *)
(* books each call at its worst case first.  Amounts are whole units; a    *)
(* turn of an agent, or a step of a workflow, is booked before it is       *)
(* compared with the run's limit.  One chat and one judge's call are under *)
(* way at a time.  What the agents a run spawns spend on their own limits  *)
(* is not modelled.                                                        *)
(***************************************************************************)
EXTENDS Integers, FiniteSets, FiniteSetsExt

CONSTANTS
    Agents,               \* triggers that run an agent
    Workflows,            \* triggers that run a workflow
    DailyCap, MonthlyCap, \* the persistent caps
    WORKER_MAX_COST_USD,  \* the worst case of an agent run
    SessionCeiling,       \* the most a session may spend
    MIN_VIABLE_RUN_USD,   \* the least a run is started with
    MaxTurn,              \* the most one turn or step costs
    MaxChat,              \* the most one chat run costs
    MaxJudge,             \* the worst case of one call of a judge, at the most
    MaxLost               \* runs whose cost is never booked, crashes included

Tasks == Agents \cup Workflows

ASSUME BudgetAssumption ==
    /\ Agents \cap Workflows = {} /\ IsFiniteSet(Tasks)
    /\ {DailyCap, MonthlyCap, WORKER_MAX_COST_USD, SessionCeiling,
        MIN_VIABLE_RUN_USD, MaxTurn} \subseteq Nat \ {0}
    /\ {MaxChat, MaxJudge, MaxLost} \subseteq Nat

VARIABLES
    today, month,  \* recorded spend of this day and of this month
    reserved,      \* _reservedInFlightUSD, in the process's memory
    task,          \* the triggers, and the run of each
    chat,          \* when the chat run that is going on started
    call,          \* the judge's call, and the row of its worst case
    bg,            \* history: what runs that reserve really spent
    lost,          \* history: the part of it that was never booked
    losses         \* ... and how many runs that concerned

vars == <<today, month, reserved, task, chat, call, bg, lost, losses>>

\* When a run started, seen from now: its row is booked on that day.
Periods == {"today", "month", "past"}
Idle == [st |-> "idle", grant |-> 0, spent |-> 0, when |-> "today"]
NoCall == [st |-> "none", amount |-> 0, when |-> "today"]
Zero == [day |-> 0, month |-> 0]

Init ==
    /\ today = 0 /\ month = 0 /\ reserved = 0
    /\ task = [x \in Tasks |-> Idle]
    /\ chat = "none" /\ call = NoCall
    /\ bg = Zero /\ lost = Zero /\ losses = 0

\* What the tasks have together, counted unit by unit.
Total(amount) == Cardinality(UNION {{x} \X (1 .. amount[x]) : x \in Tasks})

\* What runs that reserve and started in these periods have spent and not booked
\* yet.
Unbooked(periods) ==
    [x \in Tasks |-> IF task[x].st = "running" /\ task[x].when \in periods
                     THEN task[x].spent ELSE 0]

AddTo(sum, amount, when) ==
    [day |-> sum.day + (IF when = "today" THEN amount ELSE 0),
     month |-> sum.month + (IF when # "past" THEN amount ELSE 0)]

-----------------------------------------------------------------------------
(* session-budget.ts                                                        *)

\* The runs' rows, and the judge's, which counts its worst case while it is out.
computeRecordedSpend == AddTo([day |-> today, month |-> month], call.amount, call.when)

checkPersistentBudget ==
    /\ computeRecordedSpend.day < DailyCap
    /\ computeRecordedSpend.month < MonthlyCap

\* MUTANT: the projection leaves out what other runs hold.
projectionFits_Recorded(amount) ==
    /\ computeRecordedSpend.day + amount <= DailyCap
    /\ computeRecordedSpend.month + amount <= MonthlyCap

projectionFits(amount) ==
    /\ computeRecordedSpend.day + reserved + amount <= DailyCap
    /\ computeRecordedSpend.month + reserved + amount <= MonthlyCap

persistentBudgetHeadroom ==
    Max({0, Min({DailyCap - computeRecordedSpend.day - reserved,
                 MonthlyCap - computeRecordedSpend.month - reserved})})

releasePersistentBudget(held, amount) == Max({0, held - amount})

-----------------------------------------------------------------------------
(* The tick and the drain.                                                  *)

BecomesDue(x) ==
    /\ task[x].st = "idle"
    /\ task' = [task EXCEPT ![x] = [Idle EXCEPT !.st = "due"]]
    /\ UNCHANGED <<today, month, reserved, chat, call, bg, lost, losses>>

\* An agent's limit is lowered to the headroom and its grant with it; a workflow
\* is bounded by the session's ceiling only, which is reserved whole.
grantOf(x) ==
    IF x \in Agents
    THEN Min({WORKER_MAX_COST_USD, persistentBudgetHeadroom, SessionCeiling})
    ELSE SessionCeiling

\* A trigger that is not admitted stays due.
Admits(x) ==
    /\ x \in Agents => grantOf(x) >= MIN_VIABLE_RUN_USD
    /\ projectionFits(grantOf(x))

Admit(x) ==
    /\ task[x].st = "due"
    /\ Admits(x)
    /\ task' = [task EXCEPT ![x].st = "admitted", ![x].grant = grantOf(x)]
    /\ reserved' = reserved + grantOf(x)
    /\ UNCHANGED <<today, month, chat, call, bg, lost, losses>>

\* MUTANT: the trigger is left without giving the reservation back.
LeaseRefused_Leak(x) ==
    /\ task[x].st \in {"due", "interrupted"}
    /\ Admits(x)
    /\ task' = [task EXCEPT ![x] = Idle]
    /\ reserved' = reserved + grantOf(x)
    /\ UNCHANGED <<today, month, chat, call, bg, lost, losses>>

\* Reserved, but the lease is held elsewhere (the trigger is read as due again by
\* the next tick), the run was lost and is reported instead of started again, or
\* the event to run is gone: given back at once.
LeaseRefused(x) ==
    /\ task[x].st \in {"due", "interrupted"}
    /\ Admits(x)
    /\ task' = [task EXCEPT ![x] = Idle]
    /\ reserved' = releasePersistentBudget(reserved + grantOf(x), grantOf(x))
    /\ UNCHANGED <<today, month, chat, call, bg, lost, losses>>

\* runTriggerNow, a lost run's trigger included: no admission, nothing reserved
\* and no grant, so that the run has its executor's own limit.
HandStart(x) ==
    /\ task[x].st \in {"idle", "due", "interrupted"}
    /\ task' = [task EXCEPT ![x] = [Idle EXCEPT !.st = "manual"]]
    /\ UNCHANGED <<today, month, reserved, chat, call, bg, lost, losses>>

-----------------------------------------------------------------------------
(* A run.                                                                   *)

Running == {"running", "manual_running"}

\* The session's own gate, and the run's row; a run the gate refuses ends.
Enter(x) ==
    /\ task[x].st \in {"admitted", "manual"}
    /\ task' = [task EXCEPT ![x].st = IF ~checkPersistentBudget THEN "ended"
                                      ELSE IF @ = "admitted" THEN "running"
                                      ELSE "manual_running"]
    /\ UNCHANGED <<today, month, reserved, chat, call, bg, lost, losses>>

\* What a run may spend: its grant, or the executor's constant where there is none.
limitOf(x) ==
    IF task[x].st = "running" THEN task[x].grant
    ELSE IF x \in Agents THEN WORKER_MAX_COST_USD
    ELSE SessionCeiling

\* CostGuard.recordTurn: booked in the run, then compared.
Spend(x, amount) ==
    /\ task[x].st \in Running
    /\ task[x].spent < limitOf(x)
    /\ task' = [task EXCEPT ![x].spent = @ + amount]
    /\ bg' = IF task[x].st = "running" THEN AddTo(bg, amount, task[x].when) ELSE bg
    /\ UNCHANGED <<today, month, reserved, chat, call, lost, losses>>

Ended(grant) == [Idle EXCEPT !.st = "ended", !.grant = grant]

\* updateRun, completed or failed: the cost counts from here on.
Book(x) ==
    /\ task[x].st \in Running
    /\ LET sum == AddTo([day |-> today, month |-> month], task[x].spent, task[x].when)
       IN  today' = sum.day /\ month' = sum.month
    /\ task' = [task EXCEPT ![x] = Ended(@.grant)]
    /\ UNCHANGED <<reserved, chat, call, bg, lost, losses>>

\* ... a write that is allowed to fail.
BookFails(x) ==
    /\ losses < MaxLost
    /\ task[x].st \in Running
    /\ task' = [task EXCEPT ![x] = Ended(@.grant)]
    /\ lost' = IF task[x].st = "running" THEN AddTo(lost, task[x].spent, task[x].when) ELSE lost
    /\ losses' = losses + 1
    /\ UNCHANGED <<today, month, reserved, chat, call, bg>>

\* The run has settled: its reservation is given back.
Settle(x) ==
    /\ task[x].st = "ended"
    /\ task' = [task EXCEPT ![x] = Idle]
    /\ reserved' = releasePersistentBudget(reserved, task[x].grant)
    /\ UNCHANGED <<today, month, chat, call, bg, lost, losses>>

ChatStarts ==
    /\ chat = "none" /\ checkPersistentBudget
    /\ chat' = "today"
    /\ UNCHANGED <<today, month, reserved, task, call, bg, lost, losses>>

ChatEnds(amount) ==
    /\ chat # "none"
    /\ LET sum == AddTo([day |-> today, month |-> month], amount, chat)
       IN  today' = sum.day /\ month' = sum.month
    /\ chat' = "none"
    /\ UNCHANGED <<reserved, task, call, bg, lost, losses>>

\* The judge asks for the budget; the gate is awaited before anything is booked.
JudgeAllowed ==
    /\ call.st = "none" /\ checkPersistentBudget
    /\ call' = [NoCall EXCEPT !.st = "allowed"]
    /\ UNCHANGED <<today, month, reserved, task, chat, bg, lost, losses>>

\* The gate refused, or the booking could not be written: the call is not made.
JudgeRefused ==
    /\ call.st = "allowed"
    /\ call' = NoCall
    /\ UNCHANGED <<today, month, reserved, task, chat, bg, lost, losses>>

\* recordBulkJudgeCost: the call's worst case, before the call is made.
JudgeBooks(worst) ==
    /\ call.st = "allowed"
    /\ call' = [st |-> "booked", amount |-> worst, when |-> "today"]
    /\ UNCHANGED <<today, month, reserved, task, chat, bg, lost, losses>>

\* settleBulkJudgeCost: the row keeps its day and holds what the call cost, or
\* its worst case where that is not known or cannot be written.
JudgeSettles(paid) ==
    /\ call.st = "booked"
    /\ LET sum == AddTo([day |-> today, month |-> month], paid, call.when)
       IN  today' = sum.day /\ month' = sum.month
    /\ call' = NoCall
    /\ UNCHANGED <<reserved, task, chat, bg, lost, losses>>

\* The process dies: what it reserved is forgotten, what its runs spent was not
\* booked, and their leases lapse.  A judge's row keeps its worst case.
Crash ==
    LET going == {x \in Tasks : task[x].st \in {"admitted", "manual", "ended"} \cup Running}
        open == {x \in Tasks : task[x].st \in Running}
    IN  /\ going # {} \/ chat # "none" \/ call.st # "none"
        /\ losses + Cardinality(open) <= MaxLost
        /\ losses' = losses + Cardinality(open)
        /\ lost' = [day |-> lost.day + Total(Unbooked({"today"})),
                    month |-> lost.month + Total(Unbooked({"today", "month"}))]
        /\ task' = [x \in Tasks |-> IF x \in going THEN [Idle EXCEPT !.st = "interrupted"]
                                    ELSE task[x]]
        /\ reserved' = 0
        /\ today' = computeRecordedSpend.day /\ month' = computeRecordedSpend.month
        /\ chat' = "none" /\ call' = NoCall
        /\ UNCHANGED bg

-----------------------------------------------------------------------------
(* The calendar.                                                            *)

Aged(when, newMonth) ==
    CASE newMonth /\ when # "none" -> "past"
      [] ~newMonth /\ when = "today" -> "month"
      [] OTHER -> when

AgedTask(r, newMonth) ==
    IF r.st \in Running THEN [r EXCEPT !.when = Aged(@, newMonth)] ELSE r

NewDay(newMonth) ==
    /\ today' = 0 /\ month' = IF newMonth THEN 0 ELSE month
    /\ bg' = [day |-> 0, month |-> IF newMonth THEN 0 ELSE bg.month]
    /\ lost' = [day |-> 0, month |-> IF newMonth THEN 0 ELSE lost.month]
    /\ task' = [x \in Tasks |-> AgedTask(task[x], newMonth)]
    /\ chat' = Aged(chat, newMonth)
    /\ call' = IF call.st = "booked" THEN [call EXCEPT !.when = Aged(@, newMonth)] ELSE call
    /\ UNCHANGED <<reserved, losses>>

Next ==
    \/ \E x \in Tasks :
        \/ BecomesDue(x) \/ Admit(x) \/ LeaseRefused(x) \/ HandStart(x)
        \/ Enter(x) \/ Book(x) \/ BookFails(x) \/ Settle(x)
        \/ \E amount \in 1 .. MaxTurn : Spend(x, amount)
    \/ ChatStarts \/ (\E amount \in 0 .. MaxChat : ChatEnds(amount))
    \/ JudgeAllowed \/ JudgeRefused
    \/ \E worst \in 1 .. MaxJudge : JudgeBooks(worst)
    \/ \E paid \in 0 .. call.amount : JudgeSettles(paid)
    \/ Crash
    \/ \E newMonth \in BOOLEAN : NewDay(newMonth)

Spec == Init /\ [][Next]_vars

-----------------------------------------------------------------------------
(* Properties.                                                              *)

Amounts == [day : Nat, month : Nat]

TypeOK ==
    /\ {today, month, reserved, losses} \subseteq Nat
    /\ task \in [Tasks -> [st : {"idle", "due", "admitted", "manual", "ended",
                                "interrupted"} \cup Running,
                          grant : Nat, spent : Nat, when : Periods]]
    /\ chat \in Periods \cup {"none"}
    /\ call \in [st : {"none", "allowed", "booked"}, amount : Nat, when : Periods]
    /\ bg \in Amounts /\ lost \in Amounts

\* What is reserved is exactly what the runs that are going on were granted: no
\* way out of the tick, the drain, a run or a lost process leaks a reservation
\* or gives one back twice.
ReservedIsGranted ==
    reserved = Total([x \in Tasks |-> task[x].grant])

\* The runs that reserve, those the schedule or an event starts, pass a cap by
\* less than one turn each, the turn that is booked before it is compared, and
\* what runs started by hand, chats and judges spend beside them, booked and not,
\* never makes it more.  Spend of theirs that was never booked comes on top.  What
\* the three others spend is not bounded by a cap: a run started by hand that
\* enters just below it has its whole limit.
SpendBounded ==
    /\ bg.day <= DailyCap + lost.day + Cardinality(Tasks) * (MaxTurn - 1)
    /\ bg.month <= MonthlyCap + lost.month + Cardinality(Tasks) * (MaxTurn - 1)

=============================================================================
