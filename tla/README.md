# Verification of lynox

TLA+ models of the parts of lynox in which several actors, processes and
failures meet: the runs that triggers start without anybody watching, the
questions they put to a human, the mails they want sent, the bulk changes they
make, the money they spend, and the helpers on whose behalf they act. Paths
below are relative to the repository's `src/`.

## The system

lynox is an engine process (TypeScript, Node's event loop, two SQLite files:
`history.db` and `engine.db`) that runs agents in chats and, unattended, from
*triggers*. What follows is the inventory the models are chosen from.

| Component | State | Operations | What is hard | What makes it correct |
|---|---|---|---|---|
| Prompt store `core/prompt-store.ts` | `pending_prompts` (history.db), one in-process waiter per row | insert, answer, partial answers, TTL sweep, boot/shutdown sweep, withdraw, close, detach, wait | answer, sweeps, timers, aborts and restarts settle the same row; some closes emit nothing | rows settle once; waiters are told what the row says; every wait ends; a parked question keeps its trigger |
| Trigger store `core/trigger-store.ts` | `triggers` (engine.db): schedule, status, `waiting_until`, lease columns | due list, claim/renew/release lease, end wait, waiting and expired lists, result | several processes on one file, crashes, stalled holders | one live run per trigger; a lost run is noticed and not repeated |
| Worker loop `core/worker-loop.ts` | `activeTasks`, timers, heartbeats | tick, run now, stop task, stop, record | lists read before they are used, fire-and-forget runs, teardown while runs wait | starts are accounted for; a shutdown is not an end of a wait; a stop sticks |
| Task manager `core/task-manager.ts` | none of its own | `recordTaskRun`, complete, reopen, enable | the outcome of a run must not overwrite a wait or an owner's word | schedule always moves on, status only where allowed |
| Webhook receiver and drain `server/webhook-receiver.ts`, `core/inbound-events.ts` | `inbound_events` | record, begin, finish, drop, report, tombstone | repeated deliveries, crashed runs, several drains | one run per body; every event that did not end well is told |
| Budget admission `core/session-budget.ts`, `core/cost-guard.ts` | in-flight reservation (memory), recorded spend (run history) | reserve, release, headroom, check, book | several runs admitted in one tick, costs booked only at a run's end, spenders that reserve nothing, crashes, midnight | reservations add up; runs that reserve pass the caps by less than one turn each |
| Approval queue `core/approval-store.ts`, `core/approval-executor.ts` | `approval_entries` | file, decide, claim, verify, send, finish, sweep | deadline against slow send against stale-claim sweep | a mail goes out at most once and only while the owner's yes stands |
| Bulk runs `core/bulk-ledger.ts`, `core/bulk-apply.ts` | `bulk_runs`, `bulk_targets` | plan, preview, judge, approve, claim, apply, halt, resume, roll back, undo | requests of unclear outcome, stale claims, a crash at any await, undos of undos | one writer per family; an external verb once per target; what is called gone is gone |
| Plan pause and takeover `core/plan-pause.ts`, `core/plan-takeover.ts`, `core/mandate-ends.ts` | marks and pause columns of `triggers` and `workflows`, `mandate_ends` | record a login, revoke, pause (sweep, login, gate, stop), take over | an access ends and comes back while its plan runs, asks or is being taken over | no turn for an access that came back before the owner's word; a takeover does what it showed |
| Run registry, HTTP API `core/run-registry.ts`, `server/http-api.ts` | live runs, SSE streams | start, stop, answer, shutdown | stop and answer race | a stopped run ends once |
| Others (agent and session, orchestrator, mail, inbox, OAuth, vault, backup, knowledge, tools, interfaces) | see `PROJECT.json` | | | |

The components meet as follows. The worker loop's tick reads the trigger store's
due list, takes leases and starts runs. A run of an agent that asks a question
inserts a row into the prompt store, parks its trigger and waits for the row.
The HTTP API answers rows, stops runs and closes rows. Recording a run goes
through the task manager into the trigger store. A run that may not send a mail
itself files it in the approval queue; one that would change many targets plans
a bulk run, which the owner approves and the worker loop writes. A run of a plan
that a mandate (a helper with an access that ends) set up or changed runs only
while that access lives, checked when it starts, before its turn, and by a sweep.
The two databases have no common transaction, and several engine processes may
have them open.

## Modules

**`PromptStore`**: the table and its waiters. One action per operation of the
class; a waiter re-reads its row in the step that settles it, because
`EventEmitter.emit` is synchronous. A row is `absent`, `pending`, `answered` or
`expired`; the reason of a close is kept because a property tells them apart.
`Evaluate` is the body of `waitForSettled`'s `check`: past the row's time it runs
the statement that expires every lapsed row, and tells only its own waiter.
`Shutdown` and `Boot` are the same sweep, with and without a process whose
waiters hear of it.

**`WorkerLease`**: processes, leases and the records of runs. `TickRead` takes
the due list, `Dispatch*`/`Skip` go through it later, which is what makes a list
stale when there are two loops. `Recorded` is `recordTaskRun` by trigger shape.
Time is a countdown, so it never ends: `dueIn` for `next_run_at`, `left` for
`lease_until`, and the flag `unsettled` for the comparison `next_run_at <=
lease_since` that tells a lost run from a finished one.

**`DurableWait`**: a trigger's run that asks, over restarts. It INSTANCEs
`PromptStore` on the same variables, so each of its actions is a write to the
trigger row together with one operation of the store. Where the code does two
writes without a transaction, the model does two steps (`Ask`/`Park`,
`Drain`/`Detach`/`Unpark`, `ReArm`/`ReArmDue`, `Sweep`/`SweepEnd`/`SweepRecord`)
and, within `MaxFaults`, either may fail or the process may die between them.
`MidWrite` and `Settled` keep a synchronous stretch of the event loop
uninterrupted by anything but a crash. A run that comes for an answer continues
in the thread that asked, or in a new one if that was deleted (`Load`); if the
deleted thread was contained and the new one cannot be, the answer is let go of
unread and the run fails (`LoadRefused`, `core/worker-loop.ts:2773`).

**`InboundEvents`**: webhook deliveries and their runs, over several processes on
one file. The receiver judges a delivery (`Judge`: is the key known, is the queue
full) and records it (`Record`) in two statements; the steps of other processes
fall between them. The drain is split where another process can change what it
read: `Visit` reads the oldest event and the lost ones, `TakeLease` takes the
lease, `Begin`/`BeginNothing` mark and start under it. A run ends by `Settle`
(the outcome is written) and then `Release`; either write may fail. `Idle`
keeps these stretches whole within their own process. An event is named by its
dedup key and an attempt by its process; `values` says that a mapped event has
its values. Leases have no clock here: one nobody renews lapses
(`LeaseLapses`), one that is renewed lapses only if its process stalls (`Stall`,
kept in `slow`). `DrainOpen` sweeps with every possible window start, in order
of arrival. A store error in the middle of a drain's turn, which gives the turn
up, is modelled only where the lease is taken.

**`ApprovalQueue`**: the store, the executor's attempt, the decide route and the
engine's two loops (execute and sweep), over several processes on one file. An
attempt is split at its awaits: `Claim`, `Verify`, `BeginSend`, the outcome; its
`Deadline` may fall anywhere in between, and a send it gives up on stays in
`adrift` and may still go out. Times are the stages of an entry's age (its
expiry, the stale limit, the dedup window, the retention time), reached by
`Age`. Payload, checksum, trail and thread note appear as the refusals they can
cause.

**`ApprovalConsent`**: what the queue promises, as the header of
`core/approval-store.ts` states it: a mail leaves only while the owner's yes
stands, at most once, and an entry shown as not sent has not left and never
will. `ApprovalQueue` implements it under `said <- Said(row)` (`KeepsConsent`):
`open` before the owner decided, `no` for what is shown as not sent, `yes` for
the rest, unclear outcomes included.

**`BulkRuns`**: one family of runs, an apply run and the undos of it and of each
other, on a local store, the same as an atomic run, or an external host. The
loop's steps end at its awaits (`Claim`, read, send, record); the process may die
between any two. `world` is what the targets hold and who put it there, `adrift`
the requests that outlived their loop. A 429 and its retry are one send, because
the refusal takes its mark back. `StartHalts` gathers the reasons a pass ends
before its first target (window, checksum, switch, a second writer, the trail).
An answer that leaves a send unclear fails its target, or halts the run where it
is about every target (`AnswerUnclear`).

**`BudgetAdmission`**: recorded spend of the day and the month, the reservation
kept in memory, and everybody who spends. The tick and the drain admit by
`projectionFits`; a run books its cost when it ends, on the day it started. Three
kinds of spender reserve nothing and only read what is recorded: a run started by
hand (`HandStart`, then `manual` and `manual_running`; it has its executor's own
limit, `limitOf`), a chat, and a bulk run's judge, whose trigger is admitted at
the estimate 0 and which books every call at its worst case before it is made
(`JudgeAllowed`, `JudgeBooks`, `JudgeSettles`; the row counts at once, the budget
is not asked again after the awaited gate). So the caps do not bound what is
spent in all: a run started by hand just below a cap passes it by up to its whole
limit. What the reservation gives is a bound for the runs that reserve, and
`SpendBounded` says that nobody else's spending loosens it. `bg`, `lost` and
`losses` remember what those runs really spent and what was never booked. Sums
over triggers are cardinalities (`Total`), so that what a step does to them
follows from the library's theorems about finite sets.

**`PlanPause`**: plans, the mandates whose marks they carry, their pause and the
owner's takeover. One workflow is shared by the plans that run one. A step ends
where another process can commit: the gate and the check before a turn each read
who is live first and the pause second (two steps), and the takeover clears
prompts (history.db) before its transaction (engine.db). The owner's preview is
merged into `takeOver`'s first part: it goes on only if nothing moved since. A
run may start although its plan is paused, because the due list is older than
the claim. `planOf` is the digest: what the owner was shown is compared whole in
the transaction. `question` is the plan's latest prompt; only agents ask. A sweep
is one step (`SweepUnder`), and no process stalls past its lease (`Commit`).

`MC*` modules add the symmetry sets, where there are any; `*Proofs` modules the theorems.

History variables: `starts` and `slow` in `WorkerLease`; `asked`, `delivered`,
`orphaned` and `halted` in `DurableWait`; `ran`, `told` and `slow` in
`InboundEvents`; `sent` in `ApprovalQueue`; `landed` in `BulkRuns`; `bg`, `lost`
and `losses` in `BudgetAdmission`; `renewed` and `question.old` in `PlanPause`.
No guard reads them, except that `slow` and `losses` bound the stalls and the
lost bookings.

Operators whose comment begins with MUTANT are wrong on purpose: each is a
plausible bug of the definition that follows it, and the property named with it
in `PROJECT.json` fails when it takes the definition's place.

## Runs

| Run | Instance | Shows |
|---|---|---|
| `store` | 2 prompts, 2 sessions, 1 trigger, 1 mandate, TTL 1, clock to 1, fair | rows settle once, waiters are told what the row says; every wait ends, every question closes, every unclaimed answer is detached, on the clock alone |
| `lease` | 2 processes one after the other (the first may drain on, stall or crash), 1 trigger of every shape and effect class, 1 failed record, fair | a run whose process never stalled holds its lease; with one loop at a time, starts of a one-shot are bounded by retries, lost records and stalls; an abandoned lease is settled |
| `wait` | 2 questions, 1 thread, a cron or a one-shot, 2 processes, one failed or torn write, fair | an open question has an audience, a shutdown keeps it, a stop sticks, an answer is handed out once per process and let go of unread only at its deadline or by the run that was refused its thread; the composition implements `PromptStore`; no trigger waits for ever |
| `run_now` | 1 question, no fault | finding 1 |
| `events_safety` | 2 bodies delivered any number of times, 1 trigger, 2 processes that overlap, stall or crash, 1 failed write at a run's end, a queue of 1 | a body runs once; two runs of a trigger only after a stall; a run is called lost only if it is, or its process stalled; the owner is told once; the queue exceeds its cap by less than the number of processes; events start in order |
| `events_live` | the same without stalls and failed writes, fair | what waits is run or dropped, what ended badly is told, a lost run is told while its trigger accepts events |
| `approvals_safety` | 2 entries, 2 processes, 2 mails of one family and a reply, 2 attempts, a send limit of 1, symmetry | the queue implements `ApprovalConsent`; a second mail of a family only after the owner let go of the first; the send limit holds |
| `approvals_live` | 1 entry, 2 processes, 3 attempts, fair | every filed entry ends |
| `bulk` | a run of 2 targets and its undo, every mode, one crash, resume or foreign change, fair | one writer per family; an external verb is carried out once per target; no more targets than allowed; an undo or rollback that calls itself complete is; a run does not stay open for ever |
| `half_atomic` | an atomic run of 2 targets | finding 2 |
| `plans` | 1 mandate, 2 plans on the workflow or one of them an agent's, 2 changes, 2 seconds, one run at a time, fair | no turn for a renewed access before the takeover; a takeover does what it showed, under no run, and lasts; no answer from before a takeover reaches a run; the run of a paused plan ends and its question closes |
| `budget` | 1 agent, 1 workflow, each started by the schedule or by hand, a chat, a judge, caps 2 and 3, 1 run whose cost is never booked | reservations add up to the grants of the runs under way; the runs that reserve pass a cap by less than one turn each, lost bookings aside, whatever the others spend |

Bounds. Two questions are what a session conflict, another reader's expiry, and
an answer that must not reach the next question need. Two processes are what a
restart, an overlap and a lost lease need; a third repeats the second. One
trigger is enough because no action reads the row of another one; the proofs
cover any number. A clock of one TTL beyond the insert lets a row lapse before
and after every other event. `LeaseTTL = 2` gives a heartbeat room to come in
time or not. Two bodies are what an order, a full queue and a wait behind a lost
run need. `events_live` leaves failed writes out for time: a lease that could
not be given up lapses like a lost process's. Two entries are what a duplicate
and a limit need, two targets what "some written, one failed" needs, and two runs
what an undo needs; an undo of an undo is the same step with the directions
swapped. In `plans`, one clock tick orders a mark before its pause, two changes
are one before the pause and one behind the owner's back, and a second plan on
the workflow is what a release needs. In `budget`, an agent and a workflow
granted 1 each fill the daily cap of 2 together, a turn of 2 passes either grant,
an agent started by hand has a limit of 2 where a reserving one is granted 1, and
a cap of 3 for the month is left with less than a day's on the second day; a
headroom below an agent's grant that is still worth a run, and more triggers, are
left to the proof and to an earlier instance without starts by hand and judges.
Larger instances were run once without
finding more: `lease` with a retry or with three processes, `bulk` with two
events and no liveness, `plans` with two mandates and no liveness.

Deadlock is checked in every run but those of `BulkRuns`, where a family all of
whose runs are over has nothing left to do. The type invariants are proved
and no run checks them; for `BulkRuns` the proofs use `Types`, its type invariant
without the bounds on the counters of failures.

## Fairness

`PromptStore`: the clock, each waiter's 30-second interval and the engine's
five-minute sweep; nothing of humans or runs. `WorkerLease`: the clock,
heartbeats, the one-minute tick, boot of a replacement, a stall that ends; the
dispatch of a due trigger is strongly fair because a tick may pass it over
(budget, a busy store) but not for ever. `DurableWait`: the clock, the tick's
parts, boot, the exit of a draining process, and the continuation of a stretch
of code that began. `Sweep` is strongly fair because a process may go down
between two ticks. `InboundEvents`: a tick's drain begins and goes on to its end,
a judged delivery is recorded, a run that ended gives its lease up, a replacement
boots, an unrenewed lease lapses. Reading a trigger's work and taking its lease
are strongly fair: the budget, a switched-off trigger or another process's lease
hold them up, but not for ever. No run is assumed to end and nobody to answer;
where a property needs that runs end (`EventLeaves`, `LostIsToldIfAccepting`),
`RunsEnd` is its antecedent. `ApprovalQueue`: time, the sweep's interval, the
deadline's timer, and the synchronous start of an attempt; nothing of the owner,
the mail server or the runs that file. `BulkRuns`: the worker starts a due
trigger, a loop goes on because each of its awaits ends by a timeout, and a claim
nobody renews grows stale. `PlanPause`: the five-minute sweep, and a run going on
from one check to the next; no run is assumed to finish, and nobody to answer, to
log in or to take over.

## Findings

1. `run_now`: after a restart, a parked trigger whose question has been answered
   can be started by hand before the tick re-arms it. That run consumes the
   answer, the row stays `waiting`, and the deadline sweep ends it as `failed`.
2. `half_atomic`: nothing in the ledger says that an atomic run is being rolled
   back. If the process dies in the rollback, the run is started again, finds
   nothing pending (failed and restored targets are skipped) and ends `done`
   with one target written and one failed, although the code says that it "must
   not stop half written".

Seen without a run of its own:

- `claimLease` re-reads the lease but not `next_run_at` or the status, and the
  tick works from a list it read earlier: two loops on one file can both run a
  one-shot, one after the other (`core/trigger-store.ts:1186` promises only that
  they cannot both win the lease). The search for an inductive invariant gave the
  counterexample, ten steps with three processes: a loop may start a one-shot from
  a list it read before the other loop ran it to its end. `AttemptsBounded` is
  therefore about one loop at a time, `MaxTickers <= 1`.
- When the owner ends a wait by setting the trigger's status, its open question
  stays attached. If the trigger then asks again and the old question is
  answered, `getAnsweredForTrigger` (`core/prompt-store.ts:856`, used by the
  re-arm at `core/worker-loop.ts:1322`) takes that answer for the new one's: the
  wait ends while its question is open, and a one-shot stopped meanwhile is
  started. The comment above the function allows for it ("should never ... is a
  claim about other code"). `StrayAnswer` names the case and `QuestionHasAudience`
  and `StopSticks` except it; the bounds of `wait` (one thread, two processes) do
  not reach it, the proof attempt did.
- If a run's result cannot be recorded, the lease is released all the same while
  the trigger is still due; the next tick starts the run over instead of finding
  it lost (`core/worker-loop.ts:2335`). `AttemptsBounded` counts such records.
- A running event whose process was lost is looked at only after the test
  whether its trigger accepts events (`core/worker-loop.ts:1725`), so once the
  trigger is switched off the owner is not told. `LostIsToldIfAccepting` says so.
- For a local bulk run `undoEligible` takes recorded targets only
  (`core/bulk-ledger.ts:952`): a write whose process died before recording it,
  in a run halted before it read that target again, survives the undo while the
  source is marked `undone`. `UndoneIsGone` excepts it.
- An executor checks that the mandate of an entry lives and begins the send
  after an await: an end that falls between the two does not stop the mail.
- A plan that was completed when its mandate's end passed, and is reopened by the
  owner after the extension, is not paused. A mark made after a plan's first
  pause, whose mandate then ends and is renewed, is left uncovered by a takeover;
  the owner is shown whom the plan will run as.
- The wait sweep's comment says a swept one-shot gets `next_run_at = NULL`, but
  with retries left it is rescheduled; a live run whose wait the sweep ended is
  recorded twice, which its comment admits.

## Proofs

Every invariant and every safety action property of the runs, and both
refinements, are theorems. They hold for every value of the constants that
satisfies the modules' assumptions: positive times, limits and prices, `Null`
outside the sets it is added to, finitely many triggers where sums are formed
(`BudgetAdmission`), at least one process (`DurableWait`). Sets of prompts,
entries, processes and plans need not be finite. Each inductive invariant was
model-checked before it was proved.

- `PromptStoreProofs`: `TypeCorrect`; `StoreSafe` (one pending question per
  session, waiters told what the row says, stale waiters only by the clock);
  `SettledFinal`. The three invariants are inductive together with the type
  invariant and `CardUnwatched`, nobody waits for an onboarding card: a new
  question supersedes a card without emitting, so without that fact a waiter
  could be left on a superseded row.
- `WorkerLeaseProofs`: `TypeCorrect`; `LeaseExcludes`, for any number of
  processes and triggers. The strengthening says that stalled processes are slow
  ones and that only processes that are up or draining have runs; then every
  claim of a lease is by a process that finds it not held, every release is by
  its holder, and the clock waits for the heartbeat of an awake process.
  `AttemptsAccountedFor` keeps, for each one-shot, an allowance: its retries, the
  failed writes, and the slow processes that can do nothing late to it any more
  (`Spent`). `AttInv` says that starts exceed the allowance by one at most, and
  reach that only while the occurrence is claimed and unsettled (`Taken`) or the
  schedule is done with it (`Ended`); that the list a tick still works through
  holds nothing that moved since, except by a slow process; and what a run that
  is about to release its lease has recorded.
- `DurableWaitProofs`: `ImplementsStore`, the refinement of `PromptStore` by the
  composition, from `RunInv`, a run in the phases that touch the store knows its
  prompt. `TypeCorrect`; `DeliveredOncePerProcessCorrect`;
  `AnswerNotThrownAwayCorrect` (with the refused run as its one exception,
  `Refused`); `ShutdownKeepsQuestionCorrect`;
  `QuestionHasAudienceCorrect`; `StopSticksCorrect`. What an operation of the
  store can do under a wait is stated once (`StoreOK`: rows settle, or are let go
  of when that is allowed). `ProcInv` ties runs and sweeps to the life of their
  process; `AskInv` says that a run's question is its own and that an answer it
  has drained was delivered; `DelivInv`, that as long as an answer may still be
  handed out (`ToDeliver`) a process or a failed write is left to account for it;
  `AudInv`, that a trigger no write failed on and no stray answer reaches has at
  most one question attached, the one its run or its row waits for; `HaltInv`,
  that a stopped one-shot has nothing attached and is not open, so that neither
  the clock nor an answer starts it.
- `InboundEventsProofs`: `TypeCorrect`; `RunsOnceCorrect`;
  `OneRunPerTriggerCorrect`; `UnknownOnlyIfLostCorrect`, for any number of bodies,
  triggers and processes. `IInv` adds to the type invariant what a row's state
  says of its starts (`EventsInv`), that a run's event belongs to its trigger and
  has started (`RunsInv`), what a drain knows of the trigger it works on
  (`DrainInv`), that a process at work on a trigger that never stalled holds its
  live lease (`LeaseInv`), and that an event read as lost has, once the lease is
  taken, no run in another process that never stalled (`LostInv`). The last is
  the point of the protocol: the lost rows are read before the lease is taken,
  and it is the outcome being written before the release that makes them safe to
  mark after it. Three more invariants stand on it. `ToldOnceCorrect`: what the
  owner was told of is marked as such in the row (`ToldInv`).
  `StartsInOrderCorrect`: what a drain read as the oldest stays the
  oldest for as long as it waits, because events are recorded behind it
  (`OrderInv`).
  `QueueBoundedCorrect`: the waiting events and the places promised to judged
  deliveries, together (`QueueInv`).
- `PlanPauseProofs`: `TypeCorrect`; `NoTurnForRenewedCorrect`;
  `TakeoverStandsCorrect`, for any number of mandates, plans and runs. A mark is
  renewed when a login extends its ended mandate. `IInv` says that as long as a
  plan still carries a renewed mark, its pause stands and names the mark's
  mandate (`RenewedHeld`), which is what `holds` reads when the owner takes the
  plan, or another plan on the workflow, over; that a run holds its plan's lease,
  so that no takeover ends a pause under it, and that the plan of a run with a
  renewed mark is paused (`RunsHeld`); and that marks are numbered as they are
  made, so that a new one is never a renewed one (`MarksOld`). Most steps only
  move rows further into their pause (`PauseOnly`), which keeps all three; the
  login, the changes and the takeover have lemmas of their own.
  `NoInheritedAnswerCorrect`: between the clearing of the prompts and the
  takeover's transaction, in another file, every plan the owner was shown is
  `Silent`, paused, with no question and no run past the gate, so none can ask a
  question that the transaction would carry over.
- `ApprovalQueueProofs`: `TypeCorrect`; `SecondMail`; `SendLimitHolds`;
  `KeepsItsPromise`, the refinement of `ApprovalConsent`. An entry has one chance
  to be sent and the chance is in one place: with the attempt that holds the
  claim, adrift, or used (`SoleAttempt`, `ChanceWithAttempt`, `ChanceOnce`). A row
  that can be claimed, or is closed as not sent, has its chance nowhere else
  (`UnspentUnsent`). Rows that refuse the same mail never stand side by side
  (`NoTwins`); the limit counts what it should (`LimitOK`, for which only finitely
  many entries are ever filed).
- `BulkRunsProofs`: `SingleWriter`; `CarriedOutAtMostOnce`; `WithinTheApproval`;
  `UndoComplete`; `RollbackComplete`, for any number of targets and of undos of
  undos. One run is open and only it has a loop (`OneOpen`, `LoopOpen`); what a
  target holds by a run, the run's row knows of (`Held`), so the target stays on
  the list of the rollback or of the undo until the value is gone; a request that
  may yet be carried out is counted as unclear (`ChanceOK`); and a loop that may
  still send has room below the owner's limit (`MaxOK`, `LoopOK`).
- `BudgetAdmissionProofs`: `TypeCorrect`; `ReservationExact`; `SpendNearCap`. The
  second needs the first, and an account of each period (`Account`): what
  the runs that reserve booked is part of what is recorded, and with what those
  under way may still cost, their grant and less than a turn each, it stays
  within the cap and the slack. A run started by hand is in neither part: it has
  no grant, and what it, a chat or a judge books only adds to what is recorded. Admission adds to it what `projectionFits` left room for;
  spending moves a cost within it; a midnight starts it anew with the runs that
  are admitted and have not begun. `TotalUpdate` and `TotalBound` say what one
  trigger's step, and a bound on every trigger, do to a sum.

Only model-checked, because fairness and ENABLED are out of TLAPS's reach:
`WaitEnds`, `PendingCloses`, `AnsweredPointerBounded`, `LostRunSettles`,
`TriggerWaitEnds`, `EventLeaves`, `EndIsTold`, `LostIsToldIfAccepting`,
`EntryEnds`, `OpenRunEnds` and `PausedComesToRest`. The abstract
specifications state no fairness, so the refinements are safety properties too.

## Not modelled

What the status column of `PROJECT.json` says; within the modelled parts:

- triggers: the consent gate in the due list, test runs by hand, deletion,
  notifications, the texts of questions and answers; in `DurableWait`, mandates'
  questions: an answer to one whose access ended before it was picked up is let
  go of unread, too (`core/worker-loop.ts:2720`), and `AnswerNotThrownAway` does
  not speak of it;
- bulk runs: the plan, preview, list and judge phases, rewriting of hosts and of
  recorded values, errors thrown by the database, a crash between the record of a
  pass and its re-arm, two live loops on one run (the lease excludes them as long
  as no process stalls);
- budget: session counters, the limits of spawned agents, several chats or judges
  at once, the judge's own cost cap; no bound on what runs started by hand, chats
  and judges spend, because the code has none but their own limits;
- plan pause: notices and advance warnings, missed one-shots, completed plans,
  hand starts by mandates, the workflow's own stamp, ends that cannot be proven,
  workflows that cannot be read, failed writes of a sweep. A sweep of the ended
  mandates is one step, while the code lists its candidates once, pauses each in
  its own transaction and closes questions after that
  (`core/plan-pause.ts:355`): another process's takeover in between, whose plan is
  then paused again, is left out. So is a process that stalls past its lease:
  "no run under way" in `TakeoverStands` is the lease, which lapses here only after
  its run is gone.

The rest of the repository (the agent's turn loop, model adapters, tools, the web
interface, mail and calendar protocols, cryptography) is conversation, I/O and
presentation, most of its lines: its outcomes are nondeterministic inputs of the
models.

## Plan

1. The composition of `PlanPause`'s question with `DurableWait`'s trigger row: a
   takeover that ends a wait.
2. Several worker loops in `WorkerLease`: what bounds the starts of a one-shot
   when lists are stale.
3. Candidates for new modules: OAuth token refresh, the run registry and its stop
   routes, the inbox drain, the workflow orchestrator's retries.
