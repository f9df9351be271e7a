----------------------------- MODULE PlanPause -----------------------------
(***************************************************************************)
(* Plans that mandates (helpers with an access that ends) set up or        *)
(* changed: their pause when an access has ended, and the owner's          *)
(* takeover, the only way out of a pause (core/plan-pause.ts,              *)
(* core/plan-takeover.ts, core/mandate-ends.ts, and the gates of           *)
(* core/worker-loop.ts).                                                   *)
(*                                                                         *)
(* A plan is a trigger; a run_workflow plan also depends on the workflow,  *)
(* one here, which all such plans share.  Each side names at most one      *)
(* mandate: the mark of the last one that changed it, unless the owner     *)
(* took that mark over.  Several processes share the file, so every step   *)
(* ends where another process can commit.  An end that passes and a login  *)
(* that moves it are events; the clock is there to order marks and pauses, *)
(* which the code compares by the second.                                  *)
(***************************************************************************)
EXTENDS Naturals, FiniteSets

CONSTANTS Mandate,   \* grants
          Plan,      \* triggers
          Effects,   \* what the plans may do: run_agent or run_workflow each
          MaxEdits,  \* bound on the changes mandates make
          MaxTime,   \* bound on the clock
          MaxRuns    \* bound on the runs under way at once

ASSUME EffectsAssumption ==
    Effects \subseteq [Plan -> {"run_agent", "run_workflow"}]
ASSUME BoundsAssumption ==
    MaxEdits \in Nat /\ MaxTime \in Nat /\ MaxRuns \in Nat

VARIABLES now,      \* the database's clock, in seconds
          edits,    \* changes made so far: the contents a digest tells apart
          access,   \* mandate_ends: "live", "over" (end passed) or "revoked"
          wf,       \* the workflow's mark not taken over: {} or one mark
          plan,     \* the triggers' rows
          question, \* the latest prompt of a plan, and who it was asked for
          run,      \* the runs under way
          taking,   \* a takeover between its prompts and its transaction:
                    \* what its preview showed the owner
          renewed   \* history: marks in force on a plan when a login
                    \* extended their ended mandate

vars == <<now, edits, access, wf, plan, question, run, taking, renewed>>

Owner == "owner"
Mark == [by : Mandate, at : 0..MaxTime, n : 1..MaxEdits]
Row == [effect : {"run_agent", "run_workflow"}, own : SUBSET Mark,
        consent : BOOLEAN, paused : BOOLEAN, pausedAt : 0..MaxTime,
        pausedFor : SUBSET Mandate, lease : {"free", "held", "dead"}]
Run == [pc : {"idle", "members", "gate", "pickup", "turn", "check", "working"},
        marks : SUBSET Mark, ended : BOOLEAN, stop : BOOLEAN]
Question == [state : {"none", "pending", "answered"},
             by : Mandate \cup {Owner}, old : BOOLEAN]
NoQuestion == [state |-> "none", by |-> Owner, old |-> FALSE]
NoRun == [pc |-> "idle", marks |-> {}, ended |-> FALSE, stop |-> FALSE]
NoView == [id |-> "none"]

----------------------------------------------------------------------------
(* Members                                                                 *)

\* The marks a plan depends on: its own, and its workflow's.
rowPlanMembers(p) ==
    plan[p].own \cup IF plan[p].effect = "run_workflow" THEN wf ELSE {}

MandatesOf(marks) == {k.by : k \in marks}

HasEnded(marks, acc) == \E k \in marks : acc[k.by] # "live"

\* Whom a plan with these marks acts for: the latest, ties to the schedule.
ActsFor(own, side) ==
    IF own \cup side = {} THEN Owner
    ELSE LET a == IF own = {} THEN side ELSE own
             b == IF side = {} THEN own ELSE side
             latest == IF \E k \in b, j \in a : k.at > j.at THEN b ELSE a
         IN  (CHOOSE k \in latest : TRUE).by


----------------------------------------------------------------------------
(* The pause                                                               *)

\* The first pause keeps its time; whoever ended is added.
writePause(row, who) ==
    [row EXCEPT !.paused = TRUE,
                !.pausedAt = IF row.paused THEN @ ELSE now,
                !.pausedFor = @ \cup who]

\* One plan, if a member's end is proven under the ends given.
PausedUnder(p, ends) ==
    LET who == {m \in MandatesOf(rowPlanMembers(p)) : m \in ends}
    IN  IF plan[p].consent /\ who # {}
        THEN writePause(plan[p], who) ELSE plan[p]

EndedIn(acc) == {m \in Mandate : acc[m] # "live"}

pausePlanNow(p) == PausedUnder(p, EndedIn(access))

\* The plan of a run stopped for its access.
pauseForStop(p) == IF plan[p].paused THEN plan[p] ELSE pausePlanNow(p)

\* MUTANT of SweepUnder: a run whose member was made live again goes on.
SweepUnderLiveness(acc) ==
    /\ plan' = [p \in Plan |-> PausedUnder(p, EndedIn(acc))]
    /\ question' = [p \in Plan |->
            IF plan'[p].paused /\ question[p].state = "pending"
            THEN NoQuestion ELSE question[p]]
    /\ run' = [p \in Plan |->
            IF run[p].pc = "working" /\ HasEnded(run[p].marks, acc)
            THEN [run[p] EXCEPT !.stop = TRUE] ELSE run[p]]

\* endEndedMandateRuns: pause every plan with an ended member, close the
\* questions of paused plans, stop the runs of ended members and paused plans.
\* One step here.  The code lists its candidates with their marks once, pauses
\* each in its own transaction and closes the questions after that, in the other
\* database: another process's takeover can fall in between, and its plan is then
\* paused again on the marks that were listed, or a question of it closed: the
\* owner takes it over, or is asked, once more.
SweepUnder(acc) ==
    /\ plan' = [p \in Plan |-> PausedUnder(p, EndedIn(acc))]
    /\ question' = [p \in Plan |->
            IF plan'[p].paused /\ question[p].state = "pending"
            THEN NoQuestion ELSE question[p]]
    /\ run' = [p \in Plan |->
            IF run[p].pc = "working"
               /\ (HasEnded(run[p].marks, acc) \/ plan'[p].paused)
            THEN [run[p] EXCEPT !.stop = TRUE] ELSE run[p]]

----------------------------------------------------------------------------
(* Mandates                                                                *)

Tick ==
    /\ now < MaxTime
    /\ now' = now + 1
    /\ UNCHANGED <<edits, access, wf, plan, question, run, taking, renewed>>

\* The end recorded for the mandate passes; nothing is told.
EndPasses(m) ==
    /\ access[m] = "live"
    /\ access' = [access EXCEPT ![m] = "over"]
    /\ UNCHANGED <<now, edits, wf, plan, question, run, taking, renewed>>

\* MandateEnds.record: a login that moves an end that had passed pauses the
\* mandate's plans in its own transaction.
record(m) ==
    /\ access[m] = "over"
    /\ access' = [access EXCEPT ![m] = "live"]
    /\ plan' = [p \in Plan |-> PausedUnder(p, {m})]
    /\ renewed' = [p \in Plan |->
            IF plan[p].consent
            THEN renewed[p] \cup {k \in rowPlanMembers(p) : k.by = m}
            ELSE renewed[p]]
    /\ UNCHANGED <<now, edits, wf, question, run, taking>>

\* A revoke is final, and its listener sweeps at once.
revoke(m) ==
    /\ access[m] # "revoked"
    /\ access' = [access EXCEPT ![m] = "revoked"]
    /\ SweepUnder(access')
    /\ UNCHANGED <<now, edits, wf, taking, renewed>>

\* The five-minute sweep, the one at boot and the one after such a login.
endEndedMandateRuns ==
    /\ SweepUnder(access)
    /\ UNCHANGED <<now, edits, access, wf, taking, renewed>>

----------------------------------------------------------------------------
(* Changes to plans                                                        *)

NewMark(m) == [by |-> m, at |-> now, n |-> edits + 1]

\* A mandate's change takes the owner's consent off; a paused plan refuses it.
markEditedBy(p, m) ==
    /\ edits < MaxEdits
    /\ access[m] = "live"
    /\ ~plan[p].paused
    /\ edits' = edits + 1
    /\ plan' = [plan EXCEPT ![p].own = {NewMark(m)}, ![p].consent = FALSE]
    /\ UNCHANGED <<now, access, wf, question, run, taking, renewed>>

\* WorkflowStore.upsert by a mandate: its mark, not taken over.
EditWorkflow(m) ==
    /\ edits < MaxEdits
    /\ access[m] = "live"
    /\ edits' = edits + 1
    /\ wf' = {NewMark(m)}
    /\ UNCHANGED <<now, access, plan, question, run, taking, renewed>>

\* The owner confirms a schedule; a paused one refuses it.
confirmTrigger(p) ==
    /\ ~plan[p].consent /\ ~plan[p].paused
    /\ plan' = [plan EXCEPT ![p].consent = TRUE]
    /\ UNCHANGED <<now, edits, access, wf, question, run, taking, renewed>>

----------------------------------------------------------------------------
(* Runs                                                                    *)

\* A run starts: from a due list that was read before, so the plan may be
\* paused by now, or by hand.  Its row is read again.
executeTask(p) ==
    /\ plan[p].lease = "free" /\ plan[p].consent
    /\ question[p].state # "pending"
    /\ Cardinality({o \in Plan : run[o].pc # "idle"}) < MaxRuns
    /\ plan' = [plan EXCEPT ![p].lease = "held"]
    /\ run' = [run EXCEPT ![p] =
            [NoRun EXCEPT !.pc = "members", !.marks = plan[p].own]]
    /\ UNCHANGED <<now, edits, access, wf, question, taking, renewed>>

RunUnchanged == UNCHANGED <<now, edits, access, wf, taking, renewed>>

\* The run ends; its lease is given up, row is the plan as its record left it.
EndRun(p, row) ==
    /\ run' = [run EXCEPT ![p] = NoRun]
    /\ plan' = [plan EXCEPT ![p] = [row EXCEPT !.lease = "free"]]

\* The gate reads the workflow's mark, then who of the members is live...
ReadMembers(p) ==
    /\ run[p].pc = "members"
    /\ LET marks == run[p].marks \cup
                    IF plan[p].effect = "run_workflow" THEN wf ELSE {}
       IN  run' = [run EXCEPT ![p].pc = "gate", ![p].marks = marks,
                              ![p].ended = HasEnded(marks, access)]
    /\ UNCHANGED <<plan, question>>
    /\ RunUnchanged

\* ... and then, in this order, whether the plan is paused.
gatePause(p) ==
    /\ run[p].pc = "gate"
    /\ IF plan[p].paused THEN EndRun(p, plan[p])
       ELSE IF run[p].ended THEN EndRun(p, pausePlanNow(p))
       ELSE /\ run' = [run EXCEPT ![p].pc =
                    IF plan[p].effect = "run_agent" THEN "pickup" ELSE "turn"]
            /\ UNCHANGED plan
    /\ UNCHANGED question
    /\ RunUnchanged

\* An agent's run takes the answer an earlier run asked for, unless the
\* mandate it was asked for has ended meanwhile.
PickUp(p) ==
    /\ run[p].pc = "pickup"
    /\ IF question[p].state = "answered" /\ question[p].by # Owner
          /\ access[question[p].by] # "live"
       THEN EndRun(p, IF question[p].by \in MandatesOf(run[p].marks)
                      THEN pauseForStop(p) ELSE plan[p])
       ELSE /\ run' = [run EXCEPT ![p].pc = "turn"]
            /\ UNCHANGED plan
    /\ question' = [question EXCEPT ![p] =
            IF @.state = "answered" THEN NoQuestion ELSE @]
    /\ RunUnchanged

\* Right before a turn: who is live, and then whether the plan is paused.
TurnRead(p) ==
    /\ run[p].pc = "turn"
    /\ run' = [run EXCEPT ![p].pc = "check",
                          ![p].ended = HasEnded(run[p].marks, access)]
    /\ UNCHANGED <<plan, question>>
    /\ RunUnchanged

stopIfStarterEnded(p) ==
    /\ run[p].pc = "check"
    /\ IF run[p].ended \/ plan[p].paused
       THEN EndRun(p, pauseForStop(p))
       ELSE /\ run' = [run EXCEPT ![p].pc = "working"]
            /\ UNCHANGED plan
    /\ UNCHANGED question
    /\ RunUnchanged

\* A working agent asks, on behalf of whom its plan acts for.
Ask(p) ==
    /\ run[p].pc = "working" /\ plan[p].effect = "run_agent"
    /\ question[p].state = "none"
    /\ question' = [question EXCEPT ![p] =
            [NoQuestion EXCEPT !.state = "pending",
                               !.by = ActsFor(run[p].marks, {})]]
    /\ UNCHANGED <<plan, run>>
    /\ RunUnchanged

\* A live run takes the answer itself and detaches it; else it stays.
Answer(p) ==
    /\ question[p].state = "pending"
    /\ question' = [question EXCEPT ![p] =
            IF run[p].pc = "working" THEN NoQuestion
            ELSE [@ EXCEPT !.state = "answered"]]
    /\ UNCHANGED <<plan, run>>
    /\ RunUnchanged

Finish(p) ==
    /\ run[p].pc = "working"
    /\ EndRun(p, plan[p])
    /\ question' = [question EXCEPT ![p] = NoQuestion]
    /\ RunUnchanged

\* A run told to stop, or whose workflow's next step finds a member ended,
\* ends as stopped: its question is drained, and its plan pauses if it is not.
EndStopped(p) ==
    /\ run[p].pc = "working"
    /\ \/ run[p].stop
       \/ plan[p].effect = "run_workflow" /\ HasEnded(run[p].marks, access)
    /\ EndRun(p, pauseForStop(p))
    /\ question' = [question EXCEPT ![p] = NoQuestion]
    /\ RunUnchanged

\* The process goes down: a crash leaves the lease to lapse, a shutdown gives
\* it up; either leaves the question for the next process.
Gone(p) ==
    /\ run[p].pc # "idle"
    /\ run' = [run EXCEPT ![p] = NoRun]
    /\ \E lease \in {"dead", "free"} : plan' = [plan EXCEPT ![p].lease = lease]
    /\ UNCHANGED question
    /\ RunUnchanged

LeaseLapses(p) ==
    /\ plan[p].lease = "dead"
    /\ plan' = [plan EXCEPT ![p].lease = "free"]
    /\ UNCHANGED <<question, run>>
    /\ RunUnchanged

----------------------------------------------------------------------------
(* The takeover                                                            *)

\* MUTANT of holds: a renewed mandate's mark is taken for a new one.
HoldsIfEnded(k, row) == access[k.by] # "live"

\* Whether a mark still holds a plan in the sense of its pause.
holds(k, row) ==
    \/ access[k.by] # "live"
    \/ k.by \in row.pausedFor /\ k.at < row.pausedAt

coverWorkflow(p) ==
    /\ plan[p].effect = "run_workflow"
    /\ \E k \in wf : holds(k, plan[p])

\* The other plans on the workflow whose members its cover changes.
memberChanges(p) ==
    IF ~coverWorkflow(p) THEN {}
    ELSE {o \in Plan \ {p} : plan[o].effect = "run_workflow"
                             /\ MandatesOf(plan[o].own)
                                # MandatesOf(plan[o].own \cup wf)}

\* Those of them the takeover releases: paused, and nobody left to hold them.
released(p) ==
    {o \in memberChanges(p) : plan[o].paused
                              /\ ~\E k \in plan[o].own : holds(k, plan[o])}

\* Not refused: paused, and no run of it or of a released plan.
Takeable(p) ==
    /\ plan[p].paused
    /\ \A o \in {p} \cup released(p) : plan[o].lease = "free"

\* What the owner is shown, bound by its digest, and what is decided from it.
planOf(p) ==
    [id |-> p, own |-> plan[p].own, wf |-> wf,
     paused |-> <<plan[p].pausedAt, plan[p].pausedFor>>,
     cover |-> coverWorkflow(p),
     changes |-> {<<o, ActsFor(plan[o].own, wf), ActsFor(plan[o].own, {})>> :
                  o \in memberChanges(p)},
     released |-> {<<o, plan[o].pausedFor>> : o \in released(p)}]

\* MUTANT of clearPrompts: answered questions keep their plan.
ClearPending(ps) ==
    question' = [p \in Plan |->
        IF p \in ps /\ question[p].state = "pending" THEN NoQuestion
        ELSE question[p]]

\* Open questions are closed, answered ones detached.
clearPrompts(ps) ==
    question' = [p \in Plan |-> IF p \in ps THEN NoQuestion ELSE question[p]]

\* takeOver, first part.  It goes on only if nothing has moved since the
\* preview, so the owner might as well have been shown it now.  The prompts,
\* in another file, are cleared before the transaction.
takeOver(p) ==
    /\ taking = NoView
    /\ Takeable(p)
    /\ clearPrompts({p} \cup released(p))
    /\ taking' = planOf(p)
    /\ UNCHANGED <<now, edits, access, wf, plan, run, renewed>>

release(row) == [row EXCEPT !.paused = FALSE, !.pausedAt = 0, !.pausedFor = {}]

\* MUTANT of StillAsShown: the transaction trusts the read before the prompts.
ShownBefore(p) == Takeable(p)

\* The transaction reads the plan again; it covers, releases and stamps, or
\* refuses: what was shown has moved, or the audit row cannot be written.
StillAsShown(p) == Takeable(p) /\ planOf(p) = taking

Covered(p) ==
    LET freed == {p} \cup released(p) IN
    /\ plan' = [o \in Plan |->
            IF o = p
            THEN [release(plan[p]) EXCEPT !.own = {}, !.consent = TRUE]
            ELSE IF o \in freed THEN release(plan[o]) ELSE plan[o]]
    /\ wf' = IF coverWorkflow(p) THEN {} ELSE wf
    /\ question' = [o \in Plan |->
            IF o \in freed /\ question[o].state # "none"
            THEN [question[o] EXCEPT !.old = TRUE] ELSE question[o]]
    /\ renewed' = [o \in Plan |->
            IF o \in freed
            THEN {k \in renewed[o] : k.at < plan[o].pausedAt} ELSE renewed[o]]

\* The transaction of the takeover.  "No run of the plan is under way" is its lease:
\* a lease lapses here only after its run is gone, so no process is stalled past
\* the end of its lease (WorkerLease and InboundEvents have that case).
Commit ==
    /\ taking # NoView
    /\ \/ StillAsShown(taking.id) /\ Covered(taking.id)
       \/ UNCHANGED <<plan, wf, question, renewed>>
    /\ taking' = NoView
    /\ UNCHANGED <<now, edits, access, run>>

----------------------------------------------------------------------------
Init ==
    /\ now = 0 /\ edits = 0
    /\ access = [m \in Mandate |-> "live"]
    /\ wf = {}
    /\ \E effect \in Effects :
        plan = [p \in Plan |->
                [effect |-> effect[p], own |-> {}, consent |-> TRUE,
                 paused |-> FALSE, pausedAt |-> 0, pausedFor |-> {},
                 lease |-> "free"]]
    /\ question = [p \in Plan |-> NoQuestion]
    /\ run = [p \in Plan |-> NoRun]
    /\ taking = NoView
    /\ renewed = [p \in Plan |-> {}]

RunStep(p) ==
    \/ ReadMembers(p) \/ gatePause(p) \/ PickUp(p)
    \/ TurnRead(p) \/ stopIfStarterEnded(p) \/ EndStopped(p)

Next ==
    \/ Tick \/ endEndedMandateRuns \/ Commit
    \/ \E m \in Mandate :
        EndPasses(m) \/ record(m) \/ revoke(m) \/ EditWorkflow(m)
    \/ \E p \in Plan, m \in Mandate : markEditedBy(p, m)
    \/ \E p \in Plan :
        \/ confirmTrigger(p) \/ executeTask(p) \/ RunStep(p)
        \/ Ask(p) \/ Answer(p) \/ Finish(p) \/ Gone(p) \/ LeaseLapses(p)
        \/ takeOver(p)

Spec == Init /\ [][Next]_vars

\* The sweep's timer runs, and a run goes on from one check to the next; no
\* run is assumed to finish and nobody to answer or to take over.
Fairness ==
    /\ WF_vars(endEndedMandateRuns)
    /\ \A p \in Plan : WF_vars(RunStep(p))

FairSpec == Spec /\ Fairness

----------------------------------------------------------------------------
(* Properties                                                              *)

TypeOK ==
    /\ now \in 0..MaxTime /\ edits \in 0..MaxEdits
    /\ access \in [Mandate -> {"live", "over", "revoked"}]
    /\ wf \in SUBSET Mark
    /\ plan \in [Plan -> Row]
    /\ question \in [Plan -> Question]
    /\ run \in [Plan -> Run]
    /\ taking # NoView => taking.id \in Plan
    /\ renewed \in [Plan -> SUBSET Mark]

\* No turn begins for a mandate whose access had ended and was extended by a
\* login, on a mark from before that end, until the owner took the plan over:
\* whatever the order of the login, the sweep, the gate, the check before the
\* turn, and takeovers of other plans on the workflow.  (A mark made in the
\* second of the pause or later counts as a new change: holds.)
NoTurnForRenewed ==
    [][\A p \in Plan : (run[p].pc = "check" /\ run'[p].pc = "working")
                        => run[p].marks \cap renewed[p] = {}]_vars

\* A takeover does what it showed and lasts: a plan leaves its pause only by a
\* transaction that covers no mark the owner was not shown, while no run of it
\* is under way, and with no member left whose access has ended, which would
\* pause it again.
TakeoverStands ==
    [][\A p \in Plan : (plan[p].paused /\ ~plan'[p].paused)
        => /\ run[p].pc = "idle"
           /\ ~HasEnded(rowPlanMembers(p)', access)
           /\ wf \ wf' \subseteq taking.wf
           /\ taking.id = p => plan[p].own \subseteq taking.own]_vars

\* No answer to a question from before a takeover reaches a run after it.
NoInheritedAnswer ==
    [][\A p \in Plan : (run[p].pc = "pickup" /\ run'[p].pc = "turn")
                        => ~question[p].old]_vars

\* The run of a paused plan ends, and its question is closed, though a login
\* has made its member live again.
PausedComesToRest ==
    \A p \in Plan : plan[p].paused
        ~> \/ ~plan[p].paused
           \/ run[p].pc = "idle" /\ question[p].state # "pending"
============================================================================
