-------------------------- MODULE PlanPauseProofs --------------------------
(***************************************************************************)
(* What PlanPause keeps for any number of mandates, plans and runs: no     *)
(* turn for a renewed mandate before the owner's takeover, takeovers that  *)
(* do what they showed and last, and no answer from before a takeover.     *)
(***************************************************************************)
EXTENDS PlanPause, TLAPS

\* Every mark, in force or renewed, has been made: the next one is new.
MarksOld ==
    /\ \A k \in wf : k.n <= edits
    /\ \A p \in Plan : \A k \in plan[p].own \cup renewed[p] : k.n <= edits

\* As long as a plan still carries a mark that was renewed, its pause stands
\* and names the mark's mandate: that is what the takeover's rule reads.
RenewedHeld ==
    \A p \in Plan : \A k \in renewed[p] \cap rowPlanMembers(p) :
        plan[p].paused /\ k.by \in plan[p].pausedFor

\* A run holds its lease, so its plan cannot leave a pause under it; and the
\* plan of a run that carries a renewed mark is paused.
RunsHeld ==
    \A p \in Plan : run[p].pc # "idle" =>
        /\ plan[p].lease = "held"
        /\ run[p].marks \cap renewed[p] # {} => plan[p].paused

IInv == TypeOK /\ MarksOld /\ RenewedHeld /\ RunsHeld

----------------------------------------------------------------------------
\* What a pause does to a row: it only adds to the pause, and every mark of an
\* ended mandate on a plan consent lets through is in it.
LEMMA PausedUnderFacts ==
    ASSUME TypeOK, NEW p \in Plan, NEW ends \in SUBSET Mandate
    PROVE  /\ PausedUnder(p, ends) \in Row
           /\ PausedUnder(p, ends).own = plan[p].own
           /\ PausedUnder(p, ends).effect = plan[p].effect
           /\ PausedUnder(p, ends).consent = plan[p].consent
           /\ PausedUnder(p, ends).lease = plan[p].lease
           /\ plan[p].paused => PausedUnder(p, ends).paused
           /\ plan[p].pausedFor \subseteq PausedUnder(p, ends).pausedFor
           /\ \A k \in rowPlanMembers(p) :
                (plan[p].consent /\ k.by \in ends) =>
                    /\ PausedUnder(p, ends).paused
                    /\ k.by \in PausedUnder(p, ends).pausedFor
<1> DEFINE who == {m \in MandatesOf(rowPlanMembers(p)) : m \in ends}
<1>1. plan[p] \in Row /\ now \in 0..MaxTime /\ who \in SUBSET Mandate
  BY DEF TypeOK
<1>2. \A k \in rowPlanMembers(p) : k.by \in ends => k.by \in who
  BY DEF MandatesOf
<1>3. PausedUnder(p, ends) = IF plan[p].consent /\ who # {}
                            THEN writePause(plan[p], who) ELSE plan[p]
  BY DEF PausedUnder
<1> HIDE DEF who
<1>4. /\ writePause(plan[p], who) \in Row
      /\ writePause(plan[p], who).own = plan[p].own
      /\ writePause(plan[p], who).effect = plan[p].effect
      /\ writePause(plan[p], who).consent = plan[p].consent
      /\ writePause(plan[p], who).lease = plan[p].lease
      /\ writePause(plan[p], who).paused
      /\ writePause(plan[p], who).pausedFor = plan[p].pausedFor \cup who
  BY <1>1 DEF writePause, Row
<1> QED
  BY <1>1, <1>2, <1>3, <1>4

\* The members of a plan are marks.
LEMMA MembersMarks ==
    ASSUME TypeOK, NEW p \in Plan
    PROVE  rowPlanMembers(p) \in SUBSET Mark
  BY DEF TypeOK, Row, rowPlanMembers

\* Whom marks act for is a mandate or the owner.
LEMMA ActsForType ==
    ASSUME NEW own \in SUBSET Mark
    PROVE  ActsFor(own, {}) \in Mandate \cup {Owner}
<1>1. CASE own = {}
  BY <1>1 DEF ActsFor
<1>2. CASE own # {}
  <2>1. ActsFor(own, {}) = (CHOOSE k \in own : TRUE).by
    BY <1>2 DEF ActsFor
  <2>2. (CHOOSE k \in own : TRUE) \in own
    BY <1>2
  <2> QED
    BY <2>1, <2>2 DEF Mark
<1> QED
  BY <1>1, <1>2

----------------------------------------------------------------------------
\* At boot no mark is in force, no plan paused and no run under way.
THEOREM InitIInv == Init => IInv
<1> SUFFICES ASSUME Init PROVE IInv
  OBVIOUS
<1>1. PICK effect \in Effects :
        plan = [p \in Plan |->
                [effect |-> effect[p], own |-> {}, consent |-> TRUE,
                 paused |-> FALSE, pausedAt |-> 0, pausedFor |-> {},
                 lease |-> "free"]]
  BY DEF Init
<1>2. plan \in [Plan -> Row]
  BY <1>1, EffectsAssumption, BoundsAssumption DEF Row
<1>3. TypeOK
  BY <1>2, BoundsAssumption
     DEF Init, TypeOK, NoQuestion, Question, NoRun, Run, Owner, Mark
<1> QED
  BY <1>3 DEF Init, IInv, MarksOld, RenewedHeld, RunsHeld, NoRun

----------------------------------------------------------------------------
(* One step                                                                *)

\* A step that makes no mark, renews none and takes none over: rows only move
\* further into their pause, and a run only takes up marks its plan has.
PauseOnly ==
    /\ UNCHANGED <<wf, renewed, edits>>
    /\ \A p \in Plan :
        /\ plan'[p].own = plan[p].own
        /\ plan'[p].effect = plan[p].effect
        /\ plan[p].paused => plan'[p].paused
        /\ plan[p].pausedFor \subseteq plan'[p].pausedFor
        /\ run'[p].pc # "idle" =>
            /\ plan'[p].lease = "held"
            /\ \A k \in run'[p].marks :
                \/ k \in rowPlanMembers(p)
                \/ run[p].pc # "idle" /\ k \in run[p].marks

\* Such a step keeps what the theorems rest on.
LEMMA PauseOnlyKeeps ==
    ASSUME IInv, PauseOnly
    PROVE  MarksOld' /\ RenewedHeld' /\ RunsHeld'
<1>1. MarksOld'
  BY DEF IInv, PauseOnly, MarksOld
<1>2. ASSUME NEW p \in Plan
      PROVE  rowPlanMembers(p)' = rowPlanMembers(p)
  BY DEF PauseOnly, rowPlanMembers
<1>3. RenewedHeld'
  BY <1>2 DEF IInv, PauseOnly, RenewedHeld
<1>4. RunsHeld'
  BY DEF IInv, PauseOnly, RunsHeld, RenewedHeld
<1> QED
  BY <1>1, <1>3, <1>4

\* A row that a run's end leaves, paused or not, only moves into its pause.
LEMMA PauseForStopFacts ==
    ASSUME TypeOK, NEW p \in Plan
    PROVE  /\ pausePlanNow(p) \in Row
           /\ pausePlanNow(p).own = plan[p].own
           /\ pausePlanNow(p).effect = plan[p].effect
           /\ plan[p].paused => pausePlanNow(p).paused
           /\ plan[p].pausedFor \subseteq pausePlanNow(p).pausedFor
           /\ pauseForStop(p) \in {plan[p], pausePlanNow(p)}
<1>1. EndedIn(access) \in SUBSET Mandate
  BY DEF EndedIn
<1>2. pauseForStop(p) \in {plan[p], pausePlanNow(p)}
  BY DEF pauseForStop
<1> QED
  BY <1>1, <1>2, PausedUnderFacts DEF pausePlanNow

\* A run that ends leaves such a row and no run.
LEMMA EndRunFacts ==
    ASSUME TypeOK, NEW p \in Plan, NEW row \in {plan[p], pausePlanNow(p)},
           EndRun(p, row)
    PROVE  /\ plan' \in [Plan -> Row] /\ run' \in [Plan -> Run]
           /\ \A o \in Plan :
                /\ plan'[o].own = plan[o].own
                /\ plan'[o].effect = plan[o].effect
                /\ plan[o].paused => plan'[o].paused
                /\ plan[o].pausedFor \subseteq plan'[o].pausedFor
                /\ o = p => run'[o].pc = "idle"
                /\ o # p => run'[o] = run[o] /\ plan'[o] = plan[o]
<1> DEFINE new == [row EXCEPT !.lease = "free"]
<1>1. plan[p] \in Row
  BY DEF TypeOK
<1>2. /\ row \in Row /\ row.own = plan[p].own /\ row.effect = plan[p].effect
      /\ plan[p].paused => row.paused
      /\ plan[p].pausedFor \subseteq row.pausedFor
  BY <1>1, PauseForStopFacts
<1>3. /\ new \in Row /\ new.own = row.own /\ new.effect = row.effect
      /\ new.paused = row.paused /\ new.pausedFor = row.pausedFor
  BY <1>2 DEF Row
<1>4. plan' = [plan EXCEPT ![p] = new] /\ run' = [run EXCEPT ![p] = NoRun]
  BY DEF EndRun
<1>5. NoRun \in Run /\ NoRun.pc = "idle"
  BY DEF NoRun, Run
<1> HIDE DEF new
<1> QED
  BY <1>2, <1>3, <1>4, <1>5 DEF TypeOK

\* The sweep, under any ends.
LEMMA SweepKeeps ==
    ASSUME IInv, NEW acc, SweepUnder(acc), UNCHANGED <<wf, renewed, edits>>
    PROVE  /\ PauseOnly
           /\ plan' \in [Plan -> Row] /\ run' \in [Plan -> Run]
           /\ question' \in [Plan -> Question]
<1>1. EndedIn(acc) \in SUBSET Mandate /\ TypeOK
  BY DEF EndedIn, IInv
<1>2. plan' = [p \in Plan |-> PausedUnder(p, EndedIn(acc))]
  BY DEF SweepUnder
<1>3. run' \in [Plan -> Run] /\ \A p \in Plan : run'[p].pc = run[p].pc
                                              /\ run'[p].marks = run[p].marks
  <2>1. ASSUME NEW p \in Plan
        PROVE  /\ [run[p] EXCEPT !.stop = TRUE] \in Run
               /\ [run[p] EXCEPT !.stop = TRUE].pc = run[p].pc
               /\ [run[p] EXCEPT !.stop = TRUE].marks = run[p].marks
    BY <1>1 DEF TypeOK, Run
  <2> QED
    BY <1>1, <2>1 DEF SweepUnder, TypeOK
<1>4. \A p \in Plan : /\ plan'[p] \in Row
                      /\ plan'[p].own = plan[p].own
                      /\ plan'[p].effect = plan[p].effect
                      /\ plan'[p].lease = plan[p].lease
                      /\ plan[p].paused => plan'[p].paused
                      /\ plan[p].pausedFor \subseteq plan'[p].pausedFor
  BY <1>1, <1>2, PausedUnderFacts
<1>5. question' \in [Plan -> Question]
  BY <1>1 DEF SweepUnder, TypeOK, NoQuestion, Question
<1>6. PauseOnly
  BY <1>3, <1>4 DEF PauseOnly, IInv, RunsHeld
<1> QED
  BY <1>2, <1>3, <1>4, <1>5, <1>6

\* A login pauses every plan whose mark it renews.
LEMMA RecordKeeps ==
    ASSUME IInv, NEW m \in Mandate, record(m)
    PROVE  IInv'
<1>1. TypeOK /\ {m} \in SUBSET Mandate
  BY DEF IInv
<1>2. plan' = [p \in Plan |-> PausedUnder(p, {m})]
  BY DEF record
<1>3. \A p \in Plan : /\ plan'[p] \in Row
                      /\ plan'[p].own = plan[p].own
                      /\ plan'[p].effect = plan[p].effect
                      /\ plan'[p].lease = plan[p].lease
                      /\ plan[p].paused => plan'[p].paused
                      /\ plan[p].pausedFor \subseteq plan'[p].pausedFor
                      /\ \A k \in rowPlanMembers(p) :
                            (plan[p].consent /\ k.by = m) =>
                                plan'[p].paused /\ k.by \in plan'[p].pausedFor
  BY <1>1, <1>2, PausedUnderFacts
<1>4. ASSUME NEW p \in Plan
      PROVE  /\ rowPlanMembers(p)' = rowPlanMembers(p)
             /\ renewed'[p] \in SUBSET Mark
             /\ \A k \in renewed'[p] :
                  \/ k \in renewed[p]
                  \/ plan[p].consent /\ k \in rowPlanMembers(p) /\ k.by = m
  <2>1. rowPlanMembers(p)' = rowPlanMembers(p)
    BY <1>3 DEF record, rowPlanMembers
  <2> QED
    BY <1>1, <2>1, MembersMarks DEF record, TypeOK
<1>5. TypeOK'
  <2>1. access' \in [Mandate -> {"live", "over", "revoked"}]
    BY <1>1 DEF record, TypeOK
  <2>2. renewed' \in [Plan -> SUBSET Mark]
    BY <1>4 DEF record
  <2> QED
    BY <1>1, <1>2, <1>3, <2>1, <2>2 DEF record, TypeOK
<1>6. MarksOld'
  <2>1. ASSUME NEW p \in Plan, NEW k \in rowPlanMembers(p)
        PROVE  k.n <= edits
    BY DEF IInv, MarksOld, rowPlanMembers
  <2> QED
    BY <1>3, <1>4, <2>1 DEF IInv, record, MarksOld
<1>7. RenewedHeld'
  BY <1>3, <1>4 DEF IInv, RenewedHeld
<1>8. RunsHeld'
  BY <1>3, <1>4 DEF IInv, record, RunsHeld
<1> QED
  BY <1>5, <1>6, <1>7, <1>8 DEF IInv

\* A mandate's change replaces a mark by a new one; a paused plan refuses it.
LEMMA MarkEditedByKeeps ==
    ASSUME IInv, NEW q \in Plan, NEW m \in Mandate, markEditedBy(q, m)
    PROVE  IInv'
<1>1. TypeOK
  BY DEF IInv
<1>2. NewMark(m) \in Mark /\ NewMark(m).n = edits + 1
  BY <1>1, BoundsAssumption DEF NewMark, Mark, TypeOK, markEditedBy
<1>3. edits \in Nat /\ edits' = edits + 1 /\ edits' \in 0..MaxEdits
  BY <1>1, BoundsAssumption DEF TypeOK, markEditedBy
<1>4. \A p \in Plan : /\ plan'[p] \in Row
                      /\ plan'[p].effect = plan[p].effect
                      /\ plan'[p].lease = plan[p].lease
                      /\ plan'[p].paused = plan[p].paused
                      /\ plan'[p].pausedFor = plan[p].pausedFor
                      /\ p # q => plan'[p].own = plan[p].own
                      /\ p = q => plan'[p].own = {NewMark(m)}
  <2>1. ASSUME NEW p \in Plan
        PROVE  plan[p] \in Row
    BY <1>1 DEF TypeOK
  <2>2. plan' = [plan EXCEPT ![q] = [plan[q] EXCEPT !.own = {NewMark(m)},
                                                    !.consent = FALSE]]
    BY <1>1 DEF markEditedBy, TypeOK
  <2>3. /\ [plan[q] EXCEPT !.own = {NewMark(m)}, !.consent = FALSE] \in Row
        /\ [plan[q] EXCEPT !.own = {NewMark(m)}, !.consent = FALSE].own
                = {NewMark(m)}
        /\ [plan[q] EXCEPT !.own = {NewMark(m)}, !.consent = FALSE].effect
                = plan[q].effect
        /\ [plan[q] EXCEPT !.own = {NewMark(m)}, !.consent = FALSE].lease
                = plan[q].lease
        /\ [plan[q] EXCEPT !.own = {NewMark(m)}, !.consent = FALSE].paused
                = plan[q].paused
        /\ [plan[q] EXCEPT !.own = {NewMark(m)}, !.consent = FALSE].pausedFor
                = plan[q].pausedFor
    BY <1>2, <2>1 DEF Row
  <2> QED
    BY <1>1, <2>1, <2>2, <2>3 DEF TypeOK
<1>5. TypeOK'
  <2>1. plan' \in [Plan -> Row]
    BY <1>1, <1>4 DEF markEditedBy, TypeOK
  <2> QED
    BY <1>1, <1>3, <2>1 DEF markEditedBy, TypeOK
<1>6. MarksOld'
  <2>1. \A k \in Mark : k.n \in Nat
    BY BoundsAssumption DEF Mark
  <2>2. wf \in SUBSET Mark /\ \A p \in Plan : /\ plan[p].own \in SUBSET Mark
                                             /\ renewed[p] \in SUBSET Mark
    BY <1>1 DEF TypeOK, Row
  <2>3. wf' = wf /\ renewed' = renewed
    BY DEF markEditedBy
  <2>4. \A k \in wf : k.n <= edits'
    BY <1>3, <2>1, <2>2 DEF IInv, MarksOld
  <2>5. ASSUME NEW p \in Plan, NEW k \in renewed[p] PROVE k.n <= edits'
    BY <1>3, <2>1, <2>2 DEF IInv, MarksOld
  <2>6. ASSUME NEW p \in Plan, NEW k \in plan'[p].own PROVE k.n <= edits'
    <3>1. CASE p = q
      BY <1>2, <1>3, <1>4, <3>1
    <3>2. CASE p # q
      BY <1>3, <1>4, <2>1, <2>2, <3>2 DEF IInv, MarksOld
    <3> QED
      BY <3>1, <3>2
  <2> QED
    BY <2>3, <2>4, <2>5, <2>6 DEF MarksOld
<1>7. RenewedHeld'
  <2>1. ASSUME NEW p \in Plan PROVE NewMark(m) \notin renewed[p]
    BY <1>2, <1>3 DEF IInv, MarksOld
  <2>2. wf' = wf /\ renewed' = renewed
    BY DEF markEditedBy
  <2>3. ASSUME NEW p \in Plan, NEW k \in renewed[p] \cap rowPlanMembers(p)'
        PROVE  k \in rowPlanMembers(p)
    BY <1>4, <2>1, <2>2 DEF rowPlanMembers
  <2> QED
    BY <1>4, <2>2, <2>3 DEF IInv, RenewedHeld
<1>8. RunsHeld'
  BY <1>4 DEF IInv, RunsHeld, markEditedBy
<1> QED
  BY <1>5, <1>6, <1>7, <1>8 DEF IInv

\* A mandate's change to the workflow, which no pause refuses, does so too:
\* its mark is new, and so not renewed.
LEMMA EditWorkflowKeeps ==
    ASSUME IInv, NEW m \in Mandate, EditWorkflow(m)
    PROVE  IInv'
<1>1. TypeOK
  BY DEF IInv
<1>2. NewMark(m) \in Mark /\ NewMark(m).n = edits + 1
  BY <1>1, BoundsAssumption DEF NewMark, Mark, TypeOK, EditWorkflow
<1>3. edits \in Nat /\ edits' = edits + 1 /\ edits' \in 0..MaxEdits
  BY <1>1, BoundsAssumption DEF TypeOK, EditWorkflow
<1>4. TypeOK'
  BY <1>1, <1>2, <1>3 DEF EditWorkflow, TypeOK
<1>5. MarksOld'
  <2>1. \A k \in Mark : k.n \in Nat
    BY BoundsAssumption DEF Mark
  <2>2. \A p \in Plan : /\ plan[p].own \in SUBSET Mark
                        /\ renewed[p] \in SUBSET Mark
    BY <1>1 DEF TypeOK, Row
  <2> QED
    BY <1>2, <1>3, <2>1, <2>2 DEF IInv, MarksOld, EditWorkflow
<1>6. RenewedHeld'
  <2>1. ASSUME NEW p \in Plan PROVE NewMark(m) \notin renewed[p]
    BY <1>2, <1>3 DEF IInv, MarksOld
  <2> QED
    BY <2>1 DEF IInv, RenewedHeld, rowPlanMembers, EditWorkflow
<1>7. RunsHeld'
  BY DEF IInv, RunsHeld, EditWorkflow
<1> QED
  BY <1>4, <1>5, <1>6, <1>7 DEF IInv

----------------------------------------------------------------------------
(* The takeover                                                            *)

\* What the transaction leaves: on the plan taken over and the plans released,
\* no mark that holds; the others as they were, and no mark more.
LEMMA CoveredFacts ==
    ASSUME TypeOK, NEW q \in Plan, Covered(q)
    PROVE  /\ plan' \in [Plan -> Row]
           /\ wf' \in SUBSET wf
           /\ \A p \in Plan :
                /\ plan'[p].effect = plan[p].effect
                /\ plan'[p].lease = plan[p].lease
                /\ p \notin {q} \cup released(q) => plan'[p] = plan[p]
                /\ p \in {q} \cup released(q) =>
                    /\ plan'[p].own \subseteq plan[p].own
                    /\ \A k \in rowPlanMembers(p)' :
                        k \in rowPlanMembers(p) /\ ~holds(k, plan[p])
<1> DEFINE freed == {q} \cup released(q)
           taken == [release(plan[q]) EXCEPT !.own = {}, !.consent = TRUE]
<1>1. \A p \in Plan : plan[p] \in Row
  BY DEF TypeOK
<1>2. ASSUME NEW p \in Plan
      PROVE  /\ release(plan[p]) \in Row
             /\ release(plan[p]).own = plan[p].own
             /\ release(plan[p]).effect = plan[p].effect
             /\ release(plan[p]).lease = plan[p].lease
  <2>1. 0 \in 0..MaxTime
    BY BoundsAssumption
  <2>2. plan[p] \in Row
    BY <1>1
  <2> QED
    BY <2>1, <2>2 DEF release, Row
<1>3. /\ taken \in Row /\ taken.own = {} /\ taken.effect = plan[q].effect
      /\ taken.lease = plan[q].lease
  BY <1>2 DEF Row
<1> HIDE DEF taken
<1>4. plan' = [o \in Plan |-> IF o = q THEN taken
                             ELSE IF o \in freed THEN release(plan[o])
                             ELSE plan[o]]
  BY DEF Covered, taken
<1>5. wf' = IF coverWorkflow(q) THEN {} ELSE wf
  BY DEF Covered
<1>6. q \notin released(q)
  BY DEF released, memberChanges
<1>7. ASSUME NEW p \in released(q)
      PROVE  /\ p \in Plan /\ plan[p].effect = "run_workflow" /\ wf' = {}
             /\ \A k \in plan[p].own : ~holds(k, plan[p])
  BY <1>5 DEF released, memberChanges
<1>8. ASSUME NEW k \in rowPlanMembers(q)'
      PROVE  k \in rowPlanMembers(q) /\ ~holds(k, plan[q])
  BY <1>3, <1>4, <1>5 DEF rowPlanMembers, coverWorkflow
<1>9. ASSUME NEW p \in released(q), NEW k \in rowPlanMembers(p)'
      PROVE  k \in rowPlanMembers(p) /\ ~holds(k, plan[p])
  BY <1>2, <1>4, <1>6, <1>7 DEF rowPlanMembers
<1>10. \A p \in freed : plan'[p].own \subseteq plan[p].own
  BY <1>2, <1>3, <1>4, <1>7
<1>11. plan' \in [Plan -> Row] /\ wf' \in SUBSET wf
  BY <1>1, <1>2, <1>3, <1>4, <1>5
<1>12. \A p \in Plan : /\ plan'[p].effect = plan[p].effect
                       /\ plan'[p].lease = plan[p].lease
                       /\ p \notin freed => plan'[p] = plan[p]
  BY <1>2, <1>3, <1>4
<1> QED
  BY <1>8, <1>9, <1>10, <1>11, <1>12

\* The transaction, when it goes through.
LEMMA CoveredKeeps ==
    ASSUME IInv, NEW q \in Plan, Takeable(q), Covered(q),
           taking' = NoView, UNCHANGED <<now, edits, access, run>>
    PROVE  IInv'
<1> DEFINE freed == {q} \cup released(q)
<1>1. TypeOK /\ MarksOld /\ RenewedHeld /\ RunsHeld
  BY DEF IInv
<1>2. /\ plan' \in [Plan -> Row]
      /\ wf' \in SUBSET wf
      /\ \A p \in Plan :
            /\ plan'[p].effect = plan[p].effect
            /\ plan'[p].lease = plan[p].lease
            /\ p \notin freed => plan'[p] = plan[p]
            /\ p \in freed =>
                /\ plan'[p].own \subseteq plan[p].own
                /\ \A k \in rowPlanMembers(p)' :
                    k \in rowPlanMembers(p) /\ ~holds(k, plan[p])
  BY <1>1, CoveredFacts
<1>3. renewed' = [o \in Plan |->
            IF o \in freed
            THEN {k \in renewed[o] : k.at < plan[o].pausedAt} ELSE renewed[o]]
  BY DEF Covered
<1>4. question' = [o \in Plan |->
            IF o \in freed /\ question[o].state # "none"
            THEN [question[o] EXCEPT !.old = TRUE] ELSE question[o]]
  BY DEF Covered
<1>5. \A p \in freed : p \in Plan /\ plan[p].lease = "free"
  BY DEF Takeable, released, memberChanges
<1> HIDE DEF freed
<1>6. TypeOK'
  <2>1. ASSUME NEW o \in Plan
        PROVE  [question[o] EXCEPT !.old = TRUE] \in Question
    BY <1>1 DEF TypeOK, Question
  <2>2. question' \in [Plan -> Question]
    BY <1>1, <1>4, <2>1 DEF TypeOK
  <2>3. renewed' \in [Plan -> SUBSET Mark]
    BY <1>1, <1>3 DEF TypeOK
  <2> QED
    BY <1>1, <1>2, <2>2, <2>3 DEF TypeOK
<1>7. MarksOld'
  BY <1>1, <1>2, <1>3 DEF MarksOld
<1>8. RenewedHeld'
  <2> SUFFICES ASSUME NEW p \in Plan,
                      NEW k \in renewed'[p], k \in rowPlanMembers(p)'
               PROVE  plan'[p].paused /\ k.by \in plan'[p].pausedFor
    BY DEF RenewedHeld
  <2>1. CASE p \in freed
    <3>1. k \in renewed[p] /\ k.at < plan[p].pausedAt
      BY <1>3, <2>1
    <3>2. k \in rowPlanMembers(p) /\ ~holds(k, plan[p])
      BY <1>2, <2>1
    <3>3. k.by \in plan[p].pausedFor
      BY <1>1, <3>1, <3>2 DEF RenewedHeld
    <3> QED
      BY <3>1, <3>2, <3>3 DEF holds
  <2>2. CASE p \notin freed
    <3>1. plan'[p] = plan[p] /\ k \in renewed[p]
      BY <1>2, <1>3, <2>2
    <3>2. k \in rowPlanMembers(p)
      BY <1>2, <3>1 DEF rowPlanMembers
    <3> QED
      BY <1>1, <3>1, <3>2 DEF RenewedHeld
  <2> QED
    BY <2>1, <2>2
<1>9. RunsHeld'
  <2> SUFFICES ASSUME NEW p \in Plan, run'[p].pc # "idle"
               PROVE  /\ plan'[p].lease = "held"
                      /\ run'[p].marks \cap renewed'[p] # {}
                            => plan'[p].paused
    BY DEF RunsHeld
  <2>1. run' = run /\ plan[p].lease = "held"
    BY <1>1 DEF RunsHeld
  <2>2. p \notin freed
    BY <1>5, <2>1
  <2>3. plan'[p] = plan[p] /\ renewed'[p] = renewed[p]
    BY <1>2, <1>3, <2>2
  <2> QED
    BY <1>1, <2>1, <2>3 DEF RunsHeld
<1> QED
  BY <1>6, <1>7, <1>8, <1>9 DEF IInv

----------------------------------------------------------------------------
(* The other steps                                                         *)

\* The steps of mandates and of the owner that leave every mark alone.
LEMMA QuietStepsPauseOnly ==
    ASSUME IInv,
           \/ Tick \/ endEndedMandateRuns \/ UNCHANGED vars
           \/ \E m \in Mandate : EndPasses(m) \/ revoke(m)
           \/ \E p \in Plan : confirmTrigger(p) \/ takeOver(p)
           \/ /\ UNCHANGED <<now, edits, access, run>> /\ taking' = NoView
              /\ UNCHANGED <<plan, wf, question, renewed>>
    PROVE  TypeOK' /\ PauseOnly
<1>1. TypeOK /\ RunsHeld
  BY DEF IInv
<1>2. CASE UNCHANGED <<edits, access, wf, plan, question, run, renewed>>
           /\ now' \in 0..MaxTime /\ (taking' = taking \/ taking' = NoView)
  BY <1>1, <1>2 DEF TypeOK, PauseOnly, RunsHeld
<1>3. CASE Tick
  <2>1. now' \in 0..MaxTime
    BY <1>1, <1>3, BoundsAssumption DEF Tick, TypeOK
  <2> QED
    BY <1>2, <1>3, <2>1 DEF Tick
<1>4. CASE UNCHANGED vars
  BY <1>1, <1>2, <1>4 DEF vars, TypeOK
<1>5. CASE /\ UNCHANGED <<now, edits, access, run>> /\ taking' = NoView
           /\ UNCHANGED <<plan, wf, question, renewed>>
  BY <1>1, <1>2, <1>5 DEF TypeOK
<1>6. CASE endEndedMandateRuns
  BY <1>1, <1>6, SweepKeeps DEF endEndedMandateRuns, TypeOK
<1>7. ASSUME NEW m \in Mandate, EndPasses(m)
      PROVE  TypeOK' /\ PauseOnly
  BY <1>1, <1>7 DEF EndPasses, TypeOK, PauseOnly, RunsHeld
<1>8. ASSUME NEW m \in Mandate, revoke(m)
      PROVE  TypeOK' /\ PauseOnly
  <2>1. access' \in [Mandate -> {"live", "over", "revoked"}]
    BY <1>1, <1>8 DEF revoke, TypeOK
  <2>2. SweepUnder(access') /\ UNCHANGED <<now, edits, wf, taking, renewed>>
    BY <1>8 DEF revoke
  <2> QED
    BY <1>1, <2>1, <2>2, SweepKeeps DEF TypeOK
<1>9. ASSUME NEW p \in Plan, confirmTrigger(p)
      PROVE  TypeOK' /\ PauseOnly
  <2>1. plan[p] \in Row
    BY <1>1 DEF TypeOK
  <2>2. plan' = [plan EXCEPT ![p] = [plan[p] EXCEPT !.consent = TRUE]]
    BY <1>1, <1>9 DEF confirmTrigger, TypeOK
  <2>3. /\ [plan[p] EXCEPT !.consent = TRUE] \in Row
        /\ [plan[p] EXCEPT !.consent = TRUE].own = plan[p].own
        /\ [plan[p] EXCEPT !.consent = TRUE].effect = plan[p].effect
        /\ [plan[p] EXCEPT !.consent = TRUE].lease = plan[p].lease
        /\ [plan[p] EXCEPT !.consent = TRUE].paused = plan[p].paused
        /\ [plan[p] EXCEPT !.consent = TRUE].pausedFor = plan[p].pausedFor
    BY <2>1 DEF Row
  <2>4. TypeOK'
    BY <1>1, <1>9, <2>2, <2>3 DEF confirmTrigger, TypeOK
  <2>5. PauseOnly
    BY <1>1, <1>9, <2>2, <2>3 DEF confirmTrigger, TypeOK, PauseOnly, RunsHeld
  <2> QED
    BY <2>4, <2>5
<1>10. ASSUME NEW p \in Plan, takeOver(p)
       PROVE  TypeOK' /\ PauseOnly
  <2>1. taking'.id = p
    BY <1>10 DEF takeOver, planOf
  <2>2. question' \in [Plan -> Question]
    BY <1>1, <1>10 DEF takeOver, clearPrompts, TypeOK, NoQuestion, Question,
                       Owner
  <2> QED
    BY <1>1, <1>10, <2>1, <2>2 DEF takeOver, TypeOK, PauseOnly, RunsHeld
<1> QED
  BY <1>3, <1>4, <1>5, <1>6, <1>7, <1>8, <1>9, <1>10

\* A step of a run that ends it.
LEMMA EndRunPauseOnly ==
    ASSUME IInv, NEW p \in Plan, NEW row \in {plan[p], pausePlanNow(p)},
           EndRun(p, row), RunUnchanged, question' \in [Plan -> Question]
    PROVE  TypeOK' /\ PauseOnly
<1>1. TypeOK /\ RunsHeld
  BY DEF IInv
<1>2. /\ plan' \in [Plan -> Row] /\ run' \in [Plan -> Run]
      /\ \A o \in Plan :
            /\ plan'[o].own = plan[o].own
            /\ plan'[o].effect = plan[o].effect
            /\ plan[o].paused => plan'[o].paused
            /\ plan[o].pausedFor \subseteq plan'[o].pausedFor
            /\ o = p => run'[o].pc = "idle"
            /\ o # p => run'[o] = run[o] /\ plan'[o] = plan[o]
  BY <1>1, EndRunFacts
<1> QED
  BY <1>1, <1>2 DEF RunUnchanged, TypeOK, PauseOnly, RunsHeld

\* A step of a run that goes on, with marks its plan has.
LEMMA GoOnPauseOnly ==
    ASSUME IInv, NEW p \in Plan, run[p].pc # "idle", NEW new \in Run,
           run' = [run EXCEPT ![p] = new],
           \A k \in new.marks : k \in run[p].marks \/ k \in rowPlanMembers(p),
           UNCHANGED plan, RunUnchanged, question' \in [Plan -> Question]
    PROVE  TypeOK' /\ PauseOnly
<1>1. TypeOK /\ RunsHeld
  BY DEF IInv
<1>2. run' \in [Plan -> Run]
  BY <1>1 DEF TypeOK
<1>3. TypeOK'
  BY <1>1, <1>2 DEF RunUnchanged, TypeOK
<1>4. \A o \in Plan : o # p => run'[o] = run[o]
  BY <1>1 DEF TypeOK
<1>5. run'[p] = new
  BY <1>1 DEF TypeOK
<1> QED
  BY <1>1, <1>3, <1>4, <1>5 DEF RunUnchanged, PauseOnly, RunsHeld

\* A run, from its start to its end.
LEMMA RunStepsPauseOnly ==
    ASSUME IInv, NEW p \in Plan,
           \/ executeTask(p) \/ RunStep(p) \/ Ask(p) \/ Answer(p)
           \/ Finish(p) \/ Gone(p) \/ LeaseLapses(p)
    PROVE  TypeOK' /\ PauseOnly
<1>1. /\ TypeOK /\ RunsHeld /\ plan[p] \in Row /\ run[p] \in Run
      /\ question \in [Plan -> Question] /\ NoQuestion \in Question
  BY DEF IInv, TypeOK, NoQuestion, Question, Owner
<1>2. pauseForStop(p) \in {plan[p], pausePlanNow(p)}
  BY <1>1, PauseForStopFacts
<1>3. \A pc \in {"pickup", "turn", "working"} :
        /\ [run[p] EXCEPT !.pc = pc] \in Run
        /\ [run[p] EXCEPT !.pc = pc].marks = run[p].marks
  BY <1>1 DEF Run
<1>4. \A lease \in {"free", "held", "dead"} :
        /\ [plan[p] EXCEPT !.lease = lease] \in Row
        /\ [plan[p] EXCEPT !.lease = lease].own = plan[p].own
        /\ [plan[p] EXCEPT !.lease = lease].effect = plan[p].effect
        /\ [plan[p] EXCEPT !.lease = lease].paused = plan[p].paused
        /\ [plan[p] EXCEPT !.lease = lease].pausedFor = plan[p].pausedFor
        /\ [plan[p] EXCEPT !.lease = lease].lease = lease
  BY <1>1 DEF Row
<1>5. CASE executeTask(p)
  <2> DEFINE new == [NoRun EXCEPT !.pc = "members", !.marks = plan[p].own]
             row == [plan[p] EXCEPT !.lease = "held"]
  <2>1. new \in Run /\ new.marks = plan[p].own
    BY <1>1 DEF NoRun, Run, Row
  <2>2. plan' = [plan EXCEPT ![p] = row] /\ run' = [run EXCEPT ![p] = new]
    BY <1>1, <1>5 DEF executeTask, TypeOK
  <2>3. /\ row \in Row /\ row.own = plan[p].own /\ row.effect = plan[p].effect
        /\ row.paused = plan[p].paused /\ row.pausedFor = plan[p].pausedFor
        /\ row.lease = "held"
    BY <1>4
  <2>4. UNCHANGED <<now, edits, access, wf, question, taking, renewed>>
    BY <1>5 DEF executeTask
  <2> HIDE DEF new, row
  <2>5. plan[p].own \subseteq rowPlanMembers(p)
    BY DEF rowPlanMembers
  <2>6. TypeOK'
    BY <1>1, <2>1, <2>2, <2>3, <2>4 DEF TypeOK
  <2>7. PauseOnly
    BY <1>1, <2>1, <2>2, <2>3, <2>4, <2>5 DEF TypeOK, PauseOnly, RunsHeld
  <2> QED
    BY <2>6, <2>7
<1>6. CASE ReadMembers(p)
  <2> DEFINE side == IF plan[p].effect = "run_workflow" THEN wf ELSE {}
             marks == run[p].marks \cup side
             new == [run[p] EXCEPT !.pc = "gate", !.marks = marks,
                                   !.ended = HasEnded(marks, access)]
  <2>1. side \subseteq rowPlanMembers(p) /\ marks \in SUBSET Mark
    BY <1>1 DEF rowPlanMembers, TypeOK, Run
  <2>2. run' = [run EXCEPT ![p] = new]
    BY <1>1, <1>6 DEF ReadMembers, TypeOK
  <2>3. new \in Run /\ new.marks = marks
    BY <1>1, <2>1 DEF Run, HasEnded
  <2>4. \A k \in new.marks : k \in run[p].marks \/ k \in rowPlanMembers(p)
    BY <2>1, <2>3
  <2>5. run[p].pc # "idle" /\ UNCHANGED <<plan, question>> /\ RunUnchanged
    BY <1>6 DEF ReadMembers
  <2> HIDE DEF new
  <2> QED
    BY <1>1, <2>2, <2>3, <2>4, <2>5, GoOnPauseOnly
<1>7. CASE TurnRead(p)
  <2> DEFINE new == [run[p] EXCEPT !.pc = "check",
                                   !.ended = HasEnded(run[p].marks, access)]
  <2>1. run' = [run EXCEPT ![p] = new]
    BY <1>1, <1>7 DEF TurnRead, TypeOK
  <2>2. new \in Run /\ new.marks = run[p].marks
    BY <1>1 DEF Run, HasEnded
  <2>3. run[p].pc # "idle" /\ UNCHANGED <<plan, question>> /\ RunUnchanged
    BY <1>7 DEF TurnRead
  <2> HIDE DEF new
  <2> QED
    BY <1>1, <2>1, <2>2, <2>3, GoOnPauseOnly
<1>8. ASSUME NEW pc \in {"pickup", "turn", "working"},
             run[p].pc # "idle", run' = [run EXCEPT ![p].pc = pc],
             UNCHANGED plan, RunUnchanged, question' \in [Plan -> Question]
      PROVE  TypeOK' /\ PauseOnly
  <2>1. run' = [run EXCEPT ![p] = [run[p] EXCEPT !.pc = pc]]
    BY <1>1, <1>8 DEF TypeOK
  <2> QED
    BY <1>3, <1>8, <2>1, GoOnPauseOnly
<1>9. CASE gatePause(p)
  <2>1. RunUnchanged /\ question' \in [Plan -> Question] /\ run[p].pc # "idle"
    BY <1>1, <1>9 DEF gatePause
  <2>2. CASE EndRun(p, plan[p]) \/ EndRun(p, pausePlanNow(p))
    BY <2>1, <2>2, EndRunPauseOnly
  <2>3. CASE UNCHANGED plan /\ run' = [run EXCEPT ![p].pc = "pickup"]
    BY <1>8, <2>1, <2>3
  <2>4. CASE UNCHANGED plan /\ run' = [run EXCEPT ![p].pc = "turn"]
    BY <1>8, <2>1, <2>4
  <2> QED
    BY <1>9, <2>2, <2>3, <2>4 DEF gatePause
<1>10. CASE PickUp(p)
  <2>1. RunUnchanged /\ question' \in [Plan -> Question] /\ run[p].pc # "idle"
    BY <1>1, <1>10 DEF PickUp
  <2>2. CASE EndRun(p, plan[p]) \/ EndRun(p, pauseForStop(p))
    BY <1>2, <2>1, <2>2, EndRunPauseOnly
  <2>3. CASE UNCHANGED plan /\ run' = [run EXCEPT ![p].pc = "turn"]
    BY <1>8, <2>1, <2>3
  <2> QED
    BY <1>10, <2>2, <2>3 DEF PickUp
<1>11. CASE stopIfStarterEnded(p)
  <2>1. RunUnchanged /\ question' \in [Plan -> Question] /\ run[p].pc # "idle"
    BY <1>1, <1>11 DEF stopIfStarterEnded
  <2>2. CASE EndRun(p, pauseForStop(p))
    BY <1>2, <2>1, <2>2, EndRunPauseOnly
  <2>3. CASE UNCHANGED plan /\ run' = [run EXCEPT ![p].pc = "working"]
    BY <1>8, <2>1, <2>3
  <2> QED
    BY <1>11, <2>2, <2>3 DEF stopIfStarterEnded
<1>12. CASE EndStopped(p) \/ Finish(p)
  <2>1. RunUnchanged /\ question' \in [Plan -> Question]
    BY <1>1, <1>12 DEF EndStopped, Finish
  <2>2. EndRun(p, plan[p]) \/ EndRun(p, pauseForStop(p))
    BY <1>12 DEF EndStopped, Finish
  <2> QED
    BY <1>2, <2>1, <2>2, EndRunPauseOnly
<1>13. CASE Ask(p) \/ Answer(p)
  <2>1. ActsFor(run[p].marks, {}) \in Mandate \cup {Owner}
    BY <1>1, ActsForType DEF Run
  <2>2. /\ [NoQuestion EXCEPT !.state = "pending",
                              !.by = ActsFor(run[p].marks, {})] \in Question
        /\ [question[p] EXCEPT !.state = "answered"] \in Question
    BY <1>1, <2>1 DEF NoQuestion, Question
  <2>3. question' \in [Plan -> Question]
    BY <1>1, <1>13, <2>2 DEF Ask, Answer
  <2>4. UNCHANGED <<plan, run>> /\ RunUnchanged
    BY <1>13 DEF Ask, Answer
  <2> QED
    BY <1>1, <2>3, <2>4 DEF RunUnchanged, TypeOK, PauseOnly, RunsHeld
<1>14. CASE Gone(p) \/ LeaseLapses(p)
  <2>1. PICK lease \in {"dead", "free"} :
            plan' = [plan EXCEPT ![p] = [plan[p] EXCEPT !.lease = lease]]
    BY <1>1, <1>14 DEF Gone, LeaseLapses, TypeOK
  <2>2. NoRun \in Run /\ NoRun.pc = "idle"
    BY DEF NoRun, Run
  <2>3. run' \in [Plan -> Run] /\ run'[p].pc = "idle"
        /\ \A o \in Plan : o # p => run'[o] = run[o]
    BY <1>1, <1>14, <2>2 DEF Gone, LeaseLapses, TypeOK, RunsHeld
  <2>4. RunUnchanged /\ UNCHANGED question
    BY <1>14 DEF Gone, LeaseLapses
  <2>5. TypeOK'
    BY <1>1, <1>4, <2>1, <2>3, <2>4 DEF RunUnchanged, TypeOK
  <2>6. PauseOnly
    BY <1>1, <1>4, <2>1, <2>3, <2>4
       DEF RunUnchanged, TypeOK, PauseOnly, RunsHeld
  <2> QED
    BY <2>5, <2>6
<1> QED
  BY <1>5, <1>6, <1>7, <1>9, <1>10, <1>11, <1>12, <1>13, <1>14 DEF RunStep

----------------------------------------------------------------------------
(* The theorems                                                            *)

\* Every step is one of these.
LEMMA StepKinds ==
    ASSUME IInv, [Next]_vars
    PROVE  \/ TypeOK' /\ PauseOnly
           \/ \E m \in Mandate : record(m) \/ EditWorkflow(m)
           \/ \E p \in Plan, m \in Mandate : markEditedBy(p, m)
           \/ /\ taking.id \in Plan /\ StillAsShown(taking.id)
              /\ Covered(taking.id)
              /\ taking' = NoView /\ UNCHANGED <<now, edits, access, run>>
<1>1. CASE Commit
  <2>1. taking.id \in Plan
    BY <1>1 DEF Commit, IInv, TypeOK
  <2> QED
    BY <1>1, <2>1, QuietStepsPauseOnly DEF Commit
<1>2. CASE UNCHANGED vars
  BY <1>2, QuietStepsPauseOnly
<1>3. CASE Tick \/ endEndedMandateRuns
  BY <1>3, QuietStepsPauseOnly
<1>4. ASSUME NEW m \in Mandate, EndPasses(m) \/ revoke(m)
      PROVE  TypeOK' /\ PauseOnly
  BY <1>4, QuietStepsPauseOnly
<1>5. ASSUME NEW p \in Plan, confirmTrigger(p) \/ takeOver(p)
      PROVE  TypeOK' /\ PauseOnly
  BY <1>5, QuietStepsPauseOnly
<1> QED
  BY <1>1, <1>2, <1>3, <1>4, <1>5, RunStepsPauseOnly DEF Next

\* No step breaks the inductive invariant.
LEMMA NextIInv ==
    ASSUME IInv, [Next]_vars
    PROVE  IInv'
<1>1. CASE TypeOK' /\ PauseOnly
  BY <1>1, PauseOnlyKeeps DEF IInv
<1>2. CASE /\ taking.id \in Plan /\ StillAsShown(taking.id)
           /\ Covered(taking.id)
           /\ taking' = NoView /\ UNCHANGED <<now, edits, access, run>>
  BY <1>2, CoveredKeeps DEF StillAsShown
<1> QED
  BY <1>1, <1>2, StepKinds, RecordKeeps, EditWorkflowKeeps, MarkEditedByKeeps

\* Renewed marks stay held by their pause, and runs by their lease, always.
THEOREM Invariance == Spec => []IInv
  BY InitIInv, NextIInv, PTL DEF Spec

\* The rows, runs and questions keep their types, and a takeover under way is
\* one of a plan.
THEOREM TypeCorrect == Spec => []TypeOK
<1>1. IInv => TypeOK
  BY DEF IInv
<1> QED
  BY <1>1, Invariance, PTL

\* Only the check right before it begins a turn, and not while the plan is
\* paused.
LEMMA TurnsBegin ==
    ASSUME IInv, [Next]_vars, NEW p \in Plan,
           run[p].pc = "check", run'[p].pc = "working"
    PROVE  ~plan[p].paused
<1>1. run \in [Plan -> Run] /\ run[p] \in Run
  BY DEF IInv, TypeOK
<1>2. UNCHANGED run => FALSE
  OBVIOUS
<1>3. CASE \E m \in Mandate : revoke(m)
  BY <1>1, <1>3 DEF revoke, SweepUnder, Run
<1>4. CASE endEndedMandateRuns
  BY <1>1, <1>4 DEF endEndedMandateRuns, SweepUnder, Run
<1>5. ASSUME NEW o \in Plan,
             executeTask(o) \/ RunStep(o) \/ Finish(o) \/ Gone(o)
      PROVE  ~plan[p].paused
  <2>1. \A row : EndRun(o, row) => o # p \/ run'[p].pc = "idle"
    BY <1>1 DEF EndRun, NoRun
  <2>2. \A row : EndRun(o, row) => (o # p => run'[p] = run[p])
    BY <1>1 DEF EndRun
  <2>3. CASE o # p
    BY <1>1, <1>5, <2>2, <2>3
       DEF executeTask, RunStep, Finish, Gone, ReadMembers, gatePause, PickUp,
           TurnRead, stopIfStarterEnded, EndStopped
  <2>4. CASE o = p
    <3>1. executeTask(o) => run'[p].pc = "members"
      BY <1>1, <2>4 DEF executeTask, NoRun
    <3>2. Gone(o) => run'[p].pc = "idle"
      BY <1>1, <2>4 DEF Gone, NoRun
    <3>3. RunStep(o) => stopIfStarterEnded(o)
      BY <2>4 DEF RunStep, ReadMembers, gatePause, PickUp, TurnRead,
                  EndStopped
    <3>4. ~Finish(o)
      BY <2>4 DEF Finish
    <3>5. stopIfStarterEnded(o) => ~plan[p].paused
      BY <2>1, <2>4 DEF stopIfStarterEnded
    <3> QED
      BY <1>5, <3>1, <3>2, <3>3, <3>4, <3>5
  <2> QED
    BY <2>3, <2>4
<1>6. CASE UNCHANGED run
  BY <1>2, <1>6
<1> QED
  BY <1>3, <1>4, <1>5, <1>6
     DEF Next, vars, Tick, Commit, EndPasses, record, EditWorkflow,
         markEditedBy, confirmTrigger, Ask, Answer, LeaseLapses, takeOver,
         RunUnchanged

\* No turn begins for a mandate whose access had ended and was extended until
\* the owner took the plan over, for any number of mandates, plans and runs.
THEOREM NoTurnForRenewedCorrect == Spec => NoTurnForRenewed
<1>1. IInv /\ [Next]_vars =>
        [\A p \in Plan : (run[p].pc = "check" /\ run'[p].pc = "working")
                         => run[p].marks \cap renewed[p] = {}]_vars
  <2> SUFFICES ASSUME IInv, [Next]_vars, NEW p \in Plan,
                      run[p].pc = "check", run'[p].pc = "working"
               PROVE  run[p].marks \cap renewed[p] = {}
    OBVIOUS
  <2>1. ~plan[p].paused
    BY TurnsBegin
  <2> QED
    BY <2>1 DEF IInv, RunsHeld
<1> QED
  BY <1>1, Invariance, PTL DEF Spec, NoTurnForRenewed

\* Only the takeover's transaction ends a pause.
LEMMA PausesEnd ==
    ASSUME IInv, [Next]_vars, NEW p \in Plan, plan[p].paused, ~plan'[p].paused
    PROVE  /\ taking.id \in Plan /\ StillAsShown(taking.id)
           /\ Covered(taking.id) /\ UNCHANGED access /\ taking' = NoView
<1>1. TypeOK
  BY DEF IInv
<1>2. CASE PauseOnly
  BY <1>2 DEF PauseOnly
<1>3. ASSUME NEW m \in Mandate, record(m) PROVE FALSE
  <2>1. {m} \in SUBSET Mandate
    OBVIOUS
  <2> QED
    BY <1>1, <1>3, <2>1, PausedUnderFacts DEF record
<1>4. ASSUME NEW m \in Mandate, EditWorkflow(m) PROVE FALSE
  BY <1>4 DEF EditWorkflow
<1>5. ASSUME NEW q \in Plan, NEW m \in Mandate, markEditedBy(q, m) PROVE FALSE
  BY <1>1, <1>5 DEF markEditedBy, TypeOK, Row
<1> QED
  BY <1>2, <1>3, <1>4, <1>5, StepKinds

\* A takeover does what it showed and lasts, whatever runs, edits and other
\* takeovers come between the owner's look and the transaction.
THEOREM TakeoverStandsCorrect == Spec => TakeoverStands
<1>1. IInv /\ [Next]_vars =>
        [\A p \in Plan : (plan[p].paused /\ ~plan'[p].paused)
            => /\ run[p].pc = "idle"
               /\ ~HasEnded(rowPlanMembers(p)', access)
               /\ wf \ wf' \subseteq taking.wf
               /\ taking.id = p => plan[p].own \subseteq taking.own]_vars
  <2> SUFFICES ASSUME IInv, [Next]_vars, NEW p \in Plan,
                      plan[p].paused, ~plan'[p].paused
               PROVE  /\ run[p].pc = "idle"
                      /\ ~HasEnded(rowPlanMembers(p)', access)
                      /\ wf \ wf' \subseteq taking.wf
                      /\ taking.id = p => plan[p].own \subseteq taking.own
    OBVIOUS
  <2> DEFINE q == taking.id
  <2>1. q \in Plan /\ StillAsShown(q) /\ Covered(q)
    BY PausesEnd
  <2>2. Takeable(q) /\ planOf(q) = taking
    BY <2>1 DEF StillAsShown
  <2>3. taking.wf = wf /\ taking.own = plan[q].own
    BY <2>2 DEF planOf
  <2> HIDE DEF q
  <2>4. /\ p \notin {q} \cup released(q) => plan'[p] = plan[p]
        /\ p \in {q} \cup released(q) =>
            \A k \in rowPlanMembers(p)' : ~holds(k, plan[p])
    BY <2>1, CoveredFacts DEF IInv
  <2>5. p \in {q} \cup released(q)
    BY <2>4
  <2>6. run[p].pc = "idle"
    BY <2>2, <2>5 DEF Takeable, IInv, RunsHeld
  <2>7. ~HasEnded(rowPlanMembers(p)', access)
    BY <2>4, <2>5 DEF HasEnded, holds
  <2> QED
    BY <2>3, <2>6, <2>7 DEF q
<1> QED
  BY <1>1, Invariance, PTL DEF Spec, TakeoverStands

----------------------------------------------------------------------------
(* Questions and takeovers                                                 *)

\* A plan the takeover under way frees, as the owner was shown it.
Shown(o) ==
    /\ taking # NoView
    /\ o = taking.id \/ \E x \in taking.released : x[1] = o

\* Paused, nothing asked, and no run past the gate: none can ask.
Silent(o) ==
    /\ plan[o].paused
    /\ question[o].state = "none"
    /\ run[o].pc \in {"idle", "members", "gate"}

\* From the moment its prompts are cleared, a plan being taken over is silent.
AskedInv ==
    /\ \A p \in Plan : ~question[p].old
    /\ \A o \in Plan : Shown(o) => Silent(o)

\* A step of a run: what it may do to a plan whose run is not past the gate.
LEMMA SilentRun ==
    ASSUME IInv, NEW o \in Plan, Silent(o), NEW p \in Plan,
           \/ executeTask(p) \/ RunStep(p)
           \/ Ask(p) \/ Answer(p) \/ Finish(p) \/ Gone(p) \/ LeaseLapses(p)
    PROVE  /\ question'[o].state = "none"
           /\ run'[o].pc \in {"idle", "members", "gate"}
<1>1. /\ run \in [Plan -> Run] /\ question \in [Plan -> Question]
      /\ run[o] \in Run /\ question[o] \in Question
  BY DEF IInv, TypeOK
<1>2. /\ NoQuestion.state = "none" /\ NoRun.pc = "idle"
      /\ [NoRun EXCEPT !.pc = "members", !.marks = plan[p].own].pc = "members"
  BY DEF NoQuestion, NoRun
<1>3. \A row : EndRun(p, row) => run'[o] = IF o = p THEN NoRun ELSE run[o]
  BY <1>1 DEF EndRun
<1>4. CASE o # p
  <2>1. run'[o] = run[o]
    BY <1>1, <1>3, <1>4
       DEF executeTask, RunStep, ReadMembers, gatePause, PickUp, TurnRead,
           stopIfStarterEnded, EndStopped, Ask, Answer, Finish, Gone, LeaseLapses
  <2>2. question'[o] = question[o]
    BY <1>1, <1>4
       DEF executeTask, RunStep, ReadMembers, gatePause, PickUp, TurnRead,
           stopIfStarterEnded, EndStopped, Ask, Answer, Finish, Gone, LeaseLapses
  <2> QED
    BY <2>1, <2>2 DEF Silent
<1>5. CASE o = p
  <2>1. CASE executeTask(p)
    BY <1>1, <1>2, <1>5, <2>1 DEF executeTask, Silent
  <2>2. CASE ReadMembers(p)
    <3>1. question' = question /\ run'[o].pc = "gate"
      BY <1>1, <1>5, <2>2 DEF ReadMembers, Run
    <3> QED
      BY <3>1 DEF Silent
  <2>3. CASE gatePause(p)
    <3>1. question' = question /\ run'[o] = NoRun
      BY <1>3, <1>5, <2>3 DEF gatePause, Silent
    <3> QED
      BY <1>2, <3>1 DEF Silent
  <2>4. ~ (PickUp(p) \/ TurnRead(p) \/ stopIfStarterEnded(p) \/ EndStopped(p))
    BY <1>5 DEF PickUp, TurnRead, stopIfStarterEnded, EndStopped, Silent
  <2>5. ~ (Ask(p) \/ Answer(p) \/ Finish(p))
    BY <1>5 DEF Ask, Answer, Finish, Silent
  <2>6. CASE Gone(p)
    BY <1>1, <1>2, <1>5, <2>6 DEF Gone, Silent
  <2>7. CASE LeaseLapses(p)
    BY <2>7 DEF LeaseLapses, Silent
  <2> QED
    BY <2>1, <2>2, <2>3, <2>4, <2>5, <2>6, <2>7 DEF RunStep
<1> QED
  BY <1>4, <1>5

\* A plan being taken over stays silent until the transaction.
LEMMA SilentStep ==
    ASSUME IInv, [Next]_vars, taking' = taking, taking # NoView,
           NEW o \in Plan, Silent(o)
    PROVE  Silent(o)'
<1>1. /\ run \in [Plan -> Run] /\ question \in [Plan -> Question]
      /\ run[o] \in Run /\ question[o] \in Question
  BY DEF IInv, TypeOK
<1>2. ~Commit /\ \A p \in Plan : ~takeOver(p)
  BY DEF Commit, takeOver
<1>3. ASSUME NEW acc, SweepUnder(acc)
      PROVE  question'[o].state = "none" /\ run'[o] = run[o]
  BY <1>1, <1>3 DEF SweepUnder, Silent, NoQuestion
<1>4. /\ question'[o].state = "none"
      /\ run'[o].pc \in {"idle", "members", "gate"}
  <2>1. CASE endEndedMandateRuns
    BY <1>3, <2>1 DEF endEndedMandateRuns, Silent
  <2>2. CASE \E m \in Mandate : revoke(m)
    <3>1. PICK m \in Mandate : revoke(m)
      BY <2>2
    <3>2. PICK acc : acc = access'
      OBVIOUS
    <3>3. SweepUnder(acc)
      BY <3>1, <3>2 DEF revoke
    <3> QED
      BY <1>3, <3>3 DEF Silent
  <2>3. CASE \E p \in Plan : \/ executeTask(p) \/ RunStep(p)
                             \/ Ask(p) \/ Answer(p) \/ Finish(p) \/ Gone(p)
                             \/ LeaseLapses(p)
    BY <2>3, SilentRun
  <2>4. CASE UNCHANGED <<question, run>>
    BY <2>4 DEF Silent
  <2> QED
    BY <1>2, <2>1, <2>2, <2>3, <2>4
       DEF Next, vars, Tick, EndPasses, record, EditWorkflow, markEditedBy,
           confirmTrigger
<1>5. plan'[o].paused
  <2>1. plan[o].paused
    BY DEF Silent
  <2> QED
    BY <2>1, PausesEnd
<1> QED
  BY <1>4, <1>5 DEF Silent


\* Every step keeps it: the transaction frees only plans that were shown, and
\* those have nothing asked that could be old.
LEMMA AskedStep ==
    ASSUME IInv, AskedInv, [Next]_vars
    PROVE  AskedInv'
<1>1. /\ question \in [Plan -> Question] /\ question' \in [Plan -> Question]
      /\ \A p \in Plan : ~question[p].old
  BY NextIInv DEF IInv, TypeOK, AskedInv
<1>2. /\ NoQuestion.old = FALSE
      /\ \A by : [NoQuestion EXCEPT !.state = "pending", !.by = by].old = FALSE
      /\ \A q \in Question : [q EXCEPT !.state = "answered"].old = q.old
  BY DEF NoQuestion, Question
<1>3. ASSUME NEW p \in Plan PROVE ~question'[p].old
  <2>1. CASE question' = question
    BY <1>1, <2>1
  <2>2. ASSUME NEW acc, SweepUnder(acc) PROVE ~question'[p].old
    BY <1>1, <1>2, <2>2 DEF SweepUnder
  <2>3. CASE Commit
    <3>1. CASE StillAsShown(taking.id) /\ Covered(taking.id)
      <4> DEFINE q == taking.id
      <4>1. planOf(q) = taking /\ taking # NoView
        BY <2>3, <3>1 DEF StillAsShown, Commit
      <4>2. taking.released = {<<o, plan[o].pausedFor>> : o \in released(q)}
        BY <4>1 DEF planOf
      <4>3. ASSUME p \in {q} \cup released(q) PROVE question[p].state = "none"
        <5>1. CASE p = q
          BY <4>1, <5>1 DEF AskedInv, Shown, Silent
        <5>2. CASE p \in released(q)
          <6>1. <<p, plan[p].pausedFor>> \in taking.released
            BY <4>2, <5>2
          <6>2. <<p, plan[p].pausedFor>>[1] = p
            OBVIOUS
          <6>3. Shown(p)
            BY <4>1, <6>1, <6>2 DEF Shown
          <6> QED
            BY <6>3 DEF AskedInv, Silent
        <5> QED
          BY <4>3, <5>1, <5>2
      <4>4. question'[p] = IF p \in {q} \cup released(q) /\ question[p].state # "none"
                           THEN [question[p] EXCEPT !.old = TRUE] ELSE question[p]
        BY <3>1 DEF Covered
      <4> QED
        BY <1>1, <4>3, <4>4
    <3> QED
      BY <2>1, <2>3, <3>1 DEF Commit
  <2>4. ASSUME NEW o \in Plan, takeOver(o) PROVE ~question'[p].old
    BY <1>1, <1>2, <2>4 DEF takeOver, clearPrompts
  <2>5. ASSUME NEW o \in Plan, PickUp(o) \/ Finish(o) \/ EndStopped(o)
        PROVE  ~question'[p].old
    BY <1>1, <1>2, <2>5 DEF PickUp, Finish, EndStopped
  <2>6. ASSUME NEW o \in Plan, Ask(o) PROVE ~question'[p].old
    <3>1. PICK by : question' = [question EXCEPT ![o] =
                       [NoQuestion EXCEPT !.state = "pending", !.by = by]]
      BY <2>6 DEF Ask
    <3> QED
      BY <1>1, <1>2, <3>1
  <2>7. ASSUME NEW o \in Plan, Answer(o) PROVE ~question'[p].old
    <3>1. \/ question' = [question EXCEPT ![o] = NoQuestion]
          \/ question' = [question EXCEPT ![o] = [question[o] EXCEPT !.state = "answered"]]
      BY <2>7 DEF Answer
    <3> QED
      BY <1>1, <1>2, <3>1
  <2>8. ASSUME NEW o \in Plan,
               \/ executeTask(o) \/ ReadMembers(o) \/ gatePause(o) \/ TurnRead(o)
               \/ stopIfStarterEnded(o) \/ Gone(o) \/ LeaseLapses(o) \/ confirmTrigger(o)
        PROVE  question' = question
    BY <2>8 DEF executeTask, ReadMembers, gatePause, TurnRead, stopIfStarterEnded, Gone,
                LeaseLapses, confirmTrigger
  <2>9. ASSUME NEW m \in Mandate,
               \/ EndPasses(m) \/ record(m) \/ EditWorkflow(m)
               \/ \E o \in Plan : markEditedBy(o, m)
        PROVE  question' = question
    BY <2>9 DEF EndPasses, record, EditWorkflow, markEditedBy
  <2>10. CASE Tick \/ UNCHANGED vars
    BY <2>1, <2>10 DEF Tick, vars
  <2>11. CASE endEndedMandateRuns
    BY <2>2, <2>11 DEF endEndedMandateRuns
  <2>12. ASSUME NEW m \in Mandate, revoke(m) PROVE ~question'[p].old
    <3>1. PICK acc : acc = access'
      OBVIOUS
    <3>2. SweepUnder(acc)
      BY <2>12, <3>1 DEF revoke
    <3> QED
      BY <2>2, <3>2
  <2> QED
    BY <2>1, <2>3, <2>4, <2>5, <2>6, <2>7, <2>8, <2>9, <2>10, <2>11, <2>12 DEF Next, RunStep
<1>4. ASSUME NEW o \in Plan, Shown(o)' PROVE Silent(o)'
  <2>1. CASE taking' = taking
    BY <1>4, <2>1, SilentStep DEF AskedInv, Shown
  <2>2. ASSUME NEW p \in Plan, takeOver(p) PROVE Silent(o)'
    <3>1. o \in {p} \cup released(p)
      <4>1. taking' = planOf(p)
        BY <2>2 DEF takeOver
      <4>2. o = planOf(p).id \/ \E x \in planOf(p).released : x[1] = o
        BY <1>4, <4>1 DEF Shown
      <4>3. /\ planOf(p).id = p
            /\ planOf(p).released = {<<w, plan[w].pausedFor>> : w \in released(p)}
        BY DEF planOf
      <4> QED
        BY <4>2, <4>3
    <3>2. plan[o].paused /\ plan[o].lease = "free"
      BY <2>2, <3>1 DEF takeOver, Takeable, released
    <3>3. run[o].pc = "idle"
      BY <3>2 DEF IInv, RunsHeld
    <3>4. plan' = plan /\ run' = run /\ question'[o] = NoQuestion
      BY <2>2, <3>1 DEF takeOver, clearPrompts
    <3> QED
      BY <3>2, <3>3, <3>4 DEF Silent, NoQuestion
  <2>3. CASE Commit
    BY <1>4, <2>3 DEF Commit, Shown
  <2>4. Commit \/ taking' = taking \/ \E p \in Plan : takeOver(p)
    BY DEF Next, vars, Tick, endEndedMandateRuns, EndPasses, record, revoke, EditWorkflow,
           markEditedBy, confirmTrigger, executeTask, RunStep, ReadMembers, gatePause,
           PickUp, TurnRead, stopIfStarterEnded, EndStopped, Ask, Answer, Finish, Gone,
           LeaseLapses, RunUnchanged
  <2> QED
    BY <2>1, <2>2, <2>3, <2>4
<1> QED
  BY <1>3, <1>4 DEF AskedInv

\* No answer to a question from before a takeover reaches a run after it, for
\* any number of plans and mandates and whatever runs start between clearing
\* the prompts and the transaction (they are in two files).
THEOREM NoInheritedAnswerCorrect == Spec => NoInheritedAnswer
<1>1. Init => IInv /\ AskedInv
  <2>1. Init => AskedInv
    BY DEF Init, AskedInv, Shown, NoQuestion
  <2> QED
    BY <2>1, InitIInv
<1>2. (IInv /\ AskedInv) /\ [Next]_vars => (IInv /\ AskedInv)'
  BY NextIInv, AskedStep
<1>3. IInv /\ AskedInv /\ [Next]_vars =>
        [\A p \in Plan : (run[p].pc = "pickup" /\ run'[p].pc = "turn")
                         => ~question[p].old]_vars
  BY DEF AskedInv
<1> QED
  BY <1>1, <1>2, <1>3, PTL DEF Spec, NoInheritedAnswer

============================================================================
