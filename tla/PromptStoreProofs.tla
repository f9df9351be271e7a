--------------------------- MODULE PromptStoreProofs ---------------------------
(***************************************************************************)
(* What holds of the prompt store for every set of prompts, sessions,      *)
(* triggers and grants, every TTL and every length of time.                *)
(***************************************************************************)
EXTENDS PromptStore, TLAPS

-----------------------------------------------------------------------------
(* The two writers every operation is built from.                          *)

\* Closing any rows for a known reason leaves a table.
LEMMA ClosedType ==
    ASSUME TypeOK, NEW ps, NEW r \in ClosedReasons
    PROVE  Closed(ps, r) \in [Prompts -> Row]
BY DEF TypeOK, Closed, Row, Status

\* What closing does to one row.
LEMMA ClosedRow ==
    ASSUME TypeOK, NEW ps, NEW r, NEW p \in Prompts
    PROVE  /\ p \in ps => /\ Closed(ps, r)[p].status = "expired"
                          /\ Closed(ps, r)[p].closedReason = r
           /\ p \notin ps => Closed(ps, r)[p] = prompt[p]
           /\ Closed(ps, r)[p].session = prompt[p].session
           /\ Closed(ps, r)[p].card = prompt[p].card
           /\ Closed(ps, r)[p].trigger = prompt[p].trigger
           /\ Closed(ps, r)[p].expiresAt = prompt[p].expiresAt
BY DEF TypeOK, Closed, Row

\* Waking waiters leaves a table of waits.
LEMMA WakeType ==
    ASSUME TypeOK, NEW ps, NEW o \in WaitState, Wake(ps, o)
    PROVE  wait' \in [Prompts -> WaitState]
BY DEF TypeOK, Wake

\* The table expireUnparked leaves.
LEMMA UnparkedType ==
    ASSUME TypeOK
    PROVE  UnparkedClosed \in [Prompts -> Row]
BY ClosedType DEF UnparkedClosed, ClosedReasons, TypeOK

\* What expireUnparked does to one row.
LEMMA UnparkedRow ==
    ASSUME TypeOK, NEW p \in Prompts
    PROVE  /\ p \in Unparked => UnparkedClosed[p].status = "expired"
           /\ p \notin Unparked => UnparkedClosed[p] = prompt[p]
           /\ UnparkedClosed[p].session = prompt[p].session
           /\ UnparkedClosed[p].card = prompt[p].card
           /\ UnparkedClosed[p].expiresAt = prompt[p].expiresAt
BY ClosedRow DEF UnparkedClosed

-----------------------------------------------------------------------------
(* Type correctness.                                                       *)

\* The initial state is well typed,
LEMMA TypeInit == Init => TypeOK
BY PromptStoreAssumption DEF Init, TypeOK, NoRow, Row, Status, Askers, WaitState

\* and so is every later one.
LEMMA TypeStep == TypeOK /\ [Next]_vars => TypeOK'
<1> SUFFICES ASSUME TypeOK, [Next]_vars PROVE TypeOK'
  OBVIOUS
<1> USE DEF ClosedReasons
<1>1. ASSUME NEW p \in Prompts, NEW s \in Sessions, NEW c \in BOOLEAN,
             NEW t \in Triggers \union {Null}, NEW a \in Askers,
             Insert(p, s, c, t, a)
      PROVE  TypeOK'
  <2> DEFINE r == [status |-> "pending", session |-> s, card |-> c,
                   trigger |-> t, asker |-> a, expiresAt |-> now + TTL,
                   closedReason |-> Null, partial |-> FALSE]
  <2>1. r \in Row
    BY PromptStoreAssumption DEF Row, Status, TypeOK
  <2>2. Closed(Superseded(s, c), "superseded") \in [Prompts -> Row]
    BY ClosedType
  <2>3. prompt' \in [Prompts -> Row]
    BY <1>1, <2>1, <2>2 DEF Insert
  <2> QED
    BY <1>1, <2>3 DEF Insert, TypeOK
<1>2. ASSUME NEW p \in Prompts, Answer(p) PROVE TypeOK'
  <2>1. prompt' \in [Prompts -> Row]
    BY <1>2 DEF Answer, TypeOK, Row, Status
  <2> QED
    BY <1>2, <2>1, WakeType DEF Answer, TypeOK, WaitState
<1>3. ASSUME NEW p \in Prompts, SetPartialAnswers(p) PROVE TypeOK'
  BY <1>3 DEF SetPartialAnswers, TypeOK, Row
<1>4. CASE ExpireOld
  <2>1. Closed(PendingLapsed, "timed_out") \in [Prompts -> Row]
    BY ClosedType
  <2>2. \A q \in Prompts : [prompt[q] EXCEPT !.trigger = Null] \in Row
    BY DEF TypeOK, Row
  <2>3. prompt' \in [Prompts -> Row]
    BY <1>4, <2>1, <2>2 DEF ExpireOld
  <2> QED
    BY <1>4, <2>3, WakeType DEF ExpireOld, TypeOK, WaitState
<1>5. CASE Shutdown
  BY <1>5, UnparkedType, WakeType DEF Shutdown, TypeOK, WaitState
<1>6. CASE Boot
  BY <1>6, UnparkedType DEF Boot, TypeOK, WaitState
<1>7. ASSUME NEW ps, NEW r \in ClosedReasons, CloseAndWake(ps, r),
             UNCHANGED <<live, now>>
      PROVE  TypeOK'
  BY <1>7, ClosedType, WakeType DEF CloseAndWake, TypeOK, WaitState
<1>8. ASSUME NEW p \in Prompts, ReleaseTrigger(p) PROVE TypeOK'
  BY <1>8 DEF ReleaseTrigger, TypeOK, Row
<1>9. ASSUME NEW p \in Prompts, Evaluate(p), UNCHANGED <<live, now>>
      PROVE  TypeOK'
  <2>1. prompt' \in [Prompts -> Row]
    BY <1>9, ClosedType DEF Evaluate, TypeOK
  <2> QED
    BY <1>9, <2>1 DEF Evaluate, TypeOK, WaitState
<1>10. ASSUME NEW ps \in SUBSET Prompts, Abort(ps) PROVE TypeOK'
  BY <1>10 DEF Abort, TypeOK, WaitState
<1>11. ASSUME NEW m \in Mandates, EndMandate(m) PROVE TypeOK'
  BY <1>11 DEF EndMandate, TypeOK
<1>12. CASE Advance
  BY <1>12, PromptStoreAssumption DEF Advance, TypeOK
<1>13. CASE UNCHANGED vars
  BY <1>13 DEF vars, TypeOK
<1> QED
  BY <1>1, <1>2, <1>3, <1>4, <1>5, <1>6, <1>7, <1>8, <1>9, <1>10, <1>11, <1>12,
     <1>13
  DEF Next, WithdrawForDeletedThread, ExpireEndedMandates,
      ExpirePendingForTrigger, ExpirePrompt, WaitForSettled, Timer, Askers

\* Every row, wait, grant and clock reading stays in its type.
THEOREM TypeCorrect == Spec => []TypeOK
<1> QED
  BY TypeInit, TypeStep, PTL DEF Spec

-----------------------------------------------------------------------------
(* Safety.  None of the three invariants is inductive alone: that an answer *)
(* reaches its waiter rests on the waiter's row not having been replaced,  *)
(* and that a superseded card leaves nobody behind on nobody waiting for a *)
(* card.                                                                   *)

\* Nothing waits for an onboarding card.
CardUnwatched == \A p \in Prompts : prompt[p].card => wait[p] # "waiting"

IInv == /\ TypeOK
        /\ OnePendingPerSession
        /\ OutcomeMatchesRow
        /\ StaleWaitOnlyTimedOut
        /\ CardUnwatched

\* A step that opens no row and moves none to another session keeps the slots
\* single.
LEMMA SlotsKept ==
    ASSUME OnePendingPerSession,
           \A p \in Prompts : /\ prompt'[p].session = prompt[p].session
                              /\ prompt'[p].status = "pending"
                                    => prompt[p].status = "pending"
    PROVE  OnePendingPerSession'
BY DEF OnePendingPerSession, Pending

\* A step that touches neither a row's status, card, deadline and reason nor
\* any wait, and does not turn back the clock, keeps the rest.
LEMMA WaitsKept ==
    ASSUME IInv, TypeOK', UNCHANGED wait, now' >= now,
           \A p \in Prompts : /\ prompt'[p].status = prompt[p].status
                              /\ prompt'[p].card = prompt[p].card
                              /\ prompt'[p].expiresAt = prompt[p].expiresAt
                              /\ prompt'[p].closedReason = prompt[p].closedReason
    PROVE  (OutcomeMatchesRow /\ StaleWaitOnlyTimedOut /\ CardUnwatched)'
<1> \A p \in Prompts : prompt[p].expiresAt \in Nat
  BY DEF IInv, TypeOK, Row
<1> QED
  BY DEF IInv, TypeOK, OutcomeMatchesRow, StaleWaitOnlyTimedOut, CardUnwatched,
         Lapsed

\* A step that closes pending rows and wakes their waiters keeps all of it.
LEMMA ClosingKept ==
    ASSUME IInv, TypeOK', UNCHANGED now, NEW ps \in SUBSET Pending,
           Wake(ps, "expired"),
           \A p \in Prompts :
              /\ p \in ps => prompt'[p].status = "expired"
              /\ p \notin ps =>
                    /\ prompt'[p].status = prompt[p].status
                    /\ prompt'[p].closedReason = prompt[p].closedReason
              /\ prompt'[p].session = prompt[p].session
              /\ prompt'[p].card = prompt[p].card
              /\ prompt'[p].expiresAt = prompt[p].expiresAt
    PROVE  IInv'
<1>1. OnePendingPerSession'
  BY SlotsKept DEF IInv, Pending
<1>2. \A p \in Prompts :
         wait'[p] = IF p \in ps /\ wait[p] = "waiting" THEN "expired" ELSE wait[p]
  BY DEF Wake
<1>3. OutcomeMatchesRow' /\ CardUnwatched'
  BY <1>2 DEF IInv, OutcomeMatchesRow, CardUnwatched, Pending
<1>4. StaleWaitOnlyTimedOut'
  BY <1>2 DEF IInv, StaleWaitOnlyTimedOut, Lapsed, Pending
<1> QED
  BY <1>1, <1>3, <1>4 DEF IInv

\* At the start nobody waits.
LEMMA SafetyInit == Init => IInv
BY TypeInit DEF Init, IInv, OnePendingPerSession, Pending, OutcomeMatchesRow,
                StaleWaitOnlyTimedOut, CardUnwatched, NoRow

\* Every operation keeps the invariant.
LEMMA SafetyStep == IInv /\ [Next]_vars => IInv'
<1> SUFFICES ASSUME IInv, [Next]_vars PROVE IInv'
  OBVIOUS
<1>a. TypeOK /\ TypeOK'
  BY TypeStep DEF IInv
<1>1. ASSUME NEW p \in Prompts, NEW s \in Sessions, NEW c \in BOOLEAN,
             NEW t \in Triggers \union {Null}, NEW a \in Askers,
             Insert(p, s, c, t, a)
      PROVE  IInv'
  <2> DEFINE ps == Superseded(s, c)
             r == [status |-> "pending", session |-> s, card |-> c,
                   trigger |-> t, asker |-> a, expiresAt |-> now + TTL,
                   closedReason |-> Null, partial |-> FALSE]
  <2>1. prompt'[p] = r
    BY <1>1, <1>a, ClosedType DEF Insert, ClosedReasons
  <2>2. \A q \in Prompts \ {p} : prompt'[q] = Closed(ps, "superseded")[q]
    BY <1>1, <1>a, ClosedType DEF Insert, ClosedReasons
  <2>3. /\ ps \subseteq {q \in Prompts : prompt[q].status = "pending" /\ prompt[q].card}
        /\ SlotHolders(s) \subseteq ps
    BY <1>1 DEF Insert, Superseded, SlotHolders, Pending
  <2>4. \A q \in Prompts \ {p} :
           /\ prompt'[q].status = "pending" => prompt[q].status = "pending" /\ q \notin ps
           /\ prompt'[q].session = prompt[q].session
    BY <2>2, <1>a, ClosedRow
  <2>5. OnePendingPerSession'
    BY <2>1, <2>3, <2>4 DEF IInv, OnePendingPerSession, Pending, SlotHolders
  <2>6. wait' = wait /\ now' = now /\ prompt[p].status = "absent"
    BY <1>1 DEF Insert
  <2>7. wait[p] \notin {"waiting", "answered", "expired"}
    BY <2>6 DEF IInv, OutcomeMatchesRow, StaleWaitOnlyTimedOut
  <2>8. \A q \in ps : wait[q] \notin {"waiting", "answered", "expired"}
    BY <2>3 DEF IInv, OutcomeMatchesRow, CardUnwatched
  <2>9. \A q \in Prompts \ {p} :
           /\ q \notin ps => prompt'[q] = prompt[q]
           /\ prompt'[q].card = prompt[q].card
    BY <2>2, <1>a, ClosedRow
  <2>10. (OutcomeMatchesRow /\ StaleWaitOnlyTimedOut /\ CardUnwatched)'
    BY <2>6, <2>7, <2>8, <2>9
    DEF IInv, OutcomeMatchesRow, StaleWaitOnlyTimedOut, CardUnwatched, Lapsed
  <2> QED
    BY <2>5, <2>10, <1>a DEF IInv
<1>2. ASSUME NEW p \in Prompts, Answer(p) PROVE IInv'
  <2>1. /\ prompt'[p] = [prompt[p] EXCEPT !.status = "answered"]
        /\ prompt[p].status = "pending"
        /\ \A q \in Prompts \ {p} : prompt'[q] = prompt[q]
        /\ now' = now
    BY <1>2, <1>a DEF Answer, Pending, TypeOK
  <2>2. /\ prompt'[p].status = "answered"
        /\ prompt'[p].session = prompt[p].session
        /\ prompt'[p].card = prompt[p].card
    BY <2>1, <1>a DEF TypeOK, Row
  <2>3. OnePendingPerSession'
    BY <2>1, <2>2, SlotsKept DEF IInv
  <2>4. \A q \in Prompts :
           wait'[q] = IF q = p /\ wait[q] = "waiting" THEN "answered" ELSE wait[q]
    BY <1>2 DEF Answer, Wake
  <2>5. wait'[p] \notin {"waiting", "expired"}
    BY <2>1, <2>4 DEF IInv, OutcomeMatchesRow
  <2>6. \A q \in Prompts \ {p} : prompt'[q] = prompt[q] /\ wait'[q] = wait[q]
    BY <2>1, <2>4
  <2>7. OutcomeMatchesRow' /\ CardUnwatched'
    BY <2>2, <2>5, <2>6 DEF IInv, OutcomeMatchesRow, CardUnwatched
  <2>8. StaleWaitOnlyTimedOut'
    BY <2>1, <2>5, <2>6 DEF IInv, StaleWaitOnlyTimedOut, Lapsed
  <2> QED
    BY <2>3, <2>7, <2>8, <1>a DEF IInv
<1>3. ASSUME NEW p \in Prompts, SetPartialAnswers(p) \/ ReleaseTrigger(p)
      PROVE  IInv'
  <2>1. \A q \in Prompts :
           /\ prompt'[q].status = prompt[q].status
           /\ prompt'[q].session = prompt[q].session
           /\ prompt'[q].card = prompt[q].card
           /\ prompt'[q].expiresAt = prompt[q].expiresAt
           /\ prompt'[q].closedReason = prompt[q].closedReason
    BY <1>3, <1>a DEF SetPartialAnswers, ReleaseTrigger, TypeOK, Row
  <2>2. UNCHANGED wait /\ now' >= now
    BY <1>3, <1>a DEF SetPartialAnswers, ReleaseTrigger, TypeOK
  <2> QED
    BY <2>1, <2>2, <1>a, SlotsKept, WaitsKept DEF IInv
<1>4. CASE ExpireOld
  <2>1. \A q \in Prompts :
           /\ q \in PendingLapsed => prompt'[q].status = "expired"
           /\ q \notin PendingLapsed =>
                 /\ prompt'[q].status = prompt[q].status
                 /\ prompt'[q].closedReason = prompt[q].closedReason
           /\ prompt'[q].session = prompt[q].session
           /\ prompt'[q].card = prompt[q].card
           /\ prompt'[q].expiresAt = prompt[q].expiresAt
    <3> TAKE q \in Prompts
    <3>1. CASE prompt[q].status = "answered" /\ Lapsed(q)
      <4>1. prompt'[q] = [prompt[q] EXCEPT !.trigger = Null]
        BY <1>4, <3>1 DEF ExpireOld
      <4> QED
        BY <3>1, <4>1, <1>a DEF PendingLapsed, Pending, TypeOK, Row
    <3>2. CASE ~(prompt[q].status = "answered" /\ Lapsed(q))
      <4>1. prompt'[q] = Closed(PendingLapsed, "timed_out")[q]
        BY <1>4, <3>2 DEF ExpireOld
      <4> QED
        BY <4>1, <1>a, ClosedRow
    <3> QED
      BY <3>1, <3>2
  <2>2. PendingLapsed \in SUBSET Pending
    BY DEF PendingLapsed
  <2> QED
    BY <1>4, <2>1, <2>2, <1>a, ClosingKept DEF ExpireOld
<1>5. CASE Shutdown
  <2>1. Unparked \in SUBSET Pending
    BY DEF Unparked
  <2> QED
    BY <1>5, <2>1, <1>a, UnparkedRow, ClosingKept DEF Shutdown
<1>6. CASE Boot
  <2>1. OnePendingPerSession'
    BY <1>6, <1>a, UnparkedRow, SlotsKept DEF Boot, IInv, Unparked, Pending
  <2> QED
    BY <1>6, <2>1, <1>a
    DEF Boot, IInv, OutcomeMatchesRow, StaleWaitOnlyTimedOut, CardUnwatched
<1>7. ASSUME NEW ps \in SUBSET Pending, NEW r, CloseAndWake(ps, r),
             UNCHANGED <<live, now>>
      PROVE  IInv'
  BY <1>7, <1>a, ClosedRow, ClosingKept DEF CloseAndWake
<1>8. ASSUME NEW p \in Prompts, Evaluate(p), UNCHANGED <<live, now>>,
             ~prompt[p].card
      PROVE  IInv'
  <2>1. CASE p \in PendingLapsed /\ prompt' = Closed(PendingLapsed, "timed_out")
                /\ wait' = [wait EXCEPT ![p] = "expired"]
    <3>1. \A q \in Prompts :
             /\ prompt'[q].session = prompt[q].session
             /\ prompt'[q].card = prompt[q].card
             /\ prompt'[q].expiresAt = prompt[q].expiresAt
             /\ q \in PendingLapsed => /\ prompt'[q].status = "expired"
                                       /\ prompt'[q].closedReason = "timed_out"
             /\ q \notin PendingLapsed => prompt'[q] = prompt[q]
      BY <2>1, <1>a, ClosedRow
    <3>2. OnePendingPerSession'
      BY <3>1, SlotsKept DEF IInv, PendingLapsed, Pending
    <3>3. /\ wait'[p] = "expired"
          /\ \A q \in Prompts \ {p} : wait'[q] = wait[q]
      BY <2>1, <1>a DEF TypeOK
    <3>4. (OutcomeMatchesRow /\ CardUnwatched)'
      BY <2>1, <3>1, <3>3 DEF IInv, OutcomeMatchesRow, CardUnwatched,
                              PendingLapsed, Pending
    <3>5. StaleWaitOnlyTimedOut'
      BY <1>8, <3>1, <3>3 DEF IInv, StaleWaitOnlyTimedOut, PendingLapsed,
                              Pending, Lapsed
    <3> QED
      BY <3>2, <3>4, <3>5, <1>a DEF IInv
  <2>2. CASE prompt' = prompt
                /\ \/ p \in Pending /\ wait' = [wait EXCEPT ![p] = "waiting"]
                   \/ /\ prompt[p].status \in {"answered", "expired"}
                      /\ wait' = [wait EXCEPT ![p] = prompt[p].status]
    <3>1. OnePendingPerSession'
      BY <2>2, SlotsKept DEF IInv
    <3>2. /\ wait'[p] \in {"waiting", "answered", "expired"}
          /\ wait'[p] = "waiting" => prompt[p].status = "pending"
          /\ wait'[p] # "waiting" => wait'[p] = prompt[p].status
          /\ \A q \in Prompts \ {p} : wait'[q] = wait[q]
      BY <2>2, <1>a DEF TypeOK, Pending
    <3>3. (OutcomeMatchesRow /\ StaleWaitOnlyTimedOut /\ CardUnwatched)'
      BY <1>8, <2>2, <3>2
      DEF IInv, OutcomeMatchesRow, StaleWaitOnlyTimedOut, CardUnwatched, Lapsed
    <3> QED
      BY <3>1, <3>3, <1>a DEF IInv
  <2> QED
    BY <1>8, <2>1, <2>2 DEF Evaluate
<1>9. ASSUME NEW ps \in SUBSET Prompts, Abort(ps) PROVE IInv'
  <2>1. prompt' = prompt /\ now' = now
    BY <1>9 DEF Abort
  <2>2. \A q \in Prompts : wait'[q] \in {"aborted", wait[q]}
    BY <1>9, <1>a DEF Abort, TypeOK
  <2>3. \A q \in Prompts : wait[q] = "none" => wait'[q] = "none"
    BY <1>9, <1>a DEF Abort, TypeOK
  <2>4. OnePendingPerSession'
    BY <2>1, SlotsKept DEF IInv
  <2> QED
    BY <2>1, <2>2, <2>3, <2>4, <1>a
    DEF IInv, OutcomeMatchesRow, StaleWaitOnlyTimedOut, CardUnwatched, Lapsed
<1>10. ASSUME UNCHANGED <<prompt, wait>>, now' >= now PROVE IInv'
  BY <1>10, <1>a, SlotsKept, WaitsKept DEF IInv
<1>11. ASSUME NEW p \in Prompts, WaitForSettled(p) \/ Timer(p) PROVE IInv'
  <2>1. ~prompt[p].card
    BY <1>11 DEF WaitForSettled, Timer, IInv, CardUnwatched
  <2> QED
    BY <1>8, <1>11, <2>1 DEF WaitForSettled, Timer
<1>12. CASE \E m \in Mandates : EndMandate(m)
  BY <1>10, <1>12, <1>a DEF EndMandate, TypeOK
<1>13. CASE Advance
  BY <1>10, <1>13, <1>a DEF Advance, TypeOK
<1>14. CASE UNCHANGED vars
  BY <1>10, <1>14, <1>a DEF vars, TypeOK
<1>15. CASE \E s \in Sessions : WithdrawForDeletedThread(s)
  BY <1>7, <1>15 DEF WithdrawForDeletedThread, Unparked
<1>16. CASE ExpireEndedMandates
  BY <1>7, <1>16 DEF ExpireEndedMandates, EndedMandates
<1>17. CASE \E t \in Triggers, r \in TriggerReasons : ExpirePendingForTrigger(t, r)
  BY <1>7, <1>17 DEF ExpirePendingForTrigger, PendingFor
<1>18. CASE \E p \in Prompts, r \in PromptReasons : ExpirePrompt(p, r)
  BY <1>7, <1>18 DEF ExpirePrompt
<1> QED
  BY <1>1, <1>2, <1>3, <1>4, <1>5, <1>6, <1>9, <1>11, <1>12, <1>13, <1>14,
     <1>15, <1>16, <1>17, <1>18
  DEF Next, Askers

\* One open question per thread, waiters told what the row says, and nobody
\* left asleep on an answered or withdrawn question: the index, the
\* supersede-and-retry of _insert and the emit after each write are enough.
THEOREM StoreSafe ==
    Spec => [](OnePendingPerSession /\ OutcomeMatchesRow /\ StaleWaitOnlyTimedOut)
<1>1. IInv => OnePendingPerSession /\ OutcomeMatchesRow /\ StaleWaitOnlyTimedOut
  BY DEF IInv
<1> QED
  BY <1>1, SafetyInit, SafetyStep, PTL DEF Spec

\* No answer, sweep, timer, shutdown or boot changes a settled question, but
\* for its trigger letting go of it.
THEOREM SettledFinal == Spec => SettledIsFinal
<1>1. ASSUME TypeOK, [Next]_vars, NEW p \in Prompts,
             prompt[p].status \in {"answered", "expired"}
      PROVE  \/ prompt'[p] = prompt[p]
             \/ prompt'[p] = [prompt[p] EXCEPT !.trigger = Null]
  <2>a. p \notin Pending
    BY <1>1 DEF Pending
  <2>1. ASSUME NEW q \in Prompts, NEW s \in Sessions, NEW c \in BOOLEAN,
               NEW t \in Triggers \union {Null}, NEW a \in Askers,
               Insert(q, s, c, t, a)
        PROVE  prompt'[p] = prompt[p]
    <3>1. p # q /\ p \notin Superseded(s, c)
      BY <1>1, <2>1, <2>a DEF Insert, Superseded, SlotHolders
    <3>2. prompt'[p] = Closed(Superseded(s, c), "superseded")[p]
      BY <1>1, <2>1, <3>1, ClosedType DEF Insert, ClosedReasons
    <3> QED
      BY <1>1, <3>1, <3>2, ClosedRow
  <2>2. ASSUME NEW q \in Prompts, Answer(q) \/ SetPartialAnswers(q)
        PROVE  prompt'[p] = prompt[p]
    BY <1>1, <2>2, <2>a DEF Answer, SetPartialAnswers, TypeOK
  <2>3. ASSUME NEW q \in Prompts, ReleaseTrigger(q)
        PROVE  \/ prompt'[p] = prompt[p]
               \/ prompt'[p] = [prompt[p] EXCEPT !.trigger = Null]
    BY <1>1, <2>3 DEF ReleaseTrigger, TypeOK
  <2>4. CASE ExpireOld
    <3>1. Closed(PendingLapsed, "timed_out")[p] = prompt[p]
      BY <1>1, <2>a, ClosedRow DEF PendingLapsed
    <3> QED
      BY <2>4, <3>1 DEF ExpireOld
  <2>5. CASE Shutdown \/ Boot
    BY <1>1, <2>5, <2>a, UnparkedRow DEF Shutdown, Boot, Unparked
  <2>6. ASSUME NEW ps \in SUBSET Pending, NEW r, prompt' = Closed(ps, r)
        PROVE  prompt'[p] = prompt[p]
    BY <1>1, <2>6, <2>a, ClosedRow
  <2>7. ASSUME NEW q \in Prompts, WaitForSettled(q) \/ Timer(q)
        PROVE  prompt'[p] = prompt[p]
    <3>1. Evaluate(q)
      BY <2>7 DEF WaitForSettled, Timer
    <3> QED
      BY <2>6, <3>1 DEF Evaluate, PendingLapsed
  <2>8. CASE \/ \E s \in Sessions : WithdrawForDeletedThread(s)
             \/ ExpireEndedMandates
             \/ \E t \in Triggers, r \in TriggerReasons : ExpirePendingForTrigger(t, r)
             \/ \E q \in Prompts, r \in PromptReasons : ExpirePrompt(q, r)
    BY <2>6, <2>8
    DEF WithdrawForDeletedThread, ExpireEndedMandates, ExpirePendingForTrigger,
        ExpirePrompt, CloseAndWake, Unparked, EndedMandates, PendingFor
  <2>9. CASE \/ \E ps \in SUBSET Prompts : Abort(ps)
             \/ \E m \in Mandates : EndMandate(m)
             \/ Advance
             \/ UNCHANGED vars
    BY <2>9 DEF Abort, EndMandate, Advance, vars
  <2> QED
    BY <1>1, <2>1, <2>2, <2>3, <2>4, <2>5, <2>7, <2>8, <2>9 DEF Next, Askers
<1>2. TypeOK /\ [Next]_vars =>
         [\A p \in Prompts :
             prompt[p].status \in {"answered", "expired"} =>
                \/ prompt'[p] = prompt[p]
                \/ prompt'[p] = [prompt[p] EXCEPT !.trigger = Null]]_vars
  BY <1>1
<1> QED
  BY <1>2, TypeInit, TypeStep, PTL DEF Spec, SettledIsFinal

=============================================================================
