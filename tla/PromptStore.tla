------------------------------ MODULE PromptStore ------------------------------
(***************************************************************************)
(* The prompt store (core/prompt-store.ts): the questions that runs put to *)
(* a human, one row of `pending_prompts` each, and the in-process promises *)
(* (`waitForSettled`) that wait for them.                                  *)
(*                                                                         *)
(* A row is pending until it is answered or expired.  It may point at a    *)
(* trigger: then it is PARKED, and survives the process that asked.  The   *)
(* store is the durability layer, the event bus the latency layer: a write *)
(* that closes a row emits `settled:<id>` and the waiter re-reads the row  *)
(* in the same synchronous step.  Two writes close rows without emitting   *)
(* for them (see Superseded and Evaluate); a 30 s timer per waiter is the  *)
(* net under those.                                                        *)
(*                                                                         *)
(* Data left out: question text, options, segments, the answer's text and  *)
(* its masking.  A refused call (PromptConflictError, UnattendedBlockError,*)
(* MandateKeyInputError) changes nothing and is a guard here.              *)
(***************************************************************************)
EXTENDS Naturals

CONSTANTS
    Prompts,    \* ids a row can get (randomUUID: never used twice)
    Sessions,   \* chat threads
    Triggers,   \* triggers a question can be parked on
    Mandates,   \* grants a non-owner can ask under
    PromptReasons,  \* reasons expirePrompt's callers close one question with
    TriggerReasons, \* reasons expirePendingForTrigger's callers close with
    Null,       \* SQL NULL
    TTL,        \* PROMPT_TTL_MS
    MaxTime     \* bound on the clock

ASSUME PromptStoreAssumption ==
    /\ Null \notin Sessions \union Triggers
    /\ "owner" \notin Mandates
    /\ TTL \in Nat \ {0}
    /\ MaxTime \in Nat

VARIABLES
    prompt,   \* the table: Prompts -> row
    wait,     \* the waitForSettled promise of each row, in the live process
    live,     \* the grants that have not ended (engine.db, seen as isLive)
    now       \* the clock

vars == <<prompt, wait, live, now>>

Status == {"absent", "pending", "answered", "expired"}

\* A mandate's row that names no grant reads like one whose grant has ended.
Askers == Mandates \union {"owner"}

\* PromptClosedReason: the callers' reasons (run_stopped, run_taken_over,
\* plan_paused, plan_ended, ...) and the store's own.
ClosedReasons ==
    PromptReasons \union TriggerReasons \union
    {"timed_out", "process_restarted", "thread_deleted", "mandate_ended",
     "superseded"}

Row == [status : Status,
        session : Sessions \union {Null},
        card : BOOLEAN,               \* the onboarding_basics marker
        trigger : Triggers \union {Null},
        asker : Askers,
        expiresAt : Nat,
        closedReason : ClosedReasons \union {Null},
        partial : BOOLEAN]            \* partial_answers_json is set

\* "none": nobody waits; the last three are the promise's outcome.
WaitState == {"none", "waiting", "answered", "expired", "aborted"}

TypeOK ==
    /\ prompt \in [Prompts -> Row]
    /\ wait \in [Prompts -> WaitState]
    /\ live \in SUBSET Mandates
    /\ now \in 0..MaxTime

NoRow == [status |-> "absent", session |-> Null, card |-> FALSE,
          trigger |-> Null, asker |-> "owner", expiresAt |-> 0,
          closedReason |-> Null, partial |-> FALSE]

Init ==
    /\ prompt = [p \in Prompts |-> NoRow]
    /\ wait = [p \in Prompts |-> "none"]
    /\ live \in SUBSET Mandates
    /\ now = 0

-----------------------------------------------------------------------------
(* Reading the table.                                                      *)

Pending == {p \in Prompts : prompt[p].status = "pending"}

\* EXPIRED: julianday(expires_at) <= julianday('now').
Lapsed(p) == prompt[p].expiresAt <= now

PendingLapsed == {p \in Pending : Lapsed(p)}

\* The row that holds the session's slot of the partial unique index, if any.
SlotHolders(s) == {p \in Pending : prompt[p].session = s}

\* getPendingForTrigger
PendingFor(t) == {p \in Pending : prompt[p].trigger = t}

\* getAnsweredForTrigger
AnsweredFor(t) == {p \in Prompts : /\ prompt[p].status = "answered"
                                   /\ prompt[p].trigger = t}

-----------------------------------------------------------------------------
(* Writing it.                                                             *)

Closed(ps, reason) ==
    [q \in Prompts |->
        IF q \in ps
        THEN [prompt[q] EXCEPT !.status = "expired", !.closedReason = reason]
        ELSE prompt[q]]

\* _emitSettled for each row of ps: its waiter, if any, gets the outcome.
Wake(ps, outcome) ==
    wait' = [q \in Prompts |->
                IF q \in ps /\ wait[q] = "waiting" THEN outcome ELSE wait[q]]

CloseAndWake(ps, reason) ==
    /\ prompt' = Closed(ps, reason)
    /\ Wake(ps, "expired")

\* The abandoned onboarding card a new question clears out of its way; its
\* close emits nothing, and nothing waits on a card.
Superseded(s, card) ==
    IF card THEN {} ELSE {p \in SlotHolders(s) : prompt[p].card}

\* insertQuestion, insertAskUserTabs, insertAskSecret, insertConnectMail,
\* insertOnboardingBasics (card), all through _insert.
Insert(p, s, card, t, a) ==
    /\ prompt[p].status = "absent"
    /\ SlotHolders(s) \subseteq Superseded(s, card)
    /\ now + TTL <= MaxTime
    /\ prompt' = [Closed(Superseded(s, card), "superseded") EXCEPT
                     ![p] = [status |-> "pending", session |-> s,
                             card |-> card, trigger |-> t, asker |-> a,
                             expiresAt |-> now + TTL,
                             closedReason |-> Null, partial |-> FALSE]]
    /\ UNCHANGED <<wait, live, now>>

\* MUTANT: the UPDATE is not conditional on the row being pending.
Answer_AnyStatus(p) ==
    /\ prompt[p].status # "absent"
    /\ ~Lapsed(p)
    /\ prompt' = [prompt EXCEPT ![p].status = "answered"]
    /\ Wake({p}, "answered")
    /\ UNCHANGED <<live, now>>

\* answerUser, answerUserTabs, answerSecret, answerMailConnect.
Answer(p) ==
    /\ p \in Pending
    /\ ~Lapsed(p)
    /\ prompt' = [prompt EXCEPT ![p].status = "answered"]
    /\ Wake({p}, "answered")
    /\ UNCHANGED <<live, now>>

\* Guarded by the status only: a lapsed row still takes partial answers.
SetPartialAnswers(p) ==
    /\ p \in Pending
    /\ prompt' = [prompt EXCEPT ![p].partial = TRUE]
    /\ UNCHANGED <<wait, live, now>>

\* MUTANT: the sweep leaves answered rows their pointers.
ExpireOld_NoDetach ==
    /\ prompt' = Closed(PendingLapsed, "timed_out")
    /\ Wake(PendingLapsed, "expired")
    /\ UNCHANGED <<live, now>>

\* MUTANT: the sweep detaches every answered row, its time over or not.
ExpireOld_DetachesEarly ==
    /\ prompt' = [q \in Prompts |->
                    IF prompt[q].status = "answered"
                    THEN [prompt[q] EXCEPT !.trigger = Null]
                    ELSE Closed(PendingLapsed, "timed_out")[q]]
    /\ Wake(PendingLapsed, "expired")
    /\ UNCHANGED <<live, now>>

\* MUTANT: the sweep takes a parked question for its trigger's business.
ExpireOld_SparesParked ==
    /\ prompt' = [q \in Prompts |->
                    IF prompt[q].status = "answered" /\ Lapsed(q)
                    THEN [prompt[q] EXCEPT !.trigger = Null]
                    ELSE IF prompt[q].trigger = Null
                         THEN Closed(PendingLapsed, "timed_out")[q]
                         ELSE prompt[q]]
    /\ Wake({p \in PendingLapsed : prompt[p].trigger = Null}, "expired")
    /\ UNCHANGED <<live, now>>

\* The engine's five-minute sweep.
ExpireOld ==
    /\ prompt' = [q \in Prompts |->
                    IF prompt[q].status = "answered" /\ Lapsed(q)
                    THEN [prompt[q] EXCEPT !.trigger = Null]
                    ELSE Closed(PendingLapsed, "timed_out")[q]]
    /\ Wake(PendingLapsed, "expired")
    /\ UNCHANGED <<live, now>>

Unparked == {p \in Pending : prompt[p].trigger = Null}

\* The table after expireUnparked: the restart is the reason, unless the
\* row's own time had run out before.
UnparkedClosed ==
    [q \in Prompts |->
        IF q \in Unparked
        THEN Closed({q}, IF Lapsed(q) THEN "timed_out"
                         ELSE "process_restarted")[q]
        ELSE prompt[q]]

\* expireUnparked on the way down: the process still has its waiters.
Shutdown ==
    /\ prompt' = UnparkedClosed
    /\ Wake(Unparked, "expired")
    /\ UNCHANGED <<live, now>>

\* A new process on the same file, after a shutdown or a crash.
Boot ==
    /\ prompt' = UnparkedClosed
    /\ wait' = [p \in Prompts |-> "none"]
    /\ UNCHANGED <<live, now>>

WithdrawForDeletedThread(s) ==
    /\ CloseAndWake({p \in Unparked : prompt[p].session = s}, "thread_deleted")
    /\ UNCHANGED <<live, now>>

EndedMandates == {p \in Pending : /\ prompt[p].asker # "owner"
                                  /\ prompt[p].asker \notin live}

ExpireEndedMandates ==
    /\ CloseAndWake(EndedMandates, "mandate_ended")
    /\ UNCHANGED <<live, now>>

ExpirePendingForTrigger(t, reason) ==
    /\ CloseAndWake(PendingFor(t), reason)
    /\ UNCHANGED <<live, now>>

ExpirePrompt(p, reason) ==
    /\ p \in Pending
    /\ CloseAndWake({p}, reason)
    /\ UNCHANGED <<live, now>>

\* Conditional on the row being settled: a pending question without its pointer
\* would be closed by the next boot and its answer never found.
ReleaseTrigger(p) ==
    /\ prompt[p].status \in {"answered", "expired"}
    /\ prompt[p].trigger # Null
    /\ prompt' = [prompt EXCEPT ![p].trigger = Null]
    /\ UNCHANGED <<wait, live, now>>

-----------------------------------------------------------------------------
(* Waiting.                                                                *)

\* MUTANT: the clock is looked at before the row's status.
Evaluate_ClockFirst(p) ==
    \/ /\ Lapsed(p)
       /\ prompt' = Closed(PendingLapsed, "timed_out")
       /\ wait' = [wait EXCEPT ![p] = "expired"]
    \/ /\ ~Lapsed(p)
       /\ prompt' = prompt
       /\ wait' = [wait EXCEPT ![p] = IF p \in Pending THEN "waiting"
                                      ELSE prompt[p].status]

\* MUTANT: only a pending row is evaluated, so a row another reader closed is
\* never noticed.
Evaluate_PendingOnly(p) ==
    /\ p \in Pending
    /\ prompt' = Closed(PendingLapsed, "timed_out")
    /\ wait' = [wait EXCEPT ![p] = IF Lapsed(p) THEN "expired" ELSE "waiting"]

\* A waiter reads its row.  Past the row's time it runs the expiry statement,
\* which closes EVERY lapsed row, and emits for its own row only.
Evaluate(p) ==
    \/ /\ p \in PendingLapsed
       /\ prompt' = Closed(PendingLapsed, "timed_out")
       /\ wait' = [wait EXCEPT ![p] = "expired"]
    \/ /\ p \in Pending \ PendingLapsed
       /\ prompt' = prompt
       /\ wait' = [wait EXCEPT ![p] = "waiting"]
    \/ /\ prompt[p].status \in {"answered", "expired"}
       /\ prompt' = prompt
       /\ wait' = [wait EXCEPT ![p] = prompt[p].status]

\* waitForSettled: subscribe, then evaluate.  Nothing waits on a card.
WaitForSettled(p) ==
    /\ prompt[p].status # "absent"
    /\ ~prompt[p].card
    /\ wait[p] = "none"
    /\ Evaluate(p)
    /\ UNCHANGED <<live, now>>

\* The EXPIRY_CHECK_MS interval of a waiter.
Timer(p) ==
    /\ wait[p] = "waiting"
    /\ Evaluate(p)
    /\ UNCHANGED <<live, now>>

\* The callers' signals (a teardown aborts several at once): the promises
\* end, the rows are not touched.
Abort(ps) ==
    /\ \A p \in ps : wait[p] = "waiting"
    /\ wait' = [q \in Prompts |-> IF q \in ps THEN "aborted" ELSE wait[q]]
    /\ UNCHANGED <<prompt, live, now>>

-----------------------------------------------------------------------------
(* The environment.                                                        *)

EndMandate(m) ==
    /\ m \in live
    /\ live' = live \ {m}
    /\ UNCHANGED <<prompt, wait, now>>

Advance ==
    /\ now < MaxTime
    /\ now' = now + 1
    /\ UNCHANGED <<prompt, wait, live>>

Next ==
    \/ \E p \in Prompts, s \in Sessions, t \in Triggers \union {Null}, a \in Askers :
          Insert(p, s, FALSE, t, a)
    \/ \E p \in Prompts, s \in Sessions : Insert(p, s, TRUE, Null, "owner")
    \/ \E p \in Prompts :
          \/ Answer(p)
          \/ SetPartialAnswers(p)
          \/ ReleaseTrigger(p)
          \/ WaitForSettled(p)
          \/ Timer(p)
    \/ \E ps \in SUBSET Prompts : Abort(ps)
    \/ \E p \in Prompts, r \in PromptReasons : ExpirePrompt(p, r)
    \/ \E t \in Triggers, r \in TriggerReasons : ExpirePendingForTrigger(t, r)
    \/ \E s \in Sessions : WithdrawForDeletedThread(s)
    \/ ExpireOld
    \/ Shutdown
    \/ Boot
    \/ ExpireEndedMandates
    \/ \E m \in Mandates : EndMandate(m)
    \/ Advance

Spec == Init /\ [][Next]_vars

(***************************************************************************)
(* Time passes, each waiter's interval fires, and the engine's periodic    *)
(* sweep runs (setInterval, for as long as a process is up; a process that *)
(* goes down comes back, and Boot is a step of its own).  Nothing is       *)
(* assumed of the human or of the runs.                                    *)
(***************************************************************************)
Fairness ==
    /\ WF_vars(Advance)
    /\ WF_vars(ExpireOld)
    /\ \A p \in Prompts : WF_vars(Timer(p))

FairSpec == Spec /\ Fairness

-----------------------------------------------------------------------------
(* Properties.                                                             *)

\* At most one pending question per session: a thread's reply can name only
\* one question (the partial unique index and _insert's supersede-and-retry).
OnePendingPerSession ==
    \A p, q \in Pending : prompt[p].session = prompt[q].session => p = q

\* What a waiter was told is what the row says: `answered` only for an
\* answered row, `expired` only for an expired one, however the answer, the
\* sweeps, the timers and the shutdown interleave.
OutcomeMatchesRow ==
    \A p \in Prompts : wait[p] \in {"answered", "expired"}
                          => wait[p] = prompt[p].status

\* A waiter left behind on a closed row is one whose row another reader's
\* clock closed, and whose own time is over: every answer and every deliberate
\* close reaches its waiter in the same step, so no run sleeps on a question
\* that was answered or withdrawn.
StaleWaitOnlyTimedOut ==
    \A p \in Prompts :
        wait[p] = "waiting" => \/ prompt[p].status = "pending"
                               \/ /\ prompt[p].status = "expired"
                                  /\ prompt[p].closedReason = "timed_out"
                                  /\ Lapsed(p)

\* A settled question is settled for good: no later answer, sweep, timer or
\* restart changes it; at most its trigger lets go of it.
SettledIsFinal ==
    [][\A p \in Prompts :
          prompt[p].status \in {"answered", "expired"} =>
             \/ prompt'[p] = prompt[p]
             \/ prompt'[p] = [prompt[p] EXCEPT !.trigger = Null]]_vars

\* No run waits for ever: every wait ends, at the latest on the row's clock.
WaitEnds ==
    \A p \in Prompts : wait[p] = "waiting" ~> wait[p] # "waiting"

\* An answer nobody came for lets go of its trigger: a later, unrelated run is
\* not handed it.
AnsweredPointerBounded ==
    \A p \in Prompts :
        prompt[p].status = "answered" /\ prompt[p].trigger # Null
            ~> prompt[p].trigger = Null

\* Every question is closed in the end, parked or not: none holds its thread's
\* slot, or its trigger's wait, for ever.
PendingCloses ==
    \A p \in Prompts : p \in Pending ~> p \notin Pending

=============================================================================
