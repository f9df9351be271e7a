----------------------------- MODULE ApprovalQueue -----------------------------
(***************************************************************************)
(* The approval queue: the store (core/approval-store.ts), the executor    *)
(* (core/approval-executor.ts), the decide route (server/http-api.ts) and  *)
(* the two loops the engine starts (core/engine.ts).                       *)
(*                                                                         *)
(* A run nobody watches files a mail; the owner approves or discards it;   *)
(* an executor claims an approved entry, checks it again and sends it.     *)
(* Several engines may share one engine.db.  An attempt ends by its        *)
(* outcome, by its deadline or with its process; a sweep expires what      *)
(* waited too long, and calls a claim that nobody settled `unknown`.       *)
(*                                                                         *)
(* A mail stands for its dedup key; Family gives the mails of one account, *)
(* recipients and subject, Null being a reply, which has no family.        *)
(* Times are the stages of an entry's age: a deadline, a window or a       *)
(* retention time has been reached or it has not.  The payload and its     *)
(* checksum, the trail, the thread note and the texts are left out; where  *)
(* they can refuse a send, the refusal is a choice.  Entries are tried in  *)
(* any order.                                                              *)
(***************************************************************************)
EXTENDS Naturals, FiniteSets

CONSTANTS
    Entries,      \* ids
    Mails,        \* dedup keys
    Families,
    Family,       \* the family of each mail, or Null for a reply
    Procs,        \* engine processes on the same engine.db
    Null,
    Keyed,        \* the instance has a vault key (binding = 'keyed')
    MaxAttempts,  \* APPROVAL_MAX_ATTEMPTS
    MaxPending,   \* MAX_PENDING_PER_TRIGGER; every filing is of one trigger
    SendLimit     \* the cap on sends of a kind in the limit's window

ASSUME ApprovalQueueAssumption ==
    /\ Null \notin Entries \union Mails \union Families
    /\ Family \in [Mails -> Families \union {Null}]
    /\ Keyed \in BOOLEAN
    /\ MaxAttempts \in Nat \ {0}
    /\ MaxPending \in Nat /\ SendLimit \in Nat

VARIABLES
    row,     \* approval_entries
    ended,   \* entries whose mandate has ended
    on,      \* the queue's feature flag
    at,      \* the attempt each process's executor is in
    adrift,  \* sends begun whose attempt is over and which may still go out
    sent     \* how often each entry's mail went out

vars == <<row, ended, on, at, adrift, sent>>

Ended == {"done", "failed", "unknown", "rejected", "expired"}

Status == {"absent", "pending", "approved", "executing"} \union Ended

Row == [status : Status,
        mail : Mails \union {Null},
        held : {"no", "retry", "send_limit"},
        attempts : Nat,
        age : 0..2,          \* 1: expires_at, the stale limit or the dedup window
                             \* was reached; 2: purge_after
        counted : BOOLEAN,   \* claimed_at is in the send limit's window
        cleared : BOOLEAN,   \* decided_reason = 'cleared_unknown', or a cleared tombstone
        tomb : BOOLEAN,      \* tombstoned_at is set
        gone : BOOLEAN]      \* the row is deleted; the rest is what it last held

\* late: the process lost more time than the stale limit allows for.
Attempt == [phase : {"idle", "claimed", "asked", "sending"},
            entry : Entries \union {Null},
            out : BOOLEAN,
            late : BOOLEAN]

TypeOK ==
    /\ row \in [Entries -> Row]
    /\ ended \in SUBSET Entries
    /\ on \in BOOLEAN
    /\ at \in [Procs -> Attempt]
    /\ adrift \in [Entries -> Nat]
    /\ sent \in [Entries -> Nat]

NoRow == [status |-> "absent", mail |-> Null, held |-> "no", attempts |-> 0, age |-> 0,
          counted |-> FALSE, cleared |-> FALSE, tomb |-> FALSE, gone |-> FALSE]

Idle == [phase |-> "idle", entry |-> Null, out |-> FALSE, late |-> FALSE]

Init ==
    /\ row = [e \in Entries |-> NoRow]
    /\ ended = {}
    /\ on = TRUE
    /\ at = [p \in Procs |-> Idle]
    /\ adrift = [e \in Entries |-> 0]
    /\ sent = [e \in Entries |-> 0]

In(statuses) == {e \in Entries : row[e].status \in statuses /\ ~row[e].gone}

Active == {"pending", "approved", "executing", "unknown"}

Kind(m) == IF Family[m] = Null THEN "mail_reply" ELSE "mail_send"

\* The two mails meet in the dedup set: one key, or one family.
SameMail(m, n) == m = n \/ (Family[m] # Null /\ Family[m] = Family[n])

-----------------------------------------------------------------------------
(* Filing and deciding.                                                    *)

\* MUTANT: an entry of unclear outcome does not refuse the same mail.
Blocks_NotUnknown(r, m) ==
    /\ r.status # "absent" /\ ~r.gone /\ SameMail(r.mail, m)
    /\ \/ r.status \in Active \ {"unknown"}
       \/ r.status = "done" /\ r.age = 0
       \/ r.status = "rejected" /\ r.age = 0 /\ ~r.cleared

\* fileEntry, duplicate: an active entry refuses the same mail at any age, a
\* sent or discarded one within its window.
Blocks(r, m) ==
    /\ r.status # "absent" /\ ~r.gone /\ SameMail(r.mail, m)
    /\ \/ r.status \in Active
       \/ r.status = "done" /\ r.age = 0
       \/ r.status = "rejected" /\ r.age = 0 /\ ~r.cleared

\* file
File(e, m) ==
    /\ row[e].status = "absent"
    /\ \A f \in Entries : ~Blocks(row[f], m)
    /\ Cardinality(In({"pending"})) < MaxPending
    /\ row' = [row EXCEPT ![e] = [NoRow EXCEPT !.status = "pending", !.mail = m]]
    /\ UNCHANGED <<ended, on, at, adrift, sent>>

\* decide, approve: an entry at its expiry is refused, ...
Approve(e) ==
    /\ on
    /\ row[e].status = "pending" /\ row[e].age = 0
    /\ e \notin ended
    /\ row' = [row EXCEPT ![e].status = "approved"]
    /\ UNCHANGED <<ended, on, at, adrift, sent>>

\* ... and one whose mandate ended is discarded instead, as by reject and
\* move_to_chat.
Reject(e) ==
    /\ on
    /\ row[e].status = "pending"
    /\ row' = [row EXCEPT ![e].status = "rejected", ![e].age = 0]
    /\ UNCHANGED <<ended, on, at, adrift, sent>>

\* decide, clear_unknown: a tombstone is deleted.
ClearUnknown(e) ==
    /\ on
    /\ row[e].status = "unknown" /\ ~row[e].gone
    /\ row' = [row EXCEPT ![e].status = "rejected", ![e].cleared = TRUE, ![e].age = 0,
                          ![e].gone = row[e].tomb]
    /\ UNCHANGED <<ended, on, at, adrift, sent>>

-----------------------------------------------------------------------------
(* The executor.  One tick of a process claims at most one entry and stays *)
(* with it until it is settled (`running`).                                *)

\* MUTANT: only what is under way counts.
Counted_Executing(kind) ==
    {e \in In({"executing"}) : row[e].counted /\ Kind(row[e].mail) = kind}

\* What the send limit counts of the queue's own sends.
Counted(kind) ==
    {e \in In({"executing", "done", "unknown"}) : row[e].counted /\ Kind(row[e].mail) = kind}

\* claim: the entry is approved and has not expired, and the limit admits it.
Claim(p, e) ==
    /\ on /\ at[p] = Idle
    /\ row[e].status = "approved" /\ row[e].age = 0
    /\ Cardinality(Counted(Kind(row[e].mail))) < SendLimit
    /\ row' = [row EXCEPT ![e].status = "executing", ![e].held = "no",
                          ![e].attempts = @ + 1, ![e].age = 0, ![e].counted = TRUE]
    /\ at' = [at EXCEPT ![p] = [Idle EXCEPT !.phase = "claimed", !.entry = e]]
    /\ UNCHANGED <<ended, on, adrift, sent>>

\* claim, held, and holdKind: the limit, which counts the tool calls too, does
\* not admit the entry, and what waits of its kind is stamped.
HoldKind(p, e) ==
    /\ on /\ at[p] = Idle
    /\ row[e].status = "approved" /\ row[e].age = 0
    /\ row' = [f \in Entries |->
                 IF f = e \/ (/\ row[f].status = "approved" /\ row[f].age = 0
                              /\ row[f].held = "no"
                              /\ Kind(row[f].mail) = Kind(row[e].mail))
                 THEN [row[f] EXCEPT !.held = "send_limit"]
                 ELSE row[f]]
    /\ UNCHANGED <<ended, on, at, adrift, sent>>

\* finish: only an entry that is still executing is settled.
Finished(r, outcome) ==
    IF r.status # "executing" THEN r
    ELSE IF outcome = "retry" /\ r.attempts < MaxAttempts
         THEN [r EXCEPT !.status = "approved", !.held = "retry", !.counted = FALSE, !.age = 0]
         ELSE [r EXCEPT !.status = IF outcome = "retry" THEN "failed" ELSE outcome, !.age = 0]

Settle(p, outcome) ==
    /\ row' = [row EXCEPT ![at[p].entry] = Finished(@, outcome)]
    /\ at' = [at EXCEPT ![p] = Idle]

\* The send of p's attempt, if it began and has not gone out, goes on alone.
LetGo(p) ==
    adrift' = IF at[p].phase = "sending" /\ ~at[p].out
              THEN [adrift EXCEPT ![at[p].entry] = @ + 1]
              ELSE adrift

\* execute up to its await: the mandate is live, the account may send.
Verify(p) ==
    /\ at[p].phase = "claimed"
    /\ at[p].entry \notin ended
    /\ at' = [at EXCEPT ![p].phase = "asked"]
    /\ UNCHANGED <<row, ended, on, adrift, sent>>

\* execute refuses before the send: for good, or for another attempt.
Refuse(p) ==
    /\ at[p].phase \in {"claimed", "asked"}
    /\ \E outcome \in {"failed", "retry"} :
          /\ at[p].entry \in ended /\ at[p].phase = "claimed" => outcome = "failed"
          /\ Settle(p, outcome)
    /\ UNCHANGED <<ended, on, adrift, sent>>

\* The sending address is there and is the one filed: the send begins.
BeginSend(p) ==
    /\ at[p].phase = "asked"
    /\ at' = [at EXCEPT ![p].phase = "sending"]
    /\ UNCHANGED <<row, ended, on, adrift, sent>>

\* sendMail refuses before it hands the mail over (a reply is handed over at once).
RefuseSend(p) ==
    /\ at[p].phase = "sending" /\ ~at[p].out
    /\ Kind(row[at[p].entry].mail) = "mail_send"
    /\ \E outcome \in {"failed", "retry"} : Settle(p, outcome)
    /\ UNCHANGED <<ended, on, adrift, sent>>

\* The mail server takes the mail.
GoOut(p) ==
    /\ at[p].phase = "sending" /\ ~at[p].out
    /\ at' = [at EXCEPT ![p].out = TRUE]
    /\ sent' = [sent EXCEPT ![at[p].entry] = @ + 1]
    /\ UNCHANGED <<row, ended, on, adrift>>

\* ... and says so.
Answer(p) ==
    /\ at[p].phase = "sending" /\ at[p].out
    /\ Settle(p, "done")
    /\ UNCHANGED <<ended, on, adrift, sent>>

\* The send throws or reports an error of the provider: it may have gone out.
SendThrows(p) ==
    /\ at[p].phase = "sending"
    /\ Settle(p, "unknown")
    /\ LetGo(p)
    /\ UNCHANGED <<ended, on, sent>>

\* MUTANT: the deadline does not bar the send from beginning later.
Deadline_NotBarred(p) ==
    /\ at[p].phase \in {"asked", "sending"}
    /\ Settle(p, IF at[p].phase = "sending" THEN "unknown" ELSE "retry")
    /\ adrift' = IF at[p].out THEN adrift ELSE [adrift EXCEPT ![at[p].entry] = @ + 1]
    /\ UNCHANGED <<ended, on, sent>>

\* withinDeadline: past it an attempt whose send has not begun never begins it.
Deadline(p) ==
    /\ at[p].phase \in {"asked", "sending"}
    /\ Settle(p, IF at[p].phase = "sending" THEN "unknown" ELSE "retry")
    /\ LetGo(p)
    /\ UNCHANGED <<ended, on, sent>>

-----------------------------------------------------------------------------
(* The sweep.                                                              *)

Expired(r) == [r EXCEPT !.status = "expired", !.age = 0]

\* At purge_after.  A tombstone has none and is not looked at again.
Purged(r) ==
    IF r.status = "unknown" /\ Keyed THEN [r EXCEPT !.tomb = TRUE] ELSE [r EXCEPT !.gone = TRUE]

\* MUTANT: a claim nobody settled is left as it is.
Swept_StaleLeft(r, lapsed) ==
    CASE r.status = "pending" /\ r.age > 0 -> Expired(r)
      [] r.status = "approved" /\ (r.age > 0 \/ (lapsed /\ (r.held = "no" \/ ~on))) -> Expired(r)
      [] r.status \in Ended /\ r.age = 2 -> Purged(r)
      [] OTHER -> r

\* lapsed: the claim window of an approved entry is over.  A hold keeps the
\* entry past it, while the queue is on.
Swept(r, lapsed) ==
    CASE r.status = "pending" /\ r.age > 0 -> Expired(r)
      [] r.status = "approved" /\ (r.age > 0 \/ (lapsed /\ (r.held = "no" \/ ~on))) -> Expired(r)
      [] r.status = "executing" /\ r.age > 0 -> [r EXCEPT !.status = "unknown", !.age = 0]
      [] r.status \in Ended /\ r.age = 2 -> Purged(r)
      [] OTHER -> r

Sweep ==
    /\ \E lapsed \in SUBSET Entries : row' = [e \in Entries |-> Swept(row[e], e \in lapsed)]
    /\ UNCHANGED <<ended, on, at, adrift, sent>>

-----------------------------------------------------------------------------
(* What happens around the queue.                                          *)

\* A claim reaches the stale limit, which is after its deadline, only when its
\* attempt is over, or its process lost time.  What is past purge_after has left
\* the send limit's window.
Timely(e) == \E p \in Procs : at[p].entry = e /\ ~at[p].late

Age(e) ==
    /\ \/ row[e].status \in {"pending", "approved"} /\ row[e].age = 0
       \/ row[e].status = "executing" /\ row[e].age = 0 /\ ~Timely(e)
       \/ row[e].status \in Ended /\ row[e].age < 2
    /\ row' = [row EXCEPT ![e].age = @ + 1, ![e].counted = @ /\ row[e].age = 0]
    /\ UNCHANGED <<ended, on, at, adrift, sent>>

\* The claim leaves the send limit's window.
LeaveWindow(e) ==
    /\ row[e].counted /\ row[e].status # "executing"
    /\ row' = [row EXCEPT ![e].counted = FALSE]
    /\ UNCHANGED <<ended, on, at, adrift, sent>>

\* p's process is held up past the stale limit; on waking, what it awaited may
\* come before its timers.
Stall(p) ==
    /\ at[p] # Idle /\ ~at[p].late
    /\ at' = [at EXCEPT ![p].late = TRUE]
    /\ UNCHANGED <<row, ended, on, adrift, sent>>

\* p's process ends and is started again, or its finish throws.
Crash(p) ==
    /\ at[p] # Idle
    /\ at' = [at EXCEPT ![p] = Idle]
    /\ LetGo(p)
    /\ UNCHANGED <<row, ended, on, sent>>

\* A send that goes on alone goes out, ...
DriftOut(e) ==
    /\ adrift[e] > 0
    /\ adrift' = [adrift EXCEPT ![e] = @ - 1]
    /\ sent' = [sent EXCEPT ![e] = @ + 1]
    /\ UNCHANGED <<row, ended, on, at>>

\* ... or does not.
DriftLost(e) ==
    /\ adrift[e] > 0
    /\ adrift' = [adrift EXCEPT ![e] = @ - 1]
    /\ UNCHANGED <<row, ended, on, at, sent>>

\* The mandate that filed e ends; an entry that has ended no longer asks.
EndMandate(e) ==
    /\ row[e].status \in {"pending", "approved", "executing"} /\ e \notin ended
    /\ ended' = ended \union {e}
    /\ UNCHANGED <<row, on, at, adrift, sent>>

Switch ==
    /\ on' = ~on
    /\ UNCHANGED <<row, ended, at, adrift, sent>>

-----------------------------------------------------------------------------

Execute(p) ==
    \/ Verify(p) \/ Refuse(p) \/ BeginSend(p) \/ RefuseSend(p)
    \/ GoOut(p) \/ Answer(p) \/ SendThrows(p) \/ Deadline(p)

Next ==
    \/ \E e \in Entries, m \in Mails : File(e, m)
    \/ \E e \in Entries : Approve(e) \/ Reject(e) \/ ClearUnknown(e)
    \/ \E p \in Procs, e \in Entries : Claim(p, e) \/ HoldKind(p, e)
    \/ \E p \in Procs : Execute(p) \/ Stall(p) \/ Crash(p)
    \/ Sweep
    \/ \E e \in Entries : Age(e) \/ LeaveWindow(e) \/ DriftOut(e) \/ DriftLost(e) \/ EndMandate(e)
    \/ Switch

Spec == Init /\ [][Next]_vars

\* Time passes, the sweep's interval fires, and the deadline's timer bounds an
\* attempt (its synchronous start aside).  The owner, the mail server and the
\* filing runs are not fair.
Fairness ==
    /\ WF_vars(Sweep)
    /\ \A e \in Entries : WF_vars(Age(e))
    /\ \A p \in Procs : WF_vars(Verify(p) \/ Refuse(p)) /\ WF_vars(Deadline(p))

FairSpec == Spec /\ Fairness

-----------------------------------------------------------------------------
(* Properties.                                                             *)

\* What stands for an entry, as its row says it.
Said(r) ==
    CASE r.status \in {"absent", "pending"} -> "open"
      [] r.status \in {"failed", "expired"} -> "no"
      [] r.status = "rejected" /\ ~r.cleared -> "no"
      [] OTHER -> "yes"

Consent == INSTANCE ApprovalConsent WITH said <- [e \in Entries |-> Said(row[e])]

\* The queue keeps its promise: whatever the order of the send, its deadline, a
\* crash, a stalled process and the sweep, a mail goes out at most once and only
\* while the owner's approval stands, and an entry that is shown as discarded,
\* expired or failed has not gone out and never will (claim, finish, sweep).
KeepsConsent == Consent!Spec

\* The mail of e may have gone out, or may still.
MayBeOut(e) ==
    \/ sent[e] > 0 \/ adrift[e] > 0
    \/ \E p \in Procs : at[p].entry = e /\ at[p].phase = "sending"

\* The owner let go of the entry, its window as a sent mail is over, or, without
\* a vault key, its unclear outcome was deleted.
Released(r) ==
    \/ r.cleared
    \/ r.status = "done" /\ r.age > 0
    \/ ~Keyed /\ r.status = "unknown" /\ r.gone

\* A mail of the same family, or an answer to the same mail, goes out a second
\* time only after the owner cleared the first, or its dedup window is over
\* (fileEntry, sweep, decide).
NoSecondMail ==
    \A e, f \in Entries :
        /\ e # f /\ MayBeOut(e) /\ MayBeOut(f)
        /\ SameMail(row[e].mail, row[f].mail)
        => Released(row[e]) \/ Released(row[f])

\* No more mails of a kind than the limit admits may have gone out by claims in
\* the limit's window, the ones the owner cleared aside (claim).
SendLimitKept ==
    \A k \in {"mail_send", "mail_reply"} :
        Cardinality({e \in Entries : /\ MayBeOut(e) /\ row[e].counted /\ ~row[e].cleared
                                     /\ Kind(row[e].mail) = k}) <= SendLimit

\* A filed entry does not stay open for ever: it ends, whatever the owner, the
\* mail server and the processes do (withinDeadline, sweep).
EntryEnds ==
    \A e \in Entries :
        row[e].status \in {"pending", "approved", "executing"} ~> row[e].status \in Ended

=============================================================================
