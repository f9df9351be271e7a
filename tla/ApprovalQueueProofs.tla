-------------------------- MODULE ApprovalQueueProofs --------------------------
(***************************************************************************)
(* Proofs about ApprovalQueue, for any sets of entries, mails, families    *)
(* and processes and any limits:                                           *)
(*   - its states have their types;                                        *)
(*   - it implements ApprovalConsent, the promise made to the owner;       *)
(*   - a mail that may be out keeps the same mail from being sent again;   *)
(*   - the send limit bounds what may be out within its window.            *)
(*                                                                         *)
(* The argument.  An entry has one chance to be sent, and the chance is in *)
(* one place: with the attempt that holds the claim, with a send adrift,   *)
(* or in `sent`.  A row goes back to where it can be claimed, or is closed *)
(* as not sent, only by the attempt that holds the chance and has not used *)
(* it, so a row of that kind has no attempt, nothing adrift, nothing sent. *)
(* What refuses the same mail, and what the limit counts, a row keeps from *)
(* its filing (its claim) until it can no longer be sent or is released.   *)
(***************************************************************************)
EXTENDS ApprovalQueue, FiniteSetTheorems, TLAPS

(***************************************************************************)
(* The inductive invariant.                                                *)
(***************************************************************************)

\* The attempt of a process: none, or one with an entry; only a send that
\* began can be out.
AttemptOK(a) ==
    \/ a = Idle
    \/ a.phase # "idle" /\ a.entry \in Entries /\ (a.out => a.phase = "sending")

AttemptsOK == \A p \in Procs : AttemptOK(at[p])

\* No two processes are with the same entry.
SoleAttempt ==
    \A p, q \in Procs : at[p].entry \in Entries /\ at[p].entry = at[q].entry => p = q

\* While a process is with an entry, nothing is adrift, and the entry was
\* sent only if this attempt sent it.
ChanceWithAttempt ==
    \A p \in Procs : at[p].entry \in Entries =>
        /\ adrift[at[p].entry] = 0
        /\ sent[at[p].entry] = IF at[p].out THEN 1 ELSE 0

\* Afterwards the chance is adrift or used.
ChanceOnce == \A e \in Entries : adrift[e] + sent[e] <= 1

\* A row that can still be claimed, or that is closed as not sent.
Unspent(r) == Said(r) # "yes" \/ r.status = "approved"

\* The entry of such a row is nowhere else.
UnspentUnsent ==
    \A e \in Entries : Unspent(row[e]) =>
        /\ sent[e] = 0 /\ adrift[e] = 0
        /\ \A p \in Procs : at[p].entry # e

\* What one row holds: its mail, who cleared it, when it may be deleted and
\* how long its claim is counted.
RowOK(r) ==
    /\ r.status # "absent" => r.mail \in Mails
    /\ r.cleared => r.status = "rejected"
    /\ r.gone => r.status \in Ended
    /\ r.gone /\ r.status = "done" => r.age = 2
    /\ r.gone /\ r.status = "unknown" => ~Keyed /\ r.age = 2
    /\ r.age = 2 => ~r.counted

RowsOK == \A e \in Entries : RowOK(row[e])

\* The row refuses the same mail because it is, or may yet be, sent.
Standing(r) ==
    /\ ~r.gone
    /\ r.status \in Active \/ (r.status = "done" /\ r.age = 0)

NoTwins ==
    \A e, f \in Entries :
        Standing(row[e]) /\ Standing(row[f]) /\ SameMail(row[e].mail, row[f].mail) => e = f

\* The row is one of those the send limit counts.
Counts(r) == r.status \in {"executing", "done", "unknown"} /\ ~r.gone /\ r.counted

LimitOK ==
    \A k \in {"mail_send", "mail_reply"} : Cardinality(Counted(k)) <= SendLimit

Filed == {e \in Entries : row[e].status # "absent"}

FiledFinite == IsFiniteSet(Filed)

IInv ==
    /\ TypeOK
    /\ AttemptsOK /\ SoleAttempt
    /\ ChanceWithAttempt /\ ChanceOnce /\ UnspentUnsent
    /\ RowsOK /\ NoTwins /\ LimitOK /\ FiledFinite

-----------------------------------------------------------------------------
(***************************************************************************)
(* What the steps do to one row.                                           *)
(***************************************************************************)

\* A step that does not file the row: it does not begin to stand.
RowKeep(r, s) ==
    /\ s \in Row /\ RowOK(s)
    /\ s.mail = r.mail
    /\ s.status # "absent" => r.status # "absent"
    /\ Standing(s) => Standing(r)

\* One that does not claim it either: it does not begin to be counted.
RowMove(r, s) == RowKeep(r, s) /\ (Counts(s) => Counts(r))

\* A step outside an attempt: it does not open the row again, and does not
\* close as not sent what may have been.
QuietMove(r, s) == RowMove(r, s) /\ (Unspent(s) => Unspent(r))

\* One that gives no approval either: what stands for the row stays, or the
\* row is closed as not sent.
CloseMove(r, s) ==
    /\ QuietMove(r, s)
    /\ Said(s) = Said(r) \/ (Said(s) = "no" /\ Said(r) # "no" /\ Unspent(r))

\* A row stays a row when one of its columns is written.
LEMMA RowWith ==
    ASSUME NEW r \in Row
    PROVE  /\ \A x \in Status : [r EXCEPT !.status = x] \in Row
           /\ \A x \in Mails \union {Null} : [r EXCEPT !.mail = x] \in Row
           /\ \A x \in {"no", "retry", "send_limit"} : [r EXCEPT !.held = x] \in Row
           /\ \A x \in Nat : [r EXCEPT !.attempts = x] \in Row
           /\ \A x \in 0..2 : [r EXCEPT !.age = x] \in Row
           /\ \A x \in BOOLEAN : [r EXCEPT !.counted = x] \in Row
           /\ \A x \in BOOLEAN : [r EXCEPT !.cleared = x] \in Row
           /\ \A x \in BOOLEAN : [r EXCEPT !.gone = x] \in Row
  BY DEF Row

\* A step that leaves the row.
LEMMA MoveNone ==
    ASSUME NEW r \in Row, RowOK(r)
    PROVE  CloseMove(r, r)
  BY DEF CloseMove, QuietMove, RowMove, RowKeep

\* decide, approve.
LEMMA MoveApprove ==
    ASSUME NEW r \in Row, RowOK(r), r.status = "pending"
    PROVE  QuietMove(r, [r EXCEPT !.status = "approved"])
<1> DEFINE s == [r EXCEPT !.status = "approved"]
<1>1. /\ s \in Row /\ s.status = "approved" /\ s.mail = r.mail /\ s.age = r.age
      /\ s.counted = r.counted /\ s.cleared = r.cleared /\ s.gone = r.gone
  BY DEF Row, Status, Ended
<1> HIDE DEF s
<1>2. QuietMove(r, s)
  BY <1>1 DEF QuietMove, RowMove, RowKeep, RowOK, Standing, Counts, Active,
              Unspent, Said, Ended
<1>3. QED
  BY <1>2 DEF s

\* decide, reject.
LEMMA MoveReject ==
    ASSUME NEW r \in Row, RowOK(r), r.status = "pending"
    PROVE  CloseMove(r, [r EXCEPT !.status = "rejected", !.age = 0])
<1> DEFINE s == [r EXCEPT !.status = "rejected", !.age = 0]
<1>1. /\ s.status = "rejected" /\ s.mail = r.mail /\ s.age = 0
      /\ s.counted = r.counted /\ s.cleared = r.cleared /\ s.gone = r.gone
  BY DEF Row, Status, Ended
<1>2. s \in Row
  <2>1. "rejected" \in Status /\ 0 \in 0..2
    BY DEF Status, Ended
  <2>2. QED
    BY <2>1, RowWith, Zenon
<1> HIDE DEF s
<1>3. CloseMove(r, s)
  BY <1>1, <1>2
  DEF CloseMove, QuietMove, RowMove, RowKeep, RowOK, Standing, Counts, Active, Unspent,
      Said, Ended
<1>4. QED
  BY <1>3 DEF s

\* decide, clear_unknown.
LEMMA MoveClear ==
    ASSUME NEW r \in Row, RowOK(r), r.status = "unknown", ~r.gone
    PROVE  CloseMove(r, [r EXCEPT !.status = "rejected", !.cleared = TRUE,
                                  !.age = 0, !.gone = r.tomb])
<1> DEFINE s == [r EXCEPT !.status = "rejected", !.cleared = TRUE,
                          !.age = 0, !.gone = r.tomb]
<1>1. /\ s.status = "rejected" /\ s.mail = r.mail /\ s.age = 0
      /\ s.counted = r.counted /\ s.cleared /\ s.gone = r.tomb
  BY DEF Row, Status, Ended
<1>2. s \in Row
  <2>1. /\ "rejected" \in Status /\ 0 \in 0..2
        /\ TRUE \in BOOLEAN /\ r.tomb \in BOOLEAN
    BY DEF Status, Ended, Row
  <2>2. QED
    BY <2>1, RowWith, Zenon
<1> HIDE DEF s
<1>3. CloseMove(r, s)
  BY <1>1, <1>2
  DEF CloseMove, QuietMove, RowMove, RowKeep, RowOK, Standing, Counts, Active, Unspent,
      Said, Ended
<1>4. QED
  BY <1>3 DEF s

\* holdKind.
LEMMA MoveHold ==
    ASSUME NEW r \in Row, RowOK(r)
    PROVE  CloseMove(r, [r EXCEPT !.held = "send_limit"])
<1> DEFINE s == [r EXCEPT !.held = "send_limit"]
<1>1. /\ s \in Row /\ s.status = r.status /\ s.mail = r.mail /\ s.age = r.age
      /\ s.counted = r.counted /\ s.cleared = r.cleared /\ s.gone = r.gone
  BY DEF Row
<1> HIDE DEF s
<1>2. CloseMove(r, s)
  BY <1>1 DEF CloseMove, QuietMove, RowMove, RowKeep, RowOK, Standing, Counts, Unspent, Said
<1>3. QED
  BY <1>2 DEF s

\* Time passes for a row.
LEMMA MoveAge ==
    ASSUME NEW r \in Row, RowOK(r), r.age < 2, r.status # "absent",
           r.status \in {"pending", "approved", "executing"} => r.age = 0
    PROVE  CloseMove(r, [r EXCEPT !.age = @ + 1, !.counted = @ /\ r.age = 0])
<1> DEFINE s == [r EXCEPT !.age = @ + 1, !.counted = @ /\ r.age = 0]
<1>0. r.age \in {0, 1} /\ r.counted \in BOOLEAN
  BY DEF Row
<1>1. s = [r EXCEPT !.age = r.age + 1, !.counted = (r.counted /\ r.age = 0)]
  OBVIOUS
<1>2. (r.counted /\ r.age = 0) \in BOOLEAN /\ r.age + 1 \in 0..2
  BY <1>0
<1>3. s \in Row
  BY <1>2, RowWith, Zenon
<1>4. /\ s.status = r.status /\ s.mail = r.mail /\ s.age = r.age + 1
      /\ s.counted = (r.counted /\ r.age = 0)
      /\ s.cleared = r.cleared /\ s.gone = r.gone
  BY DEF Row
<1> HIDE DEF s
<1>5. (s.counted => r.counted) /\ (s.age = 2 => ~s.counted) /\ s.age # 0
  <2>1. s.counted => r.counted /\ r.age = 0
    BY <1>4, Zenon
  <2>2. s.age = r.age + 1
    BY <1>4
  <2>3. QED
    BY <1>0, <2>1, <2>2
<1>6. /\ s.status = r.status /\ s.mail = r.mail /\ s.cleared = r.cleared
      /\ s.gone = r.gone /\ ~(r.gone /\ r.status \in {"done", "unknown"})
  BY <1>4 DEF RowOK
<1>7. CloseMove(r, s)
  BY <1>3, <1>5, <1>6
  DEF CloseMove, QuietMove, RowMove, RowKeep, RowOK, Standing, Counts, Active, Unspent,
      Said
<1>8. QED
  BY <1>7 DEF s

\* The claim leaves the limit's window.
LEMMA MoveLeave ==
    ASSUME NEW r \in Row, RowOK(r)
    PROVE  CloseMove(r, [r EXCEPT !.counted = FALSE])
<1> DEFINE s == [r EXCEPT !.counted = FALSE]
<1>1. /\ s \in Row /\ s.status = r.status /\ s.mail = r.mail /\ s.age = r.age
      /\ ~s.counted /\ s.cleared = r.cleared /\ s.gone = r.gone
  BY DEF Row
<1> HIDE DEF s
<1>2. CloseMove(r, s)
  BY <1>1 DEF CloseMove, QuietMove, RowMove, RowKeep, RowOK, Standing, Counts, Unspent, Said
<1>3. QED
  BY <1>2 DEF s

\* sweep: an expired row was never sent, a claim nobody settled keeps
\* standing, and so does an unclear outcome that the vault key lets last.
LEMMA MoveSwept ==
    ASSUME NEW r \in Row, RowOK(r), NEW lapsed \in BOOLEAN
    PROVE  CloseMove(r, Swept(r, lapsed))
<1>1. CASE Swept(r, lapsed) = Expired(r) /\ r.status \in {"pending", "approved"}
  <2> DEFINE s == [r EXCEPT !.status = "expired", !.age = 0]
  <2>0. "expired" \in Status /\ 0 \in 0..2
    BY DEF Status, Ended
  <2>1. s \in Row
    BY <2>0, RowWith, Zenon
  <2>3. /\ s.status = "expired" /\ s.mail = r.mail /\ s.age = 0
        /\ s.counted = r.counted /\ s.cleared = r.cleared /\ s.gone = r.gone
    BY DEF Row
  <2>2. Swept(r, lapsed) = s
    BY <1>1 DEF Expired
  <2> HIDE DEF s
  <2>4. QED
    BY <1>1, <2>1, <2>2, <2>3
    DEF CloseMove, QuietMove, RowMove, RowKeep, RowOK, Standing, Counts, Active, Unspent,
        Said, Ended
<1>2. CASE /\ Swept(r, lapsed) = [r EXCEPT !.status = "unknown", !.age = 0]
           /\ r.status = "executing"
  <2> DEFINE s == [r EXCEPT !.status = "unknown", !.age = 0]
  <2>0. "unknown" \in Status /\ 0 \in 0..2
    BY DEF Status, Ended
  <2>1. s \in Row
    BY <2>0, RowWith, Zenon
  <2>2. /\ s.status = "unknown" /\ s.mail = r.mail /\ s.age = 0
        /\ s.counted = r.counted /\ s.cleared = r.cleared /\ s.gone = r.gone
    BY DEF Row
  <2>3. Swept(r, lapsed) = s
    BY <1>2
  <2> HIDE DEF s
  <2>4. QED
    BY <1>2, <2>1, <2>2, <2>3
    DEF CloseMove, QuietMove, RowMove, RowKeep, RowOK, Standing, Counts, Active, Unspent,
        Said, Ended
<1>3. CASE Swept(r, lapsed) = Purged(r) /\ r.status \in Ended /\ r.age = 2
  <2>1. CASE r.status = "unknown" /\ Keyed
    <3> DEFINE s == [r EXCEPT !.tomb = TRUE]
    <3>1. /\ s \in Row /\ s.status = r.status /\ s.mail = r.mail /\ s.age = r.age
          /\ s.counted = r.counted /\ s.cleared = r.cleared /\ s.gone = r.gone
      BY DEF Row
    <3>2. Swept(r, lapsed) = s
      BY <1>3, <2>1 DEF Purged
    <3> HIDE DEF s
    <3>3. QED
      BY <1>3, <3>1, <3>2
      DEF CloseMove, QuietMove, RowMove, RowKeep, RowOK, Standing, Counts, Unspent, Said
  <2>2. CASE ~(r.status = "unknown" /\ Keyed)
    <3> DEFINE s == [r EXCEPT !.gone = TRUE]
    <3>1. /\ s \in Row /\ s.status = r.status /\ s.mail = r.mail /\ s.age = r.age
          /\ s.counted = r.counted /\ s.cleared = r.cleared /\ s.gone
      BY DEF Row
    <3>2. Swept(r, lapsed) = s
      BY <1>3, <2>2 DEF Purged
    <3> HIDE DEF s
    <3>3. QED
      BY <1>3, <2>2, <3>1, <3>2
      DEF CloseMove, QuietMove, RowMove, RowKeep, RowOK, Standing, Counts, Unspent, Said
  <2>3. QED
    BY <2>1, <2>2
<1>4. CASE Swept(r, lapsed) = r
  BY <1>4, MoveNone
<1>5. QED
  BY <1>1, <1>2, <1>3, <1>4 DEF Swept

\* finish, by the attempt that holds the claim.
LEMMA MoveFinished ==
    ASSUME NEW r \in Row, RowOK(r),
           NEW outcome \in {"done", "failed", "retry", "unknown"}
    PROVE  RowMove(r, Finished(r, outcome))
<1>1. CASE r.status # "executing"
  BY <1>1, MoveNone DEF Finished, CloseMove, QuietMove
<1>2. CASE r.status = "executing" /\ outcome = "retry" /\ r.attempts < MaxAttempts
  <2> DEFINE s == [r EXCEPT !.status = "approved", !.held = "retry",
                            !.counted = FALSE, !.age = 0]
  <2>0. /\ "approved" \in Status /\ 0 \in 0..2 /\ FALSE \in BOOLEAN
        /\ "retry" \in {"no", "retry", "send_limit"}
    BY DEF Status
  <2>1. s \in Row
    BY <2>0, RowWith, Zenon
  <2>3. /\ s.status = "approved" /\ s.mail = r.mail /\ s.age = 0
        /\ ~s.counted /\ s.cleared = r.cleared /\ s.gone = r.gone
    BY DEF Row
  <2>2. Finished(r, outcome) = s
    BY <1>2 DEF Finished
  <2> HIDE DEF s
  <2>4. QED
    BY <1>2, <2>1, <2>2, <2>3
    DEF RowMove, RowKeep, RowOK, Standing, Counts, Active, Ended
<1>3. CASE r.status = "executing" /\ ~(outcome = "retry" /\ r.attempts < MaxAttempts)
  <2> DEFINE st == IF outcome = "retry" THEN "failed" ELSE outcome
             s == [r EXCEPT !.status = st, !.age = 0]
  <2>0. st \in {"done", "failed", "unknown"} /\ st \in Status /\ 0 \in 0..2
    BY DEF Status, Ended
  <2>1. Finished(r, outcome) = s
    BY <1>3 DEF Finished
  <2> HIDE DEF st
  <2>2. s \in Row
    BY <2>0, RowWith, Zenon
  <2>3. /\ s.status = st /\ s.mail = r.mail /\ s.age = 0
        /\ s.counted = r.counted /\ s.cleared = r.cleared /\ s.gone = r.gone
    BY DEF Row
  <2> HIDE DEF s
  <2>4. QED
    BY <1>3, <2>0, <2>1, <2>2, <2>3
    DEF RowMove, RowKeep, RowOK, Standing, Counts, Active, Ended
<1>4. QED
  BY <1>1, <1>2, <1>3

\* claim.
LEMMA KeepClaim ==
    ASSUME NEW r \in Row, RowOK(r), r.status = "approved"
    PROVE  LET s == [r EXCEPT !.status = "executing", !.held = "no",
                              !.attempts = @ + 1, !.age = 0, !.counted = TRUE]
           IN  RowKeep(r, s) /\ ~Unspent(s)
<1> DEFINE s == [r EXCEPT !.status = "executing", !.held = "no",
                          !.attempts = @ + 1, !.age = 0, !.counted = TRUE]
<1>0. /\ "executing" \in Status /\ 0 \in 0..2 /\ r.attempts + 1 \in Nat
      /\ TRUE \in BOOLEAN /\ "no" \in {"no", "retry", "send_limit"}
  BY DEF Status, Row
<1>1. s \in Row
  <2>1. [r EXCEPT !.status = "executing", !.held = "no",
                  !.attempts = r.attempts + 1] \in Row
    BY <1>0, RowWith
  <2>2. QED
    BY <1>0, <2>1, RowWith
<1>2. /\ s.status = "executing" /\ s.mail = r.mail /\ s.age = 0
      /\ s.counted /\ s.cleared = r.cleared /\ s.gone = r.gone
  BY DEF Row
<1> HIDE DEF s
<1>3. RowKeep(r, s) /\ ~Unspent(s)
  BY <1>1, <1>2 DEF RowKeep, RowOK, Standing, Active, Unspent, Said, Ended
<1>4. QED
  BY <1>3 DEF s

-----------------------------------------------------------------------------
(***************************************************************************)
(* What the steps do to the table of rows.                                 *)
(***************************************************************************)

\* What the limit counts, entry by entry.
LEMMA CountedIs ==
    ASSUME NEW k
    PROVE  /\ Counted(k) = {e \in Entries : Counts(row[e]) /\ Kind(row[e].mail) = k}
           /\ Counted(k)' = {e \in Entries : Counts(row'[e]) /\ Kind(row'[e].mail) = k}
  BY DEF Counted, In, Counts

\* The counted rows are finitely many, as the filed ones are.
LEMMA CountedFinite ==
    ASSUME FiledFinite, NEW k
    PROVE  IsFiniteSet(Counted(k))
<1>1. Counted(k) \in SUBSET Filed
  BY CountedIs DEF Filed, Counts
<1>2. QED
  BY <1>1, FS_Subset DEF FiledFinite

\* Steps that file nothing keep the parts of the invariant that are about the
\* rows, the limit aside.
LEMMA RowsKept ==
    ASSUME IInv, \A e \in Entries : RowKeep(row[e], row'[e])
    PROVE  RowsOK' /\ NoTwins' /\ FiledFinite'
<1>1. RowsOK'
  BY DEF RowsOK, RowKeep
<1>2. NoTwins'
  BY DEF IInv, NoTwins, RowKeep
<1>3. FiledFinite'
  <2>1. Filed' \in SUBSET Filed
    BY DEF Filed, RowKeep
  <2>2. IsFiniteSet(Filed)
    BY DEF IInv, FiledFinite
  <2>3. QED
    BY <2>1, <2>2, FS_Subset DEF FiledFinite
<1>4. QED
  BY <1>1, <1>2, <1>3

\* Steps that claim nothing keep the limit.
LEMMA LimitKept ==
    ASSUME IInv, \A e \in Entries : RowMove(row[e], row'[e])
    PROVE  LimitOK'
<1> SUFFICES ASSUME NEW k \in {"mail_send", "mail_reply"}
             PROVE  Cardinality(Counted(k)') <= SendLimit
  BY DEF LimitOK
<1>1. IsFiniteSet(Counted(k))
  BY CountedFinite DEF IInv
<1>2. Counted(k)' \in SUBSET Counted(k)
  BY CountedIs DEF RowMove, RowKeep
<1>3. Cardinality(Counted(k)') <= Cardinality(Counted(k))
  BY <1>1, <1>2, FS_Subset
<1>4. Cardinality(Counted(k)) <= SendLimit
  BY DEF IInv, LimitOK
<1>5. Cardinality(Counted(k)) \in Nat /\ Cardinality(Counted(k)') \in Nat
  BY <1>1, <1>2, FS_Subset, FS_CardinalityType
<1>6. QED
  BY <1>3, <1>4, <1>5, ApprovalQueueAssumption

\* A step outside the attempts: every row moves quietly, and neither the
\* attempts nor the sends change.
LEMMA QuietStep ==
    ASSUME IInv, row' \in [Entries -> Row],
           \A e \in Entries : QuietMove(row[e], row'[e]),
           ended' \in SUBSET Entries, on' \in BOOLEAN,
           UNCHANGED <<at, adrift, sent>>
    PROVE  IInv'
<1>1. TypeOK'
  BY DEF IInv, TypeOK
<1>2. AttemptsOK' /\ SoleAttempt' /\ ChanceWithAttempt' /\ ChanceOnce'
  BY DEF IInv, AttemptsOK, SoleAttempt, ChanceWithAttempt, ChanceOnce
<1>3. UnspentUnsent'
  BY DEF IInv, UnspentUnsent, QuietMove
<1>4. RowsOK' /\ NoTwins' /\ FiledFinite'
  BY RowsKept DEF QuietMove, RowMove
<1>5. LimitOK'
  BY LimitKept DEF QuietMove
<1>6. QED
  BY <1>1, <1>2, <1>3, <1>4, <1>5 DEF IInv

\* A quiet step that writes one row.
LEMMA OneRow ==
    ASSUME IInv, NEW e \in Entries, NEW s,
           row' = [row EXCEPT ![e] = s], QuietMove(row[e], s)
    PROVE  /\ row' \in [Entries -> Row]
           /\ \A f \in Entries : QuietMove(row[f], row'[f])
           /\ CloseMove(row[e], s) => \A f \in Entries : CloseMove(row[f], row'[f])
<1>1. row \in [Entries -> Row] /\ RowsOK
  BY DEF IInv, TypeOK
<1>2. s \in Row
  BY DEF QuietMove, RowMove, RowKeep
<1>3. row' \in [Entries -> Row] /\ row'[e] = s
  BY <1>1, <1>2
<1>4. \A f \in Entries \ {e} : CloseMove(row[f], row'[f])
  BY <1>1, MoveNone DEF RowsOK
<1>5. QED
  BY <1>3, <1>4 DEF CloseMove

-----------------------------------------------------------------------------
(***************************************************************************)
(* The actions outside the attempts.                                       *)
(***************************************************************************)

\* file: no standing row holds the same mail.
LEMMA FileKeeps ==
    ASSUME IInv, NEW e \in Entries, NEW m \in Mails, File(e, m)
    PROVE  IInv'
<1> DEFINE new == [NoRow EXCEPT !.status = "pending", !.mail = m]
<1>1. /\ row \in [Entries -> Row] /\ RowsOK /\ UnspentUnsent
      /\ row[e].status = "absent"
  BY DEF IInv, TypeOK, File
<1>2. NoRow \in Row /\ "pending" \in Status /\ m \in Mails \union {Null}
  BY DEF NoRow, Row, Status
<1>3. new \in Row
  BY <1>2, RowWith, Zenon
<1>4. RowOK(new) /\ ~Counts(new) /\ new.mail = m /\ new.status = "pending"
  <2>1. /\ new.status = "pending" /\ new.mail = m /\ ~new.cleared /\ ~new.gone
        /\ new.age = 0
    BY DEF NoRow
  <2> HIDE DEF new
  <2>2. QED
    BY <2>1 DEF RowOK, Counts
<1>5. row' = [row EXCEPT ![e] = new] /\ UNCHANGED <<ended, on, at, adrift, sent>>
  BY DEF File
<1> HIDE DEF new
<1>6. /\ row' \in [Entries -> Row] /\ row'[e] = new
      /\ \A f \in Entries \ {e} : row'[f] = row[f]
  BY <1>1, <1>3, <1>5
<1>7. TypeOK'
  BY <1>5, <1>6 DEF IInv, TypeOK
<1>8. AttemptsOK' /\ SoleAttempt' /\ ChanceWithAttempt' /\ ChanceOnce'
  BY <1>5
  DEF IInv, AttemptsOK, SoleAttempt, ChanceWithAttempt, ChanceOnce
<1>9. UnspentUnsent'
  BY <1>1, <1>5, <1>6 DEF UnspentUnsent, Unspent, Said
<1>10. RowsOK'
  BY <1>1, <1>4, <1>6 DEF RowsOK
<1>11. NoTwins'
  <2>1. \A f \in Entries \ {e} :
           Standing(row[f]) => ~SameMail(row[f].mail, m) /\ ~SameMail(m, row[f].mail)
    <3>1. \A f \in Entries : ~Blocks(row[f], m)
      BY DEF File
    <3>2. QED
      BY <3>1 DEF Blocks, Standing, SameMail, Active
  <2>2. NoTwins
    BY DEF IInv
  <2>3. QED
    BY <1>4, <1>6, <2>1, <2>2 DEF NoTwins
<1>12. LimitOK'
  <2> SUFFICES ASSUME NEW k \in {"mail_send", "mail_reply"}
               PROVE  Counted(k)' = Counted(k)
    BY DEF IInv, LimitOK
  <2>1. ~Counts(row[e])
    BY <1>1 DEF Counts
  <2>2. \A f \in Entries : (Counts(row'[f]) <=> Counts(row[f]))
    BY <1>4, <1>6, <2>1
  <2>3. \A f \in Entries : Counts(row[f]) => row'[f] = row[f]
    BY <1>6, <2>1
  <2>4. QED
    BY <2>2, <2>3, CountedIs
<1>13. FiledFinite'
  <2>1. Filed' = Filed \union {e}
    BY <1>1, <1>4, <1>6 DEF Filed
  <2>2. IsFiniteSet(Filed)
    BY DEF IInv, FiledFinite
  <2>3. QED
    BY <2>1, <2>2, FS_AddElement DEF FiledFinite
<1>14. QED
  BY <1>7, <1>8, <1>9, <1>10, <1>11, <1>12, <1>13 DEF IInv

\* approve: nothing of the entry is under way or sent.
LEMMA ApproveKeeps ==
    ASSUME IInv, NEW e \in Entries, Approve(e)
    PROVE  /\ IInv' /\ Said(row[e]) = "open" /\ Said(row'[e]) = "yes"
           /\ \A f \in Entries \ {e} : row'[f] = row[f]
           /\ UNCHANGED sent
<1>1. /\ row \in [Entries -> Row] /\ row[e] \in Row /\ RowOK(row[e])
      /\ row[e].status = "pending"
  BY DEF IInv, TypeOK, RowsOK, Approve
<1> DEFINE s == [row[e] EXCEPT !.status = "approved"]
<1>2. row' = [row EXCEPT ![e] = s] /\ UNCHANGED <<ended, on, at, adrift, sent>>
  BY DEF Approve
<1>3. s.status = "approved"
  BY <1>1 DEF Row
<1>4. QuietMove(row[e], s)
  BY <1>1, MoveApprove
<1> HIDE DEF s
<1>5. ended' \in SUBSET Entries /\ on' \in BOOLEAN
  BY <1>2 DEF IInv, TypeOK
<1>6. IInv'
  BY <1>2, <1>4, <1>5, OneRow, QuietStep
<1>7. row'[e] = s /\ \A f \in Entries \ {e} : row'[f] = row[f]
  BY <1>1, <1>2
<1>8. Said(row[e]) = "open" /\ Said(s) = "yes"
  BY <1>1, <1>3 DEF Said
<1>9. QED
  BY <1>2, <1>6, <1>7, <1>8

\* reject and clear_unknown.
LEMMA RejectKeeps ==
    ASSUME IInv, NEW e \in Entries, Reject(e) \/ ClearUnknown(e)
    PROVE  IInv' /\ UNCHANGED sent /\ \A f \in Entries : CloseMove(row[f], row'[f])
<1>1. row \in [Entries -> Row] /\ RowOK(row[e])
  BY DEF IInv, TypeOK, RowsOK
<1>2. PICK s : CloseMove(row[e], s) /\ row' = [row EXCEPT ![e] = s]
  <2>1. CASE Reject(e)
    BY <1>1, <2>1, MoveReject DEF Reject
  <2>2. CASE ClearUnknown(e)
    BY <1>1, <2>2, MoveClear DEF ClearUnknown
  <2>3. QED
    BY <2>1, <2>2
<1>3. UNCHANGED <<ended, on, at, adrift, sent>>
  BY DEF Reject, ClearUnknown
<1>4. ended' \in SUBSET Entries /\ on' \in BOOLEAN
  BY <1>3 DEF IInv, TypeOK
<1>5. QuietMove(row[e], s)
  BY <1>2 DEF CloseMove
<1>6. QED
  BY <1>2, <1>3, <1>4, <1>5, OneRow, QuietStep

\* Time passes for a row or for its claim.
LEMMA AgeKeeps ==
    ASSUME IInv, NEW e \in Entries, Age(e) \/ LeaveWindow(e)
    PROVE  IInv' /\ UNCHANGED sent /\ \A f \in Entries : CloseMove(row[f], row'[f])
<1>1. row \in [Entries -> Row] /\ row[e] \in Row /\ RowOK(row[e])
  BY DEF IInv, TypeOK, RowsOK
<1>2. PICK s : CloseMove(row[e], s) /\ row' = [row EXCEPT ![e] = s]
  <2>1. CASE Age(e)
    <3>1. /\ row[e].age < 2 /\ row[e].status # "absent"
          /\ row[e].status \in {"pending", "approved", "executing"} => row[e].age = 0
      BY <2>1 DEF Age, Ended
    <3>2. row' = [row EXCEPT ![e] = [row[e] EXCEPT
                     !.age = @ + 1, !.counted = @ /\ row[e].age = 0]]
      BY <1>1, <2>1 DEF Age
    <3>3. QED
      BY <1>1, <3>1, <3>2, MoveAge
  <2>2. CASE LeaveWindow(e)
    BY <1>1, <2>2, MoveLeave DEF LeaveWindow
  <2>3. QED
    BY <2>1, <2>2
<1>3. UNCHANGED <<ended, on, at, adrift, sent>>
  BY DEF Age, LeaveWindow
<1>4. ended' \in SUBSET Entries /\ on' \in BOOLEAN
  BY <1>3 DEF IInv, TypeOK
<1>5. QuietMove(row[e], s)
  BY <1>2 DEF CloseMove
<1>6. QED
  BY <1>2, <1>3, <1>4, <1>5, OneRow, QuietStep

\* holdKind stamps rows that wait.
LEMMA HoldKeeps ==
    ASSUME IInv, NEW p \in Procs, NEW e \in Entries, HoldKind(p, e)
    PROVE  IInv' /\ UNCHANGED sent /\ \A f \in Entries : CloseMove(row[f], row'[f])
<1>1. row \in [Entries -> Row] /\ RowsOK
  BY DEF IInv, TypeOK
<1>2. \A f \in Entries : CloseMove(row[f], row'[f])
  <2> TAKE f \in Entries
  <2>1. row'[f] = [row[f] EXCEPT !.held = "send_limit"] \/ row'[f] = row[f]
    BY DEF HoldKind
  <2>2. row[f] \in Row /\ RowOK(row[f])
    BY <1>1 DEF RowsOK
  <2>3. QED
    BY <2>1, <2>2, MoveHold, MoveNone
<1>3. row' \in [Entries -> Row]
  <2>1. DOMAIN row' = Entries /\ row' = [f \in Entries |-> row'[f]]
    BY DEF HoldKind
  <2>2. \A f \in Entries : row'[f] \in Row
    BY <1>2 DEF CloseMove, QuietMove, RowMove, RowKeep
  <2>3. QED
    BY <2>1, <2>2
<1>4. UNCHANGED <<ended, on, at, adrift, sent>>
  BY DEF HoldKind
<1>5. ended' \in SUBSET Entries /\ on' \in BOOLEAN
  BY <1>4 DEF IInv, TypeOK
<1>6. QED
  BY <1>2, <1>3, <1>4, <1>5, QuietStep DEF CloseMove

\* sweep.
LEMMA SweepKeeps ==
    ASSUME IInv, Sweep
    PROVE  IInv' /\ UNCHANGED sent /\ \A f \in Entries : CloseMove(row[f], row'[f])
<1>1. row \in [Entries -> Row] /\ RowsOK
  BY DEF IInv, TypeOK
<1>2. PICK lapsed \in SUBSET Entries :
           row' = [f \in Entries |-> Swept(row[f], f \in lapsed)]
  BY DEF Sweep
<1>3. \A f \in Entries : CloseMove(row[f], row'[f])
  <2> TAKE f \in Entries
  <2>1. row[f] \in Row /\ RowOK(row[f]) /\ (f \in lapsed) \in BOOLEAN
    BY <1>1 DEF RowsOK
  <2>2. row'[f] = Swept(row[f], f \in lapsed)
    BY <1>2
  <2>3. QED
    BY <2>1, <2>2, MoveSwept
<1>4. row' \in [Entries -> Row]
  <2>1. DOMAIN row' = Entries /\ row' = [f \in Entries |-> row'[f]]
    BY <1>2
  <2>2. \A f \in Entries : row'[f] \in Row
    BY <1>3 DEF CloseMove, QuietMove, RowMove, RowKeep
  <2>3. QED
    BY <2>1, <2>2
<1>5. UNCHANGED <<ended, on, at, adrift, sent>>
  BY DEF Sweep
<1>6. ended' \in SUBSET Entries /\ on' \in BOOLEAN
  BY <1>5 DEF IInv, TypeOK
<1>7. QED
  BY <1>3, <1>4, <1>5, <1>6, QuietStep DEF CloseMove

\* A step that leaves the rows moves them quietly.
LEMMA RowsLeft ==
    ASSUME IInv, UNCHANGED row
    PROVE  /\ row' \in [Entries -> Row]
           /\ \A f \in Entries : /\ CloseMove(row[f], row'[f])
                               /\ QuietMove(row[f], row'[f])
<1>1. row \in [Entries -> Row] /\ RowsOK
  BY DEF IInv, TypeOK
<1>2. QED
  BY <1>1, MoveNone DEF RowsOK, CloseMove

\* A mandate ends, or the queue is switched.
LEMMA AroundKeeps ==
    ASSUME IInv, Switch \/ \E e \in Entries : EndMandate(e)
    PROVE  IInv'
<1>1. UNCHANGED <<row, at, adrift, sent>> /\ ended' \in SUBSET Entries /\ on' \in BOOLEAN
  BY DEF IInv, TypeOK, Switch, EndMandate
<1>2. QED
  BY <1>1, RowsLeft, QuietStep

-----------------------------------------------------------------------------
(***************************************************************************)
(* The actions of an attempt.                                              *)
(***************************************************************************)

\* An attempt that is not idle is with an entry.
LEMMA WithEntry ==
    ASSUME IInv, NEW p \in Procs, at[p] # Idle \/ at[p].phase # "idle"
    PROVE  /\ at[p] \in Attempt /\ at[p].entry \in Entries /\ at[p].phase # "idle"
           /\ at[p].out => at[p].phase = "sending"
           /\ ~Unspent(row[at[p].entry])
           /\ adrift[at[p].entry] = 0
           /\ sent[at[p].entry] = IF at[p].out THEN 1 ELSE 0
           /\ \A q \in Procs : at[q].entry = at[p].entry => q = p
<1>1. at[p] \in Attempt /\ AttemptOK(at[p])
  BY DEF IInv, TypeOK, AttemptsOK
<1>2. Idle.phase = "idle"
  BY DEF Idle
<1>3. at[p].entry \in Entries /\ at[p].phase # "idle" /\ (at[p].out => at[p].phase = "sending")
  BY <1>1, <1>2 DEF AttemptOK
<1>4. QED
  BY <1>1, <1>3 DEF IInv, SoleAttempt, ChanceWithAttempt, UnspentUnsent

\* The idle attempt is with none.
LEMMA IdleIs ==
    Idle \in Attempt /\ AttemptOK(Idle) /\ Idle.entry \notin Entries
  BY ApprovalQueueAssumption DEF Idle, Attempt, AttemptOK

\* verify, begin the send, stall: the attempt keeps its entry.
LEMMA AttemptStep ==
    ASSUME IInv, NEW p \in Procs, Verify(p) \/ BeginSend(p) \/ Stall(p)
    PROVE  IInv'
<1>0. at \in [Procs -> Attempt] /\ AttemptsOK
  BY DEF IInv, TypeOK
<1>1. at[p] # Idle \/ at[p].phase # "idle"
  BY DEF Verify, BeginSend, Stall
<1>2. /\ at[p] \in Attempt /\ at[p].entry \in Entries /\ at[p].phase # "idle"
      /\ at[p].out => at[p].phase = "sending"
  BY <1>1, WithEntry
<1>3. \E a \in Attempt : /\ at' = [at EXCEPT ![p] = a]
                         /\ a.entry = at[p].entry /\ a.out = at[p].out
                         /\ AttemptOK(a)
  <2>1. CASE Verify(p)
    <3> DEFINE a == [at[p] EXCEPT !.phase = "asked"]
    <3>1. /\ a \in Attempt /\ a.entry = at[p].entry /\ a.out = at[p].out
          /\ a.phase = "asked"
      BY <1>2 DEF Attempt
    <3>2. at' = [at EXCEPT ![p] = a] /\ ~at[p].out
      BY <1>0, <1>2, <2>1 DEF Verify
    <3> HIDE DEF a
    <3>3. QED
      BY <1>2, <3>1, <3>2 DEF AttemptOK
  <2>2. CASE BeginSend(p)
    <3> DEFINE a == [at[p] EXCEPT !.phase = "sending"]
    <3>1. /\ a \in Attempt /\ a.entry = at[p].entry /\ a.out = at[p].out
          /\ a.phase = "sending"
      BY <1>2 DEF Attempt
    <3>2. at' = [at EXCEPT ![p] = a]
      BY <1>0, <2>2 DEF BeginSend
    <3> HIDE DEF a
    <3>3. QED
      BY <1>2, <3>1, <3>2 DEF AttemptOK
  <2>3. CASE Stall(p)
    <3> DEFINE a == [at[p] EXCEPT !.late = TRUE]
    <3>1. /\ a \in Attempt /\ a.entry = at[p].entry /\ a.out = at[p].out
          /\ a.phase = at[p].phase
      BY <1>2 DEF Attempt
    <3>2. at' = [at EXCEPT ![p] = a]
      BY <1>0, <2>3 DEF Stall
    <3> HIDE DEF a
    <3>3. QED
      BY <1>2, <3>1, <3>2 DEF AttemptOK
  <2>4. QED
    BY <2>1, <2>2, <2>3
<1>4. at' \in [Procs -> Attempt] /\ AttemptsOK'
  BY <1>0, <1>3 DEF AttemptsOK, AttemptOK
<1>5. \A q \in Procs : at'[q].entry = at[q].entry /\ at'[q].out = at[q].out
  BY <1>0, <1>3
<1>6. UNCHANGED <<row, ended, on, adrift, sent>>
  BY DEF Verify, BeginSend, Stall
<1>7. TypeOK'
  BY <1>4, <1>6 DEF IInv, TypeOK
<1>8. SoleAttempt' /\ ChanceWithAttempt' /\ ChanceOnce' /\ UnspentUnsent'
  BY <1>5, <1>6
  DEF IInv, SoleAttempt, ChanceWithAttempt, ChanceOnce, UnspentUnsent
<1>9. RowsOK' /\ NoTwins' /\ FiledFinite' /\ LimitOK'
  BY <1>6, RowsLeft, RowsKept, LimitKept DEF QuietMove, RowMove
<1>10. QED
  BY <1>4, <1>7, <1>8, <1>9 DEF IInv

\* claim: the entry had no attempt and nothing of it is out, and the limit
\* has room for it.
LEMMA ClaimKeeps ==
    ASSUME IInv, NEW p \in Procs, NEW e \in Entries, Claim(p, e)
    PROVE  IInv'
<1> DEFINE new == [row[e] EXCEPT !.status = "executing", !.held = "no",
                       !.attempts = @ + 1, !.age = 0, !.counted = TRUE]
           a == [Idle EXCEPT !.phase = "claimed", !.entry = e]
<1>0. /\ at \in [Procs -> Attempt] /\ AttemptsOK /\ row \in [Entries -> Row]
      /\ RowsOK /\ at[p] = Idle /\ row[e].status = "approved"
  BY DEF IInv, TypeOK, Claim
<1>1. RowKeep(row[e], new) /\ ~Unspent(new)
  BY <1>0, KeepClaim DEF RowsOK
<1>2. row' = [row EXCEPT ![e] = new]
  BY <1>0 DEF Claim
<1>3. a \in Attempt /\ a.entry = e /\ AttemptOK(a) /\ ~a.out
  <2>1. a.phase = "claimed" /\ a.entry = e /\ ~a.out
    BY DEF Idle
  <2>2. a \in Attempt
    <3>1. \A b \in Attempt : \A x \in {"idle", "claimed", "asked", "sending"} :
             [b EXCEPT !.phase = x] \in Attempt
      BY DEF Attempt
    <3>2. \A b \in Attempt : [b EXCEPT !.entry = e] \in Attempt
      BY DEF Attempt
    <3>3. "claimed" \in {"idle", "claimed", "asked", "sending"}
      OBVIOUS
    <3>4. QED
      BY <3>1, <3>2, <3>3, IdleIs, Zenon
  <2> HIDE DEF a
  <2>3. QED
    BY <2>1, <2>2 DEF AttemptOK
<1>4. at' = [at EXCEPT ![p] = a] /\ UNCHANGED <<ended, on, adrift, sent>>
  BY DEF Claim
<1> HIDE DEF new, a
<1>5. /\ row' \in [Entries -> Row] /\ row'[e] = new
      /\ \A f \in Entries \ {e} : row'[f] = row[f]
      /\ \A f \in Entries : RowKeep(row[f], row'[f])
  <2>1. new \in Row
    BY <1>1 DEF RowKeep
  <2>2. \A f \in Entries : RowKeep(row[f], row[f])
    BY <1>0, MoveNone DEF RowsOK, CloseMove, QuietMove, RowMove
  <2>3. QED
    BY <1>0, <1>1, <1>2, <2>1, <2>2
<1>6. /\ at' \in [Procs -> Attempt] /\ at'[p] = a
      /\ \A q \in Procs \ {p} : at'[q] = at[q]
  BY <1>0, <1>3, <1>4
<1>7. sent[e] = 0 /\ adrift[e] = 0 /\ \A q \in Procs : at[q].entry # e
  BY <1>0 DEF IInv, UnspentUnsent, Unspent
<1>8. TypeOK'
  BY <1>4, <1>5, <1>6 DEF IInv, TypeOK
<1>9. AttemptsOK'
  BY <1>0, <1>3, <1>6 DEF AttemptsOK
<1>10. SoleAttempt'
  BY <1>3, <1>6, <1>7 DEF IInv, SoleAttempt
<1>11. ChanceWithAttempt' /\ ChanceOnce'
  BY <1>3, <1>4, <1>6, <1>7 DEF IInv, ChanceWithAttempt, ChanceOnce
<1>12. UnspentUnsent'
  BY <1>1, <1>3, <1>4, <1>5, <1>6 DEF IInv, UnspentUnsent
<1>13. RowsOK' /\ NoTwins' /\ FiledFinite'
  BY <1>5, RowsKept
<1>14. LimitOK'
  <2> SUFFICES ASSUME NEW k \in {"mail_send", "mail_reply"}
               PROVE  Cardinality(Counted(k)') <= SendLimit
    BY DEF LimitOK
  <2>1. IsFiniteSet(Counted(k)) /\ Cardinality(Counted(k)) <= SendLimit
    BY CountedFinite DEF IInv, LimitOK
  <2>2. new.mail = row[e].mail /\ \A f \in Entries \ {e} : row'[f].mail = row[f].mail
    BY <1>1, <1>5 DEF RowKeep
  <2>3. CASE Kind(row[e].mail) = k
    <3>1. Counted(k)' \in SUBSET (Counted(k) \union {e})
      BY <1>5, CountedIs
    <3>2. Cardinality(Counted(k)) < SendLimit
      BY <2>3 DEF Claim
    <3>3. /\ IsFiniteSet(Counted(k) \union {e})
          /\ Cardinality(Counted(k) \union {e}) <= Cardinality(Counted(k)) + 1
      <4>1. /\ IsFiniteSet(Counted(k) \union {e})
            /\ Cardinality(Counted(k) \union {e})
                 = IF e \in Counted(k) THEN Cardinality(Counted(k))
                   ELSE Cardinality(Counted(k)) + 1
        BY <2>1, FS_AddElement, Zenon
      <4>2. Cardinality(Counted(k)) \in Nat
        BY <2>1, FS_CardinalityType
      <4>3. QED
        BY <4>1, <4>2
    <3>4. /\ Cardinality(Counted(k)') <= Cardinality(Counted(k) \union {e})
          /\ IsFiniteSet(Counted(k)')
      BY <3>1, <3>3, FS_Subset
    <3>5. /\ Cardinality(Counted(k)') \in Nat /\ Cardinality(Counted(k)) \in Nat
          /\ Cardinality(Counted(k) \union {e}) \in Nat
      BY <2>1, <3>3, <3>4, FS_CardinalityType
    <3>6. QED
      BY <3>2, <3>3, <3>4, <3>5, ApprovalQueueAssumption
  <2>4. CASE Kind(row[e].mail) # k
    <3>1. Counted(k)' = Counted(k)
      BY <1>5, <2>2, <2>4, CountedIs
    <3>2. QED
      BY <2>1, <3>1
  <2>5. QED
    BY <2>3, <2>4
<1>15. QED
  BY <1>8, <1>9, <1>10, <1>11, <1>12, <1>13, <1>14 DEF IInv

\* finish says what stands afterwards: an attempt that failed or is tried
\* again leaves the row unspent, every other one does not.
LEMMA FinishedSays ==
    ASSUME NEW r \in Row, RowOK(r), ~Unspent(r),
           NEW outcome \in {"done", "failed", "retry", "unknown"}
    PROVE  /\ Unspent(Finished(r, outcome)) => outcome \in {"failed", "retry"}
           /\ \/ Said(Finished(r, outcome)) = Said(r)
              \/ Said(Finished(r, outcome)) = "no" /\ outcome \in {"failed", "retry"}
           /\ Said(r) = "yes"
<1>1. CASE r.status # "executing"
  BY <1>1 DEF Finished, Unspent
<1>2. CASE r.status = "executing"
  <2>1. ~r.cleared
    BY <1>2 DEF RowOK
  <2>2. /\ Finished(r, outcome).status \in {"done", "unknown", "failed", "approved"}
        /\ outcome \in {"done", "unknown"} => Finished(r, outcome).status = outcome
    BY <1>2 DEF Finished, Row
  <2>3. QED
    BY <1>2, <2>2 DEF Unspent, Said
<1>3. QED
  BY <1>1, <1>2

\* finish, with what becomes of the send.
LEMMA SettleKeeps ==
    ASSUME IInv, NEW p \in Procs, at[p].phase # "idle",
           NEW outcome \in {"done", "failed", "retry", "unknown"},
           Settle(p, outcome), UNCHANGED <<ended, on, sent>>,
           \/ adrift' = adrift
           \/ /\ outcome = "unknown" /\ ~at[p].out
              /\ adrift' = [adrift EXCEPT ![at[p].entry] = @ + 1],
           outcome \in {"failed", "retry"} => ~at[p].out
    PROVE  /\ IInv'
           /\ \A f \in Entries :
                \/ Said(row'[f]) = Said(row[f])
                \/ Said(row'[f]) = "no" /\ Said(row[f]) # "no" /\ sent[f] = 0
<1> DEFINE e == at[p].entry
<1>0. /\ row \in [Entries -> Row] /\ RowsOK /\ at \in [Procs -> Attempt]
      /\ AttemptsOK /\ adrift \in [Entries -> Nat]
  BY DEF IInv, TypeOK
<1>1. /\ e \in Entries /\ ~Unspent(row[e]) /\ adrift[e] = 0
      /\ sent[e] = IF at[p].out THEN 1 ELSE 0
      /\ \A q \in Procs : at[q].entry = e => q = p
  BY WithEntry
<1>2. RowMove(row[e], Finished(row[e], outcome))
  BY <1>0, <1>1, MoveFinished DEF RowsOK
<1>3. /\ row' = [row EXCEPT ![e] = Finished(row[e], outcome)]
      /\ at' = [at EXCEPT ![p] = Idle]
  BY <1>0, <1>1 DEF Settle
<1>4. \/ adrift' = adrift
      \/ /\ outcome = "unknown" /\ ~at[p].out
         /\ adrift' = [adrift EXCEPT ![e] = @ + 1]
  OBVIOUS
<1>5. outcome \in {"failed", "retry"} => ~at[p].out
  OBVIOUS
<1>6. UNCHANGED <<ended, on, sent>>
  OBVIOUS
<1> HIDE DEF e
<1>7. /\ row' \in [Entries -> Row] /\ row'[e] = Finished(row[e], outcome)
      /\ \A f \in Entries \ {e} : row'[f] = row[f]
  BY <1>0, <1>1, <1>2, <1>3 DEF RowMove, RowKeep
<1>8. \A f \in Entries : RowMove(row[f], row'[f])
  <2>1. \A f \in Entries : RowMove(row[f], row[f])
    BY <1>0, MoveNone DEF RowsOK, CloseMove, QuietMove
  <2>2. QED
    BY <1>2, <1>7, <2>1
<1>9. /\ at' \in [Procs -> Attempt] /\ at'[p] = Idle
      /\ \A q \in Procs \ {p} : at'[q] = at[q]
  BY <1>0, <1>3, IdleIs
<1>10. \A q \in Procs : at'[q].entry # e
  BY <1>1, <1>9, IdleIs
<1>11. /\ adrift' \in [Entries -> Nat]
       /\ \A f \in Entries \ {e} : adrift'[f] = adrift[f]
       /\ adrift'[e] = 0 \/ (outcome = "unknown" /\ ~at[p].out /\ adrift'[e] = 1)
  BY <1>0, <1>1, <1>4
<1>12. TypeOK'
  BY <1>6, <1>7, <1>9, <1>11 DEF IInv, TypeOK
<1>13. AttemptsOK'
  BY <1>0, <1>9, IdleIs DEF AttemptsOK
<1>14. SoleAttempt'
  BY <1>9, IdleIs DEF IInv, SoleAttempt
<1>15. ChanceWithAttempt'
  <2> SUFFICES ASSUME NEW q \in Procs, at'[q].entry \in Entries
               PROVE  /\ adrift'[at'[q].entry] = 0
                      /\ sent'[at'[q].entry] = IF at'[q].out THEN 1 ELSE 0
    BY DEF ChanceWithAttempt
  <2>1. q # p /\ at'[q] = at[q] /\ at[q].entry # e
    BY <1>9, <1>10, IdleIs
  <2>2. QED
    BY <1>6, <1>11, <2>1 DEF IInv, ChanceWithAttempt
<1>16. ChanceOnce'
  BY <1>1, <1>6, <1>11 DEF IInv, ChanceOnce
<1>17. /\ Unspent(row'[e]) => outcome \in {"failed", "retry"}
       /\ \/ Said(row'[e]) = Said(row[e])
          \/ Said(row'[e]) = "no" /\ outcome \in {"failed", "retry"}
       /\ Said(row[e]) = "yes"
  BY <1>0, <1>1, <1>7, FinishedSays DEF RowsOK
<1>18. UnspentUnsent'
  <2> SUFFICES ASSUME NEW f \in Entries, Unspent(row'[f])
               PROVE  /\ sent'[f] = 0 /\ adrift'[f] = 0
                      /\ \A q \in Procs : at'[q].entry # f
    BY DEF UnspentUnsent
  <2>1. CASE f = e
    BY <1>1, <1>5, <1>6, <1>10, <1>11, <1>17, <2>1
  <2>2. CASE f # e
    <3>1. sent[f] = 0 /\ adrift[f] = 0 /\ \A q \in Procs : at[q].entry # f
      BY <1>7, <2>2 DEF IInv, UnspentUnsent
    <3>2. QED
      BY <1>6, <1>9, <1>11, <2>2, <3>1, IdleIs
  <2>3. QED
    BY <2>1, <2>2
<1>19. RowsOK' /\ NoTwins' /\ FiledFinite' /\ LimitOK'
  BY <1>8, RowsKept, LimitKept DEF RowMove
<1>20. IInv'
  BY <1>12, <1>13, <1>14, <1>15, <1>16, <1>18, <1>19 DEF IInv
<1>21. \A f \in Entries :
          \/ Said(row'[f]) = Said(row[f])
          \/ Said(row'[f]) = "no" /\ Said(row[f]) # "no" /\ sent[f] = 0
  BY <1>1, <1>5, <1>7, <1>17
<1>22. QED
  BY <1>20, <1>21

\* Every way an attempt is settled.
LEMMA SettlesKeep ==
    ASSUME IInv, NEW p \in Procs,
           \/ Refuse(p) \/ RefuseSend(p) \/ Answer(p) \/ SendThrows(p) \/ Deadline(p)
    PROVE  /\ IInv' /\ UNCHANGED sent
           /\ \A f \in Entries :
                \/ Said(row'[f]) = Said(row[f])
                \/ Said(row'[f]) = "no" /\ Said(row[f]) # "no" /\ sent[f] = 0
<1>1. at[p].phase # "idle" /\ UNCHANGED <<ended, on, sent>>
  BY DEF Refuse, RefuseSend, Answer, SendThrows, Deadline
<1>2. at[p].out => at[p].phase = "sending"
  BY <1>1, WithEntry
<1>3. PICK outcome \in {"done", "failed", "retry", "unknown"} :
        /\ Settle(p, outcome)
        /\ \/ adrift' = adrift
           \/ /\ outcome = "unknown" /\ ~at[p].out
              /\ adrift' = [adrift EXCEPT ![at[p].entry] = @ + 1]
        /\ outcome \in {"failed", "retry"} => ~at[p].out
  <2>1. CASE Refuse(p)
    BY <1>2, <2>1 DEF Refuse
  <2>2. CASE RefuseSend(p)
    BY <2>2 DEF RefuseSend
  <2>3. CASE Answer(p)
    BY <2>3 DEF Answer
  <2>4. CASE SendThrows(p)
    BY <2>4 DEF SendThrows, LetGo
  <2>5. CASE Deadline(p)
    BY <1>2, <2>5 DEF Deadline, LetGo
  <2>6. QED
    BY <2>1, <2>2, <2>3, <2>4, <2>5
<1>4. QED
  BY <1>1, <1>3, SettleKeeps

\* The process ends: the row is left, the send goes on alone.
LEMMA CrashKeeps ==
    ASSUME IInv, NEW p \in Procs, Crash(p)
    PROVE  IInv'
<1> DEFINE e == at[p].entry
<1>0. at \in [Procs -> Attempt] /\ AttemptsOK /\ adrift \in [Entries -> Nat]
  BY DEF IInv, TypeOK
<1>1. /\ e \in Entries /\ ~Unspent(row[e]) /\ adrift[e] = 0
      /\ sent[e] = IF at[p].out THEN 1 ELSE 0
      /\ \A q \in Procs : at[q].entry = e => q = p
  BY WithEntry DEF Crash
<1>2. /\ at' = [at EXCEPT ![p] = Idle] /\ UNCHANGED <<row, ended, on, sent>>
      /\ \/ adrift' = adrift
         \/ ~at[p].out /\ adrift' = [adrift EXCEPT ![e] = @ + 1]
  BY DEF Crash, LetGo
<1> HIDE DEF e
<1>3. /\ at' \in [Procs -> Attempt] /\ at'[p] = Idle
      /\ \A q \in Procs \ {p} : at'[q] = at[q]
  BY <1>0, <1>2, IdleIs
<1>4. /\ adrift' \in [Entries -> Nat]
      /\ \A f \in Entries \ {e} : adrift'[f] = adrift[f]
      /\ adrift'[e] = 0 \/ (~at[p].out /\ adrift'[e] = 1)
  BY <1>0, <1>1, <1>2
<1>5. \A q \in Procs : at'[q].entry # e
  BY <1>1, <1>3, IdleIs
<1>6. TypeOK' /\ AttemptsOK'
  BY <1>0, <1>2, <1>3, <1>4, IdleIs DEF IInv, TypeOK, AttemptsOK
<1>7. SoleAttempt'
  BY <1>3, IdleIs DEF IInv, SoleAttempt
<1>8. ChanceWithAttempt'
  <2> SUFFICES ASSUME NEW q \in Procs, at'[q].entry \in Entries
               PROVE  /\ adrift'[at'[q].entry] = 0
                      /\ sent'[at'[q].entry] = IF at'[q].out THEN 1 ELSE 0
    BY DEF ChanceWithAttempt
  <2>1. q # p /\ at'[q] = at[q] /\ at[q].entry # e
    BY <1>3, <1>5, IdleIs
  <2>2. QED
    BY <1>2, <1>4, <2>1 DEF IInv, ChanceWithAttempt
<1>9. ChanceOnce'
  BY <1>1, <1>2, <1>4 DEF IInv, ChanceOnce
<1>10. UnspentUnsent'
  <2> SUFFICES ASSUME NEW f \in Entries, Unspent(row[f])
               PROVE  /\ sent[f] = 0 /\ adrift'[f] = 0
                      /\ \A q \in Procs : at'[q].entry # f
    BY <1>2 DEF UnspentUnsent
  <2>1. f # e /\ sent[f] = 0 /\ adrift[f] = 0 /\ \A q \in Procs : at[q].entry # f
    BY <1>1 DEF IInv, UnspentUnsent
  <2>2. QED
    BY <1>3, <1>4, <2>1, IdleIs
<1>11. RowsOK' /\ NoTwins' /\ FiledFinite' /\ LimitOK'
  BY <1>2, RowsLeft, RowsKept, LimitKept DEF QuietMove, RowMove
<1>12. QED
  BY <1>6, <1>7, <1>8, <1>9, <1>10, <1>11 DEF IInv

\* The mail of an attempt goes out: it was the entry's one chance.
LEMMA GoOutKeeps ==
    ASSUME IInv, NEW p \in Procs, GoOut(p)
    PROVE  /\ IInv' /\ UNCHANGED row
           /\ at[p].entry \in Entries
           /\ Said(row[at[p].entry]) = "yes" /\ sent[at[p].entry] = 0
           /\ sent' = [sent EXCEPT ![at[p].entry] = 1]
<1> DEFINE e == at[p].entry
           a == [at[p] EXCEPT !.out = TRUE]
<1>0. /\ at \in [Procs -> Attempt] /\ AttemptsOK /\ sent \in [Entries -> Nat]
      /\ at[p] \in Attempt
  BY DEF IInv, TypeOK
<1>1. /\ e \in Entries /\ ~Unspent(row[e]) /\ adrift[e] = 0
      /\ sent[e] = IF at[p].out THEN 1 ELSE 0
      /\ \A q \in Procs : at[q].entry = e => q = p
  BY WithEntry DEF GoOut
<1>2. a \in Attempt /\ a.entry = e /\ a.out /\ a.phase = at[p].phase
  BY <1>0 DEF Attempt
<1>3. /\ at' = [at EXCEPT ![p] = a] /\ sent' = [sent EXCEPT ![e] = sent[e] + 1]
      /\ UNCHANGED <<row, ended, on, adrift>>
      /\ at[p].phase = "sending" /\ ~at[p].out
  BY <1>0, <1>1 DEF GoOut
<1>4. sent[e] = 0 /\ Said(row[e]) = "yes"
  BY <1>1, <1>3 DEF Unspent
<1>5. sent' = [sent EXCEPT ![e] = 1]
  BY <1>3, <1>4
<1> HIDE DEF e, a
<1>6. /\ at' \in [Procs -> Attempt] /\ at'[p] = a
      /\ \A q \in Procs \ {p} : at'[q] = at[q]
  BY <1>0, <1>2, <1>3
<1>7. /\ sent' \in [Entries -> Nat] /\ sent'[e] = 1
      /\ \A f \in Entries \ {e} : sent'[f] = sent[f]
  BY <1>0, <1>1, <1>5
<1>8. \A q \in Procs : at'[q].entry = at[q].entry
  BY <1>2, <1>6 DEF e
<1>9. TypeOK' /\ AttemptsOK'
  <2>1. AttemptOK(a)
    BY <1>1, <1>2, <1>3 DEF AttemptOK
  <2>2. QED
    BY <1>0, <1>3, <1>6, <1>7, <2>1 DEF IInv, TypeOK, AttemptsOK
<1>10. SoleAttempt'
  BY <1>8 DEF IInv, SoleAttempt
<1>11. ChanceWithAttempt'
  <2> SUFFICES ASSUME NEW q \in Procs, at'[q].entry \in Entries
               PROVE  /\ adrift[at'[q].entry] = 0
                      /\ sent'[at'[q].entry] = IF at'[q].out THEN 1 ELSE 0
    BY <1>3 DEF ChanceWithAttempt
  <2>1. CASE q = p
    BY <1>1, <1>2, <1>6, <1>7, <2>1
  <2>2. CASE q # p
    <3>1. at'[q] = at[q] /\ at[q].entry # e
      BY <1>1, <1>6, <2>2
    <3>2. QED
      BY <1>7, <3>1 DEF IInv, ChanceWithAttempt
  <2>3. QED
    BY <2>1, <2>2
<1>12. ChanceOnce'
  BY <1>1, <1>3, <1>7 DEF IInv, ChanceOnce
<1>13. UnspentUnsent'
  BY <1>1, <1>3, <1>7, <1>8 DEF IInv, UnspentUnsent
<1>14. RowsOK' /\ NoTwins' /\ FiledFinite' /\ LimitOK'
  BY <1>3, RowsLeft, RowsKept, LimitKept DEF QuietMove, RowMove
<1>15. IInv'
  BY <1>9, <1>10, <1>11, <1>12, <1>13, <1>14 DEF IInv
<1>16. QED
  BY <1>1, <1>3, <1>4, <1>5, <1>15 DEF e

\* A send adrift goes out or is lost: it was the entry's one chance.
LEMMA DriftKeeps ==
    ASSUME IInv, NEW e \in Entries, DriftOut(e) \/ DriftLost(e)
    PROVE  /\ IInv' /\ UNCHANGED row
           /\ \/ UNCHANGED sent
              \/ /\ Said(row[e]) = "yes" /\ sent[e] = 0
                 /\ sent' = [sent EXCEPT ![e] = 1]
<1>0. sent \in [Entries -> Nat] /\ adrift \in [Entries -> Nat] /\ adrift[e] > 0
  BY DEF IInv, TypeOK, DriftOut, DriftLost
<1>1. sent[e] = 0 /\ adrift[e] = 1
  BY <1>0 DEF IInv, ChanceOnce
<1>2. /\ adrift' = [adrift EXCEPT ![e] = 0] /\ UNCHANGED <<row, ended, on, at>>
      /\ UNCHANGED sent \/ sent' = [sent EXCEPT ![e] = 1]
  BY <1>0, <1>1 DEF DriftOut, DriftLost
<1>3. /\ adrift' \in [Entries -> Nat] /\ adrift'[e] = 0
      /\ \A f \in Entries \ {e} : adrift'[f] = adrift[f]
      /\ sent' \in [Entries -> Nat] /\ sent'[e] \in {0, 1}
      /\ \A f \in Entries \ {e} : sent'[f] = sent[f]
  BY <1>0, <1>1, <1>2
<1>4. ~Unspent(row[e]) /\ \A p \in Procs : at[p].entry # e
  BY <1>1 DEF IInv, UnspentUnsent, ChanceWithAttempt
<1>5. TypeOK' /\ AttemptsOK' /\ SoleAttempt'
  BY <1>2, <1>3 DEF IInv, TypeOK, AttemptsOK, SoleAttempt
<1>6. ChanceWithAttempt'
  BY <1>2, <1>3, <1>4 DEF IInv, ChanceWithAttempt
<1>7. ChanceOnce' /\ UnspentUnsent'
  BY <1>2, <1>3, <1>4 DEF IInv, ChanceOnce, UnspentUnsent
<1>8. RowsOK' /\ NoTwins' /\ FiledFinite' /\ LimitOK'
  BY <1>2, RowsLeft, RowsKept, LimitKept DEF QuietMove, RowMove
<1>9. IInv'
  BY <1>5, <1>6, <1>7, <1>8 DEF IInv
<1>10. QED
  BY <1>1, <1>2, <1>4, <1>9 DEF Unspent

-----------------------------------------------------------------------------
(***************************************************************************)
(* The invariant.                                                          *)
(***************************************************************************)

\* Nothing is filed, under way or sent.
LEMMA InitIInv == Init => IInv
<1> SUFFICES ASSUME Init PROVE IInv
  OBVIOUS
<1>1. NoRow \in Row /\ RowOK(NoRow) /\ NoRow.status = "absent"
  BY DEF NoRow, Row, Status, RowOK
<1>2. /\ row = [e \in Entries |-> NoRow] /\ at = [p \in Procs |-> Idle]
      /\ adrift = [e \in Entries |-> 0] /\ sent = [e \in Entries |-> 0]
      /\ ended = {} /\ on = TRUE
  BY DEF Init
<1>3. TypeOK
  BY <1>1, <1>2, IdleIs DEF TypeOK
<1>4. AttemptsOK /\ SoleAttempt /\ ChanceWithAttempt
  BY <1>2, IdleIs DEF AttemptsOK, SoleAttempt, ChanceWithAttempt
<1>5. ChanceOnce /\ UnspentUnsent
  BY <1>2, IdleIs DEF ChanceOnce, UnspentUnsent
<1>6. RowsOK /\ NoTwins
  BY <1>1, <1>2 DEF RowsOK, NoTwins, Standing, Active
<1>7. FiledFinite
  <2>1. Filed = {}
    BY <1>1, <1>2 DEF Filed
  <2>2. QED
    BY <2>1, FS_EmptySet DEF FiledFinite
<1>8. LimitOK
  <2> SUFFICES ASSUME NEW k \in {"mail_send", "mail_reply"}
               PROVE  Cardinality(Counted(k)) <= SendLimit
    BY DEF LimitOK
  <2>1. Counted(k) = {}
    BY <1>1, <1>2, CountedIs DEF Counts
  <2>2. QED
    BY <2>1, FS_EmptySet, ApprovalQueueAssumption
<1>9. QED
  BY <1>3, <1>4, <1>5, <1>6, <1>7, <1>8 DEF IInv

\* Every step keeps it.
LEMMA NextIInv == IInv /\ [Next]_vars => IInv'
<1> SUFFICES ASSUME IInv, [Next]_vars PROVE IInv'
  OBVIOUS
<1>1. ASSUME NEW e \in Entries, NEW m \in Mails, File(e, m) PROVE IInv'
  BY <1>1, FileKeeps
<1>2. ASSUME NEW e \in Entries, Approve(e) \/ Reject(e) \/ ClearUnknown(e) PROVE IInv'
  BY <1>2, ApproveKeeps, RejectKeeps
<1>3. ASSUME NEW p \in Procs, NEW e \in Entries, Claim(p, e) PROVE IInv'
  BY <1>3, ClaimKeeps
<1>4. ASSUME NEW p \in Procs, NEW e \in Entries, HoldKind(p, e) PROVE IInv'
  BY <1>4, HoldKeeps
<1>5. ASSUME NEW p \in Procs, Execute(p) PROVE IInv'
  BY <1>5, AttemptStep, SettlesKeep, GoOutKeeps DEF Execute
<1>6. ASSUME NEW p \in Procs, Stall(p) \/ Crash(p) PROVE IInv'
  BY <1>6, AttemptStep, CrashKeeps
<1>7. ASSUME Sweep PROVE IInv'
  BY <1>7, SweepKeeps
<1>8. ASSUME NEW e \in Entries, Age(e) \/ LeaveWindow(e) PROVE IInv'
  BY <1>8, AgeKeeps
<1>9. ASSUME NEW e \in Entries, DriftOut(e) \/ DriftLost(e) PROVE IInv'
  BY <1>9, DriftKeeps
<1>10. ASSUME Switch \/ \E e \in Entries : EndMandate(e) PROVE IInv'
  BY <1>10, AroundKeeps
<1>11. ASSUME UNCHANGED vars PROVE IInv'
  <2>1. UNCHANGED <<row, ended, on, at, adrift, sent>>
    BY <1>11 DEF vars
  <2>2. ended' \in SUBSET Entries /\ on' \in BOOLEAN
    BY <2>1 DEF IInv, TypeOK
  <2>3. QED
    BY <2>1, <2>2, RowsLeft, QuietStep
<1>12. QED
  BY <1>1, <1>2, <1>3, <1>4, <1>5, <1>6, <1>7, <1>8, <1>9, <1>10, <1>11 DEF Next

\* IInv is an invariant of the queue.
THEOREM Invariance == Spec => []IInv
  BY InitIInv, NextIInv, PTL DEF Spec

\* The rows, the attempts and the counters of sends have their types.
THEOREM TypeCorrect == Spec => []TypeOK
<1>1. IInv => TypeOK
  BY DEF IInv
<1>2. QED
  BY <1>1, Invariance, PTL

-----------------------------------------------------------------------------
(***************************************************************************)
(* What follows.                                                           *)
(***************************************************************************)

\* A mail that may be out, and that the owner did not clear, is one of a row
\* that was claimed and is not closed as not sent.
LEMMA OutIsClaimed ==
    ASSUME IInv, NEW e \in Entries, MayBeOut(e), ~row[e].cleared
    PROVE  row[e].status \in {"executing", "done", "unknown"} /\ row[e] \in Row
<1>1. row[e] \in Row /\ sent[e] \in Nat /\ adrift[e] \in Nat /\ RowOK(row[e])
  BY DEF IInv, TypeOK, RowsOK
<1>2. ~Unspent(row[e])
  BY <1>1 DEF IInv, UnspentUnsent, MayBeOut
<1>3. row[e].status \in Status
  BY <1>1 DEF Row
<1>4. QED
  BY <1>1, <1>2, <1>3 DEF Unspent, Said, Status, Ended

\* No mail goes out a second time before the first is released: what keeps
\* the same mail from being filed again (fileEntry) lasts as long as the
\* first may be out, through a crash, a deadline and the sweep.
THEOREM SecondMail == Spec => []NoSecondMail
<1>1. IInv => NoSecondMail
  <2> SUFFICES ASSUME IInv, NEW e \in Entries, NEW f \in Entries, e # f,
                      MayBeOut(e), MayBeOut(f),
                      SameMail(row[e].mail, row[f].mail),
                      ~Released(row[e]), ~Released(row[f])
               PROVE  FALSE
    BY DEF NoSecondMail
  <2>1. ASSUME NEW g \in Entries, MayBeOut(g), ~Released(row[g])
        PROVE  Standing(row[g])
    <3>1. /\ ~row[g].cleared
          /\ ~(row[g].status = "done" /\ row[g].age > 0)
          /\ ~(~Keyed /\ row[g].status = "unknown" /\ row[g].gone)
      BY <2>1 DEF Released
    <3>2. row[g].status \in {"executing", "done", "unknown"} /\ row[g] \in Row
      BY <2>1, <3>1, OutIsClaimed
    <3>3. row[g].age \in 0..2 /\ RowOK(row[g])
      BY <3>2 DEF Row, IInv, RowsOK
    <3>4. QED
      BY <3>1, <3>2, <3>3 DEF RowOK, Standing, Active, Ended
  <2>2. QED
    BY <2>1 DEF IInv, NoTwins
<1>2. QED
  BY <1>1, Invariance, PTL

\* What may be out within the limit's window is what the limit counted when
\* it admitted the claim (claim), whatever became of the claim since.
THEOREM SendLimitHolds == Spec => []SendLimitKept
<1>1. IInv => SendLimitKept
  <2> SUFFICES ASSUME IInv, NEW k \in {"mail_send", "mail_reply"}
               PROVE  Cardinality({e \in Entries : /\ MayBeOut(e) /\ row[e].counted
                                                   /\ ~row[e].cleared
                                                   /\ Kind(row[e].mail) = k})
                        <= SendLimit
    BY DEF SendLimitKept
  <2> DEFINE out == {e \in Entries : /\ MayBeOut(e) /\ row[e].counted
                                     /\ ~row[e].cleared /\ Kind(row[e].mail) = k}
  <2>1. \A e \in out : Counts(row[e])
    <3> SUFFICES ASSUME NEW e \in out PROVE Counts(row[e])
      OBVIOUS
    <3>1. row[e].status \in {"executing", "done", "unknown"} /\ RowOK(row[e])
      BY OutIsClaimed DEF IInv, RowsOK
    <3>2. QED
      BY <3>1 DEF RowOK, Counts, Ended
  <2>2. out \in SUBSET Counted(k)
    BY <2>1, CountedIs
  <2>3. IsFiniteSet(Counted(k)) /\ Cardinality(Counted(k)) <= SendLimit
    BY CountedFinite DEF IInv, LimitOK
  <2> HIDE DEF out
  <2>4. IsFiniteSet(out) /\ Cardinality(out) <= Cardinality(Counted(k))
    BY <2>2, <2>3, FS_Subset
  <2>5. Cardinality(out) \in Nat /\ Cardinality(Counted(k)) \in Nat
    BY <2>3, <2>4, FS_CardinalityType
  <2>6. Cardinality(out) <= SendLimit
    BY <2>3, <2>4, <2>5, ApprovalQueueAssumption
  <2>7. QED
    BY <2>6 DEF out
<1>2. QED
  BY <1>1, Invariance, PTL

-----------------------------------------------------------------------------
(***************************************************************************)
(* The queue implements ApprovalConsent.                                   *)
(***************************************************************************)

\* A step that sends nothing and only closes rows that were not sent is a
\* refusal of the abstract specification, for the rows it closes.
LEMMA ClosingIsNo ==
    ASSUME UNCHANGED sent,
           \A f \in Entries :
              \/ Said(row'[f]) = Said(row[f])
              \/ Said(row'[f]) = "no" /\ Said(row[f]) # "no" /\ sent[f] = 0
    PROVE  Consent!Next
<1> DEFINE es == {f \in Entries : Said(row'[f]) # Said(row[f])}
<1>1. es \in SUBSET Entries
  OBVIOUS
<1>2. Consent!No(es)
  BY DEF Consent!No
<1>3. QED
  BY <1>1, <1>2 DEF Consent!Next

\* The same, for a step whose rows all move that way.
LEMMA CloseIsNo ==
    ASSUME IInv, UNCHANGED sent, \A f \in Entries : CloseMove(row[f], row'[f])
    PROVE  Consent!Next
<1>1. \A f \in Entries : Unspent(row[f]) => sent[f] = 0
  BY DEF IInv, UnspentUnsent
<1>2. QED
  BY <1>1, ClosingIsNo DEF CloseMove

\* A mail that goes out is a send of the abstract specification.
LEMMA OutIsSend ==
    ASSUME NEW e \in Entries, UNCHANGED row,
           Said(row[e]) = "yes", sent[e] = 0, sent' = [sent EXCEPT ![e] = 1]
    PROVE  Consent!Next
<1>1. Consent!Send(e)
  BY DEF Consent!Send
<1>2. QED
  BY <1>1 DEF Consent!Next

\* Init of the queue is Init of the promise.
LEMMA ConsentInit == Init => Consent!Init
<1> SUFFICES ASSUME Init PROVE Consent!Init
  OBVIOUS
<1>1. NoRow.status = "absent"
  BY DEF NoRow
<1>2. \A e \in Entries : Said(row[e]) = "open"
  BY <1>1 DEF Init, Said
<1>3. QED
  BY <1>2 DEF Consent!Init, Init

\* Every step of the queue is one of the promise, or leaves it.
LEMMA ConsentStep == IInv /\ [Next]_vars => [Consent!Next]_(Consent!consent)
<1> SUFFICES ASSUME IInv, [Next]_vars PROVE Consent!Next
  OBVIOUS
<1>1. ASSUME NEW e \in Entries, NEW m \in Mails, File(e, m) PROVE Consent!Next
  <2> DEFINE new == [NoRow EXCEPT !.status = "pending", !.mail = m]
  <2>1. row \in [Entries -> Row] /\ row[e].status = "absent" /\ UNCHANGED sent
    BY <1>1 DEF IInv, TypeOK, File
  <2>2. row'[e] = new /\ \A f \in Entries \ {e} : row'[f] = row[f]
    BY <1>1, <2>1 DEF File
  <2>3. new.status = "pending"
    BY DEF NoRow
  <2> HIDE DEF new
  <2>4. Said(row'[e]) = "open" /\ Said(row[e]) = "open"
    BY <2>1, <2>2, <2>3 DEF Said
  <2>5. QED
    BY <2>1, <2>2, <2>4, ClosingIsNo
<1>2. ASSUME NEW e \in Entries, Approve(e) PROVE Consent!Next
  <2>1. /\ Said(row[e]) = "open" /\ Said(row'[e]) = "yes" /\ UNCHANGED sent
        /\ \A f \in Entries \ {e} : row'[f] = row[f]
    BY <1>2, ApproveKeeps
  <2>2. \A f \in Entries : Said(row'[f]) = IF f = e THEN "yes" ELSE Said(row[f])
    BY <2>1
  <2>3. [f \in Entries |-> Said(row'[f])]
          = [[f \in Entries |-> Said(row[f])] EXCEPT ![e] = "yes"]
    BY <2>2
  <2>4. Consent!Yes(e)
    BY <2>1, <2>3 DEF Consent!Yes
  <2>5. QED
    BY <2>4 DEF Consent!Next
<1>3. ASSUME NEW e \in Entries, Reject(e) \/ ClearUnknown(e) PROVE Consent!Next
  BY <1>3, RejectKeeps, CloseIsNo
<1>4. ASSUME NEW p \in Procs, NEW e \in Entries, Claim(p, e) PROVE Consent!Next
  <2> DEFINE new == [row[e] EXCEPT !.status = "executing", !.held = "no",
                         !.attempts = @ + 1, !.age = 0, !.counted = TRUE]
  <2>1. /\ row \in [Entries -> Row] /\ RowsOK /\ row[e].status = "approved"
        /\ UNCHANGED sent
    BY <1>4 DEF IInv, TypeOK, Claim
  <2>2. row'[e] = new /\ \A f \in Entries \ {e} : row'[f] = row[f]
    BY <1>4, <2>1 DEF Claim
  <2>3. ~Unspent(new)
    BY <2>1, KeepClaim DEF RowsOK
  <2> HIDE DEF new
  <2>4. Said(row'[e]) = "yes" /\ Said(row[e]) = "yes"
    BY <2>1, <2>2, <2>3 DEF Said, Unspent
  <2>5. QED
    BY <2>1, <2>2, <2>4, ClosingIsNo
<1>5. ASSUME NEW p \in Procs, NEW e \in Entries, HoldKind(p, e) PROVE Consent!Next
  BY <1>5, HoldKeeps, CloseIsNo
<1>6. ASSUME NEW p \in Procs,
             Verify(p) \/ BeginSend(p) \/ Stall(p) \/ Crash(p)
      PROVE  Consent!Next
  <2>1. UNCHANGED <<row, sent>>
    BY <1>6 DEF Verify, BeginSend, Stall, Crash
  <2>2. QED
    BY <2>1, ClosingIsNo
<1>7. ASSUME NEW p \in Procs, GoOut(p) PROVE Consent!Next
  BY <1>7, GoOutKeeps, OutIsSend
<1>8. ASSUME NEW p \in Procs,
             \/ Refuse(p) \/ RefuseSend(p) \/ Answer(p) \/ SendThrows(p) \/ Deadline(p)
      PROVE  Consent!Next
  BY <1>8, SettlesKeep, ClosingIsNo
<1>9. ASSUME Sweep PROVE Consent!Next
  BY <1>9, SweepKeeps, CloseIsNo
<1>10. ASSUME NEW e \in Entries, Age(e) \/ LeaveWindow(e) PROVE Consent!Next
  BY <1>10, AgeKeeps, CloseIsNo
<1>11. ASSUME NEW e \in Entries, DriftOut(e) \/ DriftLost(e) PROVE Consent!Next
  <2>1. /\ UNCHANGED row
        /\ \/ UNCHANGED sent
           \/ /\ Said(row[e]) = "yes" /\ sent[e] = 0
              /\ sent' = [sent EXCEPT ![e] = 1]
    BY <1>11, DriftKeeps
  <2>2. QED
    BY <2>1, OutIsSend, ClosingIsNo
<1>12. ASSUME Switch \/ (\E e \in Entries : EndMandate(e)) \/ UNCHANGED vars
       PROVE  Consent!Next
  <2>1. UNCHANGED <<row, sent>>
    BY <1>12 DEF Switch, EndMandate, vars
  <2>2. QED
    BY <2>1, ClosingIsNo
<1>13. QED
  BY <1>1, <1>2, <1>3, <1>4, <1>5, <1>6, <1>7, <1>8, <1>9, <1>10, <1>11, <1>12
  DEF Next, Execute

\* The queue keeps its promise to the owner: with any number of processes,
\* crashes, deadlines, stalls and sweeps, a mail leaves at most once and only
\* under the owner's yes, and what is shown as not sent has not left and
\* never will (claim, finish, sweep, withinDeadline).
THEOREM KeepsItsPromise == Spec => KeepsConsent
  BY Invariance, ConsentInit, ConsentStep, PTL DEF Spec, KeepsConsent, Consent!Spec

=============================================================================
