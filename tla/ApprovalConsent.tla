---------------------------- MODULE ApprovalConsent ----------------------------
(***************************************************************************)
(* What the approval queue promises its owner (the invariants I3 and I4 in *)
(* the header of core/approval-store.ts): a mail leaves only while the     *)
(* owner's yes stands, it leaves at most once, and an entry shown as not   *)
(* sent has not left and never will.                                       *)
(***************************************************************************)
EXTENDS Naturals

CONSTANT Entries

VARIABLES
    said,  \* what stands for each entry: "open", "yes" or "no"
    sent   \* how often its mail has left

consent == <<said, sent>>

Init ==
    /\ said = [e \in Entries |-> "open"]
    /\ sent = [e \in Entries |-> 0]

\* The owner approves an entry that waits.
Yes(e) ==
    /\ said[e] = "open"
    /\ said' = [said EXCEPT ![e] = "yes"]
    /\ UNCHANGED sent

\* Entries are closed as not sent: discarded, expired or failed.
No(es) ==
    /\ \A e \in es : said[e] # "no" /\ sent[e] = 0
    /\ said' = [e \in Entries |-> IF e \in es THEN "no" ELSE said[e]]
    /\ UNCHANGED sent

Send(e) ==
    /\ said[e] = "yes" /\ sent[e] = 0
    /\ sent' = [sent EXCEPT ![e] = 1]
    /\ UNCHANGED said

Next ==
    \/ \E e \in Entries : Yes(e) \/ Send(e)
    \/ \E es \in SUBSET Entries : No(es)

Spec == Init /\ [][Next]_consent

=============================================================================
