---------------------------- MODULE MCApprovalQueue ----------------------------
(***************************************************************************)
(* Instances of ApprovalQueue for TLC.                                     *)
(***************************************************************************)
EXTENDS ApprovalQueue, TLC

CONSTANTS s1, s2, r1, f1

\* Two mails of one family and a reply.
MCFamily == (s1 :> f1) @@ (s2 :> f1) @@ (r1 :> Null)

\* The family is that of both mails, so they are interchangeable too.
Symmetry == Permutations(Entries) \union Permutations(Procs) \union Permutations({s1, s2})

=============================================================================
