----------------------------- MODULE MCDurableWait -----------------------------
(***************************************************************************)
(* Instances of DurableWait for TLC.                                       *)
(***************************************************************************)
EXTENDS DurableWait, TLC

\* Ids and threads are interchangeable.
Symmetry == Permutations(Prompts) \union Permutations(Sessions)

=============================================================================
