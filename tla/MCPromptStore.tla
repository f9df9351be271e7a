----------------------------- MODULE MCPromptStore -----------------------------
(***************************************************************************)
(* Instances of PromptStore for TLC.                                       *)
(***************************************************************************)
EXTENDS PromptStore, TLC

\* Ids and sessions are interchangeable: no definition tells two apart.
Symmetry == Permutations(Prompts) \union Permutations(Sessions)

=============================================================================
