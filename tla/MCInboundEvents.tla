---------------------------- MODULE MCInboundEvents ----------------------------
(***************************************************************************)
(* Instances of InboundEvents for TLC.                                     *)
(***************************************************************************)
EXTENDS InboundEvents, TLC

\* Bodies and processes are interchangeable.
Symmetry == Permutations(Events) \union Permutations(Procs)

=============================================================================
