----------------------------- MODULE MCWorkerLease -----------------------------
(***************************************************************************)
(* Instances of WorkerLease for TLC.                                       *)
(***************************************************************************)
EXTENDS WorkerLease, TLC

\* Processes differ in nothing but their uuid.
Symmetry == Permutations(Procs)

=============================================================================
