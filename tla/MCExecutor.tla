----------------------------- MODULE MCExecutor -----------------------------
(* Executor for TLC: symmetry of the process identifiers.                  *)
EXTENDS Executor, TLC

ProcSymmetry == Permutations(Procs)
=============================================================================
