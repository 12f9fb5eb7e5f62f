---------------------------- MODULE MCNodeTools ----------------------------
(* NodeTools for TLC: symmetry of the handlers, and of versions v1 and v2   *)
(* where neither is refused.                                                *)
EXTENDS NodeTools, TLC

Good == Versions \ (Rejected \cup BadMethods)
HandlerSymmetry == Permutations(Handlers)
SameVersions == Permutations(Handlers) \cup Permutations(Good)
=============================================================================
