--------------------------- MODULE MCSeedElection ---------------------------
(* SeedElection for TLC.  Names are ordered, so there is no symmetry.      *)
EXTENDS SeedElection

TwoNodes == {1, 2}
ThreeNodes == {1, 2, 3}
TwoTimes == {1, 2}
FourTimes == {1, 2, 3, 4}
=============================================================================
