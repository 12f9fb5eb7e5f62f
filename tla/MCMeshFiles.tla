---------------------------- MODULE MCMeshFiles ----------------------------
(* MeshFiles for TLC: two nodes on one bucket, or on one each.             *)
EXTENDS MeshFiles, TLC

CONSTANTS n1, n2, b1, b2

SharedOrOwn == {n1 :> b1 @@ n2 :> b1, n1 :> b1 @@ n2 :> b2}
OneBucket == {n1 :> b1 @@ n2 :> b1}
SomeRequests == {<<"raw", "put">>, <<"raw", "delete">>, <<"tool", "list">>}
KeySymmetry == Permutations(Keys) \cup Permutations(Params)
=============================================================================
