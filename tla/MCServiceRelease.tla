-------------------------- MODULE MCServiceRelease --------------------------
(* The second version asks for other packages, the third has another name, *)
(* the fourth has the old name again and, under the same name, another     *)
(* requirements file.                                                      *)
EXTENDS ServiceRelease, TLC

CONSTANTS t1, t2, a, b, c

Renamed ==
  <<[name |-> t1, packages |-> a],
    [name |-> t1, packages |-> b],
    [name |-> t2, packages |-> b],
    [name |-> t1, packages |-> c]>>

\* b and c differ in what the requirements file holds.
SameFile == a :> a @@ b :> b @@ c :> b

\* Bounds: an operator who releases another clone has done nothing in this one,
\* and none has a part in a history that has the last version.  A release asks
\* of the node what anybody may ask of it, so the node's states are all there.
Untouched == local = 1 /\ fetched = 1

OperatorStops ==
  /\ local < MaxVersion
  /\ rel # NoRelease /\ rel.version = Elsewhere => Untouched
  /\ origin = MaxVersion => Untouched /\ rel = NoRelease

\* Bound: no release asks for the configuration of the other tool.
ServiceConfigured == t2 \notin conf
=============================================================================
