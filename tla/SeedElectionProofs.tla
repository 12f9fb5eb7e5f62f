------------------------- MODULE SeedElectionProofs -------------------------
(***************************************************************************)
(* Proofs about SeedElection, for every set of nodes, every clock and any  *)
(* number of starts: the type invariant, and what split-brain resolution   *)
(* guarantees as long as no process exits.                                 *)
(*                                                                         *)
(* SeedRemains is not inductive: a node that demotes must not be the last  *)
(* seed.  The strengthening says that every node that has ever held the    *)
(* role has a current seed at or above it (Covered), and that every record *)
(* a decision can be based on names such a node (the other conjuncts).     *)
(***************************************************************************)
EXTENDS SeedElection, TLAPS

\* Nodes that hold or have held the seed role.
Elected(n) == state[n] \in {"seed", "demoting", "demoted", "broken"}

\* A current seed at or above n in the order of the election.
SeedAbove(n) ==
  \E k \in Nodes : state[k] = "seed" /\ (k = n \/ Outranks(k, n))

AdvertsElected == \A n \in Nodes : advert[n] = "seed" => Elected(n)
HeardElected == \A n \in Nodes : \A r \in heard[n] : Elected(r.name)
JoinedElected ==
  \A n \in Nodes : state[n] = "joined" => up[n] \in Nodes /\ Elected(up[n])
PendingUpward ==
  \A n \in Nodes : \A m \in pending[n] :
    Elected(n) /\ Elected(m) /\ Outranks(m, n)
\* Nodes that were seeds and are not any more.
GaveUp(n) == state[n] \in {"demoting", "demoted", "broken"}
UpElected == \A n \in Nodes : GaveUp(n) => Elected(up[n])
Covered == \A n \in Nodes : Elected(n) => SeedAbove(n)

ElectionInv ==
  /\ TypeOK
  /\ AdvertsElected
  /\ HeardElected
  /\ JoinedElected
  /\ PendingUpward
  /\ DemotesUpward
  /\ UpElected
  /\ Covered

-----------------------------------------------------------------------------
(* Types.                                                                  *)

\* Every variable has its type in every initial state.
LEMMA TypeInit == ASSUME Init PROVE TypeOK
BY DEF Init, TypeOK, States, Stamps

\* Every step of a node, and every stuttering step, keeps the types.
LEMMA TypeStep == ASSUME TypeOK, [Next]_vars PROVE TypeOK'
<1> USE DEF TypeOK
<1>1. CASE UNCHANGED vars
  BY <1>1 DEF vars, bootVars, browseVars
<1>2. CASE \E n \in Nodes : NodeStep(n)
  <2>1. PICK n \in Nodes : NodeStep(n)
    BY <1>2
  <2>2. CASE Boot(n)
    BY <2>2 DEF Boot, browseVars, States, Stamps
  <2>3. ASSUME NEW m \in Nodes, Hear(n, m) PROVE TypeOK'
    BY <2>3 DEF Hear, browseVars, Records
  <2>4. CASE BecomeSeed(n)
    BY <2>4 DEF BecomeSeed, bootVars, browseVars, States
  <2>5. CASE JoinSeed(n)
    BY <2>5 DEF JoinSeed, FindSeed, browseVars, States, Records
  <2>6. CASE SetNodeName(n)
    BY <2>6 DEF SetNodeName, bootVars, browseVars
  <2>7. ASSUME NEW m \in Nodes, Found(n, m) PROVE TypeOK'
    BY <2>7 DEF Found, bootVars
  <2>8. CASE RoundEnd(n)
    BY <2>8 DEF RoundEnd, bootVars
  <2>9. ASSUME NEW m \in Nodes, DemoteBegin(n, m) PROVE TypeOK'
    BY <2>9 DEF DemoteBegin, bootVars, browseVars, States
  <2>10. CASE DemoteFinish(n)
    BY <2>10 DEF DemoteFinish, bootVars, States
  <2>11. CASE DemoteFail(n)
    BY <2>11 DEF DemoteFail, bootVars, browseVars, States
  <2>12. CASE Leave(n)
    BY <2>12 DEF Leave, States, Stamps
  <2>13. QED
    BY <2>1, <2>2, <2>3, <2>4, <2>5, <2>6, <2>7, <2>8, <2>9, <2>10, <2>11, <2>12
       DEF NodeStep
<1>3. QED
  BY <1>1, <1>2 DEF Next

\* Every variable of the election has its type, whatever fails and however the
\* clocks of the hosts disagree.
THEOREM TypeCorrect == Spec => []TypeOK
<1>1. Init => TypeOK
  BY TypeInit
<1>2. TypeOK /\ [Next]_vars => TypeOK'
  BY TypeStep
<1>3. QED
  BY <1>1, <1>2, PTL DEF Spec

-----------------------------------------------------------------------------
(* The order of the election, and what stays true of an elected node.      *)

\* Start times and names are numbers.
LEMMA StampsAreNumbers ==
  ASSUME TypeOK, NEW n \in Nodes
  PROVE  n \in Nat /\ startedAt[n] \in Nat
<1>1. Nodes \subseteq Nat /\ Stamps \subseteq Nat
  BY SeedElectionAssumption DEF SeedElectionAssumption, Stamps
<1>2. startedAt[n] \in Stamps
  BY DEF TypeOK
<1>3. QED
  BY <1>1, <1>2

\* The order is transitive: a chain of demotions only ever goes upward.
LEMMA OutranksTransitive ==
  ASSUME TypeOK, NEW a \in Nodes, NEW b \in Nodes, NEW c \in Nodes,
         Outranks(a, b), Outranks(b, c)
  PROVE  Outranks(a, c)
BY StampsAreNumbers DEF Outranks

\* No node outranks itself.
LEMMA OutranksIrreflexive ==
  ASSUME TypeOK, NEW a \in Nodes
  PROVE  ~Outranks(a, a)
BY StampsAreNumbers DEF Outranks

\* A seed that should demote for another is outranked by it, named or not.
LEMMA DemotesForHigher ==
  ASSUME TypeOK, NEW n \in Nodes, NEW m \in Nodes, ShouldDemote(n, m)
  PROVE  Outranks(m, n)
BY StampsAreNumbers DEF ShouldDemote, Outranks

\* While no process exits, an elected node stays elected and keeps its start
\* time.
LEMMA ElectedStays ==
  ASSUME TypeOK, [Next]_vars, "leave" \notin Faults,
         NEW m \in Nodes, Elected(m)
  PROVE  Elected(m)' /\ startedAt'[m] = startedAt[m]
<1>1. CASE UNCHANGED vars
  BY <1>1 DEF vars, bootVars, Elected
<1>2. CASE \E n \in Nodes : NodeStep(n)
  <2>1. PICK n \in Nodes : NodeStep(n)
    BY <1>2
  <2>2. ~Leave(n)
    BY DEF Leave
  <2>3. CASE Boot(n)
    BY <2>3 DEF Boot, Elected, TypeOK
  <2>4. CASE \E k \in Nodes : Hear(n, k) \/ Found(n, k)
    BY <2>4 DEF Hear, Found, Elected, bootVars
  <2>5. CASE BecomeSeed(n) \/ JoinSeed(n)
    BY <2>5 DEF BecomeSeed, JoinSeed, Elected, bootVars, TypeOK
  <2>6. CASE SetNodeName(n) \/ RoundEnd(n)
    BY <2>6 DEF SetNodeName, RoundEnd, Elected, bootVars
  <2>7. CASE \E k \in Nodes : DemoteBegin(n, k)
    BY <2>7 DEF DemoteBegin, Elected, bootVars, TypeOK
  <2>8. CASE DemoteFinish(n) \/ DemoteFail(n)
    BY <2>8 DEF DemoteFinish, DemoteFail, Elected, bootVars, TypeOK
  <2>9. QED
    BY <2>1, <2>2, <2>3, <2>4, <2>5, <2>6, <2>7, <2>8 DEF NodeStep
<1>3. QED
  BY <1>1, <1>2 DEF Next

\* The order between two elected nodes does not change either.
LEMMA OrderStays ==
  ASSUME TypeOK, [Next]_vars, "leave" \notin Faults,
         NEW m \in Nodes, NEW n \in Nodes, Elected(m), Elected(n), Outranks(m, n)
  PROVE  Outranks(m, n)'
<1>1. startedAt'[m] = startedAt[m] /\ startedAt'[n] = startedAt[n]
  BY ElectedStays
<1>2. QED
  BY <1>1 DEF Outranks

-----------------------------------------------------------------------------
(* The inductive step, one lemma per conjunct.                             *)

\* Only an elected node advertises the seed role.
LEMMA AdvertsStep ==
  ASSUME TypeOK, [Next]_vars, "leave" \notin Faults, AdvertsElected
  PROVE  AdvertsElected'
<1> SUFFICES ASSUME NEW m \in Nodes, advert'[m] = "seed"
             PROVE  Elected(m)'
  BY DEF AdvertsElected
<1>1. CASE advert[m] = "seed"
  BY <1>1, ElectedStays DEF AdvertsElected
<1>2. CASE advert[m] # "seed"
  <2>1. PICK n \in Nodes : NodeStep(n)
    BY <1>2 DEF Next, vars
  <2>2. BecomeSeed(n) /\ n = m
    BY <2>1, <1>2 DEF NodeStep, Boot, Hear, BecomeSeed, JoinSeed, SetNodeName,
       Found, RoundEnd, DemoteBegin, DemoteFinish, DemoteFail, Leave, TypeOK
  <2>3. QED
    BY <2>2 DEF BecomeSeed, Elected, TypeOK
<1>3. QED
  BY <1>1, <1>2

\* Every record a browse has collected names an elected node.
LEMMA HeardStep ==
  ASSUME TypeOK, [Next]_vars, "leave" \notin Faults, AdvertsElected, HeardElected
  PROVE  HeardElected'
<1> SUFFICES ASSUME NEW k \in Nodes, NEW r \in heard'[k]
             PROVE  Elected(r.name)'
  BY DEF HeardElected
<1>1. CASE r \in heard[k]
  <2>1. r.name \in Nodes /\ Elected(r.name)
    BY <1>1 DEF HeardElected, TypeOK, Records
  <2>2. QED
    BY <2>1, ElectedStays
<1>2. CASE r \notin heard[k]
  <2>1. PICK n \in Nodes : NodeStep(n)
    BY <1>2 DEF Next, vars, bootVars
  <2>2. PICK m \in Nodes : Hear(n, m) /\ r.name = m
    BY <2>1, <1>2 DEF NodeStep, Boot, Hear, BecomeSeed, JoinSeed, SetNodeName,
       Found, RoundEnd, DemoteBegin, DemoteFinish, DemoteFail, Leave, TypeOK,
       bootVars
  <2>3. Elected(m)
    BY <2>2 DEF Hear, AdvertsElected
  <2>4. QED
    BY <2>2, <2>3, ElectedStays
<1>3. QED
  BY <1>1, <1>2

\* A joined node's upstream is an elected node.
LEMMA JoinedStep ==
  ASSUME TypeOK, [Next]_vars, "leave" \notin Faults, HeardElected, JoinedElected
  PROVE  JoinedElected'
<1> SUFFICES ASSUME NEW k \in Nodes, state'[k] = "joined"
             PROVE  (up[k] \in Nodes /\ Elected(up[k]))'
  BY DEF JoinedElected
<1>1. CASE state[k] = "joined"
  <2>1. up'[k] = up[k]
    <3>1. CASE UNCHANGED vars
      BY <3>1 DEF vars
    <3>2. CASE \E n \in Nodes : NodeStep(n)
      BY <3>2, <1>1 DEF NodeStep, Boot, Hear, BecomeSeed, JoinSeed, SetNodeName,
         Found, RoundEnd, DemoteBegin, DemoteFinish, DemoteFail, Leave, TypeOK
    <3>3. QED
      BY <3>1, <3>2 DEF Next
  <2>2. up[k] \in Nodes /\ Elected(up[k])
    BY <1>1 DEF JoinedElected
  <2>3. QED
    BY <2>1, <2>2, ElectedStays DEF Elected
<1>2. CASE state[k] # "joined"
  <2>1. PICK n \in Nodes : NodeStep(n)
    BY <1>2 DEF Next, vars
  <2>2. JoinSeed(n) /\ n = k
    BY <2>1, <1>2 DEF NodeStep, Boot, Hear, BecomeSeed, JoinSeed, SetNodeName,
       Found, RoundEnd, DemoteBegin, DemoteFinish, DemoteFail, Leave, TypeOK
  <2>3. PICK r \in heard[k] : up'[k] = r.name
    BY <2>2 DEF JoinSeed, FindSeed, TypeOK
  <2>4. r.name \in Nodes /\ Elected(r.name)
    BY <2>3 DEF HeardElected, TypeOK, Records
  <2>5. QED
    BY <2>3, <2>4, ElectedStays DEF Elected
<1>3. QED
  BY <1>1, <1>2

\* A demotion that is about to start goes from an elected node to a higher one.
LEMMA PendingStep ==
  ASSUME TypeOK, [Next]_vars, "leave" \notin Faults, AdvertsElected, PendingUpward
  PROVE  PendingUpward'
<1> SUFFICES ASSUME NEW k \in Nodes, NEW m \in pending'[k]
             PROVE  (Elected(k) /\ Elected(m) /\ Outranks(m, k))'
  BY DEF PendingUpward
<1>1. m \in Nodes
  BY TypeStep DEF TypeOK
<1>2. Elected(k) /\ Elected(m) /\ Outranks(m, k)
  <2>1. CASE m \in pending[k]
    BY <2>1 DEF PendingUpward
  <2>2. CASE m \notin pending[k]
    <3>1. PICK n \in Nodes : NodeStep(n)
      BY <2>2 DEF Next, vars
    <3>2. Found(k, m) /\ advert[m] = "seed" /\ ShouldDemote(k, m)
      BY <3>1, <2>2, <1>1 DEF NodeStep, Boot, Hear, BecomeSeed, JoinSeed,
         SetNodeName, Found, RoundEnd, DemoteBegin, DemoteFinish, DemoteFail,
         Leave, TypeOK
    <3>3. QED
      BY <3>2, <1>1, DemotesForHigher DEF Found, Elected, AdvertsElected
  <2>3. QED
    BY <2>1, <2>2
<1>3. QED
  BY <1>1, <1>2, ElectedStays, OrderStays

\* What a node gave up the role for was elected, and ranks above it.
LEMMA UpwardStep ==
  ASSUME TypeOK, [Next]_vars, "leave" \notin Faults, PendingUpward,
         DemotesUpward, UpElected
  PROVE  (DemotesUpward /\ UpElected)'
<1> SUFFICES ASSUME NEW k \in Nodes, GaveUp(k)'
             PROVE  (up[k] \in Nodes /\ Outranks(up[k], k) /\ Elected(up[k]))'
  BY DEF DemotesUpward, UpElected, GaveUp
<1>1. CASE GaveUp(k)
  <2>1. up'[k] = up[k]
    <3>1. CASE UNCHANGED vars
      BY <3>1 DEF vars
    <3>2. CASE \E n \in Nodes : NodeStep(n)
      BY <3>2, <1>1 DEF NodeStep, Boot, Hear, BecomeSeed, JoinSeed, SetNodeName,
         Found, RoundEnd, DemoteBegin, DemoteFinish, DemoteFail, Leave, TypeOK,
         GaveUp
    <3>3. QED
      BY <3>1, <3>2 DEF Next
  <2>2. up[k] \in Nodes /\ Outranks(up[k], k) /\ Elected(up[k])
    BY <1>1 DEF DemotesUpward, UpElected, GaveUp
  <2>3. Elected(up[k])' /\ Outranks(up[k], k)'
    <3>1. Elected(k)
      BY <1>1 DEF GaveUp, Elected
    <3>2. startedAt'[k] = startedAt[k] /\ startedAt'[up[k]] = startedAt[up[k]]
      BY <2>2, <3>1, ElectedStays
    <3>3. state'[up[k]] \in {"seed", "demoting", "demoted", "broken"}
      BY <2>1, <2>2, ElectedStays DEF Elected
    <3>4. QED
      BY <2>1, <2>2, <3>2, <3>3 DEF Outranks, Elected
  <2>4. QED
    BY <2>1, <2>2, <2>3
<1>2. CASE ~GaveUp(k)
  <2>1. PICK n \in Nodes : NodeStep(n)
    BY <1>2 DEF Next, vars, GaveUp
  <2>2. PICK m \in Nodes : DemoteBegin(n, m) /\ n = k /\ up'[k] = m
    BY <2>1, <1>2 DEF NodeStep, Boot, Hear, BecomeSeed, JoinSeed, SetNodeName,
       Found, RoundEnd, DemoteBegin, DemoteFinish, DemoteFail, Leave, TypeOK,
       GaveUp
  <2>3. Elected(k) /\ Elected(m) /\ Outranks(m, k)
    BY <2>2 DEF DemoteBegin, PendingUpward
  <2>4. startedAt'[k] = startedAt[k] /\ startedAt'[m] = startedAt[m]
    BY <2>3, ElectedStays
  <2>5. state'[m] \in {"seed", "demoting", "demoted", "broken"}
    BY <2>3, ElectedStays DEF Elected
  <2>6. QED
    BY <2>2, <2>3, <2>4, <2>5 DEF Outranks, Elected
<1>3. QED
  BY <1>1, <1>2

\* Every elected node keeps a seed at or above it: when that seed demotes, the
\* one above the node it demotes for takes its place.
LEMMA CoveredStep ==
  ASSUME TypeOK, [Next]_vars, "leave" \notin Faults, PendingUpward, Covered
  PROVE  Covered'
<1> SUFFICES ASSUME NEW j \in Nodes, Elected(j)'
             PROVE  SeedAbove(j)'
  BY DEF Covered
<1>1. CASE ~Elected(j)
  <2>1. PICK n \in Nodes : NodeStep(n)
    BY <1>1 DEF Next, vars, Elected
  <2>2. BecomeSeed(n) /\ n = j
    BY <2>1, <1>1 DEF NodeStep, Boot, Hear, BecomeSeed, JoinSeed, SetNodeName,
       Found, RoundEnd, DemoteBegin, DemoteFinish, DemoteFail, Leave, TypeOK,
       Elected
  <2>3. state'[j] = "seed"
    BY <2>2 DEF BecomeSeed, TypeOK
  <2>4. QED
    BY <2>3 DEF SeedAbove
<1>2. CASE Elected(j)
  <2>1. PICK k \in Nodes : state[k] = "seed" /\ (k = j \/ Outranks(k, j))
    BY <1>2 DEF Covered, SeedAbove
  <2>2. Elected(k)
    BY <2>1 DEF Elected
  <2>3. k = j \/ Outranks(k, j)'
    BY <2>1, <2>2, <1>2, OrderStays
  <2>4. CASE state'[k] = "seed"
    BY <2>3, <2>4 DEF SeedAbove
  <2>5. CASE state'[k] # "seed"
    <3>1. PICK n \in Nodes : NodeStep(n)
      BY <2>1, <2>5 DEF Next, vars
    <3>2. PICK m \in Nodes : DemoteBegin(n, m) /\ n = k
      BY <2>1, <2>5, <3>1 DEF NodeStep, Boot, Hear, BecomeSeed, JoinSeed,
         SetNodeName, Found, RoundEnd, DemoteBegin, DemoteFinish, DemoteFail,
         Leave, TypeOK
    <3>3. Elected(m) /\ Outranks(m, k)
      BY <3>2 DEF DemoteBegin, PendingUpward
    <3>4. PICK w \in Nodes : state[w] = "seed" /\ (w = m \/ Outranks(w, m))
      BY <3>3 DEF Covered, SeedAbove
    <3>5. Outranks(w, k)
      BY <3>3, <3>4, OutranksTransitive
    <3>6. w # k
      BY <3>5, OutranksIrreflexive
    <3>7. state'[w] = "seed"
      BY <3>2, <3>4, <3>6 DEF DemoteBegin, TypeOK
    <3>8. Outranks(w, j)
      BY <3>5, <2>1, OutranksTransitive
    <3>9. Elected(w)
      BY <3>4 DEF Elected
    <3>10. Outranks(w, j)'
      BY <3>8, <3>9, <1>2, OrderStays
    <3>11. QED
      BY <3>7, <3>10 DEF SeedAbove
  <2>6. QED
    BY <2>4, <2>5
<1>3. QED
  BY <1>1, <1>2

-----------------------------------------------------------------------------
(* The theorems.                                                           *)

\* The strengthened invariant holds initially ...
LEMMA ElectionInit == ASSUME Init PROVE ElectionInv
<1>1. TypeOK
  BY TypeInit
<1>2. AdvertsElected /\ HeardElected /\ JoinedElected
  BY DEF Init, AdvertsElected, HeardElected, JoinedElected
<1>3. PendingUpward /\ DemotesUpward /\ UpElected /\ Covered
  BY DEF Init, PendingUpward, DemotesUpward, UpElected, GaveUp, Covered, Elected
<1>4. QED
  BY <1>1, <1>2, <1>3 DEF ElectionInv

\* ... and is kept by every step as long as no process exits.
LEMMA ElectionStep ==
  ASSUME ElectionInv, [Next]_vars, "leave" \notin Faults
  PROVE  ElectionInv'
BY TypeStep, AdvertsStep, HeardStep, JoinedStep, PendingStep, UpwardStep,
   CoveredStep DEF ElectionInv

\* As long as no process exits the strengthened invariant always holds.
LEMMA ElectionInvariance ==
  ASSUME "leave" \notin Faults
  PROVE  Spec => []ElectionInv
<1>1. Init => ElectionInv
  BY ElectionInit
<1>2. ElectionInv /\ [Next]_vars => ElectionInv'
  BY ElectionStep
<1>3. QED
  BY <1>1, <1>2, PTL DEF Spec

\* As long as no process exits, a started mesh always has a seed, for any
\* number of nodes, simultaneous demotions and disagreeing clocks.
THEOREM MeshKeepsSeed ==
  ASSUME "leave" \notin Faults
  PROVE  Spec => []SeedRemains
<1>1. ElectionInv => SeedRemains
  <2> SUFFICES ASSUME ElectionInv, NEW n \in Nodes,
                      state[n] \notin {"down", "browsing"}
               PROVE  \E m \in Nodes : state[m] = "seed"
    BY DEF SeedRemains
  <2>1. CASE state[n] = "joined"
    BY <2>1 DEF ElectionInv, JoinedElected, Covered, SeedAbove
  <2>2. CASE state[n] # "joined"
    BY <2>2 DEF ElectionInv, TypeOK, States, Covered, SeedAbove, Elected
  <2>3. QED
    BY <2>1, <2>2
<1>2. QED
  BY <1>1, ElectionInvariance, PTL

\* As long as no process exits, every demotion goes to a node that ranks
\* higher: no cycle of leaves, whatever was stale when it was decided.
THEOREM DemotionsGoUpward ==
  ASSUME "leave" \notin Faults
  PROVE  Spec => []DemotesUpward
<1>1. ElectionInv => DemotesUpward
  BY DEF ElectionInv
<1>2. QED
  BY <1>1, ElectionInvariance, PTL
=============================================================================
