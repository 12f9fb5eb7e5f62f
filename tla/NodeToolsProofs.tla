--------------------------- MODULE NodeToolsProofs ---------------------------
(***************************************************************************)
(* Proofs about NodeTools.  What holds however many handlers and           *)
(* reconnects there are is a theorem of Spec; what needs that no two       *)
(* requests for one tool overlap, or that the connection was never lost,   *)
(* names that as a hypothesis.                                             *)
(***************************************************************************)
EXTENDS NodeTools, FiniteSetTheorems, SequenceTheorems, WellFoundedInduction, TLAPS

\* The connection to NATS has never been lost.
NeverReconnected == reconnects = 0

-----------------------------------------------------------------------------
(* The services of a reconnect.                                            *)

\* A set of numbers has a least one.
LEMMA LeastNumber ==
  ASSUME NEW T, T \subseteq Nat, T # {}
  PROVE  \E x \in T : \A y \in T : x <= y
<1> DEFINE R == OpToRel(<, Nat)
<1>1. IsWellFoundedOn(R, Nat) BY NatLessThanWellFounded
<1>2. \A x, y \in Nat : y < x => <<y, x>> \in R BY DEF OpToRel
<1> HIDE DEF R
<1>3. PICK x \in T : \A y \in T : <<y, x>> \notin R BY <1>1, WFMin
<1>4. \A y \in T : ~(y < x) BY <1>2, <1>3
<1>5. QED BY <1>4

\* What Accepted keeps of the first i of s, given what it keeps of those before.
Kept(s, f, i) ==
  IF i = 0 THEN <<>>
  ELSE IF s[i].version \in Rejected \cup BadMethods THEN f[i - 1]
  ELSE Append(f[i - 1], s[i])

\* The function that Accepted is defined by exists.
LEMMA AcceptedExists ==
  ASSUME NEW s \in Seq(Registrations)
  PROVE  \A n \in 0 .. Len(s) : \E f : f = [i \in 0 .. n |-> Kept(s, f, i)]
<1> DEFINE Ok(n) == \E f : f = [i \in 0 .. n |-> Kept(s, f, i)]
           T == {n \in 0 .. Len(s) : ~Ok(n)}
<1>1. Len(s) \in Nat OBVIOUS
<1> SUFFICES ASSUME T # {} PROVE FALSE
  OBVIOUS
<1>2. PICK n \in T : \A m \in T : n <= m
  <2>1. T \subseteq Nat BY <1>1
  <2> HIDE DEF T
  <2>2. QED BY <2>1, LeastNumber
<1>3. n \in 0 .. Len(s) /\ ~Ok(n) OBVIOUS
<1>4. CASE n = 0
  <2> DEFINE f == [i \in 0 .. 0 |-> <<>>]
  <2>1. f = [i \in 0 .. 0 |-> Kept(s, f, i)] BY DEF Kept
  <2>2. QED BY <1>3, <1>4, <2>1
<1>5. CASE n # 0
  <2>1. n - 1 \in 0 .. Len(s) /\ ~(n <= n - 1) BY <1>1, <1>3, <1>5
  <2>2. Ok(n - 1) BY <1>2, <2>1
  <2>3. PICK f : f = [i \in 0 .. (n - 1) |-> Kept(s, f, i)] BY <2>2
  <2> DEFINE g == [i \in 0 .. n |-> IF i = n THEN Kept(s, f, n) ELSE f[i]]
  <2>4. ASSUME NEW i \in 0 .. n PROVE g[i] = Kept(s, g, i)
    <3>1. i # 0 => i - 1 \in 0 .. (n - 1) /\ g[i - 1] = f[i - 1] BY <1>1, <1>3
    <3>2. Kept(s, g, i) = Kept(s, f, i) BY <3>1 DEF Kept
    <3>3. CASE i = n BY <3>2, <3>3
    <3>4. CASE i # n
      <4>1. i \in 0 .. (n - 1) BY <1>1, <1>3, <3>4
      <4>2. f[i] = Kept(s, f, i) BY <2>3, <4>1
      <4>3. QED BY <3>2, <3>4, <4>2
    <3>5. QED BY <3>3, <3>4
  <2>5. g = [i \in 0 .. n |-> Kept(s, g, i)]
    <3> DEFINE k == [i \in 0 .. n |-> Kept(s, g, i)]
    <3>1. \A i \in 0 .. n : g[i] = k[i] BY <2>4
    <3>2. QED BY <3>1
  <2>6. QED BY <1>3, <2>5
<1>6. QED BY <1>4, <1>5

\* What a reconnect registers was saved.
LEMMA AcceptedType ==
  ASSUME NEW s \in Seq(Registrations)
  PROVE  /\ Accepted(s) \in Seq(Registrations)
         /\ \A i \in DOMAIN Accepted(s) : \E j \in DOMAIN s : Accepted(s)[i] = s[j]
<1> DEFINE f == CHOOSE f : f = [i \in 0 .. Len(s) |-> Kept(s, f, i)]
<1>1. Len(s) \in Nat /\ DOMAIN s = 1 .. Len(s) OBVIOUS
<1>2. Accepted(s) = f[Len(s)] BY DEF Accepted, Kept
<1>3. f = [i \in 0 .. Len(s) |-> Kept(s, f, i)]
  <2>1. \E g : g = [i \in 0 .. Len(s) |-> Kept(s, g, i)]
    <3>1. Len(s) \in 0 .. Len(s) BY <1>1
    <3>2. QED BY <3>1, AcceptedExists, Zenon
  <2>2. QED BY <2>1, Zenon
<1> HIDE DEF f
<1> DEFINE Ok(n) == /\ f[n] \in Seq(Registrations)
                    /\ \A i \in DOMAIN f[n] : \E j \in DOMAIN s : f[n][i] = s[j]
           T == {n \in 0 .. Len(s) : ~Ok(n)}
<1>4. SUFFICES ASSUME T # {} PROVE FALSE
  BY <1>1, <1>2
<1>5. PICK n \in T : \A m \in T : n <= m
  <2>1. T \subseteq Nat BY <1>1
  <2> HIDE DEF T
  <2>2. QED BY <1>4, <2>1, LeastNumber
<1>6. n \in 0 .. Len(s) /\ ~Ok(n) OBVIOUS
<1>7. f[n] = Kept(s, f, n) BY <1>3, <1>6
<1>8. CASE n = 0 BY <1>6, <1>7, <1>8 DEF Kept
<1>9. CASE n # 0
  <2>1. n - 1 \in 0 .. Len(s) /\ ~(n <= n - 1) /\ n \in DOMAIN s BY <1>1, <1>6, <1>9
  <2>2. Ok(n - 1) BY <1>5, <2>1
  <2> DEFINE p == f[n - 1]
             q == Append(p, s[n])
  <2>3. CASE s[n].version \in Rejected \cup BadMethods
    <3>1. f[n] = f[n - 1] BY <1>7, <1>9, <2>3 DEF Kept
    <3>2. QED BY <1>6, <2>2, <3>1
  <2>4. CASE s[n].version \notin Rejected \cup BadMethods
    <3>1. f[n] = q BY <1>7, <1>9, <2>4 DEF Kept
    <3>2. p \in Seq(Registrations) /\ s[n] \in Registrations BY <2>1, <2>2
    <3>3. \A i \in DOMAIN p : \E j \in DOMAIN s : p[i] = s[j] BY <2>2
    <3> HIDE DEF p
    <3>4. q \in Seq(Registrations) /\ DOMAIN q = 1 .. (Len(p) + 1) /\ Len(p) \in Nat
          /\ DOMAIN p = 1 .. Len(p)
          /\ \A i \in 1 .. (Len(p) + 1) : q[i] = IF i <= Len(p) THEN p[i] ELSE s[n]
      BY <3>2
    <3>5. \A i \in DOMAIN q : \E j \in DOMAIN s : q[i] = s[j] BY <2>1, <3>3, <3>4
    <3> HIDE DEF q
    <3>6. QED BY <1>6, <3>1, <3>4, <3>5
  <2>5. QED BY <2>3, <2>4
<1>10. QED BY <1>8, <1>9

-----------------------------------------------------------------------------
(* Types.                                                                  *)

\* A handler that works has a tool, and a version once it has loaded one; the
\* map of stream subscriptions never counts more than there are.
ThreadInv ==
  /\ \A h \in Handlers :
       /\ pc[h] # "idle" => arg[h] \in Tools
       /\ pc[h] \in {"register", "streams", "subscribe", "mesh"} => ver[h] \in Versions
  /\ \A t \in Tools : streamOwned[t] <= streamLive[t]

TypeInv == TypeOK /\ ThreadInv

LEMMA RemoveAtType ==
  ASSUME NEW S, NEW s \in Seq(S), NEW i \in 1 .. Len(s)
  PROVE  /\ RemoveAt(s, i) \in Seq(S)
         /\ Len(RemoveAt(s, i)) = Len(s) - 1
         /\ \A j \in 1 .. (Len(s) - 1) : RemoveAt(s, i)[j] = IF j < i THEN s[j] ELSE s[j + 1]
<1> DEFINE u == SubSeq(s, 1, i - 1)
           v == SubSeq(s, i + 1, Len(s))
<1>1. u \in Seq(S) /\ Len(u) = i - 1 /\ \A j \in 1 .. Len(u) : u[j] = s[j] OBVIOUS
<1>2. v \in Seq(S) /\ Len(v) = Len(s) - i /\ \A j \in 1 .. Len(v) : v[j] = s[i + j] OBVIOUS
<1>3. RemoveAt(s, i) = u \o v BY DEF RemoveAt
<1>4. Len(s) \in Nat OBVIOUS
<1> HIDE DEF u, v
<1>5. /\ u \o v \in Seq(S) /\ Len(u \o v) = Len(u) + Len(v)
      /\ \A j \in 1 .. Len(u) + Len(v) :
           (u \o v)[j] = IF j <= Len(u) THEN u[j] ELSE v[j - Len(u)]
  <2>1. u \in Seq(S) /\ v \in Seq(S) BY <1>1, <1>2
  <2>2. QED BY <2>1, ConcatProperties
<1>6. Len(u \o v) = Len(s) - 1 BY <1>1, <1>2, <1>4, <1>5
<1>7. ASSUME NEW j \in 1 .. (Len(s) - 1)
      PROVE  (u \o v)[j] = IF j < i THEN s[j] ELSE s[j + 1]
  <2>0. j \in 1 .. Len(u) + Len(v) BY <1>1, <1>2, <1>4, <1>7
  <2>1. CASE j < i
    <3>1. j \in 1 .. Len(u) /\ j <= Len(u) BY <1>1, <1>7, <2>1
    <3>2. QED BY <1>1, <1>5, <2>0, <2>1, <3>1
  <2>2. CASE ~(j < i)
    <3>1. j - Len(u) \in 1 .. Len(v) /\ ~(j <= Len(u)) /\ i + (j - Len(u)) = j + 1
      BY <1>1, <1>2, <1>4, <1>7, <2>2
    <3>2. (u \o v)[j] = v[j - Len(u)] BY <1>5, <2>0, <3>1
    <3>3. v[j - Len(u)] = s[i + (j - Len(u))] BY <1>2, <3>1
    <3>4. QED BY <2>2, <3>1, <3>2, <3>3
  <2>3. QED BY <2>1, <2>2
<1>8. QED BY <1>3, <1>5, <1>6, <1>7

\* UnregisterTool takes away the first service of the tool, if there is one.
LEMMA UnregisterTakes ==
  ASSUME TypeOK, NEW t \in Tools, UnregisterTool(t)
  PROVE  /\ nodeSubs' = [nodeSubs EXCEPT ![t] = 0]
         /\ UNCHANGED registrations
         /\ \/ services' = services /\ ServicesOf(t) = {}
            \/ \E i \in ServicesOf(t) : services' = RemoveAt(services, i)
<1> DEFINE mine == {i \in DOMAIN services : services[i].tool = t}
<1>1. CASE mine = {} BY <1>1 DEF UnregisterTool, ServicesOf, PlacesOf
<1>2. CASE mine # {}
  <2>1. mine \subseteq Nat BY DEF TypeOK
  <2> HIDE DEF mine
  <2>2. \E i \in mine : \A j \in mine : i <= j BY <1>2, <2>1, LeastNumber
  <2>3. PICK i \in mine : i = CHOOSE k \in mine : \A j \in mine : k <= j BY <2>2
  <2>4. services' = RemoveAt(services, i) BY <1>2, <2>3 DEF UnregisterTool, mine
  <2>5. QED BY <2>4 DEF UnregisterTool, ServicesOf, PlacesOf, mine
<1>3. QED BY <1>1, <1>2

LEMMA UnregisterType ==
  ASSUME TypeOK, NEW t \in Tools, UnregisterTool(t)
  PROVE  /\ services' \in Seq(Registrations)
         /\ nodeSubs' \in [Tools -> Nat]
         /\ registrations' = registrations
<1>1. services \in Seq(Registrations) /\ nodeSubs \in [Tools -> Nat] BY DEF TypeOK
<1>2. ASSUME services' = services PROVE services' \in Seq(Registrations)
  BY <1>1, <1>2
<1>3. ASSUME NEW i \in ServicesOf(t), services' = RemoveAt(services, i)
      PROVE  services' \in Seq(Registrations)
  <2>1. i \in 1 .. Len(services) BY <1>1 DEF ServicesOf, PlacesOf
  <2>2. QED BY <1>1, <1>3, <2>1, RemoveAtType
<1>4. services' \in Seq(Registrations) BY <1>2, <1>3, UnregisterTakes
<1>5. nodeSubs' = [nodeSubs EXCEPT ![t] = 0] /\ registrations' = registrations
  BY UnregisterTakes
<1>6. nodeSubs' \in [Tools -> Nat] BY <1>1, <1>5
<1>7. QED BY <1>4, <1>5, <1>6

LEMMA RegisterType ==
  ASSUME TypeOK, NEW t \in Tools, NEW v \in Versions, RegisterTool(t, v)
  PROVE  /\ services' \in Seq(Registrations)
         /\ nodeSubs' \in [Tools -> Nat]
         /\ registrations' \in Seq(Registrations)
<1>1. Registration(t, v) \in Registrations BY DEF Registration, Registrations
<1>2. registrations' \in Seq(Registrations) BY <1>1 DEF RegisterTool, TypeOK
<1>3. services \in Seq(Registrations) /\ nodeSubs \in [Tools -> Nat] BY DEF TypeOK
<1>4. services' \in Seq(Registrations)
  <2>1. services' = services \/ services' = Append(services, Registration(t, v))
    BY DEF RegisterTool
  <2>2. QED BY <1>1, <1>3, <2>1
<1>5. nodeSubs' \in [Tools -> Nat]
  <2>1. ASSUME NEW made \in 0 .. 1, nodeSubs' = [nodeSubs EXCEPT ![t] = @ + made]
        PROVE  nodeSubs' \in [Tools -> Nat]
    <3>1. nodeSubs[t] + made \in Nat BY <1>3, <2>1
    <3>2. QED BY <1>3, <2>1, <3>1
  <2>2. nodeSubs' = nodeSubs
        \/ \E made \in 0 .. 1 : nodeSubs' = [nodeSubs EXCEPT ![t] = @ + made]
    BY DEF RegisterTool, SubscribeNode
  <2>3. QED BY <1>3, <2>1, <2>2
<1>6. QED BY <1>2, <1>4, <1>5

\* The services of a tool are finitely many.
LEMMA ServicesFinite ==
  ASSUME NEW s \in Seq(Registrations), NEW t
  PROVE  /\ IsFiniteSet({i \in DOMAIN s : s[i].tool = t})
         /\ Cardinality({i \in DOMAIN s : s[i].tool = t}) \in Nat
<1>1. IsFiniteSet(1 .. Len(s)) BY FS_Interval
<1>2. {i \in DOMAIN s : s[i].tool = t} \in SUBSET (1 .. Len(s)) OBVIOUS
<1>3. QED BY <1>1, <1>2, FS_Subset, FS_CardinalityType

LEMMA ReconnectType ==
  ASSUME TypeOK, ReRegisterTools
  PROVE  /\ services' \in Seq(Registrations)
         /\ nodeSubs' \in [Tools -> Nat]
         /\ registrations' \in Seq(Registrations)
<1>1. CASE registrations = <<>> BY <1>1 DEF ReRegisterTools, meshVars, TypeOK
<1>2. CASE registrations # <<>>
  <2>1. services' \in Seq(Registrations) BY <1>2, AcceptedType DEF ReRegisterTools, TypeOK
  <2>2. nodeSubs' \in [Tools -> 0 .. Len(registrations)] BY <1>2 DEF ReRegisterTools
  <2>3. nodeSubs' \in [Tools -> Nat] BY <2>2 DEF TypeOK
  <2>4. QED BY <1>2, <2>1, <2>3 DEF ReRegisterTools, TypeOK
<1>3. QED BY <1>1, <1>2

\* unregisterStreamingSubjects keeps the types.
LEMMA DropStreamsType ==
  ASSUME TypeInv, NEW t \in Tools, DropStreams(t)
  PROVE  /\ streamLive' \in [Tools -> Nat]
         /\ streamOwned' \in [Tools -> {0, 1}]
         /\ \A u \in Tools : streamOwned'[u] <= streamLive'[u]
<1>1. /\ streamLive \in [Tools -> Nat]
      /\ streamOwned \in [Tools -> {0, 1}]
      /\ \A u \in Tools : streamOwned[u] <= streamLive[u]
  BY DEF TypeInv, TypeOK, ThreadInv
<1>2. streamLive' = [streamLive EXCEPT ![t] = streamLive[t] - streamOwned[t]]
  BY DEF DropStreams
<1>3. streamOwned' = [streamOwned EXCEPT ![t] = 0] BY DEF DropStreams
<1>4. /\ streamLive[t] \in Nat
      /\ streamOwned[t] \in {0, 1}
      /\ streamOwned[t] <= streamLive[t]
  BY <1>1
<1>5. streamLive[t] - streamOwned[t] \in Nat BY <1>4
<1>6. streamLive' \in [Tools -> Nat] BY <1>1, <1>2, <1>5
<1>7. streamOwned' \in [Tools -> {0, 1}] BY <1>1, <1>3
<1>8. ASSUME NEW u \in Tools PROVE streamOwned'[u] <= streamLive'[u]
  <2>1. CASE u = t
    <3>1. streamOwned'[u] = 0 /\ streamLive'[u] \in Nat BY <1>1, <1>3, <1>6, <2>1
    <3>2. QED BY <3>1
  <2>2. CASE u # t
    <3>1. streamOwned'[u] = streamOwned[u] /\ streamLive'[u] = streamLive[u]
      BY <1>1, <1>2, <1>3, <2>2
    <3>2. QED BY <1>1, <3>1
  <2>3. QED BY <2>1, <2>2
<1>9. QED BY <1>6, <1>7, <1>8

\* A process that starts keeps the types of the executor.
LEMMA StartType ==
  ASSUME TypeOK, NEW t \in Tools, StartProcess(t)
  PROVE  /\ running' \in [Tools -> BOOLEAN]
         /\ status' \in [Tools -> {"stopped", "running"}]
         /\ code' \in [Tools -> Versions \cup {None}]
<1>1. /\ running \in [Tools -> BOOLEAN]
      /\ status \in [Tools -> {"stopped", "running"}]
      /\ code \in [Tools -> Versions \cup {None}]
      /\ installed[t] \in Versions \cup {None}
  BY DEF TypeOK
<1>2. /\ running' = [running EXCEPT ![t] = TRUE]
      /\ status' = [status EXCEPT ![t] = "running"]
      /\ code' = [code EXCEPT ![t] = installed[t]]
  BY DEF StartProcess
<1>3. QED BY <1>1, <1>2

\* registerTool keeps the types.
LEMMA RegisterTypes ==
  ASSUME TypeInv, NEW h \in Handlers, RegisterStep(h)
  PROVE  TypeInv'
<1> USE DEF managerVars, execVars, meshVars, streamVars, threadVars, Goto, Return,
            ThreadInv, TypeOK, Labels
<1>0. TypeOK /\ ThreadInv BY DEF TypeInv
<1>1. CASE RegisterStart(h)
  <2>0. /\ running' \in [Tools -> BOOLEAN]
        /\ status' \in [Tools -> {"stopped", "running"}]
        /\ code' \in [Tools -> Versions \cup {None}]
    <3>1. arg[h] \in Tools BY <1>0, <1>1 DEF RegisterStart
    <3>2. StartProcess(arg[h]) \/ UNCHANGED execVars BY <1>1 DEF RegisterStart
    <3>3. ASSUME UNCHANGED execVars
          PROVE  /\ running' \in [Tools -> BOOLEAN]
                 /\ status' \in [Tools -> {"stopped", "running"}]
                 /\ code' \in [Tools -> Versions \cup {None}]
      BY <1>0, <3>3
    <3>4. QED BY <1>0, <3>1, <3>2, <3>3, StartType
  <2>1. TypeOK' BY <1>0, <1>1, <2>0 DEF RegisterStart
  <2>2. ThreadInv' BY <1>0, <1>1 DEF RegisterStart
  <2>3. QED BY <2>1, <2>2 DEF TypeInv
<1>2. CASE RegisterStartFails(h)
  <2>1. TypeOK' BY <1>0, <1>2 DEF RegisterStartFails
  <2>2. ThreadInv' BY <1>0, <1>2 DEF RegisterStartFails
  <2>3. QED BY <2>1, <2>2 DEF TypeInv
<1>3. CASE RegisterDropStreams(h)
  <2>1. /\ streamLive' \in [Tools -> Nat]
        /\ streamOwned' \in [Tools -> {0, 1}]
        /\ \A u \in Tools : streamOwned'[u] <= streamLive'[u]
    BY <1>0, <1>3, DropStreamsType DEF RegisterDropStreams
  <2>2. TypeOK' BY <1>0, <1>3, <2>1 DEF RegisterDropStreams
  <2>3. ThreadInv' BY <1>0, <1>3, <2>1 DEF RegisterDropStreams
  <2>4. QED BY <2>2, <2>3 DEF TypeInv
<1>4. CASE RegisterSubscribe(h)
  <2> DEFINE t == arg[h]
  <2>0. t \in Tools BY <1>0, <1>4 DEF RegisterSubscribe
  <2>1. /\ streamLive' \in [Tools -> Nat]
        /\ streamOwned' \in [Tools -> {0, 1}]
        /\ \A u \in Tools : streamOwned'[u] <= streamLive'[u]
    <3>1. CASE t \notin Streaming BY <1>0, <1>4, <3>1 DEF RegisterSubscribe
    <3>2. CASE t \in Streaming /\ ver[h] \notin BadStreams
      <4>1. streamLive' = [streamLive EXCEPT ![t] = streamLive[t] + 1]
        BY <1>4, <3>2 DEF RegisterSubscribe
      <4>2. streamOwned' = [streamOwned EXCEPT ![t] = 1]
        BY <1>4, <3>2 DEF RegisterSubscribe
      <4>3. /\ streamLive \in [Tools -> Nat]
            /\ streamOwned \in [Tools -> {0, 1}]
            /\ \A u \in Tools : streamOwned[u] <= streamLive[u]
        BY <1>0
      <4> HIDE DEF t, TypeOK, ThreadInv
      <4>4. streamLive' \in [Tools -> Nat]
        <5>1. streamLive[t] + 1 \in Nat BY <2>0, <4>3
        <5>2. QED BY <4>1, <4>3, <5>1
      <4>5. streamOwned' \in [Tools -> {0, 1}] BY <4>2, <4>3
      <4>6. ASSUME NEW u \in Tools PROVE streamOwned'[u] <= streamLive'[u]
        <5>1. CASE u = t
          <6>1. streamOwned'[u] = 1 /\ streamLive'[u] = streamLive[t] + 1 /\ streamLive[t] \in Nat
            BY <2>0, <4>1, <4>2, <4>3, <5>1
          <6>2. QED BY <6>1
        <5>2. CASE u # t
          <6>1. streamOwned'[u] = streamOwned[u] /\ streamLive'[u] = streamLive[u]
            BY <4>1, <4>2, <4>3, <5>2
          <6>2. QED BY <4>3, <6>1
        <5>3. QED BY <5>1, <5>2
      <4>7. QED BY <4>4, <4>5, <4>6
    <3>3. CASE t \in Streaming /\ ver[h] \in BadStreams
      <4>1. PICK made \in 0 .. 1 : streamLive' = [streamLive EXCEPT ![t] = streamLive[t] + made]
        BY <1>4, <3>3 DEF RegisterSubscribe
      <4>2. streamOwned' = streamOwned BY <1>4, <3>3 DEF RegisterSubscribe
      <4>3. /\ streamLive \in [Tools -> Nat]
            /\ streamOwned \in [Tools -> {0, 1}]
            /\ \A u \in Tools : streamOwned[u] <= streamLive[u]
        BY <1>0
      <4> HIDE DEF t, TypeOK, ThreadInv
      <4>4. streamLive[t] + made \in Nat BY <2>0, <4>1, <4>3
      <4>5. streamLive' \in [Tools -> Nat] BY <4>1, <4>3, <4>4
      <4>6. \A u \in Tools : streamLive[u] <= streamLive'[u] BY <2>0, <4>1, <4>3
      <4>7. ASSUME NEW u \in Tools PROVE streamOwned'[u] <= streamLive'[u]
        <5>1. streamOwned[u] \in Nat /\ streamLive[u] \in Nat /\ streamLive'[u] \in Nat
          BY <4>3, <4>5
        <5>2. QED BY <4>2, <4>3, <4>6, <5>1
      <4>8. QED BY <4>2, <4>3, <4>5, <4>7
    <3>4. QED BY <3>1, <3>2, <3>3
  <2>2. TypeOK' BY <1>0, <1>4, <2>1 DEF RegisterSubscribe
  <2>3. ThreadInv' BY <1>0, <1>4, <2>1 DEF RegisterSubscribe
  <2>4. QED BY <2>2, <2>3 DEF TypeInv
<1>5. CASE RegisterMesh(h)
  <2>1. /\ services' \in Seq(Registrations)
        /\ nodeSubs' \in [Tools -> Nat]
        /\ registrations' \in Seq(Registrations)
    BY <1>0, <1>5, RegisterType DEF RegisterMesh
  <2>2. TypeOK' BY <1>0, <1>5, <2>1 DEF RegisterMesh
  <2>3. ThreadInv' BY <1>0, <1>5 DEF RegisterMesh
  <2>4. QED BY <2>2, <2>3 DEF TypeInv
<1>6. QED BY <1>1, <1>2, <1>3, <1>4, <1>5 DEF RegisterStep

\* InstallTool and UpdateTool do.
LEMMA InstallTypes ==
  ASSUME TypeInv, NEW h \in Handlers, InstallStep(h)
  PROVE  TypeInv'
<1> USE DEF managerVars, execVars, meshVars, streamVars, threadVars, Goto, Return, Begin,
            ThreadInv, TypeOK, Labels
<1>0. TypeOK /\ ThreadInv BY DEF TypeInv
<1>1. ASSUME NEW t \in Tools, InstallBegin(h, t) PROVE TypeInv'
  <2>1. TypeOK' BY <1>0, <1>1 DEF InstallBegin
  <2>2. ThreadInv' BY <1>0, <1>1 DEF InstallBegin
  <2>3. QED BY <2>1, <2>2 DEF TypeInv
<1>2. ASSUME NEW t \in Tools, InstallDuplicate(h, t) PROVE TypeInv'
  <2>1. TypeOK' BY <1>0, <1>2 DEF InstallDuplicate
  <2>2. ThreadInv' BY <1>0, <1>2 DEF InstallDuplicate
  <2>3. QED BY <2>1, <2>2 DEF TypeInv
<1>3. CASE InstallFails(h)
  <2>1. PICK kept \in BOOLEAN : files' = [files EXCEPT ![arg[h]] = @ /\ kept]
    BY <1>3 DEF InstallFails
  <2>2. files' \in [Tools -> BOOLEAN] BY <1>0, <2>1
  <2>3. TypeOK' BY <1>0, <1>3, <2>2 DEF InstallFails
  <2>4. ThreadInv' BY <1>0, <1>3 DEF InstallFails
  <2>5. QED BY <2>3, <2>4 DEF TypeInv
<1>4. CASE InstallCommit(h)
  <2>1. TypeOK' BY <1>0, <1>4 DEF InstallCommit
  <2>2. ThreadInv' BY <1>0, <1>4 DEF InstallCommit
  <2>3. QED BY <2>1, <2>2 DEF TypeInv
<1>5. QED BY <1>1, <1>2, <1>3, <1>4 DEF InstallStep

LEMMA UpdateTypes ==
  ASSUME TypeInv, NEW h \in Handlers, UpdateStep(h)
  PROVE  TypeInv'
<1> USE DEF managerVars, execVars, meshVars, streamVars, threadVars, Goto, Return, Begin,
            ThreadInv, TypeOK, Labels
<1>0. TypeOK /\ ThreadInv BY DEF TypeInv
<1>1. ASSUME NEW t \in Tools, UpdateBegin(h, t) PROVE TypeInv'
  <2>1. TypeOK' BY <1>0, <1>1 DEF UpdateBegin
  <2>2. ThreadInv' BY <1>0, <1>1 DEF UpdateBegin
  <2>3. QED BY <2>1, <2>2 DEF TypeInv
<1>2. CASE UpdateStop(h)
  <2>1. TypeOK' BY <1>0, <1>2 DEF UpdateStop, StopProcess
  <2>2. ThreadInv' BY <1>0, <1>2 DEF UpdateStop
  <2>3. QED BY <2>1, <2>2 DEF TypeInv
<1>3. CASE UpdateUnregister(h)
  <2>1. /\ services' \in Seq(Registrations)
        /\ nodeSubs' \in [Tools -> Nat]
        /\ registrations' = registrations
    BY <1>0, <1>3, UnregisterType DEF UpdateUnregister
  <2>2. TypeOK' BY <1>0, <1>3, <2>1 DEF UpdateUnregister
  <2>3. ThreadInv' BY <1>0, <1>3 DEF UpdateUnregister
  <2>4. QED BY <2>2, <2>3 DEF TypeInv
<1>4. CASE UpdateLoad(h)
  <2>1. TypeOK' BY <1>0, <1>4 DEF UpdateLoad
  <2>2. ThreadInv' BY <1>0, <1>4 DEF UpdateLoad
  <2>3. QED BY <2>1, <2>2 DEF TypeInv
<1>5. CASE UpdateFails(h)
  <2>1. TypeOK' BY <1>0, <1>5 DEF UpdateFails
  <2>2. ThreadInv' BY <1>0, <1>5 DEF UpdateFails
  <2>3. QED BY <2>1, <2>2 DEF TypeInv
<1>6. QED BY <1>1, <1>2, <1>3, <1>4, <1>5 DEF UpdateStep

\* UninstallTool, HandleConfig and a failing call do.
LEMMA UninstallTypes ==
  ASSUME TypeInv, NEW h \in Handlers, UninstallStep(h)
  PROVE  TypeInv'
<1> USE DEF managerVars, execVars, meshVars, streamVars, threadVars, Goto, Return, Begin,
            ThreadInv, TypeOK, Labels
<1>0. TypeOK /\ ThreadInv BY DEF TypeInv
<1>1. ASSUME NEW t \in Tools, UninstallStop(h, t) PROVE TypeInv'
  <2>1. TypeOK' BY <1>0, <1>1 DEF UninstallStop, StopProcess
  <2>2. ThreadInv' BY <1>0, <1>1 DEF UninstallStop
  <2>3. QED BY <2>1, <2>2 DEF TypeInv
<1>2. CASE UninstallUnregister(h)
  <2>1. /\ services' \in Seq(Registrations)
        /\ nodeSubs' \in [Tools -> Nat]
        /\ registrations' = registrations
    BY <1>0, <1>2, UnregisterType DEF UninstallUnregister
  <2>2. TypeOK' BY <1>0, <1>2, <2>1 DEF UninstallUnregister
  <2>3. ThreadInv' BY <1>0, <1>2 DEF UninstallUnregister
  <2>4. QED BY <2>2, <2>3 DEF TypeInv
<1>3. CASE UninstallStreams(h)
  <2>1. /\ streamLive' \in [Tools -> Nat]
        /\ streamOwned' \in [Tools -> {0, 1}]
        /\ \A u \in Tools : streamOwned'[u] <= streamLive'[u]
    BY <1>0, <1>3, DropStreamsType DEF UninstallStreams
  <2>2. TypeOK' BY <1>0, <1>3, <2>1 DEF UninstallStreams
  <2>3. ThreadInv' BY <1>0, <1>3, <2>1 DEF UninstallStreams
  <2>4. QED BY <2>2, <2>3 DEF TypeInv
<1>4. CASE UninstallRemove(h)
  <2>1. TypeOK' BY <1>0, <1>4 DEF UninstallRemove
  <2>2. ThreadInv' BY <1>0, <1>4 DEF UninstallRemove
  <2>3. QED BY <2>1, <2>2 DEF TypeInv
<1>5. QED BY <1>1, <1>2, <1>3, <1>4 DEF UninstallStep

LEMMA ConfigTypes ==
  ASSUME TypeInv, NEW h \in Handlers, ConfigStep(h)
  PROVE  TypeInv'
<1> USE DEF managerVars, execVars, meshVars, streamVars, threadVars, Goto, Return, Begin,
            ThreadInv, TypeOK, Labels
<1>0. TypeOK /\ ThreadInv BY DEF TypeInv
<1>1. ASSUME NEW t \in Tools, ConfigBegin(h, t) PROVE TypeInv'
  <2>1. TypeOK' BY <1>0, <1>1 DEF ConfigBegin
  <2>2. ThreadInv' BY <1>0, <1>1 DEF ConfigBegin
  <2>3. QED BY <2>1, <2>2 DEF TypeInv
<1>2. CASE ConfigStop(h)
  <2>1. CASE installed[arg[h]] # None /\ running[arg[h]]
    <3>1. TypeOK' BY <1>0, <1>2, <2>1 DEF ConfigStop, StopProcess
    <3>2. ThreadInv' BY <1>0, <1>2, <2>1 DEF ConfigStop
    <3>3. QED BY <3>1, <3>2 DEF TypeInv
  <2>2. CASE ~(installed[arg[h]] # None /\ running[arg[h]])
    <3>1. /\ UNCHANGED <<managerVars, execVars, meshVars, streamVars, reconnects>>
          /\ pc' = [pc EXCEPT ![h] = "idle"]
          /\ arg' = [arg EXCEPT ![h] = None]
          /\ ver' = [ver EXCEPT ![h] = None]
      BY <1>2, <2>2 DEF ConfigStop
    <3>2. TypeOK' BY <1>0, <3>1
    <3>3. ThreadInv' BY <1>0, <3>1
    <3>4. QED BY <3>2, <3>3 DEF TypeInv
  <2>3. QED BY <2>1, <2>2
<1>3. CASE ConfigStart(h)
  <2>0. /\ running' \in [Tools -> BOOLEAN]
        /\ status' \in [Tools -> {"stopped", "running"}]
        /\ code' \in [Tools -> Versions \cup {None}]
    <3>1. arg[h] \in Tools BY <1>0, <1>3 DEF ConfigStart
    <3>2. StartProcess(arg[h]) \/ UNCHANGED execVars BY <1>3 DEF ConfigStart
    <3>3. ASSUME UNCHANGED execVars
          PROVE  /\ running' \in [Tools -> BOOLEAN]
                 /\ status' \in [Tools -> {"stopped", "running"}]
                 /\ code' \in [Tools -> Versions \cup {None}]
      BY <1>0, <3>3
    <3>4. QED BY <1>0, <3>1, <3>2, <3>3, StartType
  <2>1. TypeOK' BY <1>0, <1>3, <2>0 DEF ConfigStart
  <2>2. ThreadInv' BY <1>0, <1>3 DEF ConfigStart
  <2>3. QED BY <2>1, <2>2 DEF TypeInv
<1>4. QED BY <1>1, <1>2, <1>3 DEF ConfigStep

LEMMA TypeStep ==
  ASSUME TypeInv, [Next]_vars
  PROVE  TypeInv'
<1> USE DEF managerVars, execVars, meshVars, streamVars, threadVars
<1>0. TypeOK /\ ThreadInv BY DEF TypeInv
<1>1. CASE UNCHANGED vars BY <1>1 DEF vars, TypeInv, TypeOK, ThreadInv
<1>2. ASSUME NEW t \in Tools, CallFails(t) PROVE TypeInv'
  <2>1. TypeOK' BY <1>0, <1>2 DEF CallFails, TypeOK
  <2>2. ThreadInv' BY <1>0, <1>2 DEF CallFails, ThreadInv
  <2>3. QED BY <2>1, <2>2 DEF TypeInv
<1>3. CASE Reconnect
  <2>1. /\ services' \in Seq(Registrations)
        /\ nodeSubs' \in [Tools -> Nat]
        /\ registrations' \in Seq(Registrations)
    BY <1>0, <1>3, ReconnectType DEF Reconnect
  <2>2. TypeOK' BY <1>0, <1>3, <2>1 DEF Reconnect, TypeOK
  <2>3. ThreadInv' BY <1>0, <1>3 DEF Reconnect, ThreadInv
  <2>4. QED BY <2>2, <2>3 DEF TypeInv
<1>4. QED
  BY <1>1, <1>2, <1>3, RegisterTypes, InstallTypes, UpdateTypes, UninstallTypes, ConfigTypes
  DEF Next

LEMMA TypeInit == Init => TypeInv
<1>1. Init => TypeOK BY DEF Init, TypeOK, Labels, Registrations
<1>2. Init => ThreadInv BY DEF Init, ThreadInv
<1>3. QED BY <1>1, <1>2 DEF TypeInv

\* TypeOK holds whatever handlers and reconnects there are.
THEOREM TypeCorrect == Spec => []TypeOK
<1>1. Init => TypeInv BY TypeInit
<1>2. TypeInv /\ [Next]_vars => TypeInv' BY TypeStep
<1>3. TypeInv => TypeOK BY DEF TypeInv
<1>4. QED BY <1>1, <1>2, <1>3, PTL DEF Spec

-----------------------------------------------------------------------------
(* The services and what is saved of them.                                 *)

\* What a step does to the registrations of the mesh: nothing, or one of its
\* three operations.
LEMMA MeshSteps ==
  ASSUME TypeInv, [Next]_vars
  PROVE  \/ UNCHANGED meshVars
         \/ \E t \in Tools, v \in Versions : RegisterTool(t, v)
         \/ \E t \in Tools : UnregisterTool(t)
         \/ ReRegisterTools
<1> USE DEF vars
<1>1. ASSUME NEW h \in Handlers, RegisterStep(h)
      PROVE  UNCHANGED meshVars \/ \E t \in Tools, v \in Versions : RegisterTool(t, v)
  <2>1. ASSUME RegisterMesh(h) PROVE \E t \in Tools, v \in Versions : RegisterTool(t, v)
    <3>1. arg[h] \in Tools /\ ver[h] \in Versions
      BY <2>1 DEF RegisterMesh, TypeInv, ThreadInv
    <3>2. QED BY <2>1, <3>1 DEF RegisterMesh
  <2>2. QED
    BY <1>1, <2>1
    DEF RegisterStep, RegisterStart, RegisterStartFails, RegisterDropStreams, RegisterSubscribe
<1>2. ASSUME NEW h \in Handlers, InstallStep(h) PROVE UNCHANGED meshVars
  BY <1>2 DEF InstallStep, InstallBegin, InstallDuplicate, InstallFails, InstallCommit
<1>3. ASSUME NEW h \in Handlers, UpdateStep(h)
      PROVE  UNCHANGED meshVars \/ \E t \in Tools : UnregisterTool(t)
  <2>1. ASSUME UpdateUnregister(h) PROVE \E t \in Tools : UnregisterTool(t)
    <3>1. arg[h] \in Tools BY <2>1 DEF UpdateUnregister, TypeInv, ThreadInv
    <3>2. QED BY <2>1, <3>1 DEF UpdateUnregister
  <2>2. QED BY <1>3, <2>1 DEF UpdateStep, UpdateBegin, UpdateStop, UpdateLoad, UpdateFails
<1>4. ASSUME NEW h \in Handlers, UninstallStep(h)
      PROVE  UNCHANGED meshVars \/ \E t \in Tools : UnregisterTool(t)
  <2>1. ASSUME UninstallUnregister(h) PROVE \E t \in Tools : UnregisterTool(t)
    <3>1. arg[h] \in Tools BY <2>1 DEF UninstallUnregister, TypeInv, ThreadInv
    <3>2. QED BY <2>1, <3>1 DEF UninstallUnregister
  <2>2. QED BY <1>4, <2>1 DEF UninstallStep, UninstallStop, UninstallStreams, UninstallRemove
<1>5. ASSUME NEW h \in Handlers, ConfigStep(h) PROVE UNCHANGED meshVars
  BY <1>5 DEF ConfigStep, ConfigBegin, ConfigStop, ConfigStart
<1>6. ASSUME NEW t \in Tools, CallFails(t) PROVE UNCHANGED meshVars BY <1>6 DEF CallFails
<1>7. QED BY <1>1, <1>2, <1>3, <1>4, <1>5, <1>6 DEF Next, Reconnect

LEMMA SavedStep ==
  ASSUME TypeInv, ServicesSaved, [Next]_vars
  PROVE  ServicesSaved'
<1>1. services \in Seq(Registrations) /\ registrations \in Seq(Registrations)
  BY DEF TypeInv, TypeOK
<1>2. \A i \in DOMAIN services : \E j \in DOMAIN registrations : registrations[j] = services[i]
  BY DEF ServicesSaved
<1>3. CASE UNCHANGED meshVars BY <1>2, <1>3 DEF meshVars, ServicesSaved
<1>4. ASSUME NEW t \in Tools, NEW v \in Versions, RegisterTool(t, v) PROVE ServicesSaved'
  <2> DEFINE r == Registration(t, v)
  <2>1. r \in Registrations BY DEF Registration, Registrations
  <2>2. registrations' = Append(registrations, r) BY <1>4 DEF RegisterTool
  <2>3. services' = services \/ services' = Append(services, r) BY <1>4 DEF RegisterTool
  <2> HIDE DEF r
  <2>4. /\ DOMAIN registrations \subseteq DOMAIN registrations'
        /\ \A j \in DOMAIN registrations : registrations'[j] = registrations[j]
        /\ \E j \in DOMAIN registrations' : registrations'[j] = r
    <3>1. Len(registrations) + 1 \in DOMAIN registrations' BY <1>1, <2>1, <2>2
    <3>2. registrations'[Len(registrations) + 1] = r BY <1>1, <2>1, <2>2
    <3>3. QED BY <1>1, <2>1, <2>2, <3>1, <3>2
  <2>5. ASSUME NEW i \in DOMAIN services'
        PROVE  services'[i] = r \/ (i \in DOMAIN services /\ services'[i] = services[i])
    <3>1. CASE services' = services BY <2>5, <3>1
    <3>2. CASE services' = Append(services, r) BY <1>1, <2>1, <2>5, <3>2
    <3>3. QED BY <2>3, <3>1, <3>2
  <2>6. ASSUME NEW i \in DOMAIN services'
        PROVE  \E j \in DOMAIN registrations' : registrations'[j] = services'[i]
    <3>1. CASE services'[i] = r BY <2>4, <3>1
    <3>2. CASE i \in DOMAIN services /\ services'[i] = services[i]
      <4>1. PICK j \in DOMAIN registrations : registrations[j] = services[i] BY <1>2, <3>2
      <4>2. j \in DOMAIN registrations' /\ registrations'[j] = services'[i] BY <2>4, <3>2, <4>1
      <4>3. QED BY <4>2
    <3>3. QED BY <2>5, <3>1, <3>2
  <2>7. QED BY <2>6 DEF ServicesSaved
<1>5. ASSUME NEW t \in Tools, UnregisterTool(t) PROVE ServicesSaved'
  <2>1. registrations' = registrations BY <1>5, UnregisterTakes DEF TypeInv
  <2>2. ASSUME NEW i \in DOMAIN services'
        PROVE  \E k \in DOMAIN services : services'[i] = services[k]
    <3>1. ASSUME NEW g \in ServicesOf(t), services' = RemoveAt(services, g)
          PROVE  \E k \in DOMAIN services : services'[i] = services[k]
      <4>1. g \in 1 .. Len(services) BY <1>1 DEF ServicesOf, PlacesOf
      <4>2. /\ services' \in Seq(Registrations)
            /\ Len(services') = Len(services) - 1
            /\ \A j \in 1 .. (Len(services) - 1) :
                 services'[j] = IF j < g THEN services[j] ELSE services[j + 1]
        BY <1>1, <3>1, <4>1, RemoveAtType
      <4>3. i \in 1 .. (Len(services) - 1) BY <2>2, <4>2
      <4>4. i \in DOMAIN services /\ i + 1 \in DOMAIN services BY <1>1, <4>3
      <4>5. QED BY <4>2, <4>3, <4>4
    <3>2. ASSUME services' = services
          PROVE  \E k \in DOMAIN services : services'[i] = services[k]
      BY <2>2, <3>2
    <3>3. QED BY <1>5, <3>1, <3>2, UnregisterTakes DEF TypeInv
  <2>3. QED BY <1>2, <2>1, <2>2 DEF ServicesSaved
<1>6. CASE ReRegisterTools
  <2>1. CASE registrations = <<>> BY <1>2, <1>6, <2>1 DEF ReRegisterTools, meshVars, ServicesSaved
  <2>2. CASE registrations # <<>>
    BY <1>1, <1>6, <2>2, AcceptedType DEF ReRegisterTools, ServicesSaved
  <2>3. QED BY <2>1, <2>2
<1>7. QED BY <1>3, <1>4, <1>5, <1>6, MeshSteps

\* ServicesSaved holds whatever handlers and reconnects there are: what answers
\* now answers again after the next reconnect.
THEOREM LiveIsSaved == Spec => []ServicesSaved
<1>1. Init => TypeInv /\ ServicesSaved
  <2>1. Init => ServicesSaved BY DEF Init, ServicesSaved
  <2>2. QED BY <2>1, TypeInit
<1>2. TypeInv /\ ServicesSaved /\ [Next]_vars => TypeInv' /\ ServicesSaved'
  BY TypeStep, SavedStep
<1>3. QED BY <1>1, <1>2, PTL DEF Spec

-----------------------------------------------------------------------------
(* The services of a tool, counted.                                        *)

\* The places in a sequence of the registrations in S.
PlacesIn(s, S) == {i \in DOMAIN s : s[i] \in S}

LEMMA PlacesFinite ==
  ASSUME NEW s \in Seq(Registrations), NEW S
  PROVE  IsFiniteSet(PlacesIn(s, S)) /\ Cardinality(PlacesIn(s, S)) \in Nat
<1>1. IsFiniteSet(1 .. Len(s)) BY FS_Interval
<1>2. PlacesIn(s, S) \in SUBSET (1 .. Len(s)) BY DEF PlacesIn
<1>3. QED BY <1>1, <1>2, FS_Subset, FS_CardinalityType

\* Appending a registration adds one to the sets it is in, nothing to others.
LEMMA CountIn ==
  ASSUME NEW s \in Seq(Registrations), NEW r \in Registrations, NEW S
  PROVE  Cardinality(PlacesIn(Append(s, r), S))
           = Cardinality(PlacesIn(s, S)) + (IF r \in S THEN 1 ELSE 0)
<1> DEFINE a == Append(s, r)
           n == Len(s) + 1
<1>1. /\ Len(s) \in Nat
      /\ DOMAIN s = 1 .. Len(s)
      /\ DOMAIN a = 1 .. n
      /\ a[n] = r
      /\ \A i \in 1 .. Len(s) : a[i] = s[i]
  OBVIOUS
<1> HIDE DEF a
<1>2. PlacesIn(s, S) \subseteq 1 .. Len(s) BY <1>1 DEF PlacesIn
<1>3. n \notin PlacesIn(s, S) BY <1>1, <1>2
<1>4. IsFiniteSet(PlacesIn(s, S)) /\ Cardinality(PlacesIn(s, S)) \in Nat BY PlacesFinite
<1>5. CASE r \in S
  <2>1. PlacesIn(a, S) = PlacesIn(s, S) \cup {n} BY <1>1, <1>5 DEF PlacesIn
  <2>2. Cardinality(PlacesIn(a, S)) = Cardinality(PlacesIn(s, S)) + 1
    BY <1>3, <1>4, <2>1, FS_AddElement
  <2>3. QED BY <1>5, <2>2 DEF a
<1>6. CASE r \notin S
  <2>1. PlacesIn(a, S) = PlacesIn(s, S) BY <1>1, <1>6 DEF PlacesIn
  <2>2. QED BY <1>4, <1>6, <2>1 DEF a
<1>7. QED BY <1>5, <1>6

\* The registrations of tool t, of all versions and of those in V.
OfTool(t) == {r \in Registrations : r.tool = t}
OfVersions(t, V) == {r \in Registrations : r.tool = t /\ r.version \in V}

LEMMA PlacesOfTool ==
  ASSUME NEW s \in Seq(Registrations), NEW t, NEW V
  PROVE  /\ PlacesOf(s, t) = PlacesIn(s, OfTool(t))
         /\ {j \in PlacesOf(s, t) : s[j].version \in V} = PlacesIn(s, OfVersions(t, V))
<1>1. \A i \in DOMAIN s : s[i] \in Registrations OBVIOUS
<1>2. QED BY <1>1 DEF PlacesOf, PlacesIn, OfTool, OfVersions

LEMMA CountAppend ==
  ASSUME NEW s \in Seq(Registrations), NEW r \in Registrations, NEW t
  PROVE  Cardinality(PlacesOf(Append(s, r), t))
           = Cardinality(PlacesOf(s, t)) + (IF r.tool = t THEN 1 ELSE 0)
<1>1. Append(s, r) \in Seq(Registrations) OBVIOUS
<1>2. /\ PlacesOf(s, t) = PlacesIn(s, OfTool(t))
      /\ PlacesOf(Append(s, r), t) = PlacesIn(Append(s, r), OfTool(t))
  BY <1>1, PlacesOfTool
<1>3. r \in OfTool(t) <=> r.tool = t BY DEF OfTool
<1>4. QED BY <1>2, <1>3, CountIn

\* Removing the registration of another tool removes nothing of t.
LEMMA CountRemove ==
  ASSUME NEW s \in Seq(Registrations), NEW g \in 1 .. Len(s), NEW t, s[g].tool # t
  PROVE  Cardinality(PlacesOf(RemoveAt(s, g), t)) = Cardinality(PlacesOf(s, t))
<1> DEFINE a == RemoveAt(s, g)
           S == PlacesOf(s, t)
           T == PlacesOf(a, t)
           f == [j \in S |-> IF j < g THEN j ELSE j - 1]
<1>1. Len(s) \in Nat /\ DOMAIN s = 1 .. Len(s) OBVIOUS
<1>2. /\ DOMAIN a = 1 .. (Len(s) - 1)
      /\ \A j \in 1 .. (Len(s) - 1) : a[j] = IF j < g THEN s[j] ELSE s[j + 1]
  <2>1. /\ a \in Seq(Registrations)
        /\ Len(a) = Len(s) - 1
        /\ \A j \in 1 .. (Len(s) - 1) : a[j] = IF j < g THEN s[j] ELSE s[j + 1]
    BY RemoveAtType
  <2>2. QED BY <2>1
<1>3. IsFiniteSet(S) BY ServicesFinite DEF PlacesOf
<1> HIDE DEF a
<1>4. \A j \in S : j \in 1 .. Len(s) /\ s[j].tool = t /\ j # g BY <1>1 DEF PlacesOf
<1>5. \A j \in T : j \in 1 .. (Len(s) - 1) /\ a[j].tool = t BY <1>2 DEF PlacesOf
<1>6. ASSUME NEW j \in S PROVE f[j] \in T
  <2>1. CASE j < g
    <3>1. j \in 1 .. (Len(s) - 1) BY <1>1, <1>4, <2>1
    <3>2. a[j] = s[j] BY <1>2, <2>1, <3>1
    <3>3. QED BY <1>2, <1>4, <2>1, <3>1, <3>2 DEF PlacesOf
  <2>2. CASE ~(j < g)
    <3>1. j - 1 \in 1 .. (Len(s) - 1) /\ ~(j - 1 < g) /\ (j - 1) + 1 = j
      BY <1>1, <1>4, <2>2
    <3>2. a[j - 1] = s[j] BY <1>2, <3>1
    <3>3. QED BY <1>2, <1>4, <2>2, <3>1, <3>2 DEF PlacesOf
  <2>3. QED BY <2>1, <2>2
<1>7. \A i, j \in S : f[i] = f[j] => i = j BY <1>1, <1>4
<1>8. ASSUME NEW k \in T PROVE \E j \in S : f[j] = k
  <2>1. CASE k < g
    <3>1. k \in S BY <1>1, <1>2, <1>5, <2>1 DEF PlacesOf
    <3>2. f[k] = k BY <2>1, <3>1
    <3>3. QED BY <3>1, <3>2
  <2>2. CASE ~(k < g)
    <3>1. k + 1 \in 1 .. Len(s) /\ ~(k + 1 < g) /\ (k + 1) - 1 = k BY <1>1, <1>5, <2>2
    <3>2. a[k] = s[k + 1] BY <1>2, <1>5, <2>2
    <3>3. k + 1 \in S BY <1>1, <1>5, <3>1, <3>2 DEF PlacesOf
    <3>4. f[k + 1] = k BY <3>1, <3>3
    <3>5. QED BY <3>3, <3>4
  <2>3. QED BY <2>1, <2>2
<1>9. f \in [S -> T] BY <1>6
<1> HIDE DEF f, S, T
<1>10. f \in Bijection(S, T)
  BY <1>7, <1>8, <1>9 DEF Bijection, Injection, Surjection, IsInjective
<1>11. Cardinality(T) = Cardinality(S) BY <1>3, <1>10, FS_Bijection DEF ExistsBijection
<1>12. QED BY <1>11 DEF S, T, a

\* The bound of NoStraySubscription for one tool.
Bounded(t) ==
  nodeSubs[t] <= Cardinality(PlacesOf(services, t)) + Cardinality(HalfRegistered(t))

LEMMA NoStrayStep ==
  ASSUME TypeInv, NoStraySubscription, [Next]_vars
  PROVE  NoStraySubscription'
<1>1. services \in Seq(Registrations) /\ nodeSubs \in [Tools -> Nat]
  BY DEF TypeInv, TypeOK
<1>2. services' \in Seq(Registrations) /\ nodeSubs' \in [Tools -> Nat]
  BY TypeStep DEF TypeInv, TypeOK
<1>3. SUFFICES ASSUME NEW u \in Tools PROVE Bounded(u)'
  BY DEF NoStraySubscription, ServicesOf, Bounded
<1>4. Bounded(u) BY DEF NoStraySubscription, ServicesOf, Bounded
<1> DEFINE H == OfVersions(u, BadMethods)
<1>5. /\ registrations \in Seq(Registrations)
      /\ registrations' \in Seq(Registrations)
      /\ HalfRegistered(u) = PlacesIn(registrations, H)
      /\ HalfRegistered(u)' = PlacesIn(registrations', H)
  <2>1. registrations \in Seq(Registrations) /\ registrations' \in Seq(Registrations)
    BY TypeStep DEF TypeInv, TypeOK
  <2>2. QED BY <2>1, PlacesOfTool DEF HalfRegistered
<1> DEFINE c == Cardinality(PlacesOf(services, u))
           d == Cardinality(PlacesOf(services', u))
           k == Cardinality(PlacesIn(registrations, H))
           l == Cardinality(PlacesIn(registrations', H))
<1>6. /\ c \in Nat /\ d \in Nat /\ k \in Nat /\ l \in Nat
      /\ nodeSubs[u] \in Nat /\ nodeSubs'[u] \in Nat
      /\ nodeSubs[u] <= c + k
      /\ Bounded(u)' <=> nodeSubs'[u] <= d + l
  BY <1>1, <1>2, <1>4, <1>5, ServicesFinite, PlacesFinite DEF PlacesOf, Bounded
<1>7. CASE UNCHANGED meshVars BY <1>6, <1>7 DEF meshVars
<1>8. ASSUME NEW t \in Tools, NEW v \in Versions, RegisterTool(t, v)
      PROVE  Bounded(u)'
  <2> DEFINE r == Registration(t, v)
  <2>1. /\ r \in Registrations /\ r.tool = t
        /\ r \in H <=> t = u /\ v \in BadMethods
    BY DEF Registration, Registrations, OfVersions
  <2>2. registrations' = Append(registrations, r) BY <1>8 DEF RegisterTool
  <2>3. services' = IF v \in Rejected \cup BadMethods THEN services ELSE Append(services, r)
    BY <1>8 DEF RegisterTool
  <2> HIDE DEF r, H
  <2>4. l = k + (IF t = u /\ v \in BadMethods THEN 1 ELSE 0)
    BY <1>5, <2>1, <2>2, CountIn
  <2>5. d = c + (IF t = u /\ v \notin Rejected \cup BadMethods THEN 1 ELSE 0)
    <3>1. CASE v \in Rejected \cup BadMethods BY <1>6, <2>3, <3>1
    <3>2. CASE v \notin Rejected \cup BadMethods
      <4>1. services' = Append(services, r) BY <2>3, <3>2
      <4>2. QED BY <1>1, <2>1, <3>2, <4>1, CountAppend
    <3>3. QED BY <3>1, <3>2
  <2>6. nodeSubs'[u] <= nodeSubs[u] + (IF t = u /\ v \notin Rejected THEN 1 ELSE 0)
    <3>1. CASE v \in Rejected
      <4>1. nodeSubs' = nodeSubs BY <1>8, <3>1 DEF RegisterTool
      <4>2. QED BY <1>6, <3>1, <4>1
    <3>2. CASE v \notin Rejected
      <4>1. PICK made \in 0 .. 1 : nodeSubs' = [nodeSubs EXCEPT ![t] = nodeSubs[t] + made]
        BY <1>8, <3>2 DEF RegisterTool, SubscribeNode
      <4>2. nodeSubs'[u] = IF t = u THEN nodeSubs[u] + made ELSE nodeSubs[u] BY <1>1, <4>1
      <4>3. made \in Nat /\ made <= 1 BY <4>1
      <4> HIDE DEF c, d, k, l
      <4>4. QED BY <1>6, <3>2, <4>2, <4>3
    <3>3. QED BY <3>1, <3>2
  <2>7. nodeSubs'[u] <= d + l
    <3> HIDE DEF c, d, k, l
    <3>1. QED BY <1>6, <2>4, <2>5, <2>6
  <2>8. QED BY <1>6, <2>7
<1>9. ASSUME NEW t \in Tools, UnregisterTool(t) PROVE Bounded(u)'
  <2>1. nodeSubs' = [nodeSubs EXCEPT ![t] = 0] /\ registrations' = registrations
    BY <1>9, UnregisterTakes DEF TypeInv
  <2>2. CASE u = t
    <3>1. nodeSubs'[u] = 0 BY <1>1, <2>1, <2>2
    <3> HIDE DEF c, d, k, l
    <3>2. QED BY <1>6, <3>1
  <2>3. CASE u # t
    <3>1. nodeSubs'[u] = nodeSubs[u] BY <1>1, <2>1, <2>3
    <3>2. d = c
      <4>1. ASSUME NEW g \in ServicesOf(t), services' = RemoveAt(services, g)
            PROVE  d = c
        <5>1. g \in 1 .. Len(services) /\ services[g].tool # u
          BY <1>1, <2>3 DEF ServicesOf, PlacesOf
        <5>2. QED BY <1>1, <4>1, <5>1, CountRemove
      <4>2. ASSUME services' = services PROVE d = c
        BY <4>2
      <4>3. QED BY <1>9, <4>1, <4>2, UnregisterTakes DEF TypeInv
    <3>3. l = k BY <2>1
    <3> HIDE DEF c, d, k, l
    <3>4. QED BY <1>6, <3>1, <3>2, <3>3
  <2>4. QED BY <2>2, <2>3
<1>10. CASE ReRegisterTools
  <2>1. CASE registrations = <<>> BY <1>7, <1>10, <2>1 DEF ReRegisterTools
  <2>2. CASE registrations # <<>>
    <3>1. nodeSubs'[u] <= d + Cardinality(HalfRegistered(u)) /\ registrations' = registrations
      BY <1>10, <2>2 DEF ReRegisterTools
    <3>2. nodeSubs'[u] <= d + l BY <1>5, <3>1
    <3>3. QED BY <1>6, <3>2
  <2>3. QED BY <2>1, <2>2
<1>11. QED BY <1>7, <1>8, <1>9, <1>10, MeshSteps

\* NoStraySubscription holds whatever handlers and reconnects there are: a tool
\* has no more node-targeted subscriptions than services and registrations that
\* were given up half-way.
THEOREM SubscribedIsServed == Spec => []NoStraySubscription
<1>1. Init => TypeInv BY TypeInit
<1>2. Init => NoStraySubscription
  <2>1. ASSUME Init, NEW t \in Tools
        PROVE  nodeSubs[t] <= Cardinality(ServicesOf(t)) + Cardinality(HalfRegistered(t))
    <3>1. nodeSubs[t] = 0 /\ ServicesOf(t) = {} /\ HalfRegistered(t) = {}
      BY <2>1 DEF Init, ServicesOf, PlacesOf, HalfRegistered
    <3>2. QED BY <3>1, FS_EmptySet
  <2>2. QED BY <2>1 DEF NoStraySubscription
<1>3. TypeInv /\ NoStraySubscription /\ [Next]_vars => TypeInv' /\ NoStraySubscription'
  BY TypeStep, NoStrayStep
<1>4. QED BY <1>1, <1>2, <1>3, PTL DEF Spec

-----------------------------------------------------------------------------
(* When no two requests for a tool overlap: the streams of a tool.         *)

\* The stream subscriptions of a tool that are not in the map.
Unowned(t) == streamLive[t] - streamOwned[t]

\* Each of them was left by a registration that a handler has saved, or by one
\* that the handler of the tool is about to save; and there is none in the map
\* when a handler is about to subscribe.
SpoiledAt(h, t) == pc[h] = "mesh" /\ arg[h] = t /\ ver[h] \in BadStreams

StreamsBounded(t) ==
  LET n == Cardinality(Spoiled(t))
  IN /\ Unowned(t) <= n + 1
     /\ (\A h \in Handlers : ~SpoiledAt(h, t)) => Unowned(t) <= n

StreamInv ==
  /\ \A t \in Tools : StreamsBounded(t)
  /\ \A h \in Handlers : pc[h] = "subscribe" => streamOwned[arg[h]] = 0

\* What a handler does to its own place leaves the others where they are, each
\* at a tool of its own.
LEMMA OthersElsewhere ==
  ASSUME TypeInv, NoOverlap, NEW h \in Handlers, NEW g \in Handlers, g # h,
         pc[g] # "idle"
  PROVE  arg[g] \in Tools /\ arg[g] # arg[h]
<1>1. arg[g] \in Tools BY DEF TypeInv, ThreadInv
<1>2. arg[g] # None BY <1>1, NodeToolsAssumption
<1>3. QED BY <1>1, <1>2 DEF NoOverlap

\* What is saved of a tool stays, so the bound only grows.
LEMMA SpoiledGrows ==
  ASSUME TypeInv, [Next]_vars, NEW t \in Tools
  PROVE  /\ Cardinality(Spoiled(t)) \in Nat
         /\ Cardinality(Spoiled(t))' \in Nat
         /\ Cardinality(Spoiled(t)) <= Cardinality(Spoiled(t))'
<1>1. registrations \in Seq(Registrations) /\ registrations' \in Seq(Registrations)
  BY TypeStep DEF TypeInv, TypeOK
<1> DEFINE S == OfVersions(t, BadStreams)
<1>2. Spoiled(t) = PlacesIn(registrations, S) /\ Spoiled(t)' = PlacesIn(registrations', S)
  BY <1>1, PlacesOfTool DEF Spoiled
<1>3. /\ Cardinality(PlacesIn(registrations, S)) \in Nat
      /\ Cardinality(PlacesIn(registrations', S)) \in Nat
  BY <1>1, PlacesFinite
<1>4. registrations' = registrations
      \/ \E r \in Registrations : registrations' = Append(registrations, r)
  <2>1. ASSUME NEW u \in Tools, NEW v \in Versions, RegisterTool(u, v)
        PROVE  \E r \in Registrations : registrations' = Append(registrations, r)
    BY <2>1 DEF RegisterTool, Registration, Registrations
  <2>2. ASSUME NEW u \in Tools, UnregisterTool(u) PROVE registrations' = registrations
    BY <2>2 DEF UnregisterTool
  <2>3. ASSUME ReRegisterTools PROVE registrations' = registrations
    BY <2>3 DEF ReRegisterTools, meshVars
  <2>4. QED BY <2>1, <2>2, <2>3, MeshSteps DEF meshVars
<1>5. CASE registrations' = registrations BY <1>2, <1>3, <1>5
<1>6. ASSUME NEW r \in Registrations, registrations' = Append(registrations, r)
      PROVE  Cardinality(Spoiled(t)) <= Cardinality(Spoiled(t))'
  <2> HIDE DEF S
  <2>1. Cardinality(PlacesIn(registrations', S))
          = Cardinality(PlacesIn(registrations, S)) + (IF r \in S THEN 1 ELSE 0)
    BY <1>1, <1>6, CountIn
  <2>2. QED BY <1>2, <1>3, <2>1
<1>7. QED BY <1>2, <1>3, <1>4, <1>5, <1>6

\* A step of handler h, or of none, that leaves the stream subscriptions of tool
\* t alone and starts or ends no failed registration of t.
LEMMA StreamsKept ==
  ASSUME TypeInv, StreamInv, [Next]_vars, NEW t \in Tools,
         streamLive'[t] = streamLive[t], streamOwned'[t] = streamOwned[t],
         \A h \in Handlers : SpoiledAt(h, t) => SpoiledAt(h, t)'
  PROVE  StreamsBounded(t)'
<1>1. streamLive[t] \in Nat /\ streamOwned[t] \in {0, 1} BY DEF TypeInv, TypeOK
<1>2. Unowned(t)' = Unowned(t) /\ Unowned(t) \in Int BY <1>1 DEF Unowned
<1>3. StreamsBounded(t) BY DEF StreamInv
<1> DEFINE n == Cardinality(Spoiled(t))
           m == Cardinality(Spoiled(t))'
<1>4. n \in Nat /\ m \in Nat /\ n <= m BY SpoiledGrows
<1>5. Unowned(t) <= n + 1 /\ ((\A h \in Handlers : ~SpoiledAt(h, t)) => Unowned(t) <= n)
  BY <1>3 DEF StreamsBounded
<1> HIDE DEF n, m
<1>6. Unowned(t) <= m + 1 BY <1>2, <1>4, <1>5
<1>7. ASSUME \A h \in Handlers : ~SpoiledAt(h, t)' PROVE Unowned(t) <= m
  <2>1. Unowned(t) <= n BY <1>5, <1>7
  <2>2. QED BY <1>2, <1>4, <2>1
<1>8. QED BY <1>2, <1>6, <1>7 DEF StreamsBounded, m

\* The teardown takes away what is in the map.
LEMMA StreamsDropped ==
  ASSUME TypeInv, StreamInv, [Next]_vars, NEW t \in Tools, DropStreams(t),
         \A h \in Handlers, u \in Tools : SpoiledAt(h, u) => SpoiledAt(h, u)'
  PROVE  \A u \in Tools : StreamsBounded(u)'
<1>1. /\ streamLive \in [Tools -> Nat]
      /\ streamOwned \in [Tools -> {0, 1}]
  BY DEF TypeInv, TypeOK
<1>2. /\ streamLive' = [streamLive EXCEPT ![t] = streamLive[t] - streamOwned[t]]
      /\ streamOwned' = [streamOwned EXCEPT ![t] = 0]
  BY DEF DropStreams
<1>3. ASSUME NEW u \in Tools, u # t PROVE StreamsBounded(u)'
  <2>1. streamLive'[u] = streamLive[u] /\ streamOwned'[u] = streamOwned[u]
    BY <1>1, <1>2, <1>3
  <2>2. QED BY <2>1, StreamsKept
<1>4. StreamsBounded(t)'
  <2>1. Unowned(t)' = Unowned(t) /\ Unowned(t) \in Int BY <1>1, <1>2 DEF Unowned
  <2>2. StreamsBounded(t) BY DEF StreamInv
  <2> DEFINE n == Cardinality(Spoiled(t))
             m == Cardinality(Spoiled(t))'
  <2>3. n \in Nat /\ m \in Nat /\ n <= m BY SpoiledGrows
  <2>4. Unowned(t) <= n + 1 /\ ((\A h \in Handlers : ~SpoiledAt(h, t)) => Unowned(t) <= n)
    BY <2>2 DEF StreamsBounded
  <2> HIDE DEF n, m
  <2>5. Unowned(t) <= m + 1 BY <2>1, <2>3, <2>4
  <2>6. ASSUME \A h \in Handlers : ~SpoiledAt(h, t)' PROVE Unowned(t) <= m
    <3>1. Unowned(t) <= n BY <2>4, <2>6
    <3>2. QED BY <2>1, <2>3, <3>1
  <2>7. QED BY <2>1, <2>5, <2>6 DEF StreamsBounded, m
<1>5. QED BY <1>3, <1>4

\* A handler at "subscribe" is the only one at its tool, so nothing of the tool
\* is pending and nothing is in the map.
LEMMA SubscribeStep ==
  ASSUME TypeInv, NoOverlap, StreamInv, [Next]_vars, NEW h \in Handlers, RegisterSubscribe(h),
         NEW t \in Tools, t = arg[h]
  PROVE  \A u \in Tools : StreamsBounded(u)'
<1>1. /\ pc \in [Handlers -> Labels]
      /\ streamLive \in [Tools -> Nat]
      /\ streamOwned \in [Tools -> {0, 1}]
  BY DEF TypeInv, TypeOK
<1>2. /\ pc[h] = "subscribe"
      /\ pc' = [pc EXCEPT ![h] = "mesh"] /\ arg' = arg /\ ver' = ver
      /\ registrations' = registrations
  BY DEF RegisterSubscribe, TypeInv, ThreadInv, Goto, meshVars
<1>3. streamOwned[t] = 0 BY <1>2 DEF StreamInv
<1>4. \A g \in Handlers, u \in Tools : SpoiledAt(g, u) => SpoiledAt(g, u)'
  BY <1>1, <1>2 DEF SpoiledAt
<1>5. \A g \in Handlers : ~SpoiledAt(g, t)
  <2>1. ASSUME NEW g \in Handlers, SpoiledAt(g, t) PROVE FALSE
    <3>1. g # h /\ pc[g] # "idle" /\ arg[g] = arg[h] BY <1>2, <2>1 DEF SpoiledAt
    <3>2. QED BY <3>1, OthersElsewhere
  <2>2. QED BY <2>1
<1>6. ASSUME NEW u \in Tools, u # t PROVE StreamsBounded(u)'
  <2>1. streamLive'[u] = streamLive[u] /\ streamOwned'[u] = streamOwned[u]
    BY <1>1, <1>6 DEF RegisterSubscribe, streamVars
  <2>2. QED BY <1>4, <2>1, StreamsKept
<1> DEFINE n == Cardinality(Spoiled(t))
<1>7. /\ n \in Nat
      /\ Cardinality(Spoiled(t))' = n
      /\ streamLive[t] \in Nat
      /\ Unowned(t) = streamLive[t]
      /\ Unowned(t) <= n
  <2>1. StreamsBounded(t) BY <1>2 DEF StreamInv
  <2>2. Unowned(t) <= n BY <1>5, <2>1 DEF StreamsBounded
  <2>3. n \in Nat BY <1>2, SpoiledGrows
  <2>4. Cardinality(Spoiled(t))' = n BY <1>2 DEF Spoiled, PlacesOf
  <2>5. QED BY <1>1, <1>2, <1>3, <2>2, <2>3, <2>4 DEF Unowned
<1>8. StreamsBounded(t)'
  <2>1. CASE t \notin Streaming
    <3>1. streamLive'[t] = streamLive[t] /\ streamOwned'[t] = streamOwned[t]
      BY <2>1 DEF RegisterSubscribe, streamVars
    <3>2. QED BY <1>2, <1>4, <3>1, StreamsKept
  <2>2. CASE t \in Streaming /\ ver[h] \in BadStreams
    <3>1. PICK made \in 0 .. 1 : streamLive' = [streamLive EXCEPT ![t] = streamLive[t] + made]
      BY <2>2 DEF RegisterSubscribe
    <3>2. streamOwned' = streamOwned BY <2>2 DEF RegisterSubscribe
    <3>3. Unowned(t)' = streamLive[t] + made BY <1>1, <1>2, <1>3, <1>7, <3>1, <3>2 DEF Unowned
    <3>4. SpoiledAt(h, t)' BY <1>1, <1>2, <2>2 DEF SpoiledAt
    <3>5. streamLive[t] + made <= n + 1
      <4>1. made \in Nat /\ made <= 1 BY <3>1
      <4> HIDE DEF n
      <4>2. QED BY <1>7, <4>1
    <3>6. QED BY <1>2, <1>7, <3>3, <3>4, <3>5 DEF StreamsBounded
  <2>3. CASE t \in Streaming /\ ver[h] \notin BadStreams
    <3>1. /\ streamLive' = [streamLive EXCEPT ![t] = streamLive[t] + 1]
          /\ streamOwned' = [streamOwned EXCEPT ![t] = 1]
      BY <2>3 DEF RegisterSubscribe
    <3>2. Unowned(t)' = streamLive[t] BY <1>1, <1>2, <1>7, <3>1 DEF Unowned
    <3>3. streamLive[t] <= n /\ streamLive[t] <= n + 1
      <4> HIDE DEF n
      <4>1. QED BY <1>7
    <3>4. QED BY <1>7, <3>2, <3>3 DEF StreamsBounded
  <2>4. QED BY <2>1, <2>2, <2>3
<1>9. QED BY <1>6, <1>8

\* The registration that left a subscription behind is saved.
LEMMA SpoiledSaved ==
  ASSUME TypeInv, StreamInv, [Next]_vars, NEW h \in Handlers, RegisterMesh(h),
         NEW t \in Tools, t = arg[h], NEW v \in Versions, v = ver[h]
  PROVE  \A u \in Tools : StreamsBounded(u)'
<1>1. /\ pc \in [Handlers -> Labels]
      /\ arg \in [Handlers -> Tools \cup {None}]
      /\ streamLive \in [Tools -> Nat]
      /\ streamOwned \in [Tools -> {0, 1}]
      /\ registrations \in Seq(Registrations)
      /\ registrations' \in Seq(Registrations)
  BY TypeStep DEF TypeInv, TypeOK
<1>2. /\ pc[h] = "mesh"
      /\ pc' = [pc EXCEPT ![h] = "idle"]
      /\ arg' = [arg EXCEPT ![h] = None]
      /\ ver' = [ver EXCEPT ![h] = None]
      /\ UNCHANGED <<streamLive, streamOwned>>
  BY DEF RegisterMesh, TypeInv, ThreadInv, Return, streamVars
<1>3. \A g \in Handlers, u \in Tools : g # h => (SpoiledAt(g, u) => SpoiledAt(g, u)')
  <2>1. ver \in [Handlers -> Versions \cup {None}] BY DEF TypeInv, TypeOK
  <2>2. QED BY <1>1, <1>2, <2>1 DEF SpoiledAt
<1>4. ASSUME NEW u \in Tools, ~SpoiledAt(h, u) PROVE StreamsBounded(u)'
  <2>1. \A g \in Handlers : SpoiledAt(g, u) => SpoiledAt(g, u)' BY <1>3, <1>4
  <2>2. QED BY <1>2, <2>1, StreamsKept
<1>5. ASSUME SpoiledAt(h, t) PROVE StreamsBounded(t)'
  <2> DEFINE n == Cardinality(Spoiled(t))
             S == OfVersions(t, BadStreams)
             r == Registration(t, v)
  <2>1. r \in Registrations /\ r \in S
    BY <1>2, <1>5 DEF Registration, Registrations, OfVersions, SpoiledAt
  <2>2. registrations' = Append(registrations, r) BY DEF RegisterMesh, RegisterTool
  <2>3. n = Cardinality(PlacesIn(registrations, S)) /\ n \in Nat
    <3>1. Spoiled(t) = PlacesIn(registrations, S) BY <1>1, PlacesOfTool DEF Spoiled
    <3>2. QED BY <1>1, <3>1, PlacesFinite
  <2>4. {j \in PlacesOf(registrations', t) : registrations'[j].version \in BadStreams}
          = PlacesIn(registrations', S)
    BY <1>1, PlacesOfTool
  <2>5. Cardinality({j \in PlacesOf(registrations', t) :
                       registrations'[j].version \in BadStreams}) = n + 1
    <3> HIDE DEF r, S
    <3>1. Cardinality(PlacesIn(registrations', S)) = n + 1 BY <1>1, <2>1, <2>2, <2>3, CountIn
    <3>2. QED BY <2>4, <3>1
  <2>6. Unowned(t) <= n + 1 /\ Unowned(t) \in Int
    <3>1. StreamsBounded(t) BY <1>2 DEF StreamInv
    <3>2. Unowned(t) <= n + 1 BY <3>1 DEF StreamsBounded
    <3>3. Unowned(t) \in Int BY <1>1 DEF Unowned
    <3>4. QED BY <3>2, <3>3
  <2>7. Unowned(t)' = Unowned(t) BY <1>2 DEF Unowned
  <2>8. Cardinality(Spoiled(t))' = n + 1 BY <2>5 DEF Spoiled
  <2>9. Unowned(t)' <= (n + 1) + 1 /\ Unowned(t)' <= n + 1
    <3> HIDE DEF n
    <3>1. QED BY <2>3, <2>6, <2>7
  <2>10. QED BY <2>8, <2>9 DEF StreamsBounded
<1>6. QED BY <1>2, <1>4, <1>5 DEF SpoiledAt

LEMMA StreamStep ==
  ASSUME TypeInv, NoOverlap, StreamInv, [Next]_vars
  PROVE  StreamInv'
<1> USE DEF managerVars, execVars, meshVars, streamVars, threadVars, Goto, Return, Begin
<1>1. /\ pc \in [Handlers -> Labels]
      /\ arg \in [Handlers -> Tools \cup {None}]
      /\ ver \in [Handlers -> Versions \cup {None}]
      /\ streamLive \in [Tools -> Nat]
      /\ streamOwned \in [Tools -> {0, 1}]
  BY DEF TypeInv, TypeOK
\* Steps that leave the subscriptions alone.
<1>2. ASSUME UNCHANGED streamVars,
             \A h \in Handlers, t \in Tools : SpoiledAt(h, t) => SpoiledAt(h, t)',
             \A h \in Handlers : pc'[h] = "subscribe" => pc[h] = "subscribe" /\ arg'[h] = arg[h]
      PROVE  StreamInv'
  <2>1. \A t \in Tools : StreamsBounded(t)' BY <1>2, StreamsKept
  <2>2. ASSUME NEW h \in Handlers, pc'[h] = "subscribe" PROVE streamOwned'[arg'[h]] = 0
    BY <1>2, <2>2 DEF StreamInv
  <2>3. QED BY <2>1, <2>2 DEF StreamInv
<1>3. CASE UNCHANGED vars BY <1>2, <1>3 DEF vars, SpoiledAt
<1>4. ASSUME NEW h \in Handlers, RegisterDropStreams(h) PROVE StreamInv'
  <2>1. arg[h] \in Tools BY <1>4 DEF RegisterDropStreams, TypeInv, ThreadInv
  <2>2. /\ DropStreams(arg[h])
        /\ streamOwned' = [streamOwned EXCEPT ![arg[h]] = 0]
        /\ pc[h] = "streams"
        /\ pc' = [pc EXCEPT ![h] = "subscribe"]
        /\ arg' = arg
        /\ ver' = ver
    BY <1>4 DEF RegisterDropStreams, DropStreams
  <2>3. \A g \in Handlers, u \in Tools : SpoiledAt(g, u) => SpoiledAt(g, u)'
    BY <1>1, <2>2 DEF SpoiledAt
  <2>4. \A t \in Tools : StreamsBounded(t)' BY <2>1, <2>2, <2>3, StreamsDropped
  <2>5. ASSUME NEW g \in Handlers, pc'[g] = "subscribe" PROVE streamOwned'[arg'[g]] = 0
    <3>1. CASE g = h BY <1>1, <2>1, <2>2, <3>1
    <3>2. CASE g # h
      <4>1. pc[g] = "subscribe" BY <1>1, <2>2, <2>5, <3>2
      <4>2. arg[g] \in Tools /\ arg[g] # arg[h] BY <3>2, <4>1, OthersElsewhere
      <4>3. QED BY <1>1, <2>2, <4>1, <4>2 DEF StreamInv
    <3>3. QED BY <3>1, <3>2
  <2>6. QED BY <2>4, <2>5 DEF StreamInv
<1>5. ASSUME NEW h \in Handlers, RegisterSubscribe(h) PROVE StreamInv'
  <2>2. arg[h] \in Tools BY <1>5 DEF RegisterSubscribe, TypeInv, ThreadInv
  <2>1. \A t \in Tools : StreamsBounded(t)' BY <1>5, <2>2, SubscribeStep
  <2>3. pc' = [pc EXCEPT ![h] = "mesh"] /\ arg' = arg BY <1>5 DEF RegisterSubscribe
  <2>4. streamOwned' = streamOwned \/ streamOwned' = [streamOwned EXCEPT ![arg[h]] = 1]
    BY <1>5 DEF RegisterSubscribe
  <2>5. ASSUME NEW g \in Handlers, pc'[g] = "subscribe" PROVE streamOwned'[arg'[g]] = 0
    <3>1. g # h /\ pc[g] = "subscribe" BY <1>1, <2>3, <2>5
    <3>2. arg[g] \in Tools /\ arg[g] # arg[h] BY <3>1, OthersElsewhere
    <3>3. QED BY <1>1, <2>3, <2>4, <3>1, <3>2 DEF StreamInv
  <2>6. QED BY <2>1, <2>5 DEF StreamInv
<1>6. ASSUME NEW h \in Handlers, RegisterMesh(h) PROVE StreamInv'
  <2>1. \A t \in Tools : StreamsBounded(t)'
    <3>1. arg[h] \in Tools /\ ver[h] \in Versions
      BY <1>6 DEF RegisterMesh, TypeInv, ThreadInv
    <3>2. QED BY <1>6, <3>1, SpoiledSaved
  <2>2. /\ pc' = [pc EXCEPT ![h] = "idle"]
        /\ arg' = [arg EXCEPT ![h] = None]
        /\ streamOwned' = streamOwned
    BY <1>6 DEF RegisterMesh
  <2>3. ASSUME NEW g \in Handlers, pc'[g] = "subscribe" PROVE streamOwned'[arg'[g]] = 0
    <3>1. g # h /\ pc[g] = "subscribe" /\ arg'[g] = arg[g] BY <1>1, <2>2, <2>3
    <3>2. QED BY <2>2, <3>1 DEF StreamInv
  <2>4. QED BY <2>1, <2>3 DEF StreamInv
<1>7. ASSUME NEW h \in Handlers, UninstallStreams(h) PROVE StreamInv'
  <2>1. arg[h] \in Tools BY <1>7 DEF UninstallStreams, TypeInv, ThreadInv
  <2>2. /\ DropStreams(arg[h])
        /\ streamOwned' = [streamOwned EXCEPT ![arg[h]] = 0]
        /\ pc[h] = "uninstall.streams"
        /\ pc' = [pc EXCEPT ![h] = "uninstall.remove"]
        /\ arg' = arg
        /\ ver' = ver
    BY <1>7 DEF UninstallStreams, DropStreams
  <2>3. \A g \in Handlers, u \in Tools : SpoiledAt(g, u) => SpoiledAt(g, u)'
    BY <1>1, <2>2 DEF SpoiledAt
  <2>4. \A t \in Tools : StreamsBounded(t)' BY <2>1, <2>2, <2>3, StreamsDropped
  <2>5. ASSUME NEW g \in Handlers, pc'[g] = "subscribe" PROVE streamOwned'[arg'[g]] = 0
    <3>1. g # h /\ pc[g] = "subscribe" BY <1>1, <2>2, <2>5
    <3>2. arg[g] \in Tools /\ arg[g] # arg[h] BY <3>1, OthersElsewhere
    <3>3. QED BY <1>1, <2>2, <3>1, <3>2 DEF StreamInv
  <2>6. QED BY <2>4, <2>5 DEF StreamInv
\* A handler that goes on, from another place than "mesh" and to another than
\* "subscribe", while the subscriptions stay.
<1>8. ASSUME NEW h \in Handlers, pc[h] # "mesh", pc'[h] # "subscribe", UNCHANGED streamVars,
             \A g \in Handlers : g # h => pc'[g] = pc[g] /\ arg'[g] = arg[g] /\ ver'[g] = ver[g]
      PROVE  StreamInv'
  <2>1. \A g \in Handlers, t \in Tools : SpoiledAt(g, t) => SpoiledAt(g, t)'
    BY <1>8 DEF SpoiledAt
  <2>2. \A g \in Handlers : pc'[g] = "subscribe" => pc[g] = "subscribe" /\ arg'[g] = arg[g]
    BY <1>8
  <2>3. QED BY <1>2, <1>8, <2>1, <2>2
<1>9. ASSUME NEW h \in Handlers, RegisterStart(h) \/ RegisterStartFails(h) PROVE StreamInv'
  BY <1>1, <1>8, <1>9 DEF RegisterStart, RegisterStartFails
<1>10. ASSUME NEW h \in Handlers, InstallStep(h) PROVE StreamInv'
  <2>1. ASSUME NEW t \in Tools, InstallDuplicate(h, t) PROVE StreamInv'
    BY <1>2, <2>1 DEF InstallDuplicate, SpoiledAt
  <2>2. ASSUME NEW t \in Tools, InstallBegin(h, t) PROVE StreamInv'
    BY <1>1, <1>8, <2>2 DEF InstallBegin
  <2>3. ASSUME InstallFails(h) \/ InstallCommit(h) PROVE StreamInv'
    BY <1>1, <1>8, <2>3 DEF InstallFails, InstallCommit
  <2>4. QED BY <1>10, <2>1, <2>2, <2>3 DEF InstallStep
<1>11. ASSUME NEW h \in Handlers, UpdateStep(h) PROVE StreamInv'
  <2>1. ASSUME NEW t \in Tools, UpdateBegin(h, t) PROVE StreamInv'
    BY <1>1, <1>8, <2>1 DEF UpdateBegin
  <2>2. ASSUME UpdateStop(h) \/ UpdateUnregister(h) \/ UpdateLoad(h) \/ UpdateFails(h)
        PROVE  StreamInv'
    BY <1>1, <1>8, <2>2 DEF UpdateStop, UpdateUnregister, UpdateLoad, UpdateFails
  <2>3. QED BY <1>11, <2>1, <2>2 DEF UpdateStep
<1>12. ASSUME NEW h \in Handlers, NEW t \in Tools, UninstallStop(h, t) PROVE StreamInv'
  BY <1>1, <1>8, <1>12 DEF UninstallStop
<1>13. ASSUME NEW h \in Handlers, UninstallUnregister(h) \/ UninstallRemove(h) PROVE StreamInv'
  BY <1>1, <1>8, <1>13 DEF UninstallUnregister, UninstallRemove
<1>14. ASSUME NEW h \in Handlers, ConfigStep(h) PROVE StreamInv'
  <2>1. ASSUME NEW t \in Tools, ConfigBegin(h, t) PROVE StreamInv'
    BY <1>1, <1>8, <2>1 DEF ConfigBegin
  <2>2. ASSUME ConfigStop(h) \/ ConfigStart(h) PROVE StreamInv'
    BY <1>1, <1>8, <2>2 DEF ConfigStop, ConfigStart
  <2>3. QED BY <1>14, <2>1, <2>2 DEF ConfigStep
<1>15. ASSUME NEW t \in Tools, CallFails(t) PROVE StreamInv'
  BY <1>2, <1>15 DEF CallFails, SpoiledAt
<1>16. CASE Reconnect BY <1>2, <1>16 DEF Reconnect, SpoiledAt
<1>17. QED
  BY <1>3, <1>4, <1>5, <1>6, <1>7, <1>9, <1>10, <1>11, <1>12, <1>13, <1>14, <1>15, <1>16
  DEF Next, RegisterStep, UninstallStep

\* As long as no two requests for one tool overlap, StreamsOnce holds: a tool
\* has one stream subscription, and one more for each registration that a later
\* stream subject failed, reconnects or not.
THEOREM FramesOnce == Spec /\ []NoOverlap => []StreamsOnce
<1>1. Init => TypeInv /\ StreamInv
  <2>1. ASSUME Init, NEW t \in Tools PROVE StreamsBounded(t)
    <3>1. streamLive[t] = 0 /\ streamOwned[t] = 0 /\ Spoiled(t) = {}
      BY <2>1 DEF Init, Spoiled, PlacesOf
    <3>2. Cardinality(Spoiled(t)) = 0 BY <3>1, FS_EmptySet
    <3>3. QED BY <3>1, <3>2 DEF StreamsBounded, Unowned
  <2>2. Init => StreamInv BY <2>1 DEF Init, StreamInv
  <2>3. QED BY <2>2, TypeInit
<1>2. TypeInv /\ StreamInv /\ NoOverlap /\ [Next]_vars => TypeInv' /\ StreamInv'
  BY TypeStep, StreamStep
<1>3. TypeInv /\ NoOverlap /\ StreamInv => StreamsOnce
  <2>1. SUFFICES ASSUME TypeInv, NoOverlap, StreamInv, NEW t \in Tools
                 PROVE  streamLive[t] <= 1 + Cardinality(Spoiled(t)) + Cardinality(SpoiledNow(t))
    BY DEF StreamsOnce
  <2> DEFINE n == Cardinality(Spoiled(t))
  <2>2. /\ streamLive[t] \in Nat /\ streamOwned[t] \in {0, 1} /\ n \in Nat
        /\ registrations \in Seq(Registrations)
    <3>1. registrations \in Seq(Registrations) BY <2>1 DEF TypeInv, TypeOK
    <3>2. Spoiled(t) = PlacesIn(registrations, OfVersions(t, BadStreams))
      BY <3>1, PlacesOfTool DEF Spoiled
    <3>3. n \in Nat BY <3>1, <3>2, PlacesFinite
    <3>4. streamLive[t] \in Nat /\ streamOwned[t] \in {0, 1} BY <2>1 DEF TypeInv, TypeOK
    <3>5. QED BY <3>1, <3>3, <3>4
  <2>3. StreamsBounded(t) BY <2>1 DEF StreamInv
  <2>4. CASE \A h \in Handlers : ~SpoiledAt(h, t)
    <3>1. SpoiledNow(t) = {} BY <2>4 DEF SpoiledNow, Registering, SpoiledAt
    <3>2. streamLive[t] - streamOwned[t] <= n BY <2>3, <2>4 DEF StreamsBounded, Unowned
    <3>3. Cardinality(SpoiledNow(t)) = 0 BY <3>1, FS_EmptySet
    <3> HIDE DEF n
    <3>4. streamLive[t] <= 1 + n + 0 BY <2>2, <3>2
    <3>5. QED BY <3>3, <3>4 DEF n
  <2>5. CASE \E h \in Handlers : SpoiledAt(h, t)
    <3>1. PICK h \in Handlers : SpoiledAt(h, t) BY <2>5
    <3>2. \A g \in Handlers : arg[g] = t => g = h
      <4>1. t # None BY NodeToolsAssumption
      <4>2. QED BY <2>1, <3>1, <4>1 DEF NoOverlap, SpoiledAt
    <3>3. SpoiledNow(t) = {h} BY <3>1, <3>2 DEF SpoiledNow, Registering, SpoiledAt
    <3>4. streamLive[t] - streamOwned[t] <= n + 1 BY <2>3 DEF StreamsBounded, Unowned
    <3>5. Cardinality(SpoiledNow(t)) = 1 BY <3>3, FS_Singleton
    <3> HIDE DEF n
    <3>6. streamLive[t] <= 1 + n + 1 BY <2>2, <3>4
    <3>7. QED BY <3>5, <3>6 DEF n
  <2>6. QED BY <2>4, <2>5
<1>4. QED BY <1>1, <1>2, <1>3, PTL DEF Spec

-----------------------------------------------------------------------------
(* Processes and what is installed.                                        *)

\* A running tool is installed, and does not run when it is about to be removed
\* or is being installed.
RunInv ==
  /\ \A t \in Tools : running[t] => installed[t] # None
  /\ \A h \in Handlers :
       pc[h] \in {"install", "uninstall.unregister", "uninstall.streams", "uninstall.remove"}
         => ~running[arg[h]]

LEMMA RunStep ==
  ASSUME TypeInv, NoOverlap, NoOverlap', RunInv, [Next]_vars
  PROVE  RunInv'
<1> USE DEF managerVars, execVars, meshVars, streamVars, threadVars, Goto, Return, Begin
<1>1. /\ pc \in [Handlers -> Labels]
      /\ arg \in [Handlers -> Tools \cup {None}]
      /\ running \in [Tools -> BOOLEAN]
      /\ installed \in [Tools -> Versions \cup {None}]
  BY DEF TypeInv, TypeOK
<1>2. \A h \in Handlers : pc[h] # "idle" => arg[h] \in Tools /\ arg[h] # None
  BY NodeToolsAssumption DEF TypeInv, ThreadInv
<1>3. CASE UNCHANGED vars BY <1>3 DEF vars, RunInv
<1>4. ASSUME NEW h \in Handlers, RegisterStart(h) PROVE RunInv'
  <2>1. CASE arg[h] \notin Persistent BY <1>1, <1>4, <2>1 DEF RegisterStart, RunInv
  <2>2. CASE arg[h] \in Persistent
    <3>1. /\ running' = [running EXCEPT ![arg[h]] = TRUE]
          /\ installed[arg[h]] # None
          /\ installed' = installed
          /\ pc' = [pc EXCEPT ![h] = "streams"]
          /\ arg' = arg
      BY <1>4, <2>2 DEF RegisterStart, StartProcess
    <3>2. arg[h] \in Tools BY <1>2, <1>4 DEF RegisterStart
    <3>3. \A t \in Tools : running'[t] => installed'[t] # None
      BY <1>1, <3>1, <3>2 DEF RunInv
    <3>4. ASSUME NEW g \in Handlers,
                 pc'[g] \in {"install", "uninstall.unregister", "uninstall.streams", "uninstall.remove"}
          PROVE  ~running'[arg'[g]]
      <4>1. g # h /\ pc[g] = pc'[g] BY <1>1, <3>1, <3>4
      <4>2. arg[g] \in Tools /\ arg[g] # arg[h] BY <3>4, <4>1, OthersElsewhere
      <4>3. QED BY <1>1, <3>1, <3>4, <4>1, <4>2 DEF RunInv
    <3>5. QED BY <3>3, <3>4 DEF RunInv
  <2>3. QED BY <2>1, <2>2
<1>5. ASSUME NEW h \in Handlers,
             \/ RegisterStartFails(h) \/ RegisterDropStreams(h)
             \/ RegisterSubscribe(h)  \/ RegisterMesh(h)
      PROVE  RunInv'
  BY <1>1, <1>5
  DEF RegisterStartFails, RegisterDropStreams, RegisterSubscribe, RegisterMesh, RunInv
<1>6. ASSUME NEW h \in Handlers, NEW t \in Tools, InstallBegin(h, t) PROVE RunInv'
  BY <1>1, <1>6 DEF InstallBegin, RunInv
<1>7. ASSUME NEW h \in Handlers, NEW t \in Tools, InstallDuplicate(h, t) PROVE RunInv'
  BY <1>1, <1>7 DEF InstallDuplicate, RunInv
<1>8. ASSUME NEW h \in Handlers, InstallFails(h) PROVE RunInv'
  BY <1>1, <1>8 DEF InstallFails, RunInv
<1>9. ASSUME NEW h \in Handlers, InstallCommit(h) \/ UpdateLoad(h) PROVE RunInv'
  BY <1>1, <1>2, <1>9, NodeToolsAssumption DEF InstallCommit, UpdateLoad, RunInv
<1>10. ASSUME NEW h \in Handlers, NEW t \in Tools, UpdateBegin(h, t) PROVE RunInv'
  BY <1>1, <1>10 DEF UpdateBegin, RunInv
<1>11. ASSUME NEW h \in Handlers, UpdateStop(h) PROVE RunInv'
  BY <1>1, <1>2, <1>11 DEF UpdateStop, StopProcess, RunInv
<1>12. ASSUME NEW h \in Handlers, UpdateUnregister(h) PROVE RunInv'
  BY <1>1, <1>12 DEF UpdateUnregister, RunInv
<1>13. ASSUME NEW h \in Handlers, UpdateFails(h) PROVE RunInv'
  BY <1>1, <1>2, <1>13, NodeToolsAssumption DEF UpdateFails, RunInv
<1>14. ASSUME NEW h \in Handlers, NEW t \in Tools, UninstallStop(h, t) PROVE RunInv'
  <2>1. running' = [running EXCEPT ![t] = FALSE] \/ (running' = running /\ ~running[t])
    BY <1>14 DEF UninstallStop, StopProcess, RunInv
  <2>2. /\ pc' = [pc EXCEPT ![h] = "uninstall.unregister"]
        /\ arg' = [arg EXCEPT ![h] = t]
        /\ installed' = installed
    BY <1>14 DEF UninstallStop
  <2>3. \A u \in Tools : running'[u] => running[u] BY <1>1, <2>1
  <2>4. ~running'[t] BY <1>1, <2>1
  <2>5. QED BY <1>1, <1>2, <2>2, <2>3, <2>4 DEF RunInv
<1>15. ASSUME NEW h \in Handlers, UninstallUnregister(h) \/ UninstallStreams(h) PROVE RunInv'
  BY <1>1, <1>15 DEF UninstallUnregister, UninstallStreams, RunInv
<1>16. ASSUME NEW h \in Handlers, UninstallRemove(h) PROVE RunInv'
  BY <1>1, <1>2, <1>16 DEF UninstallRemove, RunInv
<1>17. ASSUME NEW h \in Handlers, NEW t \in Tools, ConfigBegin(h, t) PROVE RunInv'
  BY <1>1, <1>17 DEF ConfigBegin, RunInv
<1>18. ASSUME NEW h \in Handlers, ConfigStop(h) PROVE RunInv'
  BY <1>1, <1>2, <1>18 DEF ConfigStop, StopProcess, RunInv
<1>19. ASSUME NEW h \in Handlers, ConfigStart(h) PROVE RunInv'
  <2>1. CASE UNCHANGED execVars BY <1>1, <1>19, <2>1 DEF ConfigStart, RunInv
  <2>2. CASE StartProcess(arg[h])
    <3>1. /\ running' = [running EXCEPT ![arg[h]] = TRUE]
          /\ installed[arg[h]] # None
          /\ installed' = installed
          /\ pc' = [pc EXCEPT ![h] = "idle"]
          /\ arg' = [arg EXCEPT ![h] = None]
      BY <1>19, <2>2 DEF ConfigStart, StartProcess
    <3>2. arg[h] \in Tools BY <1>2, <1>19 DEF ConfigStart
    <3>3. \A t \in Tools : running'[t] => installed'[t] # None
      BY <1>1, <3>1, <3>2 DEF RunInv
    <3>4. ASSUME NEW g \in Handlers,
                 pc'[g] \in {"install", "uninstall.unregister", "uninstall.streams", "uninstall.remove"}
          PROVE  ~running'[arg'[g]]
      <4>1. g # h /\ pc[g] = pc'[g] /\ arg'[g] = arg[g] BY <1>1, <3>1, <3>4
      <4>2. arg[g] \in Tools /\ arg[g] # arg[h] BY <3>4, <4>1, OthersElsewhere
      <4>3. QED BY <1>1, <3>1, <3>4, <4>1, <4>2 DEF RunInv
    <3>5. QED BY <3>3, <3>4 DEF RunInv
  <2>3. QED BY <1>19, <2>1, <2>2 DEF ConfigStart
<1>20. ASSUME NEW t \in Tools, CallFails(t) PROVE RunInv'
  BY <1>1, <1>2, <1>20 DEF CallFails, RunInv
<1>21. CASE Reconnect BY <1>21 DEF Reconnect, RunInv
<1>22. QED
  BY <1>3, <1>4, <1>5, <1>6, <1>7, <1>8, <1>9, <1>10, <1>11, <1>12, <1>13, <1>14, <1>15,
     <1>16, <1>17, <1>18, <1>19, <1>20, <1>21
  DEF Next, RegisterStep, InstallStep, UpdateStep, UninstallStep, ConfigStep

\* As long as no two requests for one tool overlap, RunningIsInstalled holds:
\* an uninstall leaves no process behind.
THEOREM NoOrphanProcess == Spec /\ []NoOverlap => []RunningIsInstalled
<1>1. Init => TypeInv /\ RunInv
  <2>1. Init => RunInv BY DEF Init, RunInv
  <2>2. QED BY <2>1, TypeInit
<1>2. TypeInv /\ RunInv /\ NoOverlap /\ NoOverlap' /\ [Next]_vars => TypeInv' /\ RunInv'
  BY TypeStep, RunStep
<1>3. RunInv => RunningIsInstalled BY DEF RunInv, RunningIsInstalled
<1>4. QED BY <1>1, <1>2, <1>3, PTL DEF Spec

-----------------------------------------------------------------------------
(* What a tool is served as.                                               *)

\* Where a handler is between taking a tool's service away, or finding none,
\* and registering the next.
Unserved == {"install", "update.load", "register", "streams", "subscribe", "mesh",
             "uninstall.streams", "uninstall.remove"}

\* Before any reconnect a tool has one service at most, of the installed
\* version, and one node-targeted subscription at most; neither while a handler
\* is between two; and the version a handler registers is the installed one.
ToolServed(t) ==
  /\ \A i \in PlacesOf(services, t) : services[i].version = installed[t]
  /\ \A i, j \in PlacesOf(services, t) : i = j
  /\ nodeSubs[t] <= 1
  /\ installed[t] = None => nodeSubs[t] = 0

HandlerServes(h) ==
  /\ pc[h] \in Unserved => PlacesOf(services, arg[h]) = {} /\ nodeSubs[arg[h]] = 0
  /\ pc[h] \in {"register", "streams", "subscribe", "mesh"} => ver[h] = installed[arg[h]]

ServedInv ==
  /\ \A t \in Tools : ToolServed(t)
  /\ \A h \in Handlers : HandlerServes(h)

\* A handler g at another tool than the one that h changes keeps its part.
LEMMA OtherServes ==
  ASSUME TypeInv, NoOverlap, ServedInv, NEW h \in Handlers, NEW g \in Handlers, g # h,
         pc'[g] = pc[g], arg'[g] = arg[g], ver'[g] = ver[g],
         NEW t \in Tools, arg[h] = t \/ arg'[h] = t, NoOverlap',
         \A u \in Tools : u # t =>
           /\ installed'[u] = installed[u]
           /\ PlacesOf(services, u) = {} => PlacesOf(services', u) = {}
           /\ nodeSubs[u] = 0 => nodeSubs'[u] = 0
  PROVE  HandlerServes(g)'
<1>1. CASE pc[g] = "idle" BY <1>1 DEF HandlerServes, Unserved
<1>2. CASE pc[g] # "idle"
  <2>1. arg[g] \in Tools /\ arg[g] # None BY <1>2, NodeToolsAssumption DEF TypeInv, ThreadInv
  <2>2. arg[g] # t BY <2>1 DEF NoOverlap
  <2>3. HandlerServes(g) BY DEF ServedInv
  <2>4. /\ installed'[arg[g]] = installed[arg[g]]
        /\ PlacesOf(services, arg[g]) = {} => PlacesOf(services', arg[g]) = {}
        /\ nodeSubs[arg[g]] = 0 => nodeSubs'[arg[g]] = 0
    BY <2>1, <2>2
  <2>5. QED BY <2>3, <2>4 DEF HandlerServes
<1>3. QED BY <1>1, <1>2

\* A registration, of a tool that has no service and no subscription.
LEMMA ServedRegister ==
  ASSUME TypeInv, ServedInv, NEW t \in Tools, NEW v \in Versions,
         RegisterTool(t, v), UNCHANGED installed,
         PlacesOf(services, t) = {}, nodeSubs[t] = 0, v = installed[t]
  PROVE  /\ \A u \in Tools : ToolServed(u)'
         /\ \A u \in Tools : u # t => /\ PlacesOf(services', u) = PlacesOf(services, u)
                                     /\ nodeSubs'[u] = nodeSubs[u]
<1>1. services \in Seq(Registrations) /\ nodeSubs \in [Tools -> Nat]
  BY DEF TypeInv, TypeOK
<1>2. /\ nodeSubs'[t] <= 1
      /\ \A u \in Tools : u # t => nodeSubs'[u] = nodeSubs[u]
  <2>1. CASE v \in Rejected BY <2>1 DEF RegisterTool
  <2>2. CASE v \notin Rejected
    <3>1. PICK made \in 0 .. 1 : nodeSubs' = [nodeSubs EXCEPT ![t] = nodeSubs[t] + made]
      BY <2>2 DEF RegisterTool, SubscribeNode
    <3>2. nodeSubs'[t] = made BY <1>1, <3>1
    <3>3. QED BY <1>1, <3>1, <3>2
  <2>3. QED BY <2>1, <2>2
<1>3. installed'[t] # None BY NodeToolsAssumption
<1>4. CASE v \in Rejected \cup BadMethods
  <2>1. services' = services BY <1>4 DEF RegisterTool
  <2>2. QED BY <1>2, <1>3, <2>1 DEF ServedInv, ToolServed
<1>5. CASE v \notin Rejected \cup BadMethods
  <2> DEFINE r == Registration(t, v)
             n == Len(services) + 1
  <2>1. r \in Registrations /\ r.tool = t /\ r.version = v BY DEF Registration, Registrations
  <2>2. services' = Append(services, r) BY <1>5 DEF RegisterTool
  <2> HIDE DEF r
  <2>3. /\ Len(services) \in Nat
        /\ DOMAIN services = 1 .. Len(services)
        /\ DOMAIN services' = 1 .. n
        /\ services'[n] = r
        /\ \A i \in 1 .. Len(services) : services'[i] = services[i]
    BY <1>1, <2>1, <2>2
  <2>4. PlacesOf(services', t) = {n}
    <3>1. n \in PlacesOf(services', t) BY <2>1, <2>3 DEF PlacesOf
    <3>2. ASSUME NEW i \in PlacesOf(services', t) PROVE i = n
      <4>1. i \in 1 .. n /\ services'[i].tool = t BY <2>3 DEF PlacesOf
      <4>2. i \notin PlacesOf(services, t) OBVIOUS
      <4>3. QED BY <2>3, <4>1, <4>2 DEF PlacesOf
    <3>3. QED BY <3>1, <3>2
  <2>5. ASSUME NEW u \in Tools, u # t
        PROVE  /\ PlacesOf(services', u) = PlacesOf(services, u)
               /\ \A i \in PlacesOf(services, u) : services'[i] = services[i]
    <3>1. \A i \in PlacesOf(services, u) : i \in 1 .. n /\ services'[i] = services[i]
      BY <2>3 DEF PlacesOf
    <3>2. PlacesOf(services, u) \subseteq PlacesOf(services', u)
      BY <2>3, <3>1 DEF PlacesOf
    <3>3. ASSUME NEW i \in PlacesOf(services', u) PROVE i \in PlacesOf(services, u)
      <4>1. i \in 1 .. n /\ services'[i].tool = u BY <2>3 DEF PlacesOf
      <4>2. i # n BY <2>1, <2>3, <2>5, <4>1
      <4>3. i \in 1 .. Len(services) BY <2>3, <4>1, <4>2
      <4>4. QED BY <2>3, <4>1, <4>3 DEF PlacesOf
    <3>4. QED BY <3>1, <3>2, <3>3
  <2>6. ToolServed(t)'
    <3>1. services'[n].version = installed'[t] BY <2>1, <2>3
    <3>2. QED BY <1>2, <1>3, <2>4, <3>1 DEF ToolServed
  <2>7. ASSUME NEW u \in Tools, u # t PROVE ToolServed(u)'
    <3>1. nodeSubs'[u] = nodeSubs[u] BY <1>2, <2>7
    <3>2. ToolServed(u) BY DEF ServedInv
    <3>3. QED BY <2>5, <2>7, <3>1, <3>2 DEF ToolServed
  <2>8. QED BY <1>2, <2>5, <2>6, <2>7
<1>6. QED BY <1>4, <1>5

\* An unregistration leaves the tool without a service.
LEMMA ServedUnregister ==
  ASSUME TypeInv, ServedInv, NEW t \in Tools, UnregisterTool(t), UNCHANGED installed
  PROVE  /\ \A u \in Tools : ToolServed(u)'
         /\ PlacesOf(services', t) = {} /\ nodeSubs'[t] = 0
         /\ \A u \in Tools : /\ PlacesOf(services, u) = {} => PlacesOf(services', u) = {}
                             /\ nodeSubs[u] = 0 => nodeSubs'[u] = 0
<1>1. services \in Seq(Registrations) /\ nodeSubs \in [Tools -> Nat]
  BY DEF TypeInv, TypeOK
<1>2. nodeSubs' = [nodeSubs EXCEPT ![t] = 0] BY UnregisterTakes DEF TypeInv
<1>0. /\ nodeSubs'[t] = 0
      /\ \A u \in Tools : u # t => nodeSubs'[u] = nodeSubs[u]
  BY <1>1, <1>2
<1>3. CASE services' = services /\ ServicesOf(t) = {}
  <2>1. PlacesOf(services, t) = {} BY <1>3 DEF ServicesOf
  <2>2. \A u \in Tools : nodeSubs'[u] <= nodeSubs[u] /\ nodeSubs'[u] \in Nat
    BY <1>1, <1>2
  <2>3. \A u \in Tools : nodeSubs[u] = 0 => nodeSubs'[u] = 0 BY <1>0
  <2>4. ASSUME NEW u \in Tools PROVE ToolServed(u)'
    <3>1. ToolServed(u) BY DEF ServedInv
    <3>2. nodeSubs'[u] <= 1
      <4>1. nodeSubs[u] <= 1 /\ nodeSubs[u] \in Nat BY <1>1, <3>1 DEF ToolServed
      <4>2. QED BY <2>2, <4>1
    <3>3. QED BY <1>3, <2>3, <3>1, <3>2 DEF ToolServed
  <2>5. QED BY <1>0, <1>3, <2>1, <2>3, <2>4
<1>4. ASSUME NEW g \in ServicesOf(t), services' = RemoveAt(services, g)
      PROVE  /\ \A u \in Tools : ToolServed(u)'
             /\ PlacesOf(services', t) = {} /\ nodeSubs'[t] = 0
             /\ \A u \in Tools : /\ PlacesOf(services, u) = {} => PlacesOf(services', u) = {}
                                 /\ nodeSubs[u] = 0 => nodeSubs'[u] = 0
  <2>1. g \in PlacesOf(services, t) /\ g \in 1 .. Len(services) /\ services[g].tool = t
    BY <1>1 DEF ServicesOf, PlacesOf
  <2>2. /\ services' \in Seq(Registrations)
        /\ Len(services') = Len(services) - 1
        /\ \A j \in 1 .. (Len(services) - 1) :
             services'[j] = IF j < g THEN services[j] ELSE services[j + 1]
    BY <1>1, <1>4, <2>1, RemoveAtType
  <2>3. Len(services) \in Nat /\ DOMAIN services = 1 .. Len(services)
        /\ DOMAIN services' = 1 .. (Len(services) - 1)
    BY <1>1, <2>2
  <2> DEFINE old(j) == IF j < g THEN j ELSE j + 1
  <2>4. ASSUME NEW u, NEW j \in PlacesOf(services', u)
        PROVE  /\ j \in 1 .. (Len(services) - 1)
               /\ old(j) \in PlacesOf(services, u)
               /\ services'[j] = services[old(j)]
               /\ old(j) # g
    <3>1. j \in 1 .. (Len(services) - 1) /\ services'[j].tool = u BY <2>3 DEF PlacesOf
    <3>2. old(j) \in 1 .. Len(services) /\ old(j) # g BY <2>1, <2>3, <3>1
    <3>3. services'[j] = services[old(j)] BY <2>2, <3>1
    <3>4. QED BY <2>3, <3>1, <3>2, <3>3 DEF PlacesOf
  <2>5. \A i, j \in 1 .. (Len(services) - 1) : old(i) = old(j) => i = j BY <2>1, <2>3
  <2> HIDE DEF old
  <2>6. PlacesOf(services', t) = {}
    <3>1. \A i \in PlacesOf(services, t) : i = g BY <2>1 DEF ServedInv, ToolServed
    <3>2. \A j \in PlacesOf(services', t) : FALSE BY <2>4, <3>1
    <3>3. QED BY <3>2
  <2>7. ToolServed(t)'
    <3>1. nodeSubs'[t] = 0 /\ nodeSubs'[t] <= 1 BY <1>0
    <3>2. QED BY <2>6, <3>1 DEF ToolServed
  <2>8. ASSUME NEW u \in Tools, u # t PROVE ToolServed(u)'
    <3>1. nodeSubs'[u] = nodeSubs[u] BY <1>1, <1>2, <2>8
    <3>2. ToolServed(u) BY DEF ServedInv
    <3>3. \A i \in PlacesOf(services', u) : services'[i].version = installed'[u]
      BY <2>4, <3>2 DEF ToolServed
    <3>4. \A i, j \in PlacesOf(services', u) : i = j
      BY <2>4, <2>5, <3>2 DEF ToolServed
    <3>5. QED BY <3>1, <3>2, <3>3, <3>4 DEF ToolServed
  <2>9. \A u \in Tools : PlacesOf(services, u) = {} => PlacesOf(services', u) = {}
    BY <2>4
  <2>10. QED BY <1>0, <2>6, <2>7, <2>8, <2>9
<1>5. QED BY <1>3, <1>4, UnregisterTakes DEF TypeInv

LEMMA ServedStep ==
  ASSUME TypeInv, NoOverlap, NoOverlap', NeverReconnected', ServedInv, [Next]_vars
  PROVE  ServedInv'
<1> USE DEF managerVars, execVars, meshVars, streamVars, threadVars, Goto, Return, Begin
<1>1. /\ pc \in [Handlers -> Labels]
      /\ arg \in [Handlers -> Tools \cup {None}]
      /\ ver \in [Handlers -> Versions \cup {None}]
      /\ installed \in [Tools -> Versions \cup {None}]
      /\ services \in Seq(Registrations)
  BY DEF TypeInv, TypeOK
<1>2. \A h \in Handlers : pc[h] # "idle" => arg[h] \in Tools
  BY DEF TypeInv, ThreadInv
<1>3. \A t \in Tools : ToolServed(t) BY DEF ServedInv
<1>4. \A h \in Handlers : HandlerServes(h) BY DEF ServedInv
<1>5. CASE UNCHANGED vars BY <1>5 DEF vars, ServedInv, ToolServed, HandlerServes
\* Steps that leave the services and what is installed alone.
<1>6. ASSUME UNCHANGED <<installed, services, nodeSubs>>,
             \A h \in Handlers : HandlerServes(h)'
      PROVE  ServedInv'
  BY <1>3, <1>6 DEF ServedInv, ToolServed
<1>7. ASSUME NEW h \in Handlers,
             \/ RegisterStart(h) \/ RegisterStartFails(h)
             \/ RegisterDropStreams(h) \/ RegisterSubscribe(h)
      PROVE  ServedInv'
  <2>1. UNCHANGED <<installed, services, nodeSubs>>
    BY <1>7 DEF RegisterStart, RegisterStartFails, RegisterDropStreams, RegisterSubscribe
  <2>2. \A g \in Handlers : HandlerServes(g)'
    BY <1>1, <1>4, <1>7, <2>1
    DEF RegisterStart, RegisterStartFails, RegisterDropStreams, RegisterSubscribe,
        HandlerServes, Unserved
  <2>3. QED BY <1>6, <2>1, <2>2
<1>8. ASSUME NEW h \in Handlers, RegisterMesh(h) PROVE ServedInv'
  <2> DEFINE t == arg[h]
             v == ver[h]
  <2>1. /\ t \in Tools
        /\ v \in Versions
        /\ PlacesOf(services, t) = {} /\ nodeSubs[t] = 0
        /\ v = installed[t]
    BY <1>2, <1>4, <1>8 DEF RegisterMesh, HandlerServes, Unserved, TypeInv, ThreadInv
  <2>2. RegisterTool(t, v) /\ UNCHANGED installed BY <1>8 DEF RegisterMesh
  <2>3. /\ \A u \in Tools : ToolServed(u)'
        /\ \A u \in Tools : u # t => /\ PlacesOf(services', u) = PlacesOf(services, u)
                                    /\ nodeSubs'[u] = nodeSubs[u]
    BY <2>1, <2>2, ServedRegister
  <2>4. /\ pc' = [pc EXCEPT ![h] = "idle"]
        /\ arg' = [arg EXCEPT ![h] = None]
        /\ ver' = [ver EXCEPT ![h] = None]
    BY <1>8 DEF RegisterMesh
  <2>5. HandlerServes(h)' BY <1>1, <2>4 DEF HandlerServes, Unserved
  <2>6. ASSUME NEW g \in Handlers, g # h PROVE HandlerServes(g)'
    <3>1. pc'[g] = pc[g] /\ arg'[g] = arg[g] /\ ver'[g] = ver[g] BY <1>1, <2>4, <2>6
    <3>2. \A u \in Tools : u # t =>
            /\ installed'[u] = installed[u]
            /\ PlacesOf(services, u) = {} => PlacesOf(services', u) = {}
            /\ nodeSubs[u] = 0 => nodeSubs'[u] = 0
      BY <2>2, <2>3
    <3>3. QED BY <2>1, <2>6, <3>1, <3>2, OtherServes
  <2>7. QED BY <2>3, <2>5, <2>6 DEF ServedInv
<1>9. ASSUME NEW h \in Handlers, NEW t \in Tools, InstallBegin(h, t) PROVE ServedInv'
  <2>1. UNCHANGED <<installed, services, nodeSubs>> BY <1>9 DEF InstallBegin
  <2>2. PlacesOf(services, t) = {} /\ nodeSubs[t] = 0
    <3>1. installed[t] = None BY <1>9 DEF InstallBegin
    <3>2. \A i \in PlacesOf(services, t) : services[i].version \in Versions
      <4>1. \A i \in DOMAIN services : services[i] \in Registrations BY <1>1
      <4>2. QED BY <4>1 DEF PlacesOf, Registrations
    <3>3. QED BY <1>3, <3>1, <3>2, NodeToolsAssumption DEF ToolServed
  <2>3. \A g \in Handlers : HandlerServes(g)'
    BY <1>1, <1>4, <1>9, <2>1, <2>2 DEF InstallBegin, HandlerServes, Unserved
  <2>4. QED BY <1>6, <2>1, <2>3
<1>10. ASSUME NEW h \in Handlers, NEW t \in Tools, InstallDuplicate(h, t) PROVE ServedInv'
  <2>1. UNCHANGED <<installed, services, nodeSubs, pc, arg, ver>> BY <1>10 DEF InstallDuplicate
  <2>2. QED BY <1>3, <1>4, <2>1 DEF ServedInv, ToolServed, HandlerServes
<1>11. ASSUME NEW h \in Handlers, InstallFails(h) PROVE ServedInv'
  <2>1. UNCHANGED <<installed, services, nodeSubs>> BY <1>11 DEF InstallFails
  <2>2. \A g \in Handlers : HandlerServes(g)'
    BY <1>1, <1>4, <1>11, <2>1 DEF InstallFails, HandlerServes, Unserved
  <2>3. QED BY <1>6, <2>1, <2>2
\* A new version is installed while nothing is served.
<1>12. ASSUME NEW h \in Handlers, pc[h] \in Unserved, UNCHANGED <<services, nodeSubs>>,
              \A u \in Tools : u # arg[h] => installed'[u] = installed[u],
              \A g \in Handlers : g # h => pc'[g] = pc[g] /\ arg'[g] = arg[g] /\ ver'[g] = ver[g],
              HandlerServes(h)'
       PROVE  ServedInv'
  <2>1. arg[h] \in Tools /\ PlacesOf(services, arg[h]) = {} /\ nodeSubs[arg[h]] = 0
    BY <1>2, <1>4, <1>12 DEF HandlerServes, Unserved
  <2>2. ASSUME NEW u \in Tools PROVE ToolServed(u)'
    <3>1. CASE u = arg[h] BY <1>3, <1>12, <2>1, <3>1 DEF ToolServed
    <3>2. CASE u # arg[h] BY <1>3, <1>12, <3>2 DEF ToolServed
    <3>3. QED BY <3>1, <3>2
  <2>3. ASSUME NEW g \in Handlers, g # h PROVE HandlerServes(g)'
    BY <1>12, <2>1, <2>3, OtherServes
  <2>4. QED BY <1>12, <2>2, <2>3 DEF ServedInv
<1>13. ASSUME NEW h \in Handlers, InstallCommit(h) \/ UpdateLoad(h) PROVE ServedInv'
  <2>1. PICK v \in Versions : /\ installed' = [installed EXCEPT ![arg[h]] = v]
                              /\ ver' = [ver EXCEPT ![h] = v]
    BY <1>13 DEF InstallCommit, UpdateLoad
  <2>2. /\ pc[h] \in Unserved
        /\ pc' = [pc EXCEPT ![h] = "register"]
        /\ arg' = arg
        /\ UNCHANGED <<services, nodeSubs>>
    BY <1>13 DEF InstallCommit, UpdateLoad, Unserved
  <2>3. arg[h] \in Tools /\ PlacesOf(services, arg[h]) = {} /\ nodeSubs[arg[h]] = 0
    BY <1>2, <1>4, <2>2 DEF HandlerServes, Unserved
  <2>4. /\ ver'[h] = installed'[arg'[h]]
        /\ PlacesOf(services', arg'[h]) = {} /\ nodeSubs'[arg'[h]] = 0
    BY <1>1, <2>1, <2>2, <2>3
  <2>5. HandlerServes(h)' BY <2>4 DEF HandlerServes
  <2>6. QED BY <1>1, <1>12, <2>1, <2>2, <2>5
<1>14. ASSUME NEW h \in Handlers, NEW t \in Tools, UpdateBegin(h, t) PROVE ServedInv'
  <2>1. UNCHANGED <<installed, services, nodeSubs>> BY <1>14 DEF UpdateBegin
  <2>2. \A g \in Handlers : HandlerServes(g)'
    BY <1>1, <1>4, <1>14, <2>1 DEF UpdateBegin, HandlerServes, Unserved
  <2>3. QED BY <1>6, <2>1, <2>2
<1>15. ASSUME NEW h \in Handlers, UpdateStop(h) PROVE ServedInv'
  <2>1. UNCHANGED <<installed, services, nodeSubs>> BY <1>15 DEF UpdateStop
  <2>2. \A g \in Handlers : HandlerServes(g)'
    BY <1>1, <1>4, <1>15, <2>1 DEF UpdateStop, HandlerServes, Unserved
  <2>3. QED BY <1>6, <2>1, <2>2
<1>16. ASSUME NEW h \in Handlers, UpdateUnregister(h) \/ UninstallUnregister(h)
       PROVE  ServedInv'
  <2> DEFINE t == arg[h]
  <2>1. t \in Tools BY <1>2, <1>16 DEF UpdateUnregister, UninstallUnregister
  <2>2. UnregisterTool(t) /\ UNCHANGED <<installed, arg, ver>>
    BY <1>16 DEF UpdateUnregister, UninstallUnregister
  <2>3. \/ pc' = [pc EXCEPT ![h] = "update.load"]
        \/ pc' = [pc EXCEPT ![h] = "uninstall.streams"]
    BY <1>16 DEF UpdateUnregister, UninstallUnregister
  <2>4. /\ \A u \in Tools : ToolServed(u)'
        /\ PlacesOf(services', t) = {} /\ nodeSubs'[t] = 0
        /\ \A u \in Tools : /\ PlacesOf(services, u) = {} => PlacesOf(services', u) = {}
                            /\ nodeSubs[u] = 0 => nodeSubs'[u] = 0
    BY <2>1, <2>2, ServedUnregister
  <2>5. HandlerServes(h)' BY <1>1, <2>2, <2>3, <2>4 DEF HandlerServes
  <2>6. ASSUME NEW g \in Handlers, g # h PROVE HandlerServes(g)'
    <3>1. pc'[g] = pc[g] /\ arg'[g] = arg[g] /\ ver'[g] = ver[g] BY <1>1, <2>2, <2>3, <2>6
    <3>2. \A u \in Tools : u # t =>
            /\ installed'[u] = installed[u]
            /\ PlacesOf(services, u) = {} => PlacesOf(services', u) = {}
            /\ nodeSubs[u] = 0 => nodeSubs'[u] = 0
      BY <2>2, <2>4
    <3>3. QED BY <2>1, <2>6, <3>1, <3>2, OtherServes
  <2>7. QED BY <2>4, <2>5, <2>6 DEF ServedInv
<1>17. ASSUME NEW h \in Handlers, UpdateFails(h) \/ UninstallRemove(h) PROVE ServedInv'
  <2>1. /\ pc[h] \in Unserved
        /\ pc' = [pc EXCEPT ![h] = "idle"]
        /\ arg' = [arg EXCEPT ![h] = None]
        /\ ver' = [ver EXCEPT ![h] = None]
        /\ UNCHANGED <<services, nodeSubs>>
    BY <1>17 DEF UpdateFails, UninstallRemove, Unserved
  <2>2. \A u \in Tools : u # arg[h] => installed'[u] = installed[u]
    BY <1>1, <1>17 DEF UpdateFails, UninstallRemove
  <2>3. HandlerServes(h)' BY <1>1, <2>1 DEF HandlerServes, Unserved
  <2>4. \A g \in Handlers : g # h => pc'[g] = pc[g] /\ arg'[g] = arg[g] /\ ver'[g] = ver[g]
    BY <1>1, <2>1
  <2>5. QED BY <1>12, <2>1, <2>2, <2>3, <2>4
<1>18. ASSUME NEW h \in Handlers, NEW t \in Tools, UninstallStop(h, t) PROVE ServedInv'
  <2>1. UNCHANGED <<installed, services, nodeSubs>> BY <1>18 DEF UninstallStop
  <2>2. \A g \in Handlers : HandlerServes(g)'
    BY <1>1, <1>4, <1>18, <2>1 DEF UninstallStop, HandlerServes, Unserved
  <2>3. QED BY <1>6, <2>1, <2>2
<1>19. ASSUME NEW h \in Handlers, UninstallStreams(h) PROVE ServedInv'
  <2>1. UNCHANGED <<installed, services, nodeSubs>> BY <1>19 DEF UninstallStreams
  <2>2. \A g \in Handlers : HandlerServes(g)'
    BY <1>1, <1>4, <1>19, <2>1 DEF UninstallStreams, HandlerServes, Unserved
  <2>3. QED BY <1>6, <2>1, <2>2
<1>20. ASSUME NEW h \in Handlers, NEW t \in Tools, ConfigBegin(h, t) PROVE ServedInv'
  <2>1. UNCHANGED <<installed, services, nodeSubs>> BY <1>20 DEF ConfigBegin
  <2>2. \A g \in Handlers : HandlerServes(g)'
    BY <1>1, <1>4, <1>20, <2>1 DEF ConfigBegin, HandlerServes, Unserved
  <2>3. QED BY <1>6, <2>1, <2>2
<1>21. ASSUME NEW h \in Handlers, ConfigStop(h) \/ ConfigStart(h) PROVE ServedInv'
  <2>1. UNCHANGED <<installed, services, nodeSubs>> BY <1>21 DEF ConfigStop, ConfigStart
  <2>2. \A g \in Handlers : HandlerServes(g)'
    BY <1>1, <1>4, <1>21, <2>1 DEF ConfigStop, ConfigStart, HandlerServes, Unserved
  <2>3. QED BY <1>6, <2>1, <2>2
<1>22. ASSUME NEW t \in Tools, CallFails(t) PROVE ServedInv'
  <2>1. UNCHANGED <<installed, services, nodeSubs, pc, arg, ver>> BY <1>22 DEF CallFails
  <2>2. QED BY <1>3, <1>4, <2>1 DEF ServedInv, ToolServed, HandlerServes
<1>23. ASSUME Reconnect PROVE FALSE
  <2>1. reconnects \in Nat /\ reconnects' = reconnects + 1 BY <1>23 DEF Reconnect, TypeInv, TypeOK
  <2>2. QED BY <2>1 DEF NeverReconnected
<1>24. QED
  BY <1>5, <1>7, <1>8, <1>9, <1>10, <1>11, <1>13, <1>14, <1>15, <1>16, <1>17, <1>18, <1>19,
     <1>20, <1>21, <1>22, <1>23
  DEF Next, RegisterStep, InstallStep, UpdateStep, UninstallStep, ConfigStep

LEMMA ServedInit == Init => ServedInv
<1>1. SUFFICES ASSUME Init PROVE ServedInv
  OBVIOUS
<1>2. \A t : PlacesOf(services, t) = {}
  <2>1. DOMAIN services = {} BY <1>1 DEF Init
  <2>2. QED BY <2>1 DEF PlacesOf
<1>3. \A t \in Tools : ToolServed(t)
  <2>1. \A t \in Tools : nodeSubs[t] = 0 /\ nodeSubs[t] <= 1 BY <1>1 DEF Init
  <2>2. QED BY <1>2, <2>1 DEF ToolServed
<1>4. \A h \in Handlers : HandlerServes(h) BY <1>1 DEF Init, HandlerServes, Unserved
<1>5. QED BY <1>3, <1>4 DEF ServedInv

\* ServedInv holds as long as no two requests for one tool overlap and the
\* connection is never lost.
THEOREM ServedAlways ==
  Spec /\ []NoOverlap /\ []NeverReconnected => [](TypeInv /\ ServedInv)
<1>1. Init => TypeInv /\ ServedInv BY TypeInit, ServedInit
<1>2. /\ TypeInv /\ ServedInv
      /\ NoOverlap /\ NoOverlap' /\ NeverReconnected' /\ [Next]_vars
      => TypeInv' /\ ServedInv'
  BY TypeStep, ServedStep
<1>3. QED BY <1>1, <1>2, PTL DEF Spec

\* Under the same conditions a tool is served once at most, at the version that
\* is installed, and not at all once it is uninstalled.
THEOREM ServedOnceAsInstalled ==
  Spec /\ []NoOverlap /\ []NeverReconnected => []ServedAsInstalled
<1>1. TypeInv /\ ServedInv => ServedAsInstalled
  <2>1. SUFFICES ASSUME TypeInv, ServedInv PROVE ServedAsInstalled
    OBVIOUS
  <2>2. \A t : ServicesOf(t) = PlacesOf(services, t) BY DEF ServicesOf
  <2>3. \A t \in Tools : ToolServed(t) BY <2>1 DEF ServedInv
  <2>4. ASSUME NEW t \in Tools PROVE Cardinality(ServicesOf(t)) <= 1
    <3>1. CASE PlacesOf(services, t) = {} BY <2>2, <3>1, FS_EmptySet
    <3>2. CASE PlacesOf(services, t) # {}
      <4>1. PICK i : PlacesOf(services, t) = {i}
        <5>1. PICK i : i \in PlacesOf(services, t) BY <3>2
        <5>2. \A j \in PlacesOf(services, t) : j = i BY <2>3, <5>1 DEF ToolServed
        <5>3. PlacesOf(services, t) = {i} BY <5>1, <5>2
        <5>4. QED BY <5>3
      <4>2. Cardinality({i}) = 1 BY FS_Singleton
      <4>3. QED BY <2>2, <4>1, <4>2
    <3>3. QED BY <3>1, <3>2
  <2>5. QED BY <2>2, <2>3, <2>4 DEF ServedAsInstalled, ToolServed
<1>2. QED BY ServedAlways, <1>1, PTL

\* Under the same conditions a tool has one node-targeted subscription at most,
\* and none once it is uninstalled: a call sent to this node runs once, whatever
\* registrations were given up half-way.
THEOREM CallsRunOnce ==
  Spec /\ []NoOverlap /\ []NeverReconnected => []NodeCallsRunOnce
<1>1. TypeInv /\ ServedInv => NodeCallsRunOnce
  BY DEF ServedInv, ToolServed, NodeCallsRunOnce
<1>2. QED BY ServedAlways, <1>1, PTL

-----------------------------------------------------------------------------
(* What the process of a served tool runs.                                 *)

\* A tool whose process was started by the handler that is to register it, or
\* that is served, runs the installed version; only persistent tools run.
Served(t) ==
  \/ PlacesOf(services, t) # {}
  \/ \E h \in Handlers : pc[h] \in {"streams", "subscribe", "mesh"} /\ arg[h] = t

RunsInv ==
  /\ \A t \in Tools : running[t] => t \in Persistent
  /\ \A t \in Tools : running[t] /\ Served(t) => code[t] = installed[t]
  /\ \A h \in Handlers : pc[h] \in {"config.stop", "config.start"} => arg[h] \in Persistent

\* A step that starts no process, loads no version and brings no tool closer to
\* being served.
LEMMA RunsKept ==
  ASSUME TypeInv, RunsInv, UNCHANGED <<installed, code>>,
         \A t \in Tools : running'[t] => running[t],
         \A t \in Tools : Served(t)' => Served(t),
         \A h \in Handlers : pc'[h] \in {"config.stop", "config.start"} => arg'[h] \in Persistent
  PROVE  RunsInv'
<1>1. ASSUME NEW t \in Tools, running'[t], Served(t)' PROVE code'[t] = installed'[t]
  BY <1>1 DEF RunsInv
<1>2. QED BY <1>1 DEF RunsInv

\* A process that starts runs what is installed.
LEMMA RunsStart ==
  ASSUME TypeInv, RunsInv, NEW t \in Persistent, StartProcess(t), UNCHANGED installed,
         \A u \in Tools : u # t => (Served(u)' => Served(u)),
         \A h \in Handlers : pc'[h] \in {"config.stop", "config.start"} => arg'[h] \in Persistent
  PROVE  RunsInv'
<1>1. /\ running \in [Tools -> BOOLEAN]
      /\ code \in [Tools -> Versions \cup {None}]
      /\ t \in Tools
  BY NodeToolsAssumption DEF TypeInv, TypeOK
<1>2. /\ running' = [running EXCEPT ![t] = TRUE]
      /\ code' = [code EXCEPT ![t] = installed[t]]
  BY DEF StartProcess
<1>3. ASSUME NEW u \in Tools, running'[u], Served(u)' PROVE code'[u] = installed'[u]
  <2>1. CASE u = t BY <1>1, <1>2, <2>1
  <2>2. CASE u # t
    <3>1. running[u] /\ code'[u] = code[u] BY <1>1, <1>2, <1>3, <2>2
    <3>2. QED BY <1>3, <2>2, <3>1 DEF RunsInv
  <2>3. QED BY <2>1, <2>2
<1>4. \A u \in Tools : running'[u] => u \in Persistent BY <1>1, <1>2 DEF RunsInv
<1>5. QED BY <1>3, <1>4 DEF RunsInv

\* A version that is loaded or removed is that of a tool that is not served.
LEMMA RunsLoad ==
  ASSUME TypeInv, NoOverlap, ServedInv, RunsInv, UNCHANGED <<running, code, services>>,
         NEW h \in Handlers,
         pc[h] \in {"install", "update.load", "uninstall.remove"},
         pc'[h] \in {"register", "idle"},
         \A u \in Tools : u # arg[h] => installed'[u] = installed[u],
         \A g \in Handlers : g # h => pc'[g] = pc[g] /\ arg'[g] = arg[g]
  PROVE  RunsInv'
<1>1. PICK t \in Tools : t = arg[h] BY DEF TypeInv, ThreadInv
<1>2. PlacesOf(services, t) = {} BY <1>1 DEF ServedInv, HandlerServes, Unserved
<1>3. ~Served(t)'
  <2>1. ASSUME NEW g \in Handlers, pc'[g] \in {"streams", "subscribe", "mesh"}, arg'[g] = t
        PROVE  FALSE
    <3>1. g # h /\ pc[g] # "idle" /\ arg[g] = arg[h] BY <1>1, <2>1
    <3>2. QED BY <3>1, OthersElsewhere
  <2>2. QED BY <1>2, <2>1 DEF Served
<1>4. ASSUME NEW u \in Tools, u # t, Served(u)' PROVE Served(u)
  BY <1>1, <1>4 DEF Served
<1>5. ASSUME NEW u \in Tools, running'[u], Served(u)' PROVE code'[u] = installed'[u]
  <2>1. u # t BY <1>3, <1>5
  <2>2. QED BY <1>1, <1>4, <1>5, <2>1 DEF RunsInv
<1>6. \A g \in Handlers : pc'[g] \in {"config.stop", "config.start"} => arg'[g] \in Persistent
  BY DEF RunsInv
<1>7. QED BY <1>5, <1>6 DEF RunsInv

LEMMA RunsStep ==
  ASSUME TypeInv, NoOverlap, NeverReconnected', ServedInv, RunsInv, [Next]_vars
  PROVE  RunsInv'
<1> USE DEF managerVars, execVars, meshVars, streamVars, threadVars, Goto, Return, Begin
<1>1. /\ pc \in [Handlers -> Labels]
      /\ arg \in [Handlers -> Tools \cup {None}]
      /\ running \in [Tools -> BOOLEAN]
      /\ installed \in [Tools -> Versions \cup {None}]
      /\ services \in Seq(Registrations)
  BY DEF TypeInv, TypeOK
<1>2. \A h \in Handlers : pc[h] # "idle" => arg[h] \in Tools
  BY DEF TypeInv, ThreadInv
<1>3. CASE UNCHANGED vars BY <1>3, RunsKept DEF vars, Served, RunsInv
\* A handler goes on while nothing is started, loaded or served.
<1>4. ASSUME NEW h \in Handlers, UNCHANGED <<installed, code, services>>,
             \A t \in Tools : running'[t] => running[t],
             \/ pc'[h] \notin {"streams", "subscribe", "mesh"}
             \/ pc[h] \in {"streams", "subscribe", "mesh"} /\ arg'[h] = arg[h],
             pc'[h] \in {"config.stop", "config.start"} => arg'[h] \in Persistent,
             \A g \in Handlers : g # h => pc'[g] = pc[g] /\ arg'[g] = arg[g]
      PROVE  RunsInv'
  <2>1. \A t \in Tools : Served(t)' => Served(t) BY <1>4 DEF Served
  <2>2. \A g \in Handlers : pc'[g] \in {"config.stop", "config.start"} => arg'[g] \in Persistent
    BY <1>4 DEF RunsInv
  <2>3. QED BY <1>4, <2>1, <2>2, RunsKept
<1>5. ASSUME NEW h \in Handlers, RegisterStart(h) PROVE RunsInv'
  <2>1. /\ pc[h] = "register" /\ arg[h] \in Tools
        /\ pc' = [pc EXCEPT ![h] = "streams"] /\ arg' = arg
        /\ UNCHANGED <<installed, services>>
    BY <1>2, <1>5 DEF RegisterStart
  <2>2. \A u \in Tools : u # arg[h] => (Served(u)' => Served(u))
    BY <1>1, <2>1 DEF Served
  <2>3. \A g \in Handlers : pc'[g] \in {"config.stop", "config.start"} => arg'[g] \in Persistent
    BY <1>1, <2>1 DEF RunsInv
  <2>4. CASE arg[h] \in Persistent
    <3>1. StartProcess(arg[h]) BY <1>5, <2>4 DEF RegisterStart
    <3>2. QED BY <2>1, <2>2, <2>3, <2>4, <3>1, RunsStart
  <2>5. CASE arg[h] \notin Persistent
    <3>1. UNCHANGED execVars BY <1>5, <2>5 DEF RegisterStart
    <3>2. ASSUME NEW u \in Tools, running'[u], Served(u)' PROVE code'[u] = installed'[u]
      <4>1. u # arg[h] BY <2>5, <3>1, <3>2 DEF RunsInv
      <4>2. QED BY <2>1, <2>2, <3>1, <3>2, <4>1 DEF RunsInv
    <3>3. QED BY <2>3, <3>1, <3>2 DEF RunsInv
  <2>6. QED BY <2>4, <2>5
<1>6. ASSUME NEW h \in Handlers, RegisterStartFails(h) PROVE RunsInv'
  BY <1>1, <1>4, <1>6 DEF RegisterStartFails
<1>7. ASSUME NEW h \in Handlers, RegisterDropStreams(h) \/ RegisterSubscribe(h) PROVE RunsInv'
  BY <1>1, <1>4, <1>7 DEF RegisterDropStreams, RegisterSubscribe
<1>8. ASSUME NEW h \in Handlers, RegisterMesh(h) PROVE RunsInv'
  <2>1. /\ arg[h] \in Tools /\ ver[h] \in Versions
        /\ PlacesOf(services, arg[h]) = {} /\ nodeSubs[arg[h]] = 0
        /\ ver[h] = installed[arg[h]]
    BY <1>8 DEF RegisterMesh, ServedInv, HandlerServes, Unserved, TypeInv, ThreadInv
  <2>2. RegisterTool(arg[h], ver[h]) /\ UNCHANGED <<installed, running, code>>
    BY <1>8 DEF RegisterMesh
  <2>3. \A u \in Tools : u # arg[h] => PlacesOf(services', u) = PlacesOf(services, u)
    BY <2>1, <2>2, ServedRegister
  <2>4. /\ pc[h] = "mesh"
        /\ pc' = [pc EXCEPT ![h] = "idle"] /\ arg' = [arg EXCEPT ![h] = None]
    BY <1>8 DEF RegisterMesh
  <2>5. \A u \in Tools : Served(u)' => Served(u)
    BY <1>1, <2>3, <2>4 DEF Served
  <2>6. \A g \in Handlers : pc'[g] \in {"config.stop", "config.start"} => arg'[g] \in Persistent
    BY <1>1, <2>4 DEF RunsInv
  <2>7. QED BY <2>2, <2>5, <2>6, RunsKept
<1>9. ASSUME NEW h \in Handlers, NEW t \in Tools, InstallBegin(h, t) PROVE RunsInv'
  BY <1>1, <1>4, <1>9 DEF InstallBegin
<1>10. ASSUME NEW h \in Handlers, NEW t \in Tools, InstallDuplicate(h, t) PROVE RunsInv'
  BY <1>10, RunsKept DEF InstallDuplicate, Served, RunsInv
<1>11. ASSUME NEW h \in Handlers, InstallFails(h) PROVE RunsInv'
  BY <1>1, <1>4, <1>11 DEF InstallFails
<1>12. ASSUME NEW h \in Handlers, InstallCommit(h) \/ UpdateLoad(h) PROVE RunsInv'
  <2>1. PICK v \in Versions : installed' = [installed EXCEPT ![arg[h]] = v]
    BY <1>12 DEF InstallCommit, UpdateLoad
  <2>2. /\ pc[h] \in {"install", "update.load"}
        /\ pc' = [pc EXCEPT ![h] = "register"] /\ arg' = arg
        /\ UNCHANGED <<running, code, services>>
    BY <1>12 DEF InstallCommit, UpdateLoad
  <2>3. QED BY <1>1, <2>1, <2>2, RunsLoad
<1>13. ASSUME NEW h \in Handlers, NEW t \in Tools, UpdateBegin(h, t) PROVE RunsInv'
  BY <1>1, <1>4, <1>13 DEF UpdateBegin
<1>14. ASSUME NEW h \in Handlers, UpdateStop(h) PROVE RunsInv'
  BY <1>1, <1>2, <1>4, <1>14 DEF UpdateStop, StopProcess
<1>15. ASSUME NEW h \in Handlers, UpdateUnregister(h) \/ UninstallUnregister(h) PROVE RunsInv'
  <2>1. arg[h] \in Tools BY <1>2, <1>15 DEF UpdateUnregister, UninstallUnregister
  <2>2. UnregisterTool(arg[h]) /\ UNCHANGED <<installed, running, code, arg>>
    BY <1>15 DEF UpdateUnregister, UninstallUnregister
  <2>3. \/ pc' = [pc EXCEPT ![h] = "update.load"]
        \/ pc' = [pc EXCEPT ![h] = "uninstall.streams"]
    BY <1>15 DEF UpdateUnregister, UninstallUnregister
  <2>4. \A u \in Tools : PlacesOf(services, u) = {} => PlacesOf(services', u) = {}
    BY <2>1, <2>2, ServedUnregister
  <2>5. \A u \in Tools : Served(u)' => Served(u)
    BY <1>1, <2>2, <2>3, <2>4 DEF Served
  <2>6. \A g \in Handlers : pc'[g] \in {"config.stop", "config.start"} => arg'[g] \in Persistent
    BY <1>1, <2>2, <2>3 DEF RunsInv
  <2>7. QED BY <2>2, <2>5, <2>6, RunsKept
<1>16. ASSUME NEW h \in Handlers, UpdateFails(h) \/ UninstallRemove(h) PROVE RunsInv'
  <2>1. /\ pc[h] \in {"update.load", "uninstall.remove"}
        /\ pc' = [pc EXCEPT ![h] = "idle"] /\ arg' = [arg EXCEPT ![h] = None]
        /\ UNCHANGED <<running, code, services>>
    BY <1>16 DEF UpdateFails, UninstallRemove
  <2>2. \A u \in Tools : u # arg[h] => installed'[u] = installed[u]
    BY <1>1, <1>16 DEF UpdateFails, UninstallRemove
  <2>3. QED BY <1>1, <2>1, <2>2, RunsLoad
<1>17. ASSUME NEW h \in Handlers, NEW t \in Tools, UninstallStop(h, t) PROVE RunsInv'
  BY <1>1, <1>4, <1>17 DEF UninstallStop, StopProcess
<1>18. ASSUME NEW h \in Handlers, UninstallStreams(h) PROVE RunsInv'
  BY <1>1, <1>4, <1>18 DEF UninstallStreams
<1>19. ASSUME NEW h \in Handlers, NEW t \in Tools, ConfigBegin(h, t) PROVE RunsInv'
  BY <1>1, <1>4, <1>19 DEF ConfigBegin
<1>20. ASSUME NEW h \in Handlers, ConfigStop(h) PROVE RunsInv'
  <2>1. arg[h] \in Tools /\ arg[h] \in Persistent BY <1>2, <1>20 DEF ConfigStop, RunsInv
  <2>2. QED BY <1>1, <1>4, <1>20, <2>1 DEF ConfigStop, StopProcess
<1>21. ASSUME NEW h \in Handlers, ConfigStart(h) PROVE RunsInv'
  <2>1. CASE UNCHANGED execVars BY <1>1, <1>4, <1>21, <2>1 DEF ConfigStart
  <2>2. CASE StartProcess(arg[h])
    <3>1. arg[h] \in Persistent BY <1>21 DEF ConfigStart, RunsInv
    <3>2. /\ pc' = [pc EXCEPT ![h] = "idle"] /\ arg' = [arg EXCEPT ![h] = None]
          /\ UNCHANGED <<installed, services>>
      BY <1>21 DEF ConfigStart
    <3>3. \A u \in Tools : Served(u)' => Served(u) BY <1>1, <3>2 DEF Served
    <3>4. \A g \in Handlers : pc'[g] \in {"config.stop", "config.start"} => arg'[g] \in Persistent
      BY <1>1, <3>2 DEF RunsInv
    <3>5. QED BY <2>2, <3>1, <3>2, <3>3, <3>4, RunsStart
  <2>3. QED BY <1>21, <2>1, <2>2 DEF ConfigStart
<1>22. ASSUME NEW t \in Tools, CallFails(t) PROVE RunsInv'
  <2>1. \A u \in Tools : running'[u] => running[u] BY <1>1, <1>22 DEF CallFails
  <2>2. QED BY <1>22, <2>1, RunsKept DEF CallFails, Served, RunsInv
<1>23. ASSUME Reconnect PROVE FALSE
  <2>1. reconnects \in Nat /\ reconnects' = reconnects + 1 BY <1>23 DEF Reconnect, TypeInv, TypeOK
  <2>2. QED BY <2>1 DEF NeverReconnected
<1>24. QED
  BY <1>3, <1>5, <1>6, <1>7, <1>8, <1>9, <1>10, <1>11, <1>12, <1>13, <1>14, <1>15, <1>16,
     <1>17, <1>18, <1>19, <1>20, <1>21, <1>22, <1>23
  DEF Next, RegisterStep, InstallStep, UpdateStep, UninstallStep, ConfigStep

\* As long as no two requests for one tool overlap and the connection is never
\* lost, a tool that is served and runs, runs the installed version, over any
\* transport: an update that did not stop a process does not serve over it.
THEOREM ServedCodeRuns ==
  Spec /\ []NoOverlap /\ []NeverReconnected => []RunsWhatIsServed
<1>1. Init => RunsInv BY DEF Init, RunsInv
<1>2. /\ TypeInv /\ ServedInv /\ RunsInv
      /\ NoOverlap /\ NeverReconnected' /\ [Next]_vars
      => RunsInv'
  BY RunsStep
<1>3. RunsInv => RunsWhatIsServed
  BY DEF RunsInv, RunsWhatIsServed, ServicesOf, Served
<1>4. QED BY <1>1, <1>2, <1>3, ServedAlways, PTL DEF Spec
=============================================================================
