--------------------------- MODULE MeshCallsProofs ---------------------------
(***************************************************************************)
(* Proofs about MeshCalls, for any calls, nodes, capacity of an inbox,     *)
(* length of a stream and faults.                                          *)
(***************************************************************************)
EXTENDS MeshCalls, SequenceTheorems, WellFoundedInduction, TLAPS

-----------------------------------------------------------------------------
(* The invariant.                                                          *)

\* What the caller of c was handed and what waits for it, in order.
Pipe(c) ==
  got[c] \o (IF caller[c] = "holding" THEN <<hand[c]>> ELSE <<>>) \o raw[c]

\* Where a call is, and what its caller has of it.
CallerInv(c) ==
  /\ caller[c] = "holding" => hand[c] \in Frames
  /\ caller[c] = "idle" => got[c] = <<>> /\ raw[c] = <<>>
  /\ ~Stream(c) => /\ caller[c] # "holding"
                   /\ raw[c] = <<>>
                   /\ caller[c] = "waiting" => got[c] = <<>>
  /\ outcome[c] = "none" <=> caller[c] # "closed"

\* Where its handler on node n is, and what it has published.
ServerInv(n, c) ==
  /\ caller[c] = "idle" => /\ server[n][c] = "none"
                           /\ \A i \in DOMAIN queue[n] : queue[n][i] # c
  /\ server[n][c] \in {"none", "started"} => made[n][c] = 0
  /\ server[n][c] = "running" => made[n][c] <= MaxChunks
  /\ ~Stream(c) => made[n][c] = IF server[n][c] = "answered" THEN 1 ELSE 0
  /\ n \notin alive => server[n][c] \notin {"started", "running"}

ControlInv ==
  /\ \A c \in Calls : CallerInv(c)
  /\ \A n \in Nodes, c \in Calls : ServerInv(n, c)
  /\ \A n \in Nodes \ alive : queue[n] = <<>>

\* Only callers that gave up send cancel messages.
CancelInv ==
  /\ \A m \in cancels : outcome[m[1]] = "cancelled"
  /\ StoppedForCause

\* The frames on their way from n are the last that n published for c; those
\* of a node that has exited may end early.
NetInv(n, c) ==
  /\ \A i \in DOMAIN net[n][c] : net[n][c][i] \in Published(n, c)
  /\ \A i, j \in DOMAIN net[n][c] : net[n][c][j].seq = net[n][c][i].seq + (j - i)
  /\ n \in alive =>
       \A i \in DOMAIN net[n][c] :
         net[n][c][i].seq = made[n][c] - Len(net[n][c]) + i

Ordered(s) ==
  \A i, j \in DOMAIN s : i < j /\ s[i].from = s[j].from => s[i].seq < s[j].seq

NoGap(s) ==
  \A i \in DOMAIN s : \A k \in 1 .. (s[i].seq - 1) :
    \E j \in 1 .. (i - 1) : s[j].from = s[i].from /\ s[j].seq = k

Has(s, n, k) == \E j \in DOMAIN s : s[j].from = n /\ s[j].seq = k

\* Frame k of n has been lost with n, as have those after it.
Lost(n, c, k) == n \notin alive /\ \A j \in DOMAIN net[n][c] : net[n][c][j].seq < k

\* What waits for an open call are frames made for it, in order, before those
\* on their way; and unless one was dropped none is missing.
PipeInv(c) ==
  LET s == Pipe(c)
  IN /\ \A i \in DOMAIN s : s[i] = Refusal \/ \E n \in Nodes : s[i] \in Published(n, c)
     /\ Ordered(s)
     /\ \A n \in Nodes : \A i \in DOMAIN s : \A j \in DOMAIN net[n][c] :
          s[i].from = n => s[i].seq < net[n][c][j].seq
     /\ missed[c] = 0 =>
          /\ NoGap(s)
          /\ \A n \in Nodes : \A k \in 1 .. made[n][c] :
               \/ Has(s, n, k)
               \/ \E j \in DOMAIN net[n][c] : net[n][c][j].seq = k
               \/ Lost(n, c, k)

CallInv ==
  /\ TypeOK
  /\ ControlInv
  /\ CancelInv
  /\ \A n \in Nodes, c \in Calls : NetInv(n, c)
  /\ \A c \in Calls : Open(c) => PipeInv(c)
  /\ NoSilentGap

-----------------------------------------------------------------------------
(* Frames and sequences.                                                   *)

\* The refusal and what a node publishes are frames.
LEMMA FrameTypes ==
  ASSUME NEW n \in Nodes \cup {None}, NEW k \in 1 .. (MaxChunks + 1), NEW b \in BOOLEAN
  PROVE  /\ Frame(n, k, b) \in Frames
         /\ Frame(n, k, b).from = n /\ Frame(n, k, b).seq = k
         /\ Frame(n, k, b).done = b
<1>1. Frame(n, k, b) \in Frames BY DEF Frame, Frames
<1>2. Frame(n, k, b).from = n /\ Frame(n, k, b).seq = k BY DEF Frame
<1>3. Frame(n, k, b).done = b BY DEF Frame
<1>4. QED BY <1>1, <1>2, <1>3

LEMMA RefusalType ==
  Refusal \in Frames /\ Refusal.from = None /\ Refusal.seq = 1 /\ Refusal.done = TRUE
<1>1. 1 \in 1 .. (MaxChunks + 1) BY MeshCallsAssumption DEF MeshCallsAssumption
<1>2. Frame(None, 1, TRUE) \in Frames BY <1>1 DEF Frame, Frames
<1>3. Frame(None, 1, TRUE).done = TRUE BY DEF Frame
<1>4. QED BY <1>2, <1>3 DEF Refusal, Frame

LEMMA PublishedTypes ==
  ASSUME TypeOK, NEW n \in Nodes, NEW c \in Calls, NEW f \in Published(n, c)
  PROVE  /\ f \in Frames
         /\ f.from = n
         /\ f.seq \in 1 .. made[n][c]
         /\ f.done = (server[n][c] = "answered" /\ f.seq = made[n][c])
<1>1. made[n][c] \in 0 .. (MaxChunks + 1) BY DEF TypeOK
<1>2. PICK k \in 1 .. made[n][c] :
        f = Frame(n, k, server[n][c] = "answered" /\ k = made[n][c])
  BY DEF Published
<1>3. k \in 1 .. (MaxChunks + 1) BY <1>1, MeshCallsAssumption DEF MeshCallsAssumption
<1>4. f \in Frames BY <1>2, <1>3 DEF Frame, Frames
<1>5. f.from = n /\ f.seq = k BY <1>2 DEF Frame
<1>6. f.done = (server[n][c] = "answered" /\ k = made[n][c]) BY <1>2 DEF Frame
<1>7. QED BY <1>4, <1>5, <1>6

\* A set of numbers has a least one.
LEMMA LeastNumber ==
  ASSUME NEW T, T \subseteq Nat, T # {}
  PROVE  \E x \in T : \A y \in T : x <= y
<1> DEFINE R == OpToRel(<, Nat)
<1>1. IsWellFoundedOn(R, Nat) BY NatLessThanWellFounded
<1>2. \A x, y \in Nat : y < x => <<y, x>> \in R BY DEF OpToRel
<1> HIDE DEF R
<1>3. PICK x \in T : \A y \in T : <<y, x>> \notin R BY <1>1, WFMin
<1>4. \A y \in T : ~(y < x) BY <1>2, <1>3
<1>5. QED BY <1>4

LEMMA RemoveFirstType ==
  ASSUME NEW S, NEW s \in Seq(S), NEW e
  PROVE  /\ RemoveFirst(s, e) \in Seq(S)
         /\ \A i \in DOMAIN RemoveFirst(s, e) : \E j \in DOMAIN s : RemoveFirst(s, e)[i] = s[j]
<1>1. CASE ~\E i \in 1 .. Len(s) : s[i] = e
  BY <1>1 DEF RemoveFirst
<1>2. CASE \E i \in 1 .. Len(s) : s[i] = e
  <2> DEFINE I == {i \in 1 .. Len(s) : s[i] = e}
             m == Min(I)
             u == SubSeq(s, 1, m - 1)
             v == SubSeq(s, m + 1, Len(s))
  <2>1. I # {} /\ I \subseteq Nat BY <1>2
  <2>2. m \in I
    <3> HIDE DEF I
    <3>1. \E x \in I : \A y \in I : x <= y BY <2>1, LeastNumber
    <3>2. QED BY <3>1 DEF Min
  <2>3. m \in 1 .. Len(s) BY <2>2
  <2>4. RemoveFirst(s, e) = u \o v
    BY <1>2, <2>1 DEF RemoveFirst, RemoveAt, SelectInSeq
  <2> HIDE DEF m
  <2>5. u \in Seq(S) /\ Len(u) = m - 1 /\ \A i \in 1 .. Len(u) : u[i] = s[i]
    BY <2>3
  <2>6. v \in Seq(S) /\ Len(v) = Len(s) - m /\ \A i \in 1 .. Len(v) : v[i] = s[m + i]
    BY <2>3
  <2> HIDE DEF u, v
  <2>7. \A i \in 1 .. Len(u) + Len(v) :
          (u \o v)[i] = IF i <= Len(u) THEN u[i] ELSE v[i - Len(u)]
    BY <2>5, <2>6, ConcatProperties
  <2>8. u \o v \in Seq(S) /\ Len(u \o v) = Len(s) - 1
    <3>1. u \in Seq(S) /\ v \in Seq(S) BY <2>5, <2>6
    <3>2. u \o v \in Seq(S) /\ Len(u \o v) = Len(u) + Len(v) BY <3>1, ConcatProperties
    <3>3. QED BY <2>3, <2>5, <2>6, <3>2
  <2>9. ASSUME NEW i \in DOMAIN (u \o v) PROVE \E j \in DOMAIN s : (u \o v)[i] = s[j]
    <3>1. i \in 1 .. (Len(s) - 1) BY <2>8
    <3>2. CASE i < m
      <4>1. (u \o v)[i] = u[i] BY <2>3, <2>5, <2>6, <2>7, <3>1, <3>2
      <4>2. u[i] = s[i] BY <2>3, <2>5, <3>1, <3>2
      <4>3. QED BY <3>1, <4>1, <4>2
    <3>3. CASE i >= m
      <4> DEFINE j == i - (m - 1)
      <4>1. j \in 1 .. Len(v) /\ m + j = i + 1 BY <2>3, <2>6, <3>1, <3>3
      <4>2. (u \o v)[i] = v[j] BY <2>3, <2>5, <2>6, <2>7, <3>1, <3>3
      <4>3. v[j] = s[i + 1] BY <2>6, <4>1
      <4>4. QED BY <3>1, <4>2, <4>3
    <3>4. QED BY <2>3, <3>1, <3>2, <3>3
  <2>10. QED BY <2>4, <2>8, <2>9
<1>3. QED BY <1>1, <1>2

-----------------------------------------------------------------------------
(* Types.                                                                  *)

\* Steps of a caller keep the types.
LEMMA CallerTypes ==
  ASSUME TypeOK, ControlInv, NEW c \in Calls, CallerStep(c)
  PROVE  TypeOK'
<1> USE DEF callerVars, serverVars, Close
<1>1. CASE Issue(c)
  <2>1. PICK reached : queue' = [n \in Nodes |-> IF n \in reached THEN Append(queue[n], c) ELSE queue[n]]
    BY <1>1 DEF Issue
  <2>2. queue' \in [Nodes -> Seq(Calls)] BY <2>1 DEF TypeOK
  <2>3. QED BY <1>1, <2>2 DEF Issue, TypeOK
<1>2. CASE IssueRefused(c)
  <2>1. <<Refusal>> \in Seq(Frames) /\ Len(<<Refusal>>) <= ChanCap
    BY RefusalType, MeshCallsAssumption DEF MeshCallsAssumption
  <2>2. raw' = raw \/ raw' = [raw EXCEPT ![c] = <<Refusal>>] BY <1>2 DEF IssueRefused
  <2>3. raw' \in [Calls -> Seq(Frames)] BY <2>1, <2>2 DEF TypeOK
  <2>4. \A d \in Calls : Len(raw'[d]) <= ChanCap BY <2>1, <2>2 DEF TypeOK
  <2>5. QED BY <1>2, <2>3, <2>4 DEF IssueRefused, TypeOK
<1>3. CASE TakeFrame(c)
  <2>1. Head(raw[c]) \in Frames /\ Tail(raw[c]) \in Seq(Frames)
        /\ Len(Tail(raw[c])) <= ChanCap
    BY <1>3, MeshCallsAssumption DEF TakeFrame, TypeOK, MeshCallsAssumption
  <2>2. QED BY <1>3, <2>1 DEF TakeFrame, TypeOK
<1>4. CASE HandFrame(c)
  <2>1. hand[c] \in Frames BY <1>4 DEF HandFrame, ControlInv, CallerInv
  <2>2. Append(got[c], hand[c]) \in Seq(Frames) BY <2>1 DEF TypeOK
  <2>3. QED BY <1>4, <2>2 DEF HandFrame, TypeOK
<1>5. CASE Fire(c) BY <1>5 DEF Fire, TypeOK
<1>6. CASE Abort(c) BY <1>6 DEF Abort, TypeOK
<1>7. QED BY <1>1, <1>2, <1>3, <1>4, <1>5, <1>6 DEF CallerStep

\* What a frame that arrives may do to the call.
LEMMA ArrivalCases ==
  ASSUME TypeOK, NEW c \in Calls, NEW n \in Nodes, FrameArrives(n, c)
  PROVE  \/ /\ Stream(c) /\ Open(c) /\ Len(raw[c]) < ChanCap
            /\ raw' = [raw EXCEPT ![c] = Append(@, Head(net[n][c]))]
            /\ UNCHANGED <<caller, got, missed, outcome>>
         \/ /\ Stream(c) /\ Open(c)
            /\ missed' = [missed EXCEPT ![c] = @ + 1]
            /\ UNCHANGED <<caller, raw, got, outcome>>
         \/ /\ ~Stream(c) /\ Open(c)
            /\ got' = [got EXCEPT ![c] = <<Head(net[n][c])>>]
            /\ caller' = [caller EXCEPT ![c] = "closed"]
            /\ outcome' = [outcome EXCEPT ![c] = "answered"]
            /\ UNCHANGED <<raw, missed>>
         \/ /\ ~Open(c)
            /\ UNCHANGED <<caller, raw, got, missed, outcome>>
<1>1. Len(raw[c]) \in Nat /\ ChanCap \in Nat
  BY MeshCallsAssumption DEF TypeOK, MeshCallsAssumption
<1>2. CASE Stream(c) /\ Open(c) /\ Len(raw[c]) < ChanCap
  <2>1. ~(Len(raw[c]) >= ChanCap) BY <1>1, <1>2
  <2>2. QED BY <1>2, <2>1 DEF FrameArrives
<1>3. CASE Stream(c) /\ Open(c) /\ Len(raw[c]) >= ChanCap
  <2>1. ~(Len(raw[c]) < ChanCap) BY <1>1, <1>3
  <2>2. QED BY <1>3, <2>1 DEF FrameArrives
<1>4. CASE ~Stream(c) /\ Open(c) BY <1>4 DEF FrameArrives, Close
<1>5. CASE ~Open(c) BY <1>5 DEF FrameArrives
<1>6. QED BY <1>1, <1>2, <1>3, <1>4, <1>5

\* A frame that arrives keeps the types.
LEMMA ArrivalTypes ==
  ASSUME TypeOK, NEW c \in Calls, NEW n \in Nodes, FrameArrives(n, c)
  PROVE  TypeOK'
<1>1. Head(net[n][c]) \in Frames /\ Tail(net[n][c]) \in Seq(Frames)
  BY DEF FrameArrives, TypeOK
<1>2. net' \in [Nodes -> [Calls -> Seq(Frames)]] BY <1>1 DEF FrameArrives, TypeOK
<1>3. UNCHANGED <<fired, hand, queue, server, stop, made, cancels, alive>>
  BY DEF FrameArrives, serverVars
<1>4. CASE Len(raw[c]) < ChanCap /\ raw' = [raw EXCEPT ![c] = Append(@, Head(net[n][c]))]
           /\ UNCHANGED <<caller, got, missed, outcome>>
  <2>1. Append(raw[c], Head(net[n][c])) \in Seq(Frames)
        /\ Len(Append(raw[c], Head(net[n][c]))) <= ChanCap
    BY <1>1, <1>4, MeshCallsAssumption DEF TypeOK, MeshCallsAssumption
  <2>2. raw' \in [Calls -> Seq(Frames)] /\ \A d \in Calls : Len(raw'[d]) <= ChanCap
    BY <1>4, <2>1 DEF TypeOK
  <2>3. QED BY <1>2, <1>3, <1>4, <2>2 DEF TypeOK
<1>5. CASE missed' = [missed EXCEPT ![c] = @ + 1] /\ UNCHANGED <<caller, raw, got, outcome>>
  BY <1>2, <1>3, <1>5 DEF TypeOK
<1>6. CASE /\ got' = [got EXCEPT ![c] = <<Head(net[n][c])>>]
           /\ caller' = [caller EXCEPT ![c] = "closed"]
           /\ outcome' = [outcome EXCEPT ![c] = "answered"]
           /\ UNCHANGED <<raw, missed>>
  BY <1>1, <1>2, <1>3, <1>6 DEF TypeOK
<1>7. CASE UNCHANGED <<caller, raw, got, missed, outcome>>
  BY <1>2, <1>3, <1>7 DEF TypeOK
<1>8. QED BY <1>4, <1>5, <1>6, <1>7, ArrivalCases

\* A handler that publishes its next frame keeps the types.
LEMMA PublishTypes ==
  ASSUME TypeOK, NEW c \in Calls, NEW n \in Nodes, NEW t \in BOOLEAN,
         made[n][c] <= MaxChunks, Publish(n, c, t)
  PROVE  /\ made' \in [Nodes -> [Calls -> 0 .. (MaxChunks + 1)]]
         /\ net' \in [Nodes -> [Calls -> Seq(Frames)]]
<1>1. made[n][c] + 1 \in 1 .. (MaxChunks + 1)
  BY MeshCallsAssumption DEF TypeOK, MeshCallsAssumption
<1>2. Frame(n, made[n][c] + 1, t) \in Frames BY <1>1, FrameTypes
<1>3. Append(net[n][c], Frame(n, made[n][c] + 1, t)) \in Seq(Frames)
  BY <1>2 DEF TypeOK
<1>4. made' \in [Nodes -> [Calls -> 0 .. (MaxChunks + 1)]] BY <1>1 DEF Publish, TypeOK
<1>5. net' \in [Nodes -> [Calls -> Seq(Frames)]]
  <2> HIDE DEF Frame
  <2>1. QED BY <1>3 DEF Publish, TypeOK
<1>6. QED BY <1>4, <1>5

LEMMA ReturnTypes ==
  ASSUME TypeOK, NEW c \in Calls, NEW n \in Nodes,
         NEW how \in {"answered", "brokenOff"}, HandlerReturns(n, c, how)
  PROVE  /\ queue' \in [Nodes -> Seq(Calls)]
         /\ server' \in [Nodes -> [Calls -> {"none", "started", "running", "answered", "brokenOff"}]]
<1>1. RemoveFirst(queue[n], c) \in Seq(Calls) BY RemoveFirstType DEF TypeOK
<1>2. QED BY <1>1 DEF HandlerReturns, TypeOK

\* Steps of a handler keep the types.
LEMMA HandlerTypes ==
  ASSUME TypeOK, ControlInv, NEW c \in Calls, NEW n \in Nodes, HandlerStep(n, c)
  PROVE  TypeOK'
<1> USE DEF callerVars
<1>1. CASE HandlerStarts(n, c) BY <1>1 DEF HandlerStarts, TypeOK
<1>2. CASE HandlerCalls(n, c) BY <1>2 DEF HandlerCalls, TypeOK
<1>3. CASE HandlerRefuses(n, c)
  <2>1. made[n][c] <= MaxChunks
    BY <1>3, MeshCallsAssumption DEF HandlerRefuses, ControlInv, ServerInv, MeshCallsAssumption
  <2>2. Publish(n, c, TRUE) /\ HandlerReturns(n, c, "answered") BY <1>3 DEF HandlerRefuses
  <2>3. /\ made' \in [Nodes -> [Calls -> 0 .. (MaxChunks + 1)]]
        /\ net' \in [Nodes -> [Calls -> Seq(Frames)]]
    BY <2>1, <2>2, PublishTypes
  <2>4. QED BY <2>2, <2>3, ReturnTypes DEF HandlerReturns, TypeOK
<1>4. CASE HandlerAnswers(n, c)
  <2>1. made[n][c] <= MaxChunks BY <1>4 DEF HandlerAnswers, ControlInv, ServerInv
  <2>2. Publish(n, c, TRUE) /\ HandlerReturns(n, c, "answered") BY <1>4 DEF HandlerAnswers
  <2>3. /\ made' \in [Nodes -> [Calls -> 0 .. (MaxChunks + 1)]]
        /\ net' \in [Nodes -> [Calls -> Seq(Frames)]]
    BY <2>1, <2>2, PublishTypes
  <2>4. QED BY <2>2, <2>3, ReturnTypes DEF HandlerReturns, TypeOK
<1>5. CASE HandlerEmits(n, c)
  <2>1. Publish(n, c, FALSE) /\ made[n][c] <= MaxChunks BY <1>5 DEF HandlerEmits, ControlInv, ServerInv
  <2>2. /\ made' \in [Nodes -> [Calls -> 0 .. (MaxChunks + 1)]]
        /\ net' \in [Nodes -> [Calls -> Seq(Frames)]]
    BY <2>1, PublishTypes
  <2>3. QED BY <1>5, <2>2 DEF HandlerEmits, TypeOK
<1>6. CASE HandlerBreaksOff(n, c)
  BY <1>6, ReturnTypes DEF HandlerBreaksOff, HandlerReturns, TypeOK
<1>7. QED BY <1>1, <1>2, <1>3, <1>4, <1>5, <1>6 DEF HandlerStep

\* So do cancel messages that arrive and nodes that exit.
LEMMA CancelTypes ==
  ASSUME TypeOK, NEW c \in Calls, NEW n \in Nodes, CancelArrives(c, n)
  PROVE  TypeOK'
BY DEF CancelArrives, TypeOK, callerVars

LEMMA ExitTypes ==
  ASSUME TypeOK, NEW n \in Nodes, NodeExits(n)
  PROVE  TypeOK'
<1>1. PICK written \in [Calls -> 0 .. (MaxChunks + 1)] :
        /\ \A c \in Calls : written[c] <= Len(net[n][c])
        /\ net' = [net EXCEPT ![n] = [c \in Calls |-> SubSeq(@[c], 1, written[c])]]
  BY DEF NodeExits
<1>2. ASSUME NEW c \in Calls PROVE SubSeq(net[n][c], 1, written[c]) \in Seq(Frames)
  <2>1. net[n][c] \in Seq(Frames) /\ written[c] \in 0 .. (MaxChunks + 1)
        /\ written[c] <= Len(net[n][c])
    BY <1>1 DEF TypeOK
  <2>2. \A i \in 1 .. written[c] : net[n][c][i] \in Frames
    BY <2>1, MeshCallsAssumption DEF MeshCallsAssumption
  <2>3. QED BY <2>1, <2>2, MeshCallsAssumption, SubSeqProperties DEF MeshCallsAssumption
<1>3. net' \in [Nodes -> [Calls -> Seq(Frames)]] BY <1>1, <1>2 DEF TypeOK
<1>4. QED BY <1>3 DEF NodeExits, TypeOK, callerVars

LEMMA TypeStep ==
  ASSUME TypeOK, ControlInv, [Next]_vars
  PROVE  TypeOK'
<1>1. CASE UNCHANGED vars BY <1>1 DEF vars, callerVars, serverVars, TypeOK
<1>2. CASE Next
  BY <1>2, CallerTypes, ArrivalTypes, HandlerTypes, CancelTypes, ExitTypes DEF Next
<1>3. QED BY <1>1, <1>2

-----------------------------------------------------------------------------
(* Where calls and handlers are.                                           *)

\* A request reaches nodes that run.
LEMMA ReachedRun ==
  ASSUME NEW c \in Calls, NEW reached \in Receivers(c)
  PROVE  reached \subseteq alive
BY DEF Receivers

\* Steps of a caller keep the callers' part.
LEMMA CallerControl ==
  ASSUME TypeOK, ControlInv, NEW c \in Calls, CallerStep(c)
  PROVE  ControlInv'
<1> USE DEF callerVars, serverVars, Close
<1>1. ASSUME NEW d \in Calls PROVE CallerInv(d)'
  <2>0. CallerInv(d) BY DEF ControlInv
  <2>1. CASE Issue(c) BY <2>0, <2>1 DEF Issue, CallerInv, TypeOK, Stream
  <2>2. CASE IssueRefused(c)
    BY <2>0, <2>2 DEF IssueRefused, CallerInv, TypeOK, Stream
  <2>3. CASE TakeFrame(c)
    BY <2>0, <2>3 DEF TakeFrame, CallerInv, TypeOK, Stream
  <2>4. CASE HandFrame(c) BY <2>0, <2>4 DEF HandFrame, CallerInv, TypeOK, Stream
  <2>5. CASE Fire(c) BY <2>0, <2>5 DEF Fire, CallerInv, TypeOK, Stream
  <2>6. CASE Abort(c) BY <2>0, <2>6 DEF Abort, CallerInv, TypeOK, Stream, Open
  <2>7. QED BY <2>1, <2>2, <2>3, <2>4, <2>5, <2>6 DEF CallerStep
<1>2. UNCHANGED <<server, stop, made, alive>>
  BY DEF CallerStep, Issue, IssueRefused, TakeFrame, HandFrame, Fire, Abort
<1>3. \A d \in Calls : caller'[d] = "idle" => caller[d] = "idle" /\ d # c
  BY DEF CallerStep, Issue, IssueRefused, TakeFrame, HandFrame, Fire, Abort, TypeOK, Open
<1>4. \A n \in Nodes :
        \/ queue'[n] = queue[n]
        \/ n \in alive /\ queue'[n] = Append(queue[n], c)
  <2>1. CASE Issue(c)
    <3>1. PICK reached \in Receivers(c) :
            queue' = [n \in Nodes |-> IF n \in reached THEN Append(queue[n], c) ELSE queue[n]]
      BY <2>1 DEF Issue
    <3>2. QED BY <3>1, ReachedRun
  <2>2. CASE ~Issue(c)
    BY <2>2 DEF CallerStep, IssueRefused, TakeFrame, HandFrame, Fire, Abort
  <2>3. QED BY <2>1, <2>2
<1>5. ASSUME NEW n \in Nodes, NEW d \in Calls PROVE ServerInv(n, d)'
  <2>1. ServerInv(n, d) /\ queue[n] \in Seq(Calls) BY DEF ControlInv, TypeOK
  <2>2. ASSUME caller'[d] = "idle", NEW i \in DOMAIN queue'[n] PROVE queue'[n][i] # d
    <3>1. d # c /\ caller[d] = "idle" BY <1>3, <2>2
    <3>2. \A j \in DOMAIN queue[n] : queue[n][j] # d BY <2>1, <3>1 DEF ServerInv
    <3>3. CASE queue'[n] = queue[n] BY <2>2, <3>2, <3>3
    <3>4. CASE queue'[n] = Append(queue[n], c)
      <4>1. i \in 1 .. (Len(queue[n]) + 1) BY <2>1, <2>2, <3>4
      <4>2. queue'[n][i] = IF i <= Len(queue[n]) THEN queue[n][i] ELSE c
        BY <2>1, <3>4, <4>1
      <4>3. QED BY <2>1, <3>1, <3>2, <4>1, <4>2
    <3>5. QED BY <1>4, <3>3, <3>4
  <2>3. QED BY <1>2, <1>3, <2>1, <2>2 DEF ServerInv, Stream
<1>6. \A n \in Nodes \ alive' : queue'[n] = <<>> BY <1>2, <1>4 DEF ControlInv
<1>7. QED BY <1>1, <1>5, <1>6 DEF ControlInv

LEMMA ArrivalControl ==
  ASSUME TypeOK, ControlInv, NEW c \in Calls, NEW n \in Nodes, FrameArrives(n, c)
  PROVE  ControlInv'
<1>1. UNCHANGED <<hand, queue, server, made, alive>> BY DEF FrameArrives, serverVars
<1>2. ASSUME NEW d \in Calls PROVE CallerInv(d)' /\ (caller'[d] = "idle" => caller[d] = "idle")
  <2>1. CallerInv(d) /\ CallerInv(c) BY DEF ControlInv
  <2>2. CASE /\ ~Stream(c) /\ Open(c)
             /\ got' = [got EXCEPT ![c] = <<Head(net[n][c])>>]
             /\ caller' = [caller EXCEPT ![c] = "closed"]
             /\ outcome' = [outcome EXCEPT ![c] = "answered"]
             /\ UNCHANGED <<raw, missed>>
    BY <1>1, <2>1, <2>2 DEF CallerInv, TypeOK, Stream, Open
  <2>3. CASE UNCHANGED <<caller, raw, got, missed, outcome>>
    BY <1>1, <2>1, <2>3 DEF CallerInv, Stream
  <2>4. CASE Stream(c) /\ Open(c) /\ UNCHANGED <<caller, got, outcome>>
             /\ (raw' = raw \/ raw' = [raw EXCEPT ![c] = Append(@, Head(net[n][c]))])
    BY <1>1, <2>1, <2>4 DEF CallerInv, TypeOK, Stream, Open
  <2>5. QED BY <2>2, <2>3, <2>4, ArrivalCases
<1>3. QED BY <1>1, <1>2 DEF ControlInv, ServerInv, Stream

\* A step that concerns one call on one node leaves the others where they are.
LEMMA Elsewhere ==
  ASSUME NEW S, NEW f \in [Nodes -> [Calls -> S]], NEW n \in Nodes, NEW c \in Calls,
         NEW g, g = f \/ \E v : g = [f EXCEPT ![n][c] = v],
         NEW m \in Nodes, NEW d \in Calls, m # n \/ d # c
  PROVE  g[m][d] = f[m][d]
<1>1. CASE g = f BY <1>1
<1>2. ASSUME NEW v, g = [f EXCEPT ![n][c] = v] PROVE g[m][d] = f[m][d] BY <1>2
<1>3. QED BY <1>1, <1>2

\* Steps of a handler leave the callers as they are.
LEMMA HandlerFrame ==
  ASSUME TypeOK, NEW c \in Calls, NEW n \in Nodes, HandlerStep(n, c)
  PROVE  /\ UNCHANGED <<caller, fired, raw, hand, got, missed, outcome, stop, cancels, alive>>
         /\ \A m \in Nodes : \A i \in DOMAIN queue'[m] :
              \E j \in DOMAIN queue[m] : queue'[m][i] = queue[m][j]
         /\ \A m \in Nodes, d \in Calls :
              m # n \/ d # c => /\ server'[m][d] = server[m][d]
                                /\ made'[m][d] = made[m][d]
                                /\ net'[m][d] = net[m][d]
<1> DEFINE Step == /\ queue' = queue \/ queue' = [queue EXCEPT ![n] = RemoveFirst(@, c)]
                   /\ server' = server \/ \E how : server' = [server EXCEPT ![n][c] = how]
                   /\ made' = made \/ made' = [made EXCEPT ![n][c] = @ + 1]
                   /\ net' = net \/ \E f : net' = [net EXCEPT ![n][c] = Append(@, f)]
                   /\ UNCHANGED <<callerVars, stop, cancels, alive>>
<1>0. Step
  <2>1. CASE HandlerStarts(n, c) BY <2>1 DEF HandlerStarts
  <2>2. CASE HandlerRefuses(n, c) BY <2>2 DEF HandlerRefuses, HandlerReturns, Publish
  <2>3. CASE HandlerCalls(n, c) BY <2>3 DEF HandlerCalls
  <2>4. CASE HandlerEmits(n, c) BY <2>4 DEF HandlerEmits, Publish
  <2>5. CASE HandlerAnswers(n, c) BY <2>5 DEF HandlerAnswers, HandlerReturns, Publish
  <2>6. CASE HandlerBreaksOff(n, c) BY <2>6 DEF HandlerBreaksOff, HandlerReturns
  <2>7. QED BY <2>1, <2>2, <2>3, <2>4, <2>5, <2>6 DEF HandlerStep
<1>1. UNCHANGED <<caller, fired, raw, hand, got, missed, outcome, stop, cancels, alive>>
  BY <1>0 DEF callerVars
<1>2. \A i \in DOMAIN RemoveFirst(queue[n], c) :
        \E j \in DOMAIN queue[n] : RemoveFirst(queue[n], c)[i] = queue[n][j]
  BY RemoveFirstType DEF TypeOK
<1>3. queue' = queue \/ queue' = [queue EXCEPT ![n] = RemoveFirst(@, c)] BY <1>0
<1>4. ASSUME NEW m \in Nodes, NEW d \in Calls, m # n \/ d # c
      PROVE  server'[m][d] = server[m][d] /\ made'[m][d] = made[m][d] /\ net'[m][d] = net[m][d]
  <2>1. server' = server \/ \E how : server' = [server EXCEPT ![n][c] = how] BY <1>0
  <2>2. made' = made \/ \E v : made' = [made EXCEPT ![n][c] = v] BY <1>0
  <2>3. net' = net \/ \E v : net' = [net EXCEPT ![n][c] = v] BY <1>0
  <2>4. /\ server \in [Nodes -> [Calls -> {"none", "started", "running", "answered", "brokenOff"}]]
        /\ made \in [Nodes -> [Calls -> 0 .. (MaxChunks + 1)]]
        /\ net \in [Nodes -> [Calls -> Seq(Frames)]]
    BY DEF TypeOK
  <2>5. server'[m][d] = server[m][d] BY <1>4, <2>1, <2>4, Elsewhere
  <2>6. made'[m][d] = made[m][d] BY <1>4, <2>2, <2>4, Elsewhere
  <2>7. net'[m][d] = net[m][d] BY <1>4, <2>3, <2>4, Elsewhere
  <2>8. QED BY <2>5, <2>6, <2>7
<1>5. \A m \in Nodes : \A i \in DOMAIN queue'[m] :
              \E j \in DOMAIN queue[m] : queue'[m][i] = queue[m][j]
  BY <1>2, <1>3 DEF TypeOK
<1>6. QED BY <1>1, <1>4, <1>5

\* A handler runs on a node that runs, for a call that was made.
LEMMA HandlerRuns ==
  ASSUME TypeOK, ControlInv, NEW c \in Calls, NEW n \in Nodes, HandlerStep(n, c)
  PROVE  n \in alive /\ caller[c] # "idle"
<1>1. ServerInv(n, c) BY DEF ControlInv
<1>2. CASE HandlerStarts(n, c)
  <2>1. PICK i \in DOMAIN queue[n] : queue[n][i] = c BY <1>2 DEF HandlerStarts, First
  <2>2. QED BY <1>1, <2>1 DEF ControlInv, ServerInv
<1>3. CASE server[n][c] \in {"started", "running"} BY <1>1, <1>3 DEF ServerInv
<1>4. QED BY <1>2, <1>3 DEF HandlerStep, HandlerRefuses, HandlerCalls, HandlerEmits,
                            HandlerAnswers, HandlerBreaksOff

LEMMA HandlerControl ==
  ASSUME TypeOK, ControlInv, NEW c \in Calls, NEW n \in Nodes, HandlerStep(n, c)
  PROVE  ControlInv'
<1>1. UNCHANGED <<caller, raw, hand, got, outcome, alive>> BY HandlerFrame
<1>2. \A d \in Calls : CallerInv(d)' BY <1>1 DEF ControlInv, CallerInv, Stream
<1>3. ASSUME NEW m \in Nodes \ alive PROVE queue'[m] = <<>>
  <2>1. queue'[m] \in Seq(Calls) BY HandlerTypes DEF TypeOK
  <2>2. queue[m] = <<>> BY DEF ControlInv
  <2>3. DOMAIN queue'[m] = {} BY <2>2, HandlerFrame
  <2>4. Len(queue'[m]) = 0
    <3>1. Len(queue'[m]) \in Nat /\ DOMAIN queue'[m] = 1 .. Len(queue'[m]) BY <2>1
    <3>2. 1 \notin 1 .. Len(queue'[m]) BY <2>3, <3>1
    <3>3. QED BY <3>1, <3>2
  <2>5. QED BY <2>1, <2>4, EmptySeq
<1>4. ASSUME NEW m \in Nodes, NEW d \in Calls, m # n \/ d # c PROVE ServerInv(m, d)'
  <2>1. ServerInv(m, d) BY DEF ControlInv
  <2>2. /\ server'[m][d] = server[m][d]
        /\ made'[m][d] = made[m][d]
        /\ \A i \in DOMAIN queue'[m] : \E j \in DOMAIN queue[m] : queue'[m][i] = queue[m][j]
    BY <1>4, HandlerFrame
  <2>3. QED BY <1>1, <2>1, <2>2 DEF ServerInv, Stream
<1>5. ServerInv(n, c)'
  <2>1. ServerInv(n, c) /\ n \in alive /\ caller[c] # "idle" BY HandlerRuns DEF ControlInv
  <2> DEFINE Now == /\ server'[n][c] \in {"none", "started"} => made'[n][c] = 0
                    /\ server'[n][c] = "running" => made'[n][c] <= MaxChunks
                    /\ ~Stream(c) =>
                         made'[n][c] = IF server'[n][c] = "answered" THEN 1 ELSE 0
  <2>0. Now
    <3>1. CASE HandlerStarts(n, c) BY <2>1, <3>1 DEF HandlerStarts, ServerInv, TypeOK
    <3>2. CASE HandlerRefuses(n, c)
      BY <2>1, <3>2 DEF HandlerRefuses, HandlerReturns, Publish, ServerInv, TypeOK
    <3>3. CASE HandlerCalls(n, c)
      BY <2>1, <3>3, MeshCallsAssumption
      DEF HandlerCalls, ServerInv, TypeOK, MeshCallsAssumption
    <3>4. CASE HandlerEmits(n, c)
      BY <2>1, <3>4, MeshCallsAssumption
      DEF HandlerEmits, Publish, ServerInv, TypeOK, MeshCallsAssumption
    <3>5. CASE HandlerAnswers(n, c)
      BY <2>1, <3>5 DEF HandlerAnswers, HandlerReturns, Publish, ServerInv, TypeOK
    <3>6. CASE HandlerBreaksOff(n, c)
      BY <2>1, <3>6 DEF HandlerBreaksOff, HandlerReturns, ServerInv, TypeOK
    <3>7. QED BY <3>1, <3>2, <3>3, <3>4, <3>5, <3>6 DEF HandlerStep
  <2>5. QED BY <1>1, <2>1, <2>0 DEF ServerInv, Stream
<1>6. QED BY <1>1, <1>2, <1>3, <1>4, <1>5 DEF ControlInv

LEMMA CancelControl ==
  ASSUME TypeOK, ControlInv, NEW c \in Calls, NEW n \in Nodes, CancelArrives(c, n)
  PROVE  ControlInv'
BY DEF CancelArrives, ControlInv, CallerInv, ServerInv, callerVars, Stream

LEMMA ExitControl ==
  ASSUME TypeOK, ControlInv, NEW n \in Nodes, NodeExits(n)
  PROVE  ControlInv'
<1>1. UNCHANGED <<caller, raw, hand, got, outcome, made>> /\ alive' = alive \ {n}
  BY DEF NodeExits, callerVars
<1>2. \A d \in Calls : CallerInv(d)' BY <1>1 DEF ControlInv, CallerInv, Stream
<1>3. ASSUME NEW m \in Nodes, NEW d \in Calls PROVE ServerInv(m, d)'
  <2>1. ServerInv(m, d) BY DEF ControlInv
  <2>2. queue'[m] = queue[m] \/ queue'[m] = <<>> BY DEF NodeExits, TypeOK
  <2>3. IF m = n /\ server[m][d] \in {"started", "running"}
          THEN server'[m][d] = "brokenOff" ELSE server'[m][d] = server[m][d]
    BY DEF NodeExits, TypeOK
  <2>4. made[m][d] \in Nat BY MeshCallsAssumption DEF TypeOK, MeshCallsAssumption
  <2>5. m = n => server'[m][d] \notin {"started", "running"} BY <2>3
  <2>6. QED BY <1>1, <2>1, <2>2, <2>3, <2>4, <2>5 DEF ServerInv, Stream
<1>4. \A m \in Nodes \ alive' : queue'[m] = <<>> BY <1>1 DEF NodeExits, ControlInv, TypeOK
<1>5. QED BY <1>2, <1>3, <1>4 DEF ControlInv

LEMMA ControlStep ==
  ASSUME TypeOK, ControlInv, [Next]_vars
  PROVE  ControlInv'
<1>1. CASE UNCHANGED vars
  BY <1>1 DEF vars, callerVars, serverVars, ControlInv, CallerInv, ServerInv, Stream
<1>2. CASE Next
  BY <1>2, CallerControl, ArrivalControl, HandlerControl, CancelControl, ExitControl DEF Next
<1>3. QED BY <1>1, <1>2

-----------------------------------------------------------------------------
(* Cancellation.                                                           *)

\* A call that ended cancelled stays so.
LEMMA CancelledStays ==
  ASSUME TypeOK, ControlInv, [Next]_vars, NEW d \in Calls, outcome[d] = "cancelled"
  PROVE  outcome'[d] = "cancelled"
<1>1. caller[d] = "closed" BY DEF ControlInv, CallerInv
<1>2. CASE UNCHANGED vars BY <1>2 DEF vars, callerVars
<1>3. ASSUME NEW c \in Calls, CallerStep(c) PROVE outcome'[d] = "cancelled"
  BY <1>1, <1>3 DEF CallerStep, Issue, IssueRefused, TakeFrame, HandFrame, Fire, Abort,
                    Close, Open, TypeOK
<1>4. ASSUME NEW c \in Calls, NEW n \in Nodes, FrameArrives(n, c)
      PROVE  outcome'[d] = "cancelled"
  <2>1. outcome' = outcome \/ (Open(c) /\ outcome' = [outcome EXCEPT ![c] = "answered"])
    BY <1>4, ArrivalCases
  <2>2. QED BY <1>1, <2>1 DEF Open, TypeOK
<1>5. ASSUME NEW c \in Calls, NEW n \in Nodes, CancelArrives(c, n) \/ HandlerStep(n, c)
      PROVE  outcome'[d] = "cancelled"
  BY <1>5, HandlerFrame DEF CancelArrives, callerVars
<1>6. ASSUME NEW n \in Nodes, NodeExits(n) PROVE outcome'[d] = "cancelled"
  BY <1>6 DEF NodeExits, callerVars
<1>7. QED BY <1>2, <1>3, <1>4, <1>5, <1>6 DEF Next

LEMMA CancelStep ==
  ASSUME TypeOK, ControlInv, CancelInv, [Next]_vars
  PROVE  CancelInv'
<1>1. \A d \in Calls : outcome[d] = "cancelled" => outcome'[d] = "cancelled"
  BY CancelledStays
<1>2. \A m \in cancels : m[1] \in Calls BY DEF TypeOK
<1>3. CASE cancels' \subseteq cancels /\ UNCHANGED stop
  BY <1>1, <1>2, <1>3 DEF CancelInv, StoppedForCause
<1>4. ASSUME NEW c \in Calls, Abort(c) PROVE CancelInv'
  <2>1. outcome'[c] = "cancelled" /\ stop' = stop
    BY <1>4 DEF Abort, Close, TypeOK, serverVars
  <2>2. \A m \in cancels' : m \in cancels \/ m[1] = c BY <1>4 DEF Abort
  <2>3. QED BY <1>1, <1>2, <2>1, <2>2 DEF CancelInv, StoppedForCause
<1>5. ASSUME NEW c \in Calls, NEW n \in Nodes, CancelArrives(c, n) PROVE CancelInv'
  <2>1. outcome[c] = "cancelled" BY <1>5 DEF CancelArrives, CancelInv
  <2>2. cancels' \subseteq cancels BY <1>5 DEF CancelArrives
  <2>3. \A m \in Nodes, d \in Calls : stop'[m][d] => stop[m][d] \/ d = c
    BY <1>5 DEF CancelArrives, TypeOK
  <2>4. QED BY <1>1, <1>2, <2>1, <2>2, <2>3 DEF CancelInv, StoppedForCause
<1>6. ASSUME NEW c \in Calls, CallerStep(c), ~Abort(c)
      PROVE  cancels' \subseteq cancels /\ UNCHANGED stop
  BY <1>6 DEF CallerStep, Issue, IssueRefused, TakeFrame, HandFrame, Fire, serverVars
<1>7. ASSUME NEW c \in Calls, NEW n \in Nodes, FrameArrives(n, c) \/ HandlerStep(n, c)
      PROVE  cancels' \subseteq cancels /\ UNCHANGED stop
  BY <1>7, HandlerFrame DEF FrameArrives, serverVars
<1>8. ASSUME NEW n \in Nodes, NodeExits(n) PROVE cancels' \subseteq cancels /\ UNCHANGED stop
  BY <1>8 DEF NodeExits
<1>9. CASE UNCHANGED vars BY <1>3, <1>9 DEF vars, serverVars
<1>10. QED BY <1>3, <1>4, <1>5, <1>6, <1>7, <1>8, <1>9 DEF Next

-----------------------------------------------------------------------------
(* Frames that were published, and those on their way.                     *)

LEMMA PublishedSame ==
  ASSUME NEW n \in Nodes, NEW c \in Calls, made'[n][c] = made[n][c],
         server'[n][c] = "answered" <=> server[n][c] = "answered"
  PROVE  Published(n, c)' = Published(n, c)
BY DEF Published

\* A step of a handler publishes at most one frame, its next.
LEMMA Publishes ==
  ASSUME TypeOK, ControlInv, NEW c \in Calls, NEW n \in Nodes, HandlerStep(n, c)
  PROVE  \/ /\ UNCHANGED <<made, net>>
            /\ server'[n][c] = "answered" <=> server[n][c] = "answered"
         \/ \E t \in BOOLEAN :
              /\ Publish(n, c, t)
              /\ server[n][c] \in {"started", "running"}
              /\ server'[n][c] = "answered" <=> t
              /\ made[n][c] <= MaxChunks
<1>0. ServerInv(n, c) BY DEF ControlInv
<1>1. CASE HandlerStarts(n, c) BY <1>1 DEF HandlerStarts, TypeOK
<1>2. CASE HandlerRefuses(n, c)
  <2>1. Publish(n, c, TRUE) /\ server[n][c] = "started" BY <1>2 DEF HandlerRefuses
  <2>2. server'[n][c] = "answered" BY <1>2 DEF HandlerRefuses, HandlerReturns, TypeOK
  <2>3. made[n][c] <= MaxChunks
    BY <1>0, <2>1, MeshCallsAssumption DEF ServerInv, MeshCallsAssumption
  <2>4. QED BY <2>1, <2>2, <2>3
<1>3. CASE HandlerCalls(n, c) BY <1>3 DEF HandlerCalls, TypeOK
<1>4. CASE HandlerEmits(n, c) BY <1>0, <1>4 DEF HandlerEmits, TypeOK, ServerInv
<1>5. CASE HandlerAnswers(n, c)
  BY <1>0, <1>5 DEF HandlerAnswers, HandlerReturns, TypeOK, ServerInv
<1>6. CASE HandlerBreaksOff(n, c) BY <1>6 DEF HandlerBreaksOff, HandlerReturns, TypeOK
<1>7. QED BY <1>1, <1>2, <1>3, <1>4, <1>5, <1>6 DEF HandlerStep

LEMMA PublishedGrows ==
  ASSUME TypeOK, NEW c \in Calls, NEW n \in Nodes, NEW t \in BOOLEAN,
         Publish(n, c, t), server[n][c] \in {"started", "running"},
         server'[n][c] = "answered" <=> t
  PROVE  /\ made'[n][c] = made[n][c] + 1
         /\ net'[n][c] = Append(net[n][c], Frame(n, made[n][c] + 1, t))
         /\ Published(n, c)' = Published(n, c) \cup {Frame(n, made[n][c] + 1, t)}
<1>1. made[n][c] \in Nat BY MeshCallsAssumption DEF TypeOK, MeshCallsAssumption
<1>2. made'[n][c] = made[n][c] + 1 BY DEF Publish, TypeOK
<1>3. net'[n][c] = Append(net[n][c], Frame(n, made[n][c] + 1, t)) BY DEF Publish, TypeOK
<1>4. Published(n, c) = {Frame(n, k, FALSE) : k \in 1 .. made[n][c]}
  BY DEF Published
<1>5. Published(n, c)' = {Frame(n, k, t /\ k = made[n][c] + 1) : k \in 1 .. (made[n][c] + 1)}
  BY <1>2 DEF Published
<1>6. ASSUME NEW k \in 1 .. made[n][c]
      PROVE  Frame(n, k, FALSE) = Frame(n, k, t /\ k = made[n][c] + 1)
  <2>1. FALSE = (t /\ k = made[n][c] + 1) BY <1>1
  <2>2. QED BY <2>1
<1>7. Frame(n, made[n][c] + 1, t) = Frame(n, made[n][c] + 1, t /\ made[n][c] + 1 = made[n][c] + 1)
  OBVIOUS
<1> HIDE DEF Frame
<1>8. 1 .. (made[n][c] + 1) = (1 .. made[n][c]) \cup {made[n][c] + 1} BY <1>1
<1>9. Published(n, c)' = {Frame(n, k, t /\ k = made[n][c] + 1) : k \in 1 .. made[n][c]}
                         \cup {Frame(n, made[n][c] + 1, t)}
  BY <1>5, <1>7, <1>8
<1>10. {Frame(n, k, t /\ k = made[n][c] + 1) : k \in 1 .. made[n][c]} = Published(n, c)
  <2> DEFINE G(k) == Frame(n, k, FALSE)
             H(k) == Frame(n, k, t /\ k = made[n][c] + 1)
  <2>1. \A k \in 1 .. made[n][c] : G(k) = H(k) BY <1>6
  <2> HIDE DEF G, H
  <2>2. {H(k) : k \in 1 .. made[n][c]} = {G(k) : k \in 1 .. made[n][c]} BY <2>1
  <2>3. QED BY <1>4, <2>2 DEF G, H
<1>11. QED BY <1>2, <1>3, <1>9, <1>10

\* The rest of what is on its way to a call.
LEMMA TailIndex ==
  ASSUME NEW S, NEW s \in Seq(S), s # <<>>
  PROVE  /\ Tail(s) \in Seq(S) /\ Len(Tail(s)) = Len(s) - 1 /\ Len(s) \in Nat \ {0}
         /\ \A i \in 1 .. (Len(s) - 1) : i + 1 \in 1 .. Len(s) /\ Tail(s)[i] = s[i + 1]
         /\ Head(s) = s[1] /\ Head(s) \in S
OBVIOUS

LEMMA EarlierNumber ==
  ASSUME NEW x \in Int, NEW i \in Int, NEW j \in Int, i < j, NEW y, y = x + (j - i)
  PROVE  x < y
OBVIOUS

LEMMA NetArrival ==
  ASSUME TypeOK, NEW n \in Nodes, NEW c \in Calls, NetInv(n, c), net[n][c] # <<>>,
         net'[n][c] = Tail(net[n][c]), made'[n][c] = made[n][c],
         Published(n, c)' = Published(n, c), alive' = alive
  PROVE  NetInv(n, c)'
<1> DEFINE s == net[n][c]
           t == Tail(s)
<1>1. s \in Seq(Frames) BY DEF TypeOK
<1>2. t \in Seq(Frames) /\ Len(t) = Len(s) - 1 /\ Len(s) \in Nat \ {0}
      /\ \A i \in 1 .. (Len(s) - 1) : i + 1 \in 1 .. Len(s) /\ t[i] = s[i + 1]
  BY <1>1, TailIndex
<1>3. DOMAIN t = 1 .. (Len(s) - 1) /\ DOMAIN s = 1 .. Len(s) BY <1>1, <1>2
<1>4. \A i \in DOMAIN t : t[i] \in Published(n, c) BY <1>2, <1>3 DEF NetInv
<1>5. ASSUME NEW i \in DOMAIN t, NEW j \in DOMAIN t PROVE t[j].seq = t[i].seq + (j - i)
  <2>1. s[j + 1].seq = s[i + 1].seq + ((j + 1) - (i + 1)) BY <1>2, <1>3, <1>5 DEF NetInv
  <2>2. (j + 1) - (i + 1) = j - i BY <1>3, <1>5
  <2>3. QED BY <1>2, <1>3, <1>5, <2>1, <2>2
<1>6. ASSUME n \in alive, NEW i \in DOMAIN t PROVE t[i].seq = made[n][c] - Len(t) + i
  <2>1. s[i + 1].seq = made[n][c] - Len(s) + (i + 1) BY <1>2, <1>3, <1>6 DEF NetInv
  <2>2. made[n][c] \in Nat BY MeshCallsAssumption DEF TypeOK, MeshCallsAssumption
  <2>3. t[i] = s[i + 1] BY <1>2, <1>3, <1>6
  <2> DEFINE m == made[n][c]
             l == Len(s)
             k == Len(t)
  <2>4. i \in Int /\ m \in Int /\ l \in Int /\ k = l - 1 BY <1>2, <1>3, <1>6, <2>2
  <2>5. m - l + (i + 1) = m - k + i
    <3> HIDE DEF m, l, k
    <3>1. QED BY <2>4
  <2>6. QED BY <2>1, <2>3, <2>5
<1> HIDE DEF t
<1>7. net'[n][c] = t BY DEF t
<1>8. QED BY <1>4, <1>5, <1>6, <1>7 DEF NetInv

LEMMA NetPublish ==
  ASSUME TypeOK, NEW n \in Nodes, NEW c \in Calls, NEW t \in BOOLEAN,
         NetInv(n, c), n \in alive, alive' = alive, made[n][c] <= MaxChunks,
         Publish(n, c, t), server[n][c] \in {"started", "running"},
         server'[n][c] = "answered" <=> t
  PROVE  NetInv(n, c)'
<1> DEFINE s == net[n][c]
           f == Frame(n, made[n][c] + 1, t)
           u == Append(s, f)
<1>1. s \in Seq(Frames) /\ made[n][c] \in Nat /\ made[n][c] + 1 \in 1 .. (MaxChunks + 1)
  BY MeshCallsAssumption DEF TypeOK, MeshCallsAssumption
<1>2. f \in Frames /\ f.seq = made[n][c] + 1 BY <1>1, FrameTypes
<1> HIDE DEF f
<1>3. /\ made'[n][c] = made[n][c] + 1
      /\ net'[n][c] = u
      /\ Published(n, c)' = Published(n, c) \cup {f}
  BY PublishedGrows DEF f
<1>4. Len(u) = Len(s) + 1 /\ DOMAIN u = 1 .. (Len(s) + 1) /\ Len(s) \in Nat
      /\ DOMAIN s = 1 .. Len(s)
      /\ \A i \in 1 .. (Len(s) + 1) : u[i] = IF i <= Len(s) THEN s[i] ELSE f
  BY <1>1, <1>2
<1> HIDE DEF u
<1>5. \A i \in DOMAIN u : u[i] \in Published(n, c) \cup {f} BY <1>4 DEF NetInv
<1>6. ASSUME NEW i \in DOMAIN u PROVE u[i].seq = (made[n][c] + 1) - Len(u) + i
  <2>1. CASE i <= Len(s)
    <3>1. s[i].seq = made[n][c] - Len(s) + i BY <1>4, <1>6, <2>1 DEF NetInv
    <3>2. u[i] = s[i] BY <1>4, <1>6, <2>1
    <3> DEFINE m == made[n][c]
               l == Len(s)
               k == Len(u)
    <3>3. i \in Int /\ m \in Int /\ l \in Int /\ k = l + 1 BY <1>1, <1>4
    <3>4. m - l + i = (m + 1) - k + i
      <4> HIDE DEF m, l, k
      <4>1. QED BY <3>3
    <3>5. QED BY <3>1, <3>2, <3>4
  <2>2. CASE i = Len(s) + 1
    <3>1. u[i] = f BY <1>4, <2>2
    <3>2. made[n][c] + 1 = (made[n][c] + 1) - Len(u) + i BY <1>1, <1>4, <2>2
    <3>3. QED BY <1>2, <3>1, <3>2
  <2>3. QED BY <1>4, <1>6, <2>1, <2>2
<1>7. \A i, j \in DOMAIN u : u[j].seq = u[i].seq + (j - i) BY <1>1, <1>4, <1>6
<1>8. \A i \in DOMAIN net'[n][c] : net'[n][c][i] \in Published(n, c)' BY <1>3, <1>5
<1>9. \A i, j \in DOMAIN net'[n][c] : net'[n][c][j].seq = net'[n][c][i].seq + (j - i)
  BY <1>3, <1>7
<1>10. \A i \in DOMAIN net'[n][c] : net'[n][c][i].seq = made'[n][c] - Len(net'[n][c]) + i
  <2>1. net'[n][c] = u /\ made'[n][c] = made[n][c] + 1 BY <1>3
  <2>2. \A i \in DOMAIN u : u[i].seq = (made[n][c] + 1) - Len(u) + i BY <1>6
  <2>3. QED BY <2>1, <2>2, Zenon
<1>11. QED BY <1>8, <1>9, <1>10 DEF NetInv

LEMMA NetExit ==
  ASSUME TypeOK, NEW n \in Nodes, NEW c \in Calls, NEW k \in Nat, NetInv(n, c),
         k <= Len(net[n][c]), net'[n][c] = SubSeq(net[n][c], 1, k),
         Published(n, c)' = Published(n, c), n \notin alive'
  PROVE  /\ NetInv(n, c)'
         /\ Len(net'[n][c]) = k
         /\ DOMAIN net'[n][c] = 1 .. k
         /\ \A i \in 1 .. k : net'[n][c][i] = net[n][c][i]
<1> DEFINE s == net[n][c]
           t == SubSeq(s, 1, k)
<1>1. s \in Seq(Frames) BY DEF TypeOK
<1>2. Len(t) = k /\ \A i \in 1 .. k : t[i] = s[i] BY <1>1
<1>3. DOMAIN t = 1 .. k /\ \A i \in 1 .. k : i \in DOMAIN s BY <1>1
<1> HIDE DEF t
<1>4. net'[n][c] = t BY DEF t
<1>5. \A i \in DOMAIN t : t[i] \in Published(n, c) BY <1>2, <1>3 DEF NetInv
<1>6. \A i, j \in DOMAIN t : t[j].seq = t[i].seq + (j - i) BY <1>2, <1>3 DEF NetInv
<1>7. NetInv(n, c)' BY <1>4, <1>5, <1>6 DEF NetInv
<1>8. QED BY <1>2, <1>3, <1>4, <1>7

LEMMA NetSame ==
  ASSUME NEW n \in Nodes, NEW c \in Calls, NetInv(n, c), net'[n][c] = net[n][c],
         made'[n][c] = made[n][c], Published(n, c)' = Published(n, c),
         n \in alive' => n \in alive
  PROVE  NetInv(n, c)'
BY DEF NetInv

\* A caller and cancel messages leave what was published alone.
LEMMA NothingPublished ==
  ASSUME NEW c \in Calls,
         CallerStep(c) \/ (\E n \in Nodes : CancelArrives(c, n)) \/ UNCHANGED vars
  PROVE  UNCHANGED <<server, made, net, alive>>
BY DEF CallerStep, Issue, IssueRefused, TakeFrame, HandFrame, Fire, Abort, CancelArrives,
       vars, serverVars

\* What a frame that arrives changes on the network.
LEMMA ArrivalNet ==
  ASSUME TypeOK, NEW c \in Calls, NEW n \in Nodes, FrameArrives(n, c)
  PROVE  /\ UNCHANGED <<server, made, alive, hand, fired>>
         /\ net[n][c] # <<>>
         /\ net'[n][c] = Tail(net[n][c])
         /\ \A m \in Nodes, d \in Calls : m # n \/ d # c => net'[m][d] = net[m][d]
BY DEF FrameArrives, TypeOK, serverVars

\* What an exit changes.
LEMMA ExitNet ==
  ASSUME TypeOK, NEW n \in Nodes, NodeExits(n)
  PROVE  /\ UNCHANGED <<made, callerVars>>
         /\ alive' = alive \ {n} /\ n \in alive
         /\ \A m \in Nodes, d \in Calls :
              server'[m][d] = "answered" <=> server[m][d] = "answered"
         /\ \A m \in Nodes \ {n}, d \in Calls : net'[m][d] = net[m][d]
         /\ \A d \in Calls : \E k \in Nat :
              k <= Len(net[n][d]) /\ net'[n][d] = SubSeq(net[n][d], 1, k)
<1>1. UNCHANGED <<made, callerVars>> /\ alive' = alive \ {n} /\ n \in alive
  BY DEF NodeExits
<1>2. \A m \in Nodes, d \in Calls :
        server'[m][d] = "answered" <=> server[m][d] = "answered"
  BY DEF NodeExits, TypeOK
<1>3. PICK written \in [Calls -> 0 .. (MaxChunks + 1)] :
        /\ \A d \in Calls : written[d] <= Len(net[n][d])
        /\ net' = [net EXCEPT ![n] = [d \in Calls |-> SubSeq(@[d], 1, written[d])]]
  BY DEF NodeExits
<1>4. \A m \in Nodes \ {n}, d \in Calls : net'[m][d] = net[m][d] BY <1>3 DEF TypeOK
<1>5. ASSUME NEW d \in Calls
      PROVE  \E k \in Nat : k <= Len(net[n][d]) /\ net'[n][d] = SubSeq(net[n][d], 1, k)
  <2>1. written[d] \in Nat BY <1>3, MeshCallsAssumption DEF MeshCallsAssumption
  <2>2. net'[n][d] = SubSeq(net[n][d], 1, written[d]) BY <1>3 DEF TypeOK
  <2>3. QED BY <1>3, <2>1, <2>2
<1>6. QED BY <1>1, <1>2, <1>4, <1>5

LEMMA NetStep ==
  ASSUME TypeOK, ControlInv, \A n \in Nodes, c \in Calls : NetInv(n, c), [Next]_vars
  PROVE  \A n \in Nodes, c \in Calls : NetInv(n, c)'
<1> SUFFICES ASSUME NEW m \in Nodes, NEW d \in Calls PROVE NetInv(m, d)'
  OBVIOUS
<1>0. NetInv(m, d) OBVIOUS
<1>1. ASSUME UNCHANGED <<server, made, net, alive>> PROVE NetInv(m, d)'
  BY <1>0, <1>1, NetSame, PublishedSame
<1>2. ASSUME NEW c \in Calls, NEW n \in Nodes, FrameArrives(n, c) PROVE NetInv(m, d)'
  <2>1. UNCHANGED <<server, made, alive>> BY <1>2, ArrivalNet
  <2>2. Published(m, d)' = Published(m, d) BY <2>1, PublishedSame
  <2>3. CASE m = n /\ d = c BY <1>0, <1>2, <2>1, <2>2, <2>3, ArrivalNet, NetArrival
  <2>4. CASE m # n \/ d # c BY <1>0, <1>2, <2>1, <2>2, <2>4, ArrivalNet, NetSame
  <2>5. QED BY <2>3, <2>4
<1>3. ASSUME NEW c \in Calls, NEW n \in Nodes, HandlerStep(n, c) PROVE NetInv(m, d)'
  <2>1. alive' = alive /\ n \in alive BY <1>3, HandlerFrame, HandlerRuns
  <2>2. CASE m # n \/ d # c
    <3>1. server'[m][d] = server[m][d] /\ made'[m][d] = made[m][d] /\ net'[m][d] = net[m][d]
      BY <1>3, <2>2, HandlerFrame
    <3>2. QED BY <1>0, <2>1, <3>1, NetSame, PublishedSame
  <2>3. CASE m = n /\ d = c
    <3>1. CASE UNCHANGED <<made, net>> /\ (server'[n][c] = "answered" <=> server[n][c] = "answered")
      BY <1>0, <2>1, <2>3, <3>1, NetSame, PublishedSame
    <3>2. ASSUME NEW t \in BOOLEAN, Publish(n, c, t), server[n][c] \in {"started", "running"},
                 server'[n][c] = "answered" <=> t, made[n][c] <= MaxChunks
          PROVE  NetInv(n, c)'
      BY <1>0, <2>1, <2>3, <3>2, NetPublish
    <3>3. QED BY <1>3, <2>3, <3>1, <3>2, Publishes
  <2>4. QED BY <2>2, <2>3
<1>4. ASSUME NEW n \in Nodes, NodeExits(n) PROVE NetInv(m, d)'
  <2>1. made' = made /\ alive' = alive \ {n}
        /\ (server'[m][d] = "answered" <=> server[m][d] = "answered")
    BY <1>4, ExitNet
  <2>2. Published(m, d)' = Published(m, d) BY <2>1, PublishedSame
  <2>3. CASE m # n
    <3>1. net'[m][d] = net[m][d] BY <1>4, <2>3, ExitNet
    <3>2. QED BY <1>0, <2>1, <2>2, <3>1, NetSame
  <2>4. CASE m = n
    <3>1. PICK k \in Nat : k <= Len(net[n][d]) /\ net'[n][d] = SubSeq(net[n][d], 1, k)
      BY <1>4, ExitNet
    <3>2. n \notin alive' BY <2>1
    <3>3. QED BY <1>0, <2>2, <2>4, <3>1, <3>2, NetExit
  <2>5. QED BY <2>3, <2>4
<1>5. QED BY <1>1, <1>2, <1>3, <1>4, NothingPublished DEF Next

-----------------------------------------------------------------------------
(* What waits for a call.                                                  *)

\* What an open call has is a sequence of frames.
LEMMA PipeType ==
  ASSUME TypeOK, ControlInv, NEW c \in Calls
  PROVE  Pipe(c) \in Seq(Frames)
<1>1. got[c] \in Seq(Frames) /\ raw[c] \in Seq(Frames) BY DEF TypeOK
<1>2. caller[c] = "holding" => <<hand[c]>> \in Seq(Frames) BY DEF ControlInv, CallerInv
<1>3. (IF caller[c] = "holding" THEN <<hand[c]>> ELSE <<>>) \in Seq(Frames) BY <1>2
<1>4. QED BY <1>1, <1>3, ConcatProperties DEF Pipe

LEMMA PipeSame ==
  ASSUME NEW c \in Calls, PipeInv(c), Pipe(c)' = Pipe(c), missed'[c] = missed[c],
         alive' = alive,
         \A n \in Nodes : /\ net'[n][c] = net[n][c]
                          /\ made'[n][c] = made[n][c]
                          /\ Published(n, c)' = Published(n, c)
  PROVE  PipeInv(c)'
BY DEF PipeInv, Lost

\* The frame is taken from the inbox, or handed over: the order is the same.
LEMMA PipeTakes ==
  ASSUME TypeOK, ControlInv, NEW c \in Calls, TakeFrame(c)
  PROVE  Pipe(c)' = Pipe(c)
<1> DEFINE g == got[c]
           r == raw[c]
<1>1. g \in Seq(Frames) /\ r \in Seq(Frames) /\ r # <<>> BY DEF TakeFrame, TypeOK
<1>2. Pipe(c) = (g \o <<>>) \o r BY DEF Pipe, TakeFrame
<1>3. Pipe(c)' = (g \o <<Head(r)>>) \o Tail(r) BY DEF Pipe, TakeFrame, TypeOK
<1> HIDE DEF g, r
<1>4. Head(r) \in Frames /\ Tail(r) \in Seq(Frames) BY <1>1, TailIndex
<1>5. g \o <<>> = g BY <1>1
<1>6. (g \o <<Head(r)>>) \o Tail(r) = g \o (<<Head(r)>> \o Tail(r))
  BY <1>1, <1>4, ConcatAssociative
<1>7. <<Head(r)>> \o Tail(r) = r
  <2>1. <<Head(r)>> \in Seq(Frames) BY <1>4
  <2> DEFINE u == <<Head(r)>> \o Tail(r)
  <2>2. u \in Seq(Frames) /\ Len(u) = Len(<<Head(r)>>) + Len(Tail(r))
        /\ \A i \in 1 .. Len(<<Head(r)>>) + Len(Tail(r)) :
             u[i] = IF i <= Len(<<Head(r)>>) THEN <<Head(r)>>[i] ELSE Tail(r)[i - Len(<<Head(r)>>)]
    BY <1>4, <2>1, ConcatProperties
  <2>3. Len(<<Head(r)>>) = 1 /\ <<Head(r)>>[1] = r[1] BY <1>1
  <2> HIDE DEF u
  <2>4. Len(u) = Len(r) /\ Len(r) \in Nat BY <1>1, <2>2, <2>3, TailIndex
  <2>5. ASSUME NEW i \in 1 .. Len(u) PROVE u[i] = r[i]
    <3>1. CASE i = 1 BY <2>2, <2>3, <2>4, <3>1
    <3>2. CASE i > 1
      <4>1. i - 1 \in 1 .. (Len(r) - 1) /\ (i - 1) + 1 = i BY <2>4, <3>2
      <4>2. Tail(r)[i - 1] = r[i] BY <1>1, <4>1, TailIndex
      <4>3. u[i] = Tail(r)[i - 1] BY <2>2, <2>3, <2>4, <3>2
      <4>4. QED BY <4>2, <4>3
    <3>3. QED BY <2>4, <3>1, <3>2
  <2>6. QED BY <1>1, <2>2, <2>4, <2>5, SeqEqual DEF u
<1>8. QED BY <1>2, <1>3, <1>5, <1>6, <1>7

LEMMA PipeHands ==
  ASSUME TypeOK, ControlInv, NEW c \in Calls, HandFrame(c), ~hand[c].done
  PROVE  Pipe(c)' = Pipe(c)
<1>1. got[c] \in Seq(Frames) /\ raw[c] \in Seq(Frames) /\ hand[c] \in Frames
  BY DEF HandFrame, TypeOK, ControlInv, CallerInv
<1>2. Pipe(c) = (got[c] \o <<hand[c]>>) \o raw[c] BY DEF Pipe, HandFrame
<1>3. Pipe(c)' = (Append(got[c], hand[c]) \o <<>>) \o raw[c] BY DEF Pipe, HandFrame, TypeOK
<1>4. Append(got[c], hand[c]) = got[c] \o <<hand[c]>> BY <1>1, AppendIsConcat
<1>5. Append(got[c], hand[c]) \in Seq(Frames) BY <1>1
<1>6. Append(got[c], hand[c]) \o <<>> = Append(got[c], hand[c]) BY <1>5
<1>7. QED BY <1>2, <1>3, <1>4, <1>6

\* A frame that finds room comes last.
LEMMA PipeGets ==
  ASSUME TypeOK, ControlInv, NEW c \in Calls, NEW f \in Frames,
         raw' = [raw EXCEPT ![c] = Append(@, f)], UNCHANGED <<caller, got, hand>>
  PROVE  Pipe(c)' = Append(Pipe(c), f)
<1> DEFINE h == IF caller[c] = "holding" THEN <<hand[c]>> ELSE <<>>
           g == got[c] \o h
           r == raw[c]
<1>1. got[c] \in Seq(Frames) /\ r \in Seq(Frames) BY DEF TypeOK
<1>2. h \in Seq(Frames) BY DEF ControlInv, CallerInv
<1>3. Pipe(c) = g \o r BY DEF Pipe
<1>4. Pipe(c)' = g \o Append(r, f) BY DEF Pipe, TypeOK
<1> HIDE DEF h
<1>5. g \in Seq(Frames) BY <1>1, <1>2, ConcatProperties
<1> HIDE DEF g, r
<1>6. g \o r \in Seq(Frames) BY <1>1, <1>5, ConcatProperties
<1>7. Append(r, f) = r \o <<f>> BY <1>1, AppendIsConcat
<1>8. Append(g \o r, f) = (g \o r) \o <<f>> BY <1>6, AppendIsConcat
<1>9. (g \o r) \o <<f>> = g \o (r \o <<f>>) BY <1>1, <1>5, ConcatAssociative
<1>10. QED BY <1>3, <1>4, <1>7, <1>8, <1>9

\* The next frame of node n is later than all that the call has from n, and
\* unless one was dropped the call has all earlier ones.
LEMMA NextInLine ==
  ASSUME TypeOK, ControlInv, NEW n \in Nodes, NEW c \in Calls, NetInv(n, c), PipeInv(c),
         net[n][c] # <<>>
  PROVE  LET f == Head(net[n][c])
         IN /\ f \in Published(n, c) /\ f \in Frames /\ f.from = n /\ f.seq \in 1 .. made[n][c]
            /\ \A i \in DOMAIN Pipe(c) : Pipe(c)[i].from = n => Pipe(c)[i].seq < f.seq
            /\ missed[c] = 0 => \A k \in 1 .. (f.seq - 1) : Has(Pipe(c), n, k)
<1> DEFINE s == net[n][c]
           f == Head(s)
<1>1. s \in Seq(Frames) /\ Len(s) \in Nat \ {0} /\ DOMAIN s = 1 .. Len(s) /\ f = s[1]
      /\ 1 \in DOMAIN s
  BY DEF TypeOK
<1> HIDE DEF f
<1>2. f \in Published(n, c) BY <1>1 DEF NetInv
<1>3. f \in Frames /\ f.from = n /\ f.seq \in 1 .. made[n][c] BY <1>2, PublishedTypes
<1>4. ASSUME NEW i \in DOMAIN Pipe(c), Pipe(c)[i].from = n PROVE Pipe(c)[i].seq < f.seq
  BY <1>1, <1>4 DEF PipeInv
<1>5. ASSUME missed[c] = 0, NEW k \in 1 .. (f.seq - 1) PROVE Has(Pipe(c), n, k)
  <2>1. made[n][c] \in Nat BY MeshCallsAssumption DEF TypeOK, MeshCallsAssumption
  <2>2. k \in 1 .. made[n][c] /\ k < f.seq BY <1>3, <1>5, <2>1
  <2>3. \/ Has(Pipe(c), n, k)
        \/ \E j \in DOMAIN s : s[j].seq = k
        \/ Lost(n, c, k)
    BY <1>5, <2>2 DEF PipeInv
  <2>4. ASSUME NEW j \in DOMAIN s, s[j].seq = k PROVE FALSE
    <3>1. s[j].seq = s[1].seq + (j - 1) BY <1>1, <2>4 DEF NetInv
    <3>2. QED BY <1>1, <1>3, <2>1, <2>2, <2>4, <3>1
  <2>5. ~Lost(n, c, k)
    <3>1. s[1].seq = f.seq BY <1>1
    <3>2. ~(f.seq < k) BY <1>3, <2>1, <2>2
    <3>3. QED BY <1>1, <3>1, <3>2 DEF Lost
  <2>6. QED BY <2>3, <2>4, <2>5
<1>6. QED BY <1>2, <1>3, <1>4, <1>5 DEF f

\* A frame that arrives and is kept.
LEMMA PipeArrives ==
  ASSUME TypeOK, ControlInv, NEW n \in Nodes, NEW c \in Calls,
         \A m \in Nodes : NetInv(m, c), PipeInv(c), FrameArrives(n, c),
         raw' = [raw EXCEPT ![c] = Append(@, Head(net[n][c]))],
         UNCHANGED <<caller, got, missed>>
  PROVE  PipeInv(c)'
<1> DEFINE f == Head(net[n][c])
           s == Pipe(c)
           u == Append(s, f)
           w == net[n][c]
<1>1. UNCHANGED <<server, made, alive, hand>> /\ w # <<>> /\ net'[n][c] = Tail(w)
      /\ \A m \in Nodes : m # n => net'[m][c] = net[m][c]
  BY ArrivalNet
<1>2. \A m \in Nodes : Published(m, c)' = Published(m, c) BY <1>1, PublishedSame
<1>3. /\ f \in Published(n, c) /\ f \in Frames /\ f.from = n /\ f.seq \in 1 .. made[n][c]
      /\ \A i \in DOMAIN s : s[i].from = n => s[i].seq < f.seq
      /\ missed[c] = 0 => \A k \in 1 .. (f.seq - 1) : Has(s, n, k)
  BY <1>1, NextInLine
<1>4. w \in Seq(Frames) BY DEF TypeOK
<1>5. /\ Tail(w) \in Seq(Frames) /\ Len(Tail(w)) = Len(w) - 1 /\ Len(w) \in Nat \ {0}
      /\ \A i \in 1 .. (Len(w) - 1) : i + 1 \in 1 .. Len(w) /\ Tail(w)[i] = w[i + 1]
      /\ f = w[1]
  BY <1>1, <1>4, TailIndex
<1>6. DOMAIN w = 1 .. Len(w) /\ DOMAIN Tail(w) = 1 .. (Len(w) - 1) BY <1>4, <1>5
<1> HIDE DEF f
<1>7. Pipe(c)' = u BY <1>1, <1>3, PipeGets DEF f
<1>8. s \in Seq(Frames) BY PipeType
<1> HIDE DEF s
<1>9. /\ Len(s) \in Nat /\ DOMAIN s = 1 .. Len(s) /\ DOMAIN u = 1 .. (Len(s) + 1)
      /\ \A i \in 1 .. Len(s) : u[i] = s[i]
      /\ u[Len(s) + 1] = f
  BY <1>3, <1>8
<1> HIDE DEF u
<1>10. \A i \in DOMAIN u : u[i] = Refusal \/ \E m \in Nodes : u[i] \in Published(m, c)
  <2>1. \A i \in DOMAIN s : s[i] = Refusal \/ \E m \in Nodes : s[i] \in Published(m, c)
    BY DEF PipeInv, s
  <2>2. QED BY <1>3, <1>9, <2>1
<1>11. Ordered(u)
  <2>1. Ordered(s) BY DEF PipeInv, s
  <2>2. ASSUME NEW i \in DOMAIN u, NEW j \in DOMAIN u, i < j, u[i].from = u[j].from
        PROVE  u[i].seq < u[j].seq
    <3>1. i \in DOMAIN s /\ u[i] = s[i] BY <1>9, <2>2
    <3>2. CASE j \in DOMAIN s BY <1>9, <2>1, <2>2, <3>1, <3>2 DEF Ordered
    <3>3. CASE j = Len(s) + 1 BY <1>3, <1>9, <2>2, <3>1, <3>3
    <3>4. QED BY <1>9, <3>2, <3>3
  <2>3. QED BY <2>2 DEF Ordered
<1>12. ASSUME NEW m \in Nodes, NEW i \in DOMAIN u, NEW j \in DOMAIN net'[m][c], u[i].from = m
       PROVE  u[i].seq < net'[m][c][j].seq
  <2>1. \A a \in DOMAIN s : \A b \in DOMAIN net[m][c] :
          s[a].from = m => s[a].seq < net[m][c][b].seq
    BY DEF PipeInv, s
  <2>2. CASE m # n
    <3>1. net'[m][c] = net[m][c] BY <1>1, <2>2
    <3>2. i \in DOMAIN s /\ u[i] = s[i] BY <1>3, <1>9, <1>12, <2>2
    <3>3. QED BY <1>12, <2>1, <3>1, <3>2
  <2>3. CASE m = n
    <3>1. j + 1 \in DOMAIN w /\ net'[m][c][j] = w[j + 1] BY <1>1, <1>5, <1>6, <1>12, <2>3
    <3>2. CASE i \in DOMAIN s
      <4>1. u[i] = s[i] BY <1>9, <3>2
      <4>2. s[i].seq < w[j + 1].seq BY <1>12, <2>1, <2>3, <3>1, <3>2, <4>1
      <4>3. QED BY <3>1, <4>1, <4>2
    <3>3. CASE i = Len(s) + 1
      <4>1. w[j + 1].seq = w[1].seq + ((j + 1) - 1) BY <1>5, <1>6, <3>1 DEF NetInv
      <4>2. j \in Nat \ {0}
        <5>1. j \in 1 .. (Len(w) - 1) BY <1>1, <1>6, <1>12, <2>3
        <5>2. Len(w) \in Nat BY <1>5
        <5>3. QED BY <5>1, <5>2
      <4>3. made[n][c] \in Nat BY MeshCallsAssumption DEF TypeOK, MeshCallsAssumption
      <4>4. u[i].seq = w[1].seq /\ w[1].seq \in Nat BY <1>3, <1>5, <1>9, <3>3, <4>3
      <4>5. QED BY <3>1, <4>1, <4>2, <4>4
    <3>4. QED BY <1>9, <3>2, <3>3
  <2>4. QED BY <2>2, <2>3
<1>13. ASSUME missed[c] = 0 PROVE NoGap(u)
  <2>1. NoGap(s) BY <1>13 DEF PipeInv, s
  <2>2. ASSUME NEW i \in DOMAIN u, NEW k \in 1 .. (u[i].seq - 1)
        PROVE  \E j \in 1 .. (i - 1) : u[j].from = u[i].from /\ u[j].seq = k
    <3>1. CASE i \in DOMAIN s
      <4>1. PICK j \in 1 .. (i - 1) : s[j].from = s[i].from /\ s[j].seq = k
        BY <1>9, <2>1, <2>2, <3>1 DEF NoGap
      <4>2. j \in 1 .. Len(s) BY <1>9, <3>1, <4>1
      <4>3. QED BY <1>9, <3>1, <4>1, <4>2
    <3>2. CASE i = Len(s) + 1
      <4>1. u[i] = f BY <1>9, <3>2
      <4>2. PICK j \in DOMAIN s : s[j].from = n /\ s[j].seq = k
        BY <1>3, <1>13, <2>2, <4>1 DEF Has
      <4>3. j \in 1 .. (i - 1) BY <1>9, <3>2, <4>2
      <4>4. QED BY <1>3, <1>9, <4>1, <4>2, <4>3
    <3>3. QED BY <1>9, <3>1, <3>2
  <2>3. QED BY <2>2 DEF NoGap
<1>14. ASSUME missed[c] = 0, NEW m \in Nodes, NEW k \in 1 .. made[m][c]
       PROVE  \/ Has(u, m, k)
              \/ \E j \in DOMAIN net'[m][c] : net'[m][c][j].seq = k
              \/ Lost(m, c, k)'
  <2>1. \/ Has(s, m, k)
        \/ \E j \in DOMAIN net[m][c] : net[m][c][j].seq = k
        \/ Lost(m, c, k)
    BY <1>14 DEF PipeInv, s
  <2>2. CASE Has(s, m, k) BY <1>9, <2>2 DEF Has
  <2>3. CASE \E j \in DOMAIN net[m][c] : net[m][c][j].seq = k
    <3>1. CASE m # n BY <1>1, <2>3, <3>1
    <3>2. CASE m = n
      <4>1. PICK j \in DOMAIN w : w[j].seq = k BY <2>3, <3>2
      <4>2. CASE j = 1
        <5>1. Len(s) + 1 \in DOMAIN u BY <1>9
        <5>2. QED BY <1>3, <1>5, <1>9, <3>2, <4>1, <4>2, <5>1 DEF Has
      <4>3. CASE j # 1
        <5>1. j - 1 \in 1 .. (Len(w) - 1) /\ (j - 1) + 1 = j BY <1>5, <1>6, <4>1, <4>3
        <5>2. Tail(w)[j - 1] = w[j] BY <1>5, <5>1
        <5>3. QED BY <1>1, <1>6, <3>2, <4>1, <5>1, <5>2
      <4>4. QED BY <4>2, <4>3
    <3>3. QED BY <3>1, <3>2
  <2>4. CASE Lost(m, c, k)
    <3>1. CASE m # n BY <1>1, <2>4, <3>1 DEF Lost
    <3>2. CASE m = n BY <1>1, <1>5, <1>6, <2>4, <3>2 DEF Lost
    <3>3. QED BY <3>1, <3>2
  <2>5. QED BY <2>1, <2>2, <2>3, <2>4
<1>15. QED BY <1>1, <1>2, <1>7, <1>10, <1>11, <1>12, <1>13, <1>14 DEF PipeInv

\* A frame that is dropped: what follows it on the network is still later than
\* all the call has.
LEMMA PipeDrops ==
  ASSUME TypeOK, ControlInv, NEW n \in Nodes, NEW c \in Calls, PipeInv(c),
         FrameArrives(n, c), missed' = [missed EXCEPT ![c] = @ + 1],
         UNCHANGED <<caller, raw, got>>
  PROVE  PipeInv(c)'
<1> DEFINE w == net[n][c]
<1>1. UNCHANGED <<server, made, alive, hand>> /\ w # <<>> /\ net'[n][c] = Tail(w)
      /\ \A m \in Nodes : m # n => net'[m][c] = net[m][c]
  BY ArrivalNet
<1>2. \A m \in Nodes : Published(m, c)' = Published(m, c) BY <1>1, PublishedSame
<1>3. missed'[c] # 0 BY DEF TypeOK
<1>4. Pipe(c)' = Pipe(c) BY <1>1 DEF Pipe
<1>5. w \in Seq(Frames) BY DEF TypeOK
<1>6. \A j \in DOMAIN Tail(w) : j + 1 \in DOMAIN w /\ Tail(w)[j] = w[j + 1]
  BY <1>1, <1>5, TailIndex
<1>7. ASSUME NEW m \in Nodes, NEW i \in DOMAIN Pipe(c), NEW j \in DOMAIN net'[m][c],
             Pipe(c)[i].from = m
      PROVE  Pipe(c)[i].seq < net'[m][c][j].seq
  <2>1. \A b \in DOMAIN net[m][c] : Pipe(c)[i].seq < net[m][c][b].seq BY <1>7 DEF PipeInv
  <2>2. CASE m # n BY <1>1, <1>7, <2>1, <2>2
  <2>3. CASE m = n
    <3>1. j \in DOMAIN Tail(w) /\ net'[m][c][j] = Tail(w)[j] BY <1>1, <1>7, <2>3
    <3>2. j + 1 \in DOMAIN net[m][c] /\ net'[m][c][j] = net[m][c][j + 1]
      BY <1>6, <2>3, <3>1
    <3>3. Pipe(c)[i].seq < net[m][c][j + 1].seq BY <2>1, <3>2
    <3>4. QED BY <3>2, <3>3
  <2>4. QED BY <2>2, <2>3
<1>8. (\A i \in DOMAIN Pipe(c) :
         Pipe(c)[i] = Refusal \/ \E m \in Nodes : Pipe(c)[i] \in Published(m, c))
      /\ Ordered(Pipe(c))
  BY DEF PipeInv
<1>9. QED BY <1>2, <1>3, <1>4, <1>7, <1>8 DEF PipeInv

\* A frame that is published is later than all the call has from its node.
LEMMA PipePublishes ==
  ASSUME TypeOK, ControlInv, NEW n \in Nodes, NEW c \in Calls, PipeInv(c),
         HandlerStep(n, c), NEW t \in BOOLEAN, Publish(n, c, t),
         server[n][c] \in {"started", "running"}, server'[n][c] = "answered" <=> t,
         made[n][c] <= MaxChunks
  PROVE  PipeInv(c)'
<1> DEFINE s == Pipe(c)
           w == net[n][c]
           f == Frame(n, made[n][c] + 1, t)
           x == Append(w, f)
<1>1. /\ UNCHANGED <<caller, raw, hand, got, missed, alive>>
      /\ \A m \in Nodes : m # n => /\ server'[m][c] = server[m][c]
                                   /\ made'[m][c] = made[m][c]
                                   /\ net'[m][c] = net[m][c]
  BY HandlerFrame
<1>2. Pipe(c)' = s BY <1>1 DEF Pipe
<1>3. w \in Seq(Frames) /\ made[n][c] \in Nat /\ made[n][c] + 1 \in 1 .. (MaxChunks + 1)
  BY MeshCallsAssumption DEF TypeOK, MeshCallsAssumption
<1>4. f \in Frames /\ f.seq = made[n][c] + 1 BY <1>3, FrameTypes
<1> HIDE DEF f
<1>5. made'[n][c] = made[n][c] + 1 /\ net'[n][c] = x
      /\ Published(n, c)' = Published(n, c) \cup {f}
  BY PublishedGrows DEF f
<1>6. \A m \in Nodes : m # n => Published(m, c)' = Published(m, c)
  BY <1>1, PublishedSame
<1>7. /\ DOMAIN w = 1 .. Len(w) /\ DOMAIN x = 1 .. (Len(w) + 1) /\ Len(w) \in Nat
      /\ x[Len(w) + 1] = f
      /\ \A i \in 1 .. Len(w) : x[i] = w[i]
  BY <1>3, <1>4
<1> HIDE DEF x
<1>8. n \in alive BY HandlerRuns
<1>9. s \in Seq(Frames) BY PipeType
<1>10. \A i \in DOMAIN s : s[i] = Refusal \/ \E m \in Nodes : s[i] \in Published(m, c)'
  <2>1. \A m \in Nodes : Published(m, c) \subseteq Published(m, c)' BY <1>5, <1>6
  <2>2. \A i \in DOMAIN s : s[i] = Refusal \/ \E m \in Nodes : s[i] \in Published(m, c)
    BY DEF PipeInv
  <2>3. QED BY <2>1, <2>2
<1>11. ASSUME NEW i \in DOMAIN s, s[i].from = n PROVE s[i].seq < f.seq
  <2>1. s[i] # Refusal BY <1>11, RefusalType, MeshCallsAssumption DEF MeshCallsAssumption
  <2>2. PICK m \in Nodes : s[i] \in Published(m, c) BY <2>1 DEF PipeInv
  <2>3. m = n /\ s[i].seq \in 1 .. made[n][c] BY <1>11, <2>2, PublishedTypes
  <2>4. QED BY <1>3, <1>4, <2>3
<1>12. ASSUME NEW m \in Nodes, NEW i \in DOMAIN s, NEW j \in DOMAIN net'[m][c], s[i].from = m
       PROVE  s[i].seq < net'[m][c][j].seq
  <2>1. \A b \in DOMAIN net[m][c] : s[i].seq < net[m][c][b].seq BY <1>12 DEF PipeInv
  <2>2. CASE m # n BY <1>1, <1>12, <2>1, <2>2
  <2>3. CASE m = n
    <3>1. CASE j \in DOMAIN w BY <1>5, <1>7, <2>1, <2>3, <3>1
    <3>2. CASE j = Len(w) + 1 BY <1>5, <1>7, <1>11, <1>12, <2>3, <3>2
    <3>3. j \in 1 .. (Len(w) + 1) BY <1>5, <1>7, <1>12, <2>3
    <3>4. QED BY <1>7, <3>1, <3>2, <3>3
  <2>4. QED BY <2>2, <2>3
<1>13. ASSUME missed[c] = 0, NEW m \in Nodes, NEW k \in 1 .. made'[m][c]
       PROVE  \/ Has(s, m, k)
              \/ \E j \in DOMAIN net'[m][c] : net'[m][c][j].seq = k
              \/ Lost(m, c, k)'
  <2>1. \A a \in 1 .. made[m][c] : \/ Has(s, m, a)
                                   \/ \E j \in DOMAIN net[m][c] : net[m][c][j].seq = a
                                   \/ Lost(m, c, a)
    BY <1>13 DEF PipeInv
  <2>2. CASE m # n
    <3>1. net'[m][c] = net[m][c] /\ made'[m][c] = made[m][c] BY <1>1, <2>2
    <3>2. Lost(m, c, k) => Lost(m, c, k)' BY <1>1, <3>1 DEF Lost
    <3>3. QED BY <1>13, <2>1, <3>1, <3>2
  <2>3. CASE m = n /\ k = made[n][c] + 1
    <3>1. Len(w) + 1 \in DOMAIN x BY <1>7
    <3>2. QED BY <1>4, <1>5, <1>7, <2>3, <3>1
  <2>4. CASE m = n /\ k # made[n][c] + 1
    <3>1. k \in 1 .. made[n][c] BY <1>3, <1>5, <1>13, <2>4
    <3>2. ~Lost(n, c, k) BY <1>8 DEF Lost
    <3>3. CASE Has(s, n, k) BY <2>4, <3>3
    <3>4. CASE \E j \in DOMAIN w : w[j].seq = k
      <4>1. PICK j \in DOMAIN w : w[j].seq = k BY <3>4
      <4>2. j \in DOMAIN x /\ x[j] = w[j] BY <1>7
      <4>3. QED BY <1>5, <2>4, <4>1, <4>2
    <3>5. QED BY <2>1, <2>4, <3>1, <3>2, <3>3, <3>4
  <2>5. QED BY <2>2, <2>3, <2>4
<1>14. Ordered(s) /\ (missed[c] = 0 => NoGap(s)) BY DEF PipeInv
<1>15. missed' = missed BY <1>1
<1> HIDE DEF s
<1>16. QED BY <1>2, <1>10, <1>12, <1>13, <1>14, <1>15 DEF PipeInv

\* The frames that an exit loses are the last of its node.
LEMMA PipeExits ==
  ASSUME TypeOK, ControlInv, NEW n \in Nodes, NEW c \in Calls, NetInv(n, c), PipeInv(c),
         NodeExits(n)
  PROVE  PipeInv(c)'
<1> DEFINE s == Pipe(c)
           w == net[n][c]
<1>1. /\ UNCHANGED <<made, callerVars>> /\ alive' = alive \ {n} /\ n \in alive
      /\ server'[n][c] = "answered" <=> server[n][c] = "answered"
      /\ \A m \in Nodes : m # n => net'[m][c] = net[m][c]
      /\ \A m \in Nodes : server'[m][c] = "answered" <=> server[m][c] = "answered"
  BY ExitNet
<1>2. PICK k \in Nat : k <= Len(w) /\ net'[n][c] = SubSeq(w, 1, k)
  BY ExitNet
<1>3. \A m \in Nodes : Published(m, c)' = Published(m, c) BY <1>1, PublishedSame
<1>4. /\ DOMAIN net'[n][c] = 1 .. k
      /\ \A i \in 1 .. k : net'[n][c][i] = w[i]
  BY <1>1, <1>2, <1>3, NetExit
<1>5. DOMAIN w = 1 .. Len(w) /\ Len(w) \in Nat BY DEF TypeOK
<1>6. Pipe(c)' = s BY <1>1 DEF Pipe, callerVars
<1>7. ASSUME NEW m \in Nodes, NEW i \in DOMAIN s, NEW j \in DOMAIN net'[m][c], s[i].from = m
      PROVE  s[i].seq < net'[m][c][j].seq
  <2>1. \A b \in DOMAIN net[m][c] : s[i].seq < net[m][c][b].seq BY <1>7 DEF PipeInv
  <2>2. CASE m # n BY <1>1, <1>7, <2>1, <2>2
  <2>3. CASE m = n
    <3>1. j \in DOMAIN w /\ net'[n][c][j] = w[j] BY <1>2, <1>4, <1>5, <1>7, <2>3
    <3>2. QED BY <2>1, <2>3, <3>1
  <2>4. QED BY <2>2, <2>3
<1>8. ASSUME missed[c] = 0, NEW m \in Nodes, NEW a \in 1 .. made[m][c]
      PROVE  \/ Has(s, m, a)
             \/ \E j \in DOMAIN net'[m][c] : net'[m][c][j].seq = a
             \/ Lost(m, c, a)'
  <2>1. \/ Has(s, m, a)
        \/ \E j \in DOMAIN net[m][c] : net[m][c][j].seq = a
        \/ Lost(m, c, a)
    BY <1>8 DEF PipeInv
  <2>2. CASE m # n
    <3>1. net'[m][c] = net[m][c] BY <1>1, <2>2
    <3>2. Lost(m, c, a) => Lost(m, c, a)' BY <1>1, <3>1 DEF Lost
    <3>3. QED BY <2>1, <3>1, <3>2
  <2>3. CASE m = n
    <3>1. ~Lost(n, c, a) BY <1>1 DEF Lost
    <3>2. ASSUME NEW j \in DOMAIN w, w[j].seq = a, j > k PROVE Lost(n, c, a)'
      <4>1. ASSUME NEW b \in 1 .. k PROVE w[b].seq < a
        <5>1. b \in DOMAIN w /\ b < j BY <1>2, <1>5, <3>2
        <5>2. w[j].seq = w[b].seq + (j - b) BY <3>2, <5>1 DEF NetInv
        <5>3. w[b].seq \in Nat
          <6>1. w[b] \in Published(n, c) BY <5>1 DEF NetInv
          <6>2. w[b].seq \in 1 .. made[n][c] BY <6>1, PublishedTypes
          <6>3. made[n][c] \in Nat BY MeshCallsAssumption DEF TypeOK, MeshCallsAssumption
          <6>4. QED BY <6>2, <6>3
        <5>4. b \in Int /\ j \in Int /\ w[b].seq \in Int BY <1>5, <3>2, <5>1, <5>3
        <5>5. w[b].seq < w[j].seq BY <5>1, <5>2, <5>4, EarlierNumber
        <5>6. QED BY <3>2, <5>5
      <4>2. \A b \in DOMAIN net'[n][c] : net'[n][c][b].seq < a BY <1>4, <4>1
      <4>3. n \notin alive' BY <1>1
      <4>4. QED BY <4>2, <4>3 DEF Lost
    <3>3. ASSUME NEW j \in DOMAIN w, w[j].seq = a, ~(j > k)
          PROVE  \E b \in DOMAIN net'[n][c] : net'[n][c][b].seq = a
      <4>1. j \in 1 .. k BY <1>2, <1>5, <3>3
      <4>2. QED BY <1>4, <3>3, <4>1
    <3>4. QED BY <2>1, <2>3, <3>1, <3>2, <3>3
  <2>4. QED BY <2>2, <2>3
<1>9. /\ \A i \in DOMAIN s : s[i] = Refusal \/ \E m \in Nodes : s[i] \in Published(m, c)'
      /\ Ordered(s)
      /\ missed[c] = 0 => NoGap(s)
  BY <1>3 DEF PipeInv
<1>10. missed' = missed /\ made' = made BY <1>1 DEF callerVars
<1> HIDE DEF s
<1>11. QED BY <1>6, <1>7, <1>8, <1>9, <1>10 DEF PipeInv

\* Nothing was made for a call before it is issued.
LEMMA PipeIssued ==
  ASSUME TypeOK, ControlInv, NEW c \in Calls, \A n \in Nodes : NetInv(n, c),
         Issue(c) \/ IssueRefused(c), caller'[c] = "waiting"
  PROVE  PipeInv(c)'
<1>1. /\ caller[c] = "idle" /\ got[c] = <<>> /\ raw[c] = <<>>
      /\ UNCHANGED <<got, server, made, net, alive, missed>>
  BY DEF Issue, IssueRefused, ControlInv, CallerInv, serverVars
<1>2. \A n \in Nodes : made[n][c] = 0 BY <1>1 DEF ControlInv, ServerInv
<1>3. \A n \in Nodes : Published(n, c) = {} BY <1>2 DEF Published
<1>4. \A n \in Nodes : DOMAIN net[n][c] = {} BY <1>3 DEF NetInv
<1>5. Pipe(c)' = <<>> \/ Pipe(c)' = <<Refusal>>
  <2>1. raw'[c] = <<>> \/ raw'[c] = <<Refusal>>
    BY <1>1 DEF Issue, IssueRefused, TypeOK
  <2>2. Pipe(c)' = (<<>> \o <<>>) \o raw'[c] BY <1>1 DEF Pipe
  <2> HIDE DEF Refusal
  <2>3. <<>> \in Seq(Frames) /\ <<Refusal>> \in Seq(Frames) BY RefusalType
  <2>4. <<>> \o <<>> = <<>> /\ <<>> \o <<Refusal>> = <<Refusal>> BY <2>3, ConcatEmptySeq
  <2>5. QED BY <2>1, <2>2, <2>4
<1> DEFINE s == Pipe(c)'
<1> HIDE DEF s
<1>6. \A i \in DOMAIN s : s[i] = Refusal /\ i = 1 BY <1>5 DEF s
<1>7. Ordered(s) /\ NoGap(s)
  <2>1. Ordered(s) BY <1>6 DEF Ordered
  <2>2. NoGap(s) BY <1>6, RefusalType DEF NoGap
  <2>3. QED BY <2>1, <2>2
<1>8. \A n \in Nodes : made'[n][c] = 0 /\ net'[n][c] = net[n][c] BY <1>1, <1>2
<1>9. Ordered(Pipe(c)') /\ NoGap(Pipe(c)') BY <1>7 DEF s
<1>10. \A i \in DOMAIN Pipe(c)' : Pipe(c)'[i] = Refusal BY <1>6 DEF s
<1>11. QED BY <1>4, <1>8, <1>9, <1>10 DEF PipeInv, Ordered, NoGap

LEMMA PipeStep ==
  ASSUME TypeOK, ControlInv, \A n \in Nodes, c \in Calls : NetInv(n, c),
         \A c \in Calls : Open(c) => PipeInv(c), [Next]_vars
  PROVE  \A c \in Calls : Open(c)' => PipeInv(c)'
<1> SUFFICES ASSUME NEW d \in Calls, Open(d)' PROVE PipeInv(d)'
  OBVIOUS
<1>1. ASSUME Open(d), Pipe(d)' = Pipe(d), UNCHANGED <<missed, alive, server, made, net>>
      PROVE  PipeInv(d)'
  BY <1>1, PipeSame, PublishedSame
<1>2. CASE UNCHANGED vars
  <2>1. Open(d) /\ Pipe(d)' = Pipe(d) BY <1>2 DEF Open, Pipe, vars, callerVars
  <2>2. QED BY <1>1, <1>2, <2>1 DEF vars, callerVars, serverVars
<1>3. ASSUME NEW c \in Calls, CallerStep(c), c # d PROVE PipeInv(d)'
  <2>1. Open(d) /\ Pipe(d)' = Pipe(d)
    BY <1>3 DEF Open, Pipe, TypeOK, CallerStep, Issue, IssueRefused, TakeFrame, HandFrame, Fire,
                Abort, Close
  <2>2. UNCHANGED <<missed, alive, server, made, net>>
    BY <1>3 DEF CallerStep, Issue, IssueRefused, TakeFrame, HandFrame, Fire, Abort, serverVars
  <2>3. QED BY <1>1, <2>1, <2>2
<1>4. CASE CallerStep(d)
  <2>1. CASE Issue(d) \/ IssueRefused(d)
    <3>1. caller'[d] = "waiting"
      BY <2>1 DEF Issue, IssueRefused, Close, TypeOK, Open
    <3>2. QED BY <2>1, <3>1, PipeIssued
  <2>2. ASSUME Open(d), Pipe(d)' = Pipe(d), TakeFrame(d) \/ HandFrame(d) \/ Fire(d)
        PROVE  PipeInv(d)'
    <3>1. UNCHANGED <<missed, alive, server, made, net>>
      BY <2>2 DEF TakeFrame, HandFrame, Fire, serverVars
    <3>2. QED BY <1>1, <2>2, <3>1
  <2>3. CASE TakeFrame(d)
    <3>1. Open(d) BY <2>3 DEF TakeFrame, Open
    <3>2. QED BY <2>2, <2>3, <3>1, PipeTakes
  <2>4. CASE HandFrame(d)
    <3>1. Open(d) BY <2>4 DEF HandFrame, Open
    <3>2. ~hand[d].done BY <2>4 DEF HandFrame, Close, Open, TypeOK
    <3>3. QED BY <2>2, <2>4, <3>1, <3>2, PipeHands
  <2>5. CASE Fire(d)
    <3>1. Open(d) /\ Pipe(d)' = Pipe(d) BY <2>5 DEF Fire, Pipe
    <3>2. QED BY <2>2, <2>5, <3>1
  <2>6. CASE Abort(d) BY <2>6 DEF Abort, Close, Open, TypeOK
  <2>7. QED BY <1>4, <2>1, <2>3, <2>4, <2>5, <2>6 DEF CallerStep
<1>5. ASSUME NEW c \in Calls, NEW n \in Nodes, FrameArrives(n, c), c # d PROVE PipeInv(d)'
  <2>1. UNCHANGED <<server, made, alive, hand>> /\ \A m \in Nodes : net'[m][d] = net[m][d]
    BY <1>5, ArrivalNet
  <2>2. /\ caller' = caller \/ \E v : caller' = [caller EXCEPT ![c] = v]
        /\ got' = got \/ \E v : got' = [got EXCEPT ![c] = v]
        /\ raw' = raw \/ \E v : raw' = [raw EXCEPT ![c] = v]
        /\ missed' = missed \/ \E v : missed' = [missed EXCEPT ![c] = v]
    BY <1>5, ArrivalCases
  <2>3. caller'[d] = caller[d] /\ got'[d] = got[d] /\ raw'[d] = raw[d] /\ missed'[d] = missed[d]
    <3>1. caller'[d] = caller[d] BY <1>5, <2>2 DEF TypeOK
    <3>2. got'[d] = got[d] BY <1>5, <2>2 DEF TypeOK
    <3>3. raw'[d] = raw[d] BY <1>5, <2>2 DEF TypeOK
    <3>4. missed'[d] = missed[d] BY <1>5, <2>2 DEF TypeOK
    <3>5. QED BY <3>1, <3>2, <3>3, <3>4
  <2>4. Open(d) /\ Pipe(d)' = Pipe(d) BY <2>1, <2>3 DEF Open, Pipe
  <2>5. QED BY <2>1, <2>3, <2>4, PipeSame, PublishedSame
<1>6. ASSUME NEW n \in Nodes, FrameArrives(n, d) PROVE PipeInv(d)'
  <2>1. CASE /\ Stream(d) /\ Open(d) /\ Len(raw[d]) < ChanCap
             /\ raw' = [raw EXCEPT ![d] = Append(@, Head(net[n][d]))]
             /\ UNCHANGED <<caller, got, missed, outcome>>
    BY <1>6, <2>1, PipeArrives
  <2>2. CASE /\ Stream(d) /\ Open(d)
             /\ missed' = [missed EXCEPT ![d] = @ + 1]
             /\ UNCHANGED <<caller, raw, got, outcome>>
    BY <1>6, <2>2, PipeDrops
  <2>3. CASE /\ ~Stream(d) /\ Open(d)
             /\ got' = [got EXCEPT ![d] = <<Head(net[n][d])>>]
             /\ caller' = [caller EXCEPT ![d] = "closed"]
             /\ outcome' = [outcome EXCEPT ![d] = "answered"]
             /\ UNCHANGED <<raw, missed>>
    BY <2>3 DEF Open, TypeOK
  <2>4. CASE /\ ~Open(d)
             /\ UNCHANGED <<caller, raw, got, missed, outcome>>
    BY <2>4 DEF Open
  <2>5. QED BY <1>6, <2>1, <2>2, <2>3, <2>4, ArrivalCases
<1>7. ASSUME NEW c \in Calls, NEW n \in Nodes, CancelArrives(c, n) PROVE PipeInv(d)'
  <2>1. UNCHANGED <<callerVars, alive, server, made, net>> BY <1>7 DEF CancelArrives
  <2>2. Open(d) /\ Pipe(d)' = Pipe(d) BY <2>1 DEF Open, Pipe, callerVars
  <2>3. QED BY <1>1, <2>1, <2>2 DEF callerVars
<1>8. ASSUME NEW c \in Calls, NEW n \in Nodes, HandlerStep(n, c) PROVE PipeInv(d)'
  <2>1. /\ UNCHANGED <<caller, raw, hand, got, missed, alive>>
        /\ \A m \in Nodes : m # n \/ d # c => /\ server'[m][d] = server[m][d]
                                              /\ made'[m][d] = made[m][d]
                                              /\ net'[m][d] = net[m][d]
    BY <1>8, HandlerFrame
  <2>2. Open(d) /\ Pipe(d)' = Pipe(d) BY <2>1 DEF Open, Pipe
  <2>3. CASE d # c BY <2>1, <2>2, <2>3, PipeSame, PublishedSame
  <2>4. CASE d = c
    <3>1. CASE UNCHANGED <<made, net>> /\ (server'[n][c] = "answered" <=> server[n][c] = "answered")
      <4>1. \A m \in Nodes : Published(m, d)' = Published(m, d)
        BY <2>1, <2>4, <3>1, PublishedSame
      <4>2. QED BY <2>1, <2>2, <3>1, <4>1, PipeSame
    <3>2. ASSUME NEW t \in BOOLEAN, Publish(n, c, t), server[n][c] \in {"started", "running"},
                 server'[n][c] = "answered" <=> t, made[n][c] <= MaxChunks
          PROVE  PipeInv(d)'
      BY <1>8, <2>2, <2>4, <3>2, PipePublishes
    <3>3. QED BY <1>8, <3>1, <3>2, Publishes
  <2>5. QED BY <2>3, <2>4
<1>9. ASSUME NEW n \in Nodes, NodeExits(n) PROVE PipeInv(d)'
  <2>1. Open(d) BY <1>9 DEF NodeExits, callerVars, Open
  <2>2. QED BY <1>9, <2>1, PipeExits
<1>10. QED BY <1>2, <1>3, <1>4, <1>5, <1>6, <1>7, <1>8, <1>9 DEF Next

-----------------------------------------------------------------------------
(* What a caller is handed.                                                *)

\* The frame in hand follows what the consumer has.
LEMMA HandIsNext ==
  ASSUME TypeOK, ControlInv, NEW c \in Calls, caller[c] = "holding"
  PROVE  /\ Len(got[c]) \in Nat
         /\ Len(got[c]) + 1 \in DOMAIN Pipe(c)
         /\ Pipe(c)[Len(got[c]) + 1] = hand[c]
         /\ \A i \in 1 .. Len(got[c]) : i \in DOMAIN Pipe(c) /\ Pipe(c)[i] = got[c][i]
<1> DEFINE g == got[c]
           h == <<hand[c]>>
           r == raw[c]
           u == g \o h
<1>1. g \in Seq(Frames) /\ h \in Seq(Frames) /\ r \in Seq(Frames) /\ Len(h) = 1
      /\ h[1] = hand[c]
  BY DEF TypeOK, ControlInv, CallerInv
<1>2. Pipe(c) = u \o r BY DEF Pipe
<1> HIDE DEF h, g, r
<1>3. /\ u \in Seq(Frames) /\ Len(u) = Len(g) + 1 /\ Len(g) \in Nat
      /\ \A i \in 1 .. Len(g) + Len(h) : u[i] = IF i <= Len(g) THEN g[i] ELSE h[i - Len(g)]
  <2>1. /\ u \in Seq(Frames) /\ Len(u) = Len(g) + Len(h)
        /\ \A i \in 1 .. Len(g) + Len(h) : u[i] = IF i <= Len(g) THEN g[i] ELSE h[i - Len(g)]
    BY <1>1, ConcatProperties
  <2>2. Len(g) \in Nat BY <1>1
  <2>3. QED BY <1>1, <2>1, <2>2
<1>4. u[Len(g) + 1] = hand[c] /\ \A i \in 1 .. Len(g) : u[i] = g[i] BY <1>1, <1>3
<1> HIDE DEF u
<1>5. /\ u \o r \in Seq(Frames) /\ Len(u \o r) = Len(u) + Len(r) /\ Len(r) \in Nat
      /\ \A i \in 1 .. Len(u) + Len(r) : (u \o r)[i] = IF i <= Len(u) THEN u[i] ELSE r[i - Len(u)]
  <2>1. u \in Seq(Frames) BY <1>3
  <2>2. /\ u \o r \in Seq(Frames) /\ Len(u \o r) = Len(u) + Len(r)
        /\ \A i \in 1 .. Len(u) + Len(r) : (u \o r)[i] = IF i <= Len(u) THEN u[i] ELSE r[i - Len(u)]
    BY <1>1, <2>1, ConcatProperties
  <2>3. Len(r) \in Nat BY <1>1
  <2>4. QED BY <2>2, <2>3
<1>6. \A i \in 1 .. (Len(g) + 1) : i \in DOMAIN (u \o r) /\ (u \o r)[i] = u[i]
  BY <1>3, <1>5
<1>7. Len(g) + 1 \in 1 .. (Len(g) + 1) /\ \A i \in 1 .. Len(g) : i \in 1 .. (Len(g) + 1)
  BY <1>3
<1>8. QED BY <1>2, <1>3, <1>4, <1>6, <1>7 DEF g

\* The reply of a single-reply call is its first frame and its last.
LEMMA SingleReply ==
  ASSUME TypeOK, ControlInv, NEW n \in Nodes, NEW c \in Calls, NetInv(n, c),
         net[n][c] # <<>>, ~Stream(c), Open(c)
  PROVE  LET f == Head(net[n][c])
         IN /\ f \in Published(n, c) /\ f \in Frames /\ f.from = n /\ f.seq = 1
            /\ f.done = TRUE
            /\ got[c] = <<>>
<1> DEFINE f == Head(net[n][c])
<1>1. net[n][c] \in Seq(Frames) BY DEF TypeOK
<1>2. f = net[n][c][1] /\ 1 \in DOMAIN net[n][c] BY <1>1
<1> HIDE DEF f
<1>3. f \in Published(n, c) BY <1>2 DEF NetInv
<1>4. /\ f \in Frames /\ f.from = n /\ f.seq \in 1 .. made[n][c]
      /\ f.done = (server[n][c] = "answered" /\ f.seq = made[n][c])
  BY <1>3, PublishedTypes
<1>5. made[n][c] = IF server[n][c] = "answered" THEN 1 ELSE 0 BY DEF ControlInv, ServerInv
<1>6. server[n][c] = "answered" /\ made[n][c] = 1 BY <1>4, <1>5
<1>7. f.seq = 1 BY <1>4, <1>6
<1>8. f.done = TRUE BY <1>4, <1>6, <1>7
<1>9. got[c] = <<>> BY DEF ControlInv, CallerInv, Open
<1>10. QED BY <1>3, <1>4, <1>7, <1>8, <1>9 DEF f

\* How the consumer of a call comes by frames.
LEMMA GotSteps ==
  ASSUME TypeOK, ControlInv, [Next]_vars, NEW d \in Calls
  PROVE  /\ missed'[d] = 0 => missed[d] = 0
         /\ \/ got'[d] = got[d]
            \/ HandFrame(d)
            \/ \E n \in Nodes : /\ FrameArrives(n, d) /\ ~Stream(d) /\ Open(d)
                                /\ got'[d] = <<Head(net[n][d])>>
<1>1. CASE UNCHANGED vars BY <1>1 DEF vars, callerVars
<1>2. ASSUME NEW c \in Calls, CallerStep(c), ~(c = d /\ HandFrame(d))
      PROVE  got'[d] = got[d] /\ missed' = missed
  BY <1>2 DEF CallerStep, Issue, IssueRefused, TakeFrame, HandFrame, Fire, Abort, TypeOK
<1>3. ASSUME HandFrame(d) PROVE missed' = missed BY <1>3 DEF HandFrame
<1>4. ASSUME NEW c \in Calls, NEW n \in Nodes, FrameArrives(n, c)
      PROVE  /\ missed'[d] = 0 => missed[d] = 0
             /\ \/ got'[d] = got[d]
                \/ c = d /\ ~Stream(d) /\ Open(d) /\ got'[d] = <<Head(net[n][d])>>
  <2>1. missed' = missed \/ missed' = [missed EXCEPT ![c] = @ + 1] BY <1>4, ArrivalCases
  <2>2. missed'[d] = 0 => missed[d] = 0 BY <2>1 DEF TypeOK
  <2>3. got' = got \/ (~Stream(c) /\ Open(c) /\ got' = [got EXCEPT ![c] = <<Head(net[n][c])>>])
    BY <1>4, ArrivalCases
  <2>4. QED BY <2>2, <2>3 DEF TypeOK
<1>5. ASSUME NEW c \in Calls, NEW n \in Nodes, CancelArrives(c, n) \/ HandlerStep(n, c)
      PROVE  got' = got /\ missed' = missed
  BY <1>5, HandlerFrame DEF CancelArrives, callerVars
<1>6. ASSUME NEW n \in Nodes, NodeExits(n) PROVE got' = got /\ missed' = missed
  BY <1>6 DEF NodeExits, callerVars
<1>7. QED BY <1>1, <1>2, <1>3, <1>4, <1>5, <1>6 DEF Next

LEMMA GapStep ==
  ASSUME TypeOK, ControlInv, \A n \in Nodes, c \in Calls : NetInv(n, c),
         \A c \in Calls : Open(c) => PipeInv(c), NoSilentGap, [Next]_vars
  PROVE  NoSilentGap'
<1> SUFFICES ASSUME NEW d \in Calls, missed'[d] = 0 PROVE NoGap(got'[d])
  BY DEF NoSilentGap, NoGap
<1>1. missed[d] = 0 /\ NoGap(got[d]) BY GotSteps DEF NoSilentGap, NoGap
<1>2. CASE HandFrame(d)
  <2>1. caller[d] = "holding" /\ got'[d] = Append(got[d], hand[d])
    BY <1>2 DEF HandFrame, TypeOK
  <2> DEFINE g == got[d]
             u == Append(g, hand[d])
  <2>2. /\ g \in Seq(Frames) /\ hand[d] \in Frames
        /\ Len(u) = Len(g) + 1
        /\ u[Len(g) + 1] = hand[d]
        /\ \A i \in 1 .. Len(g) : u[i] = g[i]
    BY <2>1 DEF TypeOK, ControlInv, CallerInv
  <2>3. u \in Seq(Frames) /\ DOMAIN u = 1 .. (Len(g) + 1) BY <2>2
  <2>4. NoGap(Pipe(d)) BY <1>1, <2>1 DEF PipeInv, Open
  <2> HIDE DEF u
  <2>5. \A i \in DOMAIN u : i \in DOMAIN Pipe(d) /\ u[i] = Pipe(d)[i]
    BY <2>1, <2>2, <2>3, HandIsNext
  <2>6. ASSUME NEW i \in DOMAIN u, NEW k \in 1 .. (u[i].seq - 1)
        PROVE  \E j \in 1 .. (i - 1) : u[j].from = u[i].from /\ u[j].seq = k
    <3>1. PICK j \in 1 .. (i - 1) : Pipe(d)[j].from = Pipe(d)[i].from /\ Pipe(d)[j].seq = k
      BY <2>4, <2>5, <2>6 DEF NoGap
    <3>2. j \in DOMAIN u BY <2>2, <2>3, <2>6
    <3>3. QED BY <2>5, <3>1, <3>2
  <2>7. NoGap(u) BY <2>6 DEF NoGap
  <2>8. QED BY <2>1, <2>7 DEF u
<1>3. ASSUME NEW n \in Nodes, FrameArrives(n, d), ~Stream(d), Open(d),
             got'[d] = <<Head(net[n][d])>>
      PROVE  NoGap(got'[d])
  <2>1. net[n][d] # <<>> BY <1>3, ArrivalNet
  <2>2. Head(net[n][d]).seq = 1 BY <1>3, <2>1, SingleReply
  <2>3. QED BY <1>3, <2>2 DEF NoGap
<1>4. QED BY <1>1, <1>2, <1>3, GotSteps

-----------------------------------------------------------------------------
(* The theorems.                                                           *)

LEMMA InitInv == Init => CallInv
<1> SUFFICES ASSUME Init PROVE CallInv
  OBVIOUS
<1> USE DEF Init
<1>1. TypeOK BY MeshCallsAssumption DEF TypeOK, MeshCallsAssumption
<1>2. ControlInv BY DEF ControlInv, CallerInv, ServerInv
<1>3. CancelInv BY DEF CancelInv, StoppedForCause
<1>4. \A n \in Nodes, c \in Calls : NetInv(n, c) BY DEF NetInv
<1>5. \A c \in Calls : Open(c) => PipeInv(c) BY DEF Open
<1>6. NoSilentGap BY DEF NoSilentGap
<1>7. QED BY <1>1, <1>2, <1>3, <1>4, <1>5, <1>6 DEF CallInv

LEMMA NextInv == CallInv /\ [Next]_vars => CallInv'
<1> SUFFICES ASSUME CallInv, [Next]_vars PROVE CallInv'
  OBVIOUS
<1>1. /\ TypeOK /\ ControlInv /\ CancelInv /\ NoSilentGap
      /\ \A n \in Nodes, c \in Calls : NetInv(n, c)
      /\ \A c \in Calls : Open(c) => PipeInv(c)
  BY DEF CallInv
<1>2. TypeOK' BY <1>1, TypeStep
<1>3. ControlInv' BY <1>1, ControlStep
<1>4. CancelInv' BY <1>1, CancelStep
<1>5. \A n \in Nodes, c \in Calls : NetInv(n, c)' BY <1>1, NetStep
<1>6. \A c \in Calls : Open(c)' => PipeInv(c)' BY <1>1, PipeStep
<1>7. NoSilentGap' BY <1>1, GapStep
<1>8. QED BY <1>2, <1>3, <1>4, <1>5, <1>6, <1>7 DEF CallInv

\* CallInv holds throughout.
THEOREM Invariant == Spec => []CallInv
<1>1. QED BY InitInv, NextInv, PTL DEF Spec

\* Every variable of the calls has its type, and no inbox overflows.
THEOREM TypeCorrect == Spec => []TypeOK
<1>1. CallInv => TypeOK BY DEF CallInv
<1>2. QED BY Invariant, <1>1, PTL

\* A stream that lost no frame at its inbox was handed, of each node, the first
\* frames that node made, however many nodes answer it and whichever exit.
THEOREM GapOnlyAfterDrop == Spec => []NoSilentGap
<1>1. CallInv => NoSilentGap BY DEF CallInv
<1>2. QED BY Invariant, <1>1, PTL

\* A handler is cancelled only for a caller that gave up.
THEOREM CancelledForCause == Spec => []StoppedForCause
<1>1. CallInv => StoppedForCause BY DEF CallInv, CancelInv
<1>2. QED BY Invariant, <1>1, PTL

-----------------------------------------------------------------------------
(* MeshCalls implements CallPromise.                                       *)

\* The variables of CallPromise that MeshCalls does not have itself.
Sent == [c \in Calls |-> UNION {Published(n, c) : n \in Nodes}]
Over == [c \in Calls |-> caller[c] = "closed"]

\* The steps of CallPromise, in these terms.
LEMMA PromiseStutters ==
  ASSUME UNCHANGED <<Sent, got, Over>>
  PROVE  UNCHANGED Promise!vars
BY DEF Promise!vars, Sent, Over

LEMMA PromiseHands ==
  ASSUME NEW c \in Calls, NEW f, f \in Sent[c] \/ f = Refusal, ~Over[c],
         \A i \in DOMAIN got[c] : got[c][i].from = f.from => got[c][i].seq < f.seq,
         got' = [got EXCEPT ![c] = Append(@, f)],
         Over' = [Over EXCEPT ![c] = f.done], Sent' = Sent
  PROVE  Promise!Next
<1>1. Promise!Hand(c, f) BY DEF Promise!Hand, Sent, Over
<1>2. QED BY <1>1 DEF Promise!Next, Sent

LEMMA PromiseGivesUp ==
  ASSUME NEW c \in Calls, ~Over[c], Over' = [Over EXCEPT ![c] = TRUE], UNCHANGED <<Sent, got>>
  PROVE  Promise!Next
<1>1. Promise!GiveUp(c) BY DEF Promise!GiveUp, Sent, Over
<1>2. QED BY <1>1 DEF Promise!Next

LEMMA PromiseMakes ==
  ASSUME NEW c \in Calls, NEW n \in Nodes, NEW f, f \in Sent'[c], f.from = n,
         \A g \in {x \in Sent[c] : x.from = n} : ~g.done /\ g.seq < f.seq,
         f.seq = 1 \/ \E g \in {x \in Sent[c] : x.from = n} : g.seq + 1 = f.seq,
         Sent' = [Sent EXCEPT ![c] = @ \cup {f}], UNCHANGED <<got, Over>>
  PROVE  Promise!Next
<1>1. Promise!Make(c, n) BY DEF Promise!Make, Promise!FramesOf, Sent, Over
<1>2. QED BY <1>1 DEF Promise!Next

LEMMA SentSame ==
  ASSUME UNCHANGED made,
         \A n \in Nodes, c \in Calls : server'[n][c] = "answered" <=> server[n][c] = "answered"
  PROVE  Sent' = Sent
<1>1. \A n \in Nodes, c \in Calls : Published(n, c)' = Published(n, c) BY PublishedSame
<1>2. QED BY <1>1 DEF Sent

\* Each step of a caller hands it a frame, gives up or is not seen.
LEMMA CallerRefines ==
  ASSUME TypeOK, ControlInv, \A c \in Calls : Open(c) => PipeInv(c),
         NEW c \in Calls, CallerStep(c)
  PROVE  Promise!Next \/ UNCHANGED Promise!vars
<1>1. Sent' = Sent
  <2>1. UNCHANGED <<made, server>> BY NothingPublished
  <2>2. QED BY <2>1, SentSame
<1>2. CASE Issue(c) \/ TakeFrame(c) \/ Fire(c)
  <2>1. got' = got BY <1>2 DEF Issue, TakeFrame, Fire
  <2>2. Over' = Over BY <1>2 DEF Issue, TakeFrame, Fire, Over, TypeOK
  <2>3. QED BY <1>1, <2>1, <2>2, PromiseStutters
<1>3. CASE IssueRefused(c)
  <2>1. got' = got /\ ~Over[c] BY <1>3 DEF IssueRefused, Over
  <2>2. CASE Stream(c)
    <3>1. Over' = Over BY <1>3, <2>2 DEF IssueRefused, Over, TypeOK
    <3>2. QED BY <1>1, <2>1, <3>1, PromiseStutters
  <2>3. CASE ~Stream(c)
    <3>1. Over' = [Over EXCEPT ![c] = TRUE]
      BY <1>3, <2>3 DEF IssueRefused, Close, Over, TypeOK
    <3>2. QED BY <1>1, <2>1, <3>1, PromiseGivesUp
  <2>4. QED BY <2>2, <2>3
<1>4. CASE HandFrame(c)
  <2> DEFINE f == hand[c]
             g == got[c]
  <2>1. caller[c] = "holding" /\ ~Over[c] BY <1>4 DEF HandFrame, Over
  <2>2. f \in Frames /\ f.done \in BOOLEAN BY <2>1 DEF ControlInv, CallerInv, Frames
  <2>3. PipeInv(c) BY <2>1 DEF Open
  <2>4. /\ Len(g) \in Nat
        /\ Len(g) + 1 \in DOMAIN Pipe(c)
        /\ Pipe(c)[Len(g) + 1] = f
        /\ \A i \in 1 .. Len(g) : i \in DOMAIN Pipe(c) /\ Pipe(c)[i] = g[i]
    BY <2>1, HandIsNext
  <2>5. DOMAIN g = 1 .. Len(g) BY DEF TypeOK
  <2>6. f = Refusal \/ \E n \in Nodes : f \in Published(n, c) BY <2>3, <2>4 DEF PipeInv
  <2>7. f \in Sent[c] \/ f = Refusal BY <2>6 DEF Sent
  <2>8. ASSUME NEW i \in DOMAIN g, g[i].from = f.from PROVE g[i].seq < f.seq
    <3>1. i \in DOMAIN Pipe(c) /\ Pipe(c)[i] = g[i] /\ i < Len(g) + 1 BY <2>4, <2>5, <2>8
    <3>2. QED BY <2>3, <2>4, <2>8, <3>1 DEF PipeInv, Ordered
  <2>9. got' = [got EXCEPT ![c] = Append(@, f)] BY <1>4 DEF HandFrame
  <2>10. Over' = [Over EXCEPT ![c] = f.done]
    <3>1. \A d \in Calls : d # c => caller'[d] = caller[d]
      BY <1>4 DEF HandFrame, Close, TypeOK
    <3>2. (caller'[c] = "closed") = f.done
      BY <1>4, <2>2 DEF HandFrame, Close, TypeOK
    <3>3. QED BY <3>1, <3>2 DEF Over
  <2> HIDE DEF f, g
  <2>11. QED BY <1>1, <2>1, <2>7, <2>8, <2>9, <2>10, PromiseHands DEF g
<1>5. CASE Abort(c)
  <2>1. got' = got /\ ~Over[c] BY <1>5 DEF Abort, Open, Over
  <2>2. Over' = [Over EXCEPT ![c] = TRUE] BY <1>5 DEF Abort, Close, Over, TypeOK
  <2>3. QED BY <1>1, <2>1, <2>2, PromiseGivesUp
<1>6. QED BY <1>2, <1>3, <1>4, <1>5 DEF CallerStep

LEMMA ArrivalRefines ==
  ASSUME TypeOK, ControlInv, \A n \in Nodes, c \in Calls : NetInv(n, c),
         NEW n \in Nodes, NEW c \in Calls, FrameArrives(n, c)
  PROVE  Promise!Next \/ UNCHANGED Promise!vars
<1>1. Sent' = Sent
  <2>1. UNCHANGED <<made, server>> BY ArrivalNet
  <2>2. QED BY <2>1, SentSame
<1>2. CASE UNCHANGED <<caller, got>>
  <2>1. Over' = Over BY <1>2 DEF Over
  <2>2. QED BY <1>1, <1>2, <2>1, PromiseStutters
<1>3. CASE /\ ~Stream(c) /\ Open(c)
           /\ got' = [got EXCEPT ![c] = <<Head(net[n][c])>>]
           /\ caller' = [caller EXCEPT ![c] = "closed"]
  <2> DEFINE f == Head(net[n][c])
  <2>1. net[n][c] # <<>> BY ArrivalNet
  <2>2. f \in Published(n, c) /\ f \in Frames /\ f.done = TRUE /\ got[c] = <<>>
    BY <1>3, <2>1, SingleReply
  <2> HIDE DEF f
  <2>3. ~Over[c] BY <1>3 DEF Over, Open
  <2>4. Over' = [Over EXCEPT ![c] = f.done] BY <1>3, <2>2 DEF Over, TypeOK
  <2>5. got' = [got EXCEPT ![c] = Append(@, f)] BY <1>3, <2>2 DEF f, TypeOK
  <2>6. f \in Sent[c] BY <2>2 DEF Sent
  <2>7. \A i \in DOMAIN got[c] : got[c][i].from = f.from => got[c][i].seq < f.seq BY <2>2
  <2>8. QED BY <1>1, <2>3, <2>4, <2>5, <2>6, <2>7, PromiseHands
<1>4. QED BY <1>2, <1>3, ArrivalCases

\* A handler's step makes the next frame of its node, or is not seen.
LEMMA HandlerRefines ==
  ASSUME TypeOK, ControlInv, NEW n \in Nodes, NEW c \in Calls, HandlerStep(n, c)
  PROVE  Promise!Next \/ UNCHANGED Promise!vars
<1>1. /\ UNCHANGED <<caller, got>>
      /\ \A m \in Nodes, d \in Calls : m # n \/ d # c => /\ server'[m][d] = server[m][d]
                                                         /\ made'[m][d] = made[m][d]
  BY HandlerFrame
<1>2. Over' = Over BY <1>1 DEF Over
<1>3. CASE UNCHANGED <<made, net>> /\ (server'[n][c] = "answered" <=> server[n][c] = "answered")
  <2>1. \A m \in Nodes, d \in Calls : server'[m][d] = "answered" <=> server[m][d] = "answered"
    BY <1>1, <1>3
  <2>2. Sent' = Sent BY <1>3, <2>1, SentSame
  <2>3. QED BY <1>1, <1>2, <2>2, PromiseStutters
<1>4. ASSUME NEW t \in BOOLEAN, Publish(n, c, t), server[n][c] \in {"started", "running"},
             server'[n][c] = "answered" <=> t, made[n][c] <= MaxChunks
      PROVE  Promise!Next
  <2> DEFINE f == Frame(n, made[n][c] + 1, t)
  <2>1. made[n][c] \in Nat /\ made[n][c] + 1 \in 1 .. (MaxChunks + 1)
    BY <1>4, MeshCallsAssumption DEF TypeOK, MeshCallsAssumption
  <2>2. f.from = n /\ f.seq = made[n][c] + 1 BY <2>1, FrameTypes
  <2>3. Published(n, c)' = Published(n, c) \cup {f} BY <1>4, PublishedGrows
  <2> DEFINE last == Frame(n, made[n][c], FALSE)
  <2>4. made[n][c] > 0 => last \in Published(n, c) /\ last.from = n /\ last.seq = made[n][c]
    <3>1. last.from = n /\ last.seq = made[n][c] BY DEF Frame
    <3>2. ASSUME made[n][c] > 0 PROVE last \in Published(n, c)
      <4>1. made[n][c] \in 1 .. made[n][c] BY <2>1, <3>2
      <4>2. (server[n][c] = "answered" /\ made[n][c] = made[n][c]) = FALSE BY <1>4
      <4>3. QED BY <4>1, <4>2 DEF Published
    <3>3. QED BY <3>1, <3>2
  <2> HIDE DEF f, last
  <2>5. \A m \in Nodes, d \in Calls : m # n \/ d # c => Published(m, d)' = Published(m, d)
    BY <1>1, PublishedSame
  <2>6. Sent' = [Sent EXCEPT ![c] = @ \cup {f}]
    <3>1. \A d \in Calls : d # c => Sent'[d] = Sent[d] BY <2>5 DEF Sent
    <3>2. Sent'[c] = Sent[c] \cup {f}
      <4>1. Sent'[c] = UNION {Published(m, c)' : m \in Nodes} BY DEF Sent
      <4>2. Sent[c] = UNION {Published(m, c) : m \in Nodes} BY DEF Sent
      <4>3. \A x : x \in Sent'[c] <=> x \in Sent[c] \cup {f} BY <2>3, <2>5, <4>1, <4>2
      <4>4. QED BY <4>3
    <3>3. QED BY <3>1, <3>2 DEF Sent
  <2>7. f \in Sent'[c] BY <2>3 DEF Sent
  <2>8. ASSUME NEW g \in {x \in Sent[c] : x.from = n} PROVE ~g.done /\ g.seq < f.seq
    <3>1. PICK m \in Nodes : g \in Published(m, c) BY <2>8 DEF Sent
    <3>2. /\ g.from = m /\ g.seq \in 1 .. made[m][c]
          /\ g.done = (server[m][c] = "answered" /\ g.seq = made[m][c])
      BY <3>1, PublishedTypes
    <3>3. m = n BY <2>8, <3>2
    <3>4. g.done = FALSE BY <1>4, <3>2, <3>3
    <3>5. g.seq < f.seq BY <2>1, <2>2, <3>2, <3>3
    <3>6. QED BY <3>4, <3>5
  <2>9. f.seq = 1 \/ \E g \in {x \in Sent[c] : x.from = n} : g.seq + 1 = f.seq
    <3>1. CASE made[n][c] = 0 BY <2>2, <3>1
    <3>2. CASE made[n][c] > 0
      <4>1. last \in Sent[c] BY <2>4, <3>2 DEF Sent
      <4>2. QED BY <2>2, <2>4, <3>2, <4>1
    <3>3. QED BY <2>1, <3>1, <3>2
  <2>10. QED BY <1>1, <1>2, <2>2, <2>6, <2>7, <2>8, <2>9, PromiseMakes
<1>5. QED BY <1>3, <1>4, Publishes

LEMMA StepRefines ==
  ASSUME CallInv, [Next]_vars
  PROVE  Promise!Next \/ UNCHANGED Promise!vars
<1>1. /\ TypeOK /\ ControlInv
      /\ \A n \in Nodes, c \in Calls : NetInv(n, c)
      /\ \A c \in Calls : Open(c) => PipeInv(c)
  BY DEF CallInv
<1>2. ASSUME UNCHANGED <<made, caller, got>>,
             \A n \in Nodes, c \in Calls : server'[n][c] = "answered" <=> server[n][c] = "answered"
      PROVE  UNCHANGED Promise!vars
  <2>1. Over' = Over BY <1>2 DEF Over
  <2>2. Sent' = Sent BY <1>2, SentSame
  <2>3. QED BY <1>2, <2>1, <2>2, PromiseStutters
<1>3. CASE UNCHANGED vars BY <1>2, <1>3 DEF vars, callerVars, serverVars
<1>4. ASSUME NEW c \in Calls, NEW n \in Nodes, CancelArrives(c, n)
      PROVE  UNCHANGED Promise!vars
  BY <1>2, <1>4 DEF CancelArrives, callerVars
<1>5. ASSUME NEW n \in Nodes, NodeExits(n) PROVE UNCHANGED Promise!vars
  BY <1>1, <1>2, <1>5, ExitNet DEF callerVars
<1>6. QED BY <1>1, <1>3, <1>4, <1>5, CallerRefines, ArrivalRefines, HandlerRefines DEF Next

\* MeshCalls implements CallPromise: whatever its kind, a call is handed frames
\* made for it, those of one node in order and each at most once, and nothing
\* after it ended (Call, CallWithContext, Stream, handleStreamRequest).
THEOREM KeepsPromise == Spec => PromiseKept
<1>1. Init => Promise!Init
  <2> SUFFICES ASSUME Init PROVE Promise!Init
    OBVIOUS
  <2>1. \A n \in Nodes, c \in Calls : Published(n, c) = {} BY DEF Init, Published
  <2>2. Sent = [c \in Calls |-> {}] BY <2>1 DEF Sent
  <2>3. Over = [c \in Calls |-> FALSE] BY DEF Init, Over
  <2>4. got = [c \in Calls |-> <<>>] BY DEF Init
  <2>5. QED BY <2>2, <2>3, <2>4 DEF Promise!Init, Sent, Over
<1>2. CallInv /\ [Next]_vars => [Promise!Next]_Promise!vars BY StepRefines
<1>3. QED BY Invariant, <1>1, <1>2, PTL DEF Spec, PromiseKept, Promise!Spec
=============================================================================
