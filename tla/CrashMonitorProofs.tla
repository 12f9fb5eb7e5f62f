--------------------------- MODULE CrashMonitorProofs ---------------------------
(***************************************************************************)
(* Proofs about CrashMonitor, for any tools, loops and limits.             *)
(***************************************************************************)
EXTENDS CrashMonitor, FiniteSetTheorems, TLAPS

\* A loop that was started watches a tool.
LoopsWatch == \A l \in Loops : at[l] # "unused" => tool[l] \in Tools

TypeInv == TypeOK /\ LoopsWatch

Counters == [failures : 0 .. FailureCap, doubled : 0 .. MaxDoubled]

\* Cleared counters are counters.
LEMMA FreshCounts == Fresh \in Counters /\ Fresh # None
<1>1. Fresh \in Counters /\ Fresh \in [failures : Nat, doubled : Nat]
  BY MonitorAssumption DEF MonitorAssumption, Fresh, Counters
<1>2. QED BY <1>1, MonitorAssumption DEF MonitorAssumption

\* Every step keeps the types.
LEMMA TypeStep ==
  ASSUME TypeInv, [Next]_vars
  PROVE  TypeInv'
<1> USE MonitorAssumption DEF MonitorAssumption, TypeInv, TypeOK, LoopsWatch, Goto, Counters,
           monitorVars, history
<1>1. ASSUME NEW l \in Loops, NEW t \in Tools, Watch(l, t)
      PROVE  TypeInv'
  <2>1. states' \in [Tools -> Counters \cup {None}]
    BY <1>1, FreshCounts DEF Watch, Cleared
  <2>2. \A u \in Tools : states'[u] = None <=> cancels'[u] = None
    BY <1>1, FreshCounts DEF Watch, Cleared
  <2>3. tries' \in [Tools -> 0 .. FailureCap] /\ early' \subseteq Loops
    BY <1>1 DEF Watch, Cleared, LoopsOf
  <2>4. QED BY <1>1, <2>1, <2>2, <2>3 DEF Watch, Cleared
<1>2. ASSUME NEW t \in Tools, Unwatch(t)
      PROVE  TypeInv'
  BY <1>2 DEF Unwatch
<1>3. ASSUME Close
      PROVE  TypeInv'
  BY <1>3 DEF Close
<1>4. ASSUME NEW t \in Tools, Reset(t)
      PROVE  TypeInv'
  <2>1. states' \in [Tools -> Counters \cup {None}]
    BY <1>4, FreshCounts DEF Reset, ClearCounters, Cleared
  <2>2. \A u \in Tools : states'[u] = None <=> cancels'[u] = None
    BY <1>4, FreshCounts DEF Reset, ClearCounters, Cleared
  <2>3. tries' \in [Tools -> 0 .. FailureCap] /\ early' \subseteq Loops
    BY <1>4 DEF Reset, ClearCounters, Cleared, LoopsOf
  <2>4. QED BY <1>4, <2>1, <2>2, <2>3 DEF Reset, ClearCounters, Cleared
<1>5. ASSUME NEW l \in Loops, Tick(l)
      PROVE  TypeInv'
  BY <1>5 DEF Tick
<1>6. ASSUME NEW l \in Loops, Cancelled(l)
      PROVE  TypeInv'
  BY <1>6 DEF Cancelled
<1>7. ASSUME NEW l \in Loops, ProbeSucceeds(l)
      PROVE  TypeInv'
  <2>1. states' \in [Tools -> Counters \cup {None}]
    BY <1>7, FreshCounts DEF ProbeSucceeds, ClearCounters, Cleared
  <2>2. \A u \in Tools : states'[u] = None <=> cancels'[u] = None
    BY <1>7, FreshCounts DEF ProbeSucceeds, ClearCounters, Cleared
  <2>3. tries' \in [Tools -> 0 .. FailureCap] /\ early' \subseteq Loops
    BY <1>7 DEF ProbeSucceeds, ClearCounters, Cleared, LoopsOf
  <2>4. QED BY <1>7, <2>1, <2>2, <2>3 DEF ProbeSucceeds, ClearCounters, Cleared
<1>8. ASSUME NEW l \in Loops, ProbeFails(l)
      PROVE  TypeInv'
  BY <1>8 DEF ProbeFails
<1>9. ASSUME NEW l \in Loops, LoopUnwatched(l)
      PROVE  TypeInv'
  BY <1>9 DEF LoopUnwatched
<1>10. ASSUME NEW l \in Loops, CountFailure(l)
      PROVE  TypeInv'
  BY <1>10 DEF CountFailure, Exhausted
<1>11. ASSUME NEW l \in Loops, GiveUp(l)
      PROVE  TypeInv'
  BY <1>11 DEF GiveUp
<1>12. ASSUME NEW l \in Loops, BackoffEnds(l)
      PROVE  TypeInv'
  BY <1>12 DEF BackoffEnds
<1>13. ASSUME NEW l \in Loops, Restarted(l)
      PROVE  TypeInv'
  <2>1. states' \in [Tools -> Counters \cup {None}]
    BY <1>13, FreshCounts DEF Restarted, Tried
  <2>2. \A u \in Tools : states'[u] = None <=> cancels'[u] = None
    BY <1>13, FreshCounts DEF Restarted, Tried
  <2>3. tries' \in [Tools -> 0 .. FailureCap] /\ early' \subseteq Loops
    BY <1>13 DEF Restarted, Tried
  <2>4. QED BY <1>13, <2>1, <2>2, <2>3 DEF Restarted, Tried
<1>14. ASSUME NEW l \in Loops, RestartFails(l)
      PROVE  TypeInv'
  BY <1>14 DEF RestartFails, Tried, Doubled
<1>15. ASSUME NEW t \in Tools, ToolStep(t)
      PROVE  TypeInv'
  BY <1>15 DEF ToolStep, CallBegins, CallEnds, Dies, Removed, Started, Uninstalled, ProcessMoves
<1>16. CASE UNCHANGED vars
  BY <1>16 DEF vars
<1>17. QED
  BY <1>1, <1>2, <1>3, <1>4, <1>5, <1>6, <1>7, <1>8, <1>9, <1>10, <1>11, <1>12, <1>13, <1>14, <1>15, <1>16
     DEF Next, LoopStep

\* Every variable has its type, and exactly the watched tools have counters.
THEOREM TypeCorrect == Spec => []TypeOK
<1>1. Init => TypeInv
  BY MonitorAssumption DEF MonitorAssumption, Init, TypeInv, TypeOK, LoopsWatch
<1>2. TypeInv /\ [Next]_vars => TypeInv' BY TypeStep
<1>3. TypeInv => TypeOK BY DEF TypeInv
<1>4. QED BY <1>1, <1>2, <1>3, PTL DEF Spec

\* In every reachable state the types hold and a loop that runs has its tool.
THEOREM TypeInvariance == Spec => []TypeInv
<1>1. Init => TypeInv
  BY MonitorAssumption DEF MonitorAssumption, Init, TypeInv, TypeOK, LoopsWatch
<1>2. TypeInv /\ [Next]_vars => TypeInv' BY TypeStep
<1>3. QED BY <1>1, <1>2, PTL DEF Spec

\* A second Watch cancels the loop of the first, and no other step lets go of
\* a loop that it does not cancel.
LEMMA OneLoopStep ==
  ASSUME TypeInv, OneLoopPerTool, [Next]_vars
  PROVE  OneLoopPerTool'
<1> USE MonitorAssumption DEF MonitorAssumption, TypeInv, TypeOK, LoopsWatch, Goto, Running,
           OneLoopPerTool, monitorVars, history
<1>1. ASSUME NEW l \in Loops, NEW t \in Tools, Watch(l, t)
      PROVE  OneLoopPerTool'
  BY <1>1 DEF Watch, Cleared
<1>2. ASSUME NEW t \in Tools, Unwatch(t)
      PROVE  OneLoopPerTool'
  BY <1>2 DEF Unwatch
<1>3. ASSUME Close
      PROVE  OneLoopPerTool'
  BY <1>3 DEF Close
<1>4. ASSUME NEW t \in Tools, Reset(t)
      PROVE  OneLoopPerTool'
  BY <1>4 DEF Reset, ClearCounters, Cleared
<1>5. ASSUME NEW l \in Loops, Tick(l)
      PROVE  OneLoopPerTool'
  BY <1>5 DEF Tick
<1>6. ASSUME NEW l \in Loops, Cancelled(l)
      PROVE  OneLoopPerTool'
  BY <1>6 DEF Cancelled
<1>7. ASSUME NEW l \in Loops, ProbeSucceeds(l)
      PROVE  OneLoopPerTool'
  BY <1>7 DEF ProbeSucceeds, ClearCounters, Cleared
<1>8. ASSUME NEW l \in Loops, ProbeFails(l)
      PROVE  OneLoopPerTool'
  BY <1>8 DEF ProbeFails
<1>9. ASSUME NEW l \in Loops, LoopUnwatched(l)
      PROVE  OneLoopPerTool'
  BY <1>9 DEF LoopUnwatched
<1>10. ASSUME NEW l \in Loops, CountFailure(l)
      PROVE  OneLoopPerTool'
  BY <1>10 DEF CountFailure, Exhausted
<1>11. ASSUME NEW l \in Loops, GiveUp(l)
      PROVE  OneLoopPerTool'
  BY <1>11 DEF GiveUp
<1>12. ASSUME NEW l \in Loops, BackoffEnds(l)
      PROVE  OneLoopPerTool'
  BY <1>12 DEF BackoffEnds
<1>13. ASSUME NEW l \in Loops, Restarted(l)
      PROVE  OneLoopPerTool'
  BY <1>13 DEF Restarted, Tried
<1>14. ASSUME NEW l \in Loops, RestartFails(l)
      PROVE  OneLoopPerTool'
  BY <1>14 DEF RestartFails, Tried, Doubled
<1>15. ASSUME NEW t \in Tools, ToolStep(t)
      PROVE  OneLoopPerTool'
  BY <1>15 DEF ToolStep, CallBegins, CallEnds, Dies, Removed, Started, Uninstalled, ProcessMoves
<1>16. CASE UNCHANGED vars
  BY <1>16 DEF vars
<1>17. QED
  BY <1>1, <1>2, <1>3, <1>4, <1>5, <1>6, <1>7, <1>8, <1>9, <1>10, <1>11, <1>12, <1>13, <1>14, <1>15, <1>16
     DEF Next, LoopStep

\* A tool has at most one loop that was not told to stop, and the next Watch,
\* Unwatch or Close reaches it.
THEOREM EveryLoopReachable == Spec => []OneLoopPerTool
<1>1. Init => OneLoopPerTool BY DEF Init, OneLoopPerTool, Running
<1>2. TypeInv /\ OneLoopPerTool /\ [Next]_vars => OneLoopPerTool' BY OneLoopStep
<1>3. QED BY <1>1, <1>2, TypeInvariance, PTL DEF Spec

-----------------------------------------------------------------------------
(* The starts of a tool and the loops that are about to start it are paid  *)
(* for by failures that were counted.                                      *)

Counted(t) == {l \in LoopsOf(t) : Committed(l)} \ early

Paid(t) ==
  /\ IsFiniteSet(Counted(t))
  /\ tries[t] + Cardinality(Counted(t)) < MaxRetries
  /\ states[t] # None => tries[t] + Cardinality(Counted(t)) <= states[t].failures

AllPaid == \A t \in Tools : Paid(t)

\* A tool of which nothing is counted is paid for.
LEMMA PaidAfresh ==
  ASSUME TypeInv, TypeInv', MaxRetries > 0, NEW t \in Tools, Counted(t)' = {}, tries'[t] = 0
  PROVE  Paid(t)'
<1>1. IsFiniteSet(Counted(t)') /\ Cardinality(Counted(t)') = 0 BY FS_EmptySet
<1>2. states'[t] # None => states'[t].failures \in Nat
  BY MonitorAssumption DEF TypeInv, TypeOK, MonitorAssumption
<1>3. QED BY <1>1, <1>2, MonitorAssumption DEF Paid, MonitorAssumption

\* A tool stays paid for when none of its starts is added, and its failures
\* are kept or forgotten.
LEMMA PaidStill ==
  ASSUME TypeInv, TypeInv', NEW t \in Tools, Paid(t),
         Counted(t)' = Counted(t), tries'[t] = tries[t],
         states'[t] # None => states[t] # None /\ states'[t].failures >= states[t].failures
  PROVE  Paid(t)'
<1>1. Cardinality(Counted(t)) \in Nat BY FS_CardinalityType DEF Paid
<1>2. tries[t] \in Nat BY MonitorAssumption DEF TypeInv, TypeOK, MonitorAssumption
<1>3. /\ states[t] # None => states[t].failures \in Nat
      /\ states'[t] # None => states'[t].failures \in Nat
  BY MonitorAssumption DEF TypeInv, TypeOK, MonitorAssumption
<1>4. QED BY <1>1, <1>2, <1>3, MonitorAssumption DEF Paid, MonitorAssumption

\* A tool stays paid for when a loop leaves the counted ones, whether or not
\* it starts the tool.
LEMMA PaidOff ==
  ASSUME TypeInv, TypeInv', NEW t \in Tools, NEW l, Paid(t),
         Counted(t)' = Counted(t) \ {l},
         \/ tries'[t] = tries[t]
         \/ l \in Counted(t) /\ tries'[t] = tries[t] + 1,
         states'[t] # None => states[t] # None /\ states'[t].failures = states[t].failures
  PROVE  Paid(t)'
<1>1. Cardinality(Counted(t)) \in Nat BY FS_CardinalityType DEF Paid
<1>2. /\ IsFiniteSet(Counted(t)')
      /\ Cardinality(Counted(t)') =
           IF l \in Counted(t) THEN Cardinality(Counted(t)) - 1 ELSE Cardinality(Counted(t))
  BY FS_RemoveElement DEF Paid
<1>3. tries[t] \in Nat BY MonitorAssumption DEF TypeInv, TypeOK, MonitorAssumption
<1>4. states[t] # None => states[t].failures \in Nat
  BY MonitorAssumption DEF TypeInv, TypeOK, MonitorAssumption
<1>5. QED BY <1>1, <1>2, <1>3, <1>4, MonitorAssumption DEF Paid, MonitorAssumption

\* A loop that counts a failure below the limit pays for one start.
LEMMA PaidIn ==
  ASSUME TypeInv, TypeInv', NEW t \in Tools, NEW l, Paid(t),
         Counted(t)' = Counted(t) \/ Counted(t)' = Counted(t) \cup {l},
         tries'[t] = tries[t], states[t] # None, states'[t] # None,
         states'[t].failures = states[t].failures + 1, states'[t].failures < MaxRetries
  PROVE  Paid(t)'
<1>1. Cardinality(Counted(t)) \in Nat BY FS_CardinalityType DEF Paid
<1>2. /\ IsFiniteSet(Counted(t)')
      /\ Cardinality(Counted(t)') \in
           {Cardinality(Counted(t)), Cardinality(Counted(t)) + 1}
  BY FS_AddElement DEF Paid
<1>3. tries[t] \in Nat BY MonitorAssumption DEF TypeInv, TypeOK, MonitorAssumption
<1>4. states[t].failures \in Nat
  BY MonitorAssumption DEF TypeInv, TypeOK, MonitorAssumption
<1>5. QED BY <1>1, <1>2, <1>3, <1>4, MonitorAssumption DEF Paid, MonitorAssumption

\* Every step leaves every tool paid for.
LEMMA PaidStep ==
  ASSUME TypeInv, MaxRetries > 0, AllPaid, [Next]_vars
  PROVE  AllPaid'
<1> SUFFICES ASSUME NEW u \in Tools PROVE Paid(u)' BY DEF AllPaid
<1>a. TypeInv' BY TypeStep
<1>b. Paid(u) BY DEF AllPaid
<1> USE MonitorAssumption DEF MonitorAssumption, TypeInv, TypeOK, LoopsWatch, Goto, Fresh,
           monitorVars, history, Counted, LoopsOf, Committed
<1>1. ASSUME NEW l \in Loops, NEW t \in Tools, Watch(l, t)
      PROVE  Paid(u)'
  <2>1. CASE u = t
    <3>1. Counted(u)' = {} /\ tries'[u] = 0 BY <1>1, <2>1 DEF Watch, Cleared
    <3>2. QED BY <3>1, <1>a, PaidAfresh
  <2>2. CASE u # t
    <3>1. Counted(u)' = Counted(u) /\ tries'[u] = tries[u] /\ states'[u] = states[u]
      BY <1>1, <2>2 DEF Watch, Cleared
    <3>2. states[u] # None => states[u].failures >= states[u].failures OBVIOUS
    <3>3. QED BY <3>1, <3>2, <1>a, <1>b, PaidStill
  <2>3. QED BY <2>1, <2>2
<1>2. ASSUME NEW t \in Tools, Unwatch(t)
      PROVE  Paid(u)'
  <2>1. Counted(u)' = Counted(u) /\ tries'[u] = tries[u] BY <1>2 DEF Unwatch
  <2>2. states'[u] # None => states[u] # None /\ states'[u].failures >= states[u].failures
    BY <1>2 DEF Unwatch
  <2>3. QED BY <2>1, <2>2, <1>a, <1>b, PaidStill
<1>3. ASSUME Close
      PROVE  Paid(u)'
  <2>1. Counted(u)' = Counted(u) /\ tries'[u] = tries[u] BY <1>3 DEF Close
  <2>2. states'[u] # None => states[u] # None /\ states'[u].failures >= states[u].failures
    BY <1>3 DEF Close
  <2>3. QED BY <2>1, <2>2, <1>a, <1>b, PaidStill
<1>4. ASSUME NEW t \in Tools, Reset(t)
      PROVE  Paid(u)'
  <2>1. CASE u = t /\ states[u] # None
    <3>1. Counted(u)' = {} /\ tries'[u] = 0 BY <1>4, <2>1 DEF Reset, ClearCounters, Cleared
    <3>2. QED BY <3>1, <1>a, PaidAfresh
  <2>2. CASE ~(u = t /\ states[u] # None)
    <3>1. Counted(u)' = Counted(u) /\ tries'[u] = tries[u] /\ states'[u] = states[u]
      BY <1>4, <2>2 DEF Reset, ClearCounters, Cleared
    <3>2. states[u] # None => states[u].failures >= states[u].failures OBVIOUS
    <3>3. QED BY <3>1, <3>2, <1>a, <1>b, PaidStill
  <2>3. QED BY <2>1, <2>2
<1>5. ASSUME NEW l \in Loops, Tick(l)
      PROVE  Paid(u)'
  <2>1. Counted(u)' = Counted(u) /\ tries'[u] = tries[u] BY <1>5 DEF Tick
  <2>2. states'[u] # None => states[u] # None /\ states'[u].failures >= states[u].failures
    BY <1>5 DEF Tick
  <2>3. QED BY <2>1, <2>2, <1>a, <1>b, PaidStill
<1>6. ASSUME NEW l \in Loops, Cancelled(l)
      PROVE  Paid(u)'
  <2>1. Counted(u)' = Counted(u) \ {l} BY <1>6 DEF Cancelled
  <2>2. \/ tries'[u] = tries[u]
        \/ l \in Counted(u) /\ tries'[u] = tries[u] + 1
    BY <1>6 DEF Cancelled
  <2>3. states'[u] # None => states[u] # None /\ states'[u].failures = states[u].failures
    BY <1>6 DEF Cancelled
  <2>4. QED BY <2>1, <2>2, <2>3, <1>a, <1>b, PaidOff
<1>7. ASSUME NEW l \in Loops, ProbeSucceeds(l)
      PROVE  Paid(u)'
  <2>1. CASE u = tool[l] /\ states[u] # None
    <3>1. Counted(u)' = {} /\ tries'[u] = 0 BY <1>7, <2>1 DEF ProbeSucceeds, ClearCounters, Cleared
    <3>2. QED BY <3>1, <1>a, PaidAfresh
  <2>2. CASE ~(u = tool[l] /\ states[u] # None)
    <3>1. Counted(u)' = Counted(u) /\ tries'[u] = tries[u] /\ states'[u] = states[u]
      BY <1>7, <2>2 DEF ProbeSucceeds, ClearCounters, Cleared
    <3>2. states[u] # None => states[u].failures >= states[u].failures OBVIOUS
    <3>3. QED BY <3>1, <3>2, <1>a, <1>b, PaidStill
  <2>3. QED BY <2>1, <2>2
<1>8. ASSUME NEW l \in Loops, ProbeFails(l)
      PROVE  Paid(u)'
  <2>1. Counted(u)' = Counted(u) /\ tries'[u] = tries[u] BY <1>8 DEF ProbeFails
  <2>2. states'[u] # None => states[u] # None /\ states'[u].failures >= states[u].failures
    BY <1>8 DEF ProbeFails
  <2>3. QED BY <2>1, <2>2, <1>a, <1>b, PaidStill
<1>9. ASSUME NEW l \in Loops, LoopUnwatched(l)
      PROVE  Paid(u)'
  <2>1. Counted(u)' = Counted(u) /\ tries'[u] = tries[u] BY <1>9 DEF LoopUnwatched
  <2>2. states'[u] # None => states[u] # None /\ states'[u].failures >= states[u].failures
    BY <1>9 DEF LoopUnwatched
  <2>3. QED BY <2>1, <2>2, <1>a, <1>b, PaidStill
<1>10. ASSUME NEW l \in Loops, CountFailure(l)
      PROVE  Paid(u)'
  <2>1. CASE u = tool[l] /\ ~Exhausted(states[u].failures + 1)
    <3>1. Counted(u)' = Counted(u) \/ Counted(u)' = Counted(u) \cup {l}
      BY <1>10, <2>1 DEF CountFailure
    <3>2. /\ tries'[u] = tries[u] /\ states[u] # None /\ states'[u] # None
          /\ states'[u].failures = states[u].failures + 1
          /\ states'[u].failures < MaxRetries
      BY <1>10, <2>1, <1>a DEF CountFailure, Exhausted
    <3>3. QED BY <3>1, <3>2, <1>a, <1>b, PaidIn
  <2>2. CASE ~(u = tool[l] /\ ~Exhausted(states[u].failures + 1))
    <3>1. Counted(u)' = Counted(u) /\ tries'[u] = tries[u] BY <1>10, <2>2 DEF CountFailure
    <3>2. states'[u] # None => states[u] # None /\ states'[u].failures >= states[u].failures
      BY <1>10 DEF CountFailure
    <3>3. QED BY <3>1, <3>2, <1>a, <1>b, PaidStill
  <2>3. QED BY <2>1, <2>2
<1>11. ASSUME NEW l \in Loops, GiveUp(l)
      PROVE  Paid(u)'
  <2>1. Counted(u)' = Counted(u) /\ tries'[u] = tries[u] BY <1>11 DEF GiveUp
  <2>2. states'[u] # None => states[u] # None /\ states'[u].failures >= states[u].failures
    BY <1>11 DEF GiveUp
  <2>3. QED BY <2>1, <2>2, <1>a, <1>b, PaidStill
<1>12. ASSUME NEW l \in Loops, BackoffEnds(l)
      PROVE  Paid(u)'
  <2>1. Counted(u)' = Counted(u) /\ tries'[u] = tries[u] BY <1>12 DEF BackoffEnds
  <2>2. states'[u] # None => states[u] # None /\ states'[u].failures >= states[u].failures
    BY <1>12 DEF BackoffEnds
  <2>3. QED BY <2>1, <2>2, <1>a, <1>b, PaidStill
<1>13. ASSUME NEW l \in Loops, Restarted(l)
      PROVE  Paid(u)'
  <2>1. Counted(u)' = Counted(u) \ {l} BY <1>13 DEF Restarted, Tried
  <2>2. \/ tries'[u] = tries[u]
        \/ l \in Counted(u) /\ tries'[u] = tries[u] + 1
    BY <1>13 DEF Restarted, Tried
  <2>3. states'[u] # None => states[u] # None /\ states'[u].failures = states[u].failures
    BY <1>13 DEF Restarted, Tried
  <2>4. QED BY <2>1, <2>2, <2>3, <1>a, <1>b, PaidOff
<1>14. ASSUME NEW l \in Loops, RestartFails(l)
      PROVE  Paid(u)'
  <2>1. Counted(u)' = Counted(u) \ {l} BY <1>14 DEF RestartFails, Tried, Doubled
  <2>2. \/ tries'[u] = tries[u]
        \/ l \in Counted(u) /\ tries'[u] = tries[u] + 1
    BY <1>14 DEF RestartFails, Tried, Doubled
  <2>3. states'[u] # None => states[u] # None /\ states'[u].failures = states[u].failures
    BY <1>14 DEF RestartFails, Tried, Doubled
  <2>4. QED BY <2>1, <2>2, <2>3, <1>a, <1>b, PaidOff
<1>15. ASSUME NEW t \in Tools, ToolStep(t)
      PROVE  Paid(u)'
  <2>1. Counted(u)' = Counted(u) /\ tries'[u] = tries[u] BY <1>15 DEF ToolStep, CallBegins, CallEnds, Dies, Removed, Started, Uninstalled, ProcessMoves
  <2>2. states'[u] # None => states[u] # None /\ states'[u].failures >= states[u].failures
    BY <1>15 DEF ToolStep, CallBegins, CallEnds, Dies, Removed, Started, Uninstalled, ProcessMoves
  <2>3. QED BY <2>1, <2>2, <1>a, <1>b, PaidStill
<1>16. CASE UNCHANGED vars
  <2>1. Counted(u)' = Counted(u) /\ tries'[u] = tries[u] /\ states'[u] = states[u]
    BY <1>16 DEF vars
  <2>2. states[u] # None => states[u].failures >= states[u].failures OBVIOUS
  <2>3. QED BY <2>1, <2>2, <1>a, <1>b, PaidStill
<1>17. QED
  BY <1>1, <1>2, <1>3, <1>4, <1>5, <1>6, <1>7, <1>8, <1>9, <1>10, <1>11, <1>12, <1>13, <1>14, <1>15, <1>16
     DEF Next, LoopStep

\* The monitor starts a tool fewer than MaxRetries times before the tool was
\* seen alive or watched anew, whichever of its loops count.
THEOREM RestartsAreBounded == Spec => []RestartsBounded
<1>1. CASE MaxRetries > 0
  <2>1. Init => AllPaid
    <3> SUFFICES ASSUME Init, NEW t \in Tools PROVE Paid(t) BY DEF AllPaid
    <3>1. Counted(t) = {} BY DEF Init, Counted, LoopsOf
    <3>2. IsFiniteSet(Counted(t)) /\ Cardinality(Counted(t)) = 0 BY <3>1, FS_EmptySet
    <3>3. QED BY <3>2, <1>1, MonitorAssumption DEF Init, Paid, MonitorAssumption
  <2>2. TypeInv /\ AllPaid /\ [Next]_vars => AllPaid' BY <1>1, PaidStep
  <2>3. TypeInv /\ AllPaid => RestartsBounded
    <3> SUFFICES ASSUME TypeInv, AllPaid, NEW t \in Tools PROVE tries[t] < MaxRetries
      BY DEF RestartsBounded
    <3>1. Paid(t) BY DEF AllPaid
    <3>2. Cardinality(Counted(t)) \in Nat BY <3>1, FS_CardinalityType DEF Paid
    <3>3. tries[t] \in Nat BY MonitorAssumption DEF TypeInv, TypeOK, MonitorAssumption
    <3>4. QED BY <3>1, <3>2, <3>3, MonitorAssumption DEF Paid, MonitorAssumption
  <2>4. QED BY <2>1, <2>2, <2>3, TypeInvariance, PTL DEF Spec
<1>2. CASE ~(MaxRetries > 0)
  <2>1. RestartsBounded BY <1>2 DEF RestartsBounded
  <2>2. QED BY <2>1, PTL
<1>3. QED BY <1>1, <1>2
=============================================================================
