--------------------------- MODULE ExecutorProofs ---------------------------
(***************************************************************************)
(* What holds of Executor for every set of tools, processes, operators and *)
(* callers.  The facts that need a single operator at a time carry that    *)
(* hypothesis (OneOperator) in their statement.                            *)
(***************************************************************************)
EXTENDS Executor, TLAPS

OneOperator == \A a, b \in Operators : a = b

\* A health goroutine that exists has a tool, and a probe in flight a target.
LoopPointers ==
  \A p \in Procs :
    /\ loop[p] # "off" => owner[p] \in Tools
    /\ loop[p] = "probing" => probed[p] \in Procs

\* A busy thread works on a tool; in a call, or about to register a process,
\* it holds one.
ThreadPointers ==
  \A th \in Threads :
    /\ pc[th] # "idle" => arg[th] \in Tools
    /\ pc[th] \in {"install", "calling"} => held[th] \in Procs

\* The process a Start is about to register was created for its tool.
InstallOwns ==
  \A o \in Operators : pc[o] = "install" => owner[held[o]] = arg[o]

\* A process that does not exist yet is in nobody's hands.
Fresh ==
  \A p \in Procs :
    life[p] = "unused" =>
      /\ loop[p] = "off" /\ ctx[p] # "live"
      /\ \A o \in Operators : pc[o] = "install" => held[o] # p

TypeInv ==
  /\ ToolsOK /\ ProcessesOK /\ LoopsOK /\ ThreadsOK
  /\ LoopPointers /\ ThreadPointers /\ InstallOwns /\ Fresh

\* Counting one more failure stays within the bound.
LEMMA CountsClosed ==
  ASSUME ExecutorAssumption
  PROVE  0 \in Counts /\ \A n \in Counts : Bump(n) \in Counts
  BY DEF ExecutorAssumption, Counts, Bump

\* Every step keeps the types and the pointers.
LEMMA TypeStep ==
  ASSUME TypeInv, [Next]_vars
  PROVE  TypeInv'
<1> USE ExecutorAssumption, CountsClosed DEF ExecutorAssumption, TypeInv, Return, Goto,
           toolVars, loopVars, threadVars, Threads
<1>1. ASSUME NEW o \in Operators, NEW t \in Tools, StartCheck(o, t)
      PROVE  TypeInv'
  <2>1. ToolsOK'
    BY <1>1 DEF StartCheck, ToolsOK, ProcessesOK, ThreadsOK, HealthStates
  <2>2. ProcessesOK'
    BY <1>1 DEF StartCheck, ProcessesOK, ThreadsOK, ToolsOK, Life
  <2>3. LoopsOK'
    BY <1>1 DEF StartCheck, LoopsOK, ToolsOK, ThreadsOK, LoopLabels
  <2>4. ThreadsOK'
    BY <1>1 DEF StartCheck, ThreadsOK, ToolsOK, Labels
  <2>5. LoopPointers'
    BY <1>1 DEF StartCheck, LoopPointers, ThreadPointers, ToolsOK, ProcessesOK, LoopsOK, ThreadsOK, Life, LoopLabels, Labels
  <2>6. ThreadPointers'
    BY <1>1 DEF StartCheck, ThreadPointers, LoopPointers, ToolsOK, ProcessesOK, LoopsOK, ThreadsOK, Life, LoopLabels, Labels
  <2>7. InstallOwns'
    BY <1>1 DEF StartCheck, InstallOwns, LoopPointers, ThreadPointers, ToolsOK, ProcessesOK, LoopsOK, ThreadsOK, Life, LoopLabels, Labels
  <2>8. Fresh'
    BY <1>1 DEF StartCheck, Fresh, LoopPointers, ThreadPointers, ToolsOK, ProcessesOK, LoopsOK, ThreadsOK, Life, LoopLabels, Labels
  <2>9. QED BY <2>1, <2>2, <2>3, <2>4, <2>5, <2>6, <2>7, <2>8 DEF TypeInv
<1>2. ASSUME NEW o \in Operators, StartFail(o)
      PROVE  TypeInv'
  <2>1. ToolsOK'
    BY <1>2 DEF StartFail, ToolsOK, ProcessesOK, ThreadsOK, HealthStates
  <2>2. ProcessesOK'
    BY <1>2 DEF StartFail, ProcessesOK, ThreadsOK, ToolsOK, Life
  <2>3. LoopsOK'
    BY <1>2 DEF StartFail, LoopsOK, ToolsOK, ThreadsOK, LoopLabels
  <2>4. ThreadsOK'
    BY <1>2 DEF StartFail, ThreadsOK, ToolsOK, Labels
  <2>5. LoopPointers'
    BY <1>2 DEF StartFail, LoopPointers, ThreadPointers, ToolsOK, ProcessesOK, LoopsOK, ThreadsOK, Life, LoopLabels, Labels
  <2>6. ThreadPointers'
    BY <1>2 DEF StartFail, ThreadPointers, LoopPointers, ToolsOK, ProcessesOK, LoopsOK, ThreadsOK, Life, LoopLabels, Labels
  <2>7. InstallOwns'
    BY <1>2 DEF StartFail, InstallOwns, LoopPointers, ThreadPointers, ToolsOK, ProcessesOK, LoopsOK, ThreadsOK, Life, LoopLabels, Labels
  <2>8. Fresh'
    BY <1>2 DEF StartFail, Fresh, LoopPointers, ThreadPointers, ToolsOK, ProcessesOK, LoopsOK, ThreadsOK, Life, LoopLabels, Labels
  <2>9. QED BY <2>1, <2>2, <2>3, <2>4, <2>5, <2>6, <2>7, <2>8 DEF TypeInv
<1>3. ASSUME NEW o \in Operators, StartCreate(o)
      PROVE  TypeInv'
  <2>1. ToolsOK'
    BY <1>3 DEF StartCreate, ToolsOK, ProcessesOK, ThreadsOK, HealthStates
  <2>2. ProcessesOK'
    BY <1>3 DEF StartCreate, ProcessesOK, ThreadsOK, ToolsOK, Life
  <2>3. LoopsOK'
    BY <1>3 DEF StartCreate, LoopsOK, ToolsOK, ThreadsOK, LoopLabels
  <2>4. ThreadsOK'
    BY <1>3 DEF StartCreate, ThreadsOK, ToolsOK, Labels
  <2>5. LoopPointers'
    BY <1>3 DEF StartCreate, LoopPointers, ThreadPointers, ToolsOK, ProcessesOK, LoopsOK, ThreadsOK, Life, LoopLabels, Labels
  <2>6. ThreadPointers'
    BY <1>3 DEF StartCreate, ThreadPointers, LoopPointers, ToolsOK, ProcessesOK, LoopsOK, ThreadsOK, Life, LoopLabels, Labels
  <2>7. InstallOwns'
    BY <1>3 DEF StartCreate, InstallOwns, Fresh, LoopPointers, ThreadPointers, ToolsOK, ProcessesOK, LoopsOK, ThreadsOK, Life, LoopLabels, Labels
  <2>8. Fresh'
    BY <1>3 DEF StartCreate, Fresh, LoopPointers, ThreadPointers, ToolsOK, ProcessesOK, LoopsOK, ThreadsOK, Life, LoopLabels, Labels
  <2>9. QED BY <2>1, <2>2, <2>3, <2>4, <2>5, <2>6, <2>7, <2>8 DEF TypeInv
<1>4. ASSUME NEW o \in Operators, StartInitFails(o)
      PROVE  TypeInv'
  <2>1. ToolsOK'
    BY <1>4 DEF StartInitFails, Closed, ToolsOK, ProcessesOK, ThreadsOK, HealthStates
  <2>2. ProcessesOK'
    BY <1>4 DEF StartInitFails, Closed, ProcessesOK, ThreadsOK, ToolsOK, Life
  <2>3. LoopsOK'
    BY <1>4 DEF StartInitFails, Closed, LoopsOK, ToolsOK, ThreadsOK, LoopLabels
  <2>4. ThreadsOK'
    BY <1>4 DEF StartInitFails, Closed, ThreadsOK, ToolsOK, Labels
  <2>5. LoopPointers'
    BY <1>4 DEF StartInitFails, Closed, LoopPointers, ThreadPointers, ToolsOK, ProcessesOK, LoopsOK, ThreadsOK, Life, LoopLabels, Labels
  <2>6. ThreadPointers'
    BY <1>4 DEF StartInitFails, Closed, ThreadPointers, LoopPointers, ToolsOK, ProcessesOK, LoopsOK, ThreadsOK, Life, LoopLabels, Labels
  <2>7. InstallOwns'
    BY <1>4 DEF StartInitFails, Closed, InstallOwns, LoopPointers, ThreadPointers, ToolsOK, ProcessesOK, LoopsOK, ThreadsOK, Life, LoopLabels, Labels
  <2>8. Fresh'
    BY <1>4 DEF StartInitFails, Closed, Fresh, LoopPointers, ThreadPointers, ToolsOK, ProcessesOK, LoopsOK, ThreadsOK, Life, LoopLabels, Labels
  <2>9. QED BY <2>1, <2>2, <2>3, <2>4, <2>5, <2>6, <2>7, <2>8 DEF TypeInv
<1>5. ASSUME NEW o \in Operators, StartInstall(o)
      PROVE  TypeInv'
  <2>1. ToolsOK'
    <3>1. procs' \in [Tools -> Procs \cup {None}]
      BY <1>5 DEF StartInstall, ToolsOK, ProcessesOK, ThreadsOK, HealthStates, ThreadPointers, Labels
    <3>2. healthCancels' \in [Tools -> Procs \cup {None}]
      BY <1>5 DEF StartInstall, ToolsOK, ProcessesOK, ThreadsOK, HealthStates, ThreadPointers, Labels
    <3>3. status' \in [Tools -> {"stopped", "running"}]
      BY <1>5 DEF StartInstall, ToolsOK, ProcessesOK, ThreadsOK, HealthStates, ThreadPointers, Labels
    <3>4. health' \in [Tools -> HealthStates]
      BY <1>5 DEF StartInstall, ToolsOK, ProcessesOK, ThreadsOK, HealthStates, ThreadPointers, Labels
    <3>5. failures' \in [Tools -> Counts]
      BY <1>5 DEF StartInstall, ToolsOK, ProcessesOK, ThreadsOK, HealthStates, ThreadPointers, Labels
    <3>6. QED BY <3>1, <3>2, <3>3, <3>4, <3>5 DEF ToolsOK
  <2>2. ProcessesOK'
    BY <1>5 DEF StartInstall, ProcessesOK, ThreadsOK, ToolsOK, Life
  <2>3. LoopsOK'
    BY <1>5 DEF StartInstall, LoopsOK, ToolsOK, ThreadsOK, LoopLabels
  <2>4. ThreadsOK'
    BY <1>5 DEF StartInstall, ThreadsOK, ToolsOK, Labels
  <2>5. LoopPointers'
    BY <1>5 DEF StartInstall, InstallOwns, LoopPointers, ThreadPointers, ToolsOK, ProcessesOK, LoopsOK, ThreadsOK, Life, LoopLabels, Labels
  <2>6. ThreadPointers'
    BY <1>5 DEF StartInstall, ThreadPointers, LoopPointers, ToolsOK, ProcessesOK, LoopsOK, ThreadsOK, Life, LoopLabels, Labels
  <2>7. InstallOwns'
    BY <1>5 DEF StartInstall, InstallOwns, LoopPointers, ThreadPointers, ToolsOK, ProcessesOK, LoopsOK, ThreadsOK, Life, LoopLabels, Labels
  <2>8. Fresh'
    BY <1>5 DEF StartInstall, Fresh, LoopPointers, ThreadPointers, ToolsOK, ProcessesOK, LoopsOK, ThreadsOK, Life, LoopLabels, Labels
  <2>9. QED BY <2>1, <2>2, <2>3, <2>4, <2>5, <2>6, <2>7, <2>8 DEF TypeInv
<1>6. ASSUME NEW o \in Operators, NEW t \in Tools, StopCancel(o, t)
      PROVE  TypeInv'
  <2>1. ToolsOK'
    BY <1>6 DEF StopCancel, CancelOf, ToolsOK, ProcessesOK, ThreadsOK, HealthStates
  <2>2. ProcessesOK'
    BY <1>6 DEF StopCancel, CancelOf, ProcessesOK, ThreadsOK, ToolsOK, Life
  <2>3. LoopsOK'
    BY <1>6 DEF StopCancel, CancelOf, LoopsOK, ToolsOK, ThreadsOK, LoopLabels
  <2>4. ThreadsOK'
    BY <1>6 DEF StopCancel, CancelOf, ThreadsOK, ToolsOK, Labels
  <2>5. LoopPointers'
    BY <1>6 DEF StopCancel, CancelOf, LoopPointers, ThreadPointers, ToolsOK, ProcessesOK, LoopsOK, ThreadsOK, Life, LoopLabels, Labels
  <2>6. ThreadPointers'
    BY <1>6 DEF StopCancel, CancelOf, ThreadPointers, LoopPointers, ToolsOK, ProcessesOK, LoopsOK, ThreadsOK, Life, LoopLabels, Labels
  <2>7. InstallOwns'
    BY <1>6 DEF StopCancel, CancelOf, InstallOwns, LoopPointers, ThreadPointers, ToolsOK, ProcessesOK, LoopsOK, ThreadsOK, Life, LoopLabels, Labels
  <2>8. Fresh'
    BY <1>6 DEF StopCancel, CancelOf, Fresh, LoopPointers, ThreadPointers, ToolsOK, ProcessesOK, LoopsOK, ThreadsOK, Life, LoopLabels, Labels
  <2>9. QED BY <2>1, <2>2, <2>3, <2>4, <2>5, <2>6, <2>7, <2>8 DEF TypeInv
<1>7. ASSUME NEW o \in Operators, StopLocked(o)
      PROVE  TypeInv'
  <2>1. ToolsOK'
    <3>1. procs' \in [Tools -> Procs \cup {None}]
      BY <1>7 DEF StopLocked, Retire, Closed, ToolsOK, ProcessesOK, ThreadsOK, HealthStates
    <3>2. healthCancels' \in [Tools -> Procs \cup {None}]
      BY <1>7 DEF StopLocked, Retire, Closed, ToolsOK, ProcessesOK, ThreadsOK, HealthStates
    <3>3. status' \in [Tools -> {"stopped", "running"}]
      BY <1>7 DEF StopLocked, Retire, Closed, ToolsOK, ProcessesOK, ThreadsOK, HealthStates
    <3>4. health' \in [Tools -> HealthStates]
      BY <1>7 DEF StopLocked, Retire, Closed, ToolsOK, ProcessesOK, ThreadsOK, HealthStates
    <3>5. failures' \in [Tools -> Counts]
      BY <1>7 DEF StopLocked, Retire, Closed, ToolsOK, ProcessesOK, ThreadsOK, HealthStates
    <3>6. QED BY <3>1, <3>2, <3>3, <3>4, <3>5 DEF ToolsOK
  <2>2. ProcessesOK'
    BY <1>7 DEF StopLocked, Retire, Closed, ProcessesOK, ThreadsOK, ToolsOK, Life
  <2>3. LoopsOK'
    BY <1>7 DEF StopLocked, Retire, Closed, LoopsOK, ToolsOK, ThreadsOK, LoopLabels
  <2>4. ThreadsOK'
    BY <1>7 DEF StopLocked, Retire, Closed, ThreadsOK, ToolsOK, Labels
  <2>5. LoopPointers'
    BY <1>7 DEF StopLocked, Retire, Closed, LoopPointers, ThreadPointers, ToolsOK, ProcessesOK, LoopsOK, ThreadsOK, Life, LoopLabels, Labels
  <2>6. ThreadPointers'
    BY <1>7 DEF StopLocked, Retire, Closed, ThreadPointers, LoopPointers, ToolsOK, ProcessesOK, LoopsOK, ThreadsOK, Life, LoopLabels, Labels
  <2>7. InstallOwns'
    BY <1>7 DEF StopLocked, Retire, Closed, InstallOwns, LoopPointers, ThreadPointers, ToolsOK, ProcessesOK, LoopsOK, ThreadsOK, Life, LoopLabels, Labels
  <2>8. Fresh'
    <3>1. \A p \in Procs : life'[p] = "unused" => life[p] = "unused"
      BY <1>7 DEF StopLocked, Retire, Closed, ProcessesOK, Life
    <3>2. \A a \in Operators : pc'[a] = "install" => pc[a] = "install" /\ held'[a] = held[a]
      BY <1>7 DEF StopLocked, Return, ThreadsOK, Threads, Labels
    <3>3. loop' = loop /\ ctx' = ctx BY <1>7 DEF StopLocked, loopVars
    <3>4. QED BY <3>1, <3>2, <3>3 DEF Fresh
  <2>9. QED BY <2>1, <2>2, <2>3, <2>4, <2>5, <2>6, <2>7, <2>8 DEF TypeInv
<1>8. ASSUME NEW o \in Operators, StopNotRunning(o)
      PROVE  TypeInv'
  <2>1. ToolsOK'
    BY <1>8 DEF StopNotRunning, ToolsOK, ProcessesOK, ThreadsOK, HealthStates
  <2>2. ProcessesOK'
    BY <1>8 DEF StopNotRunning, ProcessesOK, ThreadsOK, ToolsOK, Life
  <2>3. LoopsOK'
    BY <1>8 DEF StopNotRunning, LoopsOK, ToolsOK, ThreadsOK, LoopLabels
  <2>4. ThreadsOK'
    BY <1>8 DEF StopNotRunning, ThreadsOK, ToolsOK, Labels
  <2>5. LoopPointers'
    BY <1>8 DEF StopNotRunning, LoopPointers, ThreadPointers, ToolsOK, ProcessesOK, LoopsOK, ThreadsOK, Life, LoopLabels, Labels
  <2>6. ThreadPointers'
    BY <1>8 DEF StopNotRunning, ThreadPointers, LoopPointers, ToolsOK, ProcessesOK, LoopsOK, ThreadsOK, Life, LoopLabels, Labels
  <2>7. InstallOwns'
    BY <1>8 DEF StopNotRunning, InstallOwns, LoopPointers, ThreadPointers, ToolsOK, ProcessesOK, LoopsOK, ThreadsOK, Life, LoopLabels, Labels
  <2>8. Fresh'
    BY <1>8 DEF StopNotRunning, Fresh, LoopPointers, ThreadPointers, ToolsOK, ProcessesOK, LoopsOK, ThreadsOK, Life, LoopLabels, Labels
  <2>9. QED BY <2>1, <2>2, <2>3, <2>4, <2>5, <2>6, <2>7, <2>8 DEF TypeInv
<1>9. ASSUME NEW o \in Operators, NEW t \in Tools, ForceKill(o, t)
      PROVE  TypeInv'
  <2>1. ToolsOK'
    <3>1. procs' \in [Tools -> Procs \cup {None}]
      BY <1>9 DEF ForceKill, Retire, Closed, CancelOf, ToolsOK, ProcessesOK, ThreadsOK, HealthStates
    <3>2. healthCancels' \in [Tools -> Procs \cup {None}]
      BY <1>9 DEF ForceKill, Retire, Closed, CancelOf, ToolsOK, ProcessesOK, ThreadsOK, HealthStates
    <3>3. status' \in [Tools -> {"stopped", "running"}]
      BY <1>9 DEF ForceKill, Retire, Closed, CancelOf, ToolsOK, ProcessesOK, ThreadsOK, HealthStates
    <3>4. health' \in [Tools -> HealthStates]
      BY <1>9 DEF ForceKill, Retire, Closed, CancelOf, ToolsOK, ProcessesOK, ThreadsOK, HealthStates
    <3>5. failures' \in [Tools -> Counts]
      <4>1. UNCHANGED failures \/ failures' = [failures EXCEPT ![t] = 0]
        BY <1>9 DEF ForceKill, Retire
      <4>2. QED BY <4>1 DEF ToolsOK
    <3>6. QED BY <3>1, <3>2, <3>3, <3>4, <3>5 DEF ToolsOK
  <2>2. ProcessesOK'
    BY <1>9 DEF ForceKill, Retire, Closed, CancelOf, ProcessesOK, ThreadsOK, ToolsOK, Life
  <2>3. LoopsOK'
    BY <1>9 DEF ForceKill, Retire, Closed, CancelOf, LoopsOK, ToolsOK, ThreadsOK, LoopLabels
  <2>4. ThreadsOK'
    BY <1>9 DEF ForceKill, Retire, Closed, CancelOf, ThreadsOK, ToolsOK, Labels
  <2>5. LoopPointers'
    BY <1>9 DEF ForceKill, Retire, Closed, CancelOf, LoopPointers, ThreadPointers, ToolsOK, ProcessesOK, LoopsOK, ThreadsOK, Life, LoopLabels, Labels
  <2>6. ThreadPointers'
    BY <1>9 DEF ForceKill, Retire, Closed, CancelOf, ThreadPointers, LoopPointers, ToolsOK, ProcessesOK, LoopsOK, ThreadsOK, Life, LoopLabels, Labels
  <2>7. InstallOwns'
    BY <1>9 DEF ForceKill, Retire, Closed, CancelOf, InstallOwns, LoopPointers, ThreadPointers, ToolsOK, ProcessesOK, LoopsOK, ThreadsOK, Life, LoopLabels, Labels
  <2>8. Fresh'
    <3>1. \A p \in Procs : life'[p] = "unused" => life[p] = "unused"
      BY <1>9 DEF ForceKill, Retire, Closed, ProcessesOK
    <3>2. UNCHANGED <<loop, pc, held>>
      BY <1>9 DEF ForceKill
    <3>3. \A p \in Procs : ctx'[p] = "live" => ctx[p] = "live"
      <4>1. \/ UNCHANGED ctx
            \/ ctx' = [ctx EXCEPT ![healthCancels[t]] = "cancelled"]
        BY <1>9 DEF ForceKill, CancelOf
      <4>2. QED BY <4>1 DEF LoopsOK
    <3>4. QED BY <3>1, <3>2, <3>3 DEF Fresh
  <2>9. QED BY <2>1, <2>2, <2>3, <2>4, <2>5, <2>6, <2>7, <2>8 DEF TypeInv
<1>10. ASSUME NEW o \in Operators, Close(o)
      PROVE  TypeInv'
  <2>1. ToolsOK'
    BY <1>10 DEF Close, ToolsOK, ProcessesOK, ThreadsOK, HealthStates
  <2>2. ProcessesOK'
    BY <1>10 DEF Close, ProcessesOK, ThreadsOK, ToolsOK, Life
  <2>3. LoopsOK'
    BY <1>10 DEF Close, LoopsOK, ToolsOK, ThreadsOK, LoopLabels
  <2>4. ThreadsOK'
    BY <1>10 DEF Close, ThreadsOK, ToolsOK, Labels
  <2>5. LoopPointers'
    BY <1>10 DEF Close, LoopPointers, ThreadPointers, ToolsOK, ProcessesOK, LoopsOK, ThreadsOK, Life, LoopLabels, Labels
  <2>6. ThreadPointers'
    BY <1>10 DEF Close, ThreadPointers, LoopPointers, ToolsOK, ProcessesOK, LoopsOK, ThreadsOK, Life, LoopLabels, Labels
  <2>7. InstallOwns'
    BY <1>10 DEF Close, InstallOwns, LoopPointers, ThreadPointers, ToolsOK, ProcessesOK, LoopsOK, ThreadsOK, Life, LoopLabels, Labels
  <2>8. Fresh'
    BY <1>10 DEF Close, Fresh, LoopPointers, ThreadPointers, ToolsOK, ProcessesOK, LoopsOK, ThreadsOK, Life, LoopLabels, Labels
  <2>9. QED BY <2>1, <2>2, <2>3, <2>4, <2>5, <2>6, <2>7, <2>8 DEF TypeInv
<1>11. ASSUME NEW c \in Callers, NEW t \in Tools, CallSend(c, t)
      PROVE  TypeInv'
  <2>1. ToolsOK'
    BY <1>11 DEF CallSend, ToolsOK, ProcessesOK, ThreadsOK, HealthStates
  <2>2. ProcessesOK'
    BY <1>11 DEF CallSend, ProcessesOK, ThreadsOK, ToolsOK, Life
  <2>3. LoopsOK'
    BY <1>11 DEF CallSend, LoopsOK, ToolsOK, ThreadsOK, LoopLabels
  <2>4. ThreadsOK'
    BY <1>11 DEF CallSend, ThreadsOK, ToolsOK, Labels
  <2>5. LoopPointers'
    BY <1>11 DEF CallSend, LoopPointers, ThreadPointers, ToolsOK, ProcessesOK, LoopsOK, ThreadsOK, Life, LoopLabels, Labels
  <2>6. ThreadPointers'
    BY <1>11 DEF CallSend, ThreadPointers, LoopPointers, ToolsOK, ProcessesOK, LoopsOK, ThreadsOK, Life, LoopLabels, Labels
  <2>7. InstallOwns'
    BY <1>11 DEF CallSend, InstallOwns, LoopPointers, ThreadPointers, ToolsOK, ProcessesOK, LoopsOK, ThreadsOK, Life, LoopLabels, Labels
  <2>8. Fresh'
    BY <1>11 DEF CallSend, Fresh, LoopPointers, ThreadPointers, ToolsOK, ProcessesOK, LoopsOK, ThreadsOK, Life, LoopLabels, Labels
  <2>9. QED BY <2>1, <2>2, <2>3, <2>4, <2>5, <2>6, <2>7, <2>8 DEF TypeInv
<1>12. ASSUME NEW c \in Callers, CallAnswered(c)
      PROVE  TypeInv'
  <2>1. ToolsOK'
    BY <1>12 DEF CallAnswered, ToolsOK, ProcessesOK, ThreadsOK, HealthStates
  <2>2. ProcessesOK'
    BY <1>12 DEF CallAnswered, ProcessesOK, ThreadsOK, ToolsOK, Life
  <2>3. LoopsOK'
    BY <1>12 DEF CallAnswered, LoopsOK, ToolsOK, ThreadsOK, LoopLabels
  <2>4. ThreadsOK'
    BY <1>12 DEF CallAnswered, ThreadsOK, ToolsOK, Labels
  <2>5. LoopPointers'
    BY <1>12 DEF CallAnswered, LoopPointers, ThreadPointers, ToolsOK, ProcessesOK, LoopsOK, ThreadsOK, Life, LoopLabels, Labels
  <2>6. ThreadPointers'
    BY <1>12 DEF CallAnswered, ThreadPointers, LoopPointers, ToolsOK, ProcessesOK, LoopsOK, ThreadsOK, Life, LoopLabels, Labels
  <2>7. InstallOwns'
    BY <1>12 DEF CallAnswered, InstallOwns, LoopPointers, ThreadPointers, ToolsOK, ProcessesOK, LoopsOK, ThreadsOK, Life, LoopLabels, Labels
  <2>8. Fresh'
    BY <1>12 DEF CallAnswered, Fresh, LoopPointers, ThreadPointers, ToolsOK, ProcessesOK, LoopsOK, ThreadsOK, Life, LoopLabels, Labels
  <2>9. QED BY <2>1, <2>2, <2>3, <2>4, <2>5, <2>6, <2>7, <2>8 DEF TypeInv
<1>13. ASSUME NEW c \in Callers, CallFailed(c)
      PROVE  TypeInv'
  <2>1. ToolsOK'
    <3>1. procs' \in [Tools -> Procs \cup {None}]
      <4>1. CASE arg[c] \in Msgpack
        BY <1>13, <4>1 DEF CallFailed, ToolsOK
      <4>2. CASE arg[c] \notin Msgpack
        <5>1. procs' = IF procs[arg[c]] = held[c]
                         THEN [procs EXCEPT ![arg[c]] = None] ELSE procs
          BY <1>13, <4>2 DEF CallFailed, MarkReplStopped
        <5>2. QED BY <5>1 DEF ToolsOK
      <4>3. QED BY <4>1, <4>2
    <3>2. healthCancels' \in [Tools -> Procs \cup {None}]
      BY <1>13 DEF CallFailed, MarkReplStopped, CancelOf, Bump, ToolsOK, ProcessesOK, ThreadsOK, HealthStates, ThreadPointers, Labels
    <3>3. status' \in [Tools -> {"stopped", "running"}]
      BY <1>13 DEF CallFailed, MarkReplStopped, CancelOf, Bump, ToolsOK, ProcessesOK, ThreadsOK, HealthStates, ThreadPointers, Labels
    <3>4. health' \in [Tools -> HealthStates]
      BY <1>13 DEF CallFailed, MarkReplStopped, CancelOf, Bump, ToolsOK, ProcessesOK, ThreadsOK, HealthStates, ThreadPointers, Labels
    <3>5. failures' \in [Tools -> Counts]
      <4>1. \/ UNCHANGED failures
            \/ failures' = [failures EXCEPT ![arg[c]] = Bump(failures[arg[c]])]
        BY <1>13 DEF CallFailed, MarkReplStopped
      <4>2. arg[c] \in Tools
        BY <1>13 DEF CallFailed, ThreadPointers
      <4>3. QED BY <4>1, <4>2 DEF ToolsOK
    <3>6. QED BY <3>1, <3>2, <3>3, <3>4, <3>5 DEF ToolsOK
  <2>2. ProcessesOK'
    BY <1>13 DEF CallFailed, MarkReplStopped, CancelOf, Bump, ProcessesOK, ThreadsOK, ToolsOK, Life
  <2>3. LoopsOK'
    BY <1>13 DEF CallFailed, MarkReplStopped, CancelOf, Bump, LoopsOK, ToolsOK, ThreadsOK, LoopLabels
  <2>4. ThreadsOK'
    BY <1>13 DEF CallFailed, MarkReplStopped, CancelOf, Bump, ThreadsOK, ToolsOK, Labels
  <2>5. LoopPointers'
    BY <1>13 DEF CallFailed, MarkReplStopped, CancelOf, Bump, LoopPointers, ThreadPointers, ToolsOK, ProcessesOK, LoopsOK, ThreadsOK, Life, LoopLabels, Labels
  <2>6. ThreadPointers'
    BY <1>13 DEF CallFailed, MarkReplStopped, CancelOf, Bump, ThreadPointers, LoopPointers, ToolsOK, ProcessesOK, LoopsOK, ThreadsOK, Life, LoopLabels, Labels
  <2>7. InstallOwns'
    BY <1>13 DEF CallFailed, MarkReplStopped, CancelOf, Bump, InstallOwns, LoopPointers, ThreadPointers, ToolsOK, ProcessesOK, LoopsOK, ThreadsOK, Life, LoopLabels, Labels
  <2>8. Fresh'
    BY <1>13 DEF CallFailed, MarkReplStopped, CancelOf, Bump, Fresh, LoopPointers, ThreadPointers, ToolsOK, ProcessesOK, LoopsOK, ThreadsOK, Life, LoopLabels, Labels
  <2>9. QED BY <2>1, <2>2, <2>3, <2>4, <2>5, <2>6, <2>7, <2>8 DEF TypeInv
<1>14. ASSUME NEW p \in Procs, HealthExit(p)
      PROVE  TypeInv'
  <2>1. ToolsOK'
    BY <1>14 DEF HealthExit, ToolsOK, ProcessesOK, ThreadsOK, HealthStates
  <2>2. ProcessesOK'
    BY <1>14 DEF HealthExit, ProcessesOK, ThreadsOK, ToolsOK, Life
  <2>3. LoopsOK'
    BY <1>14 DEF HealthExit, LoopsOK, ToolsOK, ThreadsOK, LoopLabels
  <2>4. ThreadsOK'
    BY <1>14 DEF HealthExit, ThreadsOK, ToolsOK, Labels
  <2>5. LoopPointers'
    BY <1>14 DEF HealthExit, LoopPointers, ThreadPointers, ToolsOK, ProcessesOK, LoopsOK, ThreadsOK, Life, LoopLabels, Labels
  <2>6. ThreadPointers'
    BY <1>14 DEF HealthExit, ThreadPointers, LoopPointers, ToolsOK, ProcessesOK, LoopsOK, ThreadsOK, Life, LoopLabels, Labels
  <2>7. InstallOwns'
    BY <1>14 DEF HealthExit, InstallOwns, LoopPointers, ThreadPointers, ToolsOK, ProcessesOK, LoopsOK, ThreadsOK, Life, LoopLabels, Labels
  <2>8. Fresh'
    BY <1>14 DEF HealthExit, Fresh, LoopPointers, ThreadPointers, ToolsOK, ProcessesOK, LoopsOK, ThreadsOK, Life, LoopLabels, Labels
  <2>9. QED BY <2>1, <2>2, <2>3, <2>4, <2>5, <2>6, <2>7, <2>8 DEF TypeInv
<1>15. ASSUME NEW p \in Procs, HealthTick(p)
      PROVE  TypeInv'
  <2>1. ToolsOK'
    BY <1>15 DEF HealthTick, ToolsOK, ProcessesOK, ThreadsOK, HealthStates
  <2>2. ProcessesOK'
    BY <1>15 DEF HealthTick, ProcessesOK, ThreadsOK, ToolsOK, Life
  <2>3. LoopsOK'
    BY <1>15 DEF HealthTick, LoopPointers, ProcessesOK, LoopsOK, ToolsOK, ThreadsOK, LoopLabels
  <2>4. ThreadsOK'
    BY <1>15 DEF HealthTick, ThreadsOK, ToolsOK, Labels
  <2>5. LoopPointers'
    BY <1>15 DEF HealthTick, LoopPointers, ThreadPointers, ToolsOK, ProcessesOK, LoopsOK, ThreadsOK, Life, LoopLabels, Labels
  <2>6. ThreadPointers'
    BY <1>15 DEF HealthTick, ThreadPointers, LoopPointers, ToolsOK, ProcessesOK, LoopsOK, ThreadsOK, Life, LoopLabels, Labels
  <2>7. InstallOwns'
    BY <1>15 DEF HealthTick, InstallOwns, LoopPointers, ThreadPointers, ToolsOK, ProcessesOK, LoopsOK, ThreadsOK, Life, LoopLabels, Labels
  <2>8. Fresh'
    BY <1>15 DEF HealthTick, Fresh, LoopPointers, ThreadPointers, ToolsOK, ProcessesOK, LoopsOK, ThreadsOK, Life, LoopLabels, Labels
  <2>9. QED BY <2>1, <2>2, <2>3, <2>4, <2>5, <2>6, <2>7, <2>8 DEF TypeInv
<1>16. ASSUME NEW p \in Procs, HealthAnswered(p)
      PROVE  TypeInv'
  <2>1. ToolsOK'
    BY <1>16 DEF HealthAnswered, ToolsOK, ProcessesOK, ThreadsOK, HealthStates
  <2>2. ProcessesOK'
    BY <1>16 DEF HealthAnswered, ProcessesOK, ThreadsOK, ToolsOK, Life
  <2>3. LoopsOK'
    BY <1>16 DEF HealthAnswered, LoopsOK, ToolsOK, ThreadsOK, LoopLabels
  <2>4. ThreadsOK'
    BY <1>16 DEF HealthAnswered, ThreadsOK, ToolsOK, Labels
  <2>5. LoopPointers'
    BY <1>16 DEF HealthAnswered, LoopPointers, ThreadPointers, ToolsOK, ProcessesOK, LoopsOK, ThreadsOK, Life, LoopLabels, Labels
  <2>6. ThreadPointers'
    BY <1>16 DEF HealthAnswered, ThreadPointers, LoopPointers, ToolsOK, ProcessesOK, LoopsOK, ThreadsOK, Life, LoopLabels, Labels
  <2>7. InstallOwns'
    BY <1>16 DEF HealthAnswered, InstallOwns, LoopPointers, ThreadPointers, ToolsOK, ProcessesOK, LoopsOK, ThreadsOK, Life, LoopLabels, Labels
  <2>8. Fresh'
    BY <1>16 DEF HealthAnswered, Fresh, LoopPointers, ThreadPointers, ToolsOK, ProcessesOK, LoopsOK, ThreadsOK, Life, LoopLabels, Labels
  <2>9. QED BY <2>1, <2>2, <2>3, <2>4, <2>5, <2>6, <2>7, <2>8 DEF TypeInv
<1>17. ASSUME NEW p \in Procs, HealthCallFailed(p)
      PROVE  TypeInv'
  <2>1. ToolsOK'
    <3>1. procs' \in [Tools -> Procs \cup {None}]
      BY <1>17 DEF HealthCallFailed, MarkReplStopped, CancelOf, Bump, ToolsOK, ProcessesOK, ThreadsOK, HealthStates, LoopPointers, LoopsOK
    <3>2. healthCancels' \in [Tools -> Procs \cup {None}]
      BY <1>17 DEF HealthCallFailed, MarkReplStopped, CancelOf, Bump, ToolsOK, ProcessesOK, ThreadsOK, HealthStates, LoopPointers, LoopsOK
    <3>3. status' \in [Tools -> {"stopped", "running"}]
      BY <1>17 DEF HealthCallFailed, MarkReplStopped, CancelOf, Bump, ToolsOK, ProcessesOK, ThreadsOK, HealthStates, LoopPointers, LoopsOK
    <3>4. health' \in [Tools -> HealthStates]
      BY <1>17 DEF HealthCallFailed, MarkReplStopped, CancelOf, Bump, ToolsOK, ProcessesOK, ThreadsOK, HealthStates, LoopPointers, LoopsOK
    <3>5. failures' \in [Tools -> Counts]
      <4>1. \/ UNCHANGED failures
            \/ failures' = [failures EXCEPT ![owner[p]] = Bump(failures[owner[p]])]
        BY <1>17 DEF HealthCallFailed, MarkReplStopped
      <4>2. owner[p] \in Tools
        BY <1>17 DEF HealthCallFailed, LoopPointers
      <4>3. QED BY <4>1, <4>2 DEF ToolsOK
    <3>6. QED BY <3>1, <3>2, <3>3, <3>4, <3>5 DEF ToolsOK
  <2>2. ProcessesOK'
    BY <1>17 DEF HealthCallFailed, MarkReplStopped, CancelOf, Bump, ProcessesOK, ThreadsOK, ToolsOK, Life
  <2>3. LoopsOK'
    BY <1>17 DEF HealthCallFailed, MarkReplStopped, CancelOf, Bump, LoopsOK, ToolsOK, ThreadsOK, LoopLabels
  <2>4. ThreadsOK'
    BY <1>17 DEF HealthCallFailed, MarkReplStopped, CancelOf, Bump, ThreadsOK, ToolsOK, Labels
  <2>5. LoopPointers'
    BY <1>17 DEF HealthCallFailed, MarkReplStopped, CancelOf, Bump, LoopPointers, ThreadPointers, ToolsOK, ProcessesOK, LoopsOK, ThreadsOK, Life, LoopLabels, Labels
  <2>6. ThreadPointers'
    BY <1>17 DEF HealthCallFailed, MarkReplStopped, CancelOf, Bump, ThreadPointers, LoopPointers, ToolsOK, ProcessesOK, LoopsOK, ThreadsOK, Life, LoopLabels, Labels
  <2>7. InstallOwns'
    BY <1>17 DEF HealthCallFailed, MarkReplStopped, CancelOf, Bump, InstallOwns, LoopPointers, ThreadPointers, ToolsOK, ProcessesOK, LoopsOK, ThreadsOK, Life, LoopLabels, Labels
  <2>8. Fresh'
    BY <1>17 DEF HealthCallFailed, MarkReplStopped, CancelOf, Bump, Fresh, LoopPointers, ThreadPointers, ToolsOK, ProcessesOK, LoopsOK, ThreadsOK, Life, LoopLabels, Labels
  <2>9. QED BY <2>1, <2>2, <2>3, <2>4, <2>5, <2>6, <2>7, <2>8 DEF TypeInv
<1>18. ASSUME NEW p \in Procs, HealthRecord(p)
      PROVE  TypeInv'
  <2>1. ToolsOK'
    <3>1. procs' \in [Tools -> Procs \cup {None}]
      BY <1>18 DEF HealthRecord, Bump, ToolsOK, ProcessesOK, ThreadsOK, HealthStates, LoopPointers, LoopsOK
    <3>2. healthCancels' \in [Tools -> Procs \cup {None}]
      BY <1>18 DEF HealthRecord, Bump, ToolsOK, ProcessesOK, ThreadsOK, HealthStates, LoopPointers, LoopsOK
    <3>3. status' \in [Tools -> {"stopped", "running"}]
      BY <1>18 DEF HealthRecord, Bump, ToolsOK, ProcessesOK, ThreadsOK, HealthStates, LoopPointers, LoopsOK
    <3>4. health' \in [Tools -> HealthStates]
      <4>1. CASE loop[p] = "ok"
        BY <1>18, <4>1 DEF HealthRecord, ToolsOK, HealthStates
      <4>2. CASE loop[p] # "ok"
        <5>1. PICK h \in HealthStates \cup {health[owner[p]]} :
                health' = [health EXCEPT ![owner[p]] = h]
          BY <1>18, <4>2 DEF HealthRecord, HealthStates
        <5>2. QED BY <5>1 DEF ToolsOK
      <4>3. QED BY <4>1, <4>2
    <3>5. failures' \in [Tools -> Counts]
      <4>1. \/ failures' = [failures EXCEPT ![owner[p]] = 0]
            \/ failures' = [failures EXCEPT ![owner[p]] = Bump(failures[owner[p]])]
        BY <1>18 DEF HealthRecord
      <4>2. owner[p] \in Tools
        BY <1>18 DEF HealthRecord, LoopPointers
      <4>3. QED BY <4>1, <4>2 DEF ToolsOK
    <3>6. QED BY <3>1, <3>2, <3>3, <3>4, <3>5 DEF ToolsOK
  <2>2. ProcessesOK'
    BY <1>18 DEF HealthRecord, Bump, ProcessesOK, ThreadsOK, ToolsOK, Life
  <2>3. LoopsOK'
    BY <1>18 DEF HealthRecord, Bump, LoopsOK, ToolsOK, ThreadsOK, LoopLabels
  <2>4. ThreadsOK'
    BY <1>18 DEF HealthRecord, Bump, ThreadsOK, ToolsOK, Labels
  <2>5. LoopPointers'
    BY <1>18 DEF HealthRecord, Bump, LoopPointers, ThreadPointers, ToolsOK, ProcessesOK, LoopsOK, ThreadsOK, Life, LoopLabels, Labels
  <2>6. ThreadPointers'
    BY <1>18 DEF HealthRecord, Bump, ThreadPointers, LoopPointers, ToolsOK, ProcessesOK, LoopsOK, ThreadsOK, Life, LoopLabels, Labels
  <2>7. InstallOwns'
    BY <1>18 DEF HealthRecord, Bump, InstallOwns, LoopPointers, ThreadPointers, ToolsOK, ProcessesOK, LoopsOK, ThreadsOK, Life, LoopLabels, Labels
  <2>8. Fresh'
    BY <1>18 DEF HealthRecord, Bump, Fresh, LoopPointers, ThreadPointers, ToolsOK, ProcessesOK, LoopsOK, ThreadsOK, Life, LoopLabels, Labels
  <2>9. QED BY <2>1, <2>2, <2>3, <2>4, <2>5, <2>6, <2>7, <2>8 DEF TypeInv
<1>19. ASSUME NEW p \in Procs, ProcessDies(p)
      PROVE  TypeInv'
  <2>1. ToolsOK'
    BY <1>19 DEF ProcessDies, ToolsOK, ProcessesOK, ThreadsOK, HealthStates
  <2>2. ProcessesOK'
    BY <1>19 DEF ProcessDies, ProcessesOK, ThreadsOK, ToolsOK, Life
  <2>3. LoopsOK'
    BY <1>19 DEF ProcessDies, LoopsOK, ToolsOK, ThreadsOK, LoopLabels
  <2>4. ThreadsOK'
    BY <1>19 DEF ProcessDies, ThreadsOK, ToolsOK, Labels
  <2>5. LoopPointers'
    BY <1>19 DEF ProcessDies, LoopPointers, ThreadPointers, ToolsOK, ProcessesOK, LoopsOK, ThreadsOK, Life, LoopLabels, Labels
  <2>6. ThreadPointers'
    BY <1>19 DEF ProcessDies, ThreadPointers, LoopPointers, ToolsOK, ProcessesOK, LoopsOK, ThreadsOK, Life, LoopLabels, Labels
  <2>7. InstallOwns'
    BY <1>19 DEF ProcessDies, InstallOwns, LoopPointers, ThreadPointers, ToolsOK, ProcessesOK, LoopsOK, ThreadsOK, Life, LoopLabels, Labels
  <2>8. Fresh'
    BY <1>19 DEF ProcessDies, Fresh, LoopPointers, ThreadPointers, ToolsOK, ProcessesOK, LoopsOK, ThreadsOK, Life, LoopLabels, Labels
  <2>9. QED BY <2>1, <2>2, <2>3, <2>4, <2>5, <2>6, <2>7, <2>8 DEF TypeInv
<1>20. CASE UNCHANGED vars
  BY <1>20 DEF vars, ToolsOK, ProcessesOK, LoopsOK, ThreadsOK, LoopPointers, ThreadPointers, InstallOwns, Fresh
<1>21. QED
  BY <1>1, <1>2, <1>3, <1>4, <1>5, <1>6, <1>7, <1>8, <1>9, <1>10, <1>11, <1>12, <1>13, <1>14, <1>15, <1>16, <1>17, <1>18, <1>19, <1>20
     DEF Next, OperatorStep, CallerStep, LoopStep

\* The initial state has the types and the pointers.
LEMMA TypeInit == ASSUME Init PROVE TypeInv
<1> USE ExecutorAssumption, CountsClosed DEF ExecutorAssumption, Init
<1>1. ToolsOK BY DEF ToolsOK, HealthStates
<1>2. ProcessesOK BY DEF ProcessesOK, Life
<1>3. LoopsOK BY DEF LoopsOK, LoopLabels
<1>4. ThreadsOK BY DEF ThreadsOK, Labels
<1>5. LoopPointers /\ ThreadPointers BY DEF LoopPointers, ThreadPointers
<1>6. InstallOwns BY DEF InstallOwns, Threads
<1>7. Fresh BY DEF Fresh, Threads
<1>8. QED BY <1>1, <1>2, <1>3, <1>4, <1>5, <1>6, <1>7 DEF TypeInv

THEOREM TypeInvariance == Spec => []TypeInv
<1>1. Init => TypeInv BY TypeInit
<1>2. TypeInv /\ [Next]_vars => TypeInv' BY TypeStep
<1>3. QED BY <1>1, <1>2, PTL DEF Spec

\* Every variable has its type in every reachable state, for any number of
\* tools, processes, operators and callers.
THEOREM TypeCorrect == Spec => []TypeOK
<1>1. TypeInv => TypeOK BY DEF TypeInv, TypeOK
<1>2. QED BY <1>1, TypeInvariance, PTL

\* Status and registration change together, except when a failing REPL call
\* marks a tool stopped: that leaves Status lagging, never ahead.
LEMMA StatusStep ==
  ASSUME TypeInv, StatusAgrees, [Next]_vars
  PROVE  StatusAgrees'
<1> USE ExecutorAssumption DEF ExecutorAssumption, Return, Goto, Threads,
           toolVars, loopVars, threadVars, StatusAgrees
<1>1. ASSUME NEW o \in Operators, NEW t \in Tools, StartCheck(o, t)
      PROVE  StatusAgrees'
  <2>1. RunningHasProcess'
    BY <1>1 DEF StartCheck, RunningHasProcess, TypeInv, ToolsOK, ThreadPointers, LoopPointers
  <2>2. MsgpackStatusAgrees'
    BY <1>1 DEF StartCheck, MsgpackStatusAgrees, TypeInv, ToolsOK, ThreadPointers, LoopPointers
  <2>3. QED BY <2>1, <2>2 DEF StatusAgrees
<1>2. ASSUME NEW o \in Operators, StartFail(o)
      PROVE  StatusAgrees'
  <2>1. RunningHasProcess'
    BY <1>2 DEF StartFail, RunningHasProcess, TypeInv, ToolsOK, ThreadPointers, LoopPointers
  <2>2. MsgpackStatusAgrees'
    BY <1>2 DEF StartFail, MsgpackStatusAgrees, TypeInv, ToolsOK, ThreadPointers, LoopPointers
  <2>3. QED BY <2>1, <2>2 DEF StatusAgrees
<1>3. ASSUME NEW o \in Operators, StartCreate(o)
      PROVE  StatusAgrees'
  <2>1. RunningHasProcess'
    BY <1>3 DEF StartCreate, RunningHasProcess, TypeInv, ToolsOK, ThreadPointers, LoopPointers
  <2>2. MsgpackStatusAgrees'
    BY <1>3 DEF StartCreate, MsgpackStatusAgrees, TypeInv, ToolsOK, ThreadPointers, LoopPointers
  <2>3. QED BY <2>1, <2>2 DEF StatusAgrees
<1>4. ASSUME NEW o \in Operators, StartInitFails(o)
      PROVE  StatusAgrees'
  <2>1. RunningHasProcess'
    BY <1>4 DEF StartInitFails, Closed, RunningHasProcess, TypeInv, ToolsOK, ThreadPointers, LoopPointers
  <2>2. MsgpackStatusAgrees'
    BY <1>4 DEF StartInitFails, Closed, MsgpackStatusAgrees, TypeInv, ToolsOK, ThreadPointers, LoopPointers
  <2>3. QED BY <2>1, <2>2 DEF StatusAgrees
<1>5. ASSUME NEW o \in Operators, StartInstall(o)
      PROVE  StatusAgrees'
  <2>1. RunningHasProcess'
    BY <1>5 DEF StartInstall, RunningHasProcess, TypeInv, ToolsOK, ThreadPointers, LoopPointers
  <2>2. MsgpackStatusAgrees'
    BY <1>5 DEF StartInstall, MsgpackStatusAgrees, TypeInv, ToolsOK, ThreadPointers, LoopPointers
  <2>3. QED BY <2>1, <2>2 DEF StatusAgrees
<1>6. ASSUME NEW o \in Operators, NEW t \in Tools, StopCancel(o, t)
      PROVE  StatusAgrees'
  <2>1. RunningHasProcess'
    BY <1>6 DEF StopCancel, CancelOf, RunningHasProcess, TypeInv, ToolsOK, ThreadPointers, LoopPointers
  <2>2. MsgpackStatusAgrees'
    BY <1>6 DEF StopCancel, CancelOf, MsgpackStatusAgrees, TypeInv, ToolsOK, ThreadPointers, LoopPointers
  <2>3. QED BY <2>1, <2>2 DEF StatusAgrees
<1>7. ASSUME NEW o \in Operators, StopLocked(o)
      PROVE  StatusAgrees'
  <2>1. RunningHasProcess'
    BY <1>7 DEF StopLocked, Retire, Closed, RunningHasProcess, TypeInv, ToolsOK, ThreadPointers, LoopPointers
  <2>2. MsgpackStatusAgrees'
    BY <1>7 DEF StopLocked, Retire, Closed, MsgpackStatusAgrees, TypeInv, ToolsOK, ThreadPointers, LoopPointers
  <2>3. QED BY <2>1, <2>2 DEF StatusAgrees
<1>8. ASSUME NEW o \in Operators, StopNotRunning(o)
      PROVE  StatusAgrees'
  <2>1. RunningHasProcess'
    BY <1>8 DEF StopNotRunning, RunningHasProcess, TypeInv, ToolsOK, ThreadPointers, LoopPointers
  <2>2. MsgpackStatusAgrees'
    BY <1>8 DEF StopNotRunning, MsgpackStatusAgrees, TypeInv, ToolsOK, ThreadPointers, LoopPointers
  <2>3. QED BY <2>1, <2>2 DEF StatusAgrees
<1>9. ASSUME NEW o \in Operators, NEW t \in Tools, ForceKill(o, t)
      PROVE  StatusAgrees'
  <2>1. RunningHasProcess'
    <3>1. CASE procs[t] = None
      BY <1>9, <3>1 DEF ForceKill, RunningHasProcess
    <3>2. CASE procs[t] # None
      <4>1. /\ procs' = [procs EXCEPT ![t] = None]
            /\ status' = [status EXCEPT ![t] = "stopped"]
        BY <1>9, <3>2 DEF ForceKill, Retire
      <4>2. QED BY <4>1 DEF RunningHasProcess, TypeInv, ToolsOK
    <3>3. QED BY <3>1, <3>2
  <2>2. MsgpackStatusAgrees'
    <3>1. CASE procs[t] = None
      BY <1>9, <3>1 DEF ForceKill, MsgpackStatusAgrees
    <3>2. CASE procs[t] # None
      <4>1. /\ procs' = [procs EXCEPT ![t] = None]
            /\ status' = [status EXCEPT ![t] = "stopped"]
        BY <1>9, <3>2 DEF ForceKill, Retire
      <4>2. QED BY <4>1 DEF MsgpackStatusAgrees, TypeInv, ToolsOK
    <3>3. QED BY <3>1, <3>2
  <2>3. QED BY <2>1, <2>2 DEF StatusAgrees
<1>10. ASSUME NEW o \in Operators, Close(o)
      PROVE  StatusAgrees'
  <2>1. RunningHasProcess'
    BY <1>10 DEF Close, RunningHasProcess, TypeInv, ToolsOK, ThreadPointers, LoopPointers
  <2>2. MsgpackStatusAgrees'
    BY <1>10 DEF Close, MsgpackStatusAgrees, TypeInv, ToolsOK, ThreadPointers, LoopPointers
  <2>3. QED BY <2>1, <2>2 DEF StatusAgrees
<1>11. ASSUME NEW c \in Callers, NEW t \in Tools, CallSend(c, t)
      PROVE  StatusAgrees'
  <2>1. RunningHasProcess'
    BY <1>11 DEF CallSend, RunningHasProcess, TypeInv, ToolsOK, ThreadPointers, LoopPointers
  <2>2. MsgpackStatusAgrees'
    BY <1>11 DEF CallSend, MsgpackStatusAgrees, TypeInv, ToolsOK, ThreadPointers, LoopPointers
  <2>3. QED BY <2>1, <2>2 DEF StatusAgrees
<1>12. ASSUME NEW c \in Callers, CallAnswered(c)
      PROVE  StatusAgrees'
  <2>1. RunningHasProcess'
    BY <1>12 DEF CallAnswered, RunningHasProcess, TypeInv, ToolsOK, ThreadPointers, LoopPointers
  <2>2. MsgpackStatusAgrees'
    BY <1>12 DEF CallAnswered, MsgpackStatusAgrees, TypeInv, ToolsOK, ThreadPointers, LoopPointers
  <2>3. QED BY <2>1, <2>2 DEF StatusAgrees
<1>13. ASSUME NEW c \in Callers, CallFailed(c)
      PROVE  StatusAgrees'
  <2>1. RunningHasProcess'
    BY <1>13 DEF CallFailed, MarkReplStopped, CancelOf, Bump, RunningHasProcess, TypeInv, ToolsOK, ThreadPointers, LoopPointers
  <2>2. MsgpackStatusAgrees'
    BY <1>13 DEF CallFailed, MarkReplStopped, CancelOf, Bump, MsgpackStatusAgrees, TypeInv, ToolsOK, ThreadPointers, LoopPointers
  <2>3. QED BY <2>1, <2>2 DEF StatusAgrees
<1>14. ASSUME NEW p \in Procs, HealthExit(p)
      PROVE  StatusAgrees'
  <2>1. RunningHasProcess'
    BY <1>14 DEF HealthExit, RunningHasProcess, TypeInv, ToolsOK, ThreadPointers, LoopPointers
  <2>2. MsgpackStatusAgrees'
    BY <1>14 DEF HealthExit, MsgpackStatusAgrees, TypeInv, ToolsOK, ThreadPointers, LoopPointers
  <2>3. QED BY <2>1, <2>2 DEF StatusAgrees
<1>15. ASSUME NEW p \in Procs, HealthTick(p)
      PROVE  StatusAgrees'
  <2>1. RunningHasProcess'
    BY <1>15 DEF HealthTick, RunningHasProcess, TypeInv, ToolsOK, ThreadPointers, LoopPointers
  <2>2. MsgpackStatusAgrees'
    BY <1>15 DEF HealthTick, MsgpackStatusAgrees, TypeInv, ToolsOK, ThreadPointers, LoopPointers
  <2>3. QED BY <2>1, <2>2 DEF StatusAgrees
<1>16. ASSUME NEW p \in Procs, HealthAnswered(p)
      PROVE  StatusAgrees'
  <2>1. RunningHasProcess'
    BY <1>16 DEF HealthAnswered, RunningHasProcess, TypeInv, ToolsOK, ThreadPointers, LoopPointers
  <2>2. MsgpackStatusAgrees'
    BY <1>16 DEF HealthAnswered, MsgpackStatusAgrees, TypeInv, ToolsOK, ThreadPointers, LoopPointers
  <2>3. QED BY <2>1, <2>2 DEF StatusAgrees
<1>17. ASSUME NEW p \in Procs, HealthCallFailed(p)
      PROVE  StatusAgrees'
  <2>1. RunningHasProcess'
    BY <1>17 DEF HealthCallFailed, MarkReplStopped, CancelOf, Bump, RunningHasProcess, TypeInv, ToolsOK, ThreadPointers, LoopPointers
  <2>2. MsgpackStatusAgrees'
    BY <1>17 DEF HealthCallFailed, MarkReplStopped, CancelOf, Bump, MsgpackStatusAgrees, TypeInv, ToolsOK, ThreadPointers, LoopPointers
  <2>3. QED BY <2>1, <2>2 DEF StatusAgrees
<1>18. ASSUME NEW p \in Procs, HealthRecord(p)
      PROVE  StatusAgrees'
  <2>1. RunningHasProcess'
    BY <1>18 DEF HealthRecord, Bump, RunningHasProcess, TypeInv, ToolsOK, ThreadPointers, LoopPointers
  <2>2. MsgpackStatusAgrees'
    BY <1>18 DEF HealthRecord, Bump, MsgpackStatusAgrees, TypeInv, ToolsOK, ThreadPointers, LoopPointers
  <2>3. QED BY <2>1, <2>2 DEF StatusAgrees
<1>19. ASSUME NEW p \in Procs, ProcessDies(p)
      PROVE  StatusAgrees'
  <2>1. RunningHasProcess'
    BY <1>19 DEF ProcessDies, RunningHasProcess, TypeInv, ToolsOK, ThreadPointers, LoopPointers
  <2>2. MsgpackStatusAgrees'
    BY <1>19 DEF ProcessDies, MsgpackStatusAgrees, TypeInv, ToolsOK, ThreadPointers, LoopPointers
  <2>3. QED BY <2>1, <2>2 DEF StatusAgrees
<1>20. CASE UNCHANGED vars
  BY <1>20 DEF vars, RunningHasProcess, MsgpackStatusAgrees, StatusAgrees
<1>21. QED
  BY <1>1, <1>2, <1>3, <1>4, <1>5, <1>6, <1>7, <1>8, <1>9, <1>10, <1>11, <1>12, <1>13, <1>14, <1>15, <1>16, <1>17, <1>18, <1>19, <1>20
     DEF Next, OperatorStep, CallerStep, LoopStep

\* However starts, stops, kills, failing calls and failing probes interleave,
\* a tool that says "running" has a registered process, and a msgpack tool
\* that has one says "running".
THEOREM StatusIsTrue == Spec => []StatusAgrees
<1>1. Init => StatusAgrees
  <2> SUFFICES ASSUME Init PROVE StatusAgrees OBVIOUS
  <2>1. \A t \in Tools : procs[t] = None /\ status[t] # "running" BY DEF Init
  <2>2. RunningHasProcess BY <2>1 DEF RunningHasProcess
  <2>3. MsgpackStatusAgrees
    BY <2>1, ExecutorAssumption DEF ExecutorAssumption, MsgpackStatusAgrees
  <2>4. QED BY <2>2, <2>3 DEF StatusAgrees
<1>2. TypeInv /\ StatusAgrees /\ [Next]_vars => StatusAgrees' BY StatusStep
<1>3. QED BY <1>1, <1>2, TypeInvariance, PTL DEF Spec

\* With one operator: while it starts a tool nothing is registered for the
\* tool, and a health cancel is registered only beside a process.
StartsAlone ==
  \A o \in Operators :
    /\ pc[o] \in {"create", "install"} => procs[arg[o]] = None
    /\ pc[o] = "stop" => healthCancels[arg[o]] = None
CancelsBesideProcs ==
  \A t \in Tools : procs[t] = None => healthCancels[t] = None

SerialInv == StartsAlone /\ CancelsBesideProcs /\ NoOrphan /\ HealthLoopOwned

\* One operator at a time orphans neither a process nor a health goroutine.
LEMMA SerialStep ==
  ASSUME OneOperator, TypeInv, SerialInv, [Next]_vars
  PROVE  SerialInv'
<1> USE ExecutorAssumption DEF ExecutorAssumption, Return, Goto, Threads,
           toolVars, loopVars, threadVars, SerialInv
<1>1. ASSUME NEW o \in Operators, NEW t \in Tools, StartCheck(o, t)
      PROVE  SerialInv'
  <2>1. StartsAlone'
    BY <1>1 DEF StartCheck, StartsAlone, OneOperator, TypeInv, ToolsOK, ThreadsOK, ThreadPointers, LoopPointers
  <2>2. CancelsBesideProcs'
    BY <1>1 DEF StartCheck, CancelsBesideProcs, StartsAlone, TypeInv, ToolsOK, ThreadPointers, LoopPointers
  <2>3. NoOrphan'
    BY <1>1 DEF StartCheck, NoOrphan, StartsAlone, OneOperator, TypeInv, ToolsOK, ProcessesOK, ThreadsOK, LoopsOK, ThreadPointers, LoopPointers, InstallOwns, Fresh
  <2>4. HealthLoopOwned'
    BY <1>1 DEF StartCheck, HealthLoopOwned, StartsAlone, CancelsBesideProcs, TypeInv, ToolsOK, ProcessesOK, ThreadsOK, LoopsOK, ThreadPointers, LoopPointers, InstallOwns, Fresh
  <2>5. QED BY <2>1, <2>2, <2>3, <2>4 DEF SerialInv
<1>2. ASSUME NEW o \in Operators, StartFail(o)
      PROVE  SerialInv'
  <2>1. StartsAlone'
    BY <1>2 DEF StartFail, StartsAlone, OneOperator, TypeInv, ToolsOK, ThreadsOK, ThreadPointers, LoopPointers
  <2>2. CancelsBesideProcs'
    BY <1>2 DEF StartFail, CancelsBesideProcs, StartsAlone, TypeInv, ToolsOK, ThreadPointers, LoopPointers
  <2>3. NoOrphan'
    BY <1>2 DEF StartFail, NoOrphan, StartsAlone, OneOperator, TypeInv, ToolsOK, ProcessesOK, ThreadsOK, LoopsOK, ThreadPointers, LoopPointers, InstallOwns, Fresh
  <2>4. HealthLoopOwned'
    BY <1>2 DEF StartFail, HealthLoopOwned, StartsAlone, CancelsBesideProcs, TypeInv, ToolsOK, ProcessesOK, ThreadsOK, LoopsOK, ThreadPointers, LoopPointers, InstallOwns, Fresh
  <2>5. QED BY <2>1, <2>2, <2>3, <2>4 DEF SerialInv
<1>3. ASSUME NEW o \in Operators, StartCreate(o)
      PROVE  SerialInv'
  <2>1. StartsAlone'
    BY <1>3 DEF StartCreate, StartsAlone, OneOperator, TypeInv, ToolsOK, ThreadsOK, ThreadPointers, LoopPointers
  <2>2. CancelsBesideProcs'
    BY <1>3 DEF StartCreate, CancelsBesideProcs, StartsAlone, TypeInv, ToolsOK, ThreadPointers, LoopPointers
  <2>3. NoOrphan'
    BY <1>3 DEF StartCreate, NoOrphan, StartsAlone, OneOperator, TypeInv, ToolsOK, ProcessesOK, ThreadsOK, LoopsOK, ThreadPointers, LoopPointers, InstallOwns, Fresh
  <2>4. HealthLoopOwned'
    BY <1>3 DEF StartCreate, HealthLoopOwned, StartsAlone, CancelsBesideProcs, TypeInv, ToolsOK, ProcessesOK, ThreadsOK, LoopsOK, ThreadPointers, LoopPointers, InstallOwns, Fresh
  <2>5. QED BY <2>1, <2>2, <2>3, <2>4 DEF SerialInv
<1>4. ASSUME NEW o \in Operators, StartInitFails(o)
      PROVE  SerialInv'
  <2>1. StartsAlone'
    BY <1>4 DEF StartInitFails, Closed, StartsAlone, OneOperator, TypeInv, ToolsOK, ThreadsOK, ThreadPointers, LoopPointers
  <2>2. CancelsBesideProcs'
    BY <1>4 DEF StartInitFails, Closed, CancelsBesideProcs, StartsAlone, TypeInv, ToolsOK, ThreadPointers, LoopPointers
  <2>3. NoOrphan'
    BY <1>4 DEF StartInitFails, Closed, NoOrphan, StartsAlone, OneOperator, TypeInv, ToolsOK, ProcessesOK, ThreadsOK, LoopsOK, ThreadPointers, LoopPointers, InstallOwns, Fresh
  <2>4. HealthLoopOwned'
    BY <1>4 DEF StartInitFails, Closed, HealthLoopOwned, StartsAlone, CancelsBesideProcs, TypeInv, ToolsOK, ProcessesOK, ThreadsOK, LoopsOK, ThreadPointers, LoopPointers, InstallOwns, Fresh
  <2>5. QED BY <2>1, <2>2, <2>3, <2>4 DEF SerialInv
<1>5. ASSUME NEW o \in Operators, StartInstall(o)
      PROVE  SerialInv'
  <2>1. StartsAlone'
    BY <1>5 DEF StartInstall, StartsAlone, OneOperator, TypeInv, ToolsOK, ThreadsOK, ThreadPointers, LoopPointers
  <2>2. CancelsBesideProcs'
    BY <1>5 DEF StartInstall, CancelsBesideProcs, StartsAlone, TypeInv, ToolsOK, ThreadPointers, LoopPointers
  <2>3. NoOrphan'
    BY <1>5 DEF StartInstall, NoOrphan, StartsAlone, OneOperator, TypeInv, ToolsOK, ProcessesOK, ThreadsOK, LoopsOK, ThreadPointers, LoopPointers, InstallOwns, Fresh
  <2>4. HealthLoopOwned'
    BY <1>5 DEF StartInstall, HealthLoopOwned, StartsAlone, CancelsBesideProcs, TypeInv, ToolsOK, ProcessesOK, ThreadsOK, LoopsOK, ThreadPointers, LoopPointers, InstallOwns, Fresh
  <2>5. QED BY <2>1, <2>2, <2>3, <2>4 DEF SerialInv
<1>6. ASSUME NEW o \in Operators, NEW t \in Tools, StopCancel(o, t)
      PROVE  SerialInv'
  <2>1. StartsAlone'
    BY <1>6 DEF StopCancel, CancelOf, StartsAlone, OneOperator, TypeInv, ToolsOK, ThreadsOK, ThreadPointers, LoopPointers
  <2>2. CancelsBesideProcs'
    BY <1>6 DEF StopCancel, CancelOf, CancelsBesideProcs, StartsAlone, TypeInv, ToolsOK, ThreadPointers, LoopPointers
  <2>3. NoOrphan'
    BY <1>6 DEF StopCancel, CancelOf, NoOrphan, StartsAlone, OneOperator, TypeInv, ToolsOK, ProcessesOK, ThreadsOK, LoopsOK, ThreadPointers, LoopPointers, InstallOwns, Fresh
  <2>4. HealthLoopOwned'
    BY <1>6 DEF StopCancel, CancelOf, HealthLoopOwned, StartsAlone, CancelsBesideProcs, TypeInv, ToolsOK, ProcessesOK, ThreadsOK, LoopsOK, ThreadPointers, LoopPointers, InstallOwns, Fresh
  <2>5. QED BY <2>1, <2>2, <2>3, <2>4 DEF SerialInv
<1>7. ASSUME NEW o \in Operators, StopLocked(o)
      PROVE  SerialInv'
  <2>1. StartsAlone'
    BY <1>7 DEF StopLocked, Retire, Closed, StartsAlone, OneOperator, TypeInv, ToolsOK, ThreadsOK, ThreadPointers, LoopPointers
  <2>2. CancelsBesideProcs'
    BY <1>7 DEF StopLocked, Retire, Closed, CancelsBesideProcs, StartsAlone, TypeInv, ToolsOK, ThreadPointers, LoopPointers
  <2>3. NoOrphan'
    <3>1. \A p \in Procs : life'[p] = "alive" => life[p] = "alive" /\ p # procs[arg[o]]
      BY <1>7 DEF StopLocked, Retire, Closed, TypeInv, ToolsOK, ProcessesOK
    <3>2. \A t \in Tools : t # arg[o] => procs'[t] = procs[t]
      BY <1>7 DEF StopLocked, Retire, TypeInv, ToolsOK
    <3>3. \A q \in Operators : pc[q] = "install" => pc'[q] = "install" /\ held'[q] = held[q]
      BY <1>7 DEF StopLocked, TypeInv, ThreadsOK
    <3>4. UNCHANGED owner
      BY <1>7 DEF StopLocked
    <3>5. QED BY <3>1, <3>2, <3>3, <3>4 DEF NoOrphan
  <2>4. HealthLoopOwned'
    BY <1>7 DEF StopLocked, Retire, Closed, HealthLoopOwned, StartsAlone, CancelsBesideProcs, TypeInv, ToolsOK, ProcessesOK, ThreadsOK, LoopsOK, ThreadPointers, LoopPointers, InstallOwns, Fresh
  <2>5. QED BY <2>1, <2>2, <2>3, <2>4 DEF SerialInv
<1>8. ASSUME NEW o \in Operators, StopNotRunning(o)
      PROVE  SerialInv'
  <2>1. StartsAlone'
    BY <1>8 DEF StopNotRunning, StartsAlone, OneOperator, TypeInv, ToolsOK, ThreadsOK, ThreadPointers, LoopPointers
  <2>2. CancelsBesideProcs'
    BY <1>8 DEF StopNotRunning, CancelsBesideProcs, StartsAlone, TypeInv, ToolsOK, ThreadPointers, LoopPointers
  <2>3. NoOrphan'
    BY <1>8 DEF StopNotRunning, NoOrphan, StartsAlone, OneOperator, TypeInv, ToolsOK, ProcessesOK, ThreadsOK, LoopsOK, ThreadPointers, LoopPointers, InstallOwns, Fresh
  <2>4. HealthLoopOwned'
    BY <1>8 DEF StopNotRunning, HealthLoopOwned, StartsAlone, CancelsBesideProcs, TypeInv, ToolsOK, ProcessesOK, ThreadsOK, LoopsOK, ThreadPointers, LoopPointers, InstallOwns, Fresh
  <2>5. QED BY <2>1, <2>2, <2>3, <2>4 DEF SerialInv
<1>9. ASSUME NEW o \in Operators, NEW t \in Tools, ForceKill(o, t)
      PROVE  SerialInv'
  <2>1. StartsAlone'
    BY <1>9 DEF ForceKill, Retire, Closed, CancelOf, StartsAlone, OneOperator, TypeInv, ToolsOK, ThreadsOK, ThreadPointers, LoopPointers
  <2>2. CancelsBesideProcs'
    BY <1>9 DEF ForceKill, Retire, Closed, CancelOf, CancelsBesideProcs, StartsAlone, TypeInv, ToolsOK, ThreadPointers, LoopPointers
  <2>3. NoOrphan'
    <3>1. CASE procs[t] = None
      BY <1>9, <3>1 DEF ForceKill, NoOrphan
    <3>2. CASE procs[t] # None
      <4>1. \A p \in Procs : life'[p] = "alive" => life[p] = "alive" /\ p # procs[t]
        BY <1>9, <3>2 DEF ForceKill, Retire, Closed, TypeInv, ToolsOK, ProcessesOK
      <4>2. \A u \in Tools : u # t => procs'[u] = procs[u]
        BY <1>9, <3>2 DEF ForceKill, Retire, TypeInv, ToolsOK
      <4>3. UNCHANGED <<owner, pc, held>>
        BY <1>9 DEF ForceKill
      <4>4. QED BY <4>1, <4>2, <4>3 DEF NoOrphan
    <3>3. QED BY <3>1, <3>2
  <2>4. HealthLoopOwned'
    <3>1. \A p \in Procs : ctx'[p] = "live" => ctx[p] = "live" /\ p # healthCancels[t]
      BY <1>9 DEF ForceKill, CancelOf, TypeInv, LoopsOK
    <3>2. \A u \in Tools : u # t => healthCancels'[u] = healthCancels[u]
      BY <1>9 DEF ForceKill, TypeInv, ToolsOK
    <3>3. UNCHANGED owner
      BY <1>9 DEF ForceKill
    <3>4. QED BY <3>1, <3>2, <3>3 DEF HealthLoopOwned
  <2>5. QED BY <2>1, <2>2, <2>3, <2>4 DEF SerialInv
<1>10. ASSUME NEW o \in Operators, Close(o)
      PROVE  SerialInv'
  <2>1. StartsAlone'
    BY <1>10 DEF Close, StartsAlone, OneOperator, TypeInv, ToolsOK, ThreadsOK, ThreadPointers, LoopPointers
  <2>2. CancelsBesideProcs'
    BY <1>10 DEF Close, CancelsBesideProcs, StartsAlone, TypeInv, ToolsOK, ThreadPointers, LoopPointers
  <2>3. NoOrphan'
    <3>1. \A p \in Procs : life'[p] = "alive" =>
            life[p] = "alive" /\ \A t \in Tools : procs[t] # p
      BY <1>10 DEF Close
    <3>2. UNCHANGED <<owner, pc, held>> BY <1>10 DEF Close, threadVars
    <3>3. QED BY <3>1, <3>2 DEF NoOrphan, SerialInv
  <2>4. HealthLoopOwned'
    <3>1. \A p \in Procs : ctx'[p] = "live" =>
            ctx[p] = "live" /\ \A t \in Tools : healthCancels[t] # p
      BY <1>10 DEF Close
    <3>2. QED BY <3>1 DEF HealthLoopOwned, SerialInv
  <2>5. QED BY <2>1, <2>2, <2>3, <2>4 DEF SerialInv
<1>11. ASSUME NEW c \in Callers, NEW t \in Tools, CallSend(c, t)
      PROVE  SerialInv'
  <2>1. StartsAlone'
    BY <1>11 DEF CallSend, StartsAlone, OneOperator, TypeInv, ToolsOK, ThreadsOK, ThreadPointers, LoopPointers
  <2>2. CancelsBesideProcs'
    BY <1>11 DEF CallSend, CancelsBesideProcs, StartsAlone, TypeInv, ToolsOK, ThreadPointers, LoopPointers
  <2>3. NoOrphan'
    BY <1>11 DEF CallSend, NoOrphan, StartsAlone, OneOperator, TypeInv, ToolsOK, ProcessesOK, ThreadsOK, LoopsOK, ThreadPointers, LoopPointers, InstallOwns, Fresh
  <2>4. HealthLoopOwned'
    BY <1>11 DEF CallSend, HealthLoopOwned, StartsAlone, CancelsBesideProcs, TypeInv, ToolsOK, ProcessesOK, ThreadsOK, LoopsOK, ThreadPointers, LoopPointers, InstallOwns, Fresh
  <2>5. QED BY <2>1, <2>2, <2>3, <2>4 DEF SerialInv
<1>12. ASSUME NEW c \in Callers, CallAnswered(c)
      PROVE  SerialInv'
  <2>1. StartsAlone'
    BY <1>12 DEF CallAnswered, StartsAlone, OneOperator, TypeInv, ToolsOK, ThreadsOK, ThreadPointers, LoopPointers
  <2>2. CancelsBesideProcs'
    BY <1>12 DEF CallAnswered, CancelsBesideProcs, StartsAlone, TypeInv, ToolsOK, ThreadPointers, LoopPointers
  <2>3. NoOrphan'
    BY <1>12 DEF CallAnswered, NoOrphan, StartsAlone, OneOperator, TypeInv, ToolsOK, ProcessesOK, ThreadsOK, LoopsOK, ThreadPointers, LoopPointers, InstallOwns, Fresh
  <2>4. HealthLoopOwned'
    BY <1>12 DEF CallAnswered, HealthLoopOwned, StartsAlone, CancelsBesideProcs, TypeInv, ToolsOK, ProcessesOK, ThreadsOK, LoopsOK, ThreadPointers, LoopPointers, InstallOwns, Fresh
  <2>5. QED BY <2>1, <2>2, <2>3, <2>4 DEF SerialInv
<1>13. ASSUME NEW c \in Callers, CallFailed(c)
      PROVE  SerialInv'
  <2>1. StartsAlone'
    BY <1>13 DEF CallFailed, MarkReplStopped, CancelOf, Bump, StartsAlone, OneOperator, TypeInv, ToolsOK, ThreadsOK, ThreadPointers, LoopPointers
  <2>2. CancelsBesideProcs'
    BY <1>13 DEF CallFailed, MarkReplStopped, CancelOf, Bump, CancelsBesideProcs, StartsAlone, TypeInv, ToolsOK, ThreadPointers, LoopPointers
  <2>3. NoOrphan'
    BY <1>13 DEF CallFailed, MarkReplStopped, CancelOf, Bump, NoOrphan, StartsAlone, OneOperator, TypeInv, ToolsOK, ProcessesOK, ThreadsOK, LoopsOK, ThreadPointers, LoopPointers, InstallOwns, Fresh
  <2>4. HealthLoopOwned'
    BY <1>13 DEF CallFailed, MarkReplStopped, CancelOf, Bump, HealthLoopOwned, StartsAlone, CancelsBesideProcs, TypeInv, ToolsOK, ProcessesOK, ThreadsOK, LoopsOK, ThreadPointers, LoopPointers, InstallOwns, Fresh
  <2>5. QED BY <2>1, <2>2, <2>3, <2>4 DEF SerialInv
<1>14. ASSUME NEW p \in Procs, HealthExit(p)
      PROVE  SerialInv'
  <2>1. StartsAlone'
    BY <1>14 DEF HealthExit, StartsAlone, OneOperator, TypeInv, ToolsOK, ThreadsOK, ThreadPointers, LoopPointers
  <2>2. CancelsBesideProcs'
    BY <1>14 DEF HealthExit, CancelsBesideProcs, StartsAlone, TypeInv, ToolsOK, ThreadPointers, LoopPointers
  <2>3. NoOrphan'
    BY <1>14 DEF HealthExit, NoOrphan, StartsAlone, OneOperator, TypeInv, ToolsOK, ProcessesOK, ThreadsOK, LoopsOK, ThreadPointers, LoopPointers, InstallOwns, Fresh
  <2>4. HealthLoopOwned'
    BY <1>14 DEF HealthExit, HealthLoopOwned, StartsAlone, CancelsBesideProcs, TypeInv, ToolsOK, ProcessesOK, ThreadsOK, LoopsOK, ThreadPointers, LoopPointers, InstallOwns, Fresh
  <2>5. QED BY <2>1, <2>2, <2>3, <2>4 DEF SerialInv
<1>15. ASSUME NEW p \in Procs, HealthTick(p)
      PROVE  SerialInv'
  <2>1. StartsAlone'
    BY <1>15 DEF HealthTick, StartsAlone, OneOperator, TypeInv, ToolsOK, ThreadsOK, ThreadPointers, LoopPointers
  <2>2. CancelsBesideProcs'
    BY <1>15 DEF HealthTick, CancelsBesideProcs, StartsAlone, TypeInv, ToolsOK, ThreadPointers, LoopPointers
  <2>3. NoOrphan'
    BY <1>15 DEF HealthTick, NoOrphan, StartsAlone, OneOperator, TypeInv, ToolsOK, ProcessesOK, ThreadsOK, LoopsOK, ThreadPointers, LoopPointers, InstallOwns, Fresh
  <2>4. HealthLoopOwned'
    BY <1>15 DEF HealthTick, HealthLoopOwned, StartsAlone, CancelsBesideProcs, TypeInv, ToolsOK, ProcessesOK, ThreadsOK, LoopsOK, ThreadPointers, LoopPointers, InstallOwns, Fresh
  <2>5. QED BY <2>1, <2>2, <2>3, <2>4 DEF SerialInv
<1>16. ASSUME NEW p \in Procs, HealthAnswered(p)
      PROVE  SerialInv'
  <2>1. StartsAlone'
    BY <1>16 DEF HealthAnswered, StartsAlone, OneOperator, TypeInv, ToolsOK, ThreadsOK, ThreadPointers, LoopPointers
  <2>2. CancelsBesideProcs'
    BY <1>16 DEF HealthAnswered, CancelsBesideProcs, StartsAlone, TypeInv, ToolsOK, ThreadPointers, LoopPointers
  <2>3. NoOrphan'
    BY <1>16 DEF HealthAnswered, NoOrphan, StartsAlone, OneOperator, TypeInv, ToolsOK, ProcessesOK, ThreadsOK, LoopsOK, ThreadPointers, LoopPointers, InstallOwns, Fresh
  <2>4. HealthLoopOwned'
    BY <1>16 DEF HealthAnswered, HealthLoopOwned, StartsAlone, CancelsBesideProcs, TypeInv, ToolsOK, ProcessesOK, ThreadsOK, LoopsOK, ThreadPointers, LoopPointers, InstallOwns, Fresh
  <2>5. QED BY <2>1, <2>2, <2>3, <2>4 DEF SerialInv
<1>17. ASSUME NEW p \in Procs, HealthCallFailed(p)
      PROVE  SerialInv'
  <2>1. StartsAlone'
    BY <1>17 DEF HealthCallFailed, MarkReplStopped, CancelOf, Bump, StartsAlone, OneOperator, TypeInv, ToolsOK, ThreadsOK, ThreadPointers, LoopPointers
  <2>2. CancelsBesideProcs'
    BY <1>17 DEF HealthCallFailed, MarkReplStopped, CancelOf, Bump, CancelsBesideProcs, StartsAlone, TypeInv, ToolsOK, ThreadPointers, LoopPointers
  <2>3. NoOrphan'
    BY <1>17 DEF HealthCallFailed, MarkReplStopped, CancelOf, Bump, NoOrphan, StartsAlone, OneOperator, TypeInv, ToolsOK, ProcessesOK, ThreadsOK, LoopsOK, ThreadPointers, LoopPointers, InstallOwns, Fresh
  <2>4. HealthLoopOwned'
    BY <1>17 DEF HealthCallFailed, MarkReplStopped, CancelOf, Bump, HealthLoopOwned, StartsAlone, CancelsBesideProcs, TypeInv, ToolsOK, ProcessesOK, ThreadsOK, LoopsOK, ThreadPointers, LoopPointers, InstallOwns, Fresh
  <2>5. QED BY <2>1, <2>2, <2>3, <2>4 DEF SerialInv
<1>18. ASSUME NEW p \in Procs, HealthRecord(p)
      PROVE  SerialInv'
  <2>1. StartsAlone'
    BY <1>18 DEF HealthRecord, Bump, StartsAlone, OneOperator, TypeInv, ToolsOK, ThreadsOK, ThreadPointers, LoopPointers
  <2>2. CancelsBesideProcs'
    BY <1>18 DEF HealthRecord, Bump, CancelsBesideProcs, StartsAlone, TypeInv, ToolsOK, ThreadPointers, LoopPointers
  <2>3. NoOrphan'
    BY <1>18 DEF HealthRecord, Bump, NoOrphan, StartsAlone, OneOperator, TypeInv, ToolsOK, ProcessesOK, ThreadsOK, LoopsOK, ThreadPointers, LoopPointers, InstallOwns, Fresh
  <2>4. HealthLoopOwned'
    BY <1>18 DEF HealthRecord, Bump, HealthLoopOwned, StartsAlone, CancelsBesideProcs, TypeInv, ToolsOK, ProcessesOK, ThreadsOK, LoopsOK, ThreadPointers, LoopPointers, InstallOwns, Fresh
  <2>5. QED BY <2>1, <2>2, <2>3, <2>4 DEF SerialInv
<1>19. ASSUME NEW p \in Procs, ProcessDies(p)
      PROVE  SerialInv'
  <2>1. StartsAlone'
    BY <1>19 DEF ProcessDies, StartsAlone, OneOperator, TypeInv, ToolsOK, ThreadsOK, ThreadPointers, LoopPointers
  <2>2. CancelsBesideProcs'
    BY <1>19 DEF ProcessDies, CancelsBesideProcs, StartsAlone, TypeInv, ToolsOK, ThreadPointers, LoopPointers
  <2>3. NoOrphan'
    BY <1>19 DEF ProcessDies, NoOrphan, StartsAlone, OneOperator, TypeInv, ToolsOK, ProcessesOK, ThreadsOK, LoopsOK, ThreadPointers, LoopPointers, InstallOwns, Fresh
  <2>4. HealthLoopOwned'
    BY <1>19 DEF ProcessDies, HealthLoopOwned, StartsAlone, CancelsBesideProcs, TypeInv, ToolsOK, ProcessesOK, ThreadsOK, LoopsOK, ThreadPointers, LoopPointers, InstallOwns, Fresh
  <2>5. QED BY <2>1, <2>2, <2>3, <2>4 DEF SerialInv
<1>20. CASE UNCHANGED vars
  BY <1>20 DEF vars, StartsAlone, CancelsBesideProcs, NoOrphan, HealthLoopOwned, SerialInv
<1>21. QED
  BY <1>1, <1>2, <1>3, <1>4, <1>5, <1>6, <1>7, <1>8, <1>9, <1>10, <1>11, <1>12, <1>13, <1>14, <1>15, <1>16, <1>17, <1>18, <1>19, <1>20
     DEF Next, OperatorStep, CallerStep, LoopStep

THEOREM SerialInvariance == OneOperator /\ Spec => []SerialInv
<1> SUFFICES ASSUME OneOperator PROVE Spec => []SerialInv
  OBVIOUS
<1>1. Init => SerialInv
  BY ExecutorAssumption DEF ExecutorAssumption, Init, SerialInv, StartsAlone,
     CancelsBesideProcs, NoOrphan, HealthLoopOwned, Threads
<1>2. TypeInv /\ SerialInv /\ [Next]_vars => SerialInv' BY SerialStep
<1>3. QED BY <1>1, <1>2, TypeInvariance, PTL DEF Spec

\* When starts and stops are not concurrent with each other, every live process
\* can be reached by a Stop, whatever calls and probes do meanwhile.
THEOREM NothingOrphaned == OneOperator /\ Spec => []NoOrphan
<1>1. SerialInv => NoOrphan BY DEF SerialInv
<1>2. QED BY <1>1, SerialInvariance, PTL

\* Under the same hypothesis every running health goroutine can be cancelled.
THEOREM EveryLoopCancellable == OneOperator /\ Spec => []HealthLoopOwned
<1>1. SerialInv => HealthLoopOwned BY DEF SerialInv
<1>2. QED BY <1>1, SerialInvariance, PTL

-----------------------------------------------------------------------------
(* Supervision of msgpack tools, for any number of operators.              *)

\* What Stop would cancel for a tool is the goroutine of a process of the tool.
CancelOwned ==
  \A t \in Tools :
    healthCancels[t] # None =>
      owner[healthCancels[t]] = t /\ life[healthCancels[t]] # "unused"

SupervisedInv == CancelOwned /\ MsgpackSupervised

\* A step that registers and cancels nothing, and ends no Stop that still has
\* a process to close.
LEMMA QuietStep ==
  ASSUME TypeInv, SupervisedInv,
         UNCHANGED <<procs, healthCancels, ctx>>,
         \A p \in Procs : life[p] # "unused" => life'[p] # "unused" /\ owner'[p] = owner[p],
         \A o \in Operators : pc[o] = "stop" /\ procs[arg[o]] # None =>
                                pc'[o] = "stop" /\ arg'[o] = arg[o]
  PROVE  SupervisedInv'
<1>1. CancelOwned' BY DEF SupervisedInv, CancelOwned, TypeInv, ToolsOK
<1>2. MsgpackSupervised' BY DEF SupervisedInv, MsgpackSupervised
<1>3. QED BY <1>1, <1>2 DEF SupervisedInv

\* A step that cancels the probes of one tool, and leaves no process of a
\* msgpack tool registered unless a Stop of it is under way.
LEMMA CancelStep ==
  ASSUME TypeInv, SupervisedInv, NEW t \in Tools,
         ctx' = CancelOf(t), healthCancels' = [healthCancels EXCEPT ![t] = None],
         \A u \in Tools : u # t => procs'[u] = procs[u],
         t \in Msgpack => \/ procs'[t] = None
                          \/ \E o \in Operators : pc'[o] = "stop" /\ arg'[o] = t,
         \A p \in Procs : life[p] # "unused" => life'[p] # "unused",
         owner' = owner,
         \A o \in Operators : pc[o] = "stop" => pc'[o] = "stop" /\ arg'[o] = arg[o]
  PROVE  SupervisedInv'
<1>1. healthCancels \in [Tools -> Procs \cup {None}] /\ ctx \in [Procs -> {"none", "live", "cancelled"}]
  BY DEF TypeInv, ToolsOK, LoopsOK
<1>2. \A u \in Tools : healthCancels'[u] = IF u = t THEN None ELSE healthCancels[u] BY <1>1
<1>3. CancelOwned' BY <1>1, <1>2 DEF SupervisedInv, CancelOwned
<1>4. MsgpackSupervised'
  <2> SUFFICES ASSUME NEW u \in Msgpack \cap Monitored, procs'[u] # None,
                      ~ \E o \in Operators : pc'[o] = "stop" /\ arg'[o] = u
               PROVE  healthCancels'[u] = procs'[u] /\ ctx'[procs'[u]] = "live"
    BY DEF MsgpackSupervised
  <2>1. u \in Tools /\ u # t BY ExecutorAssumption DEF ExecutorAssumption
  <2>2. healthCancels'[u] = healthCancels[u] /\ procs'[u] = procs[u] BY <1>2, <2>1
  <2>3. healthCancels[u] = procs[u] /\ ctx[procs[u]] = "live"
    BY <2>1, <2>2 DEF SupervisedInv, MsgpackSupervised
  <2>4. procs[u] \in Procs BY <2>1, <2>2 DEF TypeInv, ToolsOK
  <2>5. owner[procs[u]] = u BY <2>1, <2>2, <2>3 DEF SupervisedInv, CancelOwned
  <2>6. healthCancels[t] # procs[u]
    BY <2>1, <2>2, <2>5 DEF SupervisedInv, CancelOwned
  <2>7. ctx'[procs[u]] = ctx[procs[u]] BY <1>1, <2>4, <2>6 DEF CancelOf
  <2>8. QED BY <2>2, <2>3, <2>7
<1>5. QED BY <1>3, <1>4 DEF SupervisedInv

\* A registered msgpack process stays supervised through every step.
LEMMA SupervisedStep ==
  ASSUME TypeInv, SupervisedInv, [Next]_vars
  PROVE  SupervisedInv'
<1> USE ExecutorAssumption DEF ExecutorAssumption, Return, Goto, Threads,
           toolVars, loopVars, threadVars
<1>t. /\ procs \in [Tools -> Procs \cup {None}]
      /\ healthCancels \in [Tools -> Procs \cup {None}]
      /\ life \in [Procs -> Life]
      /\ owner \in [Procs -> Tools \cup {None}]
      /\ pc \in [Threads -> Labels]
      /\ arg \in [Threads -> Tools \cup {None}]
  BY DEF TypeInv, ToolsOK, ProcessesOK, ThreadsOK
<1>1. ASSUME NEW o \in Operators, NEW t \in Tools, StartCheck(o, t) PROVE SupervisedInv'
  BY <1>1, <1>t, QuietStep DEF StartCheck
<1>2. ASSUME NEW o \in Operators, StartFail(o) PROVE SupervisedInv'
  BY <1>2, <1>t, QuietStep DEF StartFail
<1>3. ASSUME NEW o \in Operators, StartCreate(o) PROVE SupervisedInv'
  <2>1. PICK p \in Procs : life[p] = "unused" /\ life' = [life EXCEPT ![p] = "alive"]
                           /\ owner' = [owner EXCEPT ![p] = arg[o]]
    BY <1>3 DEF StartCreate
  <2>2. \A q \in Procs : life[q] # "unused" => life'[q] # "unused" /\ owner'[q] = owner[q]
    BY <1>t, <2>1
  <2>3. QED BY <1>3, <1>t, <2>2, QuietStep DEF StartCreate
<1>4. ASSUME NEW o \in Operators, StartInitFails(o) PROVE SupervisedInv'
  <2>1. \A q \in Procs : life[q] # "unused" => life'[q] # "unused"
    BY <1>4, <1>t DEF StartInitFails, Closed
  <2>2. QED BY <1>4, <1>t, <2>1, QuietStep DEF StartInitFails
<1>5. ASSUME NEW o \in Operators, StartInstall(o) PROVE SupervisedInv'
  <2> DEFINE t == arg[o]
             p == held[o]
  <2>1. /\ t \in Tools /\ p \in Procs /\ owner[p] = t /\ life[p] # "unused"
        /\ ctx \in [Procs -> {"none", "live", "cancelled"}]
    BY <1>5 DEF StartInstall, TypeInv, ThreadPointers, InstallOwns, Fresh, LoopsOK
  <2>2. /\ procs' = [procs EXCEPT ![t] = p]
        /\ healthCancels' = IF t \in Monitored THEN [healthCancels EXCEPT ![t] = p]
                                               ELSE healthCancels
        /\ ctx' = IF t \in Monitored THEN [ctx EXCEPT ![p] = "live"] ELSE ctx
        /\ UNCHANGED <<life, owner>>
    BY <1>5 DEF StartInstall
  <2>3. \A q \in Operators : pc[q] = "stop" => pc'[q] = "stop" /\ arg'[q] = arg[q]
    BY <1>5, <1>t DEF StartInstall
  <2> HIDE DEF t, p
  <2>4. CancelOwned' BY <1>t, <2>1, <2>2 DEF SupervisedInv, CancelOwned
  <2>5. MsgpackSupervised'
    BY <1>t, <2>1, <2>2, <2>3 DEF SupervisedInv, MsgpackSupervised
  <2>6. QED BY <2>4, <2>5 DEF SupervisedInv
<1>6. ASSUME NEW o \in Operators, NEW t \in Tools, StopCancel(o, t) PROVE SupervisedInv'
  <2>1. pc'[o] = "stop" /\ arg'[o] = t BY <1>6, <1>t DEF StopCancel
  <2>2. \A q \in Operators : pc[q] = "stop" => pc'[q] = "stop" /\ arg'[q] = arg[q]
    BY <1>6, <1>t DEF StopCancel
  <2>3. UNCHANGED <<procs, life, owner>> /\ ctx' = CancelOf(t)
        /\ healthCancels' = [healthCancels EXCEPT ![t] = None]
    BY <1>6 DEF StopCancel
  <2>4. QED BY <2>1, <2>2, <2>3, CancelStep
<1>7. ASSUME NEW o \in Operators, StopLocked(o) PROVE SupervisedInv'
  <2> DEFINE t == arg[o]
  <2>1. /\ t \in Tools /\ procs' = [procs EXCEPT ![t] = None]
        /\ UNCHANGED <<healthCancels, owner, ctx>>
    BY <1>7 DEF StopLocked, Retire, TypeInv, ThreadPointers
  <2>2. \A q \in Procs : life[q] # "unused" => life'[q] # "unused"
    BY <1>7, <1>t DEF StopLocked, Retire, Closed
  <2>3. \A q \in Operators : q # o => pc'[q] = pc[q] /\ arg'[q] = arg[q]
    BY <1>7, <1>t DEF StopLocked
  <2>4. CancelOwned' BY <1>t, <2>1, <2>2 DEF SupervisedInv, CancelOwned
  <2>5. MsgpackSupervised' BY <1>t, <2>1, <2>3 DEF SupervisedInv, MsgpackSupervised
  <2>6. QED BY <2>4, <2>5 DEF SupervisedInv
<1>8. ASSUME NEW o \in Operators, StopNotRunning(o) PROVE SupervisedInv'
  BY <1>8, <1>t, QuietStep DEF StopNotRunning
<1>9. ASSUME NEW o \in Operators, NEW t \in Tools, ForceKill(o, t) PROVE SupervisedInv'
  <2>1. /\ ctx' = CancelOf(t) /\ healthCancels' = [healthCancels EXCEPT ![t] = None]
        /\ UNCHANGED <<owner, pc, arg>>
    BY <1>9 DEF ForceKill
  <2>2. /\ procs'[t] = None
        /\ \A u \in Tools : u # t => procs'[u] = procs[u]
        /\ \A p \in Procs : life[p] # "unused" => life'[p] # "unused"
    <3>1. CASE procs[t] = None BY <1>9, <3>1 DEF ForceKill
    <3>2. CASE procs[t] # None BY <1>9, <1>t, <3>2 DEF ForceKill, Retire, Closed
    <3>3. QED BY <3>1, <3>2
  <2>3. QED BY <2>1, <2>2, CancelStep
<1>10. ASSUME NEW o \in Operators, Close(o) PROVE SupervisedInv'
  <2>1. healthCancels' = [t \in Tools |-> None] /\ procs' = [t \in Tools |-> None]
    BY <1>10 DEF Close
  <2>2. QED BY <2>1 DEF SupervisedInv, CancelOwned, MsgpackSupervised
<1>11. ASSUME NEW c \in Callers, NEW t \in Tools, CallSend(c, t) PROVE SupervisedInv'
  BY <1>11, <1>t, QuietStep DEF CallSend
<1>12. ASSUME NEW c \in Callers, CallAnswered(c) PROVE SupervisedInv'
  BY <1>12, <1>t, QuietStep DEF CallAnswered
<1>f. ASSUME NEW t \in Tools, t \notin Msgpack, NEW q \in Procs,
             MarkReplStopped(t, q), owner' = owner,
             life' = IF life[q] = "alive" THEN [life EXCEPT ![q] = "dead"] ELSE life,
             \A o \in Operators : pc[o] = "stop" => pc'[o] = "stop" /\ arg'[o] = arg[o]
      PROVE  SupervisedInv'
  <2>1. /\ ctx' = CancelOf(t) /\ healthCancels' = [healthCancels EXCEPT ![t] = None]
        /\ \A u \in Tools : u # t => procs'[u] = procs[u]
    BY <1>f, <1>t DEF MarkReplStopped
  <2>2. \A p \in Procs : life[p] # "unused" => life'[p] # "unused" BY <1>f, <1>t
  <2>3. QED BY <1>f, <2>1, <2>2, CancelStep
<1>13. ASSUME NEW c \in Callers, CallFailed(c) PROVE SupervisedInv'
  <2>1. \A o \in Operators : pc[o] = "stop" => pc'[o] = "stop" /\ arg'[o] = arg[o]
    BY <1>13, <1>t DEF CallFailed
  <2>2. arg[c] \in Tools /\ held[c] \in Procs /\ owner' = owner
    BY <1>13 DEF CallFailed, TypeInv, ThreadPointers
  <2>3. CASE arg[c] \in Msgpack BY <1>13, <2>1, <2>2, <2>3, QuietStep DEF CallFailed
  <2>4. CASE arg[c] \notin Msgpack
    <3>1. /\ MarkReplStopped(arg[c], held[c])
          /\ life' = IF life[held[c]] = "alive" THEN [life EXCEPT ![held[c]] = "dead"] ELSE life
      BY <1>13, <2>4 DEF CallFailed
    <3>2. QED BY <1>f, <2>1, <2>2, <2>4, <3>1
  <2>5. QED BY <2>3, <2>4
<1>14. ASSUME NEW p \in Procs, HealthExit(p) \/ HealthTick(p) \/ HealthAnswered(p) \/ HealthRecord(p)
       PROVE SupervisedInv'
  BY <1>14, QuietStep DEF HealthExit, HealthTick, HealthAnswered, HealthRecord
<1>15. ASSUME NEW p \in Procs, HealthCallFailed(p) PROVE SupervisedInv'
  <2>1. /\ owner[p] \in Tools /\ probed[p] \in Procs
        /\ UNCHANGED <<owner, pc, arg>>
    BY <1>15 DEF HealthCallFailed, TypeInv, LoopPointers
  <2>2. CASE owner[p] \in Msgpack BY <1>15, <2>1, <2>2, QuietStep DEF HealthCallFailed
  <2>3. CASE owner[p] \notin Msgpack
    <3>1. /\ MarkReplStopped(owner[p], probed[p])
          /\ life' = IF life[probed[p]] = "alive"
                       THEN [life EXCEPT ![probed[p]] = "dead"] ELSE life
      BY <1>15, <2>3 DEF HealthCallFailed
    <3>2. QED BY <1>f, <2>1, <2>3, <3>1
  <2>4. QED BY <2>2, <2>3
<1>16. ASSUME NEW p \in Procs, ProcessDies(p) PROVE SupervisedInv'
  BY <1>16, <1>t, QuietStep DEF ProcessDies
<1>17. CASE UNCHANGED vars BY <1>17, QuietStep DEF vars
<1>18. QED
  BY <1>1, <1>2, <1>3, <1>4, <1>5, <1>6, <1>7, <1>8, <1>9, <1>10, <1>11, <1>12, <1>13,
     <1>14, <1>15, <1>16, <1>17
     DEF Next, OperatorStep, CallerStep, LoopStep

\* Every registered msgpack process with a Health section has a live probe that
\* Stop can cancel, except while a Stop of the tool is under way: whatever
\* starts, stops, kills, calls and probes of any number of goroutines do.
THEOREM MsgpackProbed == Spec => []MsgpackSupervised
<1>1. Init => SupervisedInv
  <2> SUFFICES ASSUME Init PROVE SupervisedInv OBVIOUS
  <2>1. \A t \in Tools : procs[t] = None /\ healthCancels[t] = None BY DEF Init
  <2>2. CancelOwned BY <2>1 DEF CancelOwned
  <2>3. MsgpackSupervised
    BY <2>1, ExecutorAssumption DEF ExecutorAssumption, MsgpackSupervised
  <2>4. QED BY <2>2, <2>3 DEF SupervisedInv
<1>2. TypeInv /\ SupervisedInv /\ [Next]_vars => SupervisedInv' BY SupervisedStep
<1>3. SupervisedInv => MsgpackSupervised BY DEF SupervisedInv
<1>4. QED BY <1>1, <1>2, <1>3, TypeInvariance, PTL DEF Spec

\* Only Stop itself ends a Stop.
LEMMA StopEnds ==
  ASSUME TypeInv, [Next]_vars, NEW o \in Operators,
         pc[o] = "stop", pc'[o] = "idle", procs[arg[o]] # None
  PROVE  StopLocked(o)
<1> USE ExecutorAssumption DEF ExecutorAssumption, Return, Goto, Threads, threadVars
<1>1. pc \in [Threads -> Labels] BY DEF TypeInv, ThreadsOK
<1>2. ASSUME NEW x \in Operators, ~StopLocked(x), OperatorStep(x) PROVE FALSE
  <2>1. ~StopNotRunning(x) \/ x # o BY DEF StopNotRunning
  <2>2. ASSUME NEW t \in Tools, StartCheck(x, t) \/ StopCancel(x, t) \/ ForceKill(x, t) PROVE FALSE
    BY <1>1, <2>2 DEF StartCheck, StopCancel, ForceKill
  <2>3. StartFail(x) => FALSE BY <1>1 DEF StartFail
  <2>4. StartCreate(x) => FALSE BY <1>1 DEF StartCreate
  <2>5. StartInitFails(x) => FALSE BY <1>1 DEF StartInitFails
  <2>6. StartInstall(x) => FALSE BY <1>1 DEF StartInstall
  <2>7. StopNotRunning(x) => FALSE BY <1>1, <2>1 DEF StopNotRunning
  <2>8. Close(x) => FALSE BY <1>1 DEF Close
  <2>9. QED BY <1>2, <2>2, <2>3, <2>4, <2>5, <2>6, <2>7, <2>8 DEF OperatorStep
<1>3. ASSUME NEW x \in Operators, x # o, StopLocked(x) PROVE FALSE
  BY <1>1, <1>3 DEF StopLocked
<1>4. ASSUME NEW c \in Callers, CallerStep(c) PROVE FALSE
  BY <1>1, <1>4 DEF CallerStep, CallSend, CallAnswered, CallFailed
<1>5. ASSUME NEW p \in Procs, LoopStep(p) \/ ProcessDies(p) PROVE FALSE
  BY <1>5 DEF LoopStep, ProcessDies, HealthExit, HealthTick, HealthAnswered,
              HealthCallFailed, HealthRecord
<1>6. ~UNCHANGED vars BY DEF vars
<1>7. QED BY <1>2, <1>3, <1>4, <1>5, <1>6 DEF Next

\* When starts and stops are not concurrent with each other, a Stop that ends
\* leaves no process of its tool alive.
THEOREM StopIsComplete == OneOperator /\ Spec => StopLeavesNothing
<1>1. ASSUME TypeInv, SerialInv, [Next]_vars,
             NEW o \in Operators, pc[o] = "stop", procs[arg[o]] # None, pc'[o] = "idle",
             NEW p \in Procs, owner[p] = arg[o], life'[p] = "alive"
      PROVE  \E q \in Operators : pc[q] = "install" /\ held[q] = p
  <2>1. StopLocked(o) BY <1>1, StopEnds
  <2>2. life[p] = "alive" /\ p # procs[arg[o]]
    BY <1>1, <2>1 DEF StopLocked, Retire, Closed, TypeInv, ToolsOK, ProcessesOK
  <2>3. QED BY <1>1, <2>2 DEF SerialInv, NoOrphan
<1>2. TypeInv /\ SerialInv /\ [Next]_vars
      => [\A o \in Operators :
            pc[o] = "stop" /\ procs[arg[o]] # None /\ pc'[o] = "idle" =>
              \A p \in Procs :
                owner[p] = arg[o] /\ life'[p] = "alive" =>
                  \E q \in Operators : pc[q] = "install" /\ held[q] = p]_vars
  BY <1>1
<1>3. QED BY <1>2, TypeInvariance, SerialInvariance, PTL DEF Spec, StopLeavesNothing
=============================================================================
