------------------------------ MODULE Executor ------------------------------
(***************************************************************************)
(* The tool-process executor of pkg/tools/executor.go.                     *)
(*                                                                         *)
(* Operators are the goroutines that start, stop and kill persistent tools *)
(* (the install/update/config/uninstall handlers, the crash monitor, the   *)
(* signal handler); Callers are the goroutines that serve tool calls.      *)
(* Every started tool with a manifest Health section also has a health     *)
(* goroutine, named here by the process whose start launched it.           *)
(*                                                                         *)
(* Steps that hold Executor.mu are single actions.  What the code does     *)
(* outside the lock (the "already running" test of Start, the creation of  *)
(* the process, the cancellation in Stop, the call itself, the recording   *)
(* of a health result) is an action of its own, so every interleaving of   *)
(* the real program at those points is a behaviour here.                   *)
(*                                                                         *)
(* A tool has one transport, so e.repls and e.queues are one map here.     *)
(***************************************************************************)
EXTENDS Naturals, FiniteSets

CONSTANTS
  Tools,        \* persistent tools known to the manager
  Msgpack,      \* those with transport "msgpack"; the others use the REPL
  Monitored,    \* those whose manifest has a Health section
  Procs,        \* Python processes that can be created (bounds the starts)
  Operators,    \* goroutines that start and stop tools
  Callers,      \* goroutines that call tools
  Threshold,    \* Health.FailureThreshold
  FailureCap,   \* bound on the failure counter, at or above Threshold
  None          \* no process

ASSUME ExecutorAssumption ==
  /\ Msgpack \subseteq Tools
  /\ Monitored \subseteq Tools
  /\ None \notin Procs
  /\ None \notin Tools
  /\ Operators \cap Callers = {}
  /\ Threshold \in Nat \ {0}
  /\ FailureCap \in Nat
  /\ Threshold <= FailureCap

VARIABLES
  procs,         \* e.repls and e.queues: the process registered for a tool
  healthCancels, \* e.healthCancels: whose health context Stop would cancel
  status,        \* Tool.Status
  health,        \* Tool.HealthStatus
  failures,      \* Tool.HealthFailures
  life,          \* the operating system's view of each process
  owner,         \* the tool a process was created for
  ctx,           \* the context of the health goroutine started with a process
  loop,          \* where that goroutine is
  probed,        \* the process its current probe was sent to
  pc,            \* where each operator and caller is
  arg,           \* the tool it works on
  held           \* the process it holds a pointer to

toolVars == <<procs, healthCancels, status, health, failures>>
loopVars == <<ctx, loop, probed>>
threadVars == <<pc, arg, held>>
vars == <<toolVars, life, owner, loopVars, threadVars>>

Threads == Operators \cup Callers

-----------------------------------------------------------------------------
(* Counters and small helpers.                                             *)

\* HealthFailures++, cut off at FailureCap (no comparison in the code tells
\* values above Threshold apart).
Bump(n) == IF n < FailureCap THEN n + 1 ELSE n

\* cancel(): the context of the goroutine registered for t, if there is one.
CancelOf(t) ==
  IF healthCancels[t] = None THEN ctx
  ELSE [ctx EXCEPT ![healthCancels[t]] = "cancelled"]

\* A Close or Terminate of process p: it is gone afterwards.
Closed(p) == [life EXCEPT ![p] = "closed"]

Goto(th, label) == pc' = [pc EXCEPT ![th] = label]

Return(th) ==
  /\ pc' = [pc EXCEPT ![th] = "idle"]
  /\ arg' = [arg EXCEPT ![th] = None]
  /\ held' = [held EXCEPT ![th] = None]

-----------------------------------------------------------------------------
Init ==
  /\ procs = [t \in Tools |-> None]
  /\ healthCancels = [t \in Tools |-> None]
  /\ status = [t \in Tools |-> "stopped"]
  /\ health = [t \in Tools |-> ""]
  /\ failures = [t \in Tools |-> 0]
  /\ life = [p \in Procs |-> "unused"]
  /\ owner = [p \in Procs |-> None]
  /\ ctx = [p \in Procs |-> "none"]
  /\ loop = [p \in Procs |-> "off"]
  /\ probed = [p \in Procs |-> None]
  /\ pc = [th \in Threads |-> "idle"]
  /\ arg = [th \in Threads |-> None]
  /\ held = [th \in Threads |-> None]

-----------------------------------------------------------------------------
(* Start.                                                                  *)

\* Start up to RUnlock: nothing is registered for the tool.  (When something
\* is, Start returns "already running" and changes nothing.)
StartCheck(o, t) ==
  /\ pc[o] = "idle"
  /\ procs[t] = None
  /\ Goto(o, "create")
  /\ arg' = [arg EXCEPT ![o] = t]
  /\ UNCHANGED <<toolVars, life, owner, loopVars, held>>

\* EnsureEnvironment or the creation of the process fails.
StartFail(o) ==
  /\ pc[o] = "create"
  /\ Return(o)
  /\ UNCHANGED <<toolVars, life, owner, loopVars>>

\* NewREPLPythonProcess / NewQueueProcess succeeds.
StartCreate(o) ==
  /\ pc[o] = "create"
  /\ \E p \in Procs :
       /\ life[p] = "unused"
       /\ life' = [life EXCEPT ![p] = "alive"]
       /\ owner' = [owner EXCEPT ![p] = arg[o]]
       /\ held' = [held EXCEPT ![o] = p]
  /\ Goto(o, "install")
  /\ UNCHANGED <<toolVars, loopVars, arg>>

\* Faulty variant: the process is not closed when it fails to initialise.
StartInitFailsKeepsProcess(o) ==
  /\ pc[o] = "install"
  /\ arg[o] \notin Msgpack
  /\ Return(o)
  /\ UNCHANGED <<toolVars, life, owner, loopVars>>

\* initializeService fails (REPL only): the process is closed, Start returns.
StartInitFails(o) ==
  /\ pc[o] = "install"
  /\ arg[o] \notin Msgpack
  /\ life' = Closed(held[o])
  /\ Return(o)
  /\ UNCHANGED <<toolVars, owner, loopVars>>

\* The critical section of startRepl / startMsgpack, and the go statement.
\* A REPL process only gets here when it answered initializeService (that the
\* answer may be "not ready" makes no difference to what happens next).
StartInstall(o) ==
  LET t == arg[o]
      p == held[o]
  IN /\ pc[o] = "install"
     /\ t \notin Msgpack => life[p] = "alive"
     /\ procs' = [procs EXCEPT ![t] = p]
     /\ status' = [status EXCEPT ![t] = "running"]
     /\ health' = [health EXCEPT ![t] = "unknown"]
     /\ failures' = [failures EXCEPT ![t] = 0]
     /\ IF t \in Monitored
          THEN /\ healthCancels' = [healthCancels EXCEPT ![t] = p]
               /\ ctx' = [ctx EXCEPT ![p] = "live"]
               /\ loop' = [loop EXCEPT ![p] = "select"]
          ELSE UNCHANGED <<healthCancels, ctx, loop>>
     /\ Return(o)
     /\ UNCHANGED <<life, owner, probed>>

-----------------------------------------------------------------------------
(* Stop, ForceKill, Close.                                                 *)

\* Stop before the lock: the health check is cancelled and forgotten.
StopCancel(o, t) ==
  /\ pc[o] = "idle"
  /\ ctx' = CancelOf(t)
  /\ healthCancels' = [healthCancels EXCEPT ![t] = None]
  /\ Goto(o, "stop")
  /\ arg' = [arg EXCEPT ![o] = t]
  /\ UNCHANGED <<procs, status, health, failures, life, owner, loop, probed, held>>

\* Faulty variant: the status is not reset.
RetireKeepsStatus(t) ==
  /\ life' = Closed(procs[t])
  /\ procs' = [procs EXCEPT ![t] = None]
  /\ health' = [health EXCEPT ![t] = ""]
  /\ failures' = [failures EXCEPT ![t] = 0]
  /\ UNCHANGED status

\* Faulty variant: Status and HealthStatus are written the wrong way round.
RetireSwapsFields(t) ==
  /\ life' = Closed(procs[t])
  /\ procs' = [procs EXCEPT ![t] = None]
  /\ status' = [status EXCEPT ![t] = ""]
  /\ health' = [health EXCEPT ![t] = "stopped"]
  /\ failures' = [failures EXCEPT ![t] = 0]

\* What Stop and ForceKill do to a registered process of tool t.
Retire(t) ==
  /\ life' = Closed(procs[t])
  /\ procs' = [procs EXCEPT ![t] = None]
  /\ status' = [status EXCEPT ![t] = "stopped"]
  /\ health' = [health EXCEPT ![t] = ""]
  /\ failures' = [failures EXCEPT ![t] = 0]

\* Stop under the lock, after its 200 ms sleep.
StopLocked(o) ==
  /\ pc[o] = "stop"
  /\ procs[arg[o]] # None
  /\ Retire(arg[o])
  /\ Return(o)
  /\ UNCHANGED <<healthCancels, owner, loopVars>>

\* Stop finds nothing registered: "not running".
StopNotRunning(o) ==
  /\ pc[o] = "stop"
  /\ procs[arg[o]] = None
  /\ Return(o)
  /\ UNCHANGED <<toolVars, life, owner, loopVars>>

\* ForceKill, all of it under the lock; the health check is cancelled first,
\* whether or not a process is registered.
ForceKill(o, t) ==
  /\ pc[o] = "idle"
  /\ ctx' = CancelOf(t)
  /\ healthCancels' = [healthCancels EXCEPT ![t] = None]
  /\ IF procs[t] # None
       THEN Retire(t)
       ELSE UNCHANGED <<procs, status, health, failures, life>>
  /\ UNCHANGED <<owner, loop, probed, threadVars>>

\* Close: every health check cancelled, every registered process closed.
\* HealthFailures keeps its value here.
Close(o) ==
  LET open == {t \in Tools : procs[t] # None}
  IN /\ pc[o] = "idle"
     /\ ctx' = [p \in Procs |->
                  IF \E t \in Tools : healthCancels[t] = p THEN "cancelled" ELSE ctx[p]]
     /\ healthCancels' = [t \in Tools |-> None]
     /\ life' = [p \in Procs |->
                   IF \E t \in Tools : procs[t] = p THEN "closed" ELSE life[p]]
     /\ status' = [t \in Tools |-> IF t \in open THEN "stopped" ELSE status[t]]
     /\ health' = [t \in Tools |-> IF t \in open THEN "" ELSE health[t]]
     /\ procs' = [t \in Tools |-> None]
     /\ UNCHANGED <<failures, owner, loop, probed, threadVars>>

-----------------------------------------------------------------------------
(* Calls.                                                                  *)

\* A call reads the process under RLock and uses it after RUnlock.  (When
\* nothing is registered it returns "not running".)
CallSend(c, t) ==
  /\ pc[c] = "idle"
  /\ procs[t] # None
  /\ Goto(c, "calling")
  /\ arg' = [arg EXCEPT ![c] = t]
  /\ held' = [held EXCEPT ![c] = procs[t]]
  /\ UNCHANGED <<toolVars, life, owner, loopVars>>

\* The process answered; a service-level error is an answer too.
CallAnswered(c) ==
  /\ pc[c] = "calling"
  /\ life[held[c]] = "alive"
  /\ Return(c)
  /\ UNCHANGED <<toolVars, life, owner, loopVars>>

\* Faulty variant: the cancel function is dropped without being called.
MarkReplStoppedForgetsCancel(t, p) ==
  /\ procs' = IF procs[t] = p THEN [procs EXCEPT ![t] = None] ELSE procs
  /\ healthCancels' = [healthCancels EXCEPT ![t] = None]
  /\ status' = [status EXCEPT ![t] = "stopped"]
  /\ health' = [health EXCEPT ![t] = "unhealthy"]
  /\ failures' = [failures EXCEPT ![t] = Bump(@)]
  /\ UNCHANGED ctx

\* markReplStopped(t, p): p is unregistered only if it is still the one
\* registered; the health check and the tool's fields change regardless.
MarkReplStopped(t, p) ==
  /\ procs' = IF procs[t] = p THEN [procs EXCEPT ![t] = None] ELSE procs
  /\ healthCancels' = [healthCancels EXCEPT ![t] = None]
  /\ ctx' = CancelOf(t)
  /\ status' = [status EXCEPT ![t] = "stopped"]
  /\ health' = [health EXCEPT ![t] = "unhealthy"]
  /\ failures' = [failures EXCEPT ![t] = Bump(@)]

\* Faulty variant: every transport's failure marks the tool stopped.
CallFailedMarksAll(c) ==
  /\ pc[c] = "calling"
  /\ life' = IF life[held[c]] = "alive"
               THEN [life EXCEPT ![held[c]] = "dead"] ELSE life
  /\ MarkReplStopped(arg[c], held[c])
  /\ Return(c)
  /\ UNCHANGED <<owner, loop, probed>>

\* The transport failed: the process is gone, or the call timed out.  A REPL
\* call that times out leaves no usable process (ExecuteWithTimeout ends it);
\* doCall then marks the tool stopped.  A msgpack call only returns the error.
CallFailed(c) ==
  /\ pc[c] = "calling"
  /\ IF arg[c] \in Msgpack
       THEN UNCHANGED <<procs, healthCancels, ctx, status, health, failures, life>>
       ELSE /\ life' = IF life[held[c]] = "alive"
                         THEN [life EXCEPT ![held[c]] = "dead"] ELSE life
            /\ MarkReplStopped(arg[c], held[c])
  /\ Return(c)
  /\ UNCHANGED <<owner, loop, probed>>

-----------------------------------------------------------------------------
(* The health goroutine launched with process p.                           *)

\* Faulty variant: the loop ends only once nothing is registered for its tool.
HealthExitWhenGone(p) ==
  /\ loop[p] = "select"
  /\ ctx[p] = "cancelled"
  /\ procs[owner[p]] = None
  /\ loop' = [loop EXCEPT ![p] = "done"]
  /\ UNCHANGED <<toolVars, life, owner, ctx, probed, threadVars>>

\* case <-ctx.Done()
HealthExit(p) ==
  /\ loop[p] = "select"
  /\ ctx[p] = "cancelled"
  /\ loop' = [loop EXCEPT ![p] = "done"]
  /\ UNCHANGED <<toolVars, life, owner, ctx, probed, threadVars>>

\* case <-ticker.C, possible in a cancelled context too (select is fair coin):
\* doHealthCheck reads whatever process is registered now.
HealthTick(p) ==
  LET q == procs[owner[p]]
  IN /\ loop[p] = "select"
     /\ loop' = [loop EXCEPT ![p] = IF q = None THEN "failed" ELSE "probing"]
     /\ probed' = [probed EXCEPT ![p] = q]
     /\ UNCHANGED <<toolVars, life, owner, ctx, threadVars>>

\* The probe is answered with "ok", or with something checkHealthResult rejects.
HealthAnswered(p) ==
  /\ loop[p] = "probing"
  /\ life[probed[p]] = "alive"
  /\ \E verdict \in {"ok", "failed"} : loop' = [loop EXCEPT ![p] = verdict]
  /\ UNCHANGED <<toolVars, life, owner, ctx, probed, threadVars>>

\* The probe's transport fails; a REPL probe goes through doCall as well.
HealthCallFailed(p) ==
  LET t == owner[p]
      q == probed[p]
  IN /\ loop[p] = "probing"
     /\ loop' = [loop EXCEPT ![p] = "failed"]
     /\ IF t \in Msgpack
          THEN UNCHANGED <<procs, healthCancels, ctx, status, health, failures, life>>
          ELSE /\ life' = IF life[q] = "alive" THEN [life EXCEPT ![q] = "dead"] ELSE life
               /\ MarkReplStopped(t, q)
     /\ UNCHANGED <<owner, probed, threadVars>>

\* The result is written to the tool without the lock, however long the probe
\* took and whatever happened to the tool meanwhile.
HealthRecord(p) ==
  LET t == owner[p]
  IN /\ loop[p] \in {"ok", "failed"}
     /\ IF loop[p] = "ok"
          THEN /\ health' = [health EXCEPT ![t] = "healthy"]
               /\ failures' = [failures EXCEPT ![t] = 0]
          ELSE /\ failures' = [failures EXCEPT ![t] = Bump(@)]
               /\ health' = [health EXCEPT ![t] =
                               IF failures'[t] >= Threshold THEN "unhealthy" ELSE @]
     /\ loop' = [loop EXCEPT ![p] = "select"]
     /\ probed' = [probed EXCEPT ![p] = None]
     /\ UNCHANGED <<procs, healthCancels, status, life, owner, ctx, threadVars>>

-----------------------------------------------------------------------------
\* A Python process exits by itself.
ProcessDies(p) ==
  /\ life[p] = "alive"
  /\ life' = [life EXCEPT ![p] = "dead"]
  /\ UNCHANGED <<toolVars, owner, loopVars, threadVars>>

OperatorStep(o) ==
  \/ \E t \in Tools : StartCheck(o, t)
  \/ StartFail(o)
  \/ StartCreate(o)
  \/ StartInitFails(o)
  \/ StartInstall(o)
  \/ \E t \in Tools : StopCancel(o, t)
  \/ StopLocked(o)
  \/ StopNotRunning(o)
  \/ \E t \in Tools : ForceKill(o, t)
  \/ Close(o)

CallerStep(c) ==
  \/ \E t \in Tools : CallSend(c, t)
  \/ CallAnswered(c)
  \/ CallFailed(c)

LoopStep(p) ==
  \/ HealthExit(p)
  \/ HealthTick(p)
  \/ HealthAnswered(p)
  \/ HealthCallFailed(p)
  \/ HealthRecord(p)

Next ==
  \/ \E o \in Operators : OperatorStep(o)
  \/ \E c \in Callers : CallerStep(c)
  \/ \E p \in Procs : LoopStep(p) \/ ProcessDies(p)

Spec == Init /\ [][Next]_vars

\* Go runs every goroutine that can run, the calls have timeouts, and a select
\* with two ready cases picks each of them again and again: an exit that keeps
\* being possible is taken.
HealthFairness ==
  \A p \in Procs :
    /\ SF_vars(HealthExit(p))
    /\ WF_vars(HealthAnswered(p) \/ HealthCallFailed(p))
    /\ WF_vars(HealthRecord(p))

FairSpec == Spec /\ HealthFairness

-----------------------------------------------------------------------------
(* Properties.                                                             *)

Life == {"unused", "alive", "dead", "closed"}
HealthStates == {"", "unknown", "healthy", "unhealthy"}
Counts == 0..FailureCap
Labels == {"idle", "create", "install", "stop", "calling"}
LoopLabels == {"off", "select", "probing", "ok", "failed", "done"}

ToolsOK ==
  /\ procs \in [Tools -> Procs \cup {None}]
  /\ healthCancels \in [Tools -> Procs \cup {None}]
  /\ status \in [Tools -> {"stopped", "running"}]
  /\ health \in [Tools -> HealthStates]
  /\ failures \in [Tools -> Counts]
ProcessesOK ==
  /\ life \in [Procs -> Life]
  /\ owner \in [Procs -> Tools \cup {None}]
LoopsOK ==
  /\ ctx \in [Procs -> {"none", "live", "cancelled"}]
  /\ loop \in [Procs -> LoopLabels]
  /\ probed \in [Procs -> Procs \cup {None}]
ThreadsOK ==
  /\ pc \in [Threads -> Labels]
  /\ arg \in [Threads -> Tools \cup {None}]
  /\ held \in [Threads -> Procs \cup {None}]

\* Every variable of the executor has its type.
TypeOK == ToolsOK /\ ProcessesOK /\ LoopsOK /\ ThreadsOK

\* A tool whose Status says "running" has a process a call can be sent to,
\* under every interleaving of starts, stops, kills, failing calls and
\* failing probes (Start, Stop, ForceKill, Close, markReplStopped).
RunningHasProcess ==
  \A t \in Tools : status[t] = "running" => procs[t] # None

\* For a msgpack tool Status says "running" exactly while a process is
\* registered, so UpdateTool and HandleConfig, which read Status, stop and
\* restart the right tools.
MsgpackStatusAgrees ==
  \A t \in Msgpack : status[t] = "running" <=> procs[t] # None

\* Tool.Status, which is set outside the lock by some and read without it by
\* others, is true of the registered process: a running tool has one, and a
\* msgpack tool that has one is running.
StatusAgrees == RunningHasProcess /\ MsgpackStatusAgrees

\* A live process is registered for its tool, or a Start that created it is
\* about to register it: no process is left that no Stop could reach.
\* (True when one goroutine at a time starts and stops tools.)
NoOrphan ==
  \A p \in Procs :
    life[p] = "alive" =>
      \/ \E t \in Tools : owner[p] = t /\ procs[t] = p
      \/ \E o \in Operators : pc[o] = "install" /\ held[o] = p

\* A health goroutine that has not been cancelled is the one healthCancels
\* would cancel: none is left running that no Stop could end.
\* (True when one goroutine at a time starts and stops tools.)
HealthLoopOwned ==
  \A p \in Procs :
    ctx[p] = "live" => \E t \in Tools : owner[p] = t /\ healthCancels[t] = p

\* A registered msgpack process with a Health section is being probed, except
\* while a Stop that has already cancelled the probes is on its way.
MsgpackSupervised ==
  \A t \in Msgpack \cap Monitored :
    procs[t] # None =>
      \/ healthCancels[t] = procs[t] /\ ctx[procs[t]] = "live"
      \/ \E o \in Operators : pc[o] = "stop" /\ arg[o] = t

\* A health goroutine whose context is cancelled ends, even when the
\* cancellation finds it in the middle of a probe (runHealthCheck).
HealthLoopEnds ==
  \A p \in Procs : ctx[p] = "cancelled" ~> loop[p] = "done"

\* When Stop reports that it stopped a tool, no process of the tool is alive
\* except one a concurrent Start has not registered yet
\* (docs/service-lifecycle.md:12: update and uninstall stop the tool before
\* replacing or removing it).
StopLeavesNothing ==
  [][\A o \in Operators :
       pc[o] = "stop" /\ procs[arg[o]] # None /\ pc'[o] = "idle" =>
         \A p \in Procs :
           owner[p] = arg[o] /\ life'[p] = "alive" =>
             \E q \in Operators : pc[q] = "install" /\ held[q] = p]_vars
=============================================================================
