----------------------------- MODULE CrashMonitor -----------------------------
(***************************************************************************)
(* The crash monitor of pkg/tools/recovery.go.                             *)
(*                                                                         *)
(* Every Watch starts a goroutine, called a loop here.  A loop probes its  *)
(* tool without the lock, counts the failure under it, and after a pause   *)
(* has the executor start the tool.  Watch and Unwatch cancel a loop at    *)
(* any of these points, and the counters belong to the tool, not to the    *)
(* loop: a loop that was cancelled while it probed goes on with those of   *)
(* the next Watch.                                                         *)
(*                                                                         *)
(* The executor is the little of it that the monitor sees (Executor has    *)
(* the rest): whether a process is registered for a tool, and how it does. *)
(***************************************************************************)
EXTENDS Naturals, FiniteSets

CONSTANTS
  Tools,       \* persistent tools
  Loops,       \* calls of Watch (bounds them)
  MaxRetries,  \* RecoveryConfig.MaxRetries, 0 for no limit
  MaxDoubled,  \* MaxBackoff is 2^MaxDoubled times InitialBackoff
  FailureCap,  \* bound on both counters, at or above MaxRetries
  None         \* nothing

ASSUME MonitorAssumption ==
  /\ None \notin Tools \cup Loops
  /\ None \notin [failures : Nat, doubled : Nat]
  /\ MaxRetries \in Nat
  /\ MaxDoubled \in Nat
  /\ FailureCap \in Nat
  /\ MaxRetries <= FailureCap

VARIABLES
  cancels,  \* cm.cancels: the loop whose context the next Watch cancels
  states,   \* cm.states: failures, and how often the backoff was doubled
  at,       \* where a loop is
  tool,     \* the tool it watches
  done,     \* loops whose context is cancelled
  process,  \* the registered process of a tool
  status,   \* Tool.Status
  tries,    \* history: starts since the tool's counters were last cleared
  early     \* history: loops that had counted a failure before that

monitorVars == <<cancels, states, at, tool, done>>
history == <<tries, early>>
vars == <<monitorVars, process, status, history>>

Fresh == [failures |-> 0, doubled |-> 0]

\* A loop that has counted a failure and not yet started the tool again.
Committed(l) == at[l] \in {"backoff", "starting"}
LoopsOf(t) == {l \in Loops : at[l] # "unused" /\ tool[l] = t}

Init ==
  /\ cancels = [t \in Tools |-> None]
  /\ states = [t \in Tools |-> None]
  /\ at = [l \in Loops |-> "unused"]
  /\ tool = [l \in Loops |-> None]
  /\ done = {}
  /\ process = [t \in Tools |-> "none"]
  /\ status = [t \in Tools |-> "stopped"]
  /\ tries = [t \in Tools |-> 0]
  /\ early = {}

-----------------------------------------------------------------------------
(* Watch, Unwatch, Reset and Close hold the lock.                          *)

\* What the history makes of cleared counters.
Cleared(t) ==
  /\ tries' = [tries EXCEPT ![t] = 0]
  /\ early' = early \cup {l \in LoopsOf(t) : Committed(l)}

\* Faulty variant: the loop that watches the tool already is left running.
WatchAgain(l, t) ==
  /\ at[l] = "unused"
  /\ cancels' = [cancels EXCEPT ![t] = l]
  /\ states' = [states EXCEPT ![t] = Fresh]
  /\ at' = [at EXCEPT ![l] = "waiting"]
  /\ tool' = [tool EXCEPT ![l] = t]
  /\ Cleared(t)
  /\ UNCHANGED <<done, process, status>>

Watch(l, t) ==
  /\ at[l] = "unused"
  /\ done' = done \cup ({cancels[t]} \ {None})
  /\ cancels' = [cancels EXCEPT ![t] = l]
  /\ states' = [states EXCEPT ![t] = Fresh]
  /\ at' = [at EXCEPT ![l] = "waiting"]
  /\ tool' = [tool EXCEPT ![l] = t]
  /\ Cleared(t)
  /\ UNCHANGED <<process, status>>

\* Faulty variant: the cancel function stays in the map.
UnwatchKeepsCancel(t) ==
  /\ cancels[t] # None
  /\ done' = done \cup {cancels[t]}
  /\ states' = [states EXCEPT ![t] = None]
  /\ UNCHANGED <<cancels, at, tool, process, status, history>>

Unwatch(t) ==
  /\ cancels[t] # None
  /\ done' = done \cup {cancels[t]}
  /\ cancels' = [cancels EXCEPT ![t] = None]
  /\ states' = [states EXCEPT ![t] = None]
  /\ UNCHANGED <<at, tool, process, status, history>>

Close ==
  /\ \E t \in Tools : cancels[t] # None
  /\ done' = done \cup ({cancels[t] : t \in Tools} \ {None})
  /\ cancels' = [t \in Tools |-> None]
  /\ states' = [t \in Tools |-> None]
  /\ UNCHANGED <<at, tool, process, status, history>>

ClearCounters(t) ==
  IF states[t] = None THEN UNCHANGED <<states, history>>
  ELSE /\ states' = [states EXCEPT ![t] = Fresh]
       /\ Cleared(t)

\* Reset is for callers that saw the tool alive.
Reset(t) ==
  /\ states[t] # None
  /\ process[t] \in {"ready", "busy"}
  /\ ClearCounters(t)
  /\ UNCHANGED <<cancels, at, tool, done, process, status>>

-----------------------------------------------------------------------------
(* monitorLoop.                                                            *)

Goto(l, label) == at' = [at EXCEPT ![l] = label]

\* Of a tick and a cancelled context that are both there, select takes either.
Tick(l) ==
  /\ at[l] = "waiting"
  /\ Goto(l, "probing")
  /\ UNCHANGED <<cancels, states, tool, done, process, status, history>>

\* Faulty variant: only the pause looks at the context.
CancelledInPause(l) ==
  /\ l \in done
  /\ at[l] = "backoff"
  /\ Goto(l, "ended")
  /\ early' = early \ {l}
  /\ UNCHANGED <<cancels, states, tool, done, process, status, tries>>

\* The two places where a loop looks at its context.
Cancelled(l) ==
  /\ l \in done
  /\ at[l] \in {"waiting", "backoff"}
  /\ Goto(l, "ended")
  /\ early' = early \ {l}
  /\ UNCHANGED <<cancels, states, tool, done, process, status, tries>>

\* The probe of a busy process times out, or waits long enough.
ProbeSucceeds(l) ==
  /\ at[l] = "probing"
  /\ process[tool[l]] \in {"ready", "busy"}
  /\ Goto(l, "waiting")
  /\ ClearCounters(tool[l])
  /\ UNCHANGED <<cancels, tool, done, process, status>>

ProbeFails(l) ==
  /\ at[l] = "probing"
  /\ process[tool[l]] # "ready"
  /\ Goto(l, "failed")
  /\ UNCHANGED <<cancels, states, tool, done, process, status, history>>

\* The tool is no longer watched.
LoopUnwatched(l) ==
  /\ at[l] = "failed"
  /\ states[tool[l]] = None
  /\ Goto(l, "ended")
  /\ UNCHANGED <<cancels, states, tool, done, process, status, history>>

Exhausted(n) == MaxRetries > 0 /\ n >= MaxRetries

\* failures++ under the lock; the crash is reported.
CountFailure(l) ==
  LET t == tool[l]
      n == states[t].failures + 1
  IN /\ at[l] = "failed"
     /\ states[t] # None
     /\ n <= FailureCap
     /\ states' = [states EXCEPT ![t].failures = n]
     /\ Goto(l, IF Exhausted(n) THEN "exhausted" ELSE "backoff")
     /\ UNCHANGED <<cancels, tool, done, process, status, history>>

\* The counters and the cancel function of the tool stay.
GiveUp(l) ==
  LET t == tool[l]
  IN /\ at[l] = "exhausted"
     /\ status' = [status EXCEPT ![t] = IF @ = "absent" THEN @ ELSE "crashed"]
     /\ Goto(l, "ended")
     /\ UNCHANGED <<cancels, states, tool, done, process, history>>

BackoffEnds(l) ==
  /\ at[l] = "backoff"
  /\ Goto(l, "starting")
  /\ UNCHANGED <<cancels, states, tool, done, process, status, history>>

Tried(l) ==
  /\ tries' = IF l \in early \/ tries[tool[l]] = FailureCap THEN tries
              ELSE [tries EXCEPT ![tool[l]] = @ + 1]
  /\ early' = early \ {l}

Doubled(n) == IF n < MaxDoubled THEN n + 1 ELSE n

\* Faulty variant: a start that succeeds clears the failures.
RestartedClears(l) ==
  LET t == tool[l]
  IN /\ at[l] = "starting"
     /\ process[t] = "none"
     /\ status[t] # "absent"
     /\ process' = [process EXCEPT ![t] = "ready"]
     /\ status' = [status EXCEPT ![t] = "running"]
     /\ states' = IF states[t] = None THEN states ELSE [states EXCEPT ![t] = Fresh]
     /\ Tried(l)
     /\ Goto(l, "waiting")
     /\ UNCHANGED <<cancels, tool, done>>

\* The executor starts the tool; the failures are kept.
Restarted(l) ==
  LET t == tool[l]
  IN /\ at[l] = "starting"
     /\ process[t] = "none"
     /\ status[t] # "absent"
     /\ process' = [process EXCEPT ![t] = "ready"]
     /\ status' = [status EXCEPT ![t] = "running"]
     /\ states' = IF states[t] = None THEN states
                  ELSE [states EXCEPT ![t].doubled = 0]
     /\ Tried(l)
     /\ Goto(l, "waiting")
     /\ UNCHANGED <<cancels, tool, done>>

\* Faulty variant: a start that failed is tried again after another pause.
RestartFailsRetries(l) ==
  LET t == tool[l]
  IN /\ at[l] = "starting"
     /\ states' = IF states[t] = None THEN states
                  ELSE [states EXCEPT ![t].doubled = Doubled(@)]
     /\ Tried(l)
     /\ Goto(l, "backoff")
     /\ UNCHANGED <<cancels, tool, done, process, status>>

\* The tool is gone, its process, alive or dead, is still registered, or it
\* cannot be created.
RestartFails(l) ==
  LET t == tool[l]
  IN /\ at[l] = "starting"
     /\ states' = IF states[t] = None THEN states
                  ELSE [states EXCEPT ![t].doubled = Doubled(@)]
     /\ Tried(l)
     /\ Goto(l, "waiting")
     /\ UNCHANGED <<cancels, tool, done, process, status>>

LoopStep(l) ==
  \/ Tick(l)
  \/ Cancelled(l)
  \/ ProbeSucceeds(l)
  \/ ProbeFails(l)
  \/ LoopUnwatched(l)
  \/ CountFailure(l)
  \/ GiveUp(l)
  \/ BackoffEnds(l)
  \/ Restarted(l)
  \/ RestartFails(l)

-----------------------------------------------------------------------------
(* What happens to the tool meanwhile.                                     *)

ProcessMoves(t, from, to) ==
  /\ process[t] \in from
  /\ process' = [process EXCEPT ![t] = to]
  /\ UNCHANGED <<monitorVars, history>>

\* A call begins, and ends.
CallBegins(t) == ProcessMoves(t, {"ready"}, "busy") /\ UNCHANGED status
CallEnds(t) == ProcessMoves(t, {"busy"}, "ready") /\ UNCHANGED status

\* The process exits.  Nobody is told.
Dies(t) == ProcessMoves(t, {"ready", "busy"}, "dead") /\ UNCHANGED status

\* A call, a health check or Stop removes the process.
Removed(t) ==
  /\ ProcessMoves(t, {"ready", "busy", "dead"}, "none")
  /\ status' = [status EXCEPT ![t] = "stopped"]

\* Somebody else starts the tool.
Started(t) ==
  /\ status[t] # "absent"
  /\ ProcessMoves(t, {"none"}, "ready")
  /\ status' = [status EXCEPT ![t] = "running"]

\* Uninstall does not Unwatch.
Uninstalled(t) ==
  /\ process[t] = "none"
  /\ status' = [status EXCEPT ![t] = "absent"]
  /\ UNCHANGED <<monitorVars, process, history>>

ToolStep(t) ==
  \/ CallBegins(t)
  \/ CallEnds(t)
  \/ Dies(t)
  \/ Removed(t)
  \/ Started(t)
  \/ Uninstalled(t)

Next ==
  \/ \E l \in Loops, t \in Tools : Watch(l, t)
  \/ \E t \in Tools : Unwatch(t)
  \/ Close
  \/ \E t \in Tools : Reset(t)
  \/ \E l \in Loops : LoopStep(l)
  \/ \E t \in Tools : ToolStep(t)

Spec == Init /\ [][Next]_vars

\* Timers expire and probes return.  A select with two channels ready takes
\* each of them sooner or later.
LoopFairness ==
  \A l \in Loops :
    /\ WF_vars(LoopStep(l))
    /\ SF_vars(Cancelled(l))

FairSpec == Spec /\ LoopFairness

-----------------------------------------------------------------------------
(* Properties.                                                             *)

Running(l) == at[l] \notin {"unused", "ended"}

\* Every variable has its type, and a tool has counters while it is watched.
TypeOK ==
  /\ cancels \in [Tools -> Loops \cup {None}]
  /\ states \in [Tools -> [failures : 0 .. FailureCap, doubled : 0 .. MaxDoubled] \cup {None}]
  /\ \A t \in Tools : states[t] = None <=> cancels[t] = None
  /\ at \in [Loops -> {"unused", "waiting", "probing", "failed", "exhausted", "backoff",
                       "starting", "ended"}]
  /\ tool \in [Loops -> Tools \cup {None}]
  /\ done \subseteq Loops
  /\ process \in [Tools -> {"none", "ready", "busy", "dead"}]
  /\ status \in [Tools -> {"stopped", "running", "crashed", "absent"}]
  /\ tries \in [Tools -> 0 .. FailureCap]
  /\ early \subseteq Loops

\* A tool has at most one loop that was not told to stop, and it is the one
\* that the next Watch, Unwatch or Close will reach: after any sequence of
\* these and of loops that gave up.
OneLoopPerTool ==
  \A l \in Loops \ done : Running(l) => cancels[tool[l]] = l

\* The monitor starts a tool fewer than MaxRetries times before the tool was
\* seen alive or watched anew, however often it comes up and dies again, and
\* even while the loop of an earlier Watch uses the same counters.
RestartsBounded ==
  MaxRetries > 0 => \A t \in Tools : tries[t] < MaxRetries

\* A loop that was cancelled ends, wherever it was.
CancelledLoopEnds ==
  \A l \in Loops : l \in done ~> ~Running(l)

\* A tool that is watched is not left without a process: it comes up, or the
\* monitor gives up and marks it.
CrashIsSettled ==
  \A l \in Loops :
    (Running(l) /\ process[tool[l]] \in {"none", "dead"}) ~>
      (~Running(l) \/ process[tool[l]] \in {"ready", "busy"})
=============================================================================
