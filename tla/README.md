# jb-mesh in TLA+

jb-mesh runs Python tools on a set of hosts and makes them callable from any of
them. Each host runs a *node*: an embedded NATS server, a manager and an executor
for the tools installed there, and a mesh client that registers their methods as
NATS services. Nodes on one LAN find each other with mDNS and elect a *seed*, whose
NATS server the others join as leaves.

These modules model the parts of that program in which goroutines, processes and
messages interleave. TLC checks them on small instances (`MC*.tla`, `MC*.cfg`);
TLAPS proves their safety properties for all instances (`*Proofs.tla`), some under a named
hypothesis. `PROJECT.json` lists the runs, the source lines of each definition, the faulty
variant every property is known to catch, the hazards and the theorems.

    tlc -config MCExecutor.cfg MCExecutor
    tlapm ExecutorProofs.tla

Line numbers below are of the source files of the repository.

## 1. The system

| Component | State it keeps | Operations | Talks to |
|---|---|---|---|
| **Executor** `pkg/tools/executor.go` | registered processes (`repls`, `queues`), `healthCancels`, `Tool.Status`, health record, one goroutine per monitored process | Start, Stop, ForceKill, Close, Call, CallContext, CallStream, health checks | manager (tools), Python processes through jumpboot |
| **Manager** `pkg/tools/manager.go`, `source.go`, `repostate.go` | `m.tools`, tool directories, virtual environments | Install, Update, Uninstall, Discover, EnsureEnvironment | git, pip, file system |
| **Node** `pkg/node/node.go` | role, `startedAt`, `streamSubs`, references to everything else | New, InstallTool, UpdateTool, UninstallTool, HandleConfig, registerTool, demoteToLeaf, Close | all of the others |
| **Mesh** `pkg/mesh/mesh.go` | `registrations`, `services`, `nodeSubs` | RegisterTool, UnregisterTool, reRegisterTools, Call, CallWithContext, Stream | NATS |
| **Discovery** `pkg/discovery/discovery.go` | peer cache, advertisement | Browse, FindSeed, Announce, browse loop, OnPeerFound | mDNS, node |
| **Crash monitor** `pkg/tools/recovery.go` | `cancels`, `states` (failures and back-off of a tool), one goroutine per Watch | Watch, Unwatch, Reset, Close, monitorLoop | executor |
| **File store, file parameters** `pkg/filestore`, `pkg/mesh/files.go`, `file_resolve.go` | objects in a JetStream bucket, temporary files of a call | put, get, head, delete, list, ResolveFileParams, cleanup | NATS, mesh |
| **Log store** `pkg/logstore` | a file of lines per date and node, statistics | Publish, Normalize, Append, Query, Tail, Stats | NATS, file system |
| **Events** `pkg/events` | a JetStream stream of the last `MaxMsgs` events | Emit, Subscribe, History | NATS, log store |
| **State** `pkg/state` | a JetStream key-value bucket | get, put, watch | NATS |
| **Tool configuration** `pkg/tools/toolconfig.go` | `config.json` in a tool's directory | Load, Save, Resolve | file system |
| **Service release** `cmd/jb-mesh/service_release.go`, `preflight.go` | none, a sequence of requests to one node | inspect, update, inspect, health, smoke | management requests |
| **Python service SDK** `sdk/python/jb-service` | the service's methods, calls in progress, an event-bus loop | dispatch, cancel, stream, publish | executor, over a pipe |

Command line, configuration loading, console logging, NATS options and the Go SDK
façade have no behaviour over time of their own.

### What is hard

* **Executor.** Nothing serialises operators: install and update requests, config
  changes, the signal handler and calls run in goroutines of their own. Start tests
  "already running" under one lock and registers the process under another. A failed
  call or probe works on a process pointer it got before Stop and Start replaced it.
  A health goroutine may be blocked in a probe when it is cancelled. *Correct* means:
  Status is true of the process, no process and no goroutine is left that Stop cannot
  reach, and a running service keeps being supervised.
* **Seed election.** Two nodes may both find no seed and both become one; split-brain
  resolution compares start times that have one-second resolution and come from
  different clocks, on advertisements that may be stale or missed, and several demotions
  may run at once. *Correct* means: a seed remains, demotions follow one order, and
  two seeds do not coexist for ever.
* **Tool lifecycle.** Install, update and uninstall are sequences of steps in the
  manager, the executor, the mesh and the streaming subscriptions; any step can
  fail, and handlers interleave with each other, with failing calls and with a NATS
  reconnect that restores what was saved. *Correct* means: what is served, subscribed
  and running agrees with what is installed.
* **Calls.** Requests, frames and cancellations pass each other; inboxes are bounded
  and drop; nodes, tools and callers go away in the middle. *Correct* means: a caller is
  handed its own frames, in order, once, and nothing after the end; cancellation ends
  the call; only callers that gave up have their handlers cancelled.
* **Crash monitor.** A loop probes without the lock and counts under it, and its counters
  belong to the tool: a loop that Unwatch or a second Watch cancels goes on from wherever
  it was, with the counters of its successor. *Correct* means: one loop per tool, no more
  restarts than allowed, a cancelled loop ends, a dead tool comes up or is given up.
* **Files.** A request on a raw subject is executed by every node that serves files, each at
  its own pace, and the first answer wins; a tool call asks on behalf of its caller and
  leaves files on disk. *Correct* means: who asks for a file gets that file, what was
  acknowledged is there, and nothing is left on disk.
* **Logs and events.** Records are filed under the date of the producer's clock and zone and
  asked for by a window of instants; queries read files that grow. *Correct* means:
  a query returns what was stored in its window and can be read, or says that it was cut, and
  each subscription stores a message once.
* **Tool store and release.** Install and update change the directory, the environment and
  the table one after the other, each step may fail or be the last before a crash; a
  release is a conversation with a node that others change meanwhile. *Correct* means: table,
  directory and environment agree, and a proof of release for a clone of the branch that
  the node pulls names what is deployed.

## 2. The modules

### Executor, ExecutorProofs

Operators are the goroutines that start and stop tools, callers those that serve calls,
and each monitored process has a health goroutine. What a function does under `e.mu` is
one action; what it does outside is an action of its own: `StartCheck` (the test) and
`StartCreate`/`StartInitFails` (the process and its first exchange) and `StartInstall`
(registration); `StopCancel` (the cancel outside the lock) and `StopLocked`; `ForceKill`;
`Close`; `CallSend`, `CallAnswered`, `CallFailed`; the steps `HealthTick`,
`HealthAnswered`, `HealthCallFailed`, `HealthRecord`, `HealthExit` of the probing loop.
`procs` stands for both `e.repls` and `e.queues`, as a tool has one transport; the
transports differ in `CallFailed` (only a REPL tool is marked stopped) and in the probes.
One-shot tools keep no state in the executor and are left out.

### SeedElection, SeedElectionProofs

A node boots (`Boot`), listens (`Hear`), and becomes a seed or joins one (`BecomeSeed`,
`JoinSeed`); its browse loop reports names that are new to its cache (`Found`) and forgets
silent ones at the end of a round (`RoundEnd`); a report may spawn a demotion, which begins
under the lock (`DemoteBegin`) and finishes (`DemoteFinish`) or fails, because the peer does
not serve or the node's own server does not come up again (`DemoteFail`). `SetNodeName` is a
step of its own, since the browse loop already runs when `New` assigns `n.nodeName`. `Clock`
says whether start times are distinct, may tie, or come from disagreeing clocks; `Faults`
whether processes exit and advertising fails.

### NodeTools, NodeToolsProofs

Handlers are goroutines serving management requests. An update is `UpdateBegin`,
`UpdateStop`, `UpdateUnregister`, `UpdateLoad`, then the steps of `registerTool`
(`RegisterStart` or `RegisterStartFails`, `RegisterDropStreams`, `RegisterSubscribe`,
`RegisterMesh`); install, uninstall and the restart on a config change are split the same
way, with a step for each way of failing. The mesh's three tables are sequences, bags and
counters (`services`, `registrations`, `nodeSubs`); `Reconnect` is `reRegisterTools`. The
executor appears as `running` and `status`, with `code`, the version a process was started
from; `CallFails` is its `markReplStopped`.

Of a tool's methods the model follows one that micro and NATS accept, and a streaming one.
A manifest may have another that `AddEndpoint` refuses (`BadMethods`), or whose stream
subject NATS refuses too (`BadStreams`). The methods of a manifest are in a Go map, so the
refused one is registered before or after: `RegisterTool` and `RegisterSubscribe` then fail
with the subscription of the other one made or not made, and what was made stays. The
properties say how much of it may stay: `HalfRegistered` and `Spoiled` count the saved
registrations that failed in these two ways. `RunsWhatIsServed` is about the update that takes
`Tool.Status` at its word.

### CallPromise, MeshCalls, MeshCallsProofs

`CallPromise` is the abstract specification: nodes make frames, a caller is handed some
of them, in each node's order, and nothing after a terminal frame or after it gave up.
`MeshCalls` is how the code does it: the caller's goroutine (`Issue`, `IssueRefused`,
`TakeFrame`, `HandFrame`, `Fire`, `Abort`), the network (`FrameArrives`,
`CancelArrives`), and the serving node (`HandlerStarts` to `HandlerBreaksOff`,
`NodeExits`). A subscription serves its requests one at a time, an inbox holds `ChanCap`
frames and drops the rest, a cancel message is heard only by a handler that has
subscribed. `PromiseKept` states that `MeshCalls` implements `CallPromise`, with `sent`
the frames published so far and `over` the closed calls. NATS delivery and contexts are
external.

### CrashMonitor, CrashMonitorProofs

A loop is one goroutine of `monitorLoop`: `Tick`, `ProbeSucceeds` or `ProbeFails` (without
the lock), `LoopUnwatched` or `CountFailure` (under it), `GiveUp`, `BackoffEnds`, `Restarted`
or `RestartFails`, and `Cancelled` at the two places where it looks at its context. `Watch`,
`Unwatch`, `Reset` and `Close` interleave with all of these, and the tool's process dies,
is busy, is removed by a failed call, is started by others and is uninstalled. A process
that died stays registered (`"dead"`), which is what makes `RestartFails` the usual case.
The back-off is counted in doublings. `tries` and `early` are history: the starts since
the counters were last cleared, not counting a loop that had counted before that.

### MeshFiles, MeshFilesProofs

Each of the subscriptions of `files.go` has an inbox served in order. `Send` puts a raw
request into the inbox of every serving node and a tool request into one; `Respond`
records the first answer and drops the others. `ResolveLocally`, `ResolveAsks`,
`ResolveAnswered`, `ResolveMisses` are the branches of `ResolveFileParams` for one
parameter (other nodes are asked when the own bucket has no such file or cannot be read),
`HandlerRuns` and `HandlerReturns` the handler with its deferred cleanup. A node is at
home in a bucket: one shared bucket is what a seed and its leaves have, one each is what
servers have that are not connected. `possible` is history: what a key held since an asker
began to ask. An object is the number of the request that put it.

### Telemetry, TelemetryProofs

`Publish` is a message of `logs.>` or `events.>`; `Patterns` are the subjects that `Start`
subscribes to, one subscription each: those configured or the default, and `events.>` for
`CaptureEvents` unless that very text is among them; each takes the messages its pattern
selects (`Selected`), and a record tells by which subscription it came (`by`). `Normalize`
and `Write` (or `WriteFails`) are the two halves of `Append`, outside the lock and under it;
`Tick` is the clock. A query lists its paths (`QueryBegin`), reads them one at a time
(`QueryRead`), sorts and cuts (`QueryAnswer`). A directory or file that cannot be opened is
passed over (`QueryReadFails`, `unopened`), and so is the rest of a file behind a line
longer than the buffer (`Scanned`). Time is in ticks of UTC and a timestamp has the offset
of its zone; the date directory and the order of an answer follow what the timestamp reads.
A line after a torn one is lost with it. `Restart` keeps the files only.

### ToolStore, ServiceRelease, ServiceReleaseProofs

`ToolStore` has the directory, the environments, the configuration files and `m.tools`.
The repository's versions are numbers; `Manifest` says which name and packages each has,
and `Declared` what the manifest says of the packages: a requirements file is named there,
so two sets of packages may be declared alike, and an update compares the declarations. An
install is `InstallFetch`, `InstallClear`, `InstallPlace`, `InstallEnvironment`,
`InstallPackages`, `InstallCommit` with a step for each way out; an update `UpdatePull`,
`UpdateReload`, `UpdatePackages`; `UninstallFails` removes part of a directory and keeps
the entry; `Restart` is a crash anywhere followed by `LoadAll`. A linked tool shares a
checkout that people pull in (`WorkPulled`). `ServiceRelease` extends it with the
operator's clone and the steps of `runServiceRelease`, against the same store. The
operator may also release a clone of another branch or repository (`OtherChecked`), which
is compared with its own upstream like any other; its commit is `Elsewhere`, which no
version the node can pull contains. `unsettled` is history: the names with a failed or
unfinished operation that no later one has made up for; an update that finds nothing to do
after one that failed does not. After a rename two entries may have one directory; what an
update or uninstall does to it is counted for both. Operations on the store do not overlap
here; `NodeTools` has the handlers that do.

## 3. The runs

| Run | Instance | Shows |
|---|---|---|
| `executor` | 2 tools (one msgpack, one REPL), 2 processes, 1 operator, 1 caller | `TypeOK`, `StatusAgrees`, `NoOrphan`, `HealthLoopOwned`, `MsgpackSupervised`, `HealthLoopEnds` |
| `executor_two_starts` | 1 tool, 2 operators | *violated:* `StopLeavesNothing` |
| `seed_safety` | 3 nodes, one forced seed, 2 start times, skewed clocks, failing mDNS | `TypeOK`, `SeedRemains`, `DemotesUpward` |
| `seed_restart` | 2 nodes that crash and restart, 4 distinct start times | `SplitBrainHeals` |
| `tools_serial` | 2 streaming tools, one a persistent REPL tool; 2 good versions and one with a refused method; failing calls; 2 handlers whose requests never are for one tool (`NoOverlap`) | `ServedAsInstalled`, `NodeCallsRunOnce`, `StreamsOnce`, `RunningIsInstalled`, `RunsWhatIsServed`, `TypeOK` |
| `tools_concurrent` | 1 persistent REPL tool; a good, a half-refused and a refused version; 2 handlers that overlap, failing calls, 1 reconnect | `ServicesSaved`, `NoStraySubscription` |
| `calls_safety` | 2 nodes, a stream both answer, a cancellable call, inbox of 1, node exits | `TypeOK`, `NoSilentGap`, `StoppedForCause`, `PromiseKept` |
| `calls_live` | 1 node, 2 streams in line, tool and node exits | `CancelledEnds`, `StreamEnds` |
| `crash_monitor` | 1 tool, 2 loops, 3 retries, back-off doubled twice | `TypeOK`, `OneLoopPerTool`, `RestartsBounded`, `CancelledLoopEnds`, `CrashIsSettled` |
| `files` | 2 nodes, shared or separate buckets, 2 keys, 2 parameters, 2 requests of a client and a call | `TypeOK`, `GetIsRegular`, `AckedWriteStays`, `TempFilesRemoved` |
| `telemetry` | 1 node, overlapping patterns `>` and `events.>`, 2 zones, days of 2 ticks, 2 messages, 1 failure | `TypeOK`, `QueryExact`, `StoredOnce` |
| `release` | 2 names, 4 versions that change packages, name and requirements file, another branch, 1 fault | `StoreTypeOK`, `DiskAgrees`, `EnvironmentMatches`, `ReleasedIsDeployed` |

Ten more configurations are counterexamples to properties this code does not have; TLC
finds each in seconds, and section 5 explains them: `MCSeedTie.cfg` (`DiscoveryDemotes`),
`MCNodeToolsResurrected.cfg` (`UninstalledStaysGone`), `MCNodeToolsRepl.cfg`
(`StoppedBeforeReplaced`), `MCNodeToolsStreams.cfg` (`StreamsNeverDouble`),
`MCMeshCallsOpen.cfg` (`StreamCloses`), `MCMeshFilesAny.cfg` (`AnyNodeServes`),
`MCTelemetryRecent.cfg` (`RecentListed`), `MCTelemetryComplete.cfg` (`QueryComplete`),
`MCServiceReleaseBranch.cfg` (`ReleasedIsContained`), `MCServiceReleasePackages.cfg`
(`UpdateInstalls`).

### Bounds

* `Procs` bounds the starts of the executor. With two processes a tool is restarted,
  the other tool's start interleaves, and a call or probe can hold a process that was
  replaced; `ProcessDies` and the failing steps reach every life of both.
* `FailureCap` equals `Threshold`, the largest value the code tells apart.
* `Times` bounds the boots of `SeedElection`. Four times give two nodes two lives
  each; three nodes give a chain of demotions, a joiner and a third seed.
* `MaxRegistered` bounds the saved registrations, which only grow. Three or four are two
  or more lives of a tool, with a refused registration between good ones. `MaxReconnects`
  is 1: a second reconnect restores the same list.
* `ChanCap = 1` and `MaxChunks = 1`: a chunk and a terminal frame, of which a full inbox
  drops either. The code's 32 and the length of a stream change how often, not what.
  In `MCMeshCallsOpen.cfg` the inbox is large enough never to drop.
* `Loops` bounds the Watches: two are a loop and its successor with the same counters.
  `FailureCap` is above `MaxRetries`, so a successor that was reset can exhaust them again.
* `files`: two requests of a client and the resolution of a call meet in every order; the
  second parameter fails after the first was written. A second node is enough for a late
  copy.
* `telemetry`: producers two ticks behind UTC and a server one tick ahead lie on either side of a
  day's end; the window has any position. With two messages, which both patterns may select,
  a record waits, is torn, is cut at the limit, or lies behind a long one.
* `release`: four versions give a change of packages, a change of name, and a change of a
  requirements file that the manifest does not show; one fault is one failed step, one crash, one
  manual pull. `OperatorStops` keeps the operator out of histories with the fourth
  version, and lets who releases another clone do nothing in this one; `ServiceConfigured` sets the
  configuration of the released service only. The proofs cover the rest.

`CHECK_DEADLOCK FALSE` is said where the instance ends because its bound is used up:
no start time is left in `SeedElection`, every call has ended in `MeshCalls`, every
request was answered in `MeshFiles`, the clock has stopped in `Telemetry`, and in
`CrashMonitor` both loops have ended and the tool is uninstalled.

### Fairness

* `HealthFairness`: a probe that was sent returns (it has a timeout) and its result is
  recorded. The exit of the loop is strongly fair: with the ticker and the context
  both ready, Go's `select` picks each infinitely often.
* `ElectionFairness`: `New`, `demoteToLeaf` and spawned goroutines run to their end and
  the browse loop repeats, so a responder that keeps answering is heard.
* `LoopFairness`: the timers of a crash monitor's loop expire and its probes return, each
  of which has a timeout. Cancellation is strongly fair, for the same reason as above.
* `CallFairness`: a goroutine whose `select` has a ready case runs, NATS delivers, a
  handler that got a request runs and the tool method returns. Nothing is assumed of
  the consumer; `StreamEnds` and `StreamCloses` assume in their own text that it reads.

## 4. The proofs

Each theorem holds for every value of the constants that satisfies the module's named
assumption (`ExecutorAssumption`, `SeedElectionAssumption`, `NodeToolsAssumption`,
`MeshCallsAssumption`, `MonitorAssumption`, `FilesAssumption`, `TelemetryAssumption`,
`StoreAssumption`, `ServiceAssumption`). These say that `None` is none of the values it is
told apart from, that limits are numbers, which set is part of which, and that a call has
finitely many parameters. The proofs use the definitions the runs check; sets of tools,
processes, nodes, handlers, calls, loops and names may be infinite.

Some theorems have a hypothesis beside the specification, always about the environment and
never about the state the code keeps:

| Hypothesis | Says | Why it is needed |
|---|---|---|
| `OneOperator` | one goroutine at a time starts and stops tools | `executor_two_starts` is the counterexample |
| `"leave" \notin Faults` | no node exits | an exiting node may be the last seed |
| `[]NoOverlap` | no two requests for one tool are served at once | nothing in the code orders them (`mesh.go:799`) |
| `[]NeverReconnected` | the connection to NATS is never lost | a reconnect serves what was uninstalled, and old versions (`MCNodeToolsResurrected.cfg`) |

### ExecutorProofs

* `TypeCorrect` needs `TypeInv`: which threads and health loops hold a pointer, that a
  process about to be registered was created for its tool, and that an unused process is
  in nobody's hands.
* `StatusIsTrue`, for any number of operators and callers: `StatusAgrees` is inductive
  relative to `TypeInv`, since each step that takes a process off the map also sets Status,
  under the same lock, and `MarkReplStopped` only ever sets it to "stopped".
* `MsgpackProbed`, for any number of operators and callers. The invariant adds that
  what `healthCancels` has for a tool is a loop of that tool (`CancelOwned`), so that whoever
  cancels through it leaves the supervision of other tools alone; `StartInstall` registers a
  process and its loop in one step, and a Stop between its two steps is the exception that
  `MsgpackSupervised` names.
* `NothingOrphaned`, `EveryLoopCancellable`, under `OneOperator`. `SerialInv` adds that a
  Start that passed its test still finds no process registered (`StartsAlone`) and that a
  health loop is registered beside its process (`CancelsBesideProcs`).
* `StopIsComplete`, under `OneOperator`, is the action property `StopLeavesNothing`: by
  `SerialInv` the process that Stop takes off the map is the only live one of its tool.

### SeedElectionProofs

* `TypeCorrect`; `MeshKeepsSeed` and `DemotionsGoUpward` under `"leave" \notin Faults`.
  `SeedRemains` is not inductive; `ElectionInv` says that every node that has held the role
  has a current seed at or above it in the order of `Outranks` (`Covered`), and that
  advertisements, browse results, joins and pending demotions name such nodes only.
  Transitivity and irreflexivity of `Outranks` are lemmas.

### NodeToolsProofs

* `TypeCorrect`, and for any handlers and reconnects `LiveIsSaved` and `SubscribedIsServed`.
  Both need what `reRegisterTools` leaves behind: the services are those of the saved
  registrations that were accepted, in order. That they are a sequence and that each has
  its registration follows from an argument by a least number (`LeastNumber`).
  `SubscribedIsServed` compares counts: a registration that makes a subscription adds a
  service or is one of those given up half way, of which none is ever forgotten, and
  `UnregisterTool` takes away one service and all subscriptions.
* Under `[]NoOverlap`: `FramesOnce` and `NoOrphanProcess`. Each has an invariant over the
  handlers' program counters that says what the handler of a tool has already done to it
  (`StreamInv`, `RunInv`). `StreamInv` counts the subscriptions that `n.streamSubs` does not know
  of against the refused registrations, saved or about to be (`SpoiledSaved`).
* Under `[]NoOverlap` and `[]NeverReconnected`: `ServedOnceAsInstalled`, `CallsRunOnce` and
  `ServedCodeRuns`. `ServedInv` has one conjunct for each tool (`ToolServed`) and one for each
  phase of a handler (`HandlerServes`). A registration that was given up leaves its subscription
  until the next update or uninstall, and both take it away before anything is registered again.
  `RunsInv` adds that a tool that is served, or that a handler has started in order to serve it,
  runs the installed code: an update that left the old process running finds it in `RegisterStart`
  and serves nothing.

### MeshCallsProofs

* `TypeCorrect`, `GapOnlyAfterDrop`, `CancelledForCause` follow from one invariant, `CallInv`:
  where the caller and each serving node are (`ControlInv`), who may have been cancelled
  (`CancelInv`), what is on the way (`NetInv`), and that the frames handed over, in hand and
  waiting in the inbox, in this order, are each node's frames without repetition and, unless
  NATS dropped one or the node exited, without a gap (`PipeInv`).
* `KeepsPromise` is the refinement of `CallPromise`. Under the mapping of `PromiseKept` each
  action is a step of the abstract specification or a stutter: publishing is `Make`, handing
  over is `Hand`, which needs `PipeInv` for the order, and a caller that ends otherwise is
  `GiveUp`.

### CrashMonitorProofs

* `TypeCorrect`, and `EveryLoopReachable`: relative to the types, `OneLoopPerTool` is
  inductive, because Watch cancels the loop it replaces in the step that registers its own.
* `RestartsAreBounded`. The number of starts alone is not
  inductive: a loop that was cancelled after it counted a failure still starts the tool,
  on the counters of its successor. `AllPaid` adds the loops that are about to start a
  tool: together with the starts made they are no more than the failures counted, and
  fewer than `MaxRetries`.

### MeshFilesProofs

* `TypeCorrect` with `Control`: the calls under way have distinct numbers
  (`NumbersDistinct`), a node waits for an answer exactly when its call has asked for a file
  and has requests left for the parameters still to resolve (`NodeInv`), and what anyone
  waits for is the last it asked (`AskInv`).
* `FilesCleanedUp` is inductive relative to these, as a temporary file carries the number
  of its call.
* `GetsAreRegular`: `GetInv` follows every copy of a get until its first answer. What any
  bucket holds under the key is among `possible`, which only grows while it is asked for,
  so that even the last node to execute the request answers with one of these.
* `WritesStay` is about one shared bucket: `WriteInv` says that, unless another write of the
  key was under way when the last was sent, every copy of a write that still waits is one of
  the last (`CopiesOfLast`), so that executing it again changes nothing.

### TelemetryProofs

* `TypeCorrect`. `QueriesAreExact` has `FileInv` (a record lies in the file that its timestamp
names) and `ReadInv` (a matching record that was readable when the query began has been
collected, was passed over, or is in a file still to be read). Passed over are only the
records of a file that could not be opened and those at or behind an over-long line
(`PassedOver`). That the listed paths hold the whole window in every zone is arithmetic on
days, proved as lemmas.
* `StoresOnce`, for any patterns: a subscription stores a message once, so there are no more
records of one than patterns that select it. For each subscription the numbers of messages
in its inbox, in hand and in the files are distinct (`NumbersInv`, `OrderInv`,
`LinesDistinct`); `CountInv` compares the count of writes with the readable lines, of which
each torn file hides at most one.

### ServiceReleaseProofs

* `StoreTypeCorrect`. `OpInv` says what the operation under way relies on: what an install
  fetched has a name, what it places is there, and an update or uninstall still finds its
  entry.
* `ReleasesAreDeployed`. `UpdateInHand` follows the released commit: it was pushed, so
  `origin` contains it; while the release waits for its update, the operation on the store
  is that update and what it pulled contains the commit or cannot be read; what it
  reloaded, and so what it answered, contains it. Pushes only add to `origin`, and nobody
  else works on the store while the update is under way. The theorem is about clones of the
  branch that the node pulls; of another one the code has no comparison that could be proved.
* `TableAgrees` and `EnvironmentsMatch`. The second says of a settled tool that has been
  started that its environment was filled for a manifest that declares the same packages
  (`AsDeclared`). `DiskInv` is agreement of table, directory, files and environment for
  every settled name (`AgreeInv`) and, for the name in hand, what the phases of the
  operation so far have already established (`OpAgrees`). The lemma `StillAgrees` carries a
  name over every step that touches neither it nor the directory it points to.

### Only model-checked

Liveness, for which the prover has no rules of fairness: `HealthLoopEnds`, `SplitBrainHeals`,
`CancelledEnds`, `StreamEnds`, `CancelledLoopEnds`, `CrashIsSettled`. Every other property of
a passing run is stated by a theorem, under the hypotheses above.

## 5. Divergences

Places where the code does not do what a doc, a comment or a name of it says, or leaves
something behind. The models contain all of this behaviour, unless said otherwise.

One is a run that TLC finds violated, with an entry under `findings`:

* `executor.go:494`: two concurrent Starts of a tool leave a process Stop cannot reach
  (`executor_two_starts`).

Ten have a configuration of their own, whose property TLC violates:

* `node.go:1568`: a tie in `StartedAt` met before `n.nodeName` is set is never resolved;
  line 1561 says "lower alphabetical node name wins" (`MCSeedTie.cfg`).
* `mesh.go:689`: UnregisterTool leaves the tool in `registrations`, so the next reconnect,
  which "re-registers all saved tool registrations" (line 649), serves an uninstalled
  tool again (`MCNodeToolsResurrected.cfg`).
* `node.go:1291`: an update decides by Status whether to stop, and a late failing call of a REPL
  tool sets Status "stopped" while its process runs (`executor.go:433`). The code of a running
  tool is then replaced, and the update fails with the tool "already running"; line 12 of
  `docs/service-lifecycle.md` says that update and uninstall "stop the selected tool before
  replacing or removing it" (`MCNodeToolsRepl.cfg`).
* `node.go:1039`: when NATS refuses a stream subject, the subscriptions made before it stay live
  and do not get into `n.streamSubs`, so the next update subscribes once more; the comment at
  line 1014 says that the teardown is there lest "each frame would be delivered N times"
  (`MCNodeToolsStreams.cfg`).
* `node.go:1129`: a stream whose tool dies is never closed; the comment of Stream at
  `mesh.go:461` says that the channel is closed when "an error occurs"
  (`MCMeshCallsOpen.cfg`).
* `files.go:113`: "it doesn't matter which node handles the request", but every node with a
  file store executes a raw put; the late copy of one undoes a later write that was
  acknowledged (`MCMeshFilesAny.cfg`).
* `events.go:299`: "History returns recent events" returns the oldest ones
  (`MCTelemetryRecent.cfg`).
* `logstore.go:826`, 831 and 935: a file or a directory that cannot be opened, and everything
  behind a line of more than 1 MiB, are left out of an answer whose `truncated` flag is not set
  (`MCTelemetryComplete.cfg`).
* `manager.go:583`: requirements are compared by the name of their file, and with what the failed
  update before has already put in the table. An update that reports success keeps the old
  packages; the comment at line 494 says that it "reinstalls packages if they changed"
  (`MCServiceReleasePackages.cfg`).
* `service_release.go:223`: the clone is compared with its own upstream, never with what the node
  pulls; a release from another branch or repository is proved although its commit is nowhere on
  the node. `docs/authoring/preflight.md:102` says that service-release "proves the selected node
  actually took the update" (`MCServiceReleaseBranch.cfg`).

**Executor**

* `executor.go:433`: a call of a REPL tool that fails late sets Status "stopped" and
  cancels the probes of the process that has replaced its own.
* `executor.go:437`: a failed call counts as a failed health check, a failed probe of a REPL
  tool twice; `manager.go:27` says "Consecutive health check failures".
* `executor.go:383`: the readiness test accepts "not ready".
* `executor.go:610`: the comment says that the health checker holds the read lock while
  it probes; it releases it before.

**Crash monitor**

* `recovery.go:33`: "auto-restarts them on failure"; but a process that died by itself stays
  registered, Start answers "already running" (`recovery.go:185`), and the loop gives up.
* `recovery.go:225`: a probe of a busy tool times out and counts as a crash.
* `recovery.go:185`: a loop that was cancelled while it slept may still start the tool that
  was just unwatched.

**Nodes and tools**

* `discovery.go:299`: a peer that restarts within a browse round is still cached, so it is
  not reported; with clocks that disagree two seeds then stay.
* `node.go:1640`: a demoted seed's server opens no leaf listener; its own leaves retry an
  address nobody listens on. Not in the models, like the next two.
* `node.go:1665`: a seed that demotes to a peer that is itself demoting ends without a
  mesh client.
* `node.go:1682`: after a demotion `registerTool` fails for running persistent tools with
  "already running", so they are not on the new mesh.
* `node.go:1328`: a failed update leaves the tool stopped and unregistered.
* `executor.go:603`: an uninstall between the steps of an update leaves the process that
  the update starts, and Stop no longer finds the tool.
* `node.go:1014`: two registrations of a tool interleaved between the teardown of its
  stream subscriptions and the new ones leave both sets subscribed.
* `mesh.go:315`: when a later endpoint is refused, the node-targeted subscriptions of the
  earlier methods stay: calls sent to the node are answered by a tool that is not served.
* `mesh.go:700`: UnregisterTool stops one service; after an update and a reconnect a tool
  has two.
* `mesh.go:799`: updates are served in goroutines, so two of one tool may overlap.

**Tool store and release**

* `manager.go:127`: installing an installed tool removes its files, those of the other tool
  too when both link to one checkout.
* `manager.go:496`: after a rename the entry of the old name still points to the directory; when
  another tool was installed there, updating the old name pulls the files of the other.
* `manager.go:139`: an install that fails at its packages leaves directory and environment;
  the next start of the node loads the tool, without packages.
* `manager.go:536`: an update that fails at its packages has replaced the manifest; the next
  one finds nothing changed and reports success. `manager.go:687` is the same on first use.
* `toolconfig.go:56`: `config.json` lies in the tool's checkout, which is dirty from then
  on, and a release of that tool is refused.
* `service_release.go:275`: the inspection after the update is written to the proof but never
  compared with the commit that was released.

**Calls and files**

* `node.go:1105`: a cancel message that arrives while the request waits in line is lost.
* `node.go:1037`: the "load-balanced" stream subject is a plain subscription; every node
  that serves the tool answers.
* `file_resolve.go:132`: a resolution that fails returns no cleanup, so the files of the
  parameters resolved before it stay on disk.
* `files.go:113`: with separate buckets the "not found" of one node may come before the file
  of another.

**Logs**

* `logstore.go:844`: records are ordered by the text of their timestamps; with several
  zones the limit may cut a newer record than one it keeps.
* `logstore.go:754`: Stats drops the flag that its counts were truncated.
* `logstore.go:670`: patterns are compared as strings, so a message that two of them select is
  stored twice.
* `logstore.go:42`: `RetentionDays` and `MaxBytes` are read by nothing; nothing is deleted.

## 6. Not modelled

* Data races. The Go memory model gives `healthCancels` outside its lock, `m.tools` in
  concurrent handlers, and `n.mesh` during a demotion no outcome; accesses are atomic here.
* What a demotion does to tools and to the old seed's leaves (`node.go:1624` on).
  `SeedElection` has the change of role; the consequences are listed above.
* Malformed messages, more than one refused method of a manifest, and the choice of a peer's
  address are left out of their modules; redaction, truncation of long fields and the log health
  service of `Telemetry`; overlapping operations on the store of `ToolStore`.
* The node's copies of a tool all come from one branch of one repository; `Elsewhere` stands for
  every other one. What a virtual environment becomes when the Python version changes is
  jumpboot's.
* `pkg/state` is a thin layer over one JetStream bucket whose guarantees are those of NATS.
* `preflight.go` and `logs_cmd.go` read and report; `release_targets.go` is a lookup.
  Command line, configuration loading, version comparison, NATS options, console logging and
  the Go SDK façade have no state over time.
* The Python SDK is the other end of the executor's pipe. The executor's modules let a
  process answer, fail, hang or die at any moment, which contains what the SDK can do.

`PROJECT.json` gives the reason for each under `components`.

## 7. Plan

Done: all modules of section 2 and the proofs of all their safety properties.

Left, in this order:

1. Lemmas that several proof modules have each for themselves (distinct numbers in
   sequences, counting what is in a set of places) in a module of their own.
2. An abstract specification of a node's tools (install, update, uninstall, serve) that
   `NodeTools` implements under the hypotheses of `ServedOnceAsInstalled`.
3. A `Demotion` module over `NodeTools`: the new mesh client and the running tools.
