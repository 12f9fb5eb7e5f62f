------------------------------ MODULE NodeTools ------------------------------
(***************************************************************************)
(* The tools of one node and their registrations in the mesh: InstallTool, *)
(* UpdateTool, UninstallTool, HandleConfig and registerTool of             *)
(* pkg/node/node.go over RegisterTool, UnregisterTool and reRegisterTools  *)
(* of pkg/mesh/mesh.go.                                                    *)
(*                                                                         *)
(* Handlers are the goroutines that serve management requests: install and *)
(* update requests get one each, so any number of them may run at once.    *)
(* The executor appears through what these handlers read of it, whether a  *)
(* process is registered and what Tool.Status says (module Executor).      *)
(* Of a tool's methods the model follows one that micro and NATS accept,   *)
(* and a streaming one if there is any.  A manifest may have another that  *)
(* they refuse; methods are registered in the order of a Go map, so the    *)
(* refused one comes before or after the one that is followed.             *)
(***************************************************************************)
EXTENDS Naturals, FiniteSets, Sequences, SequencesExt

CONSTANTS
  Tools,          \* tool names
  Persistent,     \* those with runtime mode "persistent"
  Repl,           \* persistent tools with the REPL transport
  Streaming,      \* tools with a streaming method
  Versions,       \* manifest versions
  Rejected,       \* those micro.AddService refuses, for their name or version
  BadMethods,     \* those with a method that AddEndpoint refuses
  BadStreams,     \* and those where NATS refuses its stream subject as well
  Handlers,       \* goroutines serving management requests
  MaxRegistered,  \* bound on the saved registrations
  MaxReconnects,  \* bound on NATS reconnects
  None            \* no tool, no version

ASSUME NodeToolsAssumption ==
  /\ Repl \subseteq Persistent
  /\ Persistent \subseteq Tools
  /\ Streaming \subseteq Tools
  /\ Rejected \subseteq Versions
  /\ BadMethods \subseteq Versions \ Rejected
  /\ BadStreams \subseteq BadMethods
  /\ None \notin Tools
  /\ None \notin Versions
  /\ MaxRegistered \in Nat
  /\ MaxReconnects \in Nat

VARIABLES
  installed,     \* m.tools of the manager: the manifest version, or None
  files,         \* the tool's directory (or link) exists under ToolsDir
  running,       \* the executor has a process registered for the tool
  status,        \* Tool.Status
  code,          \* the version the latest process of the tool was started from
  services,      \* m.services: the live micro services, oldest first
  nodeSubs,      \* m.nodeSubs: live node-targeted subscriptions of a tool
  registrations, \* m.registrations, saved for reconnects
  streamLive,    \* live subscriptions to a tool's ".stream" subjects
  streamOwned,   \* those n.streamSubs knows of
  reconnects,    \* NATS reconnects so far
  pc,            \* where each handler is
  arg,           \* the tool it works on
  ver            \* the manifest version it registers

managerVars == <<installed, files>>
execVars == <<running, status, code>>
meshVars == <<services, nodeSubs, registrations>>
streamVars == <<streamLive, streamOwned>>
threadVars == <<pc, arg, ver>>
vars == <<managerVars, execVars, meshVars, streamVars, reconnects, threadVars>>

Goto(h, label) == pc' = [pc EXCEPT ![h] = label]

Return(h) ==
  /\ pc' = [pc EXCEPT ![h] = "idle"]
  /\ arg' = [arg EXCEPT ![h] = None]
  /\ ver' = [ver EXCEPT ![h] = None]

Begin(h, t, label) ==
  /\ pc[h] = "idle"
  /\ pc' = [pc EXCEPT ![h] = label]
  /\ arg' = [arg EXCEPT ![h] = t]
  /\ UNCHANGED ver

\* Room for the registration every install or update under way may still save.
RoomToRegister ==
  Len(registrations) + Cardinality({h \in Handlers : pc[h] # "idle"}) < MaxRegistered

Registration(t, v) == [tool |-> t, version |-> v]

Init ==
  /\ installed = [t \in Tools |-> None]
  /\ files = [t \in Tools |-> FALSE]
  /\ running = [t \in Tools |-> FALSE]
  /\ status = [t \in Tools |-> "stopped"]
  /\ code = [t \in Tools |-> None]
  /\ services = <<>>
  /\ nodeSubs = [t \in Tools |-> 0]
  /\ registrations = <<>>
  /\ streamLive = [t \in Tools |-> 0]
  /\ streamOwned = [t \in Tools |-> 0]
  /\ reconnects = 0
  /\ pc = [h \in Handlers |-> "idle"]
  /\ arg = [h \in Handlers |-> None]
  /\ ver = [h \in Handlers |-> None]

-----------------------------------------------------------------------------
(* The operations of the mesh, each under m.mu.                            *)

\* The node-targeted subscription is made, or Subscribe fails, which is only a
\* warning; or it is not reached.
SubscribeNode(t) == \E made \in 0 .. 1 : nodeSubs' = [nodeSubs EXCEPT ![t] = @ + made]

\* Faulty variant: the registration is not saved.
RegisterToolUnsaved(t, v) ==
  /\ UNCHANGED registrations
  /\ IF v \in Rejected THEN UNCHANGED nodeSubs ELSE SubscribeNode(t)
  /\ services' = IF v \in Rejected \cup BadMethods THEN services
                 ELSE Append(services, Registration(t, v))

\* Faulty variant: the subscription is made whether or not micro accepts.
RegisterToolSubscribesFirst(t, v) ==
  /\ registrations' = Append(registrations, Registration(t, v))
  /\ SubscribeNode(t)
  /\ services' = IF v \in Rejected \cup BadMethods THEN services
                 ELSE Append(services, Registration(t, v))

\* RegisterTool: the registration is saved before micro accepts the service.
\* An endpoint that is refused stops the service; the node-targeted
\* subscriptions of the methods before it stay.
RegisterTool(t, v) ==
  /\ registrations' = Append(registrations, Registration(t, v))
  /\ IF v \in Rejected THEN UNCHANGED nodeSubs ELSE SubscribeNode(t)
  /\ services' = IF v \in Rejected \cup BadMethods THEN services
                 ELSE Append(services, Registration(t, v))

\* Faulty variant: the node-targeted subscriptions are left in place.
UnregisterToolKeepsSubs(t) ==
  LET mine == {i \in DOMAIN services : services[i].tool = t}
  IN /\ services' = IF mine = {} THEN services
                    ELSE RemoveAt(services, CHOOSE i \in mine : \A j \in mine : i <= j)
     /\ UNCHANGED <<nodeSubs, registrations>>

\* UnregisterTool: the first service of that name, every node-targeted
\* subscription of the tool, and none of the saved registrations.
UnregisterTool(t) ==
  LET mine == {i \in DOMAIN services : services[i].tool = t}
  IN /\ services' = IF mine = {} THEN services
                    ELSE RemoveAt(services, CHOOSE i \in mine : \A j \in mine : i <= j)
     /\ nodeSubs' = [nodeSubs EXCEPT ![t] = 0]
     /\ UNCHANGED registrations

\* The services that come up of those saved in s, in the order they were saved.
Accepted(s) ==
  LET accepted[i \in 0 .. Len(s)] ==
        IF i = 0 THEN <<>>
        ELSE IF s[i].version \in Rejected \cup BadMethods THEN accepted[i - 1]
        ELSE Append(accepted[i - 1], s[i])
  IN accepted[Len(s)]

\* The places in s of the registrations of tool t.
PlacesOf(s, t) == {i \in DOMAIN s : s[i].tool = t}

\* Those saved of tool t that RegisterTool gave up in the middle.
HalfRegistered(t) ==
  {j \in PlacesOf(registrations, t) : registrations[j].version \in BadMethods}

\* reRegisterTools: everything live is replaced by what was saved, each
\* registration with its node-targeted subscription or, as above, without.
ReRegisterTools ==
  IF registrations = <<>>
    THEN UNCHANGED meshVars
    ELSE /\ services' = Accepted(registrations)
         /\ nodeSubs' \in [Tools -> 0 .. Len(registrations)]
         /\ \A t \in Tools :
              nodeSubs'[t] <= Cardinality(PlacesOf(services', t))
                                + Cardinality(HalfRegistered(t))
         /\ UNCHANGED registrations

Reconnect ==
  /\ reconnects < MaxReconnects
  /\ reconnects' = reconnects + 1
  /\ ReRegisterTools
  /\ UNCHANGED <<managerVars, execVars, streamVars, threadVars>>

-----------------------------------------------------------------------------
(* registerTool, reached from InstallTool and UpdateTool.                  *)

\* The executor starts the process of a persistent tool.
StartProcess(t) ==
  /\ installed[t] # None
  /\ ~running[t]
  /\ running' = [running EXCEPT ![t] = TRUE]
  /\ status' = [status EXCEPT ![t] = "running"]
  /\ code' = [code EXCEPT ![t] = installed[t]]

StopProcess(t) ==
  /\ running' = [running EXCEPT ![t] = FALSE]
  /\ status' = [status EXCEPT ![t] = "stopped"]
  /\ UNCHANGED code

\* Faulty variant: a tool that is "already running" counts as started.
RegisterStartTolerant(h) ==
  /\ pc[h] = "register"
  /\ IF arg[h] \in Persistent /\ ~running[arg[h]] THEN StartProcess(arg[h])
     ELSE UNCHANGED execVars
  /\ Goto(h, "streams")
  /\ UNCHANGED <<managerVars, meshVars, streamVars, reconnects, arg, ver>>

RegisterStart(h) ==
  /\ pc[h] = "register"
  /\ IF arg[h] \in Persistent THEN StartProcess(arg[h]) ELSE UNCHANGED execVars
  /\ Goto(h, "streams")
  /\ UNCHANGED <<managerVars, meshVars, streamVars, reconnects, arg, ver>>

\* The manifest has no methods; or a persistent tool does not start: it is gone,
\* it is "already running", or the process does not come up.  Nothing is
\* registered.
RegisterStartFails(h) ==
  /\ pc[h] = "register"
  /\ Return(h)
  /\ UNCHANGED <<managerVars, execVars, meshVars, streamVars, reconnects>>

\* unregisterStreamingSubjects: what the map knows of is unsubscribed.
DropStreams(t) ==
  /\ streamLive' = [streamLive EXCEPT ![t] = @ - streamOwned[t]]
  /\ streamOwned' = [streamOwned EXCEPT ![t] = 0]

\* Faulty variant: the earlier subscriptions are not torn down first.
RegisterDropStreamsSkipped(h) ==
  /\ pc[h] = "streams"
  /\ Goto(h, "subscribe")
  /\ UNCHANGED <<managerVars, execVars, meshVars, streamVars, reconnects, arg, ver>>

RegisterDropStreams(h) ==
  /\ pc[h] = "streams"
  /\ DropStreams(arg[h])
  /\ Goto(h, "subscribe")
  /\ UNCHANGED <<managerVars, execVars, meshVars, reconnects, arg, ver>>

\* New subscriptions; the map entry is overwritten with them.  When Subscribe
\* fails, those already made stay and do not get into the map; the error is
\* only logged.
RegisterSubscribe(h) ==
  /\ pc[h] = "subscribe"
  /\ IF arg[h] \notin Streaming
       THEN UNCHANGED streamVars
     ELSE IF ver[h] \in BadStreams
       THEN /\ \E made \in 0 .. 1 : streamLive' = [streamLive EXCEPT ![arg[h]] = @ + made]
            /\ UNCHANGED streamOwned
       ELSE /\ streamLive' = [streamLive EXCEPT ![arg[h]] = @ + 1]
            /\ streamOwned' = [streamOwned EXCEPT ![arg[h]] = 1]
  /\ Goto(h, "mesh")
  /\ UNCHANGED <<managerVars, execVars, meshVars, reconnects, arg, ver>>

RegisterMesh(h) ==
  /\ pc[h] = "mesh"
  /\ RegisterTool(arg[h], ver[h])
  /\ Return(h)
  /\ UNCHANGED <<managerVars, execVars, streamVars, reconnects>>

-----------------------------------------------------------------------------
(* InstallTool.                                                            *)

\* manager.Install has fetched the tool into ToolsDir, replacing what was
\* there, has found no tool of that name, and builds its environment.
InstallBegin(h, t) ==
  /\ RoomToRegister
  /\ installed[t] = None
  /\ Begin(h, t, "install")
  /\ files' = [files EXCEPT ![t] = TRUE]
  /\ UNCHANGED <<installed, execVars, meshVars, streamVars, reconnects>>

\* The tool is "already installed": what was fetched is removed again, by a
\* path that is the installed tool's own.
InstallDuplicate(h, t) ==
  /\ pc[h] = "idle"
  /\ installed[t] # None
  /\ files' = [files EXCEPT ![t] = FALSE]
  /\ UNCHANGED <<installed, execVars, meshVars, streamVars, reconnects, threadVars>>

\* The environment or the setup fails, and the directory is removed; or the
\* packages do, and it stays.
InstallFails(h) ==
  /\ pc[h] = "install"
  /\ \E kept \in BOOLEAN : files' = [files EXCEPT ![arg[h]] = @ /\ kept]
  /\ Return(h)
  /\ UNCHANGED <<installed, execVars, meshVars, streamVars, reconnects>>

\* Faulty variant: the version is not carried to the registration.
InstallCommitNoVersion(h) ==
  /\ pc[h] = "install"
  /\ \E v \in Versions : installed' = [installed EXCEPT ![arg[h]] = v]
  /\ status' = [status EXCEPT ![arg[h]] = "stopped"]
  /\ Goto(h, "register")
  /\ UNCHANGED <<files, running, code, meshVars, streamVars, reconnects, arg, ver>>

\* The new Tool enters m.tools, with Status "stopped".
InstallCommit(h) ==
  /\ pc[h] = "install"
  /\ \E v \in Versions :
       /\ installed' = [installed EXCEPT ![arg[h]] = v]
       /\ ver' = [ver EXCEPT ![h] = v]
  /\ status' = [status EXCEPT ![arg[h]] = "stopped"]
  /\ Goto(h, "register")
  /\ UNCHANGED <<files, running, code, meshVars, streamVars, reconnects, arg>>

-----------------------------------------------------------------------------
(* UpdateTool.                                                             *)

\* Faulty variant: the update does not look whether the tool runs.
UpdateBeginNeverStops(h, t) ==
  /\ RoomToRegister
  /\ installed[t] # None
  /\ Begin(h, t, "update.unregister")
  /\ UNCHANGED <<managerVars, execVars, meshVars, streamVars, reconnects>>

\* Whether there is something to stop is read from Tool.Status.
UpdateBegin(h, t) ==
  /\ RoomToRegister
  /\ installed[t] # None
  /\ Begin(h, t, IF status[t] = "running" THEN "update.stop" ELSE "update.unregister")
  /\ UNCHANGED <<managerVars, execVars, meshVars, streamVars, reconnects>>

\* Stop, or ForceKill when Stop fails or takes too long.
UpdateStop(h) ==
  /\ pc[h] = "update.stop"
  /\ StopProcess(arg[h])
  /\ Goto(h, "update.unregister")
  /\ UNCHANGED <<managerVars, meshVars, streamVars, reconnects, arg, ver>>

\* Faulty variant: the old version stays registered.
UpdateUnregisterSkipped(h) ==
  /\ pc[h] = "update.unregister"
  /\ Goto(h, "update.load")
  /\ UNCHANGED <<managerVars, execVars, meshVars, streamVars, reconnects, arg, ver>>

UpdateUnregister(h) ==
  /\ pc[h] = "update.unregister"
  /\ UnregisterTool(arg[h])
  /\ Goto(h, "update.load")
  /\ UNCHANGED <<managerVars, execVars, streamVars, reconnects, arg, ver>>

\* manager.Update pulls and loads the new manifest.
UpdateLoad(h) ==
  /\ pc[h] = "update.load"
  /\ installed[arg[h]] # None
  /\ files[arg[h]]
  /\ \E v \in Versions :
       /\ installed' = [installed EXCEPT ![arg[h]] = v]
       /\ ver' = [ver EXCEPT ![h] = v]
  /\ Goto(h, "register")
  /\ UNCHANGED <<files, execVars, meshVars, streamVars, reconnects, arg>>

\* The tool is gone, or the pull or the manifest fails; or the packages do,
\* when the new manifest is already in place.  The update returns, with the
\* tool stopped and unregistered.
UpdateFails(h) ==
  /\ pc[h] = "update.load"
  /\ \/ UNCHANGED installed
     \/ /\ installed[arg[h]] # None
        /\ files[arg[h]]
        /\ \E v \in Versions : installed' = [installed EXCEPT ![arg[h]] = v]
  /\ Return(h)
  /\ UNCHANGED <<files, execVars, meshVars, streamVars, reconnects>>

-----------------------------------------------------------------------------
(* UninstallTool: every step is taken, whatever the ones before returned.  *)

\* Faulty variant: the tool is not stopped.
UninstallStopSkipped(h, t) ==
  /\ Begin(h, t, "uninstall.unregister")
  /\ UNCHANGED <<managerVars, execVars, meshVars, streamVars, reconnects>>

UninstallStop(h, t) ==
  /\ Begin(h, t, "uninstall.unregister")
  /\ IF installed[t] # None /\ running[t] THEN StopProcess(t) ELSE UNCHANGED execVars
  /\ UNCHANGED <<managerVars, meshVars, streamVars, reconnects>>

UninstallUnregister(h) ==
  /\ pc[h] = "uninstall.unregister"
  /\ UnregisterTool(arg[h])
  /\ Goto(h, "uninstall.streams")
  /\ UNCHANGED <<managerVars, execVars, streamVars, reconnects, arg, ver>>

UninstallStreams(h) ==
  /\ pc[h] = "uninstall.streams"
  /\ DropStreams(arg[h])
  /\ Goto(h, "uninstall.remove")
  /\ UNCHANGED <<managerVars, execVars, meshVars, reconnects, arg, ver>>

\* manager.Uninstall; removing the directory may fail.
UninstallRemove(h) ==
  /\ pc[h] = "uninstall.remove"
  /\ \/ /\ installed' = [installed EXCEPT ![arg[h]] = None]
        /\ files' = IF installed[arg[h]] = None THEN files
                    ELSE [files EXCEPT ![arg[h]] = FALSE]
     \/ UNCHANGED managerVars
  /\ Return(h)
  /\ UNCHANGED <<execVars, meshVars, streamVars, reconnects>>

-----------------------------------------------------------------------------
(* HandleConfig "set" of a running persistent tool restarts it.            *)

ConfigBegin(h, t) ==
  /\ t \in Persistent
  /\ installed[t] # None
  /\ status[t] = "running"
  /\ Begin(h, t, "config.stop")
  /\ UNCHANGED <<managerVars, execVars, meshVars, streamVars, reconnects>>

\* Stop; when it fails the handler returns.
ConfigStop(h) ==
  LET t == arg[h]
  IN /\ pc[h] = "config.stop"
     /\ IF installed[t] # None /\ running[t]
          THEN /\ StopProcess(t)
               /\ Goto(h, "config.start")
               /\ UNCHANGED <<arg, ver>>
          ELSE /\ Return(h)
               /\ UNCHANGED execVars
     /\ UNCHANGED <<managerVars, meshVars, streamVars, reconnects>>

\* Start; the handler returns whether or not it succeeds.
ConfigStart(h) ==
  /\ pc[h] = "config.start"
  /\ StartProcess(arg[h]) \/ UNCHANGED execVars
  /\ Return(h)
  /\ UNCHANGED <<managerVars, meshVars, streamVars, reconnects>>

-----------------------------------------------------------------------------
\* A failing call of a REPL tool (module Executor, MarkReplStopped): its
\* process is unregistered, or, when the call went to an earlier process, only
\* Status changes.
CallFails(t) ==
  /\ t \in Repl
  /\ running[t]
  /\ running' \in {running, [running EXCEPT ![t] = FALSE]}
  /\ status' = [status EXCEPT ![t] = "stopped"]
  /\ UNCHANGED <<managerVars, code, meshVars, streamVars, reconnects, threadVars>>

RegisterStep(h) ==
  \/ RegisterStart(h)
  \/ RegisterStartFails(h)
  \/ RegisterDropStreams(h)
  \/ RegisterSubscribe(h)
  \/ RegisterMesh(h)

InstallStep(h) ==
  \/ \E t \in Tools : InstallBegin(h, t) \/ InstallDuplicate(h, t)
  \/ InstallFails(h)
  \/ InstallCommit(h)

UpdateStep(h) ==
  \/ \E t \in Tools : UpdateBegin(h, t)
  \/ UpdateStop(h)
  \/ UpdateUnregister(h)
  \/ UpdateLoad(h)
  \/ UpdateFails(h)

UninstallStep(h) ==
  \/ \E t \in Tools : UninstallStop(h, t)
  \/ UninstallUnregister(h)
  \/ UninstallStreams(h)
  \/ UninstallRemove(h)

ConfigStep(h) ==
  \/ \E t \in Tools : ConfigBegin(h, t)
  \/ ConfigStop(h)
  \/ ConfigStart(h)

Next ==
  \/ \E h \in Handlers :
       \/ RegisterStep(h)
       \/ InstallStep(h)
       \/ UpdateStep(h)
       \/ UninstallStep(h)
       \/ ConfigStep(h)
  \/ \E t \in Tools : CallFails(t)
  \/ Reconnect

Spec == Init /\ [][Next]_vars

-----------------------------------------------------------------------------
(* Properties.                                                             *)

Registrations == [tool : Tools, version : Versions]
Labels == {"idle", "register", "streams", "subscribe", "mesh", "install",
           "update.stop", "update.unregister", "update.load",
           "uninstall.unregister", "uninstall.streams", "uninstall.remove",
           "config.stop", "config.start"}

\* Every variable of the node has its type.
TypeOK ==
  /\ installed \in [Tools -> Versions \cup {None}]
  /\ files \in [Tools -> BOOLEAN]
  /\ running \in [Tools -> BOOLEAN]
  /\ status \in [Tools -> {"stopped", "running"}]
  /\ code \in [Tools -> Versions \cup {None}]
  /\ services \in Seq(Registrations)
  /\ nodeSubs \in [Tools -> Nat]
  /\ registrations \in Seq(Registrations)
  /\ streamLive \in [Tools -> Nat]
  /\ streamOwned \in [Tools -> {0, 1}]
  /\ reconnects \in Nat
  /\ pc \in [Handlers -> Labels]
  /\ arg \in [Handlers -> Tools \cup {None}]
  /\ ver \in [Handlers -> Versions \cup {None}]

ServicesOf(t) == PlacesOf(services, t)
Idle(t) == \A h \in Handlers : arg[h] # t

\* The registrations of t that left a stream subscription nobody knows of: one
\* for each time a manifest was registered whose stream subjects NATS refuses.
Registering(t) == {h \in Handlers : pc[h] = "mesh" /\ arg[h] = t}
Spoiled(t) ==
  {j \in PlacesOf(registrations, t) : registrations[j].version \in BadStreams}
SpoiledNow(t) == {h \in Registering(t) : ver[h] \in BadStreams}

\* No two management requests for the same tool overlap: a constraint of some
\* runs, and a hypothesis of some theorems, as the code does not see to it.
NoOverlap == \A g, h \in Handlers : arg[g] = arg[h] /\ arg[g] # None => g = h

\* Every live service is saved for the next reconnect, however installs,
\* updates, uninstalls and reconnects interleave: no tool that answers now is
\* lost when the connection to NATS drops (registerToolLocked).
ServicesSaved ==
  \A i \in DOMAIN services :
    \E j \in DOMAIN registrations : registrations[j] = services[i]

\* A node-targeted subscription came with a live service of its tool or with a
\* registration that failed at a later endpoint, never more than one with each,
\* however many handlers register and unregister the tool at once and whenever
\* NATS reconnects (UnregisterTool takes away one service but every
\* subscription).  A manifest that micro refuses outright leaves none.
NoStraySubscription ==
  \A t \in Tools :
    nodeSubs[t] <= Cardinality(ServicesOf(t)) + Cardinality(HalfRegistered(t))

\* A tool is served at most once, at the version the manager has for it, and
\* not at all once it is uninstalled (UpdateTool, UninstallTool).
\* (No two requests for one tool at a time, before any reconnect.)
ServedAsInstalled ==
  \A t \in Tools :
    /\ Cardinality(ServicesOf(t)) <= 1
    /\ \A i \in ServicesOf(t) : services[i].version = installed[t]

\* A call sent to this node runs once, whatever registrations failed before:
\* a tool has one node-targeted subscription at most, and none once it is
\* uninstalled, though one may be left of a registration that was given up.
\* (No two requests for one tool at a time, before any reconnect.)
NodeCallsRunOnce ==
  \A t \in Tools :
    /\ nodeSubs[t] <= 1
    /\ installed[t] = None => nodeSubs[t] = 0

\* A frame of a streaming call is delivered once more for each registration
\* that failed at a later stream subject, and not otherwise: no update, failed
\* start or uninstall leaves a subscription behind
\* (registerStreamingSubjects: without the teardown "we'd accumulate duplicate
\* subscribers on the same subject and each frame would be delivered N times").
\* (No two requests for one tool at a time.)
StreamsOnce ==
  \A t \in Tools :
    streamLive[t] <= 1 + Cardinality(Spoiled(t)) + Cardinality(SpoiledNow(t))

\* A process runs for an installed tool only: what Uninstall leaves behind
\* could not be stopped, Stop not finding the tool any more.
\* (docs/service-lifecycle.md: update and uninstall "stop the selected tool
\* before replacing or removing it".)
\* (No two requests for one tool at a time.)
RunningIsInstalled ==
  \A t \in Tools : running[t] => installed[t] # None

\* A tool that is served and runs, runs the code of the version it is served
\* as, the installed one.  An update that takes Tool.Status at its word does not
\* stop a REPL tool whose status a late call has set to "stopped"; it must then
\* not serve the new version over the old process (registerTool: Start finds
\* the tool "already running" and nothing is registered).
\* (No two requests for one tool at a time, before any reconnect.)
RunsWhatIsServed ==
  \A t \in Tools : ServicesOf(t) # {} /\ running[t] => code[t] = installed[t]

\* An update replaces the code of a tool that is not running
\* (docs/service-lifecycle.md, the sentence above): not so for REPL tools.
StoppedBeforeReplaced ==
  [][\A h \in Handlers :
       pc[h] = "update.load" /\ pc'[h] = "register" => ~running[arg[h]]]_vars

\* What the comment of registerStreamingSubjects promises, without the excuse
\* of StreamsOnce: not so after a stream subject was refused.
StreamsNeverDouble == \A t \in Tools : streamLive[t] <= 1

\* After UnregisterTool "removes a tool's service registration from the mesh"
\* a tool that is not installed stays off it.
UninstalledStaysGone ==
  \A t \in Tools : installed[t] = None /\ Idle(t) => ServicesOf(t) = {}
=============================================================================
