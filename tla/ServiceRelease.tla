---------------------------- MODULE ServiceRelease ----------------------------
(***************************************************************************)
(* jb-mesh service-release (cmd/jb-mesh/service_release.go) against a node *)
(* whose tools others install, update, configure and uninstall at the same *)
(* time (ToolStore).                                                       *)
(*                                                                         *)
(* The operator has a clone of the repository: its commit, and the commit  *)
(* of the upstream branch that git fetched last.  The release compares     *)
(* these two, inspects the deployed checkout over the mesh, has the node   *)
(* update the tool, inspects it again, calls health and smoke methods and  *)
(* writes a proof.  Each of these is a step, any of them may fail or time  *)
(* out, and the node does not know that they belong together.              *)
(*                                                                         *)
(* The commits of the branch that the node pulls are numbered: nobody else *)
(* pushes to it while the operator has a commit that is not pushed.  The   *)
(* release does not ask whether the clone follows that branch: a commit of *)
(* any other branch or repository is Elsewhere.                            *)
(***************************************************************************)
EXTENDS ToolStore

CONSTANT
  Service  \* the tool that the operator releases

ASSUME ServiceAssumption == Service \in Names

VARIABLES
  local,    \* commit of the operator's clone
  fetched,  \* commit of its upstream branch, as of the last fetch
  rel       \* the release under way, or the proof of the last one

releaseVars == <<local, fetched, rel>>
vars == <<storeVars, releaseVars>>

NoRelease == [phase |-> "none"]
Elsewhere == 0

\* What the node pulled at version v has the commit in it.
Contains(v, commit) == commit \in 1 .. v

ReleaseInit ==
  /\ Init
  /\ local = 1
  /\ fetched = 1
  /\ rel = NoRelease

-----------------------------------------------------------------------------
(* The operator's clone.                                                   *)

Commit ==
  /\ local = origin
  /\ local < MaxVersion
  /\ local' = local + 1
  /\ UNCHANGED <<storeVars, fetched, rel>>

Push ==
  /\ local > origin
  /\ origin' = local
  /\ fetched' = local
  /\ UNCHANGED <<work, diskVars, entry, op, faults, unsettled, local, rel>>

Fetch ==
  /\ fetched < origin
  /\ fetched' = origin
  /\ UNCHANGED <<storeVars, local, rel>>

\* A merge of what was fetched, with or without a fetch before it.
Merge ==
  /\ local < fetched
  /\ local' = fetched
  /\ UNCHANGED <<storeVars, fetched, rel>>

-----------------------------------------------------------------------------
(* The steps of runServiceRelease.                                         *)

Phase(phase) == rel.phase = phase

Keeps == UNCHANGED <<local, fetched>>

\* What InspectGitCheckout counts, without a fetch.
Ahead == local > fetched
Behind == local < fetched

\* Faulty variant: commits that were not pushed do not stop the release.
LocalCheckedBehindOnly ==
  /\ Phase("none") \/ Phase("released")
  /\ ~Behind
  /\ rel' = [phase |-> "checked", version |-> local]
  /\ UNCHANGED storeVars
  /\ Keeps

\* A clone that is dirty, or has no upstream, is refused; so is one that is
\* not in sync with what was fetched.
LocalChecked ==
  /\ Phase("none") \/ Phase("released")
  /\ ~Ahead
  /\ ~Behind
  /\ rel' = [phase |-> "checked", version |-> local]
  /\ UNCHANGED storeVars
  /\ Keeps

\* A clone of another branch, or of another repository than the tool was
\* installed from, is compared with its own upstream as well, and nothing
\* relates that to what the node pulls.
OtherChecked ==
  /\ Phase("none") \/ Phase("released")
  /\ rel' = [phase |-> "checked", version |-> Elsewhere]
  /\ UNCHANGED storeVars
  /\ Keeps

\* InspectRelease: the repository state is missing when git cannot read the
\* directory.
Inspectable == entry[Service] # None /\ dir[entry[Service].path] # None

\* config.json is not in the repository, nor ignored; a copy that stopped
\* half way misses files.
Dirty ==
  LET p == entry[Service].path
  IN Place(p) \in conf \/ ~dir[p].whole

InspectedBefore ==
  /\ Phase("checked")
  /\ Inspectable
  /\ ~Dirty
  /\ rel' = [rel EXCEPT !.phase = "inspected"]
  /\ UNCHANGED storeVars
  /\ Keeps

RequestUpdate(clean) ==
  /\ Phase("inspected")
  /\ UpdatePull(Service, clean)
  /\ rel' = [rel EXCEPT !.phase = "updating"]
  /\ Keeps

\* The update under way is the one that the release asked for: no other one
\* begins before it ends.
UpdateSucceeds ==
  /\ UpdateReload \/ UpdatePackages
  /\ rel' = IF Phase("updating") /\ op' = Idle
              THEN [phase |-> "updated", version |-> rel.version,
                    new |-> entry'[Service].version]
              ELSE rel
  /\ Keeps

UpdateErrs ==
  /\ UpdateRefused \/ UpdatePackagesFail
  /\ rel' = IF Phase("updating") THEN NoRelease ELSE rel
  /\ Keeps

\* What the second inspection finds is written down, not compared.
InspectedAfter ==
  /\ Phase("updated")
  /\ entry[Service] # None
  /\ rel' = [rel EXCEPT !.phase = "after"]
  /\ UNCHANGED storeVars
  /\ Keeps

HealthCalled ==
  /\ Phase("after")
  /\ entry[Service] # None
  /\ rel' = [rel EXCEPT !.phase = "healthy"]
  /\ UNCHANGED storeVars
  /\ Keeps

\* The smoke call is the last step; the proof is written.
SmokeCalled ==
  /\ Phase("healthy")
  /\ entry[Service] # None
  /\ rel' = [rel EXCEPT !.phase = "released"]
  /\ UNCHANGED storeVars
  /\ Keeps

\* A request fails or is not answered in time.  The update may go on.
GivesUp ==
  /\ rel.phase \notin {"none", "released"}
  /\ rel' = NoRelease
  /\ UNCHANGED storeVars
  /\ Keeps

\* The reply to an update that was under way is lost with the node.
NodeRestarts ==
  /\ Restart
  /\ rel' = IF Phase("updating") THEN NoRelease ELSE rel
  /\ Keeps

OthersPush ==
  /\ local <= origin
  /\ Pushed
  /\ UNCHANGED releaseVars

-----------------------------------------------------------------------------

OperatorNext ==
  \/ Commit
  \/ Push
  \/ Fetch
  \/ Merge
  \/ LocalChecked
  \/ OtherChecked
  \/ InspectedBefore
  \/ \E clean \in BOOLEAN : RequestUpdate(clean)
  \/ InspectedAfter
  \/ HealthCalled
  \/ SmokeCalled
  \/ GivesUp

OthersNext ==
  /\ \/ WorkPulled
     \/ \E kind \in {"link", "clone"} : InstallFetch(kind)
     \/ InstallStep
     \/ \E n \in Names, clean \in BOOLEAN : UpdatePull(n, clean)
     \/ \E n \in Names : UninstallRemoves(n) \/ UninstallFails(n) \/ Ensure(n) \/ EnsureFails(n) \/ ConfigSet(n)
     \/ \E removeEnv \in BOOLEAN : UninstallEnds(removeEnv)
  /\ UNCHANGED releaseVars

Next ==
  \/ OperatorNext
  \/ OthersPush
  \/ OthersNext
  \/ UpdateSucceeds
  \/ UpdateErrs
  \/ NodeRestarts

Spec == ReleaseInit /\ [][Next]_vars

\* A proof for a clone of the branch that the node pulls is written only if the
\* node's update ended with a version that contains the commit the operator
\* released: although the comparison with the remote is as old as the last
\* fetch, and whatever others push, install, pull or restart between the
\* release's steps.
ReleasedIsDeployed ==
  Phase("released") /\ rel.version # Elsewhere => Contains(rel.new, rel.version)

\* What the documentation says of every proof: the node took the update.  It
\* does not hold of a clone of another branch.
ReleasedIsContained == Phase("released") => Contains(rel.new, rel.version)
=============================================================================
