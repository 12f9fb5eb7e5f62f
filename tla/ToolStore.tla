------------------------------ MODULE ToolStore ------------------------------
(***************************************************************************)
(* What a node keeps of its tools: the tools directory, the virtual        *)
(* environments, the persisted configuration and the manager's table       *)
(* m.tools (pkg/tools/manager.go, source.go, toolconfig.go).               *)
(*                                                                         *)
(* The tools come from one branch of one repository, whose versions are    *)
(* counted; what each version asks for is a constant.  A tool is installed *)
(* as a clone of the repository, or as a link to a checkout on the node    *)
(* that somebody also works in.  An operation is a sequence of steps, each *)
(* may fail, and the process may die between two of them; LoadAll then     *)
(* reads the directory again.                                              *)
(*                                                                         *)
(* Operations on the store come one at a time here; NodeTools has the      *)
(* handlers that overlap.                                                  *)
(***************************************************************************)
EXTENDS Integers, FiniteSets, Functions

CONSTANTS
  Names,       \* names of tools, and of directories
  MaxVersion,  \* versions of the repository
  Manifest,    \* name and packages that each version asks for
  Packages,    \* what installPackages installs, the requirements file read
  Declared,    \* what the manifest says of it, the requirements file by name
  Bare,        \* a virtual environment without the packages asked for
  MaxFaults,   \* bound on failed steps, crashes and edits by hand
  None         \* nothing

ASSUME StoreAssumption ==
  /\ MaxVersion \in Nat \ {0}
  /\ Manifest \in [1 .. MaxVersion -> [name : Names \cup {None}, packages : Packages]]
  /\ DOMAIN Declared = Packages
  /\ Bare \notin Packages
  /\ None \notin Packages \cup Names \cup {Bare}
  /\ None \notin [path : Names, version : Nat, env : BOOLEAN]
  /\ None \notin [kind : {"link", "clone"}, version : Nat, whole : BOOLEAN]
  /\ MaxFaults \in Nat

VARIABLES
  origin,    \* the version that was pushed last
  work,      \* the version of the node's checkout
  dir,       \* ToolsDir
  venv,      \* EnvsDir/venvs: the packages each environment holds
  entry,     \* m.tools
  conf,      \* places with a config.json
  op,        \* the operation under way
  faults,    \* faults so far
  unsettled  \* history: names with a failed or unfinished operation that no
             \* later one has made up for

diskVars == <<dir, venv, conf>>
storeVars == <<origin, work, diskVars, entry, op, faults, unsettled>>

Versions == 1 .. MaxVersion
Work == "work"
Idle == [phase |-> "idle"]

Init ==
  /\ origin = 1
  /\ work = 1
  /\ dir = [p \in Names |-> None]
  /\ venv = [n \in Names |-> None]
  /\ entry = [n \in Names |-> None]
  /\ conf = {}
  /\ op = Idle
  /\ faults = 0
  /\ unsettled = {}

\* ResolveToolSource and loadManifest: version 0 has no readable manifest.
VersionAt(p) == IF dir[p].kind = "link" THEN work ELSE dir[p].version
NameOf(v) == IF v = 0 THEN None ELSE Manifest[v].name
PackagesOf(v) == Manifest[v].packages
DeclaredIn(v) == Declared[PackagesOf(v)]

\* The directory that Tool.Path leads to; config.json is kept there.
Place(p) == IF dir[p] # None /\ dir[p].kind = "link" THEN Work ELSE p

Fault ==
  /\ faults < MaxFaults
  /\ faults' = faults + 1

Ends == op' = Idle

-----------------------------------------------------------------------------
(* The repository and the checkout.                                        *)

Pushed ==
  /\ origin < MaxVersion
  /\ origin' = origin + 1
  /\ UNCHANGED <<work, diskVars, entry, op, faults, unsettled>>

Linked == {p \in Names : dir[p] # None /\ dir[p].kind = "link"}

\* Somebody pulls in the checkout.
WorkPulled ==
  /\ Fault
  /\ work < origin
  /\ work' = origin
  /\ unsettled' = unsettled \cup Linked
  /\ UNCHANGED <<origin, diskVars, entry, op>>

-----------------------------------------------------------------------------
(* Install.                                                                *)

\* The clone, or the link's target, and the name its manifest gives.
InstallFetch(kind) ==
  LET v == IF kind = "link" THEN work ELSE origin
  IN /\ op = Idle
     /\ NameOf(v) # None
     /\ op' = [phase |-> "fetched", name |-> NameOf(v), kind |-> kind, version |-> v]
     /\ UNCHANGED <<origin, work, diskVars, entry, faults, unsettled>>

InstallPhase(phase) == op.phase = phase

\* os.RemoveAll(toolPath)
InstallClear ==
  /\ InstallPhase("fetched")
  /\ dir' = [dir EXCEPT ![op.name] = None]
  /\ conf' = conf \ {op.name}
  /\ unsettled' = unsettled \cup {op.name}
  /\ op' = [op EXCEPT !.phase = "cleared"]
  /\ UNCHANGED <<origin, work, venv, entry, faults>>

Copy(version, whole) == [kind |-> op.kind, version |-> version, whole |-> whole]

\* The link, or the rename of the clone.
InstallPlace ==
  /\ InstallPhase("cleared")
  /\ dir' = [dir EXCEPT ![op.name] = Copy(op.version, TRUE)]
  /\ op' = [op EXCEPT !.phase = "placed"]
  /\ UNCHANGED <<origin, work, venv, entry, conf, faults, unsettled>>

\* The copy to another file system stops half way: by then the manifest may
\* have been copied, or not.
InstallPlaceFails ==
  /\ InstallPhase("cleared")
  /\ Fault
  /\ \/ UNCHANGED dir
     \/ /\ op.kind = "clone"
        /\ \E v \in {0, op.version} : dir' = [dir EXCEPT ![op.name] = Copy(v, FALSE)]
  /\ Ends
  /\ UNCHANGED <<origin, work, venv, entry, conf, unsettled>>

\* The name is taken, or the manifest is not what it was: what was placed is
\* removed again.
InstallRefused ==
  /\ InstallPhase("placed")
  /\ \/ NameOf(VersionAt(op.name)) = None
     \/ entry[NameOf(VersionAt(op.name))] # None
  /\ dir' = [dir EXCEPT ![op.name] = None]
  /\ Ends
  /\ UNCHANGED <<origin, work, venv, entry, conf, faults, unsettled>>

CreateVenv(n) == venv' = [venv EXCEPT ![n] = IF @ = None THEN Bare ELSE @]

\* createEnvironment, named after the manifest.
InstallEnvironment ==
  LET v == VersionAt(op.name)
  IN /\ InstallPhase("placed")
     /\ NameOf(v) # None
     /\ entry[NameOf(v)] = None
     /\ CreateVenv(NameOf(v))
     /\ op' = [op EXCEPT !.phase = "environment", !.version = v]
     /\ UNCHANGED <<origin, work, dir, entry, conf, faults, unsettled>>

\* The environment cannot be created, or the setup fails: the directory is
\* removed.
InstallUndone ==
  /\ op.phase \in {"placed", "packages"}
  /\ Fault
  /\ dir' = [dir EXCEPT ![op.name] = None]
  /\ Ends
  /\ UNCHANGED <<origin, work, venv, entry, conf, unsettled>>

InstallPackages ==
  /\ InstallPhase("environment")
  /\ venv' = [venv EXCEPT ![NameOf(op.version)] = PackagesOf(op.version)]
  /\ op' = [op EXCEPT !.phase = "packages"]
  /\ UNCHANGED <<origin, work, dir, entry, conf, faults, unsettled>>

\* A package cannot be installed: directory and environment stay.
InstallPackagesFail ==
  /\ InstallPhase("environment")
  /\ Fault
  /\ venv' = [venv EXCEPT ![NameOf(op.version)] = Bare]
  /\ Ends
  /\ UNCHANGED <<origin, work, dir, entry, conf, unsettled>>

\* The name is settled, if it is still the one that was placed and the
\* checkout has not moved.
InstallCommit ==
  LET n == NameOf(op.version)
  IN /\ InstallPhase("packages")
     /\ entry' = [entry EXCEPT ![n] = [path |-> op.name, version |-> op.version, env |-> TRUE]]
     /\ unsettled' = IF n = op.name /\ VersionAt(n) = op.version
                       THEN unsettled \ {n} ELSE unsettled \cup {n}
     /\ Ends
     /\ UNCHANGED <<origin, work, diskVars, faults>>

InstallStep ==
  \/ InstallClear
  \/ InstallPlace
  \/ InstallPlaceFails
  \/ InstallRefused
  \/ InstallEnvironment
  \/ InstallUndone
  \/ InstallPackages
  \/ InstallPackagesFail
  \/ InstallCommit

-----------------------------------------------------------------------------
(* Update.                                                                 *)

\* gitPull of the checkout, through the link if it is one.  Other links to
\* that checkout move with it; a clone may have been installed anew, as the
\* tool of the directory's name, since the entry was made.  A manifest that a
\* broken copy misses comes back only if the pull changes it.
UpdatePull(n, clean) ==
  LET p == entry[n].path
  IN /\ op = Idle
     /\ entry[n] # None
     /\ dir[p] # None
     /\ op' = [phase |-> "pulled", name |-> n, clean |-> clean, was |-> n \notin unsettled]
     /\ IF dir[p].kind = "link"
          THEN /\ work' = origin
               /\ unsettled' = unsettled \cup {n} \cup Linked
               /\ UNCHANGED dir
          ELSE /\ \E v \in {origin} \cup ({0} \cap {dir[p].version}) :
                    dir' = [dir EXCEPT ![p].version = v]
               /\ unsettled' = unsettled \cup {n, p}
               /\ UNCHANGED work
     /\ UNCHANGED <<origin, venv, entry, conf, faults>>

\* The manifest cannot be read, or names another tool.
UpdateRefused ==
  /\ op.phase = "pulled"
  /\ NameOf(VersionAt(entry[op.name].path)) # op.name
  /\ Ends
  /\ UNCHANGED <<origin, work, diskVars, entry, faults, unsettled>>

Settles(n, yes) == unsettled' = IF yes THEN unsettled \ {n} ELSE unsettled

\* Faulty variant: the package lists are not compared.
UpdateReloadKeepsPackages ==
  LET n == op.name
      v == VersionAt(entry[n].path)
  IN /\ op.phase = "pulled"
     /\ NameOf(v) = n
     /\ entry' = [entry EXCEPT ![n].version = v]
     /\ IF op.clean
          THEN /\ op' = [op EXCEPT !.phase = "reinstall"]
               /\ UNCHANGED unsettled
          ELSE Ends /\ Settles(n, op.was)
     /\ UNCHANGED <<origin, work, diskVars, faults>>

\* Faulty variant: the new manifest may name another tool.
UpdateReloadRenames ==
  LET n == op.name
      v == VersionAt(entry[n].path)
  IN /\ op.phase = "pulled"
     /\ v # 0
     /\ entry' = [entry EXCEPT ![n].version = v]
     /\ IF op.clean \/ DeclaredIn(v) # DeclaredIn(entry[n].version)
          THEN /\ op' = [op EXCEPT !.phase = "reinstall"]
               /\ UNCHANGED unsettled
          ELSE Ends /\ Settles(n, op.was)
     /\ UNCHANGED <<origin, work, diskVars, faults>>

\* tool.Manifest is replaced, and packagesChanged compares it with the one
\* before: other contents of the requirements file are no change.  An update
\* that installs nothing settles only what was settled.
UpdateReload ==
  LET n == op.name
      v == VersionAt(entry[n].path)
  IN /\ op.phase = "pulled"
     /\ NameOf(v) = n
     /\ entry' = [entry EXCEPT ![n].version = v]
     /\ IF op.clean \/ DeclaredIn(v) # DeclaredIn(entry[n].version)
          THEN /\ op' = [op EXCEPT !.phase = "reinstall"]
               /\ UNCHANGED unsettled
          ELSE Ends /\ Settles(n, op.was)
     /\ UNCHANGED <<origin, work, diskVars, faults>>

UpdatePackages ==
  LET n == op.name
      p == entry[n].path
  IN /\ op.phase = "reinstall"
     /\ venv' = [venv EXCEPT ![n] = PackagesOf(entry[n].version)]
     /\ entry' = [entry EXCEPT ![n].env = TRUE]
     /\ Ends
     /\ Settles(n, p = n /\ dir[p].whole /\ VersionAt(p) = entry[n].version)
     /\ UNCHANGED <<origin, work, dir, conf, faults>>

\* The environment, or a package, cannot be had: the manifest stays replaced.
UpdatePackagesFail ==
  /\ op.phase = "reinstall"
  /\ Fault
  /\ \/ UNCHANGED venv
     \/ venv' = [venv EXCEPT ![op.name] = Bare]
  /\ Ends
  /\ UNCHANGED <<origin, work, dir, conf, entry, unsettled>>

UpdateStep ==
  \/ UpdateRefused
  \/ UpdateReload
  \/ UpdatePackages
  \/ UpdatePackagesFail

-----------------------------------------------------------------------------
(* Uninstall, EnsureEnvironment, the configuration, and a restart.         *)

\* Faulty variant: the tool is forgotten and its directory stays.
UninstallForgets(n) ==
  /\ op = Idle
  /\ entry[n] # None
  /\ entry' = [entry EXCEPT ![n] = None]
  /\ UNCHANGED <<origin, work, diskVars, op, faults, unsettled>>

UninstallRemoves(n) ==
  LET p == entry[n].path
  IN /\ op = Idle
     /\ entry[n] # None
     /\ dir' = [dir EXCEPT ![p] = None]
     /\ conf' = conf \ {p}
     /\ op' = [phase |-> "removed", name |-> n]
     /\ unsettled' = unsettled \cup {n, p}
     /\ UNCHANGED <<origin, work, venv, entry, faults>>

\* os.RemoveAll stops on the way: the table keeps the tool, whatever is left
\* of its directory.  A link is there or not.
UninstallFails(n) ==
  LET p == entry[n].path
  IN /\ op = Idle
     /\ entry[n] # None
     /\ dir[p] # None
     /\ Fault
     /\ \/ UNCHANGED <<dir, conf>>
        \/ /\ dir[p].kind = "clone"
           /\ \E v \in {0, dir[p].version} :
                dir' = [dir EXCEPT ![p] = [kind |-> "clone", version |-> v, whole |-> FALSE]]
           /\ conf' \in {conf, conf \ {p}}
     /\ unsettled' = unsettled \cup {n, p}
     /\ UNCHANGED <<origin, work, venv, entry, op>>

UninstallEnds(removeEnv) ==
  LET n == op.name
  IN /\ op.phase = "removed"
     /\ venv' = IF removeEnv THEN [venv EXCEPT ![n] = None] ELSE venv
     /\ entry' = [entry EXCEPT ![n] = None]
     /\ Ends
     /\ Settles(n, dir[n] = None)
     /\ UNCHANGED <<origin, work, dir, conf, faults>>

\* An environment that exists is taken to hold the packages.
Ensure(n) ==
  /\ op = Idle
  /\ entry[n] # None
  /\ ~entry[n].env
  /\ venv' = [venv EXCEPT ![n] = IF @ = None THEN PackagesOf(entry[n].version) ELSE @]
  /\ entry' = [entry EXCEPT ![n].env = TRUE]
  /\ UNCHANGED <<origin, work, dir, conf, op, faults, unsettled>>

EnsureFails(n) ==
  /\ op = Idle
  /\ entry[n] # None
  /\ ~entry[n].env
  /\ venv[n] = None
  /\ Fault
  /\ CreateVenv(n)
  /\ unsettled' = unsettled \cup {n}
  /\ UNCHANGED <<origin, work, dir, conf, entry, op>>

ConfigSet(n) ==
  /\ op = Idle
  /\ entry[n] # None
  /\ dir[entry[n].path] # None
  /\ conf' = conf \cup {Place(entry[n].path)}
  /\ UNCHANGED <<origin, work, dir, venv, entry, op, faults, unsettled>>

Loadable(p) == dir[p] # None /\ NameOf(VersionAt(p)) # None

\* LoadAll: the directories with a readable manifest, in the order of their
\* names; of two with the same name the later one stays.
LoadAll ==
  \E last \in [Names -> Names] :
    entry' = [n \in Names |->
      LET found == {p \in Names : Loadable(p) /\ NameOf(VersionAt(p)) = n}
          p == IF last[n] \in found THEN last[n] ELSE CHOOSE q \in found : TRUE
      IN IF found = {} THEN None
         ELSE [path |-> p, version |-> VersionAt(p), env |-> FALSE]]

\* The process ends, or dies in the middle of an operation, and starts again.
Restart ==
  /\ Fault
  /\ LoadAll
  /\ Ends
  /\ unsettled' = unsettled \cup
       {NameOf(VersionAt(p)) : p \in {q \in unsettled : Loadable(q)}}
  /\ UNCHANGED <<origin, work, diskVars>>

-----------------------------------------------------------------------------
(* Properties.                                                             *)

Entries == [path : Names, version : Versions, env : BOOLEAN]
Dirs == [kind : {"link", "clone"}, version : 0 .. MaxVersion, whole : BOOLEAN]

\* Every variable of the store has its type, and a tool keeps the name that
\* its manifest gives it.
StoreTypeOK ==
  /\ origin \in Versions
  /\ work \in 1 .. origin
  /\ dir \in [Names -> Dirs \cup {None}]
  /\ venv \in [Names -> Packages \cup {Bare, None}]
  /\ entry \in [Names -> Entries \cup {None}]
  /\ \A n \in Names : entry[n] # None => NameOf(entry[n].version) = n
  /\ conf \subseteq Names \cup {Work}
  /\ op.phase \in {"idle", "fetched", "cleared", "placed", "environment", "packages",
                   "pulled", "reinstall", "removed"}
  /\ faults \in 0 .. MaxFaults
  /\ unsettled \subseteq Names

\* The table, the directory and the checkout agree on every settled tool: no
\* operation on one tool, no failure in another's install, update or uninstall
\* and no restart loses a tool, brings one back or leaves the manager with
\* another version than its files.
DiskAgrees ==
  \A n \in Names \ unsettled :
    /\ entry[n] = None <=> dir[n] = None
    /\ entry[n] # None => /\ entry[n].path = n
                          /\ VersionAt(n) = entry[n].version

\* The packages are those of a manifest that declares what version v declares.
AsDeclared(packages, v) == packages \in Packages /\ Declared[packages] = DeclaredIn(v)

\* A settled tool, once it has been started, runs in an environment that was
\* filled for a manifest that declares what its manifest declares: after any
\* sequence of installs, updates, uninstalls that keep the environment, and
\* restarts.
EnvironmentMatches ==
  \A n \in Names \ unsettled :
    (entry[n] # None /\ entry[n].env) => AsDeclared(venv[n], entry[n].version)

\* What the comment of Update promises: an update that reports success leaves
\* the tool with the packages of its new version.  It does not hold when only
\* the contents of the requirements file changed, nor after an update that
\* failed at its packages.
UpdateInstalls ==
  [][(UpdateReload \/ UpdatePackages) /\ op' = Idle /\ venv[op.name] # None =>
       venv'[op.name] = PackagesOf(entry'[op.name].version)]_storeVars
=============================================================================
