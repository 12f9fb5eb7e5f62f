------------------------- MODULE ServiceReleaseProofs -------------------------
(***************************************************************************)
(* Proofs about ToolStore and ServiceRelease, for any names, manifests,    *)
(* histories of the repository and faults.                                 *)
(***************************************************************************)
EXTENDS ServiceRelease, TLAPS

Kinds == {"link", "clone"}
InstallPhases == {"fetched", "cleared", "placed", "environment", "packages"}
InstallOps == [phase : InstallPhases, name : Names, kind : Kinds, version : Versions]
UpdateOps == [phase : {"pulled", "reinstall"}, name : Names, clean : BOOLEAN, was : BOOLEAN]
RemoveOps == [phase : {"removed"}, name : Names]

\* The operation under way knows its tool, what it fetched has a name, and
\* what it is about to use is there.
OpInv ==
  /\ op \in {Idle} \cup InstallOps \cup UpdateOps \cup RemoveOps
  /\ op \in InstallOps => NameOf(op.version) # None
  /\ op.phase = "placed" => dir[op.name] # None
  /\ op.phase \in {"pulled", "reinstall", "removed"} => entry[op.name] # None
  /\ op.phase \in {"pulled", "reinstall"} => dir[entry[op.name].path] # None

StoreInv == StoreTypeOK /\ OpInv

\* What a manifest says.
LEMMA ManifestTypes ==
  /\ \A v \in 1 .. MaxVersion : /\ NameOf(v) \in Names \cup {None}
                                /\ PackagesOf(v) \in Packages
  /\ NameOf(0) = None
  /\ None \notin Names
BY StoreAssumption DEF StoreAssumption, NameOf, PackagesOf

\* What a version asks for is declared as it declares it.
LEMMA OwnPackages ==
  ASSUME NEW v \in Versions
  PROVE  AsDeclared(PackagesOf(v), v)
BY ManifestTypes DEF AsDeclared, DeclaredIn, Versions

\* A directory that is there holds a version of the repository, or a broken copy.
LEMMA VersionTypes ==
  ASSUME StoreTypeOK, NEW p \in Names, dir[p] # None
  PROVE  VersionAt(p) \in 0 .. MaxVersion
BY StoreAssumption DEF StoreTypeOK, Versions, VersionAt, Dirs, StoreAssumption

\* A version with a name is a version of the repository.
LEMMA NamedVersion ==
  ASSUME NEW v \in 0 .. MaxVersion, NameOf(v) # None
  PROVE  v \in Versions /\ NameOf(v) \in Names
BY ManifestTypes, StoreAssumption DEF Versions, StoreAssumption

\* A record is not None.
LEMMA RecordsAreSome == None \notin Dirs /\ None \notin Entries
BY StoreAssumption DEF StoreAssumption, Dirs, Entries, Versions

\* The steps of an install keep the store's invariant.
LEMMA InstallKeeps ==
  ASSUME StoreInv,
         \E kind \in Kinds : InstallFetch(kind) \/ InstallStep
  PROVE  StoreInv'
<1> USE StoreAssumption, ManifestTypes DEF StoreAssumption, StoreInv, StoreTypeOK, OpInv,
      Versions, Entries, Dirs, Kinds, InstallPhases, InstallOps, UpdateOps, RemoveOps,
      Idle, InstallPhase, diskVars
<1>1. ASSUME NEW kind \in Kinds, InstallFetch(kind)
      PROVE  StoreInv'
  BY <1>1 DEF InstallFetch
<1>2. ASSUME InstallClear
      PROVE  StoreInv'
  <2>1. op \in InstallOps BY <1>2 DEF InstallClear
  <2>2. op' \in InstallOps /\ op'.phase = "cleared" /\ op'.version = op.version
    BY <1>2, <2>1 DEF InstallClear
  <2>3. StoreTypeOK' BY <1>2, <2>1, <2>2 DEF InstallClear
  <2>4. OpInv' BY <1>2, <2>1, <2>2 DEF InstallClear, NameOf
  <2>5. QED BY <2>3, <2>4
<1>3. ASSUME InstallPlace
      PROVE  StoreInv'
  <2>1. op \in InstallOps BY <1>3 DEF InstallPlace
  <2>2. op' \in InstallOps /\ op'.phase = "placed" /\ op'.version = op.version /\ op'.name = op.name
    BY <1>3, <2>1 DEF InstallPlace
  <2>3. Copy(op.version, TRUE) \in Dirs /\ Copy(op.version, TRUE) # None
    <3>1. op.kind \in Kinds /\ op.version \in 0 .. MaxVersion BY <2>1
    <3>2. Copy(op.version, TRUE) \in Dirs BY <3>1 DEF Copy
    <3>3. QED BY <3>2, RecordsAreSome
  <2>4. StoreTypeOK' BY <1>3, <2>1, <2>2, <2>3 DEF InstallPlace
  <2>5. OpInv' BY <1>3, <2>1, <2>2, <2>3 DEF InstallPlace, NameOf
  <2>6. QED BY <2>4, <2>5
<1>4. ASSUME InstallPlaceFails
      PROVE  StoreInv'
  <2>1. op \in InstallOps BY <1>4 DEF InstallPlaceFails
  <2>2. \A v \in {0, op.version} : Copy(v, FALSE) \in Dirs
    <3>1. op.kind \in Kinds /\ {0, op.version} \subseteq 0 .. MaxVersion BY <2>1
    <3>2. QED BY <3>1 DEF Copy
  <2> HIDE DEF Dirs
  <2>a. dir' \in [Names -> Dirs \cup {None}]
    <3>1. CASE UNCHANGED dir BY <3>1
    <3>2. CASE \E v \in {0, op.version} : dir' = [dir EXCEPT ![op.name] = Copy(v, FALSE)]
      <4>1. PICK v \in {0, op.version} : dir' = [dir EXCEPT ![op.name] = Copy(v, FALSE)]
        BY <3>2
      <4>2. Copy(v, FALSE) \in Dirs /\ op.name \in Names BY <2>1, <2>2
      <4>3. QED BY <4>1, <4>2
    <3>3. QED BY <1>4, <3>1, <3>2 DEF InstallPlaceFails
  <2>3. StoreTypeOK' BY <1>4, <2>a DEF InstallPlaceFails, Ends, Fault
  <2>4. OpInv' BY <1>4 DEF InstallPlaceFails, Ends
  <2>5. QED BY <2>3, <2>4
<1>5. ASSUME InstallRefused
      PROVE  StoreInv'
  BY <1>5 DEF InstallRefused, Ends
<1>6. ASSUME InstallEnvironment
      PROVE  StoreInv'
  <2> DEFINE v == VersionAt(op.name)
  <2>1. op \in InstallOps /\ dir[op.name] # None BY <1>6 DEF InstallEnvironment
  <2>2. v \in Versions /\ NameOf(v) # None /\ NameOf(v) \in Names
    BY <1>6, <2>1, VersionTypes, NamedVersion DEF InstallEnvironment
  <2> HIDE DEF v
  <2>3. op' = [op EXCEPT !.phase = "environment", !.version = v]
    BY <1>6 DEF InstallEnvironment, v
  <2>4. op' \in InstallOps /\ op'.phase = "environment" /\ op'.version = v
    BY <2>1, <2>2, <2>3
  <2>5. venv' \in [Names -> Packages \cup {Bare, None}]
    BY <1>6 DEF InstallEnvironment, CreateVenv
  <2>6. StoreTypeOK' BY <1>6, <2>4, <2>5 DEF InstallEnvironment
  <2>7. OpInv' BY <2>2, <2>4 DEF NameOf
  <2>8. QED BY <2>6, <2>7
<1>7. ASSUME InstallUndone
      PROVE  StoreInv'
  BY <1>7 DEF InstallUndone, Ends, Fault
<1>8. ASSUME InstallPackages
      PROVE  StoreInv'
  <2>1. /\ op \in InstallOps
        /\ venv' = [venv EXCEPT ![NameOf(op.version)] = PackagesOf(op.version)]
        /\ op' = [op EXCEPT !.phase = "packages"]
        /\ UNCHANGED <<origin, work, dir, entry, conf, faults, unsettled>>
    BY <1>8 DEF InstallPackages
  <2>2. op' \in InstallOps /\ op'.phase = "packages" /\ op'.version = op.version
    BY <2>1
  <2>3. PackagesOf(op.version) \in Packages BY <2>1
  <2>4. StoreTypeOK' BY <2>1, <2>2, <2>3
  <2>5. OpInv' BY <2>1, <2>2 DEF NameOf
  <2>6. QED BY <2>4, <2>5
<1>9. ASSUME InstallPackagesFail
      PROVE  StoreInv'
  BY <1>9 DEF InstallPackagesFail, Ends, Fault
<1>10. ASSUME InstallCommit
      PROVE  StoreInv'
  BY <1>10 DEF InstallCommit, Ends
<1> QED BY <1>1, <1>2, <1>3, <1>4, <1>5, <1>6, <1>7, <1>8, <1>9, <1>10 DEF InstallStep, UpdateStep

\* So do those of an update.
LEMMA UpdateKeeps ==
  ASSUME StoreInv,
         (\E n \in Names, clean \in BOOLEAN : UpdatePull(n, clean)) \/ UpdateStep
  PROVE  StoreInv'
<1> USE StoreAssumption, ManifestTypes DEF StoreAssumption, StoreInv, StoreTypeOK, OpInv,
      Versions, Entries, Dirs, Kinds, InstallPhases, InstallOps, UpdateOps, RemoveOps,
      Idle, InstallPhase, diskVars
<1>1. ASSUME NEW n \in Names, NEW clean \in BOOLEAN, UpdatePull(n, clean)
      PROVE  StoreInv'
  <2> DEFINE q == entry[n].path
  <2>1. q \in Names /\ dir[q] # None /\ dir[q] \in Dirs /\ entry[n] # None
    BY <1>1 DEF UpdatePull
  <2>2. op' \in UpdateOps /\ op'.phase = "pulled" /\ op'.name = n
    BY <1>1 DEF UpdatePull
  <2>3. /\ dir' \in [Names -> Dirs \cup {None}]
        /\ dir'[q] # None
        /\ work' \in 1 .. origin
        /\ unsettled' \subseteq Names
    <3>1. CASE dir[q].kind = "link"
      BY <1>1, <2>1, <3>1 DEF UpdatePull, Linked
    <3>2. CASE dir[q].kind # "link"
      <4>1. PICK v \in {origin} \cup ({0} \cap {dir[q].version}) :
              dir' = [dir EXCEPT ![q].version = v]
        BY <1>1, <3>2 DEF UpdatePull
      <4>2. v \in 0 .. MaxVersion BY <4>1
      <4>3. [dir[q] EXCEPT !.version = v] \in Dirs BY <2>1, <4>2
      <4>4. dir' = [dir EXCEPT ![q] = [dir[q] EXCEPT !.version = v]] BY <4>1
      <4>5. work' = work /\ unsettled' = unsettled \cup {n, q}
        BY <1>1, <3>2 DEF UpdatePull
      <4>6. [dir[q] EXCEPT !.version = v] # None BY <4>3, RecordsAreSome
      <4> HIDE DEF Dirs
      <4>7. dir' \in [Names -> Dirs \cup {None}] /\ dir'[q] # None
        BY <2>1, <4>3, <4>4, <4>6
      <4>8. QED BY <2>1, <4>5, <4>7
    <3>3. QED BY <3>1, <3>2
  <2>4. StoreTypeOK' BY <1>1, <2>2, <2>3 DEF UpdatePull
  <2>5. OpInv' BY <1>1, <2>1, <2>2, <2>3 DEF UpdatePull
  <2>6. QED BY <2>4, <2>5
<1>2. ASSUME UpdateRefused
      PROVE  StoreInv'
  BY <1>2 DEF UpdateRefused, Ends
<1>3. ASSUME UpdateReload
      PROVE  StoreInv'
  <2> DEFINE n == op.name
             v == VersionAt(entry[n].path)
  <2>1. op \in UpdateOps /\ n \in Names /\ entry[n] \in Entries /\ dir[entry[n].path] # None
    BY <1>3 DEF UpdateReload
  <2>2. v \in Versions /\ NameOf(v) = n
    BY <1>3, <2>1, VersionTypes, NamedVersion DEF UpdateReload
  <2>3. /\ entry' = [entry EXCEPT ![n] = [entry[n] EXCEPT !.version = v]]
        /\ op' \in {Idle, [op EXCEPT !.phase = "reinstall"]}
        /\ unsettled' \in {unsettled, unsettled \ {n}}
        /\ UNCHANGED <<origin, work, diskVars, faults>>
    BY <1>3 DEF UpdateReload, Ends, Settles
  <2> HIDE DEF v
  <2>4. [entry[n] EXCEPT !.version = v] \in Entries /\ [entry[n] EXCEPT !.version = v].version = v
        /\ [entry[n] EXCEPT !.version = v].path = entry[n].path
    BY <2>1, <2>2
  <2>5. /\ [op EXCEPT !.phase = "reinstall"] \in UpdateOps
        /\ [op EXCEPT !.phase = "reinstall"].name = n
        /\ [op EXCEPT !.phase = "reinstall"].phase = "reinstall"
    BY <2>1
  <2>6. /\ entry'[n] # None /\ entry'[n].path = entry[n].path /\ NameOf(entry'[n].version) = n
        /\ \A m \in Names \ {n} : entry'[m] = entry[m]
        /\ entry' \in [Names -> Entries \cup {None}]
    <3> DEFINE e == [entry[n] EXCEPT !.version = v]
    <3>1. e \in Entries /\ e.path = entry[n].path /\ NameOf(e.version) = n
      BY <2>2, <2>4
    <3>2. e # None BY <3>1, RecordsAreSome
    <3>3. entry' = [entry EXCEPT ![n] = e] BY <2>3
    <3>4. n \in Names /\ entry \in [Names -> Entries \cup {None}] BY <2>1
    <3> HIDE DEF e, n, Entries
    <3>5. entry'[n] = e /\ \A m \in Names \ {n} : entry'[m] = entry[m] BY <3>3, <3>4
    <3>6. entry' \in [Names -> Entries \cup {None}] BY <3>1, <3>3, <3>4
    <3>7. QED BY <3>1, <3>2, <3>5, <3>6
  <2> HIDE DEF n
  <2>7. StoreTypeOK'
    <3>1. \A m \in Names : entry'[m] # None => NameOf(entry'[m].version) = m
      BY <2>6
    <3>2. op'.phase \in {"idle", "reinstall"} BY <2>3, <2>5
    <3>3. unsettled' \subseteq Names BY <2>3
    <3> HIDE DEF Entries, Dirs
    <3>4. UNCHANGED <<origin, work, dir, venv, conf, faults>> BY <2>3
    <3>5. entry' \in [Names -> Entries \cup {None}] BY <2>6
    <3>6. origin' \in Versions /\ work' \in 1 .. origin' BY <3>4
    <3>7. dir' \in [Names -> Dirs \cup {None}] BY <3>4
    <3>8. venv' \in [Names -> Packages \cup {Bare, None}] BY <3>4
    <3>9. conf' \subseteq Names \cup {Work} /\ faults' \in 0 .. MaxFaults BY <3>4
    <3>10. QED BY <3>1, <3>2, <3>3, <3>5, <3>6, <3>7, <3>8, <3>9
  <2>8. OpInv'
    <3>1. CASE op' = Idle BY <3>1
    <3>2. CASE op' = [op EXCEPT !.phase = "reinstall"]
      <4>1. op' \in UpdateOps /\ op'.name = n /\ op'.phase = "reinstall" BY <2>5, <3>2
      <4>2. dir' = dir BY <2>3
      <4>3. entry'[op'.name] # None /\ dir'[entry'[op'.name].path] # None
        BY <2>1, <2>6, <4>1, <4>2
      <4>4. op' \notin InstallOps BY <4>1
      <4> HIDE DEF UpdateOps, InstallOps, RemoveOps
      <4>5. QED BY <4>1, <4>3, <4>4
    <3>3. QED BY <2>3, <3>1, <3>2
  <2>9. QED BY <2>7, <2>8
<1>4. ASSUME UpdatePackages
      PROVE  StoreInv'
  <2> DEFINE n == op.name
  <2>1. op \in UpdateOps /\ n \in Names /\ entry[n] # None /\ entry[n] \in Entries
    BY <1>4 DEF UpdatePackages
  <2>2. /\ entry' = [entry EXCEPT ![n] = [entry[n] EXCEPT !.env = TRUE]]
        /\ venv' = [venv EXCEPT ![n] = PackagesOf(entry[n].version)]
        /\ op' = Idle
        /\ unsettled' \in {unsettled, unsettled \ {n}}
        /\ UNCHANGED <<origin, work, dir, conf, faults>>
    BY <1>4 DEF UpdatePackages, Ends, Settles
  <2>3. PackagesOf(entry[n].version) \in Packages BY <2>1
  <2>4. /\ [entry[n] EXCEPT !.env = TRUE] \in Entries
        /\ [entry[n] EXCEPT !.env = TRUE].version = entry[n].version
    BY <2>1
  <2> HIDE DEF n
  <2>5. StoreTypeOK' BY <2>1, <2>2, <2>3, <2>4 DEF NameOf
  <2>6. OpInv' BY <2>2
  <2>7. QED BY <2>5, <2>6
<1>5. ASSUME UpdatePackagesFail
      PROVE  StoreInv'
  BY <1>5 DEF UpdatePackagesFail, Ends, Fault
<1> QED BY <1>1, <1>2, <1>3, <1>4, <1>5 DEF InstallStep, UpdateStep

\* And the others.
LEMMA OthersKeep ==
  ASSUME StoreInv,
         \/ WorkPulled
         \/ \E n \in Names : UninstallRemoves(n) \/ UninstallFails(n) \/ Ensure(n) \/ EnsureFails(n) \/ ConfigSet(n)
         \/ \E removeEnv \in BOOLEAN : UninstallEnds(removeEnv)
         \/ Restart
  PROVE  StoreInv'
<1> USE StoreAssumption, ManifestTypes DEF StoreAssumption, StoreInv, StoreTypeOK, OpInv,
      Versions, Entries, Dirs, Kinds, InstallPhases, InstallOps, UpdateOps, RemoveOps,
      Idle, InstallPhase, diskVars
<1>1. ASSUME WorkPulled
      PROVE  StoreInv'
  BY <1>1 DEF WorkPulled, Fault, Linked
<1>2. ASSUME NEW n \in Names, UninstallRemoves(n)
      PROVE  StoreInv'
  BY <1>2 DEF UninstallRemoves
<1>3. ASSUME NEW removeEnv \in BOOLEAN, UninstallEnds(removeEnv)
      PROVE  StoreInv'
  BY <1>3 DEF UninstallEnds, Ends, Settles
<1>4. ASSUME NEW n \in Names, Ensure(n)
      PROVE  StoreInv'
  <2>1. entry[n] \in Entries /\ entry[n] # None BY <1>4 DEF Ensure
  <2>2. /\ entry' = [entry EXCEPT ![n] = [entry[n] EXCEPT !.env = TRUE]]
        /\ venv' = [venv EXCEPT ![n] = IF @ = None THEN PackagesOf(entry[n].version) ELSE @]
        /\ op = Idle
        /\ UNCHANGED <<origin, work, dir, conf, op, faults, unsettled>>
    BY <1>4 DEF Ensure
  <2>3. PackagesOf(entry[n].version) \in Packages BY <2>1
  <2>4. /\ [entry[n] EXCEPT !.env = TRUE] \in Entries
        /\ [entry[n] EXCEPT !.env = TRUE].version = entry[n].version
    BY <2>1
  <2>5. StoreTypeOK' BY <2>1, <2>2, <2>3, <2>4 DEF NameOf
  <2>6. OpInv' BY <2>2
  <2>7. QED BY <2>5, <2>6
<1>5. ASSUME NEW n \in Names, EnsureFails(n)
      PROVE  StoreInv'
  BY <1>5 DEF EnsureFails, Fault, CreateVenv
<1>6. ASSUME NEW n \in Names, ConfigSet(n)
      PROVE  StoreInv'
  BY <1>6 DEF ConfigSet, Place
<1>8. ASSUME NEW n \in Names, UninstallFails(n)
      PROVE  StoreInv'
  <2> DEFINE p == entry[n].path
  <2>1. p \in Names /\ dir[p] \in Dirs /\ conf' \subseteq Names \cup {Work}
        /\ op = Idle /\ unsettled' \subseteq Names /\ faults' \in 0 .. MaxFaults
        /\ UNCHANGED <<origin, work, venv, entry, op>>
    BY <1>8 DEF UninstallFails, Fault
  <2>2. dir' \in [Names -> Dirs \cup {None}]
    <3>1. CASE UNCHANGED dir BY <3>1
    <3>2. CASE dir' # dir
      <4>1. PICK v \in {0, dir[p].version} :
              dir' = [dir EXCEPT ![p] = [kind |-> "clone", version |-> v, whole |-> FALSE]]
        BY <1>8, <3>2 DEF UninstallFails
      <4>2. [kind |-> "clone", version |-> v, whole |-> FALSE] \in Dirs BY <2>1, <4>1
      <4> HIDE DEF Dirs, p
      <4>3. QED BY <4>1, <4>2
    <3>3. QED BY <3>1, <3>2
  <2> HIDE DEF Dirs, Entries, p
  <2>3. StoreTypeOK' BY <2>1, <2>2
  <2>4. OpInv' BY <2>1
  <2>5. QED BY <2>3, <2>4
<1>7. ASSUME Restart
      PROVE  StoreInv'
  <2>1. PICK last \in [Names -> Names] :
          entry' = [n \in Names |->
            LET found == {q \in Names : Loadable(q) /\ NameOf(VersionAt(q)) = n}
                q == IF last[n] \in found THEN last[n] ELSE CHOOSE r \in found : TRUE
            IN IF found = {} THEN None
               ELSE [path |-> q, version |-> VersionAt(q), env |-> FALSE]]
    BY <1>7 DEF Restart, LoadAll
  <2>2. ASSUME NEW n \in Names
        PROVE  /\ entry'[n] \in Entries \cup {None}
               /\ entry'[n] # None => NameOf(entry'[n].version) = n
    <3> DEFINE found == {q \in Names : Loadable(q) /\ NameOf(VersionAt(q)) = n}
               q == IF last[n] \in found THEN last[n] ELSE CHOOSE r \in found : TRUE
    <3>1. CASE found = {} BY <2>1, <3>1
    <3>2. CASE found # {}
      <4>1. q \in found BY <3>2
      <4>2. q \in Names /\ dir[q] # None /\ NameOf(VersionAt(q)) = n BY <4>1 DEF Loadable
      <4>3. VersionAt(q) \in Versions BY <4>2, VersionTypes, NamedVersion
      <4>4. entry'[n] = [path |-> q, version |-> VersionAt(q), env |-> FALSE] BY <2>1, <3>2
      <4>5. QED BY <4>2, <4>3, <4>4
    <3>3. QED BY <3>1, <3>2
  <2>3. entry' \in [Names -> Entries \cup {None}] BY <2>1, <2>2
  <2>4. unsettled' \subseteq Names
    <3>1. ASSUME NEW q \in Names, Loadable(q) PROVE NameOf(VersionAt(q)) \in Names
      BY <3>1, VersionTypes, NamedVersion DEF Loadable
    <3>2. QED BY <1>7, <3>1 DEF Restart
  <2>5. StoreTypeOK' BY <1>7, <2>2, <2>3, <2>4 DEF Restart, Fault, Ends, NameOf
  <2>6. OpInv' BY <1>7 DEF Restart, Ends
  <2>7. QED BY <2>5, <2>6
<1> QED BY <1>1, <1>2, <1>3, <1>4, <1>5, <1>6, <1>7, <1>8

-----------------------------------------------------------------------------
(* The release.                                                            *)

AskedPhases == {"checked", "inspected", "updating"}
DonePhases == {"updated", "after", "healthy", "released"}
Commits == {Elsewhere} \cup Versions
Asked == [phase : AskedPhases, version : Commits]
Done == [phase : DonePhases, version : Commits, new : Versions]

\* The operator's clone and the release have their types.
ReleaseOK ==
  /\ local \in Versions
  /\ fetched \in 1 .. origin
  /\ rel \in {NoRelease} \cup Asked \cup Done

\* The commit to release has been pushed, if the node can have it; the update that the release asked
\* for is the one under way, and what it pulled, if it can be read, and then
\* what it reloaded, contains that commit.
UpdateInHand ==
  /\ rel.phase \in AskedPhases => rel.version <= origin
  /\ rel.phase = "updating" =>
       /\ op.phase \in {"pulled", "reinstall"}
       /\ op.name = Service
       /\ op.phase = "pulled" =>
            VersionAt(entry[Service].path) \in {0} \cup (rel.version .. MaxVersion)
       /\ op.phase = "reinstall" => entry[Service].version >= rel.version
  /\ rel.phase \in DonePhases => rel.new >= rel.version

ReleaseInv == StoreInv /\ ReleaseOK /\ UpdateInHand

\* Every step keeps the store's invariant.
LEMMA StoreStep ==
  ASSUME ReleaseInv, [Next]_vars
  PROVE  StoreInv'
<1> USE StoreAssumption DEF StoreAssumption, ReleaseInv
<1>1. ASSUME UNCHANGED storeVars PROVE StoreInv'
  BY <1>1 DEF storeVars, diskVars, StoreInv, StoreTypeOK, OpInv, VersionAt, NameOf
<1>2. ASSUME origin' \in Versions, origin' >= origin, StoreInv,
             UNCHANGED <<work, diskVars, entry, op, faults, unsettled>>
      PROVE  StoreInv'
  BY <1>2 DEF diskVars, StoreInv, StoreTypeOK, OpInv, VersionAt, NameOf, Versions
<1>3. CASE OperatorNext
  <2>1. CASE Push
    BY <1>2, <2>1 DEF Push, ReleaseOK, StoreInv, StoreTypeOK, Versions
  <2>2. ASSUME NEW clean \in BOOLEAN, RequestUpdate(clean) PROVE StoreInv'
    BY <2>2, UpdateKeeps, ServiceAssumption DEF RequestUpdate, ServiceAssumption
  <2>3. CASE Commit \/ Fetch \/ Merge \/ LocalChecked \/ OtherChecked
               \/ InspectedBefore \/ InspectedAfter
               \/ HealthCalled \/ SmokeCalled \/ GivesUp
    <3>1. UNCHANGED storeVars
      BY <2>3 DEF Commit, Fetch, Merge, LocalChecked, OtherChecked, InspectedBefore, InspectedAfter,
                  HealthCalled, SmokeCalled, GivesUp
    <3>2. QED BY <3>1, <1>1
  <2>4. QED BY <1>3, <2>1, <2>2, <2>3 DEF OperatorNext
<1>4. CASE OthersPush
  BY <1>2, <1>4 DEF OthersPush, Pushed, StoreInv, StoreTypeOK, Versions
<1>5. CASE OthersNext
  BY <1>5, InstallKeeps, UpdateKeeps, OthersKeep DEF OthersNext, Kinds
<1>6. CASE UpdateSucceeds \/ UpdateErrs
  BY <1>6, UpdateKeeps DEF UpdateSucceeds, UpdateErrs, UpdateStep
<1>7. CASE NodeRestarts
  BY <1>7, OthersKeep DEF NodeRestarts
<1>8. CASE UNCHANGED vars
  BY <1>1, <1>8 DEF vars
<1>9. QED BY <1>3, <1>4, <1>5, <1>6, <1>7, <1>8 DEF Next

\* Every step keeps what is known of the release.
LEMMA ReleaseStep ==
  ASSUME ReleaseInv, [Next]_vars
  PROVE  ReleaseInv'
<1>a. StoreInv' BY StoreStep
<1>b. /\ origin \in Versions /\ origin' \in Versions
      /\ MaxVersion \in Nat /\ Service \in Names
      /\ local \in Versions /\ fetched \in 1 .. origin
      /\ rel \in {NoRelease} \cup Asked \cup Done
  BY <1>a, StoreAssumption, ServiceAssumption
     DEF ReleaseInv, ReleaseOK, StoreInv, StoreTypeOK, StoreAssumption, ServiceAssumption
<1> SUFFICES ReleaseOK' /\ UpdateInHand' BY <1>a DEF ReleaseInv
<1> USE DEF ReleaseInv, ReleaseOK, UpdateInHand, Versions, NoRelease, Asked, Done,
            AskedPhases, DonePhases, Phase, Keeps, Commits, Elsewhere
\* Steps of the operator that leave the store alone.
<1>1. CASE Commit \/ Fetch \/ Merge
  BY <1>1, <1>b DEF Commit, Fetch, Merge, storeVars, diskVars, VersionAt
<1>2. CASE LocalChecked \/ OtherChecked
  BY <1>2, <1>b DEF LocalChecked, OtherChecked, Ahead, Behind, storeVars, diskVars
<1>3. CASE InspectedBefore
  BY <1>3, <1>b DEF InspectedBefore, storeVars, diskVars
<1>4. CASE InspectedAfter \/ HealthCalled \/ SmokeCalled
  BY <1>4, <1>b DEF InspectedAfter, HealthCalled, SmokeCalled, storeVars, diskVars
<1>5. CASE GivesUp
  BY <1>5, <1>b DEF GivesUp, storeVars, diskVars
\* Pushes.
<1>6. CASE Push
  BY <1>6, <1>b DEF Push, diskVars, VersionAt
<1>7. CASE OthersPush
  BY <1>7, <1>b DEF OthersPush, Pushed, releaseVars, diskVars, VersionAt
\* The update.
<1>8. ASSUME NEW clean \in BOOLEAN, RequestUpdate(clean)
      PROVE  ReleaseOK' /\ UpdateInHand'
  <2> DEFINE q == entry[Service].path
  <2>1. /\ rel \in Asked /\ rel.phase = "inspected"
        /\ rel' = [rel EXCEPT !.phase = "updating"]
        /\ UNCHANGED <<origin, entry, local, fetched>>
        /\ op' = [phase |-> "pulled", name |-> Service, clean |-> clean,
                  was |-> Service \notin unsettled]
    BY <1>8, <1>b DEF RequestUpdate, UpdatePull
  <2>2. rel' \in Asked /\ rel'.phase = "updating" /\ rel'.version = rel.version
    BY <2>1
  <2>3. dir[q] \in Dirs /\ q \in Names /\ dir \in [Names -> Dirs \cup {None}]
    BY <1>8, <1>b DEF RequestUpdate, UpdatePull, StoreInv, StoreTypeOK, Entries
  <2>4. VersionAt(q)' \in {0, origin}
    <3>1. CASE dir[q].kind = "link"
      BY <1>8, <3>1, <2>1 DEF RequestUpdate, UpdatePull, VersionAt
    <3>2. CASE dir[q].kind # "link"
      <4>1. PICK v \in {0, origin} : dir' = [dir EXCEPT ![q].version = v]
        BY <1>8, <3>2 DEF RequestUpdate, UpdatePull
      <4>2. dir'[q].kind # "link" /\ dir'[q].version = v
        BY <2>3, <3>2, <4>1 DEF Dirs
      <4>3. QED BY <2>1, <4>2 DEF VersionAt
    <3>3. QED BY <3>1, <3>2
  <2>5. VersionAt(entry[Service].path)' = VersionAt(q)' BY <2>1
  <2>6. rel.version <= origin BY <2>1
  <2>7. QED BY <1>b, <2>1, <2>2, <2>4, <2>5, <2>6
<1>9. CASE UpdateSucceeds
  <2>1. ASSUME rel.phase # "updating" PROVE ReleaseOK' /\ UpdateInHand'
    BY <1>9, <1>b, <2>1 DEF UpdateSucceeds, UpdateReload, UpdatePackages
  <2>2. ASSUME rel.phase = "updating" PROVE ReleaseOK' /\ UpdateInHand'
    <3>1. /\ rel \in Asked /\ op.name = Service /\ op \in UpdateOps
          /\ entry[Service] \in Entries /\ entry \in [Names -> Entries \cup {None}]
          /\ dir[entry[Service].path] # None
      BY <2>2, <1>b DEF StoreInv, StoreTypeOK, OpInv, UpdateOps, InstallOps, RemoveOps,
                        InstallPhases, Idle
    <3>2. /\ entry'[Service].version \in Versions
          /\ entry'[Service].version >= rel.version
          /\ UNCHANGED <<origin, local, fetched>>
      <4>1. CASE UpdateReload
        <5> DEFINE v == VersionAt(entry[Service].path)
        <5>1. NameOf(v) = Service /\ op.phase = "pulled" BY <3>1, <4>1 DEF UpdateReload
        <5>2. v \in Versions
          BY <3>1, <5>1, <1>b, VersionTypes, NamedVersion, ManifestTypes
             DEF StoreInv, Entries
        <5>3. v >= rel.version BY <2>2, <5>1, <5>2, <1>b
        <5> HIDE DEF v
        <5>4. entry'[Service].version = v
          BY <3>1, <4>1, <1>b DEF UpdateReload, v, Entries
        <5>5. QED BY <1>9, <4>1, <5>2, <5>3, <5>4 DEF UpdateSucceeds, UpdateReload
      <4>2. CASE UpdatePackages
        <5>1. entry'[Service].version = entry[Service].version
          BY <3>1, <4>2, <1>b DEF UpdatePackages, Entries
        <5>2. op.phase = "reinstall" BY <4>2 DEF UpdatePackages
        <5>3. QED BY <1>9, <2>2, <3>1, <4>2, <5>1, <5>2 DEF UpdateSucceeds, UpdatePackages, Entries
      <4>3. QED BY <1>9, <4>1, <4>2 DEF UpdateSucceeds
    <3>3. CASE op' = Idle
      BY <1>9, <1>b, <2>2, <3>1, <3>2, <3>3 DEF UpdateSucceeds
    <3>4. CASE op' # Idle
      <4>1. op' = [op EXCEPT !.phase = "reinstall"] /\ rel' = rel
        BY <1>9, <3>4 DEF UpdateSucceeds, UpdateReload, UpdatePackages, Ends
      <4>2. op'.phase = "reinstall" /\ op'.name = Service
        BY <3>1, <4>1 DEF UpdateOps
      <4>3. QED BY <1>b, <2>2, <3>1, <3>2, <4>1, <4>2
    <3>5. QED BY <3>3, <3>4
  <2>3. QED BY <2>1, <2>2
<1>10. CASE UpdateErrs
  BY <1>10, <1>b DEF UpdateErrs, UpdateRefused, UpdatePackagesFail
<1>11. CASE NodeRestarts
  BY <1>11, <1>b DEF NodeRestarts, Restart
\* What others do: while the release's update is under way, no other operation
\* on the store takes a step.
<1>12. CASE OthersNext
  <2>1. UNCHANGED <<origin, local, fetched, rel>>
    BY <1>12 DEF OthersNext, releaseVars, WorkPulled, InstallFetch, InstallStep, InstallClear,
         InstallPlace, InstallPlaceFails, InstallRefused, InstallEnvironment, InstallUndone,
         InstallPackages, InstallPackagesFail, InstallCommit, UpdatePull, UninstallRemoves,
         UninstallFails, Ensure, EnsureFails, ConfigSet, UninstallEnds
  <2>2. CASE rel.phase # "updating" BY <2>1, <2>2, <1>b
  <2>3. CASE rel.phase = "updating"
    <3>1. op.phase \in {"pulled", "reinstall"} BY <2>3
    <3>2. WorkPulled
      <4>1. op # Idle BY <3>1 DEF Idle
      <4>2. \A kind \in {"link", "clone"} : ~InstallFetch(kind)
        BY <4>1 DEF InstallFetch
      <4>3. ~InstallStep
        BY <3>1 DEF InstallStep, InstallClear, InstallPlace, InstallPlaceFails, InstallRefused,
           InstallEnvironment, InstallUndone, InstallPackages, InstallPackagesFail,
           InstallCommit, InstallPhase
      <4>4. \A n \in Names, clean \in BOOLEAN : ~UpdatePull(n, clean)
        BY <4>1 DEF UpdatePull
      <4>5. \A n \in Names : ~UninstallRemoves(n) /\ ~UninstallFails(n)
        BY <4>1 DEF UninstallRemoves, UninstallFails
      <4>6. \A n \in Names : ~Ensure(n) /\ ~EnsureFails(n) /\ ~ConfigSet(n)
        BY <4>1 DEF Ensure, EnsureFails, ConfigSet
      <4>7. \A removeEnv \in BOOLEAN : ~UninstallEnds(removeEnv)
        BY <3>1 DEF UninstallEnds
      <4>8. QED
        BY <1>12, <4>2, <4>3, <4>4, <4>5, <4>6, <4>7 DEF OthersNext
    <3>3. /\ UNCHANGED <<dir, entry, op>> /\ work' = origin
      BY <3>2 DEF WorkPulled, diskVars
    <3>4. VersionAt(entry[Service].path)' \in {VersionAt(entry[Service].path), origin}
      BY <3>3 DEF VersionAt
    <3>5. rel.version <= origin BY <2>3
    <3>6. QED BY <2>1, <2>3, <3>3, <3>4, <3>5, <1>b
  <2>4. QED BY <2>2, <2>3
<1>13. CASE UNCHANGED vars
  BY <1>13, <1>b DEF vars, storeVars, releaseVars, diskVars, VersionAt
<1>14. QED
  BY <1>1, <1>2, <1>3, <1>4, <1>5, <1>6, <1>7, <1>8, <1>9, <1>10, <1>11, <1>12, <1>13
     DEF Next, OperatorNext

\* The invariant of the store and of the release holds in every reachable state.
THEOREM ReleaseInvariance == Spec => []ReleaseInv
<1>1. ReleaseInit => ReleaseInv
  <2> SUFFICES ASSUME ReleaseInit PROVE ReleaseInv OBVIOUS
  <2>1. StoreTypeOK
    BY StoreAssumption DEF StoreAssumption, ReleaseInit, Init, StoreTypeOK, Versions, Idle
  <2>2. OpInv
    BY DEF ReleaseInit, Init, OpInv, Idle, InstallOps, InstallPhases
  <2>3. ReleaseOK /\ UpdateInHand
    BY StoreAssumption DEF StoreAssumption, ReleaseInit, Init, ReleaseOK, UpdateInHand,
       NoRelease, AskedPhases, DonePhases, Versions
  <2>4. QED BY <2>1, <2>2, <2>3 DEF ReleaseInv, StoreInv
<1>2. ReleaseInv /\ [Next]_vars => ReleaseInv' BY ReleaseStep
<1>3. QED BY <1>1, <1>2, PTL DEF Spec

\* Every variable of the store has its type, and a tool keeps the name that
\* its manifest gives it, whatever fails and whenever the node restarts.
THEOREM StoreTypeCorrect == Spec => []StoreTypeOK
<1>1. ReleaseInv => StoreTypeOK BY DEF ReleaseInv, StoreInv
<1>2. QED BY <1>1, ReleaseInvariance, PTL

\* A proof of release, for a clone of the branch that the node pulls, is written
\* only if the node's update ended with a version that contains the commit that
\* was released.
THEOREM ReleasesAreDeployed == Spec => []ReleasedIsDeployed
<1>1. ReleaseInv => ReleasedIsDeployed
  BY StoreAssumption
     DEF ReleaseInv, ReleaseOK, UpdateInHand, AskedPhases, DonePhases, Asked, Done, Commits,
         NoRelease, ReleasedIsDeployed, Contains, Phase, Versions, StoreAssumption
<1>2. QED BY <1>1, ReleaseInvariance, PTL

-----------------------------------------------------------------------------
(* The table, the directory and the environments.                          *)

\* The environment of an installed tool holds packages that its manifest
\* declares, or is still to be made.
EnvironmentOK(n) ==
  \/ AsDeclared(venv[n], entry[n].version)
  \/ ~entry[n].env /\ venv[n] = None

\* What the properties ask of a tool whose last operation completed.
Agrees(n) ==
  /\ entry[n] = None <=> dir[n] = None
  /\ entry[n] # None => /\ entry[n].path = n
                        /\ VersionAt(n) = entry[n].version
                        /\ EnvironmentOK(n)

\* The operation under way is about an unsettled tool.  An install that has
\* made an environment made it for a name that nobody has; an update that was
\* asked of a settled tool has so far changed its directory only.
OpAgrees ==
  /\ op.phase \notin {"idle", "fetched"} => op.name \in unsettled
  /\ op.phase \in {"environment", "packages"} =>
       entry[NameOf(op.version)] = None /\ dir[op.name] # None
  /\ op.phase = "packages" => venv[NameOf(op.version)] = PackagesOf(op.version)
  /\ op.phase = "pulled" => (op.was => entry[op.name].path = op.name /\ EnvironmentOK(op.name))

AgreeInv == \A n \in Names \ unsettled : Agrees(n)
DiskInv == AgreeInv /\ OpAgrees

\* A settled tool that a step does not concern.
LEMMA StillAgrees ==
  ASSUME AgreeInv, NEW n \in Names, n \notin unsettled,
         entry'[n] = entry[n], dir'[n] = dir[n],
         entry[n] # None => venv'[n] = venv[n],
         work' = work \/ n \notin Linked
  PROVE  Agrees(n)'
<1>1. Agrees(n) BY DEF AgreeInv
<1>2. dir[n] # None => VersionAt(n)' = VersionAt(n) BY DEF VersionAt, Linked
<1>3. QED BY <1>1, <1>2 DEF Agrees, EnvironmentOK

\* What the store's type says, in the form the steps below use it.
LEMMA StoreFunctions ==
  ASSUME StoreInv
  PROVE  /\ dir \in [Names -> Dirs \cup {None}]
         /\ venv \in [Names -> Packages \cup {Bare, None}]
         /\ entry \in [Names -> Entries \cup {None}]
         /\ \A n \in Names : entry[n] # None => NameOf(entry[n].version) = n
         /\ unsettled \subseteq Names
BY DEF StoreInv, StoreTypeOK

\* The operation of an install or an update.
LEMMA OpTypes ==
  ASSUME StoreInv
  PROVE  /\ op.phase \in {"fetched", "cleared", "placed", "environment", "packages"} =>
              /\ op \in InstallOps /\ op.name \in Names
              /\ op.version \in Versions /\ NameOf(op.version) \in Names
         /\ op.phase \in {"pulled", "reinstall"} =>
              /\ op \in UpdateOps /\ op.name \in Names /\ entry[op.name] \in Entries
              /\ entry[op.name].path \in Names /\ dir[entry[op.name].path] # None
         /\ op.phase = "removed" => op.name \in Names
<1>1. op \in {Idle} \cup InstallOps \cup UpdateOps \cup RemoveOps
      /\ (op \in InstallOps => NameOf(op.version) # None)
  BY DEF StoreInv, OpInv
<1>2. op.phase \in {"fetched", "cleared", "placed", "environment", "packages"} => op \in InstallOps
  BY <1>1 DEF Idle, UpdateOps, RemoveOps
<1>3. op.phase \in {"pulled", "reinstall"} => op \in UpdateOps
  BY <1>1 DEF Idle, InstallOps, InstallPhases, RemoveOps
<1>4. op.phase = "removed" => op.name \in Names
  BY <1>1 DEF Idle, InstallOps, InstallPhases, UpdateOps, RemoveOps
<1>5. op \in InstallOps => op.name \in Names /\ op.version \in Versions /\ NameOf(op.version) \in Names
  <2>1. op \in InstallOps => op.name \in Names /\ op.version \in Versions BY DEF InstallOps
  <2>2. \A v \in Versions : v \in 0 .. MaxVersion BY StoreAssumption DEF StoreAssumption, Versions
  <2>3. QED BY <1>1, <2>1, <2>2, NamedVersion
<1>6. op.phase \in {"pulled", "reinstall"} =>
        /\ op.name \in Names /\ entry[op.name] \in Entries
        /\ entry[op.name].path \in Names /\ dir[entry[op.name].path] # None
  <2>1. op \in UpdateOps => op.name \in Names BY DEF UpdateOps
  <2>2. \A e \in Entries : e.path \in Names BY DEF Entries
  <2>3. QED BY <1>3, <2>1, <2>2, StoreFunctions DEF StoreInv, OpInv
<1>7. QED BY <1>2, <1>3, <1>4, <1>5, <1>6

\* The steps of an install: what it clears and places is unsettled, and what it
\* settles in the end is what it placed.
LEMMA InstallAgrees ==
  ASSUME StoreInv, DiskInv,
         \E kind \in Kinds : InstallFetch(kind) \/ InstallStep
  PROVE  DiskInv'
<1> USE StoreFunctions DEF DiskInv, AgreeInv, OpAgrees, Idle, Ends, InstallPhase, diskVars
<1>1. ASSUME NEW kind \in Kinds, InstallFetch(kind) PROVE DiskInv'
  <2>1. op'.phase = "fetched" BY <1>1 DEF InstallFetch
  <2>2. UNCHANGED <<work, dir, venv, entry, unsettled>> BY <1>1 DEF InstallFetch
  <2>3. AgreeInv' BY <2>2, StillAgrees
  <2>4. QED BY <2>1, <2>3
<1>2. ASSUME InstallClear PROVE DiskInv'
  <2>1. /\ dir' = [dir EXCEPT ![op.name] = None] /\ unsettled' = unsettled \cup {op.name}
        /\ UNCHANGED <<work, venv, entry>>
    BY <1>2 DEF InstallClear
  <2>2. op'.phase = "cleared" /\ op'.name = op.name BY <1>2, OpTypes DEF InstallClear, InstallOps
  <2>3. AgreeInv' BY <2>1, StillAgrees
  <2>4. QED BY <2>1, <2>2, <2>3
\* Steps that put something at op.name or take it away.
<1>3. ASSUME op.phase \in {"cleared", "placed", "packages"},
             \A p \in Names : p # op.name => dir'[p] = dir[p],
             UNCHANGED <<work, venv, entry, unsettled>>
      PROVE  AgreeInv'
  BY <1>3, StillAgrees
<1>4. CASE InstallPlace
  <2>1. /\ op.phase = "cleared" /\ dir' = [dir EXCEPT ![op.name] = Copy(op.version, TRUE)]
        /\ UNCHANGED <<work, venv, entry, unsettled>>
    BY <1>4 DEF InstallPlace
  <2>2. op'.phase = "placed" /\ op'.name = op.name BY <1>4, OpTypes DEF InstallPlace, InstallOps
  <2>3. \A p \in Names : p # op.name => dir'[p] = dir[p] BY <2>1
  <2>4. AgreeInv' BY <1>3, <2>1, <2>3
  <2>5. QED BY <2>1, <2>2, <2>4
<1>5. CASE InstallPlaceFails \/ InstallRefused \/ InstallUndone
  <2>1. /\ op.phase \in {"cleared", "placed", "packages"} /\ op'.phase = "idle"
        /\ UNCHANGED <<work, venv, entry, unsettled>>
    <3>1. CASE InstallPlaceFails BY <3>1 DEF InstallPlaceFails
    <3>2. CASE InstallRefused BY <3>2 DEF InstallRefused
    <3>3. CASE InstallUndone BY <3>3 DEF InstallUndone
    <3>4. QED BY <1>5, <3>1, <3>2, <3>3
  <2>2. \A p \in Names : p # op.name => dir'[p] = dir[p]
    BY <1>5 DEF InstallPlaceFails, InstallRefused, InstallUndone
  <2>3. AgreeInv' BY <1>3, <2>1, <2>2
  <2>4. QED BY <2>1, <2>3
\* Steps that change the environment of a name that no entry has.
<1>6. ASSUME NEW m \in Names, entry[m] = None,
             \A p \in Names : p # m => venv'[p] = venv[p],
             UNCHANGED <<work, dir, entry, unsettled>>
      PROVE  AgreeInv'
  BY <1>6, StillAgrees
<1>7. CASE InstallEnvironment
  <2> DEFINE v == VersionAt(op.name)
             m == NameOf(v)
  <2>1. /\ op.phase = "placed" /\ entry[m] = None /\ m # None /\ CreateVenv(m)
        /\ op' = [op EXCEPT !.phase = "environment", !.version = v]
        /\ UNCHANGED <<work, dir, entry, unsettled>>
    BY <1>7 DEF InstallEnvironment
  <2>2. op \in InstallOps /\ op.name \in Names /\ dir[op.name] # None
    BY <2>1, OpTypes DEF StoreInv, OpInv
  <2>3. m \in Names
    BY <2>1, <2>2, VersionTypes, NamedVersion DEF StoreInv
  <2>4. op'.phase = "environment" /\ op'.name = op.name /\ NameOf(op'.version) = m
    BY <2>1, <2>2 DEF InstallOps
  <2> HIDE DEF v, m
  <2>5. \A p \in Names : p # m => venv'[p] = venv[p] BY <2>1 DEF CreateVenv
  <2>6. AgreeInv' BY <1>6, <2>1, <2>3, <2>5
  <2>7. OpAgrees'
    <3>1. op'.name \in unsettled' BY <2>1, <2>4
    <3>2. (entry[NameOf(op.version)] = None)' BY <2>1, <2>4
    <3>3. dir'[op'.name] # None BY <2>1, <2>2, <2>4
    <3>4. QED BY <2>4, <3>1, <3>2, <3>3
  <2>8. QED BY <2>6, <2>7
<1>8. CASE InstallPackages \/ InstallPackagesFail
  <2> DEFINE m == NameOf(op.version)
             k == IF InstallPackages THEN PackagesOf(op.version) ELSE Bare
  <2>1. /\ op.phase = "environment" /\ venv' = [venv EXCEPT ![m] = k]
        /\ UNCHANGED <<work, dir, entry, unsettled>>
    <3>1. CASE InstallPackages BY <3>1 DEF InstallPackages
    <3>2. CASE ~InstallPackages BY <1>8, <3>2 DEF InstallPackagesFail
    <3>3. QED BY <3>1, <3>2
  <2>2. m \in Names /\ entry[m] = None /\ op \in InstallOps BY <2>1, OpTypes
  <2>3. AgreeInv' BY <1>6, <2>1, <2>2
  <2>4. CASE InstallPackages
    <3>1. op'.phase = "packages" /\ op'.name = op.name /\ op'.version = op.version
      BY <2>2, <2>4 DEF InstallPackages, InstallOps
    <3>2. venv'[m] = PackagesOf(op.version) BY <2>1, <2>2, <2>4
    <3>3. NameOf(op'.version) = m /\ PackagesOf(op'.version) = PackagesOf(op.version) BY <3>1
    <3> HIDE DEF m, k
    <3>4. entry'[NameOf(op'.version)] = None /\ dir'[op'.name] # None /\ op'.name \in unsettled'
      BY <2>1, <2>2, <3>1, <3>3
    <3>5. OpAgrees' BY <3>1, <3>2, <3>3, <3>4
    <3>6. QED BY <2>3, <3>5
  <2>5. CASE ~InstallPackages
    <3>1. op'.phase = "idle" BY <1>8, <2>5 DEF InstallPackagesFail
    <3>2. QED BY <2>3, <3>1
  <2>6. QED BY <2>4, <2>5
<1>9. CASE InstallCommit
  <2> DEFINE n == NameOf(op.version)
             e == [path |-> op.name, version |-> op.version, env |-> TRUE]
  <2>1. /\ op.phase = "packages" /\ entry' = [entry EXCEPT ![n] = e]
        /\ unsettled' = IF n = op.name /\ VersionAt(n) = op.version
                          THEN unsettled \ {n} ELSE unsettled \cup {n}
        /\ op'.phase = "idle" /\ UNCHANGED <<work, dir, venv>>
    BY <1>9 DEF InstallCommit
  <2>2. n \in Names /\ op.name \in Names /\ op.version \in Versions /\ dir[op.name] # None
        /\ venv[n] = PackagesOf(op.version)
    BY <2>1, OpTypes
  <2>3. e \in Entries BY <2>2 DEF Entries
  <2>4. e # None BY <2>3, RecordsAreSome
  <2>5. e.path = op.name /\ e.version = op.version OBVIOUS
  <2> HIDE DEF n, e
  <2>6. ASSUME NEW m \in Names, m \notin unsettled' PROVE Agrees(m)'
    <3>1. CASE m # n
      <4>1. m \notin unsettled /\ entry'[m] = entry[m] BY <2>1, <2>6, <3>1
      <4>2. QED BY <2>1, <4>1, StillAgrees
    <3>2. CASE m = n
      <4>1. n = op.name /\ VersionAt(n) = op.version BY <2>1, <2>6, <3>2
      <4>2. entry'[m] = e /\ VersionAt(m)' = VersionAt(m) BY <2>1, <2>2, <3>2 DEF VersionAt
      <4>3. AsDeclared(PackagesOf(op.version), op.version) BY <2>2, OwnPackages
      <4>4. AsDeclared(venv[m], entry[m].version)'
        BY <2>1, <2>2, <2>5, <3>2, <4>2, <4>3 DEF AsDeclared
      <4>5. QED BY <2>1, <2>2, <2>4, <2>5, <3>2, <4>1, <4>2, <4>4 DEF Agrees, EnvironmentOK
    <3>3. QED BY <3>1, <3>2
  <2>7. QED BY <2>1, <2>6
<1>10. QED BY <1>1, <1>2, <1>4, <1>5, <1>7, <1>8, <1>9 DEF InstallStep

\* The steps of an update: it leaves alone every tool but the one it is about,
\* those that link to the same checkout and the one that has its directory.
LEMMA UpdateAgrees ==
  ASSUME StoreInv, DiskInv,
         (\E n \in Names, clean \in BOOLEAN : UpdatePull(n, clean)) \/ UpdateStep
  PROVE  DiskInv'
<1> USE StoreFunctions DEF DiskInv, AgreeInv, OpAgrees, Idle, Ends, diskVars
<1>1. ASSUME NEW n \in Names, NEW clean \in BOOLEAN, UpdatePull(n, clean) PROVE DiskInv'
  <2> DEFINE p == entry[n].path
  <2>1. /\ op'.phase = "pulled" /\ op'.name = n /\ (op'.was <=> n \notin unsettled)
        /\ UNCHANGED <<venv, entry>> /\ n \in unsettled' /\ unsettled \subseteq unsettled'
        /\ entry[n] # None
    BY <1>1 DEF UpdatePull
  <2>2. ASSUME NEW m \in Names, m \notin unsettled'
        PROVE  dir'[m] = dir[m] /\ (work' = work \/ m \notin Linked)
    <3>1. CASE dir[p].kind = "link" BY <1>1, <2>2, <3>1 DEF UpdatePull
    <3>2. CASE dir[p].kind # "link"
      <4>1. m # p /\ work' = work BY <1>1, <2>2, <3>2 DEF UpdatePull
      <4>2. QED BY <1>1, <3>2, <4>1 DEF UpdatePull
    <3>3. QED BY <3>1, <3>2
  <2> HIDE DEF p
  <2>3. AgreeInv' BY <2>1, <2>2, StillAgrees
  <2>4. ASSUME op'.was PROVE (entry[op.name].path = op.name /\ EnvironmentOK(op.name))'
    <3>1. Agrees(n) BY <2>1, <2>4
    <3>2. entry[n].path = n /\ EnvironmentOK(n) BY <2>1, <3>1 DEF Agrees
    <3>3. EnvironmentOK(n)' BY <2>1, <3>2 DEF EnvironmentOK
    <3>4. QED BY <2>1, <3>2, <3>3
  <2>5. OpAgrees' BY <2>1, <2>4
  <2>6. QED BY <2>3, <2>5
<1>2. CASE UpdateRefused
  <2>1. op'.phase = "idle" /\ UNCHANGED <<work, dir, venv, entry, unsettled>>
    BY <1>2 DEF UpdateRefused
  <2>2. AgreeInv' BY <2>1, StillAgrees
  <2>3. QED BY <2>1, <2>2
<1>3. CASE UpdateReload
  <2> DEFINE n == op.name
             v == VersionAt(entry[n].path)
             e == [entry[n] EXCEPT !.version = v]
             ends == ~(op.clean \/ DeclaredIn(v) # DeclaredIn(entry[n].version))
  <2>1. /\ op.phase = "pulled" /\ n \in Names /\ n \in unsettled
        /\ op \in UpdateOps /\ entry[n] \in Entries /\ dir[entry[n].path] # None
        /\ NameOf(v) = n
    BY <1>3, OpTypes DEF UpdateReload
  <2>2. /\ entry' = [entry EXCEPT ![n] = e]
        /\ UNCHANGED <<work, dir, venv>>
        /\ ends => op' = Idle /\ unsettled' = IF op.was THEN unsettled \ {n} ELSE unsettled
        /\ ~ends => op' = [op EXCEPT !.phase = "reinstall"] /\ unsettled' = unsettled
    BY <1>3 DEF UpdateReload, Settles
  <2>3. v \in Versions
    BY <1>3, <2>1, VersionTypes, NamedVersion, ManifestTypes DEF StoreInv, Entries
  <2>4. /\ e.path = entry[n].path /\ e.version = v /\ e.env = entry[n].env
        /\ e \in Entries
    BY <2>1, <2>3 DEF Entries
  <2>5. e # None BY <2>4, RecordsAreSome
  <2>6. op.was => entry[n].path = n /\ EnvironmentOK(n) BY <2>1
  <2>7. ~ends => op'.phase = "reinstall" /\ op'.name = n BY <2>1, <2>2 DEF UpdateOps
  <2>8. ends => DeclaredIn(v) = DeclaredIn(entry[n].version) OBVIOUS
  <2>9. v = VersionAt(entry[n].path) OBVIOUS
  <2> HIDE DEF n, v, e, ends
  <2>10. ASSUME NEW m \in Names, m \notin unsettled' PROVE Agrees(m)'
    <3>1. CASE m # n
      <4>1. m \notin unsettled /\ entry'[m] = entry[m] BY <2>2, <2>10, <3>1
      <4>2. QED BY <2>2, <4>1, StillAgrees
    <3>2. CASE m = n
      <4>1. ends /\ op.was BY <2>1, <2>2, <2>10, <3>2
      <4>2. entry'[m] = e BY <2>1, <2>2, <3>2
      <4>3. e.path = m /\ dir'[m] # None /\ VersionAt(m)' = v
        BY <2>1, <2>2, <2>4, <2>6, <2>9, <3>2, <4>1 DEF VersionAt
      <4>4. EnvironmentOK(m)'
        BY <2>2, <2>4, <2>6, <2>8, <3>2, <4>1, <4>2 DEF EnvironmentOK, AsDeclared
      <4>5. QED BY <2>4, <2>5, <4>2, <4>3, <4>4 DEF Agrees
    <3>3. QED BY <3>1, <3>2
  <2>11. OpAgrees'
    <3>1. CASE ends BY <2>2, <3>1
    <3>2. CASE ~ends BY <2>1, <2>2, <2>7, <3>2
    <3>3. QED BY <3>1, <3>2
  <2>12. QED BY <2>10, <2>11
<1>4. CASE UpdatePackages
  <2> DEFINE n == op.name
             p == entry[n].path
             e == [entry[n] EXCEPT !.env = TRUE]
  <2>1. /\ n \in Names /\ n \in unsettled
        /\ entry[n] \in Entries /\ dir[p] # None
    BY <1>4, OpTypes DEF UpdatePackages
  <2>2. /\ entry' = [entry EXCEPT ![n] = e]
        /\ venv' = [venv EXCEPT ![n] = PackagesOf(entry[n].version)]
        /\ op'.phase = "idle" /\ UNCHANGED <<work, dir>>
        /\ unsettled' = IF p = n /\ dir[p].whole /\ VersionAt(p) = entry[n].version
                          THEN unsettled \ {n} ELSE unsettled
    BY <1>4 DEF UpdatePackages, Settles
  <2>3. e \in Entries /\ e.path = p /\ e.version = entry[n].version BY <2>1 DEF Entries
  <2>4. e # None BY <2>3, RecordsAreSome
  <2> HIDE DEF n, p, e
  <2>5. ASSUME NEW m \in Names, m \notin unsettled' PROVE Agrees(m)'
    <3>1. CASE m # n
      <4>1. m \notin unsettled /\ entry'[m] = entry[m] /\ venv'[m] = venv[m]
        BY <2>2, <2>5, <3>1
      <4>2. QED BY <2>2, <4>1, StillAgrees
    <3>2. CASE m = n
      <4>1. p = m /\ VersionAt(m) = entry[m].version BY <2>1, <2>2, <2>5, <3>2
      <4>2. entry'[m] = e /\ venv'[m] = PackagesOf(entry[m].version)
        BY <2>1, <2>2, <3>2
      <4>3. VersionAt(m)' = VersionAt(m) BY <2>2 DEF VersionAt
      <4>4. entry[m].version \in Versions BY <2>1, <3>2 DEF Entries, n
      <4>5. AsDeclared(PackagesOf(entry[m].version), entry[m].version) BY <4>4, OwnPackages
      <4>6. EnvironmentOK(m)'
        BY <2>1, <2>3, <3>2, <4>2, <4>5 DEF EnvironmentOK, AsDeclared, n
      <4>7. QED BY <2>1, <2>2, <2>3, <2>4, <3>2, <4>1, <4>2, <4>3, <4>6 DEF Agrees
    <3>3. QED BY <3>1, <3>2
  <2>6. QED BY <2>2, <2>5
<1>5. CASE UpdatePackagesFail
  <2>1. /\ op.phase = "reinstall" /\ op'.phase = "idle"
        /\ UNCHANGED <<work, dir, entry, unsettled>>
    BY <1>5 DEF UpdatePackagesFail
  <2>2. \A m \in Names : m # op.name => venv'[m] = venv[m] BY <1>5 DEF UpdatePackagesFail
  <2>3. AgreeInv' BY <2>1, <2>2, StillAgrees
  <2>4. QED BY <2>1, <2>3
<1>6. QED BY <1>1, <1>2, <1>3, <1>4, <1>5 DEF UpdateStep

\* What LoadAll finds of a tool whose last operation completed is the tool.
LEMMA LoadAllAgrees ==
  ASSUME StoreInv, AgreeInv, NEW m \in Names, m \notin unsettled,
         \A q \in unsettled : Loadable(q) => NameOf(VersionAt(q)) # m
  PROVE  {q \in Names : Loadable(q) /\ NameOf(VersionAt(q)) = m}
           = IF entry[m] = None THEN {} ELSE {m}
<1> USE StoreFunctions
<1>1. ASSUME NEW q \in Names, Loadable(q), NameOf(VersionAt(q)) = m PROVE q = m
  <2>1. q \notin unsettled BY <1>1
  <2>2. Agrees(q) /\ dir[q] # None BY <1>1, <2>1 DEF AgreeInv, Loadable
  <2>3. entry[q] # None /\ VersionAt(q) = entry[q].version BY <2>2 DEF Agrees
  <2>4. QED BY <1>1, <2>3
<1>2. Agrees(m) BY DEF AgreeInv
<1>3. CASE entry[m] = None
  <2>1. ~Loadable(m) BY <1>2, <1>3 DEF Agrees, Loadable
  <2>2. QED BY <1>1, <1>3, <2>1
<1>4. CASE entry[m] # None
  <2>1. dir[m] # None /\ NameOf(VersionAt(m)) = m BY <1>2, <1>4 DEF Agrees
  <2>2. Loadable(m) BY <2>1, ManifestTypes DEF Loadable
  <2>3. QED BY <1>1, <1>4, <2>1, <2>2
<1>5. QED BY <1>3, <1>4

\* The others.
LEMMA OthersAgree ==
  ASSUME StoreInv, DiskInv,
         \/ WorkPulled
         \/ \E n \in Names : UninstallRemoves(n) \/ UninstallFails(n) \/ Ensure(n) \/ EnsureFails(n) \/ ConfigSet(n)
         \/ \E removeEnv \in BOOLEAN : UninstallEnds(removeEnv)
         \/ Restart
  PROVE  DiskInv'
<1> USE StoreFunctions DEF DiskInv, AgreeInv, Ends, diskVars
<1>1. CASE WorkPulled
  <2>1. /\ unsettled' = unsettled \cup Linked
        /\ UNCHANGED <<dir, venv, entry, op>>
    BY <1>1 DEF WorkPulled
  <2>2. AgreeInv' BY <2>1, StillAgrees
  <2>3. OpAgrees' BY <2>1 DEF OpAgrees, EnvironmentOK
  <2>4. QED BY <2>2, <2>3
<1>2. ASSUME NEW n \in Names, UninstallRemoves(n) PROVE DiskInv'
  <2>1. /\ dir' = [dir EXCEPT ![entry[n].path] = None]
        /\ unsettled' = unsettled \cup {n, entry[n].path}
        /\ op'.phase = "removed" /\ op'.name = n
        /\ UNCHANGED <<work, venv, entry>>
    BY <1>2 DEF UninstallRemoves
  <2>2. AgreeInv' BY <2>1, StillAgrees
  <2>3. QED BY <2>1, <2>2 DEF OpAgrees
<1>3. ASSUME NEW removeEnv \in BOOLEAN, UninstallEnds(removeEnv) PROVE DiskInv'
  <2> DEFINE n == op.name
  <2>1. /\ n \in Names /\ n \in unsettled
        /\ entry' = [entry EXCEPT ![n] = None]
        /\ \A m \in Names : m # n => venv'[m] = venv[m]
        /\ unsettled' = IF dir[n] = None THEN unsettled \ {n} ELSE unsettled
        /\ op' = Idle /\ UNCHANGED <<work, dir>>
    BY <1>3, OpTypes DEF UninstallEnds, Settles, OpAgrees
  <2> HIDE DEF n
  <2>2. ASSUME NEW m \in Names, m \notin unsettled' PROVE Agrees(m)'
    <3>1. CASE m # n
      <4>1. m \notin unsettled /\ entry'[m] = entry[m] BY <2>1, <2>2, <3>1
      <4>2. QED BY <2>1, <3>1, <4>1, StillAgrees
    <3>2. CASE m = n
      <4>1. dir'[m] = None /\ entry'[m] = None BY <2>1, <2>2, <3>2
      <4>2. QED BY <4>1 DEF Agrees
    <3>3. QED BY <3>1, <3>2
  <2>3. OpAgrees' BY <2>1 DEF OpAgrees, Idle
  <2>4. QED BY <2>2, <2>3
<1>4. ASSUME NEW n \in Names, Ensure(n) PROVE DiskInv'
  <2> DEFINE e == [entry[n] EXCEPT !.env = TRUE]
  <2>1. /\ op = Idle /\ entry[n] # None /\ ~entry[n].env
        /\ entry' = [entry EXCEPT ![n] = e]
        /\ venv' = [venv EXCEPT ![n] = IF venv[n] = None THEN PackagesOf(entry[n].version)
                                                         ELSE venv[n]]
        /\ UNCHANGED <<work, dir, op, unsettled>>
    BY <1>4 DEF Ensure
  <2>2. entry[n] \in Entries BY <2>1
  <2>3. e \in Entries /\ e.path = entry[n].path /\ e.version = entry[n].version
    BY <2>2 DEF Entries
  <2>4. e # None BY <2>3, RecordsAreSome
  <2> HIDE DEF e
  <2>5. ASSUME NEW m \in Names, m \notin unsettled PROVE Agrees(m)'
    <3>1. CASE m # n BY <2>1, <2>5, <3>1, StillAgrees
    <3>2. CASE m = n
      <4>1. Agrees(m) BY <2>5
      <4>2. entry'[m] = e /\ dir'[m] # None /\ VersionAt(m)' = VersionAt(m)
        BY <2>1, <3>2, <4>1 DEF Agrees, VersionAt
      <4>3. AsDeclared(venv'[m], entry[m].version)
        <5>1. entry[m].version \in Versions BY <2>2, <3>2 DEF Entries
        <5>2. AsDeclared(PackagesOf(entry[m].version), entry[m].version) BY <5>1, OwnPackages
        <5>3. venv[m] = None \/ AsDeclared(venv[m], entry[m].version)
          BY <2>1, <3>2, <4>1 DEF Agrees, EnvironmentOK
        <5>4. CASE venv[m] = None BY <2>1, <3>2, <5>2, <5>4
        <5>5. CASE venv[m] # None BY <2>1, <3>2, <5>3, <5>5
        <5>6. QED BY <5>4, <5>5
      <4>4. EnvironmentOK(m)' BY <2>3, <3>2, <4>2, <4>3 DEF EnvironmentOK, AsDeclared
      <4>5. QED BY <2>1, <2>3, <2>4, <3>2, <4>1, <4>2, <4>4 DEF Agrees
    <3>3. QED BY <3>1, <3>2
  <2>6. AgreeInv' BY <2>1, <2>5
  <2>7. OpAgrees' BY <2>1 DEF OpAgrees, Idle
  <2>8. QED BY <2>6, <2>7
<1>5. ASSUME NEW n \in Names, EnsureFails(n) PROVE DiskInv'
  <2>1. /\ op = Idle /\ unsettled' = unsettled \cup {n}
        /\ UNCHANGED <<work, dir, entry, op>>
    BY <1>5 DEF EnsureFails
  <2>2. \A m \in Names : m # n => venv'[m] = venv[m] BY <1>5 DEF EnsureFails, CreateVenv
  <2>3. AgreeInv' BY <2>1, <2>2, StillAgrees
  <2>4. OpAgrees' BY <2>1 DEF OpAgrees, Idle
  <2>5. QED BY <2>3, <2>4
<1>6. ASSUME NEW n \in Names, ConfigSet(n) PROVE DiskInv'
  <2>1. op = Idle /\ UNCHANGED <<work, dir, venv, entry, op, unsettled>> BY <1>6 DEF ConfigSet
  <2>2. AgreeInv' BY <2>1, StillAgrees
  <2>3. OpAgrees' BY <2>1 DEF OpAgrees, Idle
  <2>4. QED BY <2>2, <2>3
<1>7. CASE Restart
  <2>1. PICK last \in [Names -> Names] :
          entry' = [n \in Names |->
            LET found == {q \in Names : Loadable(q) /\ NameOf(VersionAt(q)) = n}
                q == IF last[n] \in found THEN last[n] ELSE CHOOSE r \in found : TRUE
            IN IF found = {} THEN None
               ELSE [path |-> q, version |-> VersionAt(q), env |-> FALSE]]
    BY <1>7 DEF Restart, LoadAll
  <2>2. /\ op' = Idle /\ UNCHANGED <<work, dir, venv>>
        /\ unsettled \subseteq unsettled'
        /\ \A q \in unsettled : Loadable(q) => NameOf(VersionAt(q)) \in unsettled'
    BY <1>7 DEF Restart
  <2>3. ASSUME NEW m \in Names, m \notin unsettled' PROVE Agrees(m)'
    <3> DEFINE found == {q \in Names : Loadable(q) /\ NameOf(VersionAt(q)) = m}
               q == IF last[m] \in found THEN last[m] ELSE CHOOSE r \in found : TRUE
    <3>1. found = IF entry[m] = None THEN {} ELSE {m}
      BY <2>2, <2>3, LoadAllAgrees
    <3>2. Agrees(m) BY <2>2, <2>3
    <3>3. entry'[m] = IF found = {} THEN None
                      ELSE [path |-> q, version |-> VersionAt(q), env |-> FALSE]
      BY <2>1
    <3>4. q \in found \/ found = {} OBVIOUS
    <3> HIDE DEF found, q
    <3>5. CASE entry[m] = None
      <4>1. entry'[m] = None /\ dir'[m] = None BY <2>2, <3>1, <3>2, <3>3, <3>5 DEF Agrees
      <4>2. QED BY <4>1 DEF Agrees
    <3>6. CASE entry[m] # None
      <4>1. entry'[m] = [path |-> m, version |-> VersionAt(m), env |-> FALSE]
        BY <3>1, <3>3, <3>4, <3>6
      <4>2. dir[m] # None /\ VersionAt(m) = entry[m].version /\ EnvironmentOK(m)
        BY <3>2, <3>6 DEF Agrees
      <4>3. entry[m].version \in Versions
        <5>1. entry[m] \in Entries BY <3>6
        <5>2. QED BY <5>1 DEF Entries
      <4>4. entry'[m] # None
        <5>1. entry'[m] \in Entries BY <4>1, <4>2, <4>3 DEF Entries
        <5>2. QED BY <5>1, RecordsAreSome
      <4>5. VersionAt(m)' = VersionAt(m) BY <2>2 DEF VersionAt
      <4>6. EnvironmentOK(m)' BY <2>2, <4>1, <4>2 DEF EnvironmentOK
      <4>7. QED BY <2>2, <4>1, <4>2, <4>4, <4>5, <4>6 DEF Agrees
    <3>7. QED BY <3>5, <3>6
  <2>4. OpAgrees' BY <2>2 DEF OpAgrees, Idle
  <2>5. QED BY <2>3, <2>4
<1>8. ASSUME NEW n \in Names, UninstallFails(n) PROVE DiskInv'
  <2>1. /\ op = Idle /\ unsettled' = unsettled \cup {n, entry[n].path}
        /\ \A p \in Names : p # entry[n].path => dir'[p] = dir[p]
        /\ UNCHANGED <<work, venv, entry, op>>
    BY <1>8 DEF UninstallFails
  <2>2. AgreeInv' BY <2>1, StillAgrees
  <2>3. OpAgrees' BY <2>1 DEF OpAgrees, Idle
  <2>4. QED BY <2>2, <2>3
<1>9. QED BY <1>1, <1>2, <1>3, <1>4, <1>5, <1>6, <1>7, <1>8

\* Every step, the operator's included, keeps table, directory and environments
\* in agreement.
LEMMA DiskStep ==
  ASSUME StoreInv, DiskInv, [Next]_vars
  PROVE  DiskInv'
<1>1. ASSUME UNCHANGED <<work, diskVars, entry, op, unsettled>> PROVE DiskInv'
  BY <1>1 DEF diskVars, DiskInv, AgreeInv, OpAgrees, Agrees, EnvironmentOK, VersionAt
<1>2. CASE OperatorNext
  <2>1. ASSUME NEW clean \in BOOLEAN, RequestUpdate(clean) PROVE DiskInv'
    BY <2>1, UpdateAgrees, ServiceAssumption DEF RequestUpdate, ServiceAssumption
  <2>2. CASE Push BY <1>1, <2>2 DEF Push
  <2>3. CASE Commit \/ Fetch \/ Merge \/ LocalChecked \/ OtherChecked
               \/ InspectedBefore \/ InspectedAfter
               \/ HealthCalled \/ SmokeCalled \/ GivesUp
    <3>1. UNCHANGED storeVars
      BY <2>3 DEF Commit, Fetch, Merge, LocalChecked, OtherChecked, InspectedBefore, InspectedAfter,
                  HealthCalled, SmokeCalled, GivesUp
    <3>2. QED BY <1>1, <3>1 DEF storeVars
  <2>4. QED BY <1>2, <2>1, <2>2, <2>3 DEF OperatorNext
<1>3. CASE OthersPush BY <1>1, <1>3 DEF OthersPush, Pushed
<1>4. CASE OthersNext
  BY <1>4, InstallAgrees, UpdateAgrees, OthersAgree DEF OthersNext, Kinds
<1>5. CASE UpdateSucceeds \/ UpdateErrs
  BY <1>5, UpdateAgrees DEF UpdateSucceeds, UpdateErrs, UpdateStep
<1>6. CASE NodeRestarts
  BY <1>6, OthersAgree DEF NodeRestarts
<1>7. CASE UNCHANGED vars BY <1>1, <1>7 DEF vars, storeVars
<1>8. QED BY <1>2, <1>3, <1>4, <1>5, <1>6, <1>7 DEF Next

THEOREM DiskInvariance == Spec => []DiskInv
<1>1. ReleaseInit => DiskInv
  BY DEF ReleaseInit, Init, Idle, DiskInv, AgreeInv, OpAgrees, Agrees
<1>2. ReleaseInv => StoreInv BY DEF ReleaseInv
<1>3. StoreInv /\ DiskInv /\ [Next]_vars => DiskInv' BY DiskStep
<1>4. QED BY <1>1, <1>2, <1>3, ReleaseInvariance, PTL DEF Spec

\* The manager's table, the tools directory and the checkout agree on every
\* settled tool, whatever is installed, updated,
\* uninstalled, released and pulled beside it, fails or dies half way.
THEOREM TableAgrees == Spec => []DiskAgrees
<1>1. DiskInv => DiskAgrees BY DEF DiskInv, AgreeInv, Agrees, DiskAgrees
<1>2. QED BY <1>1, DiskInvariance, PTL

\* Such a tool, once it has been started, runs with packages that were installed
\* for a manifest that declares what its own declares.
THEOREM EnvironmentsMatch == Spec => []EnvironmentMatches
<1>1. DiskInv => EnvironmentMatches
  BY DEF DiskInv, AgreeInv, Agrees, EnvironmentOK, EnvironmentMatches
<1>2. QED BY <1>1, DiskInvariance, PTL
=============================================================================
