------------------------- MODULE IncrementVersionProofs -------------------------
(***************************************************************************)
(* The properties of IncrementVersion for any number of packages and runs. *)
(***************************************************************************)
EXTENDS IncrementVersion, TLAPS

(* Later compares the parts from the left.                                 *)
LEMMA LaterByParts ==
    ASSUME NEW v \in Versions, NEW w \in Versions
    PROVE  Later(v, w) <=> \/ v[1] > w[1]
                           \/ v[1] = w[1] /\ v[2] > w[2]
                           \/ v[1] = w[1] /\ v[2] = w[2] /\ v[3] > w[3]
<1>1. 1..3 = {1, 2, 3} /\ 1..(1 - 1) = {} /\ 1..(2 - 1) = {1} /\ 1..(3 - 1) = {1, 2}
  OBVIOUS
<1> QED BY <1>1 DEF Later

(* The new version is later than all that are not later than the old one.  *)
LEMMA NewIsLater ==
    ASSUME NEW v \in Versions, NEW w \in Versions, ~Later(w, v)
    PROVE  /\ getNewVersion(v) \in Versions
           /\ Later(getNewVersion(v), w)
           /\ ~Later(w, getNewVersion(v))
<1>1. INCREMENT_INDEX \in {2, 3}
  BY DEF INCREMENT_INDEX
<1>2. getNewVersion(v) \in Versions
  BY <1>1 DEF getNewVersion, Versions
<1>3. /\ getNewVersion(v)[1] = v[1]
      /\ \/ getNewVersion(v)[2] = v[2] + 1
         \/ getNewVersion(v)[2] = v[2] /\ getNewVersion(v)[3] = v[3] + 1
  BY <1>1 DEF getNewVersion
<1>4. v \in [1..3 -> Nat] /\ w \in [1..3 -> Nat] /\ getNewVersion(v) \in [1..3 -> Nat]
  BY <1>2 DEF Versions
<1> QED BY <1>2, <1>3, <1>4, LaterByParts

LEMMA NotLaterThanItself == \A v \in Versions : ~Later(v, v)
BY LaterByParts DEF Versions

-------------------------------------------------------------------------------
OnFiles(f) == f = [p \in Files |-> f[p]]

AtOneVersion(files) == \E v \in Versions : files = [p \in Files |-> PackageJson(p, v)]

Whole(p, content) == \E v \in Versions : content = PackageJson(p, v)

(* The workspace's file is written first, so no other is at a later version*)
(* than the workspace, whatever was stopped.                               *)
WorkspaceIsLatest(files) ==
    files[1] # None => \A p \in Files :
        files[p] # None => ~Later(files[p].version, files[1].version)

Sound(files) ==
    /\ OnFiles(files)
    /\ \A p \in Files : files[p] # None => Whole(p, files[p])
    /\ WorkspaceIsLatest(files)

(* The first n of the files a run has read have their new version.         *)
Begun(read, new, files, n) ==
    /\ OnFiles(read) /\ OnFiles(files)
    /\ \A p \in Files : Whole(p, read[p]) /\ ~Later(read[p].version, read[1].version)
    /\ new = getNewVersion(read[1].version)
    /\ \A p \in Files : files[p] = IF p <= n THEN PackageJson(p, new) ELSE read[p]

VersionInv ==
    /\ AtOneVersion(committed)
    /\ written \in 0..Packages /\ running \in BOOLEAN
    /\ Sound(disk)
    /\ running => Begun(packageJsons, newVersion, disk, written)
    /\ ~running /\ written = Packages => AtOneVersion(disk)

LEMMA OneIsAFile == 1 \in Files
BY IncrementVersionAssumption DEF Files

LEMMA VersionOfPackage ==
    ASSUME NEW p \in Files, NEW v
    PROVE  PackageJson(p, v).version = v
BY DEF PackageJson

LEMMA OneVersionIsSound ==
    ASSUME NEW files, AtOneVersion(files)
    PROVE  Sound(files) /\ \A p \in Files : files[p] = PackageJson(p, files[1].version)
<1>1. PICK v \in Versions : files = [p \in Files |-> PackageJson(p, v)]
  BY DEF AtOneVersion
<1>2. \A p \in Files : files[p] = PackageJson(p, v) /\ files[p].version = v
  BY <1>1, VersionOfPackage
<1>3. OnFiles(files)
  BY <1>1 DEF OnFiles
<1> QED BY <1>2, <1>3, OneIsAFile, NotLaterThanItself DEF Sound, Whole, WorkspaceIsLatest

(* A file that is written has the new version throughout.                  *)
LEMMA UpdatedIsWhole ==
    ASSUME NEW p \in Files, Whole(p, packageJsons[p])
    PROVE  Updated(p) = PackageJson(p, newVersion)
<1> DEFINE dependencies(v) == [d \in DependsOn[p] |-> v]
<1>1. PICK v : packageJsons[p] = [version |-> v, dependencies |-> dependencies(v)]
  BY DEF Whole, PackageJson
<1>2. /\ Updated(p) = [packageJsons[p] EXCEPT !.version = newVersion,
                                             !.dependencies = dependencies(newVersion)]
      /\ PackageJson(p, newVersion)
             = [version |-> newVersion, dependencies |-> dependencies(newVersion)]
  BY DEF Updated, PackageJson
<1> HIDE DEF dependencies
<1> QED BY <1>1, <1>2

(* However far a run has got, what it leaves is sound.                     *)
LEMMA BegunIsSound ==
    ASSUME NEW read, NEW new, NEW files, NEW n \in Nat, Begun(read, new, files, n)
    PROVE  new \in Versions /\ Sound(files)
<1>1. ASSUME NEW p \in Files
      PROVE  read[p].version \in Versions
  BY <1>1, VersionOfPackage DEF Begun, Whole
<1>2. /\ new \in Versions
      /\ \A p \in Files : ~Later(read[p].version, new)
  BY <1>1, OneIsAFile, NewIsLater DEF Begun
<1>3. \A p \in Files : Whole(p, files[p])
  BY <1>2 DEF Begun, Whole
<1>4. WorkspaceIsLatest(files)
  <2>1. CASE n = 0
    <3>1. \A p \in Files : files[p] = read[p]
      BY <2>1 DEF Begun, Files
    <3> QED BY <3>1, OneIsAFile DEF Begun, WorkspaceIsLatest
  <2>2. CASE n # 0
    <3>1. files[1].version = new
      BY <2>2, OneIsAFile, VersionOfPackage DEF Begun
    <3>2. \A p \in Files : files[p].version \in {new, read[p].version}
      BY VersionOfPackage DEF Begun
    <3> QED BY <1>2, <3>1, <3>2, NotLaterThanItself DEF WorkspaceIsLatest
  <2> QED BY <2>1, <2>2
<1> QED BY <1>2, <1>3, <1>4 DEF Sound, Begun

LEMMA VersionInvInit == Init => VersionInv
<1> SUFFICES ASSUME Init PROVE VersionInv
  OBVIOUS
<1>1. PICK v \in [1..3 -> 0..1] : committed = [p \in Files |-> PackageJson(p, v)]
  BY DEF Init
<1>2. v \in Versions
  BY DEF Versions
<1>3. AtOneVersion(committed) /\ AtOneVersion(disk)
  BY <1>1, <1>2 DEF AtOneVersion, Init
<1>4. written \in 0..Packages
  BY IncrementVersionAssumption DEF Init
<1>5. running \in BOOLEAN /\ ~running
  BY DEF Init
<1> QED BY <1>3, <1>4, <1>5, OneVersionIsSound DEF VersionInv

LEMMA VersionInvStep == VersionInv /\ [Next]_vars => VersionInv'
<1> SUFFICES ASSUME VersionInv, [Next]_vars PROVE VersionInv'
  OBVIOUS
<1>1. CASE Run
  <2>1. CASE UNCHANGED <<packageJsons, newVersion, written, running>>
    BY <1>1, <2>1 DEF Run, VersionInv
  <2>2. CASE /\ \A p \in Files : disk[p] # None
             /\ packageJsons' = disk /\ newVersion' = getNewVersion(disk[1].version)
             /\ written' = 0 /\ running' = TRUE
    <3>1. \A p \in Files : ~(p <= 0)
      BY DEF Files
    <3>2. Begun(disk, getNewVersion(disk[1].version), disk, 0)
      BY <2>2, <3>1, OneIsAFile DEF VersionInv, Sound, WorkspaceIsLatest, Begun
    <3> QED BY <1>1, <2>2, <3>2, IncrementVersionAssumption DEF Run, VersionInv
  <2> QED BY <1>1, <2>1, <2>2 DEF Run
<1>2. CASE WriteFile
  <2>1. /\ Begun(packageJsons, newVersion, disk, written)
        /\ written + 1 \in 0..Packages /\ NextFile \in Files
    BY <1>2, IncrementVersionAssumption DEF WriteFile, VersionInv, NextFile, Files
  <2>2. Updated(NextFile) = PackageJson(NextFile, newVersion)
    BY <2>1, UpdatedIsWhole DEF Begun
  <2>3. disk' = [disk EXCEPT ![NextFile] = PackageJson(NextFile, newVersion)]
    BY <1>2, <2>2 DEF WriteFile
  <2>4. \A p \in Files : disk'[p] = IF p <= written + 1 THEN PackageJson(p, newVersion)
                                                        ELSE packageJsons[p]
    <3>1. \A p \in Files : disk'[p] = IF p = written + 1 THEN PackageJson(p, newVersion)
                                                         ELSE disk[p]
      BY <2>1, <2>3 DEF Begun, OnFiles, NextFile
    <3>2. /\ written \in Nat /\ \A p \in Files : p \in Nat
          /\ \A p \in Files : disk[p] = IF p <= written THEN PackageJson(p, newVersion)
                                                        ELSE packageJsons[p]
      BY <2>1 DEF VersionInv, Begun, Files
    <3> QED BY <3>1, <3>2
  <2>5. OnFiles(disk')
    BY <2>1, <2>3 DEF Begun, OnFiles
  <2>6. Begun(packageJsons, newVersion, disk', written + 1)
    BY <2>1, <2>4, <2>5 DEF Begun
  <2>7. Sound(disk')
    BY <2>1, <2>6, BegunIsSound
  <2> QED BY <1>2, <2>1, <2>6, <2>7 DEF WriteFile, VersionInv
<1>3. CASE Exit
  <2>1. Begun(packageJsons, newVersion, disk, Packages) /\ newVersion \in Versions
    BY <1>3, IncrementVersionAssumption, BegunIsSound DEF Exit, VersionInv
  <2>2. \A p \in Files : disk[p] = PackageJson(p, newVersion)
    BY <2>1 DEF Begun, Files
  <2>3. AtOneVersion(disk)
    BY <2>1, <2>2 DEF Begun, OnFiles, AtOneVersion
  <2> QED BY <1>3, <2>3 DEF Exit, VersionInv
<1>4. CASE Stopped
  <2>1. Sound(disk')
    <3>1. CASE disk' = [disk EXCEPT ![NextFile] = None]
      <4>1. OnFiles(disk') /\ \A p \in Files : disk'[p] \in {None, disk[p]}
        BY <3>1 DEF VersionInv, Sound, OnFiles
      <4>2. \A p \in Files : disk'[p] # None => disk'[p] = disk[p]
        BY <4>1
      <4>3. WorkspaceIsLatest(disk')
        BY <4>2, OneIsAFile DEF VersionInv, Sound, WorkspaceIsLatest
      <4> QED BY <4>1, <4>2, <4>3 DEF VersionInv, Sound
    <3> QED BY <1>4, <3>1 DEF Stopped, VersionInv
  <2>2. ~running' /\ running' \in BOOLEAN
    BY <1>4 DEF Stopped
  <2>3. written # Packages
    BY <1>4, IncrementVersionAssumption DEF Stopped, VersionInv
  <2>4. UNCHANGED <<committed, written>>
    BY <1>4 DEF Stopped
  <2> QED BY <2>1, <2>2, <2>3, <2>4 DEF VersionInv
<1>5. CASE Commit
  BY <1>5 DEF Commit, VersionInv
<1>6. CASE Restore
  BY <1>6, OneVersionIsSound DEF Restore, VersionInv
<1>7. CASE AllRun \/ UNCHANGED vars
  BY <1>7 DEF AllRun, vars, VersionInv
<1> QED BY <1>1, <1>2, <1>3, <1>4, <1>5, <1>6, <1>7 DEF Next

THEOREM VersionInvariant == Spec => []VersionInv
BY VersionInvInit, VersionInvStep, PTL DEF Spec

(* CommittedPackagesAgree holds for any number of packages, whatever       *)
(* depends on what, and any number of runs that are stopped                *)
(* (incrementVersion.js:42-59).                                            *)
THEOREM PackagesAgree == Spec => []CommittedPackagesAgree
<1>1. VersionInv => CommittedPackagesAgree
  BY OneVersionIsSound DEF VersionInv, CommittedPackagesAgree
<1> QED BY <1>1, VersionInvariant, PTL

(* NewVersionIsLater holds for the same (incrementVersion.js:38-40).       *)
THEOREM VersionsGrow == Spec => NewVersionIsLater
<1> DEFINE Given == running' /\ ~running =>
                        \A p \in Files : Later(newVersion', disk[p].version)
<1>1. VersionInv /\ [Next]_vars => [Given]_vars
  <2> SUFFICES ASSUME VersionInv, Next, running', ~running, NEW p \in Files
               PROVE  Later(newVersion', disk[p].version)
    OBVIOUS
  <2>1. Run
    BY DEF Next, Run, WriteFile, Exit, Stopped, Commit, Restore, AllRun, vars
  <2>2. /\ \A q \in Files : disk[q] # None
        /\ newVersion' = getNewVersion(disk[1].version)
    BY <2>1 DEF Run
  <2>3. \A q \in Files : disk[q].version \in Versions
    BY <2>2, VersionOfPackage DEF VersionInv, Sound, Whole
  <2>4. ~Later(disk[p].version, disk[1].version)
    BY <2>2, OneIsAFile DEF VersionInv, Sound, WorkspaceIsLatest
  <2> QED BY <2>2, <2>3, <2>4, OneIsAFile, NewIsLater
<1> QED BY <1>1, VersionInvariant, PTL DEF Spec, NewVersionIsLater
===================================================================================
