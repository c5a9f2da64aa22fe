----------------------------- MODULE IncrementVersion -----------------------------
(***************************************************************************)
(* incrementVersion.js: gives the packages of the workspace, and what they *)
(* depend on of each other, a new version.  It reads all the package.json  *)
(* files and writes them back one by one; it may be stopped between two    *)
(* writes or in the middle of one, and is run again.                       *)
(***************************************************************************)
EXTENDS Integers, Sequences

CONSTANTS
    Packages,      \* the number of PACKAGE_FILES; the first is the workspace
    DependsOn,     \* DependsOn[p]: the packages in the dependency sections of p
    INCREMENT_POS, \* "minor" or "patch"
    MaxRuns,       \* bound: how often the script is run
    None

Files == 1..Packages

ASSUME IncrementVersionAssumption ==
    /\ Packages \in Nat \ {0}
    /\ DependsOn \in [Files -> SUBSET Files]
    /\ INCREMENT_POS \in {"minor", "patch"}
    /\ MaxRuns \in Nat

VARIABLES
    disk,          \* disk[p]: the content of a file, or None when only a part of it is there
    committed,     \* the files in git
    packageJsons,  \* what the run has read
    newVersion,
    written,       \* how many files the run has written; all of them before the first run
    running,
    runs

vars == <<disk, committed, packageJsons, newVersion, written, running, runs>>

(* A version is its three parts.                                           *)
Versions == [1..3 -> Nat]

Later(v, w) ==
    \E i \in 1..3 : v[i] > w[i] /\ \A j \in 1..(i - 1) : v[j] = w[j]

INCREMENT_INDEX == IF INCREMENT_POS = "minor" THEN 2 ELSE 3

(* The first part is where reduce() starts from, and stays.                *)
getNewVersion(old) ==
    [i \in 1..3 |->
        CASE i = INCREMENT_INDEX -> old[i] + 1
          [] i > INCREMENT_INDEX -> 0
          [] i < INCREMENT_INDEX -> old[i]]

PackageJson(p, v) == [version |-> v, dependencies |-> [d \in DependsOn[p] |-> v]]

(* The package with its new version.  Fault: what it depends on is left.   *)
VersionOnly(p) == [packageJsons[p] EXCEPT !.version = newVersion]
Updated(p) ==
    [packageJsons[p] EXCEPT !.version = newVersion,
                            !.dependencies = [d \in DependsOn[p] |-> newVersion]]

(* The file that is written next.  Fault: the workspace's comes last.      *)
WorkspaceLast == Packages - written
NextFile == written + 1

Init ==
    /\ \E v \in [1..3 -> 0..1] : committed = [p \in Files |-> PackageJson(p, v)]
    /\ disk = committed
    /\ packageJsons = <<>>
    /\ newVersion = None
    /\ written = Packages
    /\ running = FALSE
    /\ runs = 0

(* The files are read and parsed, which throws for a part of a file.       *)
Run ==
    /\ ~running /\ runs < MaxRuns
    /\ runs' = runs + 1
    /\ \/ /\ \E p \in Files : disk[p] = None
          /\ UNCHANGED <<packageJsons, newVersion, written, running>>
       \/ /\ \A p \in Files : disk[p] # None
          /\ packageJsons' = disk
          /\ newVersion' = getNewVersion(disk[1].version)
          /\ written' = 0
          /\ running' = TRUE
    /\ UNCHANGED <<disk, committed>>

(* writeFileSync.                                                          *)
WriteFile ==
    /\ running /\ written < Packages
    /\ disk' = [disk EXCEPT ![NextFile] = Updated(NextFile)]
    /\ written' = written + 1
    /\ UNCHANGED <<committed, packageJsons, newVersion, running, runs>>

Exit ==
    /\ running /\ written = Packages
    /\ running' = FALSE
    /\ UNCHANGED <<disk, committed, packageJsons, newVersion, written, runs>>

(* The process is stopped; what it was writing may be there in part only.  *)
Stopped ==
    /\ running /\ written < Packages
    /\ running' = FALSE
    /\ \/ UNCHANGED disk
       \/ disk' = [disk EXCEPT ![NextFile] = None]
    /\ UNCHANGED <<committed, packageJsons, newVersion, written, runs>>

(* The developer commits what a run has completed, or goes back to the     *)
(* last commit.                                                            *)
Commit ==
    /\ ~running /\ written = Packages /\ committed # disk
    /\ committed' = disk
    /\ UNCHANGED <<disk, packageJsons, newVersion, written, running, runs>>
Restore ==
    /\ ~running /\ disk # committed
    /\ disk' = committed
    /\ UNCHANGED <<committed, packageJsons, newVersion, written, running, runs>>

AllRun == ~running /\ runs = MaxRuns /\ UNCHANGED vars

Next == Run \/ WriteFile \/ Exit \/ Stopped \/ Commit \/ Restore \/ AllRun

Spec == Init /\ [][Next]_vars

-------------------------------------------------------------------------------
(* What is committed is one version throughout: each package has it and    *)
(* depends on it, also after runs that were stopped half-way               *)
(* (incrementVersion.js:42-59).                                            *)
CommittedPackagesAgree ==
    \A p \in Files : committed[p] = PackageJson(p, committed[1].version)

(* The version a run gives is later than every version in the files it     *)
(* has read, so that it gives none of them again, also when they are what  *)
(* a run that was stopped has left (incrementVersion.js:38-40, the order   *)
(* of PACKAGE_FILES).                                                      *)
NewVersionIsLater ==
    [][running' /\ ~running =>
           \A p \in Files : Later(newVersion', disk[p].version)]_vars
===================================================================================
