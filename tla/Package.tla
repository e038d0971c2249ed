------------------------------- MODULE Package -------------------------------
(***************************************************************************)
(* Packages of a workspace: sworker/package.py and the commands package    *)
(* and backup of cli.py.  A workspace is the files below workers/, the     *)
(* procedures and, below .state/, the record of what ran.  backup() is     *)
(* export_package() and restore() is import_package(); both work through   *)
(* the members one by one.                                                 *)
(***************************************************************************)
EXTENDS Integers

CONSTANTS
  Files,          \* files below workers/
  MaxChanges,     \* bound: contents a file has
  MaxRuns,        \* bound: runs
  MaxDeaths       \* bound: commands that die

PackageAssumption == {MaxChanges, MaxRuns, MaxDeaths} \subseteq Nat

VARIABLES
  workers,      \* file -> its content, 0 for no file
  runs,         \* what .state/ records: how many runs there have been
  pkg,          \* member -> the content packed, 0 for no member
  saved,        \* history: workers and runs when the package was begun
  job, left,    \* the command under way, the members it still has to handle
  agree,        \* has nobody else written a file since the last restore began?
  deaths

packVars == <<workers, runs, pkg, saved, job, left, agree, deaths>>

NoFiles == [f \in Files |-> 0]

\* The root directory exists and something is in it.
NonEmpty == runs > 0 \/ workers # NoFiles

-----------------------------------------------------------------------------
PackInit ==
  /\ workers = NoFiles /\ runs = 0
  /\ pkg = NoFiles /\ saved = [workers |-> NoFiles, runs |-> 0]
  /\ job = "none" /\ left = {} /\ agree = FALSE /\ deaths = 0

\* A command writes a worker's file, also while another one packs.
Change(f) ==
  /\ workers[f] < MaxChanges
  /\ workers' = [workers EXCEPT ![f] = @ + 1]
  /\ agree' = FALSE
  /\ UNCHANGED <<runs, pkg, saved, job, left, deaths>>

Run ==
  /\ workers # NoFiles /\ runs < MaxRuns
  /\ runs' = runs + 1
  /\ UNCHANGED <<workers, pkg, saved, job, left, agree, deaths>>

\* The workspace is gone, or this is another machine.
Lose ==
  /\ job = "none" /\ NonEmpty
  /\ workers' = NoFiles /\ runs' = 0 /\ agree' = FALSE
  /\ UNCHANGED <<pkg, saved, job, left, deaths>>

\* export_package() goes through the trees "workers" and "state" of the root;
\* there is no directory of the second name, the state is in .state.
Export ==
  /\ job = "none" /\ NonEmpty
  /\ job' = "pack" /\ left' = {f \in Files : workers[f] # 0}
  /\ pkg' = NoFiles
  /\ saved' = [workers |-> workers, runs |-> runs]
  /\ agree' = FALSE
  /\ UNCHANGED <<workers, runs, deaths>>

Pack(f) ==
  /\ job = "pack" /\ f \in left
  /\ pkg' = [pkg EXCEPT ![f] = workers[f]]
  /\ left' = left \ {f}
  /\ UNCHANGED <<workers, runs, saved, job, agree, deaths>>

\* Mutant of Import: what is there already is not replaced.
ImportMissing(force) ==
  /\ job = "none" /\ pkg # NoFiles
  /\ ~NonEmpty \/ force
  /\ job' = "unpack" /\ left' = {f \in Files : pkg[f] # 0 /\ workers[f] = 0}
  /\ agree' = TRUE
  /\ UNCHANGED <<workers, runs, pkg, saved, deaths>>

\* import_package() refuses a workspace with something in it unless it is forced.
Import(force) ==
  /\ job = "none" /\ pkg # NoFiles
  /\ ~NonEmpty \/ force
  /\ job' = "unpack" /\ left' = {f \in Files : pkg[f] # 0}
  /\ agree' = TRUE
  /\ UNCHANGED <<workers, runs, pkg, saved, deaths>>

Unpack(f) ==
  /\ job = "unpack" /\ f \in left
  /\ workers' = [workers EXCEPT ![f] = pkg[f]]
  /\ left' = left \ {f}
  /\ UNCHANGED <<runs, pkg, saved, job, agree, deaths>>

Done ==
  /\ job # "none" /\ left = {}
  /\ job' = "none"
  /\ UNCHANGED <<workers, runs, pkg, saved, left, agree, deaths>>

\* A death while packing leaves an archive nothing can be read from.
Die ==
  /\ job # "none" /\ deaths < MaxDeaths
  /\ deaths' = deaths + 1
  /\ job' = "none" /\ left' = {}
  /\ pkg' = IF job = "pack" THEN NoFiles ELSE pkg
  /\ agree' = FALSE
  /\ UNCHANGED <<workers, runs, saved>>

\* backup() and restore() are nothing else, and the two commands pass them on.
Backup == Export
Restore(force) == Import(force)

CmdPackage == Export \/ \E force \in BOOLEAN : Import(force)
CmdBackup == Backup \/ \E force \in BOOLEAN : Restore(force)

PackNext ==
  \/ \E f \in Files : Change(f) \/ Pack(f) \/ Unpack(f)
  \/ Run \/ Lose \/ Done \/ Die
  \/ CmdPackage \/ CmdBackup

PackSpec == PackInit /\ [][PackNext]_packVars

-----------------------------------------------------------------------------
\* A package that was restored to its end, nobody else writing, gives back every
\* worker it has, also over what a restore that died or an older workspace left.
RestoredWorkersAgree ==
  job = "none" /\ agree => \A f \in Files : pkg[f] # 0 => workers[f] = pkg[f]

\* package.py:11: "a backup is a faithful, restorable copy of run history +
\* config": a workspace that was lost and restored has the runs it was saved with.
RestoreGivesBack == job = "none" /\ agree /\ deaths = 0 => runs >= saved.runs
=============================================================================
