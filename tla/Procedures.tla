----------------------------- MODULE Procedures -----------------------------
(***************************************************************************)
(* The published versions of one procedure: sworker/procedures.py and the  *)
(* commands of cli.py that publish and roll back.  Version "1.m" is a file *)
(* of the procedure's directory, and current.txt names the active one.     *)
(* Nothing is locked: a command lists the directory, writes the version    *)
(* file, writes current.txt.  A file is emptied when it is opened and has  *)
(* its text when it is closed; a second writer in between finds it longer  *)
(* than he left it.                                                        *)
(***************************************************************************)
EXTENDS Integers, FiniteSetsExt

CONSTANTS
  Publishers,     \* commands under way at one time
  Bodies,         \* texts of the procedure
  None,           \* no file
  FirstMinors,    \* how many versions there may be when the model starts
  MaxNew,         \* bound: versions published on top of them
  MaxDeaths       \* bound: commands that die

Empty   == "empty"    \* a version file that was opened and not written
Mixed   == "mixed"    \* one that was written over the longer text of another command

ProceduresAssumption ==
  /\ None \notin Bodies \cup Int \cup {Empty, Mixed}
  /\ {Empty, Mixed} \cap Bodies = {}
  /\ {MaxNew, MaxDeaths} \subseteq Nat
  /\ \A n \in FirstMinors : n \in Nat /\ n + MaxNew <= 99

VARIABLES
  version,      \* minor number -> the body published under it, Empty, Mixed or None
  active,       \* the version current.txt names, or None if it is empty or not there
  at, held,     \* per publisher: the write it makes next, and what it has computed
  emptied,      \* history: the versions a death has left empty
  deaths,
  turns         \* do the commands take turns?

procVars == <<version, active, at, held, emptied, deaths, turns>>

Minors == DOMAIN version

NoPlan == [minor |-> None, body |-> None]

Available == {m \in Minors : version[m] # None}

-----------------------------------------------------------------------------
ProcInit ==
  /\ \E n \in FirstMinors, b \in Bodies :
       /\ version = [m \in 0 .. n + MaxNew - 1 |-> IF m < n THEN b ELSE None]
       /\ active = IF n = 0 THEN None ELSE n - 1
  /\ at = [p \in Publishers |-> "idle"]
  /\ held = [p \in Publishers |-> NoPlan]
  /\ emptied = {} /\ deaths = 0
  /\ turns \in BOOLEAN

Ready(p) ==
  /\ at[p] = "idle"
  /\ turns => \A q \in Publishers : at[q] = "idle"

\* Mutant of NextMinor: counted from the active version.
NextMinorAfterActive == IF active = None THEN 0 ELSE active + 1

\* The versions are compared as lists of numbers.
NextMinor == IF Available = {} THEN 0 ELSE Max(Available) + 1

\* publish_procedure() finds the next version free: nobody has written it since
\* the directory was listed.
Publish(p, b) ==
  /\ Ready(p)
  /\ NextMinor \in Minors
  /\ held' = [held EXCEPT ![p] = [minor |-> NextMinor, body |-> b]]
  /\ at' = [at EXCEPT ![p] = "file"]
  /\ UNCHANGED <<version, active, emptied, deaths, turns>>

OpenVersion(p) ==
  /\ at[p] = "file"
  /\ version' = [version EXCEPT ![held[p].minor] = Empty]
  /\ at' = [at EXCEPT ![p] = "text"]
  /\ UNCHANGED <<active, held, emptied, deaths, turns>>

\* What another command wrote since stays where it was longer.
WriteVersion(p) ==
  LET m == held[p].minor IN
  /\ at[p] = "text"
  /\ \E text \in IF version[m] = Empty THEN {held[p].body} ELSE {held[p].body, Mixed} :
       version' = [version EXCEPT ![m] = text]
  /\ emptied' = emptied \ {m}
  /\ at' = [at EXCEPT ![p] = "current"]
  /\ UNCHANGED <<active, held, deaths, turns>>

\* An empty current.txt names no version: current_version() answers None.
OpenCurrent(p) ==
  /\ at[p] = "current"
  /\ active' = None
  /\ at' = [at EXCEPT ![p] = "pointer"]
  /\ UNCHANGED <<version, held, emptied, deaths, turns>>

\* "1.9" over the "1.10" of another command reads "1.90", and "1.0" over it "1.00";
\* a number -1 - d stands for the name 1.0d.
Overwritten(m) ==
  LET d == IF active < 0 THEN -1 - active ELSE active % 10 IN
  IF active = None \/ active \in 0 .. 9 \/ m >= 10 THEN m
  ELSE IF m = 0 THEN -1 - d ELSE 10 * m + d

WriteCurrent(p) ==
  /\ at[p] = "pointer"
  /\ active' = Overwritten(held[p].minor)
  /\ at' = [at EXCEPT ![p] = "idle"]
  /\ held' = [held EXCEPT ![p] = NoPlan]
  /\ UNCHANGED <<version, emptied, deaths, turns>>

\* The names of the versions are sorted as texts: "1.10" stands before "1.2".
Digits(m) == IF m < 10 THEN <<m, -1>> ELSE <<m \div 10, m % 10>>

Precedes(m, n) ==
  \/ Digits(m)[1] < Digits(n)[1]
  \/ Digits(m)[1] = Digits(n)[1] /\ Digits(m)[2] < Digits(n)[2]

\* Mutant of Earlier: the order of the names, taken the other way round.
EarlierReversed(m) == {n \in Available : m \in Available => Precedes(m, n)}

\* What is listed before the active version; everything if that is not listed.
Earlier(m) == {n \in Available : m \in Available => Precedes(n, m)}

\* rollback_procedure() to the version named ...
RollbackTo(p, m) ==
  /\ Ready(p)
  /\ m \in Available
  /\ held' = [held EXCEPT ![p] = [minor |-> m, body |-> None]]
  /\ at' = [at EXCEPT ![p] = "current"]
  /\ UNCHANGED <<version, active, emptied, deaths, turns>>

\* ... or, none named, to the one before the active one.
RollbackTarget ==
  CHOOSE m \in Earlier(active) : \A n \in Earlier(active) : n = m \/ Precedes(n, m)

Rollback(p) ==
  /\ Ready(p)
  /\ active # None /\ Earlier(active) # {}
  /\ held' = [held EXCEPT ![p] = [minor |-> RollbackTarget, body |-> None]]
  /\ at' = [at EXCEPT ![p] = "current"]
  /\ UNCHANGED <<version, active, emptied, deaths, turns>>

Die(p) ==
  /\ at[p] # "idle" /\ deaths < MaxDeaths
  /\ deaths' = deaths + 1
  /\ emptied' = IF at[p] = "text" THEN emptied \cup {held[p].minor} ELSE emptied
  /\ at' = [at EXCEPT ![p] = "idle"]
  /\ held' = [held EXCEPT ![p] = NoPlan]
  /\ UNCHANGED <<version, active, turns>>

\* What the command procedure changes, for a role that may publish.
CmdProcedure(p) ==
  \/ \E b \in Bodies : Publish(p, b)
  \/ \E m \in Minors : RollbackTo(p, m)
  \/ Rollback(p)

ProcNext ==
  \E p \in Publishers :
    \/ CmdProcedure(p)
    \/ OpenVersion(p) \/ WriteVersion(p) \/ OpenCurrent(p) \/ WriteCurrent(p)
    \/ Die(p)

ProcSpec == ProcInit /\ [][ProcNext]_procVars

-----------------------------------------------------------------------------
\* "published (reviewed, frozen) procedure versions": while the commands take
\* turns no version file is emptied or written over, whoever dies and whatever is
\* rolled back in between.
PublishedStays ==
  turns => \A m \in Available : version[m] \in Bodies => version'[m] = version[m]

OneDigit == Available \subseteq 0 .. 9

\* What current.txt names is there whoever races or dies, as long as no name is longer
\* than another; in turns it has a text too, unless a death left it empty and somebody
\* rolled back to it; and with nobody under way or dead, what was published is active.
ActiveIsThere ==
  /\ turns \/ OneDigit => active \in Available \cup {None}
  /\ turns /\ active # None => version[active] \in Bodies \/ active \in emptied
  /\ deaths = 0 /\ Available # {} /\ (\A p \in Publishers : at[p] = "idle") => active # None

\* "roll back to the previous one": a rollback without a version goes to an older
\* version, and from the newest one to the newest of the others, as long as the
\* minor numbers have one digit.
RollbackGoesBack ==
  active # None /\ Earlier(active) # {} /\ OneDigit =>
    /\ RollbackTarget < active
    /\ \A m \in Available : m < active => m <= RollbackTarget
=============================================================================
