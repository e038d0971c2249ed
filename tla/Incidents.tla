------------------------------ MODULE Incidents ------------------------------
(***************************************************************************)
(* Safe mode and incidents as the operators drive them: sworker/safemode.py*)
(* and sworker/incident.py with the commands of cli.py.  Declaring an      *)
(* incident takes the lock, then the incident's row, then the audit line,  *)
(* three writes of a command that others interleave with and that may die. *)
(***************************************************************************)
EXTENDS Integers, Sequences

CONSTANTS
  Operators,      \* commands under way at one time
  MaxCommands,    \* bound: commands given
  MaxDeaths       \* bound: commands that die

IncidentsAssumption == {MaxCommands, MaxDeaths} \subseteq Nat

VARIABLES
  level,        \* the row safemode:level
  incident,     \* the row incident:state
  timeline,     \* the audit lines incident.*: how often opened, closed, locked down
  todo,         \* per operator: the writes his command still has to make
  thawed,       \* history: has safe mode been set lower since it was last locked?
  commands, deaths, turns

incVars == <<level, incident, timeline, todo, thawed, commands, deaths, turns>>

Levels == {"off", "readonly", "locked"}

IncInit ==
  /\ level = "off" /\ incident = "closed"
  /\ timeline = [opened |-> 0, closed |-> 0, rejected |-> 0, lockdown |-> 0]
  /\ todo = [o \in Operators |-> <<>>]
  /\ thawed = FALSE
  /\ commands = 0 /\ deaths = 0 /\ turns \in BOOLEAN

Begin(o) ==
  /\ todo[o] = <<>> /\ commands < MaxCommands
  /\ turns => \A p \in Operators : todo[p] = <<>>
  /\ commands' = commands + 1

Does(o, write) ==
  /\ todo[o] # <<>> /\ Head(todo[o]) = write
  /\ todo' = [todo EXCEPT ![o] = Tail(@)]

-----------------------------------------------------------------------------
\* set_level(): on is readonly; the level is one row.
SetLevel(o, l) ==
  /\ Begin(o)
  /\ level' = l /\ thawed' = (l # "locked")
  /\ UNCHANGED <<incident, timeline, todo, deaths, turns>>

\* Mutant of Declaring: the row of the incident is written before the lock is taken.
DeclaringFirst == <<"persist", "lock", "opened">>

\* open() takes the lock before anything else.
Declaring == <<"lock", "persist", "opened">>

Refused == incident = "open"

\* open(): refused, with a line of its own, while an incident is open.
OpenRefused(o) ==
  /\ Begin(o) /\ Refused
  /\ timeline' = [timeline EXCEPT !.rejected = @ + 1]
  /\ UNCHANGED <<level, incident, todo, thawed, deaths, turns>>

Open(o) ==
  /\ Begin(o) /\ ~Refused
  /\ todo' = [todo EXCEPT ![o] = Declaring]
  /\ UNCHANGED <<level, incident, timeline, thawed, deaths, turns>>

\* lockdown(): opens an incident, or takes the lock of the one that is open again.
Lockdown(o) ==
  /\ Begin(o)
  /\ todo' = [todo EXCEPT ![o] =
       IF incident = "open" THEN <<"lock", "lockdown">> ELSE Declaring \o <<"lockdown">>]
  /\ UNCHANGED <<level, incident, timeline, thawed, deaths, turns>>

\* close(): nothing to do unless an incident is open.
Close(o) ==
  /\ Begin(o) /\ incident = "open"
  /\ todo' = [todo EXCEPT ![o] = <<"close", "closed">>]
  /\ UNCHANGED <<level, incident, timeline, thawed, deaths, turns>>

Lock(o) ==
  /\ Does(o, "lock")
  /\ level' = "locked" /\ thawed' = FALSE
  /\ UNCHANGED <<incident, timeline, commands, deaths, turns>>

Persist(o) ==
  /\ Does(o, "persist")
  /\ incident' = "open"
  /\ UNCHANGED <<level, timeline, thawed, commands, deaths, turns>>

\* "closing an incident does NOT auto-disable safe mode".
PersistClosed(o) ==
  /\ Does(o, "close")
  /\ incident' = "closed"
  /\ UNCHANGED <<level, timeline, thawed, commands, deaths, turns>>

\* The audit lines opened, lockdown and closed.
Log(o) ==
  /\ \E event \in {"opened", "lockdown", "closed"} :
       Does(o, event) /\ timeline' = [timeline EXCEPT ![event] = @ + 1]
  /\ UNCHANGED <<level, incident, thawed, commands, deaths, turns>>

Die(o) ==
  /\ todo[o] # <<>> /\ deaths < MaxDeaths
  /\ deaths' = deaths + 1
  /\ todo' = [todo EXCEPT ![o] = <<>>]
  /\ UNCHANGED <<level, incident, timeline, thawed, commands, turns>>

\* The commands safemode and incident.  (The server's two routes of that name ask
\* for a permission no role has.)
CmdSafemode(o) == \E l \in Levels : SetLevel(o, l)

CmdIncident(o) == OpenRefused(o) \/ Open(o) \/ Lockdown(o) \/ Close(o)

IncNext ==
  \E o \in Operators :
    \/ CmdSafemode(o) \/ CmdIncident(o)
    \/ Lock(o) \/ Persist(o) \/ PersistClosed(o) \/ Log(o) \/ Die(o)

IncSpec == IncInit /\ [][IncNext]_incVars

-----------------------------------------------------------------------------
\* An incident that was declared has frozen the platform, and nothing but an
\* operator who set a lower level thaws it: not a death between two writes, not a
\* close, not two operators at once.
FrozenUntilStoodDown ==
  (incident = "open" \/ timeline.opened > 0) /\ ~thawed => level = "locked"

\* "Only one incident may be open at a time": as long as the commands take turns and
\* none dies, the lines opened and closed alternate and tell what state it is in.
TimelineAlternates ==
  turns /\ deaths = 0 /\ (\A o \in Operators : todo[o] = <<>>) =>
    timeline.opened - timeline.closed = IF incident = "open" THEN 1 ELSE 0
=============================================================================
