----------------------------- MODULE Migrations -----------------------------
(***************************************************************************)
(* Data migrations of a workspace: sworker/migrations.py and the command   *)
(* migrate of cli.py.  A step is three writes, what the step itself does,  *)
(* the marker in the table meta and a line of the audit log, and another   *)
(* migrator may run, or this one die, between them.                        *)
(***************************************************************************)
EXTENDS Integers, Sequences, FiniteSetsExt

CONSTANTS
  Migrators,      \* commands under way at one time
  Registered,     \* the versions MIGRATIONS has a step for
  DataVersion,    \* the version migrate() goes to unless told otherwise
  MaxCommands,    \* bound: commands given
  MaxDeaths       \* bound: commands that die

MigrationsAssumption ==
  /\ Registered \subseteq Nat \ {0} /\ DataVersion \in Registered
  /\ {MaxCommands, MaxDeaths} \subseteq Nat

VARIABLES
  marker,       \* data_version: 0 for a legacy store, -1 for one that is no number
  done,         \* version -> how often its step was done
  lines,        \* version -> how many audit lines say it was
  todo,         \* per migrator: the versions left, and the writes made of the least of them
  commands, deaths, turns

migVars == <<marker, done, lines, todo, commands, deaths, turns>>

NoWalk == [left |-> {}, made |-> 0]

-----------------------------------------------------------------------------
MigInit ==
  /\ marker \in {-1, 0}
  /\ done = [v \in Registered |-> 0]
  /\ lines = [v \in Registered |-> 0]
  /\ todo = [m \in Migrators |-> NoWalk]
  /\ commands = 0 /\ deaths = 0 /\ turns \in BOOLEAN

\* Mutant of Order: the marker is set before the step is done.
OrderMarkerFirst == <<"mark", "step", "log">>

\* What one step of the walk writes, in this order.
Order == <<"step", "mark", "log">>

Pending(target) == {v \in Registered : v > marker /\ v <= target}

\* migrate() refuses a corrupted marker, a way back and a version nobody registered.
Migrate(m, target) ==
  /\ todo[m].left = {} /\ commands < MaxCommands
  /\ turns => \A n \in Migrators : todo[n].left = {}
  /\ marker >= 0 /\ target >= marker /\ target <= Max(Registered)
  /\ commands' = commands + 1
  /\ todo' = [todo EXCEPT ![m] = [left |-> Pending(target), made |-> 0]]
  /\ UNCHANGED <<marker, done, lines, deaths, turns>>

\* The walk is strictly ascending.
Version(m) == Min(todo[m].left)

Does(m, write) ==
  /\ todo[m].left # {} /\ Order[todo[m].made + 1] = write
  /\ todo' = [todo EXCEPT ![m] =
               IF @.made < 2 THEN [left |-> @.left, made |-> @.made + 1]
               ELSE [left |-> @.left \ {Version(m)}, made |-> 0]]

Step(m) ==
  /\ Does(m, "step")
  /\ done' = [done EXCEPT ![Version(m)] = @ + 1]
  /\ UNCHANGED <<marker, lines, commands, deaths, turns>>

Mark(m) ==
  /\ Does(m, "mark")
  /\ marker' = Version(m)
  /\ UNCHANGED <<done, lines, commands, deaths, turns>>

Log(m) ==
  /\ Does(m, "log")
  /\ lines' = [lines EXCEPT ![Version(m)] = @ + 1]
  /\ UNCHANGED <<marker, done, commands, deaths, turns>>

Die(m) ==
  /\ todo[m].left # {} /\ deaths < MaxDeaths
  /\ deaths' = deaths + 1
  /\ todo' = [todo EXCEPT ![m] = NoWalk]
  /\ UNCHANGED <<marker, done, lines, commands, turns>>

\* The command migrate, with any target.
CmdMigrate(m) == \E target \in 0 .. DataVersion + 1 : Migrate(m, target)

MigNext ==
  \E m \in Migrators :
    \/ CmdMigrate(m)
    \/ Step(m) \/ Mark(m) \/ Log(m) \/ Die(m)

MigSpec == MigInit /\ [][MigNext]_migVars

-----------------------------------------------------------------------------
\* The marker never promises a step that was not done, whoever races or dies.
MarkerIsEarned == \A v \in Registered : v <= marker => done[v] > 0

\* "Every applied step is recorded both in the meta table (so re-running is a no-op)
\* and in the append-only audit log": while the commands take turns and none dies,
\* each version up to the marker was done once and has one line, the others none.
StepsAreRecorded ==
  turns /\ deaths = 0 /\ (\A m \in Migrators : todo[m].left = {}) =>
    \A v \in Registered :
      /\ lines[v] = done[v]
      /\ done[v] = IF v <= marker THEN 1 ELSE 0
=============================================================================
