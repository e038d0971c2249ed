----------------------------- MODULE Workspace ------------------------------
(***************************************************************************)
(* The parts of a workspace that keep its records: procedures, worker      *)
(* files, packages, accounts, incidents, schedules, migrations, policies   *)
(* and the audit chain.  They share no state in the code, so a behaviour   *)
(* is one of one part: focus says which, the variables of the others are   *)
(* None.  A variable has the name it has in its part; where two parts have *)
(* the same, with the part's in front.                                     *)
(***************************************************************************)
EXTENDS Integers

CONSTANTS
  Publishers, Bodies, FirstMinors, MaxNew,                        \* of procedures
  Names, Texts, Commands, MaxStarts,                              \* of worker files
  Files, MaxChanges, MaxRuns,                                     \* of packages
  Users, Tokens, TTL, LastHour, MaxSwitches,                      \* of accounts
  Operators, MaxOrders,                                           \* of incidents
  Runners, Editors, MonthDays, WeekDays, MaxClock, MaxEdits,      \* of schedules
  Migrators, Registered, DataVersion, MaxCommands,                \* of migrations
  Callers, Scopes, PolicyBodies, MaxVersion,                      \* of policies
  Writers, Keys, Values, History, MaxLines, MaxHandEdits,         \* of the audit chain
  MaxDeaths, MaxCrashes, None

VARIABLES
  focus,         \* the part this behaviour is of
  version, active, at, held, emptied, deaths, turns,
  file, history, shelf, market, parcel, fileAt, fileJob, starts, fileDeaths, fileTurns,
  workers, runs, pkg, saved, job, left, agree, packDeaths,
  account, session, clock, adding, login, post, minRole, votes, acted, lastGood, changes,
  acctTurns,
  level, incident, timeline, incTodo, thawed, incCommands, incDeaths, incTurns,
  sched, now, schedAt, schedHeld, copies, wanted, fires, crossed, undone, edits, schedDeaths,
  marker, done, lines, todo, commands, migDeaths, migTurns,
  policies, current, pc, local, crashes, ordered,
  row, log, torn, audPc, audLocal, stamp, audCrashes, audEdits, audOrdered

procedures == <<version, active, at, held, emptied, deaths, turns>>
files == <<file, history, shelf, market, parcel, fileAt, fileJob, starts, fileDeaths, fileTurns>>
package == <<workers, runs, pkg, saved, job, left, agree, packDeaths>>
accounts == <<account, session, clock, adding, login, post, minRole, votes, acted, lastGood,
              changes, acctTurns>>
incidents == <<level, incident, timeline, incTodo, thawed, incCommands, incDeaths, incTurns>>
schedules == <<sched, now, schedAt, schedHeld, copies, wanted, fires, crossed, undone, edits,
               schedDeaths>>
migrations == <<marker, done, lines, todo, commands, migDeaths, migTurns>>
registry == <<policies, current, pc, local, crashes, ordered>>
audit == <<row, log, torn, audPc, audLocal, stamp, audCrashes, audEdits, audOrdered>>

P == INSTANCE Procedures

W == INSTANCE WorkerFiles WITH
  at <- fileAt, job <- fileJob, deaths <- fileDeaths, turns <- fileTurns

K == INSTANCE Package WITH deaths <- packDeaths

A == INSTANCE Accounts WITH
  MaxClock <- LastHour, MaxChanges <- MaxSwitches, turns <- acctTurns

I == INSTANCE Incidents WITH
  MaxCommands <- MaxOrders, todo <- incTodo, commands <- incCommands, deaths <- incDeaths,
  turns <- incTurns

S == INSTANCE Schedules WITH at <- schedAt, held <- schedHeld, deaths <- schedDeaths

M == INSTANCE Migrations WITH deaths <- migDeaths, turns <- migTurns

R == INSTANCE PolicyRegistry WITH Bodies <- PolicyBodies

L == INSTANCE AuditLog WITH
  MaxEdits <- MaxHandEdits, pc <- audPc, local <- audLocal, crashes <- audCrashes,
  edits <- audEdits, ordered <- audOrdered

WorkspaceAssumption ==
  /\ P!ProceduresAssumption /\ W!WorkerFilesAssumption /\ K!PackageAssumption
  /\ A!AccountsAssumption /\ I!IncidentsAssumption /\ S!SchedulesAssumption
  /\ M!MigrationsAssumption /\ R!RegistryAssumption /\ L!AuditAssumption

-----------------------------------------------------------------------------
Parts == {"procedures", "files", "package", "accounts", "incidents", "schedules", "migrations",
          "registry", "audit"}

\* A part that is not the one in focus.
NoProcedures ==
  /\ version = None /\ active = None /\ at = None /\ held = None /\ emptied = None
  /\ deaths = None /\ turns = None

NoFiles ==
  /\ file = None /\ history = None /\ shelf = None /\ market = None /\ parcel = None
  /\ fileAt = None /\ fileJob = None /\ starts = None /\ fileDeaths = None /\ fileTurns = None

NoPackage ==
  /\ workers = None /\ runs = None /\ pkg = None /\ saved = None /\ job = None
  /\ left = None /\ agree = None /\ packDeaths = None

NoAccounts ==
  /\ account = None /\ session = None /\ clock = None /\ adding = None /\ login = None
  /\ post = None /\ minRole = None /\ votes = None /\ acted = None /\ lastGood = None
  /\ changes = None /\ acctTurns = None

NoIncidents ==
  /\ level = None /\ incident = None /\ timeline = None /\ incTodo = None /\ thawed = None
  /\ incCommands = None /\ incDeaths = None /\ incTurns = None

NoSchedules ==
  /\ sched = None /\ now = None /\ schedAt = None /\ schedHeld = None /\ copies = None
  /\ wanted = None /\ fires = None /\ crossed = None /\ undone = None /\ edits = None /\ schedDeaths = None

NoMigrations ==
  /\ marker = None /\ done = None /\ lines = None /\ todo = None /\ commands = None
  /\ migDeaths = None /\ migTurns = None

NoRegistry ==
  /\ policies = None /\ current = None /\ pc = None /\ local = None /\ crashes = None
  /\ ordered = None

NoAudit ==
  /\ row = None /\ log = None /\ torn = None /\ audPc = None /\ audLocal = None /\ stamp = None
  /\ audCrashes = None /\ audEdits = None /\ audOrdered = None

Init ==
  /\ focus \in Parts
  /\ IF focus = "procedures" THEN P!ProcInit ELSE NoProcedures
  /\ IF focus = "files" THEN W!FilesInit ELSE NoFiles
  /\ IF focus = "package" THEN K!PackInit ELSE NoPackage
  /\ IF focus = "accounts" THEN A!AcctInit ELSE NoAccounts
  /\ IF focus = "incidents" THEN I!IncInit ELSE NoIncidents
  /\ IF focus = "schedules" THEN S!SchedInit ELSE NoSchedules
  /\ IF focus = "migrations" THEN M!MigInit ELSE NoMigrations
  /\ IF focus = "registry" THEN R!Init ELSE NoRegistry
  /\ IF focus = "audit" THEN L!Init ELSE NoAudit

\* A step of one part leaves the others alone.
Only(part) ==
  /\ focus = part
  /\ UNCHANGED focus
  /\ IF part = "procedures" THEN TRUE ELSE UNCHANGED procedures
  /\ IF part = "files" THEN TRUE ELSE UNCHANGED files
  /\ IF part = "package" THEN TRUE ELSE UNCHANGED package
  /\ IF part = "accounts" THEN TRUE ELSE UNCHANGED accounts
  /\ IF part = "incidents" THEN TRUE ELSE UNCHANGED incidents
  /\ IF part = "schedules" THEN TRUE ELSE UNCHANGED schedules
  /\ IF part = "migrations" THEN TRUE ELSE UNCHANGED migrations
  /\ IF part = "registry" THEN TRUE ELSE UNCHANGED registry
  /\ IF part = "audit" THEN TRUE ELSE UNCHANGED audit

Next ==
  \/ Only("procedures") /\ P!ProcNext
  \/ Only("files") /\ W!FilesNext
  \/ Only("package") /\ K!PackNext
  \/ Only("accounts") /\ A!AcctNext
  \/ Only("incidents") /\ I!IncNext
  \/ Only("schedules") /\ S!SchedNext
  \/ Only("migrations") /\ M!MigNext
  \/ Only("registry") /\ R!Next
  \/ Only("audit") /\ L!Next

vars == <<focus, procedures, files, package, accounts, incidents, schedules, migrations,
          registry, audit>>

Spec == Init /\ [][Next]_vars

-----------------------------------------------------------------------------
\* A published version of a procedure and the role of an account stay as they were made,
\* whatever is published, rolled back, added or disabled next to them.
NothingIsRewritten ==
  [][/\ focus = "procedures" => P!PublishedStays
     /\ focus = "accounts" => A!RoleStays]_vars

\* The active version of a procedure can be read, and a rollback goes back by one.
ProceduresHold ==
  focus = "procedures" => P!ActiveIsThere /\ P!RollbackGoesBack

\* What a lifecycle command takes away from a worker's file is among its versions.
ReplacedIsRecorded == [][focus = "files" => W!ReplacedStays]_vars

\* A finished restore leaves the workers of the package and nothing else in their place.
RestoredWorkersAgree == focus = "package" => K!RestoredWorkersAgree

\* A disabled account fades within the life of a session, and whoever's vote counts
\* may vote.
AccountsHold == focus = "accounts" => A!DisabledUsersFade /\ A!VotersMayDecide

\* An incident freezes the workspace until somebody sets safe mode lower, and its lines
\* tell how often it was opened and closed.
IncidentsHold == focus = "incidents" => I!FrozenUntilStoodDown /\ I!TimelineAlternates

\* A due time is run once, and a schedule switched off stays off.
SchedulesHold == focus = "schedules" => S!OncePerTime /\ S!OffIsKept

\* The data version is only ever ahead of steps that were done, each recorded once.
MigrationsHold == focus = "migrations" => M!MarkerIsEarned /\ M!StepsAreRecorded

\* Versions of a scope differ, and its pointer names the newest one.
PoliciesHold ==
  focus = "registry" => R!TypeOK /\ R!VersionsDiffer /\ R!CurrentIsNewest /\ R!CurrentResolves

\* The audit chain verifies until somebody edits it, then no longer, and tells the rows.
AuditHolds ==
  focus = "audit" =>
    L!TypeOK /\ L!ChainVerifies /\ L!EditsShow /\ L!LogRebuildsRows /\ L!LinksLeadBack
=============================================================================
