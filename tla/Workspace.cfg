SPECIFICATION Spec
CONSTANTS
  Publishers = {a1, a2}
  Bodies = {t1, t2}
  FirstMinors = {0, 9}
  MaxNew = 2
  Names = {k1, k2}
  Texts = {body}
  Commands = {a1, a2}
  MaxStarts = 3
  Files = {k1, k2}
  MaxChanges = 2
  MaxRuns = 2
  Users = {user}
  Tokens = {1, 2}
  TTL = 2
  LastHour = 2
  MaxSwitches = 1
  Operators = {a1, a2}
  MaxOrders = 5
  Runners = {runner}
  Editors = {a1, a2}
  MonthDays = 3
  WeekDays = 2
  MaxClock = 5
  MaxEdits = 2
  Migrators = {a1, a2}
  Registered = {1, 2}
  DataVersion = 2
  MaxCommands = 3
  Callers = {a1, a2}
  Scopes = {scope}
  PolicyBodies = {t1, t2, body}
  MaxVersion = 3
  Writers = {a1, a2}
  Keys = {k1, k2}
  Values = {t1, t2}
  History = 1
  MaxLines = 3
  MaxHandEdits = 1
  MaxDeaths = 1
  MaxCrashes = 1
  None = None
INVARIANTS ProceduresHold RestoredWorkersAgree AccountsHold IncidentsHold SchedulesHold MigrationsHold PoliciesHold AuditHolds
PROPERTIES NothingIsRewritten ReplacedIsRecorded
SYMMETRY Exchangeable
CHECK_DEADLOCK FALSE
