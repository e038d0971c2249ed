------------------------------ MODULE Schedules ------------------------------
(***************************************************************************)
(* One schedule: sworker/scheduler.py and the command sched of cli.py.     *)
(* The clock counts the moments whose minute, hour and month the cron      *)
(* expression names, one a day; what is left to match are the day of the   *)
(* month and the day of the week.  Whoever runs the schedules (src/ has    *)
(* no such loop, only its two calls) asks what is due, runs it and marks   *)
(* it fired.  Every write reads the record, searches the next time and     *)
(* puts the whole record back.                                             *)
(***************************************************************************)
EXTENDS Integers, FiniteSetsExt

CONSTANTS
  Runners,        \* processes that run what is due
  Editors,        \* commands under way at one time
  MonthDays, WeekDays,    \* how long a month and a week are
  MaxClock,       \* bound: days
  MaxEdits,       \* bound: commands after the schedule was added
  MaxDeaths,      \* bound: runners that die
  None            \* no schedule, nothing under way

SchedulesAssumption ==
  /\ {MonthDays, WeekDays} \subseteq Nat \ {0}
  /\ {MaxClock, MaxEdits, MaxDeaths} \subseteq Nat

VARIABLES
  sched,        \* the schedule's record: cron, enabled, next_run, last_run; or None
  now,
  at, held,     \* per runner: what it does next, and the record it read
  copies,       \* per command: the record it is about to put, or None
  wanted,       \* history: what the last command asked enabled to be
  fires,        \* history: due time -> how often it was run
  crossed,      \* history: was a command put between the two halves of a mark?
  undone,       \* history: did a command put back what it had read before a mark?
  edits, deaths

schedVars == <<sched, now, at, held, copies, wanted, crossed, undone, fires, edits, deaths>>

Marking == \E r \in Runners : at[r] = "put"

-----------------------------------------------------------------------------
\* A field is the set of its values, and "*" is told apart.
Field(values) == [star : {FALSE}, of : {{v} : v \in values}] \cup [star : {TRUE}, of : {values}]

Crons == [dom : Field(1 .. MonthDays), dow : Field(0 .. WeekDays - 1)]

DomOk(c, t) == c.dom.star \/ (t % MonthDays) + 1 \in c.dom.of
DowOk(c, t) == c.dow.star \/ t % WeekDays \in c.dow.of

\* next_fire(): the first moment strictly after that both fields match; the loop's
\* five years are longer than it takes the two to meet.
NextFire(c, after) ==
  Min({t \in after + 1 .. after + MonthDays * WeekDays : DomOk(c, t) /\ DowOk(c, t)})

-----------------------------------------------------------------------------
SchedInit ==
  /\ sched = None /\ now = 0
  /\ at = [r \in Runners |-> "idle"]
  /\ held = [r \in Runners |-> None]
  /\ copies = [e \in Editors |-> None]
  /\ wanted = FALSE /\ crossed = FALSE /\ undone = FALSE
  /\ fires = [t \in 0 .. MaxClock |-> 0]
  /\ edits = 0 /\ deaths = 0

Tick ==
  /\ now < MaxClock
  /\ now' = now + 1
  /\ UNCHANGED <<sched, at, held, copies, wanted, crossed, undone, fires, edits, deaths>>

\* add_schedule(), of an actor whose role may manage schedules; there is one schedule.
Add(e, c) ==
  /\ sched = None /\ \A d \in Editors : copies[d] = None
  /\ copies' = [copies EXCEPT ![e] =
       [cron |-> c, enabled |-> TRUE, next_run |-> NextFire(c, now), last_run |-> -1]]
  /\ UNCHANGED <<sched, now, at, held, wanted, crossed, undone, fires, edits, deaths>>

\* A command reads the record and computes what it will put.
Change(e, on, next) ==
  /\ sched # None /\ copies[e] = None /\ edits < MaxEdits
  /\ edits' = edits + 1
  /\ copies' = [copies EXCEPT ![e] = [sched EXCEPT !.enabled = on, !.next_run = next]]
  /\ UNCHANGED <<sched, now, at, held, wanted, crossed, undone, fires, deaths>>

\* set_enabled(): turning a schedule on computes its next run again.
SetEnabled(e, on) == Change(e, on, IF on THEN NextFire(sched.cron, now) ELSE sched.next_run)

\* remove_schedule() keeps the record; a next run of 0 is none.
Remove(e) == Change(e, FALSE, 0)

PutChange(e) ==
  /\ copies[e] # None
  /\ sched' = copies[e]
  /\ copies' = [copies EXCEPT ![e] = None]
  /\ wanted' = copies[e].enabled /\ crossed' = (crossed \/ Marking)
  /\ undone' = (undone \/ (sched # None /\ sched.last_run # copies[e].last_run))
  /\ UNCHANGED <<now, at, held, fires, edits, deaths>>

Due == sched # None /\ sched.enabled /\ sched.next_run # 0 /\ sched.next_run <= now

\* due() finds the schedule and the runner runs its procedure.
Fire(r) ==
  /\ at[r] = "idle" /\ Due
  /\ fires' = [fires EXCEPT ![sched.next_run] = @ + 1]
  /\ at' = [at EXCEPT ![r] = "mark"]
  /\ held' = [held EXCEPT ![r] = sched]
  /\ UNCHANGED <<sched, now, copies, wanted, crossed, undone, edits, deaths>>

\* Mutant of MarkReads: the record due() returned is marked.
MarkReadsFound(r) == held[r]

MarkReads(r) == sched

\* mark_fired() reads the record again once the run has ended ...
Mark(r) ==
  /\ at[r] = "mark"
  /\ held' = [held EXCEPT ![r] =
       [MarkReads(r) EXCEPT !.last_run = now, !.next_run = NextFire(sched.cron, now)]]
  /\ at' = [at EXCEPT ![r] = "put"]
  /\ UNCHANGED <<sched, now, copies, wanted, crossed, undone, fires, edits, deaths>>

\* ... and puts it whole, after the search for the next time.
PutMark(r) ==
  /\ at[r] = "put"
  /\ sched' = held[r]
  /\ at' = [at EXCEPT ![r] = "idle"]
  /\ held' = [held EXCEPT ![r] = None]
  /\ UNCHANGED <<now, copies, wanted, crossed, undone, fires, edits, deaths>>

Die(r) ==
  /\ at[r] # "idle" /\ deaths < MaxDeaths
  /\ deaths' = deaths + 1
  /\ at' = [at EXCEPT ![r] = "idle"]
  /\ held' = [held EXCEPT ![r] = None]
  /\ UNCHANGED <<sched, now, copies, wanted, crossed, undone, fires, edits>>

\* The command sched adds and turns off, for a role that may manage schedules;
\* turning on and removing are there for other callers.
CmdSched(e) == (\E c \in Crons : Add(e, c)) \/ SetEnabled(e, FALSE)

SchedNext ==
  \/ Tick
  \/ \E e \in Editors : CmdSched(e) \/ SetEnabled(e, TRUE) \/ Remove(e) \/ PutChange(e)
  \/ \E r \in Runners : Fire(r) \/ Mark(r) \/ PutMark(r) \/ Die(r)

SchedSpec == SchedInit /\ [][SchedNext]_schedVars

-----------------------------------------------------------------------------
\* "we never double-run": with one runner that does not die, no due time is run
\* twice, whatever commands turn off, on and remove meanwhile and however late they
\* put what they computed, unless one puts back a record from before a mark.
OncePerTime ==
  Cardinality(Runners) = 1 /\ deaths = 0 /\ ~undone => \A t \in DOMAIN fires : fires[t] <= 1

\* A schedule is on exactly if the command put last wanted it so, whatever was running
\* when the command came, except for a command put between the reading and the
\* putting of mark_fired().
OffIsKept ==
  sched # None /\ ~crossed => sched.enabled = wanted

\* "when BOTH day-of-month and day-of-week are restricted (neither is '*'), they
\* are OR-ed" (scheduler.py, next_fire).
RestrictedDaysAreAlternatives ==
  sched # None /\ ~sched.cron.dom.star /\ ~sched.cron.dow.star =>
    \A t \in now + 1 .. sched.next_run - 1 : ~DomOk(sched.cron, t) /\ ~DowOk(sched.cron, t)
=============================================================================
