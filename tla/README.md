# The sovereign worker in TLA+

This directory is the verification development of `sworker`, the worker engine
of this repository: TLA+ modules translated from its Python source, TLC
configurations that check them on small instances, and proofs that TLAPS checks
for every value of the constants. Line numbers below are those of `sworker/`.

Run a check with `tlc -config X.cfg M` and a proof with `tlapm M.tla`, in this
directory.

## The system

A *worker* is a configuration (policy per risk, budgets, tools). The *engine*
takes a request, makes a plan of at most `max_steps` steps, asks the permission
engine about each step's tool call, runs it, asks people, or refuses, and ends
the run with a status. Everything is kept in a *store*: one table of JSON
records per kind, plus an append-only audit log with a hash chain.

| component | state it keeps | operations | who it talks to |
|---|---|---|---|
| run state machine (`statemachine.py`) | the status in the run record | `transition`, `allowed_transition`, `can_cancel` | called by the engine for every move of a run |
| engine (`engine.py`, `evidence.py`, `degradation.py`) | run, plan, step, action, observation, evidence, verification, degradation records; its own copy of the run while a call lasts | `run`, `_execute`, `_execute_action`, `_finalize`, `_resume`, `cancel` | permissions, approvals, safe mode, incidents, tools, store |
| approvals (`approvals.py`) | approval records: state, votes, quorum, minimum role, escalations; the action's status | `request`, `vote` (`approve`, `reject`, `decide`), `escalate` | engine (request), CLI and web (votes), store |
| permissions (`permissions.py`, policy in `config.py`) | the refused risks of a run, in memory | `classify`, `evaluate`, `DecompositionGuard` | engine |
| roles (`rbac.py`) | role grants, the escalation ladder | `authorize`, `role_satisfies` | approvals, web |
| safe mode, incidents (`safemode.py`, `incident.py`) | a level, an open or closed incident | `set_level`, `is_blocked`, `open`, `close`, `lockdown` | engine, CLI, web |
| store (`store.py`) | tables, tenant ids, the audit log and its chain | `put`, `get`, `find`, `audit`, `verify_audit_chain` | everything |
| policy registry (`policy.py`) | policy bodies by hash, current pointer per scope | `publish`, `latest`, `list_versions` | CLI |
| procedures (`procedures.py`) | version files, `current.txt` | `publish_procedure`, `rollback_procedure`, `learn_from_run` | CLI, engine's planner |
| scheduler, triggers (`scheduler.py`, `trigger.py`) | schedules; hashes of watched files, webhook paths | `add_schedule`, `set_enabled`, `due`, `mark_fired`; `FileWatcher`, `WebhookServer` | CLI; nothing in the repository starts a run from them |
| authentication (`auth.py`, the gate of `web.py`) | users, sessions | `create_user`, `authenticate`, `login`, `validate_session`, `logout`, disabling | web, CLI |
| tools (`tools/`) | the context of a pass (messages sent), the outbox, files, a git repository, downloads | `run` of each tool | engine, the world |
| figures and checks (`tools/data.py`, `verify.py`) | the figures a pass computed, the verifications stored | `data.query`, `_derive_verifications`, `_verify_run`, `_backfill_artifact_figures` | engine |
| migrations (`migrations.py`) | the marker in `meta`, audit lines | `migrate` | CLI |
| worker lifecycle, packages (`lifecycle.py`, `templates.py`, `package.py`) | worker files, versions, archive, marketplace; tar files | enable, clone, archive, import, export, create; export and import of a workspace | CLI |
| knowledge (`knowledge.py`) | the compiled index, the watcher's snapshot | compile, rebuild, watch, search | CLI, tools |
| sales ledger (`sales/repository.py`, `pipeline.py`, `followup.py`) | companies, leads with a stage and a cached score, stage history, evidence, qualifications, drafts, follow-ups, tasks, activities, experiment counts | `create_lead`, `move_stage`, `record_qualification`, `create_draft`, `approve_draft`, `record_sent`, `schedule_for_lead` | the engine (as tools), its CLI and web pages |
| sales handlers (`discovery.py`, `research.py`, `qualification.py`, `outreach.py`) | none of their own; documents under `company/` | `discover`, `research_lead`, `evaluate`, `prepare` | the ledger |
| sales day (`sales/cli.py`, `sales/tools/base.py`, `metrics.py`, `checks.py`) | none of its own | `daily-run`, the "all" modes, move, approve, send, brief, the day's counts | the ledger |

`PROJECT.json` lists every part with what is modelled of it and the hazards, each
at its line.

### What is hard here

* **Nobody orders the callers.** The web server answers each request in a thread
  (`web.py:1258`), a terminal is another process, and the store takes its lock for
  one call at a time. Every handler is read, compute, put the whole record.
* **Several writes per decision.** A settled approval and its action are two puts,
  a request for approval is two, a move of a run is an audit line and a put.
  A process may die between any two.
* **Copies.** An engine call works on the run record it read when it started and
  writes it back whole at the end.
* **Commits inside a handler.** Every `_insert` and `_update` of the sales ledger
  commits on its own (`sales/repository.py:171-196`), so one command is several
  transactions, and a death between two of them is seen by everybody.
* **Two passes with separate memories.** The first pass counts failures, blocks and
  charges in local variables; a resume counts from zero and reads back only what
  the store keeps.
* **Controls that act at one place.** Safe mode is read where a first pass considers
  a step; the budget is charged there too.

* **Files.** Procedures, worker files, packages and the knowledge index are plain files:
  a file is emptied before it is written, a directory is listed before it is added to.
* **Work that is done again.** A tool call is tried twice, a daily run is started
  again after it failed, a schedule is marked after it ran, a migration is repeated.

### What makes it correct

An action that needs people's consent is not started without it, and not twice. The
status of a run moves along its table and stays when it is terminal. A `SUCCESS` has
evidence behind it and nothing against it. Budgets bound what is started. A run comes to
an end or waits for people. An approval means its quorum. An audit log that nobody
touched verifies and gives back the rows; one that was touched does not. A policy stays
what it was when a run recorded its hash. A lead's history, score, counts and reminders
agree with the lead. What is published or replaced can be got back. An incident freezes
until somebody stands down. A due time runs once. A disabled account fades. What left
the machine is on record. A figure that was right verifies. Doing the day's work again
repeats nothing.

## Modules

| module | what it is |
|---|---|
| `StateMachine` | the transition table and its predicates (`statemachine.py:34-126`) |
| `RunLifecycle` | abstract: one variable, the persisted status, moving along the table |
| `Rbac` | the ladder of `rbac.py:100-117` |
| `Permissions` | `evaluate`, the guard's test, `is_blocked`: pure operators |
| `Verdict` | the precedence of `_finalize` (`engine.py:1015-1082`): pure operators |
| `ApprovalPromise` | abstract: an approval as an atomic ballot |
| `Approvals` | the approval manager, handler by handler and write by write |
| `Engine` | one run: first pass, attempts, finalization, resume, cancel, and what surrounds it |
| `AuditLog` | rows, the hash-chained log, and `verify_audit_chain` |
| `PolicyRegistry` | policies by hash, the current one of each scope |
| `SalesPipeline` | the stages and the moves between them: pure operators |
| `SalesLedger` | the sales repository and the handlers on top of it, transaction by transaction |
| `Procedures` | the versions of a published procedure and its pointer |
| `WorkerFiles` | worker files with their versions, archive and marketplace |
| `Package` | export and import of a workspace, member by member |
| `Accounts` | users, sessions, login, the web gate and the vote behind it |
| `Incidents` | safe mode and incidents write by write |
| `Schedules` | one schedule, its cron expression over days, and who runs it |
| `Migrations` | steps, marker and audit lines |
| `Knowledge` | the compiled index and its watcher |
| `Triggers` | the file watcher and the webhook server |
| `ToolCalls` | the tools: what each checks, touches and reports, and the two attempts |
| `Checks`, `Figures` | the checks of `verify.py` as pure operators; queries, derived checks and the report |
| `Scoring`, `Research` | the arithmetic of a score; discovery, research and qualification of leads |
| `Daily` | the sales day: passes over the leads, reminders, counts, brief |
| `Workspace`, `Work` | the parts above that share no state, next to each other: a workspace's records, a worker's work |
| `MCApprovals`, `MCEngine`, `MCSalesLedger`, `MCWorkspace`, `MCWork` | the instances TLC checks |
| `EngineProofs`, `ApprovalsProofs`, `SalesProofs` | the theorems about `Engine`, `Approvals` and `SalesLedger` |
| `AuditProofs`, `PlatformProofs` | the theorems about `AuditLog` (L), and about `Accounts` (A) and `Incidents` (I), as parts of `Workspace` |
| `WorkspaceProofs` | those about its other parts, `Procedures` (P), `PolicyRegistry` (R), `Schedules` (S), `Package` (K), `WorkerFiles` (W) and `Migrations` (M), and about the whole |
| `ResearchProofs` | the theorems about `Research` (R) and `Scoring` as a part of `Work` |
| `WorkProofs` | the theorems about `ToolCalls` (T), `Triggers` (G), `Daily` (D), `Knowledge` (K) and `Figures` (F) as parts of `Work`, and about the whole `Work` |

`Engine` composes `StateMachine`, `Permissions` and `Verdict`; `Approvals` uses
`Rbac` and is shown to implement `ApprovalPromise`, `Engine` to implement
`RunLifecycle`. The engine's own view of an approval is what `Approvals` promises
of it: a decision is two writes, between which a process may die.

`Workspace` and `Work` put parts that share no state next to each other: `focus`,
chosen in `Init`, says which part a behaviour is of, the variables of the others are
`None` and stay so. Their properties are those of the parts, each under its `focus`,
and `WorkspaceAssumption` and `WorkAssumption` those the parts make of their constants.
A constant or variable has one name in a part and in the whole, except where two parts
have the same.

### Approvals

A *session* is a caller: a thread or a process. `rec[a]` is the stored approval
record with `votes` as a function from people to their standing vote (the code
keeps a list with one entry per person, `approvals.py:128`), `action[a]` the
stored status of the action it is about. `Vote` and `Escalate` read, check and
compute (`local` is the record the handler will put); `PutRecord` puts it over
whatever is stored by then; `PutAction` is the second half of `_settle`. `Request`
and `RequestPutsAction` are the two puts of `request`. `Execute` is a resume that
runs the action, for which both records must say so (`engine.py:1165`). `Crash`
and `CrashRequest` end a handler where it stands. A refused vote raises before it
writes and is no step.

`Interleaved` says whether a handler may start while another is under way.

### Engine

One run record, and processes that work on it. `status`, `plan`, `step`,
`action`, `approval` and `ledger` are the store; `me[p]` is what a call keeps in
local variables (its copy of the status is `me[p].run`); `level` and `incident`
are the operator's. A call is a first pass (`Submit` to `PutFinal`), a resume
(`Resume` to `PutFinal`) or a cancel (`Cancel`, `CancelCommit`).

* A planned step is a record of what its handling depends on: no tool, a tool that
  is unknown or refuses its arguments, or a tool with the risk of this invocation,
  whether it always asks and whether it is a network tool. Plans are a constant set.
* `Considered` is the order of the loop: budget, safe mode, charge, policy.
  `Decision` evaluates with an empty guard because the guard of a first pass never
  records a rejection and the guard of a resume evaluates nothing.
* `FailPlan` is what the planner raises (a company folder that is not there, a procedure
  that cannot be read), or the putting of a step it made: no handler is around either
  (`engine.py:320-337`), so the call ends and the run stays in PLANNING.
* `Dispatch`, `Invoke`, `RecordSuccess`, `RecordFailure` are `_execute_action`: two
  attempts, none after a `ToolError`.
* `Decide` asks `Verdict` for a status, `Advance` goes there move by move, each
  checked by the table (`MayMove`), `Raise` is `IllegalTransition`, `PutFinal` the last
  put of the whole run.
* Writes of one record kind that nothing reads separately are one action (for
  instance the action, step and run writes after an approval has been asked for);
  writes that another actor can come between are separate.

`calls`, `dispatched` and `unplanned` are history variables: no action reads them. A
resume whose registry has lost the tool of an approved action raises (`engine.py:1168`);
the plans' tools stay registered here.

### Callers that take turns, callers that race

`AuditLog`, `PolicyRegistry` and `SalesLedger` have a variable `ordered` (`turns` in
`Procedures`, `WorkerFiles`, `Accounts`, `Incidents` and `Migrations`) that
`Init` sets to either value and no step changes. TRUE is the daily use of one
terminal, a handler after another; FALSE is two terminals or the threads of
`web.py`. Each property says which it is about: what begins with `ordered` (or
`Undisturbed`, where deaths are excluded as well) is what the documentation
promises of one user, and it does not survive a race; the others hold either way.

### AuditLog

`row` is the table, committed under the lock; `log` the lines of `audit.jsonl`. A
hash is a number no other line has, and `whole` tells whether a line still has
the content it was hashed with. `Put`, `Delete` and `Note` begin a write,
`ReadLink` is `_previous_hash`, `AppendLine` the write to the file, and `Crash` may
leave half a line (`torn`), which the next line completes into something neither
can be read from. `Alter` and `Remove` are somebody's editor. `LineVerifies` is
the body of `verify_audit_chain`'s loop, in which a line without a hash resets
what the next one must link to.

### PolicyRegistry

A body stands for its hash. `Publish` is the part of `publish` that reads,
`PutPolicy` and `Promote` its two puts; a body the scope has already is answered
from the store and writes nothing.

### SalesLedger

A lead is its dedupe key; a candidate may name a prospect nobody knows, which the schema
refuses when the lead is inserted, after its company (`refused` counts the rows that
stay). `history[k]`, `quals[k]`, `evidence[k]` and the others its rows, `reads[k]` the
researches of it that the feed has to show. A caller's `pc` is the transaction it makes
next and `call` what it has read. `Discover` to `AttachProvenance` are `discover` around
`create_lead`; `Evaluate` to `CacheScore` are `evaluate` and `record_qualification`,
where the schema refuses a version that is taken; `Move` to `Log` are `move_stage`;
`Prepare`, `Approve` and `Send` begin the life of a draft, and a send goes on to
`Remind`, which is `schedule_for_lead` inside `record_sent`. Abstracted: a score is the
number of evidence rows it was computed from, a draft has no text, an experiment exists
or does not. `complete_task`, `complete_followup`, `update_lead` and `record_outcome`
have no caller in the repository and no action here; a lead's first follow-up therefore
stays open.

### Procedures, worker files, packages

In all three a command is the reads and checks it begins with (one step), then its
writes one by one; `at` and `job` say which comes next and what was computed.
`Procedures` counts minor versions; `Digits` and `Precedes` are the order of the names
(`1.10` before `1.9`) that `sorted` uses. Opening and writing are two steps, for the
version and for `current.txt`: in between a version is `Empty` and the pointer names none,
which is what a death leaves (`emptied`). Two commands that race may open one file one
after the other; the later to write finds the other's text in it, and where that was
longer its end stays (`Mixed`, `Overwritten`: `1.9` over `1.10` reads `1.90`). `WorkerFiles`
has such a file too, and `Die` leaves it `Torn`. `Package`
works through its members in any order, while others edit files and runs happen.

### Accounts

`adding` and `login` are the moments in which a password is hashed or verified, between
reading an account and writing; `post` is a request that has passed the gate of
`do_POST` and is still to be handled. `Decide` reads the cookie again, as the approval
handler does, and its vote takes the place of an earlier one of the same voter
(`approvals.py:127`), whatever role or session that one was given in. The clock is the
session lifetime's. The hash is abstracted: whoever signs in knows the password.

### Incidents, schedules, migrations

`Incidents` keeps for each operator the writes of a command still to come. `Schedules`
counts the days the rest of the cron expression names; `DomOk` and `DowOk` are the two
fields that are left, and `NextFire` the search for the next day both allow. Who runs
what is due is not in the repository: `Fire` and `Mark` call `due` and `mark_fired`
as their docstrings say. Adding, switching and removing read the record and compute what
to put (`Change`), and put it whole some time later (`PutChange`); `undone` remembers
that one put back what it had read before a mark. In `Migrations` each version is three
writes: `todo[m]` has the versions left to a migrator, of which it is at the least, and
how many of that one's writes are made.

### Knowledge and triggers

A document is its version, the index the version ingested last. A compile collects
and reads adapted documents first and then lets Atlas read the markdown ones; the
watcher's snapshot is taken before. A negative version is a document with too little text,
`access` whether it may be read: either kind is passed over (`knowledge.py:276-280`) and
what the index has of it stays. Atlas is external: its store keeps one version
per source. `Triggers` hashes file after file; `told` is what a reader of the
reports knows.

### Tool calls and figures

`ToolCalls` has one family of calls per tool and keeps what the guards tell apart: the
scheme, whether a host is listed or in a blocked range, a payload the filter matches,
credentials that do not resolve, a path inside or outside the boundary, a command that is
not allowed. A request that is sent may be answered, be answered with an error, or fail on
its way before or after it arrived, which covers a host that cannot be reached and a
timeout; where a page leads, and to which host, is not told apart. `left` records the
actions that contacted a host. `Attempt` is one tool call, `Record` the observation the
engine stores of the last one, `NextPass` a resume with a new context. `Figures` computes
a query's figures group by group, derives the checks the engine derives, runs them
on the source as it is by then and fills the report. A query may group by a column the
table lacks, which nobody looks up (`data.py:145`): the filter derived from it matches no
row (`lacking`). `Checks` is `verify.py` over tables of one key and one number; a path may
lead nowhere or out of the workspace. Numbers are in fifths of a hundredth, so that they
can lie between two amounts and each check's own rounding is told apart: the chain takes
whole numbers from the sum, the comparison of totals from the sum rounded to two decimals
(`ToCents`, `ToOnes`).

### Research and the sales day

In `Research` a document is the set of the patterns it matches; a lead has its own
document or none, and there may be a shared one; anybody may write one over at any
moment, and `--doc` does (`sales/cli.py:202`), for a lead that is there too. The documents
of one lead are read together. Each row is a transaction. A sorted list
is `Listed`: its i-th entry is the one with i - 1 before it, leads by score and age,
documents by their number with the shared one last. `Scoring`
is the arithmetic of the score in whole hundredths. `Daily` has desks, the
daily run and those of operators and other workers' runs, each at one task of its list
(`hand`, `todo`): a pass over the leads, a bulk send over the drafts, a command. A task
looks (`schedule_for_lead`, `record_sent`, `approve_draft`), asks the clock (`Clock`) and
commits (`schedule_followup`, `Send`, `Approve`) in separate steps, between which the other
desks work, midnight comes, or the process dies; the commits that follow one another inside
a handler are in `SalesLedger`. `crowded` are the leads two desks planned a reminder for at
once. An approver may be a name of blanks, which `approve_draft` takes and the shipped
check's `TRIM` does not.

## Runs

| run | cfg | what it asks | result |
|---|---|---|---|
| `approvals_serial` | `ApprovalsSerial` | one caller at a time, one death: the ballot implemented, settled records immutable, actions in agreement, run once; without a death every decision reaches its action | holds |
| `approvals_concurrent` | `ApprovalsConcurrent` | two callers interleaved, one death: quorum and roles behind every approval and every run of an action | holds |
| `engine_serial` | `EngineSerial` | one call at a time, a death anywhere, time-outs, cancel, safe mode, incidents: lifecycle refined, started once, budgets, earned and never clean success; without a death, or a planner that raises, runs come to rest, resumes finish them, no approved step is forgotten by a SUCCESS | holds |
| `engine_interleaved` | `EngineInterleaved` | two calls, votes and cancels interleaved, one death: the gate | holds |
| `workspace` | `Workspace` | nine parts, two commands and a death each: what is published, replaced, packed, marked or logged stays and can be got back; incidents freeze; accounts fade; due times run once | holds |
| `work` | `Work` | six parts, with failures, deaths and edits: observations, sums and their checks, watchers, scores and the sales day | holds |
| `sales` | `Sales` | one company, two drafts, two callers, a death: history, score, counts and reminders agree; what no race undoes | holds |
| `engine_reopen` | `EngineReopen` | a terminal status is final | violated |
| `engine_locked` | `EngineLocked` | nothing is picked for execution under a level that blocks it | violated |
| `engine_ceiling` | `EngineCeiling` | nothing at or above a rejected risk is started | violated |
| `research_skeleton` | `Skeleton` | a document nobody has filled in is evidence of nothing | violated |
| `policies_shared` | `PoliciesShared` | a stored policy keeps its scope and version when two scopes publish the same body | violated |

The violated ones quote a document or a comment of the repository; `findings` in
`PROJECT.json` has the quotations and the traces in words. Every property of a
run that holds has a mutant of the code's model, beside the definition it
changes, that breaks it.

### Disagreements that have no run

Met while modelling; the properties are stated so that they do not hide them.

* Two votes that race: the later put replaces a settled approval
  (`approvals.py:102`, checked before and not at the write).
* A resume of a run in which a step was blocked may end it otherwise than BLOCKED
  (`engine.py:1158` counts from zero).
* A planner that raises (`engine.py:470` lists a folder that may not be there) leaves the
  run in PLANNING, which `RunReturns` excludes.
* A death between opening and writing a version leaves it empty (`procedures.py:144`), and a
  rollback can make it the active one; a death at `current.txt` (148, 181) leaves none.
* A switch that was read before a mark and put after it brings back the due time that was
  just run (`scheduler.py:172`).
* A retry is not charged (`engine.py:773`), so `max_tool_calls` (`config.py:54`)
  bounds steps and not calls; `BudgetHolds` says two calls for each.
* Two writers read the same last hash (`store.py:185`), and a file nobody touched
  no longer verifies; a death between the row and its line (`store.py:304`) leaves a
  row the log does not know.
* `pipeline.py:77-80` says nothing moves out of a terminal stage but
  LOST to PROSPECT and WON to ONBOARDING; the table has COMPLETED to EXPANSION,
  and EXPANSION, which is terminal, can be lost.
* Two discoveries of one company leave a company row without a lead
  (`repository.py:297-310`), and so does, with nobody racing, a candidate whose
  `prospect_id` names no prospect (`discovery.py:161`, refused by `schema.py:125`); two
  sends of one draft are both recorded (`repository.py:605-618`); of two evaluations the
  older may be cached last (`repository.py:524-531`); two schedulings leave two
  follow-ups (`followup.py:138`).
* A death after the follow-up is inserted keeps its task from being made, since
  the next scheduling finds an open follow-up (`followup.py:139`).
* `publish_procedure` (`procedures.py:126`) calls publishing the same content a no-op;
  it makes another version. Versions are listed and rolled back in the order of
  their names, in which `1.10` precedes `1.9`.
* `set_enabled` rewrites a worker's file from the loaded object, which does not have
  every limit the file had; `create_worker --force` replaces a file without a snapshot.
  A resume does not ask whether its worker is disabled (`engine.py:246`).
* Disabling a user ends no session, and `revoke_all` has no caller. The POST handlers for
  safe mode and incidents ask for a permission, `admin`, that no role grants.
* A second migrator can put the marker back; a death after the marker loses the
  audit line, and nobody adds it later.
* An HTTP error whose body cannot be read leaves an observation without the address
  although the request left; `browser.open` says `"egress": False` of a host it
  contacted. A request that timed out is sent again (`engine.py:773`), done or not.
* Watchers and webhooks report and start no run; `due` and `mark_fired` have no caller.
* A package leaves out `.state`, so what is restored has not the runs of before.
* A mean, a minimum and a maximum are checked against a sum, and a figure grouped by a
  column the table lacks against the sum of no rows: figures that were right are refuted.
* `_backfill_artifact_figures` writes a whole sum as Python does, with neither decimals
  nor commas, and the checks look for it with both: from 1000 on it is not found.
* A markdown document cut down to under 40 characters, or deleted, keeps its old claims in
  the index; one that was locked while it was compiled is not compiled when it is reopened,
  since the watcher sees times and sizes.
* A draft sent by two senders, the second after midnight, leaves the count of the first day
  (`repository.py:605-618`). One approved by a blank name (`repository.py:585`) makes the
  shipped check fail (`checks.py:92`).
* A document written over leaves the evidence of its old text (`sales/cli.py:202`), and one
  filled in after its skeleton was researched is not read by "all": the skeleton gave the
  lead its pain points.
* With shared documents present, a lead without its own is not given the others,
  and two companies whose domains begin alike share one document. A death within the
  research of a lead leaves it half researched, and "all" passes over it from then on.
* The daily run drafts again each day for every lead and moves leads to `contacted`
  to whom nothing was sent. No command completes a follow-up, so `followups_sent` stays 0
  and a lead is reminded once.
* `cmd_metrics` passes all it has parsed as the targets, so no target is found.

Some of these are stated as formulas that no run checks, since the code does not keep
them; a cfg with just that formula as its invariant shows the behaviour:
`Schedules!RestrictedDaysAreAlternatives` (cron's "either day field", against the code's
"both"), `Package!RestoreGivesBack`, `Knowledge!WatchedDropsClaims`
(`knowledge.py:553`), `FailureIsRetried` (`knowledge.py:557`) and `RebuildLosesNothing`,
`ToolCalls!RateLimitPerRun` (`message.py:13`; a resume counts from zero),
`Figures!HonestFiguresVerify` (`engine.py:882`), `Research!AllMeansEveryLead`
(`sales/tools/base.py:312`, one page of fifty) and `Daily!BriefShowsPending`.

### Bounds

* Approvals: a destructive action that needs two people, an external one that
  needs anybody, and a misconfigured one (quorum 0, a minimum role that is not on
  the ladder). A quorum of two has a vote that does not settle, one that does and
  one that comes late; with three people and two roles (`approvals_concurrent`) one
  escalation makes all three necessary. Two sessions are enough for every lost
  update, since a put replaces a whole record by one handler's copy.
* Engine: eight plans of up to three steps, the empty one among them. Every kind of step
  occurs next to one that waits, and the budgets of two actions, three calls and one
  network call are crossed by them. Two approvals in one plan are the least with a
  resume that runs one and waits for the other. One death at any point; two calls.
* `workspace`: two commands under way, one death and one edit in each part. Audit: two
  keys and values, three written lines behind an old one: the shortest file with a line
  to alter or remove, one before it and one after. Policies: three texts, so that one is
  published again with another between. Procedures: two texts, two new versions, from 0
  and from 9, where the order of names turns. Accounts: two sessions that last two ticks
  of a clock of two. Incidents: five commands, enough to open, close and open again
  around one that dies. Schedules: five days over months of three and weeks of two, so
  that the two day fields meet, or never do. Migrations: two versions with steps.
* `work`: tool calls of two actions in two passes, with a rate limit of one; two rows
  and one query with an edit of the source between query and check, numbers that
  round up to a cent and to a whole; a document of each kind with two edits or locks; two
  watched files over three rounds; two candidates and three commands or writings of a
  document; one customer, two days, four commands of two desks beside the daily run,
  approvers with a name and with blanks, and a failure (a daily run that drafts, the
  approval and a send of each of two desks fit into the four). The daily run takes one pass at a time
  and is started again only when it is over. A second action, pass, edit or day is what
  shows a state that was read earlier.
* Sales: one company, two drafts, one approver, stage histories of four rows
  (a loss and its return fit), two evidence rows beside the first, one death. Callers that
  take turns make seven calls, which reach discovery, an evaluation, a draft
  approved and sent, a second draft and a move in one behaviour; callers that race
  make five, which is enough for any two handlers on a lead that is discovered,
  with a draft of it approved.
* `MaxExecutions`, `MaxEscalations`, `MaxMoves`, `MaxEvidence`, `MaxCalls`, `MaxRaces`,
  `MaxVersion`, `MaxLines`, `MaxEdits` and `MaxCrashes` bound what the code leaves
  unbounded; `MaxExecutions = 2` lets a second run of an action happen if it can.

`workspace` uses symmetry (actors, things and texts) and so does `work` (the two desks of
sellers); both have only safety properties, and no run with a liveness
property uses it.

### Fairness

`FairSpec` of `Approvals` is weak fairness of the writes of a handler that has started;
of `Engine`, of what a call under way does next. Both say that a live process goes on,
which is what Python does with straight-line code; nobody is assumed to vote, submit,
resume or operate anything. `RunReturns`, `ResumeFinishes` and `DecisionReachesAction`
are of behaviours in which nobody dies, and for a run no planner raises, before what is
promised: after that the code does not finish the handler. The parts of `workspace` and
`work` have no fairness: nothing in the code starts them again.

## Proofs

`EngineProofs` proves, for any plans, policy, budgets and yields, any number of calls
and any bound on deaths, with calls, votes, the operator and deaths interleaving as
they like:

* `TypeCorrect`: `Spec => []TypeOK`.
* `Gate`: the action property `GateHolds`. When a step is chosen, the approval was
  read; when it is started, others may have been at work in between. The invariant
  `GateInv` adds what makes that harmless: a step is asked about at most once, by the
  only first pass there is, so that a decision a call has read still stands
  (`SeenStands`), nobody is asked about a step the first pass has yet to come to
  (`AheadUnasked`), and a chosen step is cleared (`Cleared`).
* `StartsCharged`: the starts of a run, resumes included, are within its budgets.
  `ChargeInv` counts the steps asked about, started or chosen, which is what the first
  pass has charged; no resume adds one.

and, with one call or decision at a time (`~Interleaved`), deaths included:

* `KeepsPromise`: `Spec => Lifecycle`, the implementation of `RunLifecycle`, step by
  step. `RunInv` adds that calls do not overlap, that a call's copy of the status is the
  stored one, and which statuses each place in the code can have: a move is checked
  against the copy and written over the record.
* `NoRepeats`: no step is started twice. `StartsInv` adds that what is still to be
  decided or due was not started, and that a call is still to come to what it may start.
* `Budgets`: `BudgetHolds`, tool calls included. `CallsInv` counts two for every start,
  less the attempts the call under way still has.
* `NeverClean`, `Honest`, `ApprovalsUsed`: what a stored SUCCESS stands for. A verdict
  is asked for from a tally that every resume counts from zero. `VerdictInv` says what
  the tally stands for (`Counted`: a step that is done, every rejection seen, every
  approval seen used), that an approved step is done or on its way unless a process has
  died (`ApprovedIsDue`), and that whoever asks for SUCCESS has earned it (`Earned`),
  which nothing that is still to come takes away (`EarnedKeeps`).

The second group needs `~Interleaved`: two calls on one run overwrite each other's
status and may start a step twice, which the code does nothing against (see "Callers that
take turns, callers that race"). They assume `EngineAssumption`: plans are sequences of
planned steps, budgets are integers (not necessarily positive), and the switches are
Booleans.

`ApprovalsProofs` proves, for any sets of approvals, people, roles and callers and
any policy, with callers interleaving and dying as they like:

* `TypeCorrect`: `Spec => []TypeOK`.
* `QuorumHolds`: `Spec => []QuorumBehindApproval`. The invariant is not inductive: a put
  replaces the stored record by a handler's copy. The strengthening adds that every
  copy of a handler under way is justified too (`CopiesJustified`), that it names an
  approval, and the ranges. A ballot keeps a record justified (`BallotFields`)
  because the role gate is checked on the same record the ballot is computed from.
* `ExecutionNeedsQuorum`: the action property `ExecutionHadQuorum`, from that invariant.

and, if handlers do not interleave (`~Interleaved`), deaths included:

* `SerialAgreement`, `SerialOnce`, `SerialImmutable`: an action does not contradict its
  record, runs once, and a settled record is not written again. Their invariant
  `SInv` says that there is one handler at a time (`OneHandler`), that what it has read
  is what is stored (`HandlerIsCurrent`), and that an action nobody decided waits
  (`ActionWaits`).
* `KeepsPromise`: `Spec => ImplementsPromise`, the ballot of `ApprovalPromise`. The record
  that is put was computed when the handler began; the put is one step of the ballot
  because that copy is one vote, or one escalation, on from what is still stored
  (`CopiesOneOn`), and because nobody is against an open record (`RecordsSound`).

They assume `PolicyAssumption`: quorums are integers (not necessarily positive),
there are finitely many people, and the bounds are numbers.

`SalesProofs` proves, for any callers, companies, drafts and people, with callers
racing and dying as they like:

* `LedgerTypes`: `Spec => []TypeOK`.
* `ApprovedFirst`, `LossExplained`, `ScoreRecorded`: the three properties of the ledger
  that no race undoes. None is inductive, because a transaction writes what its
  caller read some transactions ago. The invariant `IInv` adds what each caller
  carries: enough for its next transaction (`CallsFit`), a draft that is still where
  it was or further on, with its approver (`DraftsFit`), and a version that is next
  or already on record with its score (`ScoresFit`). The three steps rest on rows
  that only go forward: a draft's approver stays once put, qualifications are only
  appended (`QualsStep`), a lead's row is changed by one transaction at a time
  (`LeadStep`).

and, if callers take turns (`ordered`), as the properties themselves say:

* `CompanyFound`, `HistoryComplete`, `LatestShown`, `Booked`, `RemindedOnce`: what the
  tables say of each other when no handler is under way. Each handler leaves them apart
  for some transactions, so `TurnsInv` says how far apart they may be at each of its
  places: a company without its lead only before the lead is inserted, or after the schema
  refused it for its prospect, which nothing takes back (`CompaniesFit`),
  a stage ahead of its history only between the two (`HistoryFits`), a version ahead of
  the lead's (`GradesFit`), a send ahead of its count or its feed row (`CountFits`,
  `FeedFits`), and a follow-up ahead of its next action and its task (`RemindersFit`).
  That what a handler read still holds rests on `OneTurn`. `Arrivals` and
  `Departures` say once for all five which transaction leads to and from each place.
  Deaths are included where the property includes them: one send and one follow-up
  at most, scores in order, a count that never says too much.

They assume `LedgerAssumption`: "nobody" is no stage, company, draft or person, and
the bounds are numbers.

Each of the smaller modules has its theorems, for any values of its constants
that meet its assumption, with every interleaving and every death it has:

* `AuditProofs`. `LinksHold`: a line of the log links to one before it. The link was
  read some steps before the line is appended, so the invariant `LinkInv` adds that
  what a writer has read is still there. `ChainHolds`: a log written in turns, uncut and
  unedited, verifies; `LinesInv` adds that what a writer has read is then still the
  last line, and states the chain line by line instead of by the greatest readable
  line before each.
  `EditsAlwaysShow`: a log written in turns that was edited never verifies again.
  `FileInv` orders the file: hashes rise along it and no link is older than the line
  before it (`Rising`), whatever was edited, so the link over a line taken out stays
  too new. `LogTellsRows`: with no death and no edit, the last line about each key
  is its row; `RowsInv` says it key by key, or that the one writer under way is about to
  say it. `AuditTypes`: the ranges, edits included.
* `PlatformProofs`, incidents. `FreezeHolds`: a declared incident freezes the platform until
  somebody sets a lower level. The row and the audit line come some steps after the
  lock, so `FreezeInv` adds that whoever is past the lock has left the level locked or
  seen it lowered. `TimelineTells`: in turns and with no death, the lines opened and
  closed of a timeline tell what the row says; `TimelineInv` says of each list of
  writes still to be made how far it leaves the two apart.
* `WorkspaceProofs`, procedures. `ActiveResolves`: what the pointer names is there
  whoever races or dies, as long as no name is longer than another (`Overwritten`); in
  turns it has its text, unless a death left that version empty and somebody rolled back
  to it. `PublishedKept`: in turns, no published version is emptied or written over.
  `ActiveInv` and `TurnsInv` say what a command carries from its reads to its writes: a
  pointer to a version that is there, a number that was free until it opened the file,
  and a file that is empty only under its hands or since a death. `RollbackFound`: a
  rollback that names no version goes to the newest of the older ones, up to minor
  number 9; above it the order of the names (`NamesAreRanked`) is not the order of the
  numbers.
* `PlatformProofs`, accounts. `UsersFade`: a request passes the gate less than a
  session's lifetime after its user's account was last good. `FadeInv` adds that every
  valid session ends within that time. `VotersCount`: a voter has one vote, the last one
  given; it meets the least role asked for, and one with a role is, in turns, of a user
  who may decide; `VoteInv` follows it back over the second reading of the cookie to the
  gate. A vote without a role is the form's own, under the name "web", which a user may
  have too. `RolesStay`: in turns an account keeps its role.
* `WorkProofs`, tool calls. `LimitHolds`: n passes deliver at most n times the message
  limit. `LimitInv` adds how much of the current pass's allowance is counted.
  `EgressHolds`: a request that reached a host is never logged as refused or blocked.
  The report may be the second attempt's; `EgressInv` adds that no check stops a call
  that once reached a host, so that every attempt at it reports what may be shown.

* `WorkspaceProofs`, policies. `PolicyTypes`, `PointersResolve`: the ranges, and that a
  pointer leads to a stored policy, for any scopes and interleaving: `RegistryInv` adds
  that whoever is about to move a pointer has put the record it will name.
  `VersionsAreNew`, `PointerIsNewest`, `PoliciesStay`: of one scope, in turns, versions
  differ, the pointer is at the newest, no policy is written over; the first two while
  nobody dies. `NewestInv` says that the pointer's version is the newest there is but
  for the one publish under way, which is at the next. The one scope is a hypothesis
  (`Scopes = {s}`) and not a simplification: with a second one the same body takes
  another scope's record away, which is the finding of the run `policies_shared`.
* `WorkspaceProofs`, schedules. `OffStays`: unless a command was put between the reading
  and the putting of a mark, a schedule is on if and only if the command put last wanted it
  so. `OffInv` adds the same of the record a runner is about to put. `TimesRunOnce`: with
  one runner that does not die, no due time is run twice, until a command puts back a record
  it had read before a mark (`undone`). `OnceInv` adds that the next time is one not run yet
  (`Fresh`), or that the runner is about to put a later one in its place
  (`NextFireIsLater`), and of each command's copy that it is fresh as well or tells by its
  last run that it is stale. Two hypotheses are about the model's calendar: that the
  value `None` is no record, and `EveryCronMeets`, that an expression's day comes within
  a month times a week (so it does in the runs, whose month of three days and week of two
  have no common divisor): without it `next_fire` raises.
* `WorkspaceProofs`, packages and worker files. `RestoresAgree`: a restore nobody writes
  into gives back what was packed. `RestoreInv` says it of the members already behind
  the restore. `ReplacedKept`: what a lifecycle command takes away is among the
  versions. `KeptInv` says what is known of a file at each step of the command, in
  turns: from the snapshot on its content is recorded, and what it has emptied is torn,
  which nobody could load.
* `WorkProofs`, triggers and the sales day. `ReportsReach`: who reads what the file
  watcher reports knows every file as it is. `ToldInv` bounds the contents by the number
  of writes, so that a content which is seen again was never replaced meanwhile.
  `OneReminderEach`, `ShippedCheckHolds`, `PastDaysStay`: for any finite set of
  customers and any desks, a lead has at most one open reminder unless two desks planned
  one for it at once, the shipped check of the drafts fails for nothing but an approver
  of a blank name, and a day that is over and has nothing under way counts the same from
  then on. `DayInv` says what a desk carries from its look to its commit: that a lead
  whose reminder is being planned has none and no second desk planning it, unless it is
  crowded (`RemindInv`), and that a draft about to be sent has had its approver
  (`NamedInv`). A day is settled when no desk holds a row with its date and no draft
  sent on it is being approved or sent again; that each kind of step keeps a settled day
  is shown in a lemma of its own, count by count (`DayKept`). A draft that is being sent
  by a second desk at midnight unsettles the day: that a past count then changes is what
  the code does.
* `WorkspaceProofs`, migrations. `MarkerEarned`: no version up to the marker was left out,
  though migrators race and die anywhere and a slow one puts the marker back.
  `MarkerInv` adds that a version below one still left to a migrator is left to it
  too or was done, and that whoever is about to set the marker has done its step.
  `StepsRecorded`: in turns, nobody dying, each version up to the marker was done once and
  has one line, the others none. `RecordInv` says so of all versions but the one being
  migrated (`RecordedBut`), and of that one how far its three writes have come
  (`Underway`).
* `WorkProofs`, the knowledge index. `WatcherCatchesUp`: when the watcher, with no
  command compiling, has had a compile that went well and sees nothing new, every
  markdown document with text enough, and that nobody was kept from reading, is in the
  index as it is. The index was put together from reads at different moments, between
  which documents change: `IndexInv` adds that a document which is as the watcher saw it
  before the compile (`AsSeen`) is still to be read or was read as it is. It needs that
  versions are numbered by the edits, so that one that was seen never comes back as
  something else. A document that was passed over keeps its old claims, and the theorem
  does not speak of it.

* `WorkProofs`, figures. `SumsPass`: however the source is edited, a sum a run states,
  filtered, grouped by a column the table has or both, is refuted exactly if what its
  filter selects moved by more than the slack between the query and the check, and
  unverifiable exactly if the file went away in between; so a sum nobody disturbed
  verifies. `FiguresInv` says that what was computed is what the source it was computed
  from gives under the filter derived for it, which for a group is the filter with the
  group's key put in (`FiguresAreSums`). A sum that is no number would be close to
  nothing, so the proof has to show that adding up numbers gives one, which is induction
  over the rows of a table: `SumsExist` and `SumsAreNumbers` argue by the smallest set
  of rows that has no sum, or whose sum is no number (`LeastNumber` of `ResearchProofs`,
  from the library's `WFMin`), since its induction theorems take an operator and cannot
  be used. `ChecksDoAgree`: a figure's chain is proved exactly if its sum is and its
  total is found, unless the sum, rounded to two decimals, comes to the next whole
  number; and no check passes without what it reads. They assume `FiguresAssumption`: a
  cell without a number is none, a missing file no table.

* `ResearchProofs`, for any finite roster, any documents, page, number of commands and
  deaths. `ScoresAreDeserved`: unless a lead was researched by its name, none scores
  more than all that the documents in its scope ever told is worth. A score is computed
  from rows that earlier commands wrote, each of which may have died between any two of
  them, and from documents that were written over since. `ResearchInv` follows the rows
  from the document to the table (`ResearchIsTrue`): what is to be written, and what is
  stored, was in a document of its lead at some time (`ever`) or tells where the lead is
  from, a lead is from one place, and no pain point is stored or to be written twice. So
  an evaluation counts no more sources and pain points than the documents had, and no
  part of the rubric falls when what it counts grows (`WeighedGrows`). What is deserved
  only grows, since nothing that was told is forgotten (`RisingWorth`,
  `DocumentWritten`); that the score may exceed what the documents tell *now* is what
  the code does. Research by name is excluded because that command runs again over a
  lead that has its rows, and stores its pain points a second time. `PainGetsFound`: a
  whole pass over a ledger of one page that did not die leaves no lead without pain
  points whose documents tell of pain. `ResearchGoesOn` says of such a lead that it has
  some, is still to come in the pass, or has them among the rows being written, and that
  no lead is entered and no document written meanwhile. What the rows are made of are
  lists: `ListedEnumerates` (a set listed by what comes before has each member once) and
  `FlattenBlocks` (what a flattened list of lists contains) are inductions over data
  again, by the least number that has no member, or no flat list, behind it. It assumes
  `ResearchAssumption`: the candidates are finitely many numbers from 1 and the page is
  a number.

The runs check the parts together, and `WorkspaceProofs` and `WorkProofs` end with one
theorem for each property of those runs: `ProceduresInWorkspace` states `ProceduresHold`
of `Workspace!Spec`, `PackagesInWorkspace` `RestoredWorkersAgree`, `RecordsInWorkspace`
`NothingIsRewritten`, `FilesInWorkspace` `ReplacedIsRecorded`, `AccountsInWorkspace`,
`IncidentsInWorkspace`, `SchedulesInWorkspace`, `MigrationsInWorkspace`,
`PoliciesInWorkspace` and `AuditInWorkspace` the property of that name; `CallsInWork`,
`FiguresInWork`, `WatchersInWork` and `DailyInWork` the same of `Work`, `ResearchInWork`
`ResearchHolds`, `PastInWork` `PastIsSettled`. What each excludes is in the property
itself. They rest on the theorems above: the beginning and every step of the whole are a
beginning and a step of the part in focus, or leave it alone (`PartBegins`,
`PartSteps`), so a behaviour of the whole satisfies the specification of its part; for
an action property, a step that leaves that part alone leaves everything (`WholeSteps`,
`WholeDays`). What a part's theorem assumes beside the constants' assumption, its
whole's does: one runner, one scope, a finite set of customers.

`StartsCharged` is the part of `BudgetHolds` that no interleaving undoes. `LedgerTypes`,
`LossExplained` and the `TypeCorrect` of `ApprovalsProofs` have no run of their own: two
are what the others rest on, and of a lost lead's reason the proof says more than a run.

Every invariant and action property of a run that holds is thus stated by a theorem.
Only model-checked are the three liveness properties, `RunReturns`, `ResumeFinishes` and
`DecisionReachesAction`: fairness and ENABLED are out of the prover's reach.

## Not modelled, and why

Classification of code and shell commands (a parser), the content of files and pages,
ranking and answers, reports, templates and the pages of the web server (I/O and
rendering), the model client and the planner behind it; in the store the tenant
checks, which no command uses; in the ledger the rows nothing else depends on (contacts,
opportunities, proposals). Secrets are ciphertexts beside a key file; connectors
translate a declaration into a tool call and keep nothing.

## Plan

A composition of `Approvals` with `Engine` for one run, in place of the engine's own
approvals, so that votes and resumes meet at the level of single puts.
