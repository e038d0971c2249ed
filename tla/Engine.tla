------------------------------- MODULE Engine -------------------------------
(***************************************************************************)
(* WorkerEngine of sworker/engine.py, seen from one run record: the first  *)
(* pass (run), the later ones (resume), cancellation, and what surrounds   *)
(* them: people deciding approvals, an operator changing the safe-mode     *)
(* level, incidents opening and closing, processes dying.                  *)
(*                                                                         *)
(* A process is one call into the engine.  It works on its own copy of the *)
(* run record and writes the store as it goes; the store orders single     *)
(* calls and nothing else.  Interleaved = FALSE is one engine call or one  *)
(* decision at a time; TRUE is what the threaded web server and a second   *)
(* terminal allow.                                                         *)
(*                                                                         *)
(* The vote itself is Approvals.tla; here a decision is its two writes.    *)
(***************************************************************************)
EXTENDS Permissions, Verdict, Sequences, FiniteSets

CONSTANTS
  Procs,            \* engine calls that may be under way
  Plans,            \* the plans the planner or a procedure may produce
  Policy,           \* the worker's policy: risk -> auto, approve or deny
  MaxActions,       \* the worker's budgets
  MaxToolCalls,
  MaxNetwork,
  Yields,           \* what a successful tool call may leave behind
  MayTimeOut,       \* may the wall-clock budget run out?
  MayCancel,        \* is cancel() called?
  MayOperate,       \* are safe mode and incidents operated?
  Interleaved,      \* may a call start while another is under way?
  MaxCrashes        \* bound: processes that die

\* A planned step: no tool ("none"), one that is not registered or refuses its
\* arguments ("bad"), or a known one; the risk of this invocation; whether the
\* tool always asks; whether it counts as network.
Kinds == [tool : {"none", "bad", "known"}, risk : Risks, always : BOOLEAN, network : BOOLEAN]

AllYields == [check : Outcomes \cup {"none"}, unbacked : BOOLEAN]

ASSUME EngineAssumption ==
  /\ Plans \subseteq Seq(Kinds)
  /\ MaxActions \in Int /\ MaxToolCalls \in Int /\ MaxNetwork \in Int
  /\ Yields \subseteq AllYields /\ Yields # {}
  /\ {MayTimeOut, MayCancel, MayOperate, Interleaved} \subseteq BOOLEAN
  /\ MaxCrashes \in Nat

VARIABLES
  status,       \* the run's status in the store, ABSENT before it exists
  plan,         \* the planned steps
  step, action, approval,  \* per planned step: the status of its three records
  ledger,       \* evidence, check outcomes, exposed claims, degradations
  deciding,     \* approvals settled in the store, their action not yet
  level,        \* safe-mode level
  incident,     \* is an incident open?
  pc, me,       \* per process: where it is, and its own variables
  dispatched,   \* history: per planned step, how often it was started
  calls,        \* history: tool invocations, retries included
  unplanned,    \* history: has planning raised?
  crashes

store == <<status, plan, step, action, approval, ledger>>
world == <<deciding, level, incident, crashes>>
history == <<dispatched, calls, unplanned>>
vars == <<store, world, pc, me, history>>

StepStatuses == {"PENDING", "RUNNING", "DONE", "FAILED", "BLOCKED", "AWAITING_APPROVAL", "SKIPPED"}
ActionStatuses == {"ABSENT", "PROPOSED", "AWAITING_APPROVAL", "APPROVED", "REJECTED", "DENIED",
                   "EXECUTING", "EXECUTED", "FAILED", "SKIPPED"}
ApprovalStates == {"ABSENT", "PENDING", "APPROVED", "REJECTED"}

\* What a call keeps: its copy of the run's status, whether it is a first pass
\* or a resume, the step it is at, its tally and the charges against its
\* budgets, the attempts and the result of the tool call under way, the checks
\* it owes, the approvals it read when it started, and the status it asks for.
NoCall == [run |-> "PENDING", mode |-> "none", at |-> 1, tally |-> NoTally,
           spent |-> 0, network |-> 0, tries |-> 0, result |-> "none",
           checks |-> {}, seen |-> <<>>, target |-> "PENDING"]

Calls == [run : RunStatuses, mode : {"none", "run", "resume", "cancel"}, at : Nat,
          tally : Tallies, spent : Nat, network : Nat, tries : Nat,
          result : {"none", "ok", "fail", "refused"}, checks : SUBSET Outcomes,
          seen : Seq(ApprovalStates), target : RunStatuses]

PCs == {"idle", "submitted", "planning", "planned", "step", "asked", "dispatch", "invoke",
        "record", "verify", "decide", "advance", "put", "resume", "cancel"}

Kind(p) == plan[me[p].at]

\* A call may start.
MayStart == Interleaved \/ (deciding = {} /\ \A p \in Procs : pc[p] = "idle")

\* Mutant of MayMove: the status is just set.
MoveUnchecked(p, target) == me[p].run = target \/ target \in RunStatuses

\* Statuses a call may move its copy of the run to: transition() does nothing
\* when it is there already and refuses what the table does not list.
MayMove(p, target) == me[p].run = target \/ AllowedTransition(me[p].run, target)

\* ... and what it leaves in the store.
Moved(p, target) == IF me[p].run = target THEN status ELSE target

\* Process p goes on at pc "at" with call record m.
Goes(p, at, m) ==
  /\ pc' = [pc EXCEPT ![p] = at]
  /\ me' = [me EXCEPT ![p] = m]

Ends(p) == Goes(p, "idle", NoCall)

-----------------------------------------------------------------------------
Init ==
  /\ status = "ABSENT"
  /\ plan = <<>> /\ step = <<>> /\ action = <<>> /\ approval = <<>>
  /\ ledger = EmptyLedger
  /\ deciding = {} /\ level = "off" /\ incident = FALSE /\ crashes = 0
  /\ pc = [p \in Procs |-> "idle"]
  /\ me = [p \in Procs |-> NoCall]
  /\ dispatched = <<>> /\ calls = 0 /\ unplanned = FALSE

(***************************************************************************)
(* The first pass: run() and _execute().                                   *)
(***************************************************************************)
Submit(p) ==
  /\ MayStart
  /\ pc[p] = "idle" /\ status = "ABSENT"
  /\ status' = "PENDING"
  /\ Goes(p, "submitted", [NoCall EXCEPT !.mode = "run"])
  /\ UNCHANGED <<plan, step, action, approval, ledger, world, history>>

BeginPlanning(p) ==
  /\ pc[p] = "submitted"
  /\ status' = Moved(p, "PLANNING")
  /\ Goes(p, "planning", [me[p] EXCEPT !.run = "PLANNING"])
  /\ UNCHANGED <<plan, step, action, approval, ledger, world, history>>

\* Mutant of Refuse: the call gives up without a word in the run's record.
RefuseSilently(p) ==
  /\ pc[p] = "planning" /\ incident
  /\ ledger' = [ledger EXCEPT !.critical = TRUE]
  /\ Ends(p)
  /\ UNCHANGED <<status, plan, step, action, approval, world, history>>

\* An open incident ends the run before it is planned.
Refuse(p) ==
  /\ pc[p] = "planning" /\ incident
  /\ ledger' = [ledger EXCEPT !.critical = TRUE]
  /\ status' = Moved(p, "BLOCKED")
  /\ Ends(p)
  /\ UNCHANGED <<plan, step, action, approval, world, history>>

MakePlan(p) ==
  /\ pc[p] = "planning" /\ ~incident
  /\ plan' \in Plans
  /\ step' = [i \in DOMAIN plan' |-> "PENDING"]
  /\ action' = [i \in DOMAIN plan' |-> "ABSENT"]
  /\ approval' = [i \in DOMAIN plan' |-> "ABSENT"]
  /\ dispatched' = [i \in DOMAIN plan' |-> 0]
  /\ Goes(p, "planned", me[p])
  /\ UNCHANGED <<status, ledger, world, calls, unplanned>>

\* No handler is around the planner (a folder it lists is not there, a procedure cannot be
\* read) or around the steps it puts (arguments that are no mapping): what it raises ends
\* the call, before the first step or after those of a plan cut short.
FailPlan(p) ==
  /\ pc[p] \in {"planning", "planned"}
  /\ pc[p] = "planning" => ~incident
  /\ unplanned' = TRUE
  /\ Ends(p)
  /\ UNCHANGED <<store, world, dispatched, calls>>

EnterExecuting(p) ==
  /\ pc[p] = "planned"
  /\ status' = Moved(p, "EXECUTING")
  /\ Goes(p, "step", [me[p] EXCEPT !.run = "EXECUTING"])
  /\ UNCHANGED <<plan, step, action, approval, ledger, world, history>>

OverBudget(m) == m.spent >= MaxActions \/ m.spent >= MaxToolCalls \/ m.network >= MaxNetwork

\* A budget is gone, or the clock says so: the steps left are not looked at.
Exhaust(p) ==
  /\ pc[p] = "step" /\ me[p].at <= Len(plan)
  /\ OverBudget(me[p]) \/ MayTimeOut
  /\ Goes(p, "verify", [me[p] EXCEPT !.tally.exhausted = TRUE])
  /\ UNCHANGED <<store, world, history>>

AtStep(p, tool) ==
  /\ pc[p] = "step" /\ me[p].at <= Len(plan)
  /\ ~OverBudget(me[p])
  /\ Kind(p).tool = tool

SkipReasoning(p) ==
  /\ AtStep(p, "none")
  /\ step' = [step EXCEPT ![me[p].at] = "SKIPPED"]
  /\ Goes(p, "step", [me[p] EXCEPT !.at = @ + 1])
  /\ UNCHANGED <<status, plan, action, approval, ledger, world, history>>

\* Mutant of RejectStep: the failure is not counted.
RejectStepUncounted(p) ==
  /\ AtStep(p, "bad")
  /\ step' = [step EXCEPT ![me[p].at] = "FAILED"]
  /\ Goes(p, "step", [me[p] EXCEPT !.at = @ + 1])
  /\ UNCHANGED <<status, plan, action, approval, ledger, world, history>>

RejectStep(p) ==
  /\ AtStep(p, "bad")
  /\ step' = [step EXCEPT ![me[p].at] = "FAILED"]
  /\ Goes(p, "step", [me[p] EXCEPT !.at = @ + 1, !.tally.failures = @ + 1])
  /\ UNCHANGED <<status, plan, action, approval, ledger, world, history>>

\* Safe mode comes before the policy's answer and before the budget is charged.
SafeModeBlock(p) ==
  /\ AtStep(p, "known")
  /\ SafeModeBlocks(level, Kind(p).risk)
  /\ ledger' = [ledger EXCEPT !.critical = TRUE]
  /\ action' = [action EXCEPT ![me[p].at] = "DENIED"]
  /\ step' = [step EXCEPT ![me[p].at] = "BLOCKED"]
  /\ Goes(p, "step", [me[p] EXCEPT !.at = @ + 1, !.tally.blocked = TRUE])
  /\ UNCHANGED <<status, plan, approval, world, history>>

\* The guard a first pass evaluates with has recorded no refusal: rejections
\* are recorded by _resume only, in a guard that evaluates nothing.
Decision(p) == Evaluate(Policy, {}, Kind(p).risk, Kind(p).always)

Charged(p) == [me[p] EXCEPT !.spent = @ + 1,
                            !.network = IF Kind(p).network THEN @ + 1 ELSE @]

Considered(p, decision) ==
  /\ AtStep(p, "known")
  /\ ~SafeModeBlocks(level, Kind(p).risk)
  /\ Decision(p) = decision

PolicyDeny(p) ==
  /\ Considered(p, "denied")
  /\ action' = [action EXCEPT ![me[p].at] = "DENIED"]
  /\ step' = [step EXCEPT ![me[p].at] = "BLOCKED"]
  /\ Goes(p, "step", [Charged(p) EXCEPT !.at = @ + 1, !.tally.blocked = TRUE])
  /\ UNCHANGED <<status, plan, approval, ledger, world, history>>

\* Mutant of RequestApproval: asking is free.
RequestApprovalUncharged(p) ==
  /\ Considered(p, "ask")
  /\ action' = [action EXCEPT ![me[p].at] = "PROPOSED"]
  /\ approval' = [approval EXCEPT ![me[p].at] = "PENDING"]
  /\ Goes(p, "asked", me[p])
  /\ UNCHANGED <<status, plan, step, ledger, world, history>>

\* The approval record is put first and can be decided from here on.
RequestApproval(p) ==
  /\ Considered(p, "ask")
  /\ action' = [action EXCEPT ![me[p].at] = "PROPOSED"]
  /\ approval' = [approval EXCEPT ![me[p].at] = "PENDING"]
  /\ Goes(p, "asked", Charged(p))
  /\ UNCHANGED <<status, plan, step, ledger, world, history>>

\* Then the action and the step, and the run moves; the loop goes on.
MarkAwaiting(p) ==
  /\ pc[p] = "asked"
  /\ action' = [action EXCEPT ![me[p].at] = "AWAITING_APPROVAL"]
  /\ step' = [step EXCEPT ![me[p].at] = "AWAITING_APPROVAL"]
  /\ status' = Moved(p, "AWAITING_APPROVAL")
  /\ Goes(p, "step", [me[p] EXCEPT !.at = @ + 1, !.tally.awaiting = TRUE,
                                   !.run = "AWAITING_APPROVAL"])
  /\ UNCHANGED <<plan, approval, ledger, world, history>>

Choose(p) ==
  /\ Considered(p, "auto")
  /\ action' = [action EXCEPT ![me[p].at] = "PROPOSED"]
  /\ Goes(p, "dispatch", Charged(p))
  /\ UNCHANGED <<status, plan, step, approval, ledger, world, history>>

(***************************************************************************)
(* _execute_action(), shared by both passes: at most two attempts, a tool  *)
(* that refuses the invocation is not tried again.                         *)
(***************************************************************************)
Dispatch(p) ==
  /\ pc[p] = "dispatch"
  /\ action' = [action EXCEPT ![me[p].at] = "EXECUTING"]
  /\ step' = [step EXCEPT ![me[p].at] = "RUNNING"]
  /\ dispatched' = [dispatched EXCEPT ![me[p].at] = @ + 1]
  /\ Goes(p, "invoke", [me[p] EXCEPT !.tries = 0])
  /\ UNCHANGED <<status, plan, approval, ledger, world, calls, unplanned>>

Invoke(p, result) ==
  /\ pc[p] = "invoke"
  /\ calls' = calls + 1
  /\ Goes(p, IF result = "fail" /\ me[p].tries = 0 THEN "invoke" ELSE "record",
           [me[p] EXCEPT !.tries = @ + 1, !.result = result])
  /\ UNCHANGED <<store, world, dispatched, unplanned>>

AfterAction(p) == IF me[p].mode = "run" THEN "step" ELSE "resume"

\* A successful observation always yields evidence; a figure computed on the
\* first pass is checked at its end, one computed on a resume is not.
RecordSuccess(p) ==
  /\ pc[p] = "record" /\ me[p].result = "ok"
  /\ \E y \in Yields :
       /\ ledger' = [ledger EXCEPT !.evidence = TRUE, !.unbacked = @ \/ y.unbacked]
       /\ Goes(p, AfterAction(p),
               [me[p] EXCEPT !.at = @ + 1, !.tally.executed = @ + 1,
                  !.checks = IF me[p].mode = "run" /\ y.check # "none" THEN @ \cup {y.check} ELSE @])
  /\ action' = [action EXCEPT ![me[p].at] = "EXECUTED"]
  /\ step' = [step EXCEPT ![me[p].at] = "DONE"]
  /\ UNCHANGED <<status, plan, approval, world, history>>

\* Mutant of RecordFailure: the action gets a status of the step's.
RecordFailureBlocked(p) ==
  /\ pc[p] = "record" /\ me[p].result # "ok"
  /\ action' = [action EXCEPT ![me[p].at] = "BLOCKED"]
  /\ step' = [step EXCEPT ![me[p].at] = "FAILED"]
  /\ Goes(p, AfterAction(p),
          [me[p] EXCEPT !.at = @ + 1, !.tally.executed = @ + 1, !.tally.failures = @ + 1])
  /\ UNCHANGED <<status, plan, approval, ledger, world, history>>

RecordFailure(p) ==
  /\ pc[p] = "record" /\ me[p].result # "ok"
  /\ action' = [action EXCEPT ![me[p].at] = "FAILED"]
  /\ step' = [step EXCEPT ![me[p].at] = "FAILED"]
  /\ Goes(p, AfterAction(p),
          [me[p] EXCEPT !.at = @ + 1, !.tally.executed = @ + 1, !.tally.failures = @ + 1])
  /\ UNCHANGED <<status, plan, approval, ledger, world, history>>

\* The end of the loop: the derived checks are run, and a pass that is not
\* waiting for anybody moves to VERIFYING.
Verify(p) ==
  LET waiting == me[p].tally.awaiting IN
  /\ pc[p] = "verify" \/ (pc[p] = "step" /\ me[p].at > Len(plan))
  /\ ledger' = [ledger EXCEPT !.checks = @ \cup me[p].checks]
  /\ status' = IF waiting THEN status ELSE Moved(p, "VERIFYING")
  /\ Goes(p, "decide", [me[p] EXCEPT !.run = IF waiting THEN @ ELSE "VERIFYING"])
  /\ UNCHANGED <<plan, step, action, approval, world, history>>

(***************************************************************************)
(* _finalize(): what to ask for, the way there, the last put.              *)
(***************************************************************************)
Pending == \E i \in DOMAIN approval : approval[i] = "PENDING"

\* The status the pass asks for.
Asks(p) == Verdict(me[p].tally, ledger, Pending)

Decide(p) ==
  /\ pc[p] = "decide"
  /\ Goes(p, IF Asks(p) = me[p].run THEN "put" ELSE "advance", [me[p] EXCEPT !.target = Asks(p)])
  /\ UNCHANGED <<store, world, history>>

\* Mutant of Waypoint: a waiting run is not taken back to EXECUTING first.
WaypointDirect(m) == IF m.run = "VERIFYING" THEN m.target ELSE "VERIFYING"

\* One move on the way: out of waiting, into VERIFYING, to the target.
Waypoint(m) ==
  CASE m.run = "AWAITING_APPROVAL" -> "EXECUTING"
    [] m.run = "VERIFYING" -> m.target
    [] OTHER -> "VERIFYING"

Advance(p) ==
  LET next == Waypoint(me[p]) IN
  /\ pc[p] = "advance" /\ MayMove(p, next)
  /\ status' = Moved(p, next)
  /\ Goes(p, IF me[p].run = "VERIFYING" THEN "put" ELSE "advance", [me[p] EXCEPT !.run = next])
  /\ UNCHANGED <<plan, step, action, approval, ledger, world, history>>

\* A move the table does not allow raises IllegalTransition out of the call.
Raise(p) ==
  /\ pc[p] = "advance" /\ ~MayMove(p, Waypoint(me[p]))
  /\ Ends(p)
  /\ UNCHANGED <<store, world, history>>

\* The call's whole copy of the run is put over whatever is stored by now.
PutFinal(p) ==
  /\ pc[p] = "put"
  /\ status' = me[p].run
  /\ Ends(p)
  /\ UNCHANGED <<plan, step, action, approval, ledger, world, history>>

(***************************************************************************)
(* _resume(): the approvals are read once, the actions as they come.       *)
(***************************************************************************)
Resume(p) ==
  /\ MayStart
  /\ pc[p] = "idle" /\ status # "ABSENT" /\ ~IsTerminal(status)
  /\ Goes(p, "resume", [NoCall EXCEPT !.run = status, !.mode = "resume", !.seen = approval])
  /\ UNCHANGED <<store, world, history>>

ResumeAt(p, seen) ==
  /\ pc[p] = "resume" /\ me[p].at <= Len(me[p].seen)
  /\ me[p].seen[me[p].at] = seen

\* Mutant of ResumeApproved: what has been done is done again.
ResumeRepeats(p) ==
  /\ ResumeAt(p, "APPROVED")
  /\ Goes(p, "dispatch", me[p])
  /\ UNCHANGED <<store, world, history>>

\* Mutant of ResumeApproved: whatever is not rejected is run.
ResumeUnrejected(p) ==
  /\ \E seen \in {"PENDING", "APPROVED"} : ResumeAt(p, seen)
  /\ action[me[p].at] \in {"AWAITING_APPROVAL", "APPROVED"}
  /\ Goes(p, "dispatch", me[p])
  /\ UNCHANGED <<store, world, history>>

ResumeApproved(p) ==
  /\ ResumeAt(p, "APPROVED") /\ action[me[p].at] = "APPROVED"
  /\ Goes(p, "dispatch", me[p])
  /\ UNCHANGED <<store, world, history>>

ResumeRejected(p) ==
  /\ ResumeAt(p, "REJECTED")
  /\ step' = [step EXCEPT ![me[p].at] = "BLOCKED"]
  /\ Goes(p, "resume", [me[p] EXCEPT !.at = @ + 1, !.tally.blocked = TRUE])
  /\ UNCHANGED <<status, plan, action, approval, ledger, world, history>>

ResumePasses(p) ==
  /\ \/ ResumeAt(p, "ABSENT")
     \/ ResumeAt(p, "PENDING")
     \/ ResumeAt(p, "APPROVED") /\ action[me[p].at] # "APPROVED"
  /\ Goes(p, "resume", [me[p] EXCEPT !.at = @ + 1])
  /\ UNCHANGED <<store, world, history>>

ResumeEnds(p) ==
  /\ pc[p] = "resume" /\ me[p].at > Len(me[p].seen)
  /\ Goes(p, "decide", me[p])
  /\ UNCHANGED <<store, world, history>>

(***************************************************************************)
(* cancel().  The steps and actions caught running are marked first.       *)
(***************************************************************************)
Cancel(p) ==
  /\ MayCancel /\ MayStart
  /\ pc[p] = "idle" /\ status # "ABSENT" /\ CanCancel(status)
  /\ step' = [i \in DOMAIN step |-> IF step[i] = "RUNNING" THEN "BLOCKED" ELSE step[i]]
  /\ action' = [i \in DOMAIN action |-> IF action[i] = "EXECUTING" THEN "SKIPPED" ELSE action[i]]
  /\ Goes(p, "cancel", [NoCall EXCEPT !.run = status, !.mode = "cancel"])
  /\ UNCHANGED <<status, plan, approval, ledger, world, history>>

CancelCommit(p) ==
  /\ pc[p] = "cancel" /\ MayMove(p, "CANCELLED")
  /\ status' = Moved(p, "CANCELLED")
  /\ Ends(p)
  /\ UNCHANGED <<plan, step, action, approval, ledger, world, history>>

(***************************************************************************)
(* The surroundings.                                                       *)
(***************************************************************************)
\* The vote that settles an approval, then the action it settles.
Settle(i, decision) ==
  /\ MayStart
  /\ approval[i] = "PENDING"
  /\ approval' = [approval EXCEPT ![i] = decision]
  /\ deciding' = deciding \cup {i}
  /\ UNCHANGED <<status, plan, step, action, ledger, level, incident, crashes, pc, me, history>>

SettleAction(i) ==
  /\ i \in deciding
  /\ action' = [action EXCEPT ![i] = approval[i]]
  /\ deciding' = deciding \ {i}
  /\ UNCHANGED <<status, plan, step, approval, ledger, level, incident, crashes, pc, me, history>>

SetLevel(l) ==
  /\ level # l /\ level' = l
  /\ UNCHANGED <<store, deciding, incident, crashes, pc, me, history>>

\* Opening an incident locks the platform unless told not to; closing it leaves
\* the level alone.
OpenIncident(lock) ==
  /\ ~incident /\ incident' = TRUE
  /\ level' = IF lock THEN "locked" ELSE level
  /\ UNCHANGED <<store, deciding, crashes, pc, me, history>>

CloseIncident ==
  /\ incident /\ incident' = FALSE
  /\ UNCHANGED <<store, deciding, level, crashes, pc, me, history>>

\* A process dies: what it has written stays.
Crash(p) ==
  /\ pc[p] # "idle" /\ crashes < MaxCrashes
  /\ crashes' = crashes + 1
  /\ Ends(p)
  /\ UNCHANGED <<store, deciding, level, incident, history>>

CrashDecision(i) ==
  /\ i \in deciding /\ crashes < MaxCrashes
  /\ crashes' = crashes + 1
  /\ deciding' = deciding \ {i}
  /\ UNCHANGED <<store, level, incident, pc, me, history>>

\* What a call under way does next.
Continue(p) ==
  \/ BeginPlanning(p) \/ Refuse(p) \/ MakePlan(p) \/ FailPlan(p) \/ EnterExecuting(p)
  \/ Exhaust(p) \/ SkipReasoning(p) \/ RejectStep(p) \/ SafeModeBlock(p) \/ PolicyDeny(p)
  \/ RequestApproval(p) \/ MarkAwaiting(p) \/ Choose(p)
  \/ Dispatch(p) \/ (\E r \in {"ok", "fail", "refused"} : Invoke(p, r))
  \/ RecordSuccess(p) \/ RecordFailure(p)
  \/ Verify(p) \/ Decide(p) \/ Advance(p) \/ Raise(p) \/ PutFinal(p)
  \/ ResumeApproved(p) \/ ResumeRejected(p) \/ ResumePasses(p) \/ ResumeEnds(p)
  \/ CancelCommit(p)

Operator ==
  /\ MayOperate
  /\ \/ \E l \in Levels : SetLevel(l)
     \/ \E lock \in BOOLEAN : OpenIncident(lock)
     \/ CloseIncident

Decisions ==
  \E i \in DOMAIN approval :
    \/ \E decision \in {"APPROVED", "REJECTED"} : Settle(i, decision)
    \/ SettleAction(i)
    \/ CrashDecision(i)

Next ==
  \/ \E p \in Procs : Submit(p) \/ Resume(p) \/ Cancel(p) \/ Continue(p) \/ Crash(p)
  \/ Operator
  \/ Decisions

Spec == Init /\ [][Next]_vars

\* A process that is alive goes on; nobody has to submit, resume, decide or
\* operate anything.
FairSpec == Spec /\ \A p \in Procs : WF_vars(Continue(p))

-----------------------------------------------------------------------------
(***************************************************************************)
(* Properties                                                              *)
(***************************************************************************)
\* The records of the run and the calls' own variables stay in range, and the
\* three records of a step are there for every step of the plan.
TypeOK ==
  /\ status \in RunStatuses \cup {"ABSENT"}
  /\ plan \in Seq(Kinds)
  /\ step \in Seq(StepStatuses) /\ Len(step) = Len(plan)
  /\ action \in Seq(ActionStatuses) /\ Len(action) = Len(plan)
  /\ approval \in Seq(ApprovalStates) /\ Len(approval) = Len(plan)
  /\ dispatched \in Seq(Nat) /\ Len(dispatched) = Len(plan)
  /\ ledger \in Ledgers
  /\ deciding \subseteq DOMAIN plan
  /\ level \in Levels /\ incident \in BOOLEAN
  /\ pc \in [Procs -> PCs] /\ me \in [Procs -> Calls]
  /\ calls \in Nat /\ crashes \in Nat /\ unplanned \in BOOLEAN

\* Step i is handed to _execute_action.
Started(i) == i \in DOMAIN dispatched /\ dispatched'[i] > dispatched[i]

\* What the worker's policy says of a planned step.
PolicySays(i) == Evaluate(Policy, {}, plan[i].risk, plan[i].always)

\* "no approval, no action": a step is only ever started when it names a tool
\* that passed validation and the policy lets it run, or when its own stored
\* approval reads APPROVED; whichever call starts it, however calls, votes and
\* deaths interleave.
GateHolds ==
  [][\A i \in DOMAIN plan : Started(i) =>
       /\ plan[i].tool = "known"
       /\ PolicySays(i) # "denied"
       /\ PolicySays(i) = "ask" => approval[i] = "APPROVED"]_vars

\* Across the first pass, every resume and every death, no step is started
\* twice: a retried resume does not repeat a side effect.
StartedOnce == \A i \in DOMAIN plan : dispatched[i] <= 1

\* "the run is never reported as a clean SUCCESS": a critical degradation keeps
\* its grip on the status, also when a resume (whose tally has forgotten the
\* block) decides, since it is read back from the store.
NeverCleanSuccess == ledger.critical => status # "SUCCESS"

\* A run that asked nobody anything cannot be a SUCCESS over a step that failed
\* or was blocked.  (One that asked can: a resume counts from zero.)
FirstPassHonest ==
  (\A i \in DOMAIN plan : approval[i] = "ABSENT")
    => \A i \in DOMAIN plan : step[i] \in {"DONE", "SKIPPED"}

\* A stored SUCCESS has something behind it and nothing against it: an executed
\* step with its evidence, no failed or unprovable check, no bare claim, nobody
\* still being asked, nobody who said no and an honest first pass.
SuccessIsEarned ==
  status = "SUCCESS" =>
    /\ FirstPassHonest
    /\ ledger.evidence /\ ~ledger.unbacked
    /\ ledger.checks \subseteq {"PASS"}
    /\ \E i \in DOMAIN plan : step[i] = "DONE"
    /\ \A i \in DOMAIN plan : approval[i] \in {"ABSENT", "APPROVED"}

\* A SUCCESS leaves no approved step unstarted, unless a process died between the two
\* writes of a decision.
SuccessUsesApprovals ==
  status = "SUCCESS" /\ crashes = 0 =>
    \A i \in DOMAIN plan : approval[i] = "APPROVED" => step[i] \in {"DONE", "FAILED"}

\* The budgets bound what a run starts, resumes included: a step that waits for
\* approval was charged when it was asked for.
StartsWithinBudget ==
  LET started == {i \in DOMAIN plan : dispatched[i] > 0}
      network == {i \in started : plan[i].network}
  IN  /\ started # {} => Cardinality(started) <= MaxActions /\ Cardinality(started) <= MaxToolCalls
      /\ network # {} => Cardinality(network) <= MaxNetwork

\* ... and no step that is started costs more than two invocations.
BudgetHolds ==
  /\ StartsWithinBudget
  /\ calls <= 2 * Cardinality({i \in DOMAIN plan : dispatched[i] > 0})

\* The persisted status follows the promise of the state machine.
Promise == INSTANCE RunLifecycle
Lifecycle == Promise!Spec

\* What leaves a run behind that is neither waiting nor over: a process that died, or a
\* planner that raised.
LeftBehind == crashes > 0 \/ unplanned

\* A run that is submitted gets to wait for people or to end, unless a process dies or
\* the planner raises: nothing after planning leaves it half-way.
RunReturns ==
  (status = "PENDING") ~> (status = "AWAITING_APPROVAL" \/ IsTerminal(status) \/ LeftBehind)

\* A resume that finds every approval decided ends the run, unless a process dies or the
\* run was never planned (a status that VERIFYING may not follow).
ResumeFinishes ==
  (\E p \in Procs : me[p].mode = "resume") /\ (\A i \in DOMAIN approval : approval[i] # "PENDING")
    ~> (IsTerminal(status) \/ LeftBehind)

(***************************************************************************)
(* What the documentation says and the code does not do.                   *)
(***************************************************************************)
\* ROADMAP: "a terminal run cannot be reopened" and "terminal states cannot be
\* re-classified".
TerminalIsFinal == [][IsTerminal(status) => status' = status]_vars

\* SAFE_MODE: locked "blocks every action that would invoke a tool": no step is
\* picked for execution under a level that blocks its risk.
SafeModeStopsChoice ==
  [][\A p \in Procs : pc[p] # "dispatch" /\ pc'[p] = "dispatch" =>
       ~SafeModeBlocks(level, Kind(p).risk)]_vars

\* TRUST_BOUNDARY: once an action is rejected, "a later same-or-higher-risk
\* action in the same run is refused".
RejectionCeiling ==
  [][\A i \in DOMAIN plan : Started(i) /\ RiskRank(plan[i].risk) > RiskRank("reversible") =>
       \A j \in 1 .. i - 1 :
         approval[j] = "REJECTED" => RiskRank(plan[j].risk) > RiskRank(plan[i].risk)]_vars
=============================================================================
