----------------------------- MODULE Approvals ------------------------------
(***************************************************************************)
(* The approval manager of sworker/approvals.py.  A session is one caller: *)
(* a CLI process or a thread of the web server.  Each handler reads the    *)
(* whole approval record, computes a new one and writes it back, and the   *)
(* store takes its lock per call only, so a handler is several steps:      *)
(*                                                                         *)
(*   vote      read and check | put the record | put the action's status   *)
(*   escalate  read and check | put the record                             *)
(*   request   put the approval | put the action                           *)
(*                                                                         *)
(* Interleaved = FALSE is the workflow of the documentation, one command    *)
(* after another; TRUE is what the threaded web server and a second        *)
(* terminal allow, since nothing in the code orders the callers.           *)
(* A vote that is refused (closed approval, no name, role too low) raises  *)
(* before any write and is no step of the model.                           *)
(***************************************************************************)
EXTENDS Rbac, FiniteSets

CONSTANTS
  Approvals,        \* approval ids, one per gated action of the runs in view
  Approvers,        \* names a vote may carry
  Roles,            \* roles a vote may carry, on the ladder or not
  Sessions,         \* concurrent callers
  PolicyQuorum,     \* approval -> quorum the worker's policy asks for its risk
  PolicyMinRole,    \* approval -> minimum role the policy asks, "" for none
  Interleaved,      \* may a handler start while another is under way?
  MaxEscalations,   \* bound: escalations explored per approval
  MaxCrashes,       \* bound: callers that die in mid-handler
  MaxExecutions     \* bound: runs of one action explored

ASSUME PolicyAssumption ==
  /\ PolicyQuorum \in [Approvals -> Int]
  /\ IsFiniteSet(Approvers)
  /\ Interleaved \in BOOLEAN
  /\ MaxEscalations \in Nat
  /\ MaxCrashes \in Nat
  /\ MaxExecutions \in Nat

VARIABLES
  rec,          \* the stored approval records
  action,       \* the stored status of each approval's action
  requesting,   \* approvals whose request() has put the approval, not yet the action
  pc,           \* per session: where its handler is
  local,        \* per session: the approval it handles and the record it will put
  executions,   \* per action: how often a resume has run it
  crashes

vars == <<rec, action, requesting, pc, local, executions, crashes>>

States == {"ABSENT", "PENDING", "APPROVED", "REJECTED"}

NoVote == [state |-> "NONE", role |-> ""]

Votes == [state : {"NONE", "APPROVED", "REJECTED"}, role : Roles \cup {""}]

Records == [state : States, votes : [Approvers -> Votes], quorum : Int,
            min_role : {""} \cup {PolicyMinRole[a] : a \in Approvals},
            escalations : Nat]

AbsentRecord == [state |-> "ABSENT", votes |-> [p \in Approvers |-> NoVote],
                 quorum |-> 1, min_role |-> "", escalations |-> 0]

NoLocal == [id |-> "none", rec |-> AbsentRecord]

Locals == [id : Approvals \cup {"none"}, rec : Records]

Max1(n) == IF n < 1 THEN 1 ELSE n

\* The distinct people whose standing vote in a record has the given state.
Voters(r, state) == {p \in Approvers : r.votes[p].state = state}

-----------------------------------------------------------------------------
Init ==
  /\ rec = [a \in Approvals |-> AbsentRecord]
  /\ action = [a \in Approvals |-> "PROPOSED"]
  /\ requesting = {}
  /\ pc = [s \in Sessions |-> "idle"]
  /\ local = [s \in Sessions |-> NoLocal]
  /\ executions = [a \in Approvals |-> 0]
  /\ crashes = 0

\* A handler may start.
MayStart == Interleaved \/ (requesting = {} /\ \A s \in Sessions : pc[s] = "idle")

\* The engine asks: the record is put PENDING with the policy's requirements
\* (a quorum below one is raised to one) and can be voted on from here.
Request(a) ==
  /\ MayStart
  /\ rec[a].state = "ABSENT"
  /\ rec' = [rec EXCEPT ![a] = [AbsentRecord EXCEPT
               !.state = "PENDING",
               !.quorum = Max1(PolicyQuorum[a]),
               !.min_role = PolicyMinRole[a]]]
  /\ requesting' = requesting \cup {a}
  /\ UNCHANGED <<action, pc, local, executions, crashes>>

\* ... and only then is its own copy of the action put as awaiting approval.
RequestPutsAction(a) ==
  /\ a \in requesting
  /\ action' = [action EXCEPT ![a] = "AWAITING_APPROVAL"]
  /\ requesting' = requesting \ {a}
  /\ UNCHANGED <<rec, pc, local, executions, crashes>>

\* Mutant of Ballot: the quorum has to be exceeded.
BallotOffByOne(r, p, role, stance) ==
  LET cast == [r EXCEPT !.votes = [@ EXCEPT ![p] = [state |-> stance, role |-> role]]]
  IN  [cast EXCEPT !.state =
         IF Voters(cast, "REJECTED") # {} THEN "REJECTED"
         ELSE IF Cardinality(Voters(cast, "APPROVED")) > Max1(cast.quorum) THEN "APPROVED"
         ELSE "PENDING"]

\* The record a vote would put: the voter's earlier vote is replaced, any
\* rejection settles it against, a full quorum settles it in favour.
Ballot(r, p, role, stance) ==
  LET cast == [r EXCEPT !.votes = [@ EXCEPT ![p] = [state |-> stance, role |-> role]]]
  IN  [cast EXCEPT !.state =
         IF Voters(cast, "REJECTED") # {} THEN "REJECTED"
         ELSE IF Cardinality(Voters(cast, "APPROVED")) >= Max1(cast.quorum) THEN "APPROVED"
         ELSE "PENDING"]

\* Mutant of Vote: a settled approval can be voted on again.
VoteOnClosed(s, a, p, role, stance) ==
  /\ MayStart
  /\ pc[s] = "idle"
  /\ rec[a].state # "ABSENT"
  /\ RoleSatisfies(role, rec[a].min_role)
  /\ local' = [local EXCEPT ![s] = [id |-> a, rec |-> Ballot(rec[a], p, role, stance)]]
  /\ pc' = [pc EXCEPT ![s] = "put"]
  /\ UNCHANGED <<rec, action, requesting, executions, crashes>>

\* Mutant of Vote: the role gate is gone.
VoteUngated(s, a, p, role, stance) ==
  /\ MayStart
  /\ pc[s] = "idle"
  /\ rec[a].state = "PENDING"
  /\ local' = [local EXCEPT ![s] = [id |-> a, rec |-> Ballot(rec[a], p, role, stance)]]
  /\ pc' = [pc EXCEPT ![s] = "put"]
  /\ UNCHANGED <<rec, action, requesting, executions, crashes>>

\* vote(), approve(), reject() and decide(): read, check, compute.
Vote(s, a, p, role, stance) ==
  /\ MayStart
  /\ pc[s] = "idle"
  /\ rec[a].state = "PENDING"
  /\ RoleSatisfies(role, rec[a].min_role)
  /\ local' = [local EXCEPT ![s] = [id |-> a, rec |-> Ballot(rec[a], p, role, stance)]]
  /\ pc' = [pc EXCEPT ![s] = "put"]
  /\ UNCHANGED <<rec, action, requesting, executions, crashes>>

\* escalate(): one more distinct approver than before.
Escalate(s, a) ==
  /\ MayStart
  /\ pc[s] = "idle"
  /\ rec[a].state = "PENDING"
  /\ rec[a].escalations < MaxEscalations
  /\ local' = [local EXCEPT ![s] = [id |-> a,
                 rec |-> [rec[a] EXCEPT !.quorum = @ + 1, !.escalations = @ + 1]]]
  /\ pc' = [pc EXCEPT ![s] = "put"]
  /\ UNCHANGED <<rec, action, requesting, executions, crashes>>

\* Mutant of PutRecord: only an approval is copied to the action.
PutRecordForgetsRejection(s) ==
  LET a == local[s].id  r == local[s].rec IN
  /\ pc[s] = "put"
  /\ rec' = [rec EXCEPT ![a] = r]
  /\ pc' = [pc EXCEPT ![s] = IF r.state = "APPROVED" THEN "settle" ELSE "idle"]
  /\ local' = IF r.state = "APPROVED" THEN local ELSE [local EXCEPT ![s] = NoLocal]
  /\ UNCHANGED <<action, requesting, executions, crashes>>

\* The whole record is written back over whatever is stored by now.
PutRecord(s) ==
  LET a == local[s].id  r == local[s].rec IN
  /\ pc[s] = "put"
  /\ rec' = [rec EXCEPT ![a] = r]
  /\ pc' = [pc EXCEPT ![s] = IF r.state = "PENDING" THEN "idle" ELSE "settle"]
  /\ local' = IF r.state = "PENDING" THEN [local EXCEPT ![s] = NoLocal] ELSE local
  /\ UNCHANGED <<action, requesting, executions, crashes>>

\* Mutant of PutAction: whatever settles the record approves the action.
PutActionApproves(s) ==
  /\ pc[s] = "settle"
  /\ action' = [action EXCEPT ![local[s].id] = "APPROVED"]
  /\ pc' = [pc EXCEPT ![s] = "idle"]
  /\ local' = [local EXCEPT ![s] = NoLocal]
  /\ UNCHANGED <<rec, requesting, executions, crashes>>

\* _settle() goes on to put the decision on the action.
PutAction(s) ==
  /\ pc[s] = "settle"
  /\ action' = [action EXCEPT ![local[s].id] = local[s].rec.state]
  /\ pc' = [pc EXCEPT ![s] = "idle"]
  /\ local' = [local EXCEPT ![s] = NoLocal]
  /\ UNCHANGED <<rec, requesting, executions, crashes>>

\* The process dies between two writes of its handler.
Crash(s) ==
  /\ pc[s] # "idle"
  /\ crashes < MaxCrashes
  /\ crashes' = crashes + 1
  /\ pc' = [pc EXCEPT ![s] = "idle"]
  /\ local' = [local EXCEPT ![s] = NoLocal]
  /\ UNCHANGED <<rec, action, requesting, executions>>

\* The engine dies between the two writes of request().
CrashRequest(a) ==
  /\ a \in requesting
  /\ crashes < MaxCrashes
  /\ crashes' = crashes + 1
  /\ requesting' = requesting \ {a}
  /\ UNCHANGED <<rec, action, pc, local, executions>>

\* Mutant of Execute: the approval alone is looked at.
ExecuteOnApproval(a) ==
  /\ MayStart
  /\ rec[a].state = "APPROVED"
  /\ executions[a] < MaxExecutions
  /\ action' = [action EXCEPT ![a] = "EXECUTED"]
  /\ executions' = [executions EXCEPT ![a] = @ + 1]
  /\ UNCHANGED <<rec, requesting, pc, local, crashes>>

\* Mutant of Execute: the action alone is looked at.
ExecuteOnAction(a) ==
  /\ MayStart
  /\ action[a] = "APPROVED"
  /\ executions[a] < MaxExecutions
  /\ action' = [action EXCEPT ![a] = "EXECUTED"]
  /\ executions' = [executions EXCEPT ![a] = @ + 1]
  /\ UNCHANGED <<rec, requesting, pc, local, crashes>>

\* A resume runs an action when record and action both say approved.
Execute(a) ==
  /\ MayStart
  /\ rec[a].state = "APPROVED"
  /\ action[a] = "APPROVED"
  /\ executions[a] < MaxExecutions
  /\ action' = [action EXCEPT ![a] = "EXECUTED"]
  /\ executions' = [executions EXCEPT ![a] = @ + 1]
  /\ UNCHANGED <<rec, requesting, pc, local, crashes>>

SessionStep(s) ==
  \/ \E a \in Approvals : Escalate(s, a)
  \/ \E a \in Approvals, p \in Approvers, role \in Roles, stance \in {"APPROVED", "REJECTED"} :
       Vote(s, a, p, role, stance)
  \/ PutRecord(s)
  \/ PutAction(s)
  \/ Crash(s)

Next ==
  \/ \E a \in Approvals :
       Request(a) \/ RequestPutsAction(a) \/ CrashRequest(a) \/ Execute(a)
  \/ \E s \in Sessions : SessionStep(s)

Spec == Init /\ [][Next]_vars

\* A process that is running finishes its handler; nobody has to start one.
FairSpec ==
  /\ Spec
  /\ \A s \in Sessions : WF_vars(PutRecord(s)) /\ WF_vars(PutAction(s))
  /\ \A a \in Approvals : WF_vars(RequestPutsAction(a))

-----------------------------------------------------------------------------
(***************************************************************************)
(* Properties                                                              *)
(***************************************************************************)

\* The stored records, the handlers' copies and the statuses stay in range.
TypeOK ==
  /\ rec \in [Approvals -> Records]
  /\ action \in [Approvals -> {"PROPOSED", "AWAITING_APPROVAL", "APPROVED",
                               "REJECTED", "EXECUTED"}]
  /\ requesting \subseteq Approvals
  /\ pc \in [Sessions -> {"idle", "put", "settle"}]
  /\ local \in [Sessions -> Locals]
  /\ executions \in [Approvals -> Nat]
  /\ crashes \in Nat

\* A record carries its own justification: approved means the quorum it asks
\* for is met by distinct people, each with a sufficient role, none against.
Justified(r) ==
  /\ \A p \in Approvers : r.votes[p].state # "NONE" => RoleSatisfies(r.votes[p].role, r.min_role)
  /\ r.state = "APPROVED" =>
       /\ Cardinality(Voters(r, "APPROVED")) >= r.quorum
       /\ Cardinality(Voters(r, "APPROVED")) >= 1
       /\ Voters(r, "REJECTED") = {}

\* However sessions interleave, no stored approval ever reads APPROVED without
\* the quorum and the roles vote() demands (the lost updates of concurrent
\* callers replace a whole record by another whole record, never mix two).
QuorumBehindApproval == \A a \in Approvals : Justified(rec[a])

\* A resume never runs an action whose stored approval lacks its quorum.
ExecutionHadQuorum ==
  [][\A a \in Approvals :
       executions'[a] > executions[a] => rec[a].state = "APPROVED" /\ Justified(rec[a])]_vars

\* "approvals are immutable": once vote() has settled a record no later write
\* changes it, whatever it says.
SettledIsImmutable ==
  [][\A a \in Approvals :
       rec[a].state \in {"APPROVED", "REJECTED"} => rec'[a] = rec[a]]_vars

\* The action never says approved against the record: what _settle() copies to
\* the action is the decision that stands.
ActionFollowsRecord ==
  \A a \in Approvals :
    /\ action[a] \in {"APPROVED", "EXECUTED"} => rec[a].state = "APPROVED"
    /\ action[a] = "REJECTED" => rec[a].state = "REJECTED"

\* One approval lets its action run at most once: no late write re-arms it.
ExecutedOnce == \A a \in Approvals : executions[a] <= 1

\* If nobody dies, a settled approval reaches its action, so that a resume can
\* see it.
DecisionReachesAction ==
  \A a \in Approvals :
    /\ (rec[a].state = "APPROVED" /\ crashes = 0)
         ~> (action[a] \in {"APPROVED", "EXECUTED"} \/ crashes > 0)
    /\ (rec[a].state = "REJECTED" /\ crashes = 0) ~> (action[a] = "REJECTED" \/ crashes > 0)

\* The record as an atomic ballot.
Promise == INSTANCE ApprovalPromise WITH
  verdict <- [a \in Approvals |-> rec[a].state],
  ayes    <- [a \in Approvals |-> Voters(rec[a], "APPROVED")],
  need    <- [a \in Approvals |-> rec[a].quorum]

\* One handler at a time, the manager implements the promised ballot.
ImplementsPromise == Promise!Spec
=============================================================================
