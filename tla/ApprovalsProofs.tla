-------------------------- MODULE ApprovalsProofs ---------------------------
(***************************************************************************)
(* Proofs about Approvals, for any approvals, approvers, roles, sessions   *)
(* and policies.                                                           *)
(*                                                                         *)
(*   TypeCorrect         the ranges, however callers interleave            *)
(*   QuorumHolds         a stored APPROVED has its quorum behind it,       *)
(*                       however callers interleave                        *)
(*   ExecutionNeedsQuorum  so does every run of an approved action         *)
(*   SerialImmutable, SerialAgreement, SerialOnce                          *)
(*                       what the documentation adds to that holds when    *)
(*                       the handlers do not interleave                    *)
(*   KeepsPromise        so is the manager the ballot of ApprovalPromise   *)
(***************************************************************************)
EXTENDS Approvals, FiniteSetTheorems, TLAPS

\* The ranges of the fields of a record that a handler computes.
LEMMA RecordFields ==
  ASSUME NEW r \in Records
  PROVE  /\ r.state \in States
         /\ r.votes \in [Approvers -> Votes]
         /\ r.quorum \in Int
         /\ r.escalations \in Nat
         /\ \A p \in Approvers : r.votes[p].state \in {"NONE", "APPROVED", "REJECTED"}
  BY DEF Records, Votes

\* Counting voters yields a number.
LEMMA VotersCount ==
  ASSUME NEW r, NEW state
  PROVE  Cardinality(Voters(r, state)) \in Nat
  <1>1. IsFiniteSet(Voters(r, state))
    BY PolicyAssumption, FS_Subset DEF Voters
  <1> QED BY <1>1, FS_CardinalityType

\* The conjunct of Justified about roles.
RolesInOrder(r) ==
  \A p \in Approvers : r.votes[p].state # "NONE" => RoleSatisfies(r.votes[p].role, r.min_role)

\* What a ballot is worth: an approval it declares has the count behind it, and
\* if the votes it was cast on were in order and the new voter passes the gate,
\* so are the votes it puts.
LEMMA BallotFields ==
  ASSUME NEW r \in Records, NEW p \in Approvers, NEW role \in Roles,
         NEW stance \in {"APPROVED", "REJECTED"}
  PROVE  LET b == Ballot(r, p, role, stance) IN
         /\ b \in Records
         /\ b.state \in {"PENDING", "APPROVED", "REJECTED"}
         /\ Justified(r) /\ RoleSatisfies(role, r.min_role) => RolesInOrder(b)
         /\ b.state = "APPROVED" => Voters(b, "REJECTED") = {}
         /\ b.state = "APPROVED" => Cardinality(Voters(b, "APPROVED")) >= Max1(b.quorum)
  <1> DEFINE cast == [r EXCEPT !.votes = [@ EXCEPT ![p] = [state |-> stance, role |-> role]]]
             b == Ballot(r, p, role, stance)
  <1>1. /\ cast \in Records
        /\ cast.votes = [r.votes EXCEPT ![p] = [state |-> stance, role |-> role]]
        /\ cast.quorum = r.quorum
        /\ cast.min_role = r.min_role
    BY DEF Records, Votes
  <1> DEFINE verdict == IF Voters(cast, "REJECTED") # {} THEN "REJECTED"
                        ELSE IF Cardinality(Voters(cast, "APPROVED")) >= Max1(cast.quorum)
                             THEN "APPROVED" ELSE "PENDING"
  <1>2. b = [cast EXCEPT !.state = verdict]
    BY DEF Ballot
  <1> HIDE DEF cast, b
  <1>3. /\ b \in Records
        /\ b.state = verdict
        /\ b.votes = cast.votes
        /\ b.quorum = cast.quorum
        /\ b.min_role = cast.min_role
    BY <1>1, <1>2 DEF Records, States
  <1>4. \A st : Voters(b, st) = Voters(cast, st)
    BY <1>3 DEF Voters
  <1>5. b.state = "APPROVED" =>
           /\ Voters(b, "REJECTED") = {}
           /\ Cardinality(Voters(b, "APPROVED")) >= Max1(b.quorum)
    BY <1>3, <1>4
  <1>6. b.state \in {"PENDING", "APPROVED", "REJECTED"}
    BY <1>3
  <1>7. ASSUME Justified(r), RoleSatisfies(role, r.min_role) PROVE RolesInOrder(b)
    <2>1. \A q \in Approvers : q # p => b.votes[q] = r.votes[q]
      BY <1>1, <1>3, RecordFields
    <2>2. b.votes[p] = [state |-> stance, role |-> role]
      BY <1>1, <1>3, RecordFields
    <2>3. b.min_role = r.min_role
      BY <1>1, <1>3
    <2> QED BY <1>7, <2>1, <2>2, <2>3 DEF Justified, RolesInOrder
  <1> QED BY <1>3, <1>5, <1>6, <1>7 DEF b
-----------------------------------------------------------------------------
\* The record before it exists is in range.
LEMMA AbsentInRange == AbsentRecord \in Records /\ NoLocal \in Locals
  BY DEF AbsentRecord, NoLocal, Records, Locals, States, Votes, NoVote

\* The fields of an escalated record.
LEMMA EscalatedFields ==
  ASSUME NEW r \in Records
  PROVE  LET e == [r EXCEPT !.quorum = @ + 1, !.escalations = @ + 1] IN
         /\ e \in Records
         /\ e.state = r.state /\ e.votes = r.votes /\ e.min_role = r.min_role
  <1>1. r.quorum + 1 \in Int /\ r.escalations + 1 \in Nat
    BY RecordFields
  <1> QED BY <1>1 DEF Records

\* A handler under way names an approval, and settles it one way or the other.
HandlerNames ==
  \A s \in Sessions :
    /\ pc[s] # "idle" => local[s].id \in Approvals
    /\ pc[s] = "settle" => local[s].rec.state \in {"APPROVED", "REJECTED"}
    /\ pc[s] = "put" => local[s].rec.state # "ABSENT"

TInv == TypeOK /\ HandlerNames

\* The initial state is in range.
LEMMA TypeInit == Init => TInv
  BY PolicyAssumption, AbsentInRange DEF Init, TInv, TypeOK, HandlerNames

\* Every step keeps the ranges.
LEMMA TypeStep == TInv /\ [Next]_vars => TInv'
  <1> SUFFICES ASSUME TInv, [Next]_vars PROVE TInv'
    OBVIOUS
  <1> USE DEF TInv, TypeOK, HandlerNames
  <1>0. NoLocal \in Locals /\ AbsentRecord \in Records
    BY AbsentInRange
  <1>1. ASSUME NEW a \in Approvals, Request(a) PROVE TInv'
    <2>1. rec'[a] \in Records
      <3>1. Max1(PolicyQuorum[a]) \in Int
        BY PolicyAssumption DEF Max1
      <3> QED BY <1>0, <1>1, <3>1 DEF Request, Records, States, AbsentRecord
    <2> QED BY <1>1, <2>1 DEF Request
  <1>2. ASSUME NEW a \in Approvals, RequestPutsAction(a) PROVE TInv'
    BY <1>2 DEF RequestPutsAction
  <1>3. ASSUME NEW a \in Approvals, CrashRequest(a) PROVE TInv'
    BY <1>3 DEF CrashRequest
  <1>4. ASSUME NEW a \in Approvals, Execute(a) PROVE TInv'
    BY <1>4 DEF Execute
  <1>5. ASSUME NEW s \in Sessions, NEW a \in Approvals, Escalate(s, a) PROVE TInv'
    <2> DEFINE e == [rec[a] EXCEPT !.quorum = @ + 1, !.escalations = @ + 1]
    <2>1. e \in Records /\ e.state = "PENDING"
      BY <1>5, EscalatedFields DEF Escalate
    <2>2. /\ local' = [local EXCEPT ![s] = [id |-> a, rec |-> e]]
          /\ pc' = [pc EXCEPT ![s] = "put"]
          /\ UNCHANGED <<rec, action, requesting, executions, crashes>>
      BY <1>5 DEF Escalate
    <2> HIDE DEF e
    <2> QED BY <2>1, <2>2 DEF Locals
  <1>6. ASSUME NEW s \in Sessions, NEW a \in Approvals, NEW p \in Approvers, NEW role \in Roles,
               NEW stance \in {"APPROVED", "REJECTED"}, Vote(s, a, p, role, stance)
        PROVE  TInv'
    <2>1. /\ Ballot(rec[a], p, role, stance) \in Records
          /\ Ballot(rec[a], p, role, stance).state # "ABSENT"
      BY BallotFields
    <2> QED BY <1>6, <2>1 DEF Vote, Locals
  <1>7. ASSUME NEW s \in Sessions, PutRecord(s) PROVE TInv'
    <2>1. local[s].rec \in Records /\ local[s].rec.state \in States
      BY RecordFields DEF Locals
    <2> QED BY <1>0, <1>7, <2>1 DEF PutRecord, Locals, States
  <1>8. ASSUME NEW s \in Sessions, PutAction(s) PROVE TInv'
    BY <1>0, <1>8 DEF PutAction
  <1>9. ASSUME NEW s \in Sessions, Crash(s) PROVE TInv'
    BY <1>0, <1>9 DEF Crash
  <1>10. CASE UNCHANGED vars
    BY <1>10 DEF vars
  <1> QED BY <1>1, <1>2, <1>3, <1>4, <1>5, <1>6, <1>7, <1>8, <1>9, <1>10 DEF Next, SessionStep

\* Type correctness: the stored records, statuses and handlers' copies never
\* leave their ranges, whatever the callers of approvals.py do.
THEOREM TypeCorrect == Spec => []TypeOK
  <1>1. Spec => []TInv
    BY TypeInit, TypeStep, PTL DEF Spec
  <1>2. TInv => TypeOK
    BY DEF TInv
  <1> QED BY <1>1, <1>2, PTL

-----------------------------------------------------------------------------
(***************************************************************************)
(* QuorumBehindApproval is not inductive: a put replaces the stored record *)
(* by a handler's copy, so the copies have to be justified as well.        *)
(***************************************************************************)
CopiesJustified == \A s \in Sessions : pc[s] # "idle" => Justified(local[s].rec)

QInv == TInv /\ QuorumBehindApproval /\ CopiesJustified

\* A record nobody has voted on is justified unless it claims to be approved.
LEMMA FreshJustified ==
  ASSUME NEW r \in Records, \A p \in Approvers : r.votes[p] = NoVote, r.state # "APPROVED"
  PROVE  Justified(r)
  <1>0. NoVote.state = "NONE"
    BY DEF NoVote
  <1>1. \A p \in Approvers : r.votes[p].state = "NONE"
    BY <1>0
  <1> QED BY <1>1 DEF Justified

\* A vote that passed the role gate keeps the record justified.
LEMMA BallotJustified ==
  ASSUME NEW r \in Records, Justified(r), NEW p \in Approvers, NEW role \in Roles,
         NEW stance \in {"APPROVED", "REJECTED"}, RoleSatisfies(role, r.min_role)
  PROVE  Justified(Ballot(r, p, role, stance))
  <1> DEFINE b == Ballot(r, p, role, stance)
  <1>1. /\ b \in Records
        /\ b.state = "APPROVED" => Voters(b, "REJECTED") = {}
        /\ b.state = "APPROVED" => Cardinality(Voters(b, "APPROVED")) >= Max1(b.quorum)
    BY BallotFields
  <1>2. RolesInOrder(b)
    BY BallotFields
  <1> HIDE DEF b
  <1>3. /\ Max1(b.quorum) >= b.quorum
        /\ Max1(b.quorum) >= 1
        /\ Max1(b.quorum) \in Int
        /\ b.quorum \in Int
    BY <1>1, RecordFields DEF Max1
  <1>4. Cardinality(Voters(b, "APPROVED")) \in Nat
    BY VotersCount
  <1>5. b.state = "APPROVED" =>
          /\ Cardinality(Voters(b, "APPROVED")) >= b.quorum
          /\ Cardinality(Voters(b, "APPROVED")) >= 1
          /\ Voters(b, "REJECTED") = {}
    BY <1>1, <1>3, <1>4
  <1> QED BY <1>2, <1>5 DEF Justified, RolesInOrder, b

\* Every step keeps the stored records and the copies justified.
LEMMA QuorumStep == QInv /\ [Next]_vars => QInv'
  <1> SUFFICES ASSUME QInv, [Next]_vars PROVE QuorumBehindApproval' /\ CopiesJustified'
    BY TypeStep DEF QInv
  <1> USE DEF QInv, TInv, TypeOK, HandlerNames, QuorumBehindApproval, CopiesJustified
  <1>1. ASSUME NEW a \in Approvals, Request(a)
        PROVE  QuorumBehindApproval' /\ CopiesJustified'
    <2>1. /\ rec'[a].state = "PENDING"
          /\ rec'[a].votes = AbsentRecord.votes
      BY <1>1, AbsentInRange DEF Request, Records
    <2>2. Justified(rec'[a])
      BY <2>1, TypeStep, FreshJustified DEF AbsentRecord
    <2> QED BY <1>1, <2>2 DEF Request
  <1>2. ASSUME NEW a \in Approvals, RequestPutsAction(a)
        PROVE  QuorumBehindApproval' /\ CopiesJustified'
    BY <1>2 DEF RequestPutsAction
  <1>3. ASSUME NEW a \in Approvals, CrashRequest(a)
        PROVE  QuorumBehindApproval' /\ CopiesJustified'
    BY <1>3 DEF CrashRequest
  <1>4. ASSUME NEW a \in Approvals, Execute(a)
        PROVE  QuorumBehindApproval' /\ CopiesJustified'
    BY <1>4 DEF Execute
  <1>5. ASSUME NEW s \in Sessions, NEW a \in Approvals, Escalate(s, a)
        PROVE  QuorumBehindApproval' /\ CopiesJustified'
    <2> DEFINE e == [rec[a] EXCEPT !.quorum = @ + 1, !.escalations = @ + 1]
    <2>1. e.state = "PENDING" /\ e.votes = rec[a].votes /\ e.min_role = rec[a].min_role
      BY <1>5, EscalatedFields DEF Escalate
    <2>2. Justified(e)
      BY <2>1 DEF Justified
    <2>3. /\ local' = [local EXCEPT ![s] = [id |-> a, rec |-> e]]
          /\ pc' = [pc EXCEPT ![s] = "put"]
          /\ rec' = rec
      BY <1>5 DEF Escalate
    <2> HIDE DEF e
    <2> QED BY <2>2, <2>3
  <1>6. ASSUME NEW s \in Sessions, NEW a \in Approvals, NEW p \in Approvers, NEW role \in Roles,
               NEW stance \in {"APPROVED", "REJECTED"}, Vote(s, a, p, role, stance)
        PROVE  QuorumBehindApproval' /\ CopiesJustified'
    <2>1. Justified(Ballot(rec[a], p, role, stance))
      BY <1>6, BallotJustified DEF Vote
    <2> QED BY <1>6, <2>1 DEF Vote
  <1>7. ASSUME NEW s \in Sessions, PutRecord(s)
        PROVE  QuorumBehindApproval' /\ CopiesJustified'
    BY <1>7 DEF PutRecord
  <1>8. ASSUME NEW s \in Sessions, PutAction(s)
        PROVE  QuorumBehindApproval' /\ CopiesJustified'
    BY <1>8 DEF PutAction
  <1>9. ASSUME NEW s \in Sessions, Crash(s)
        PROVE  QuorumBehindApproval' /\ CopiesJustified'
    BY <1>9 DEF Crash
  <1>10. CASE UNCHANGED vars
    BY <1>10 DEF vars
  <1> QED BY <1>1, <1>2, <1>3, <1>4, <1>5, <1>6, <1>7, <1>8, <1>9, <1>10 DEF Next, SessionStep

\* Nothing is approved before it is asked.
LEMMA QuorumInit == Init => QInv
  <1> SUFFICES ASSUME Init PROVE QInv
    OBVIOUS
  <1>1. Justified(AbsentRecord)
    BY AbsentInRange, FreshJustified DEF AbsentRecord
  <1> QED BY <1>1, TypeInit DEF Init, QInv, QuorumBehindApproval, CopiesJustified

\* A stored APPROVED has its quorum of distinct, sufficiently privileged people
\* behind it and nobody against, however the sessions of approvals.py interleave.
THEOREM QuorumHolds == Spec => []QuorumBehindApproval
  <1>1. Spec => []QInv
    BY QuorumInit, QuorumStep, PTL DEF Spec
  <1>2. QInv => QuorumBehindApproval
    BY DEF QInv
  <1> QED BY <1>1, <1>2, PTL

\* Every run of a gated action starts from a stored approval with its quorum.
THEOREM ExecutionNeedsQuorum == Spec => ExecutionHadQuorum
  <1> DEFINE Good == \A a \in Approvals :
               executions'[a] > executions[a] => rec[a].state = "APPROVED" /\ Justified(rec[a])
  <1>1. QInv /\ [Next]_vars => [Good]_vars
    <2> SUFFICES ASSUME QInv, Next, NEW b \in Approvals, executions'[b] > executions[b]
                 PROVE  rec[b].state = "APPROVED" /\ Justified(rec[b])
      OBVIOUS
    <2>1. \E a \in Approvals : Execute(a)
      <3>1. executions' # executions
        BY DEF QInv, TInv, TypeOK
      <3> QED BY <3>1 DEF Next, SessionStep, Request, RequestPutsAction, CrashRequest,
                          Escalate, Vote, PutRecord, PutAction, Crash
    <2>2. PICK a \in Approvals : Execute(a)
      BY <2>1
    <2>3. a = b
      BY <2>2 DEF Execute, QInv, TInv, TypeOK
    <2> QED BY <2>2, <2>3 DEF Execute, QInv, QuorumBehindApproval
  <1>2. Spec => []QInv
    BY QuorumInit, QuorumStep, PTL DEF Spec
  <1> QED BY <1>1, <1>2, PTL DEF Spec, ExecutionHadQuorum
-----------------------------------------------------------------------------
(***************************************************************************)
(* One handler at a time.  None of the three properties is inductive: they *)
(* need to know that the one handler under way still holds the record it   *)
(* read, and that its action has not been decided or run meanwhile.        *)
(***************************************************************************)
Undecided == {"PROPOSED", "AWAITING_APPROVAL"}

\* At most one handler is under way, and none beside a request.
OneHandler ==
  /\ \A s, t \in Sessions : pc[s] # "idle" /\ pc[t] # "idle" => s = t
  /\ \A s \in Sessions : requesting # {} => pc[s] = "idle"

\* What it holds is what the store holds.
HandlerIsCurrent ==
  \A s \in Sessions :
    /\ pc[s] = "put" => rec[local[s].id].state = "PENDING"
    /\ pc[s] = "settle" => /\ rec[local[s].id] = local[s].rec
                           /\ action[local[s].id] \in Undecided

\* No decision on the action without one on the record, no run without its mark.
ActionWaits ==
  \A a \in Approvals :
    /\ rec[a].state \in {"ABSENT", "PENDING"} => action[a] \in Undecided
    /\ a \in requesting => rec[a].state = "PENDING"
    /\ executions[a] = 0 \/ (executions[a] = 1 /\ action[a] = "EXECUTED")

SInv == TInv /\ OneHandler /\ HandlerIsCurrent /\ ActionWaits /\ ActionFollowsRecord

\* Before anything is asked all of it holds.
LEMMA SerialInit == Init => SInv
  <1> SUFFICES ASSUME Init PROVE SInv
    OBVIOUS
  <1>1. AbsentRecord.state = "ABSENT"
    BY DEF AbsentRecord
  <1> QED BY <1>1, TypeInit DEF Init, SInv, OneHandler, HandlerIsCurrent, ActionWaits,
                                ActionFollowsRecord, Undecided

\* A handler of its own keeps all of it.
LEMMA SerialStep == ~Interleaved /\ SInv /\ [Next]_vars => SInv'
  <1> SUFFICES ASSUME ~Interleaved, SInv, [Next]_vars
               PROVE  OneHandler' /\ HandlerIsCurrent' /\ ActionWaits' /\ ActionFollowsRecord'
    BY TypeStep DEF SInv
  <1> DEFINE Goal == OneHandler' /\ HandlerIsCurrent' /\ ActionWaits' /\ ActionFollowsRecord'
  <1> USE DEF SInv, TInv, TypeOK, HandlerNames, OneHandler, HandlerIsCurrent, ActionWaits,
              ActionFollowsRecord, Undecided, MayStart
  <1>1. ASSUME NEW a \in Approvals, Request(a) PROVE Goal
    <2>1. rec'[a].state = "PENDING"
      <3>1. rec'[a] = [AbsentRecord EXCEPT !.state = "PENDING",
                                           !.quorum = Max1(PolicyQuorum[a]),
                                           !.min_role = PolicyMinRole[a]]
        BY <1>1 DEF Request
      <3>2. AbsentRecord \in Records
        BY AbsentInRange
      <3> QED BY ONLY <3>1, <3>2 DEF Records
    <2>3. \A b \in Approvals : b # a => rec'[b] = rec[b]
      BY <1>1 DEF Request
    <2>2. /\ rec[a].state = "ABSENT"
          /\ requesting' = {a}
          /\ \A s \in Sessions : pc'[s] = "idle"
          /\ UNCHANGED <<action, executions>>
      BY <1>1 DEF Request
    <2> QED BY <2>1, <2>2, <2>3
  <1>2. ASSUME NEW a \in Approvals, RequestPutsAction(a) PROVE Goal
    BY <1>2 DEF RequestPutsAction
  <1>3. ASSUME NEW a \in Approvals, CrashRequest(a) PROVE Goal
    BY <1>3 DEF CrashRequest
  <1>4. ASSUME NEW a \in Approvals, Execute(a) PROVE Goal
    BY <1>4 DEF Execute
  <1>5. ASSUME NEW s \in Sessions, NEW a \in Approvals, Escalate(s, a) PROVE Goal
    <2>1. /\ local'[s].id = a
          /\ rec[a].state = "PENDING"
          /\ \A t \in Sessions : t # s => pc'[t] = "idle"
          /\ pc'[s] = "put"
          /\ requesting = {}
          /\ UNCHANGED <<rec, action, requesting, executions>>
      BY <1>5 DEF Escalate
    <2> QED BY <2>1
  <1>6. ASSUME NEW s \in Sessions, NEW a \in Approvals, NEW p \in Approvers, NEW role \in Roles,
               NEW stance \in {"APPROVED", "REJECTED"}, Vote(s, a, p, role, stance)
        PROVE  Goal
    <2>1. /\ local'[s].id = a
          /\ rec[a].state = "PENDING"
          /\ \A t \in Sessions : t # s => pc'[t] = "idle"
          /\ pc'[s] = "put"
          /\ requesting = {}
          /\ UNCHANGED <<rec, action, requesting, executions>>
      BY <1>6 DEF Vote
    <2> QED BY <2>1
  <1>7. ASSUME NEW s \in Sessions, PutRecord(s) PROVE Goal
    <2> DEFINE a == local[s].id
               r == local[s].rec
    <2>1. /\ a \in Approvals
          /\ rec[a].state = "PENDING"
          /\ r.state \in {"PENDING", "APPROVED", "REJECTED"}
      BY <1>7, RecordFields DEF PutRecord, Locals, States
    <2>2. /\ rec' = [rec EXCEPT ![a] = r]
          /\ UNCHANGED <<action, requesting, executions>>
          /\ \A t \in Sessions : t # s => pc[t] = "idle" /\ pc'[t] = "idle"
          /\ requesting = {}
          /\ r.state = "PENDING" => pc'[s] = "idle"
          /\ r.state # "PENDING" => pc'[s] = "settle" /\ local'[s] = local[s]
      BY <1>7 DEF PutRecord
    <2>3. action[a] \in Undecided
      BY <2>1
    <2> QED BY <2>1, <2>2, <2>3
  <1>8. ASSUME NEW s \in Sessions, PutAction(s) PROVE Goal
    <2> DEFINE a == local[s].id
    <2>1. /\ a \in Approvals
          /\ rec[a] = local[s].rec
          /\ rec[a].state \in {"APPROVED", "REJECTED"}
          /\ action[a] \in Undecided
      BY <1>8 DEF PutAction
    <2>2. /\ action' = [action EXCEPT ![a] = rec[a].state]
          /\ UNCHANGED <<rec, requesting, executions>>
          /\ requesting = {}
          /\ \A t \in Sessions : pc'[t] = "idle"
      BY <1>8, <2>1 DEF PutAction
    <2> QED BY <2>1, <2>2
  <1>9. ASSUME NEW s \in Sessions, Crash(s) PROVE Goal
    <2>1. /\ \A t \in Sessions : pc'[t] = "idle"
          /\ UNCHANGED <<rec, action, requesting, executions>>
      BY <1>9 DEF Crash
    <2> QED BY <2>1
  <1>10. CASE UNCHANGED vars
    BY <1>10 DEF vars
  <1> QED BY <1>1, <1>2, <1>3, <1>4, <1>5, <1>6, <1>7, <1>8, <1>9, <1>10 DEF Next, SessionStep

\* One handler at a time, what _settle() puts on the action is the decision
\* that stands on the record.
THEOREM SerialAgreement == ASSUME ~Interleaved PROVE Spec => []ActionFollowsRecord
  <1>1. Spec => []SInv
    BY SerialInit, SerialStep, PTL DEF Spec
  <1>2. SInv => ActionFollowsRecord
    BY DEF SInv
  <1> QED BY <1>1, <1>2, PTL

\* One handler at a time, an approval runs its action at most once.
THEOREM SerialOnce == ASSUME ~Interleaved PROVE Spec => []ExecutedOnce
  <1>1. Spec => []SInv
    BY SerialInit, SerialStep, PTL DEF Spec
  <1>2. SInv => ExecutedOnce
    BY DEF SInv, ActionWaits, ExecutedOnce
  <1> QED BY <1>1, <1>2, PTL

\* One handler at a time, a settled record is never written again: what vote()
\* checks before its write still holds when it writes.
THEOREM SerialImmutable == ASSUME ~Interleaved PROVE Spec => SettledIsImmutable
  <1> DEFINE Good == \A a \in Approvals :
               rec[a].state \in {"APPROVED", "REJECTED"} => rec'[a] = rec[a]
  <1>1. SInv /\ [Next]_vars => [Good]_vars
    <2> SUFFICES ASSUME SInv, Next, NEW b \in Approvals, rec[b].state \in {"APPROVED", "REJECTED"}
                 PROVE  rec'[b] = rec[b]
      OBVIOUS
    <2> USE DEF SInv, TInv, TypeOK, HandlerNames, HandlerIsCurrent
    <2>1. ASSUME NEW a \in Approvals, Request(a) PROVE rec'[b] = rec[b]
      BY <2>1 DEF Request
    <2>2. ASSUME NEW s \in Sessions, PutRecord(s) PROVE rec'[b] = rec[b]
      BY <2>2 DEF PutRecord
    <2>3. CASE rec' = rec
      BY <2>3
    <2> QED BY <2>1, <2>2, <2>3 DEF Next, SessionStep, RequestPutsAction, CrashRequest, Execute,
                                    Escalate, Vote, PutAction, Crash
  <1>2. Spec => []SInv
    BY SerialInit, SerialStep, PTL DEF Spec
  <1> QED BY <1>1, <1>2, PTL DEF Spec, SettledIsImmutable

-----------------------------------------------------------------------------
(***************************************************************************)
(* The ballot of ApprovalPromise.  A handler computes the record it will   *)
(* put some steps before it does; the put is one step of the ballot        *)
(* because the copy is one step on from what is still stored.              *)
(***************************************************************************)
\* From an open record, one step of the ballot on: raised, a yes, or a no.
OneOn(r, n) ==
  \/ /\ n.state = r.state /\ n.quorum = r.quorum + 1
     /\ Voters(n, "APPROVED") = Voters(r, "APPROVED")
  \/ \E p \in Approvers :
       /\ n.quorum = r.quorum
       /\ Voters(n, "APPROVED") = Voters(r, "APPROVED") \cup {p}
       /\ n.state = IF Cardinality(Voters(n, "APPROVED")) >= r.quorum
                    THEN "APPROVED" ELSE r.state
  \/ \E p \in Approvers :
       /\ n.quorum = r.quorum
       /\ Voters(n, "APPROVED") = Voters(r, "APPROVED") \ {p}
       /\ n.state = "REJECTED"

\* A record asks for somebody; nobody is against one that is open, and nobody
\* is for one that is not there.
Sound(r) ==
  /\ r.quorum >= 1
  /\ r.state = "PENDING" => Voters(r, "REJECTED") = {}
  /\ r.state = "ABSENT" => Voters(r, "APPROVED") = {}

RecordsSound == \A a \in Approvals : Sound(rec[a])

CopiesOneOn ==
  \A s \in Sessions :
    pc[s] = "put" => Sound(local[s].rec) /\ OneOn(rec[local[s].id], local[s].rec)

PInv == SInv /\ RecordsSound /\ CopiesOneOn

\* Who stands where after a ballot.
LEMMA BallotVoters ==
  ASSUME NEW r \in Records, NEW p \in Approvers, NEW role \in Roles,
         NEW stance \in {"APPROVED", "REJECTED"}
  PROVE  LET b == Ballot(r, p, role, stance) IN
         /\ b.quorum = r.quorum
         /\ Voters(b, stance) = Voters(r, stance) \cup {p}
         /\ \A other \in {"APPROVED", "REJECTED"} :
              other # stance => Voters(b, other) = Voters(r, other) \ {p}
         /\ b.state = IF Voters(b, "REJECTED") # {} THEN "REJECTED"
                      ELSE IF Cardinality(Voters(b, "APPROVED")) >= Max1(r.quorum)
                           THEN "APPROVED" ELSE "PENDING"
  <1> DEFINE vote == [state |-> stance, role |-> role]
             cast == [r EXCEPT !.votes = [@ EXCEPT ![p] = vote]]
             b == Ballot(r, p, role, stance)
  <1>1. /\ cast \in Records
        /\ cast.votes = [r.votes EXCEPT ![p] = vote]
        /\ cast.quorum = r.quorum
    BY DEF Records, Votes
  <1> DEFINE verdict == IF Voters(cast, "REJECTED") # {} THEN "REJECTED"
                        ELSE IF Cardinality(Voters(cast, "APPROVED")) >= Max1(cast.quorum)
                             THEN "APPROVED" ELSE "PENDING"
  <1>2. b = [cast EXCEPT !.state = verdict]
    BY DEF Ballot
  <1>3. r.votes \in [Approvers -> Votes] /\ vote.state = stance
    BY RecordFields
  <1> HIDE DEF cast, b, vote
  <1>4. b.state = verdict /\ b.votes = cast.votes /\ b.quorum = cast.quorum
    BY <1>1, <1>2 DEF Records, States
  <1>5. \A st : Voters(b, st) = Voters(cast, st)
    BY <1>4 DEF Voters
  <1>6. b.votes[p] = vote /\ \A q \in Approvers : q # p => b.votes[q] = r.votes[q]
    BY <1>1, <1>3, <1>4
  <1>7. Voters(b, stance) = Voters(r, stance) \cup {p}
    BY <1>3, <1>6 DEF Voters
  <1>8. \A other \in {"APPROVED", "REJECTED"} :
          other # stance => Voters(b, other) = Voters(r, other) \ {p}
    BY <1>3, <1>6 DEF Voters
  <1> QED BY <1>1, <1>4, <1>5, <1>7, <1>8 DEF b

\* A ballot cast on an open record is one step on.
LEMMA BallotOneOn ==
  ASSUME NEW r \in Records, Sound(r), r.state = "PENDING", NEW p \in Approvers,
         NEW role \in Roles, NEW stance \in {"APPROVED", "REJECTED"}
  PROVE  Sound(Ballot(r, p, role, stance)) /\ OneOn(r, Ballot(r, p, role, stance))
  <1> DEFINE b == Ballot(r, p, role, stance)
  <1>1. /\ b.quorum = r.quorum
        /\ Voters(b, stance) = Voters(r, stance) \cup {p}
        /\ \A other \in {"APPROVED", "REJECTED"} :
             other # stance => Voters(b, other) = Voters(r, other) \ {p}
        /\ b.state = IF Voters(b, "REJECTED") # {} THEN "REJECTED"
                     ELSE IF Cardinality(Voters(b, "APPROVED")) >= Max1(r.quorum)
                          THEN "APPROVED" ELSE "PENDING"
    BY BallotVoters
  <1> HIDE DEF b
  <1>2. Voters(r, "REJECTED") = {} /\ r.quorum >= 1 /\ Max1(r.quorum) = r.quorum
    BY RecordFields DEF Sound, Max1
  <1>3. Sound(b)
    BY <1>1, <1>2 DEF Sound
  <1>4. CASE stance = "APPROVED"
    <2>1. /\ Voters(b, "REJECTED") = {}
          /\ Voters(b, "APPROVED") = Voters(r, "APPROVED") \cup {p}
      BY <1>1, <1>2, <1>4
    <2> QED BY <1>1, <1>2, <2>1, <1>3 DEF OneOn, b
  <1>5. CASE stance = "REJECTED"
    <2>1. /\ Voters(b, "REJECTED") # {}
          /\ Voters(b, "APPROVED") = Voters(r, "APPROVED") \ {p}
      BY <1>1, <1>5
    <2> QED BY <1>1, <2>1, <1>3 DEF OneOn, b
  <1> QED BY <1>4, <1>5

\* A raised record is one step on.
LEMMA RaiseOneOn ==
  ASSUME NEW r \in Records, Sound(r), r.state = "PENDING"
  PROVE  LET e == [r EXCEPT !.quorum = @ + 1, !.escalations = @ + 1] IN
         Sound(e) /\ OneOn(r, e)
  <1> DEFINE e == [r EXCEPT !.quorum = @ + 1, !.escalations = @ + 1]
  <1>1. e.state = r.state /\ e.votes = r.votes /\ e.quorum = r.quorum + 1
    BY EscalatedFields DEF Records
  <1> HIDE DEF e
  <1>2. \A st : Voters(e, st) = Voters(r, st)
    BY <1>1 DEF Voters
  <1>3. r.quorum \in Int
    BY RecordFields
  <1> QED BY <1>1, <1>2, <1>3 DEF Sound, OneOn, e

\* Nobody has been asked, and nobody votes.
LEMMA AbsentSound ==
  AbsentRecord.quorum = 1 /\ \A st \in {"APPROVED", "REJECTED"} : Voters(AbsentRecord, st) = {}
  <1>1. NoVote.state = "NONE"
    BY DEF NoVote
  <1>2. \A p \in Approvers : AbsentRecord.votes[p] = NoVote
    BY DEF AbsentRecord
  <1>3. AbsentRecord.quorum = 1
    BY DEF AbsentRecord
  <1> QED BY <1>1, <1>2, <1>3 DEF Voters

\* What is asked for has a quorum, and nobody has voted on it.
LEMMA RequestOpens ==
  ASSUME TInv, NEW a \in Approvals, Request(a)
  PROVE  /\ rec[a].state = "ABSENT" /\ rec'[a].state = "PENDING"
         /\ rec'[a].quorum \in Nat \ {0}
         /\ \A st \in {"APPROVED", "REJECTED"} : Voters(rec'[a], st) = {}
         /\ Sound(rec'[a])
         /\ \A b \in Approvals : b # a => rec'[b] = rec[b]
  <1> DEFINE r == [AbsentRecord EXCEPT !.state = "PENDING", !.quorum = Max1(PolicyQuorum[a]),
                                       !.min_role = PolicyMinRole[a]]
  <1>1. r.state = "PENDING" /\ r.votes = AbsentRecord.votes /\ r.quorum = Max1(PolicyQuorum[a])
    BY AbsentInRange DEF Records
  <1>2. Max1(PolicyQuorum[a]) \in Nat \ {0}
    BY PolicyAssumption DEF Max1
  <1>3. rec' = [rec EXCEPT ![a] = r]
    BY DEF Request
  <1> HIDE DEF r
  <1>4. rec'[a] = r /\ \A b \in Approvals : b # a => rec'[b] = rec[b]
    BY <1>3 DEF TInv, TypeOK
  <1>5. \A st : Voters(rec'[a], st) = Voters(AbsentRecord, st)
    BY <1>1, <1>4 DEF Voters
  <1>6. /\ rec[a].state = "ABSENT" /\ rec'[a].state = "PENDING"
        /\ rec'[a].quorum \in Nat \ {0}
        /\ \A st \in {"APPROVED", "REJECTED"} : Voters(rec'[a], st) = {}
    BY <1>1, <1>2, <1>4, <1>5, AbsentSound DEF Request
  <1> QED BY <1>4, <1>6 DEF Sound

\* At first nothing is open, and nobody is about to put anything.
LEMMA PromiseInit == Init => PInv
  <1> SUFFICES ASSUME Init PROVE PInv
    OBVIOUS
  <1>1. Sound(AbsentRecord)
    BY AbsentSound DEF Sound
  <1> QED BY <1>1, SerialInit DEF Init, PInv, RecordsSound, CopiesOneOn

\* The copies stay one on, since the one handler that puts is the one that computed.
LEMMA PromiseStep == ~Interleaved /\ PInv /\ [Next]_vars => PInv'
  <1> SUFFICES ASSUME ~Interleaved, PInv, [Next]_vars PROVE RecordsSound' /\ CopiesOneOn'
    BY SerialStep DEF PInv
  <1> DEFINE Goal == RecordsSound' /\ CopiesOneOn'
  <1> USE DEF PInv, SInv, TInv, TypeOK, HandlerNames, OneHandler, HandlerIsCurrent,
              RecordsSound, CopiesOneOn, MayStart
  <1>1. ASSUME NEW a \in Approvals, Request(a) PROVE Goal
    <2>1. Sound(rec'[a])
      BY Zenon, <1>1, RequestOpens
    <2>2. \A b \in Approvals : Sound(rec'[b])
      BY <1>1, <2>1, RequestOpens
    <2>3. \A s \in Sessions : pc'[s] = "idle"
      BY <1>1 DEF Request
    <2> QED BY <2>2, <2>3
  <1>2. ASSUME UNCHANGED <<rec, pc, local>> PROVE Goal
    BY <1>2
  <1>3. ASSUME NEW a \in Approvals, RequestPutsAction(a) \/ CrashRequest(a) \/ Execute(a)
        PROVE  Goal
    BY <1>2, <1>3 DEF RequestPutsAction, CrashRequest, Execute
  <1>4. ASSUME NEW s \in Sessions, NEW a \in Approvals, Escalate(s, a) PROVE Goal
    <2> DEFINE e == [rec[a] EXCEPT !.quorum = @ + 1, !.escalations = @ + 1]
    <2>1. Sound(e) /\ OneOn(rec[a], e)
      BY <1>4, RaiseOneOn DEF Escalate
    <2>2. /\ local' = [local EXCEPT ![s] = [id |-> a, rec |-> e]]
          /\ pc' = [pc EXCEPT ![s] = "put"] /\ rec' = rec
      BY <1>4 DEF Escalate
    <2> HIDE DEF e
    <2> QED BY <2>1, <2>2
  <1>5. ASSUME NEW s \in Sessions, NEW a \in Approvals, NEW p \in Approvers, NEW role \in Roles,
               NEW stance \in {"APPROVED", "REJECTED"}, Vote(s, a, p, role, stance)
        PROVE  Goal
    <2>1. Sound(Ballot(rec[a], p, role, stance)) /\ OneOn(rec[a], Ballot(rec[a], p, role, stance))
      BY <1>5, BallotOneOn DEF Vote
    <2> QED BY <1>5, <2>1 DEF Vote
  <1>6. ASSUME NEW s \in Sessions, PutRecord(s) PROVE Goal
    <2>1. local[s].id \in Approvals /\ Sound(local[s].rec)
      BY <1>6 DEF PutRecord
    <2>2. /\ rec' = [rec EXCEPT ![local[s].id] = local[s].rec]
          /\ \A t \in Sessions : pc'[t] # "put"
      BY <1>6 DEF PutRecord
    <2> QED BY <2>1, <2>2
  <1>7. ASSUME NEW s \in Sessions, PutAction(s) \/ Crash(s) PROVE Goal
    BY <1>7 DEF PutAction, Crash
  <1>8. CASE UNCHANGED vars
    BY <1>2, <1>8 DEF vars
  <1> QED BY <1>1, <1>3, <1>4, <1>5, <1>6, <1>7, <1>8 DEF Next, SessionStep

\* The ballot counts as the manager does.
LEMMA SameCount == \A S : Promise!Cardinality(S) = Cardinality(S)
  BY DEF Promise!Cardinality, Cardinality

\* The put of a copy that is one on from a pending record is a step of the ballot.
LEMMA PutKeepsPromise ==
  ASSUME TypeOK, NEW a \in Approvals, NEW r, rec' = [rec EXCEPT ![a] = r],
         rec[a].state = "PENDING", OneOn(rec[a], r)
  PROVE  Promise!Next
  <1> DEFINE verdict == [b \in Approvals |-> rec[b].state]
             ayes == [b \in Approvals |-> Voters(rec[b], "APPROVED")]
             need == [b \in Approvals |-> rec[b].quorum]
  <1>1. rec'[a] = r /\ \A b \in Approvals : b # a => rec'[b] = rec[b]
    BY DEF TypeOK
  <1>2. /\ verdict' = [verdict EXCEPT ![a] = r.state]
        /\ ayes' = [ayes EXCEPT ![a] = Voters(r, "APPROVED")]
        /\ need' = [need EXCEPT ![a] = r.quorum]
    <2>1. \A b \in Approvals : rec'[b] = IF b = a THEN r ELSE rec[b]
      BY <1>1
    <2>2. verdict' = [verdict EXCEPT ![a] = r.state]
      <3>1. \A b \in Approvals : rec'[b].state = IF b = a THEN r.state ELSE rec[b].state
        BY <2>1
      <3> QED BY <3>1
    <2>3. ayes' = [ayes EXCEPT ![a] = Voters(r, "APPROVED")]
      BY <2>1 DEF Voters
    <2>4. need' = [need EXCEPT ![a] = r.quorum]
      <3>1. \A b \in Approvals : rec'[b].quorum = IF b = a THEN r.quorum ELSE rec[b].quorum
        BY <2>1
      <3> QED BY <3>1
    <2> QED BY <2>2, <2>3, <2>4
  <1>3. verdict[a] = "PENDING" /\ ayes[a] = Voters(rec[a], "APPROVED") /\ need[a] = rec[a].quorum
    OBVIOUS
  <1>4. ayes'[a] = Voters(r, "APPROVED")
    BY <1>1
  <1> HIDE DEF verdict, ayes, need
  <1>5. /\ r.state = rec[a].state => verdict' = verdict
        /\ Voters(r, "APPROVED") = Voters(rec[a], "APPROVED") => ayes' = ayes
        /\ r.quorum = rec[a].quorum => need' = need
    BY <1>2, <1>3 DEF verdict, ayes, need
  <1>6. CASE /\ r.state = rec[a].state /\ r.quorum = rec[a].quorum + 1
             /\ Voters(r, "APPROVED") = Voters(rec[a], "APPROVED")
    <2>1. Promise!Raise(a)
      BY <1>2, <1>3, <1>5, <1>6 DEF Promise!Raise, verdict, ayes, need
    <2> QED BY <2>1 DEF Promise!Next
  <1>7. ASSUME NEW p \in Approvers, r.quorum = rec[a].quorum,
               Voters(r, "APPROVED") = Voters(rec[a], "APPROVED") \cup {p},
               r.state = IF Cardinality(Voters(r, "APPROVED")) >= rec[a].quorum
                         THEN "APPROVED" ELSE rec[a].state
        PROVE  Promise!Next
    <2>1. Promise!SayYes(a, p)
      BY <1>2, <1>3, <1>4, <1>5, <1>7, SameCount DEF Promise!SayYes, verdict, ayes, need
    <2> QED BY <2>1 DEF Promise!Next
  <1>8. ASSUME NEW p \in Approvers, r.quorum = rec[a].quorum, r.state = "REJECTED",
               Voters(r, "APPROVED") = Voters(rec[a], "APPROVED") \ {p}
        PROVE  Promise!Next
    <2>1. Promise!SayNo(a, p)
      BY <1>2, <1>3, <1>5, <1>8 DEF Promise!SayNo, verdict, ayes, need
    <2> QED BY <2>1 DEF Promise!Next
  <1> QED BY <1>6, <1>7, <1>8 DEF OneOn

\* Asking is opening.
LEMMA RequestKeepsPromise ==
  ASSUME TInv, RecordsSound, NEW a \in Approvals, Request(a)
  PROVE  Promise!Next
  <1>1. /\ rec[a].state = "ABSENT" /\ rec'[a].state = "PENDING"
        /\ Voters(rec[a], "APPROVED") = {} /\ Voters(rec'[a], "APPROVED") = {}
        /\ \A b \in Approvals : b # a => rec'[b] = rec[b]
    BY RequestOpens DEF RecordsSound, Sound
  <1>2. \A b \in Approvals : rec'[b].quorum \in Nat \ {0}
    <2>1. \A b \in Approvals : rec[b].quorum \in Nat \ {0}
      BY RecordFields DEF TInv, TypeOK, RecordsSound, Sound
    <2> QED BY <1>1, <2>1, RequestOpens
  <1>3. Promise!Open(a)
    BY <1>1, <1>2 DEF Promise!Open
  <1> QED BY <1>3 DEF Promise!Next

\* One handler at a time, deaths included, the approval manager is an atomic ballot:
\* every put of a record opens it, raises it, or casts one vote and settles what that
\* settles, and a settled record is never put again.
THEOREM KeepsPromise == ASSUME ~Interleaved PROVE Spec => ImplementsPromise
  <1>1. Init => Promise!Init
    <2> SUFFICES ASSUME Init PROVE Promise!Init
      OBVIOUS
    <2>1. AbsentRecord.state = "ABSENT"
      BY DEF AbsentRecord
    <2> QED BY <2>1, AbsentSound DEF Init, Promise!Init
  <1>2. PInv /\ [Next]_vars =>
          [Promise!Next]_<<[a \in Approvals |-> rec[a].state],
                           [a \in Approvals |-> Voters(rec[a], "APPROVED")],
                           [a \in Approvals |-> rec[a].quorum]>>
    <2> SUFFICES ASSUME PInv, [Next]_vars PROVE Promise!Next \/ rec' = rec
      BY DEF Voters
    <2> USE DEF PInv, SInv
    <2>1. ASSUME NEW a \in Approvals, Request(a) PROVE Promise!Next
      BY <2>1, RequestKeepsPromise
    <2>2. ASSUME NEW s \in Sessions, PutRecord(s) PROVE Promise!Next
      BY <2>2, PutKeepsPromise DEF PutRecord, TInv, HandlerNames, HandlerIsCurrent, CopiesOneOn
    <2>3. ~(\E a \in Approvals : Request(a)) /\ ~(\E s \in Sessions : PutRecord(s)) => rec' = rec
      BY DEF Next, SessionStep, RequestPutsAction, CrashRequest, Execute, Escalate, Vote,
             PutAction, Crash, vars
    <2> QED BY <2>1, <2>2, <2>3
  <1>3. Spec => []PInv
    BY PromiseInit, PromiseStep, PTL DEF Spec
  <1> QED BY <1>1, <1>2, <1>3, PTL DEF Spec, ImplementsPromise, Promise!Spec
=============================================================================
