---------------------------- MODULE EngineProofs ----------------------------
(***************************************************************************)
(* Proofs about Engine, for any plans, policy, budgets, yields and number  *)
(* of calls, and any bound on deaths.                                      *)
(*                                                                         *)
(* However calls, votes, the operator and deaths interleave:               *)
(*   TypeCorrect     the records of the run stay in range                  *)
(*   Gate            nothing starts without an approval it needs           *)
(*   StartsCharged   what a run starts was charged for, within its budgets *)
(* With one call or decision at a time (~Interleaved), deaths included:    *)
(*   KeepsPromise    the stored status implements RunLifecycle             *)
(*   NoRepeats       no step is started twice                              *)
(*   Budgets         the starts bound the tool calls                       *)
(*   NeverClean, Honest, ApprovalsUsed   what a stored SUCCESS stands for  *)
(*                                                                         *)
(* None of these is inductive. A call works from what it read when it      *)
(* began: its copy of the status, the decisions it saw, its place in the   *)
(* plan, its charges and its tally. Each section ties one of those to the  *)
(* store, and is an invariant together with the sections before it:        *)
(*   TypeInv    the place in the code, the kind of call and the plan       *)
(*   GateInv    the decisions it saw, and the step it is about to start    *)
(*   ChargeInv  its charges, and the steps asked about, started or chosen  *)
(*   RunInv     its copy of the status, and the stored one                 *)
(*   StartsInv  its place, and what was started up to there                *)
(*   CallsInv   its attempts, and the number of tool calls                 *)
(*   VerdictInv its tally, and what the steps and approvals say            *)
(* The first three hold of every interleaving. The others do not: calls    *)
(* that overlap overwrite each other's status and start a step twice,      *)
(* which is what the runs of MCEngine that expect a violation show.        *)
(***************************************************************************)
EXTENDS Engine, FiniteSetTheorems, SequenceTheorems, TLAPS

\* Where a call can be, by kind: the first pass alone, starting a step, and
\* _finalize().
FirstPassOnly == {"submitted", "planning", "planned", "step", "asked", "verify"}
Acting == {"dispatch", "invoke", "record"}
Concluding == {"decide", "advance", "put"}

\* A call record m at pc at goes with the plan: each place in the code is reached by
\* its own kind of call, and an index is only used where there is a planned step.
Fits(at, m) ==
  /\ at = "idle" => m.mode = "none"
  /\ at \in FirstPassOnly => m.mode = "run"
  /\ at \in Acting \cup Concluding => m.mode \in {"run", "resume"}
  /\ at = "resume" => m.mode = "resume"
  /\ at \in {"submitted", "planning"} => plan = <<>>
  /\ m.at >= 1
  /\ at \in Acting \cup {"asked"} => m.at <= Len(plan)
  /\ Len(m.seen) <= Len(plan)

\* There is one first pass, and before it nothing.
OneFirstPass ==
  /\ \A p, q \in Procs : me[p].mode = "run" /\ me[q].mode = "run" => p = q
  /\ status = "ABSENT" => plan = <<>> /\ \A p \in Procs : pc[p] = "idle"

\* The records are in range, and every call fits them.
TypeInv == TypeOK /\ OneFirstPass /\ \A p \in Procs : Fits(pc[p], me[p])

-----------------------------------------------------------------------------
\* Between calls a process remembers nothing.
LEMMA NoCallFits == NoCall \in Calls /\ NoCall.mode = "none" /\ NoCall.at = 1 /\ NoCall.seen = <<>>
  BY DEF NoCall, Calls, NoTally, Tallies, RunStatuses

\* One record of a step is put.
LEMMA OneSet ==
  ASSUME NEW S, NEW s \in Seq(S), NEW i \in 1 .. Len(s), NEW e \in S
  PROVE  /\ [s EXCEPT ![i] = e] \in Seq(S) /\ Len([s EXCEPT ![i] = e]) = Len(s)
         /\ [s EXCEPT ![i] = e][i] = e
         /\ \A j \in 1 .. Len(s) : j # i => [s EXCEPT ![i] = e][j] = s[j]
  BY ExceptSeq

\* A call under way belongs to a run that is there.
LEMMA UnderWay ==
  ASSUME TypeInv, NEW p \in Procs, pc[p] # "idle"
  PROVE  /\ me[p] \in Calls /\ me[p].run \in RunStatuses /\ status \in RunStatuses
         /\ me[p].at \in Nat \ {0} /\ me[p].tally \in Tallies
         /\ pc[p] \in PCs /\ Fits(pc[p], me[p])
  <1>1. me[p] \in Calls /\ status \in RunStatuses
    BY DEF TypeInv, TypeOK, OneFirstPass
  <1>2. me[p].at \in Nat \ {0} /\ Fits(pc[p], me[p])
    BY <1>1 DEF TypeInv, Calls, Fits
  <1> QED BY <1>1, <1>2 DEF TypeInv, TypeOK, Calls

\* A call goes on: where it gets and what it keeps, the others being where they were.
LEMMA Effect ==
  ASSUME TypeInv, NEW p \in Procs
  PROVE  \A at, m : Goes(p, at, m) =>
           pc'[p] = at /\ me'[p] = m /\ \A q \in Procs : q # p => pc'[q] = pc[q] /\ me'[q] = me[q]
  BY DEF TypeInv, TypeOK, Goes

\* ... and its counters are numbers.
LEMMA Sums ==
  ASSUME TypeInv, NEW p \in Procs, pc[p] # "idle"
  PROVE  /\ me[p].at + 1 \in Nat /\ me[p].spent \in Nat /\ me[p].spent + 1 \in Nat
         /\ me[p].network \in Nat /\ me[p].network + 1 \in Nat /\ me[p].tries + 1 \in Nat
         /\ me[p].tally.executed + 1 \in Nat /\ me[p].tally.failures + 1 \in Nat
  <1>1. \A m \in Calls :
          /\ m.at + 1 \in Nat /\ m.spent \in Nat /\ m.spent + 1 \in Nat
          /\ m.network \in Nat /\ m.network + 1 \in Nat /\ m.tries + 1 \in Nat
          /\ m.tally.executed + 1 \in Nat /\ m.tally.failures + 1 \in Nat
    BY DEF Calls, Tallies
  <1> QED BY <1>1, UnderWay

\* A call that goes on is still a call of its kind, no further back than it was and
\* with no fewer charges, or it has ended.
Going(p) ==
  /\ pc'[p] \in PCs /\ me'[p] \in Calls /\ Fits(pc'[p], me'[p])
  /\ \/ pc'[p] = "idle" /\ me'[p] = NoCall
     \/ /\ me'[p].mode = me[p].mode /\ me'[p].seen = me[p].seen
        /\ me'[p].at \in {me[p].at, me[p].at + 1}
        /\ pc[p] = "asked" => me'[p].at = me[p].at + 1
        /\ me'[p].spent \in {me[p].spent, me[p].spent + 1}
        /\ me'[p].network \in {me[p].network, me[p].network + 1}
  /\ pc'[p] = "dispatch" => Choose(p) \/ ResumeApproved(p)

\* Only a call under way goes on or dies.
LEMMA Under ==
  ASSUME NEW p \in Procs, Continue(p) \/ Crash(p)
  PROVE  pc[p] # "idle"
  BY Zenon DEF Continue, MakePlan, Refuse, Raise, FailPlan, PutFinal, CancelCommit, Crash,
     BeginPlanning, EnterExecuting, Exhaust, SkipReasoning, RejectStep, SafeModeBlock, MarkAwaiting, Dispatch,
     RecordFailure, ResumeApproved, ResumeRejected, ResumePasses, ResumeEnds, PolicyDeny,
     RequestApproval, Choose, Invoke, RecordSuccess, Verify, Decide, Advance,
      AtStep, Considered, ResumeAt

\* Every step of a call but the one that stores the plan.
LEMMA CallsGo ==
  ASSUME TypeInv, NEW p \in Procs, Continue(p) \/ Crash(p), ~MakePlan(p)
  PROVE  Going(p)
  <1>1. pc[p] # "idle"
    BY Under
  <1>2. /\ me[p] \in Calls /\ me[p].at \in Nat \ {0} /\ Fits(pc[p], me[p])
        /\ me[p].at + 1 \in Nat /\ me[p].spent \in Nat /\ me[p].spent + 1 \in Nat
        /\ me[p].network \in Nat /\ me[p].network + 1 \in Nat /\ me[p].tries + 1 \in Nat
        /\ me[p].tally.executed + 1 \in Nat /\ me[p].tally.failures + 1 \in Nat
    BY <1>1, UnderWay, Sums
  <1> USE DEF Going, Fits, PCs, FirstPassOnly, Acting, Concluding
  <1>3. CASE Refuse(p) \/ Raise(p) \/ FailPlan(p) \/ PutFinal(p) \/ CancelCommit(p) \/ Crash(p)
    BY <1>3, Effect, NoCallFits DEF Refuse, Raise, FailPlan, PutFinal, CancelCommit, Crash, Ends
  <1>4. CASE BeginPlanning(p)
    <2> DEFINE m == [me[p] EXCEPT !.run = "PLANNING"]
    <2>1. pc'[p] = "planning" /\ me'[p] = m
      BY <1>4, Effect DEF BeginPlanning
    <2>2. m \in Calls
      BY <1>2 DEF Calls, Tallies, RunStatuses
    <2> QED BY <1>4, <2>1, <2>2, <1>2 DEF BeginPlanning
  <1>5. CASE EnterExecuting(p)
    <2> DEFINE m == [me[p] EXCEPT !.run = "EXECUTING"]
    <2>1. pc'[p] = "step" /\ me'[p] = m
      BY <1>5, Effect DEF EnterExecuting
    <2>2. m \in Calls
      BY <1>2 DEF Calls, Tallies, RunStatuses
    <2> QED BY <1>5, <2>1, <2>2, <1>2 DEF EnterExecuting
  <1>6. CASE Exhaust(p)
    <2> DEFINE m == [me[p] EXCEPT !.tally.exhausted = TRUE]
    <2>1. pc'[p] = "verify" /\ me'[p] = m
      BY <1>6, Effect DEF Exhaust
    <2>2. m \in Calls
      BY <1>2 DEF Calls, Tallies, RunStatuses
    <2> QED BY <1>6, <2>1, <2>2, <1>2 DEF Exhaust
  <1>7. CASE SkipReasoning(p)
    <2> DEFINE m == [me[p] EXCEPT !.at = @ + 1]
    <2>1. pc'[p] = "step" /\ me'[p] = m
      BY <1>7, Effect DEF SkipReasoning
    <2>2. m \in Calls
      BY <1>2 DEF Calls, Tallies, RunStatuses
    <2> QED BY <1>7, <2>1, <2>2, <1>2 DEF SkipReasoning, AtStep
  <1>8. CASE RejectStep(p)
    <2> DEFINE m == [me[p] EXCEPT !.at = @ + 1, !.tally.failures = @ + 1]
    <2>1. pc'[p] = "step" /\ me'[p] = m
      BY <1>8, Effect DEF RejectStep
    <2>2. m \in Calls
      BY <1>2 DEF Calls, Tallies, RunStatuses
    <2> QED BY <1>8, <2>1, <2>2, <1>2 DEF RejectStep, AtStep
  <1>9. CASE SafeModeBlock(p)
    <2> DEFINE m == [me[p] EXCEPT !.at = @ + 1, !.tally.blocked = TRUE]
    <2>1. pc'[p] = "step" /\ me'[p] = m
      BY <1>9, Effect DEF SafeModeBlock
    <2>2. m \in Calls
      BY <1>2 DEF Calls, Tallies, RunStatuses
    <2> QED BY <1>9, <2>1, <2>2, <1>2 DEF SafeModeBlock, AtStep
  <1>10. CASE MarkAwaiting(p)
    <2> DEFINE m == [me[p] EXCEPT !.at = @ + 1, !.tally.awaiting = TRUE,
                                !.run = "AWAITING_APPROVAL"]
    <2>1. pc'[p] = "step" /\ me'[p] = m
      BY <1>10, Effect DEF MarkAwaiting
    <2>2. m \in Calls
      BY <1>2 DEF Calls, Tallies, RunStatuses
    <2> QED BY <1>10, <2>1, <2>2, <1>2 DEF MarkAwaiting
  <1>11. CASE Dispatch(p)
    <2> DEFINE m == [me[p] EXCEPT !.tries = 0]
    <2>1. pc'[p] = "invoke" /\ me'[p] = m
      BY <1>11, Effect DEF Dispatch
    <2>2. m \in Calls
      BY <1>2 DEF Calls, Tallies, RunStatuses
    <2> QED BY <1>11, <2>1, <2>2, <1>2 DEF Dispatch
  <1>12. CASE RecordFailure(p)
    <2> DEFINE m == [me[p] EXCEPT !.at = @ + 1, !.tally.executed = @ + 1,
                                !.tally.failures = @ + 1]
    <2>1. pc'[p] = AfterAction(p) /\ me'[p] = m
      BY <1>12, Effect DEF RecordFailure
    <2>2. m \in Calls
      BY <1>2 DEF Calls, Tallies, RunStatuses
    <2> QED BY <1>12, <2>1, <2>2, <1>2 DEF RecordFailure, AfterAction
  <1>13. CASE ResumeApproved(p)
    <2> DEFINE m == me[p]
    <2>1. pc'[p] = "dispatch" /\ me'[p] = m
      BY <1>13, Effect DEF ResumeApproved
    <2>2. m \in Calls
      BY <1>2 DEF Calls, Tallies, RunStatuses
    <2> QED BY <1>13, <2>1, <2>2, <1>2 DEF ResumeApproved, ResumeAt
  <1>14. CASE ResumeRejected(p)
    <2> DEFINE m == [me[p] EXCEPT !.at = @ + 1, !.tally.blocked = TRUE]
    <2>1. pc'[p] = "resume" /\ me'[p] = m
      BY <1>14, Effect DEF ResumeRejected
    <2>2. m \in Calls
      BY <1>2 DEF Calls, Tallies, RunStatuses
    <2> QED BY <1>14, <2>1, <2>2, <1>2 DEF ResumeRejected, ResumeAt
  <1>15. CASE ResumePasses(p)
    <2> DEFINE m == [me[p] EXCEPT !.at = @ + 1]
    <2>1. pc'[p] = "resume" /\ me'[p] = m
      BY <1>15, Effect DEF ResumePasses
    <2>2. m \in Calls
      BY <1>2 DEF Calls, Tallies, RunStatuses
    <2> QED BY <1>15, <2>1, <2>2, <1>2 DEF ResumePasses, ResumeAt
  <1>16. CASE ResumeEnds(p)
    <2> DEFINE m == me[p]
    <2>1. pc'[p] = "decide" /\ me'[p] = m
      BY <1>16, Effect DEF ResumeEnds
    <2>2. m \in Calls
      BY <1>2 DEF Calls, Tallies, RunStatuses
    <2> QED BY <1>16, <2>1, <2>2, <1>2 DEF ResumeEnds
  <1>17. CASE PolicyDeny(p)
    <2> DEFINE m == [Charged(p) EXCEPT !.at = @ + 1, !.tally.blocked = TRUE]
    <2>1. pc'[p] = "step" /\ me'[p] = m
      BY <1>17, Effect DEF PolicyDeny
    <2>2. m \in Calls
      BY <1>2 DEF Calls, Tallies, Charged
    <2> QED BY <1>17, <2>1, <2>2, <1>2 DEF PolicyDeny, Considered, AtStep, Charged
  <1>18. CASE RequestApproval(p)
    <2> DEFINE m == Charged(p)
    <2>1. pc'[p] = "asked" /\ me'[p] = m
      BY <1>18, Effect DEF RequestApproval
    <2>2. m \in Calls
      BY <1>2 DEF Calls, Tallies, Charged
    <2> QED BY <1>18, <2>1, <2>2, <1>2 DEF RequestApproval, Considered, AtStep, Charged
  <1>19. CASE Choose(p)
    <2> DEFINE m == Charged(p)
    <2>1. pc'[p] = "dispatch" /\ me'[p] = m
      BY <1>19, Effect DEF Choose
    <2>2. m \in Calls
      BY <1>2 DEF Calls, Tallies, Charged
    <2> QED BY <1>19, <2>1, <2>2, <1>2 DEF Choose, Considered, AtStep, Charged
  <1>20. CASE Advance(p)
    <2> DEFINE m == [me[p] EXCEPT !.run = Waypoint(me[p])]
    <2>1. pc'[p] \in {"put", "advance"} /\ me'[p] = m
      BY <1>20, Effect DEF Advance
    <2>2. Waypoint(me[p]) \in RunStatuses
      BY <1>2 DEF Waypoint, Calls, RunStatuses
    <2>3. m \in Calls
      BY <1>2, <2>2 DEF Calls
    <2> QED BY <1>20, <2>1, <2>3, <1>2 DEF Advance
  <1>21. CASE Verify(p)
    <2> DEFINE m == [me[p] EXCEPT !.run = IF me[p].tally.awaiting THEN @ ELSE "VERIFYING"]
    <2>1. pc'[p] = "decide" /\ me'[p] = m
      BY <1>21, Effect DEF Verify
    <2>2. m \in Calls
      BY <1>2 DEF Calls, RunStatuses
    <2> QED BY <1>21, <2>1, <2>2, <1>2 DEF Verify
  <1>22. CASE Decide(p)
    <2> DEFINE m == [me[p] EXCEPT !.target = Asks(p)]
    <2>1. pc'[p] \in {"put", "advance"} /\ me'[p] = m
      BY <1>22, Effect DEF Decide
    <2>2. Asks(p) \in RunStatuses
      BY DEF Asks, Verdict, RawVerdict, RunStatuses, TerminalStatuses
    <2>3. m \in Calls
      BY <1>2, <2>2 DEF Calls
    <2> QED BY <1>22, <2>1, <2>3, <1>2 DEF Decide
  <1>23. ASSUME NEW r \in {"ok", "fail", "refused"}, Invoke(p, r) PROVE Going(p)
    <2> DEFINE m == [me[p] EXCEPT !.tries = @ + 1, !.result = r]
    <2>1. pc'[p] \in {"invoke", "record"} /\ me'[p] = m
      BY <1>23, Effect DEF Invoke
    <2>2. m \in Calls
      BY <1>2 DEF Calls
    <2> QED BY <1>23, <2>1, <2>2, <1>2 DEF Invoke
  <1>24. CASE RecordSuccess(p)
    <2>1. PICK y \in Yields :
            Goes(p, AfterAction(p),
                 [me[p] EXCEPT !.at = @ + 1, !.tally.executed = @ + 1,
                    !.checks = IF me[p].mode = "run" /\ y.check # "none" THEN @ \cup {y.check} ELSE @])
      BY <1>24 DEF RecordSuccess
    <2> DEFINE owed == IF me[p].mode = "run" /\ y.check # "none" THEN me[p].checks \cup {y.check}
                                                                 ELSE me[p].checks
               m == [me[p] EXCEPT !.at = @ + 1, !.tally.executed = @ + 1, !.checks = owed]
    <2>2. pc'[p] = AfterAction(p) /\ me'[p] = m
      BY <2>1, Effect
    <2>3. owed \in SUBSET Outcomes
      BY <1>2, EngineAssumption DEF AllYields, Calls
    <2> HIDE DEF owed
    <2>4. m \in Calls
      BY <1>2, <2>3 DEF Calls, Tallies
    <2> QED BY <1>24, <2>2, <2>4, <1>2 DEF RecordSuccess, AfterAction
  <1> QED
    BY <1>3, <1>4, <1>5, <1>6, <1>7, <1>8, <1>9, <1>10, <1>11, <1>12, <1>13, <1>14, <1>15,
       <1>16, <1>17, <1>18, <1>19, <1>20, <1>21, <1>22, <1>23, <1>24 DEF Continue

-----------------------------------------------------------------------------
\* What a call leaves in the store, if it leaves the plan alone.
RecordsKeep ==
  /\ status' \in RunStatuses
  /\ step' \in Seq(StepStatuses) /\ Len(step') = Len(plan)
  /\ action' \in Seq(ActionStatuses) /\ Len(action') = Len(plan)
  /\ approval' \in Seq(ApprovalStates) /\ Len(approval') = Len(plan)
  /\ dispatched' \in Seq(Nat) /\ Len(dispatched') = Len(plan)
  /\ ledger' \in Ledgers
  /\ deciding' \subseteq DOMAIN plan /\ level' \in Levels /\ incident' \in BOOLEAN
  /\ calls' \in Nat /\ crashes' \in Nat /\ unplanned' \in BOOLEAN
  /\ UNCHANGED plan

\* Every step of a call leaves the records of the plan in range.
LEMMA RecordsHold ==
  ASSUME TypeInv, NEW p \in Procs, Continue(p) \/ Crash(p), ~MakePlan(p), Going(p)
  PROVE  RecordsKeep
  <1>1. /\ pc[p] # "idle" /\ status \in RunStatuses /\ me[p] \in Calls /\ me[p].at \in Nat \ {0}
        /\ pc[p] \in Acting \cup {"asked"} => me[p].at <= Len(plan)
        /\ Len(me[p].seen) <= Len(plan) /\ Len(me[p].seen) \in Nat /\ Len(plan) \in Nat
    BY Under, UnderWay DEF Fits, Calls, TypeInv, TypeOK
  <1>2. TypeOK
    BY DEF TypeInv
  <1> DEFINE i == me[p].at
  <1>3. pc[p] \in Acting \cup {"asked"} \/ i <= Len(plan) =>
          /\ \A x \in StepStatuses : [step EXCEPT ![i] = x] \in Seq(StepStatuses)
               /\ Len([step EXCEPT ![i] = x]) = Len(plan)
          /\ \A x \in ActionStatuses : [action EXCEPT ![i] = x] \in Seq(ActionStatuses)
               /\ Len([action EXCEPT ![i] = x]) = Len(plan)
          /\ \A x \in ApprovalStates : [approval EXCEPT ![i] = x] \in Seq(ApprovalStates)
               /\ Len([approval EXCEPT ![i] = x]) = Len(plan)
          /\ [dispatched EXCEPT ![i] = @ + 1] \in Seq(Nat)
               /\ Len([dispatched EXCEPT ![i] = @ + 1]) = Len(plan)
    BY <1>1, <1>2, ExceptSeq DEF TypeOK
  <1> USE <1>1, <1>2, <1>3 DEF TypeOK, RecordsKeep, store, world, history
  <1>4. CASE BeginPlanning(p)
    BY <1>4 DEF BeginPlanning, Moved, RunStatuses
  <1>5. CASE Refuse(p)
    BY <1>5 DEF Refuse, Moved, Ends, RunStatuses, TerminalStatuses, Ledgers
  <1>6. CASE EnterExecuting(p)
    BY <1>6 DEF EnterExecuting, Moved, RunStatuses
  <1>7. CASE Exhaust(p)
    BY <1>7 DEF Exhaust
  <1>8. CASE SkipReasoning(p)
    BY <1>8 DEF SkipReasoning, AtStep, StepStatuses
  <1>9. CASE RejectStep(p)
    BY <1>9 DEF RejectStep, AtStep, StepStatuses
  <1>10. CASE SafeModeBlock(p)
    BY <1>10 DEF SafeModeBlock, AtStep, StepStatuses, ActionStatuses, Ledgers
  <1>11. CASE PolicyDeny(p)
    BY <1>11 DEF PolicyDeny, Considered, AtStep, StepStatuses, ActionStatuses
  <1>12. CASE RequestApproval(p)
    BY <1>12 DEF RequestApproval, Considered, AtStep, ActionStatuses, ApprovalStates
  <1>13. CASE MarkAwaiting(p)
    BY <1>13 DEF MarkAwaiting, Moved, RunStatuses, StepStatuses, ActionStatuses
  <1>14. CASE Choose(p)
    BY <1>14 DEF Choose, Considered, AtStep, ActionStatuses
  <1>15. CASE Dispatch(p)
    BY <1>15 DEF Dispatch, Acting, StepStatuses, ActionStatuses
  <1>16. CASE RecordSuccess(p)
    BY <1>16, EngineAssumption DEF RecordSuccess, Acting, StepStatuses, ActionStatuses, Ledgers,
       AllYields
  <1>17. CASE RecordFailure(p)
    BY <1>17 DEF RecordFailure, Acting, StepStatuses, ActionStatuses
  <1>18. CASE Verify(p)
    BY <1>18 DEF Verify, Moved, RunStatuses, Ledgers, Calls
  <1>19. CASE Decide(p)
    BY <1>19 DEF Decide
  <1>20. CASE Advance(p)
    BY <1>20 DEF Advance, Moved, Waypoint, RunStatuses, Calls
  <1>21. CASE Raise(p) \/ FailPlan(p)
    BY <1>21 DEF Raise, FailPlan
  <1>22. CASE PutFinal(p)
    BY <1>22 DEF PutFinal, Calls
  <1>23. CASE ResumeApproved(p)
    BY <1>23 DEF ResumeApproved
  <1>24. CASE ResumeRejected(p)
    BY <1>24  DEF ResumeRejected, ResumeAt, StepStatuses
  <1>25. CASE ResumePasses(p)
    BY <1>25 DEF ResumePasses
  <1>26. CASE ResumeEnds(p)
    BY <1>26 DEF ResumeEnds
  <1>27. CASE CancelCommit(p)
    BY <1>27 DEF CancelCommit, Moved, RunStatuses, TerminalStatuses
  <1>28. CASE Crash(p)
    BY <1>28 DEF Crash
  <1>29. ASSUME NEW r \in {"ok", "fail", "refused"}, Invoke(p, r) PROVE RecordsKeep
    BY <1>29 DEF Invoke
  <1> QED
    BY <1>4, <1>5, <1>6, <1>7, <1>8, <1>9, <1>10, <1>11, <1>12, <1>13, <1>14, <1>15, <1>16,
       <1>17, <1>18, <1>19, <1>20, <1>21, <1>22, <1>23, <1>24, <1>25, <1>26, <1>27, <1>28, <1>29
       DEF Continue

\* Sequences as long as another, of one value or of changed values.
LEMMA ConstSeq ==
  ASSUME NEW n \in Nat, NEW S, NEW x \in S
  PROVE  [i \in 1 .. n |-> x] \in Seq(S) /\ Len([i \in 1 .. n |-> x]) = n
  OBVIOUS

LEMMA MappedSeq ==
  ASSUME NEW S, NEW s \in Seq(S), NEW a, NEW b \in S
  PROVE  /\ [i \in DOMAIN s |-> IF s[i] = a THEN b ELSE s[i]] \in Seq(S)
         /\ Len([i \in DOMAIN s |-> IF s[i] = a THEN b ELSE s[i]]) = Len(s)
  OBVIOUS

\* There is a record of each kind for each step of the plan.
LEMMA TypeLengths ==
  TypeInv => /\ Len(plan) \in Nat /\ DOMAIN plan = 1 .. Len(plan)
             /\ DOMAIN step = DOMAIN plan /\ DOMAIN action = DOMAIN plan
             /\ DOMAIN approval = DOMAIN plan /\ DOMAIN dispatched = DOMAIN plan
             /\ Len(<<>>) = 0
  BY DEF TypeInv, TypeOK

\* Whatever a call does, the others are where they were.
LEMMA OthersStay ==
  ASSUME TypeInv, NEW p \in Procs, Continue(p) \/ Crash(p)
  PROVE  /\ Goes(p, pc'[p], me'[p])
         /\ \A q \in Procs : q # p => pc'[q] = pc[q] /\ me'[q] = me[q]
  <1>1. \E at, m : Goes(p, at, m)
    BY Zenon DEF Continue, MakePlan, Refuse, Raise, FailPlan, PutFinal, CancelCommit, Crash,
       BeginPlanning, EnterExecuting, Exhaust, SkipReasoning, RejectStep, SafeModeBlock,
       MarkAwaiting, Dispatch, RecordFailure, ResumeApproved, ResumeRejected, ResumePasses,
       ResumeEnds, PolicyDeny, RequestApproval, Choose, Invoke, RecordSuccess, Verify, Decide,
       Advance,
      AtStep, Considered, ResumeAt, Ends
  <1>2. PICK at, m : Goes(p, at, m)
    BY <1>1
  <1> QED BY <1>2, Effect

\* The places of the calls, and their own variables, after a call has gone on.
LEMMA CallsStay ==
  ASSUME TypeInv, NEW p \in Procs, NEW at \in PCs, NEW m \in Calls, Goes(p, at, m), UNCHANGED plan,
         m.mode = "run" => me[p].mode = "run" \/ \A q \in Procs : me[q].mode # "run",
         Fits(at, m), status' # "ABSENT"
  PROVE  /\ pc' \in [Procs -> PCs] /\ me' \in [Procs -> Calls]
         /\ OneFirstPass' /\ \A q \in Procs : Fits(pc[q], me[q])'
  <1>1. /\ pc' \in [Procs -> PCs] /\ me' \in [Procs -> Calls]
        /\ pc'[p] = at /\ me'[p] = m
        /\ \A q \in Procs : q # p => pc'[q] = pc[q] /\ me'[q] = me[q]
    BY DEF TypeInv, TypeOK, Goes
  <1>2. OneFirstPass'
    BY <1>1 DEF TypeInv, OneFirstPass
  <1>3. ASSUME NEW q \in Procs PROVE Fits(pc[q], me[q])'
    BY <1>1 DEF TypeInv, Fits
  <1> QED BY <1>1, <1>2, <1>3

\* A call goes on, with the plan as it is or with a new one.
LEMMA StepKeepsType ==
  ASSUME TypeInv, NEW p \in Procs, NEW at \in PCs, NEW m \in Calls, Goes(p, at, m),
         m.mode = "run" => me[p].mode = "run" \/ \A q \in Procs : me[q].mode # "run",
         Fits(at, m), RecordsKeep
  PROVE  TypeInv'
  <1>1. status' # "ABSENT" /\ UNCHANGED plan
    BY DEF RecordsKeep, RunStatuses, TerminalStatuses
  <1>2. /\ pc' \in [Procs -> PCs] /\ me' \in [Procs -> Calls]
        /\ OneFirstPass' /\ \A q \in Procs : Fits(pc[q], me[q])'
    BY <1>1, CallsStay
  <1>3. TypeOK'
    BY <1>1, <1>2 DEF TypeInv, TypeOK, RecordsKeep
  <1> QED BY <1>2, <1>3 DEF TypeInv

LEMMA MakePlanKeepsType ==
  ASSUME TypeInv, NEW p \in Procs, MakePlan(p)
  PROVE  TypeInv'
  <1>1. pc[p] = "planning" /\ plan = <<>> /\ me[p] \in Calls /\ Fits("planning", me[p])
    BY UnderWay DEF MakePlan, Fits
  <1>2. plan' \in Seq(Kinds) /\ Len(plan') \in Nat /\ DOMAIN plan' = 1 .. Len(plan')
    BY EngineAssumption DEF MakePlan
  <1>3. /\ step' \in Seq(StepStatuses) /\ Len(step') = Len(plan')
        /\ action' \in Seq(ActionStatuses) /\ Len(action') = Len(plan')
        /\ approval' \in Seq(ApprovalStates) /\ Len(approval') = Len(plan')
        /\ dispatched' \in Seq(Nat) /\ Len(dispatched') = Len(plan')
    <2>1. /\ "PENDING" \in StepStatuses /\ "ABSENT" \in ActionStatuses /\ "ABSENT" \in ApprovalStates
          /\ 0 \in Nat
      BY DEF StepStatuses, ActionStatuses, ApprovalStates
    <2> QED BY <1>2, <2>1, ConstSeq DEF MakePlan
  <1>4. Goes(p, "planned", me[p])
    BY DEF MakePlan
  <1>5. /\ pc' \in [Procs -> PCs] /\ pc'[p] = "planned" /\ me' = me
        /\ \A q \in Procs : q # p => pc'[q] = pc[q]
    BY <1>4 DEF Goes, TypeInv, TypeOK, PCs
  <1>6. deciding = {} /\ \A q \in Procs : Len(me[q].seen) <= 0
    BY <1>1 DEF TypeInv, TypeOK, Fits
  <1>7. \A q \in Procs : q # p => me[q].mode # "run"
    BY <1>1 DEF TypeInv, OneFirstPass, Fits, FirstPassOnly
  <1>8. OneFirstPass'
    BY <1>1, <1>5 DEF TypeInv, OneFirstPass, MakePlan
  <1>9. ASSUME NEW q \in Procs PROVE Fits(pc[q], me[q])'
    <2>1. CASE q = p
      BY <1>1, <1>2, <1>5, <1>6, <2>1 DEF Fits, FirstPassOnly, Acting, Concluding
    <2>2. CASE q # p
      <3>1. Fits(pc[q], me[q]) /\ me[q].at \in Nat /\ Len(me[q].seen) \in Nat
        BY DEF TypeInv, TypeOK, Calls
      <3> QED BY <1>1, <1>2, <1>5, <1>6, <1>7, <2>2, <3>1 DEF Fits, FirstPassOnly, Acting,
            Concluding
    <2> QED BY <2>1, <2>2
  <1> QED
    BY <1>2, <1>3, <1>5, <1>6, <1>8, <1>9 DEF MakePlan, TypeInv, TypeOK, world

\* A call starts.
LEMMA StartKeepsType ==
  ASSUME TypeInv, NEW p \in Procs, Submit(p) \/ Resume(p) \/ Cancel(p)
  PROVE  TypeInv'
  <1>1. CASE Submit(p)
    <2> DEFINE m == [NoCall EXCEPT !.mode = "run"]
    <2>1. m \in Calls /\ Fits("submitted", m) /\ \A q \in Procs : me[q].mode # "run"
      BY <1>1, NoCallFits DEF Submit, TypeInv, OneFirstPass, Fits, Calls, FirstPassOnly, Acting,
         Concluding
    <2>2. RecordsKeep
      BY <1>1 DEF Submit, TypeInv, TypeOK, RecordsKeep, RunStatuses, world, history
    <2>3. Goes(p, "submitted", m)
      BY <1>1 DEF Submit
    <2> QED BY <2>1, <2>2, <2>3, StepKeepsType DEF PCs
  <1>2. CASE Resume(p)
    <2> DEFINE m == [NoCall EXCEPT !.run = status, !.mode = "resume", !.seen = approval]
    <2>1. status \in RunStatuses /\ approval \in Seq(ApprovalStates) /\ Len(approval) = Len(plan)
      BY <1>2 DEF Resume, TypeInv, TypeOK
    <2>2. m \in Calls /\ m.mode = "resume" /\ m.at = 1 /\ m.seen = approval
      BY <2>1, NoCallFits DEF Calls
    <2>3. Fits("resume", m)
      BY <2>1, <2>2 DEF Fits, FirstPassOnly, Acting, Concluding
    <2>4. Goes(p, "resume", m)
      BY <1>2 DEF Resume
    <2>5. RecordsKeep
      BY <1>2, <2>1 DEF Resume, TypeInv, TypeOK, RecordsKeep, store, world, history
    <2> HIDE DEF m
    <2> QED BY <2>2, <2>3, <2>4, <2>5, StepKeepsType DEF PCs
  <1>3. CASE Cancel(p)
    <2> DEFINE m == [NoCall EXCEPT !.run = status, !.mode = "cancel"]
    <2>1. status \in RunStatuses
      BY <1>3 DEF Cancel, TypeInv, TypeOK
    <2>2. m \in Calls /\ m.mode = "cancel" /\ m.at = 1 /\ m.seen = <<>>
      BY <2>1, NoCallFits DEF Calls
    <2>3. Fits("cancel", m)
      BY <2>2, TypeLengths DEF Fits, FirstPassOnly, Acting, Concluding
    <2>4. Goes(p, "cancel", m)
      BY <1>3 DEF Cancel
    <2>5. /\ step' \in Seq(StepStatuses) /\ Len(step') = Len(plan)
          /\ action' \in Seq(ActionStatuses) /\ Len(action') = Len(plan)
      <3>1. "BLOCKED" \in StepStatuses /\ "SKIPPED" \in ActionStatuses
        BY DEF StepStatuses, ActionStatuses
      <3>2. /\ step \in Seq(StepStatuses) /\ Len(step) = Len(plan)
            /\ action \in Seq(ActionStatuses) /\ Len(action) = Len(plan)
        BY DEF TypeInv, TypeOK
      <3>3. /\ step' = [i \in DOMAIN step |-> IF step[i] = "RUNNING" THEN "BLOCKED" ELSE step[i]]
            /\ action' = [i \in DOMAIN action |-> IF action[i] = "EXECUTING" THEN "SKIPPED" ELSE action[i]]
        BY <1>3 DEF Cancel
      <3>4. step' \in Seq(StepStatuses) /\ Len(step') = Len(step)
        BY <3>1, <3>2, <3>3, MappedSeq
      <3>5. action' \in Seq(ActionStatuses) /\ Len(action') = Len(action)
        BY <3>1, <3>2, <3>3, MappedSeq
      <3> QED BY <3>2, <3>4, <3>5
    <2>6. RecordsKeep
      BY <1>3, <2>1, <2>5 DEF Cancel, TypeInv, TypeOK, RecordsKeep, world, history
    <2> HIDE DEF m
    <2> QED BY <2>2, <2>3, <2>4, <2>6, StepKeepsType DEF PCs
  <1> QED BY <1>1, <1>2, <1>3


\* A vote that is counted but not yet carried to its action has been a yes or a no.
Settled == \A i \in deciding : approval[i] \in {"APPROVED", "REJECTED"}

\* What surrounds the calls: the operator, and people deciding.
LEMMA WorldKeepsType ==
  ASSUME TypeInv, Settled, Operator \/ Decisions \/ UNCHANGED vars
  PROVE  TypeInv'
  <1>1. CASE UNCHANGED vars
    BY <1>1 DEF TypeInv, TypeOK, OneFirstPass, Fits, vars, store, world, history
  <1>2. CASE Operator
    BY <1>2 DEF Operator, SetLevel, OpenIncident, CloseIncident, TypeInv, TypeOK, OneFirstPass,
       Fits,
         store, world, history, Levels
  <1>3. ASSUME NEW i \in DOMAIN approval,
               \/ \E decision \in {"APPROVED", "REJECTED"} : Settle(i, decision)
               \/ SettleAction(i) \/ CrashDecision(i)
        PROVE  TypeInv'
    <2>1. /\ UNCHANGED <<status, plan, step, ledger, level, incident, pc, me, history>>
          /\ crashes' \in Nat
      BY <1>3 DEF Settle, SettleAction, CrashDecision, store, TypeInv, TypeOK
    <2>2. i \in 1 .. Len(plan) /\ DOMAIN plan = 1 .. Len(plan)
      BY TypeLengths
    <2>3. deciding' \subseteq DOMAIN plan'
      BY <1>3, <2>1, TypeLengths DEF Settle, SettleAction, CrashDecision, TypeInv, TypeOK
    <2>4. approval' \in Seq(ApprovalStates) /\ Len(approval') = Len(plan)
      <3>1. approval \in Seq(ApprovalStates) /\ Len(approval) = Len(plan)
        BY DEF TypeInv, TypeOK
      <3>2. UNCHANGED approval \/ \E x \in ApprovalStates : approval' = [approval EXCEPT ![i] = x]
        BY <1>3 DEF Settle, SettleAction, CrashDecision, store, ApprovalStates
      <3> QED BY <2>2, <3>1, <3>2, ExceptSeq
    <2>5. action' \in Seq(ActionStatuses) /\ Len(action') = Len(plan)
      <3>1. action \in Seq(ActionStatuses) /\ Len(action) = Len(plan)
              /\ approval \in Seq(ApprovalStates)
        BY DEF TypeInv, TypeOK
      <3>3. CASE UNCHANGED action
        BY <3>1, <3>3
      <3>4. CASE SettleAction(i)
        <4>1. approval[i] \in ActionStatuses /\ action' = [action EXCEPT ![i] = approval[i]]
          BY <3>4 DEF SettleAction, Settled, ActionStatuses
        <4> QED BY <2>2, <3>1, <4>1, ExceptSeq
      <3>5. UNCHANGED action \/ SettleAction(i)
        BY <1>3 DEF Settle, CrashDecision, store
      <3> QED BY <3>3, <3>4, <3>5
    <2> QED BY <2>1, <2>3, <2>4, <2>5 DEF TypeInv, TypeOK, OneFirstPass, Fits, history
  <1> QED BY <1>1, <1>2, <1>3 DEF Decisions


\* Together: the type invariant is kept by every step.
LEMMA TypeStep == TypeInv /\ Settled /\ [Next]_vars => TypeInv'
  <1> SUFFICES ASSUME TypeInv, Settled, [Next]_vars PROVE TypeInv'
    OBVIOUS
  <1>1. ASSUME NEW p \in Procs, Continue(p) \/ Crash(p) PROVE TypeInv'
    <2>1. CASE MakePlan(p)
      BY <2>1, MakePlanKeepsType
    <2>2. CASE ~MakePlan(p)
      <3>1. Going(p)
        BY <1>1, <2>2, CallsGo
      <3>2. RecordsKeep
        BY <1>1, <2>2, <3>1, RecordsHold
      <3>3. Goes(p, pc'[p], me'[p])
        BY <1>1, OthersStay
      <3>4. me'[p].mode = "run" => me[p].mode = "run"
        BY <3>1, NoCallFits DEF Going
      <3>5. pc'[p] \in PCs /\ me'[p] \in Calls /\ Fits(pc'[p], me'[p])
        BY <3>1 DEF Going
      <3> QED BY <3>2, <3>3, <3>4, <3>5, StepKeepsType
    <2> QED BY <2>1, <2>2
  <1>2. ASSUME NEW p \in Procs, Submit(p) \/ Resume(p) \/ Cancel(p) PROVE TypeInv'
    BY <1>2, StartKeepsType
  <1> QED BY <1>1, <1>2, WorldKeepsType DEF Next

LEMMA TypeInit == Init => TypeInv
  <1> SUFFICES ASSUME Init PROVE TypeInv
    OBVIOUS
  <1>1. pc \in [Procs -> PCs] /\ me \in [Procs -> Calls] /\ \A p \in Procs : pc[p] = "idle"
          /\ me[p] = NoCall
    BY NoCallFits DEF Init, PCs
  <1>2. ledger \in Ledgers /\ level \in Levels
    BY DEF Init, EmptyLedger, Ledgers, Levels
  <1>3. OneFirstPass
    BY <1>1, NoCallFits DEF Init, OneFirstPass
  <1>4. \A p \in Procs : Fits(pc[p], me[p])
    BY <1>1, NoCallFits DEF Init, Fits, FirstPassOnly, Acting, Concluding
  <1>5. Len(<<>>) = 0 /\ \A S : <<>> \in Seq(S)
    OBVIOUS
  <1>6. TypeOK
    BY <1>1, <1>2, <1>5, EngineAssumption DEF Init, TypeOK
  <1> QED BY <1>3, <1>4, <1>6 DEF TypeInv


-----------------------------------------------------------------------------
\* Who writes the plan, the approvals and the starts.
LEMMA Writers ==
  ASSUME NEW p \in Procs, Continue(p) \/ Crash(p)
  PROVE  /\ UNCHANGED plan \/ MakePlan(p)
         /\ UNCHANGED approval \/ MakePlan(p) \/ RequestApproval(p)
         /\ UNCHANGED dispatched \/ MakePlan(p) \/ Dispatch(p)
         /\ UNCHANGED deciding
  <1>1. UNCHANGED plan \/ MakePlan(p)
    BY Zenon DEF Continue, Refuse, Raise, FailPlan, PutFinal, CancelCommit, Crash, BeginPlanning,
       EnterExecuting, Exhaust, SkipReasoning, RejectStep, SafeModeBlock, MarkAwaiting,
       Dispatch, RecordFailure, ResumeApproved, ResumeRejected, ResumePasses, ResumeEnds,
       PolicyDeny, RequestApproval, Choose, Invoke, RecordSuccess, Verify, Decide, Advance,
       AtStep, Considered, ResumeAt, store
  <1>2. UNCHANGED approval \/ MakePlan(p) \/ RequestApproval(p)
    BY Zenon DEF Continue, Refuse, Raise, FailPlan, PutFinal, CancelCommit, Crash, BeginPlanning,
       EnterExecuting, Exhaust, SkipReasoning, RejectStep, SafeModeBlock, MarkAwaiting,
       Dispatch, RecordFailure, ResumeApproved, ResumeRejected, ResumePasses, ResumeEnds,
       PolicyDeny, Choose, Invoke, RecordSuccess, Verify, Decide, Advance, AtStep, Considered,
       ResumeAt, store
  <1>3. UNCHANGED dispatched \/ MakePlan(p) \/ Dispatch(p)
    BY Zenon DEF Continue, Refuse, Raise, FailPlan, PutFinal, CancelCommit, Crash, BeginPlanning,
       EnterExecuting, Exhaust, SkipReasoning, RejectStep, SafeModeBlock, MarkAwaiting,
       RecordFailure, ResumeApproved, ResumeRejected, ResumePasses, ResumeEnds, PolicyDeny,
       RequestApproval, Choose, Invoke, RecordSuccess, Verify, Decide, Advance, AtStep,
       Considered, ResumeAt, history
  <1>4. UNCHANGED deciding
    BY Zenon DEF Continue, MakePlan, Refuse, Raise, FailPlan, PutFinal, CancelCommit, Crash,
       BeginPlanning, EnterExecuting, Exhaust, SkipReasoning, RejectStep, SafeModeBlock,
       MarkAwaiting, Dispatch, RecordFailure, ResumeApproved, ResumeRejected, ResumePasses,
       ResumeEnds, PolicyDeny, RequestApproval, Choose, Invoke, RecordSuccess, Verify, Decide,
       Advance,
      AtStep, Considered, ResumeAt, world
  <1> QED BY <1>1, <1>2, <1>3, <1>4


\* Who is asked about a step is asked because the policy says so.
AskedFits ==
  \A i \in DOMAIN plan : approval[i] # "ABSENT" => plan[i].tool = "known" /\ PolicySays(i) = "ask"

\* Nobody has been asked about a step the first pass has yet to come to.
AheadUnasked(p) ==
  me[p].mode = "run" =>
    \A i \in DOMAIN plan : i > me[p].at \/ (i = me[p].at /\ pc[p] # "asked") => approval[i] = "ABSENT"

\* A decision that a call has read stands.
SeenStands(p) ==
  \A i \in DOMAIN me[p].seen : me[p].seen[i] \in {"APPROVED", "REJECTED"} => approval[i] = me[p].seen[i]

\* The step a call is about to start may be started.
Cleared(p) ==
  pc[p] = "dispatch" =>
    LET i == me[p].at IN
    /\ plan[i].tool = "known" /\ PolicySays(i) # "denied"
    /\ PolicySays(i) = "ask" => approval[i] = "APPROVED"

\* What a call was allowed to start, it still is.
GateInv == Settled /\ AskedFits /\ \A p \in Procs : AheadUnasked(p) /\ SeenStands(p) /\ Cleared(p)

\* A step is asked about once, so that no decision is ever lost.
LEMMA AskedOnce ==
  ASSUME TypeInv, GateInv, NEW p \in Procs, RequestApproval(p)
  PROVE  LET i == me[p].at IN
         /\ i \in DOMAIN plan /\ approval[i] = "ABSENT"
         /\ plan[i].tool = "known" /\ PolicySays(i) = "ask"
         /\ approval' = [approval EXCEPT ![i] = "PENDING"]
         /\ me[p].mode = "run" /\ pc'[p] = "asked" /\ me'[p].at = i
  <1> DEFINE i == me[p].at
  <1>1. /\ pc[p] = "step" /\ i <= Len(plan) /\ plan[i].tool = "known" /\ Decision(p) = "ask"
        /\ approval' = [approval EXCEPT ![i] = "PENDING"] /\ Goes(p, "asked", Charged(p))
    BY DEF RequestApproval, Considered, AtStep, Kind
  <1>2. /\ me[p] \in Calls /\ i \in Nat \ {0} /\ me[p].mode = "run"
    BY <1>1, UnderWay DEF Fits, FirstPassOnly
  <1>3. i \in DOMAIN plan
    BY <1>1, <1>2, TypeLengths
  <1>4. approval[i] = "ABSENT"
    BY <1>1, <1>2, <1>3 DEF GateInv, AheadUnasked
  <1>5. PolicySays(i) = "ask"
    BY <1>1 DEF PolicySays, Decision, Kind
  <1>6. pc'[p] = "asked" /\ me'[p] = Charged(p)
    BY <1>1, Effect
  <1>7. Charged(p).at = i
    BY <1>2 DEF Charged, Calls
  <1> QED BY <1>1, <1>2, <1>3, <1>4, <1>5, <1>6, <1>7

\* The four kinds of step: a call goes on, plans, or starts, and what surrounds it.
LEMMA GateOfCalls ==
  ASSUME TypeInv, TypeInv', GateInv, NEW p \in Procs, Continue(p) \/ Crash(p), ~MakePlan(p)
  PROVE  GateInv'
  <1>1. Going(p) /\ UNCHANGED plan /\ UNCHANGED deciding
    BY CallsGo, Writers
  <1>2. \A q \in Procs : q # p => pc'[q] = pc[q] /\ me'[q] = me[q]
    BY OthersStay
  <1>3. /\ DOMAIN approval' = DOMAIN plan /\ DOMAIN approval = DOMAIN plan
             /\ DOMAIN plan = 1 .. Len(plan)
        /\ Len(plan) \in Nat /\ deciding \subseteq DOMAIN plan
    <2>1. approval \in Seq(ApprovalStates) /\ Len(approval) = Len(plan)
            /\ deciding \subseteq DOMAIN plan
      BY DEF TypeInv, TypeOK
    <2>2. approval' \in Seq(ApprovalStates) /\ Len(approval') = Len(plan)
      BY <1>1 DEF TypeInv, TypeOK
    <2> QED BY <2>1, <2>2, TypeLengths
  <1>4. ASSUME NEW i \in DOMAIN plan
        PROVE  \/ approval'[i] = approval[i]
               \/ /\ approval[i] = "ABSENT" /\ approval'[i] = "PENDING"
                  /\ RequestApproval(p) /\ i = me[p].at
    <2>1. CASE UNCHANGED approval
      BY <2>1
    <2>2. CASE RequestApproval(p)
      BY <1>3, <2>2, AskedOnce
    <2> QED BY <2>1, <2>2, Writers
  <1>5. \A i \in DOMAIN plan : PolicySays(i)' = PolicySays(i) /\ plan'[i] = plan[i]
    BY <1>1 DEF PolicySays
  <1>6. Settled'
    BY <1>1, <1>3, <1>4 DEF GateInv, Settled
  <1>7. AskedFits'
    BY <1>1, <1>4, <1>5, AskedOnce DEF GateInv, AskedFits
  <1>8. /\ me[p] \in Calls /\ me[p].at \in Nat \ {0} /\ \A q \in Procs : me[q] \in Calls
             /\ me[q].at \in Nat
    <2>1. \A q \in Procs : me[q] \in Calls
      BY DEF TypeInv, TypeOK
    <2>2. \A m \in Calls : m.at \in Nat
      BY DEF Calls
    <2> QED BY <2>1, <2>2, Under, UnderWay
  <1>9. ASSUME NEW q \in Procs PROVE AheadUnasked(q)'
    <2> SUFFICES ASSUME me'[q].mode = "run", NEW i \in DOMAIN plan,
                        i > me'[q].at \/ (i = me'[q].at /\ pc'[q] # "asked")
                 PROVE  approval'[i] = "ABSENT"
      BY <1>1 DEF AheadUnasked
    <2>1. CASE q = p
      <3>1. me[p].mode = "run" /\ me'[p].at \in {me[p].at, me[p].at + 1} /\ (pc[p] = "asked"
              => me'[p].at = me[p].at + 1)
        BY <1>1, <2>1, NoCallFits DEF Going
      <3>2. i \in Nat /\ (i > me[p].at \/ (i = me[p].at /\ pc[p] # "asked"))
        BY <1>3, <1>8, <2>1, <3>1
      <3>3. approval[i] = "ABSENT"
        BY <3>1, <3>2 DEF GateInv, AheadUnasked
      <3>4. CASE RequestApproval(p) /\ i = me[p].at
        BY <1>3, <1>8, <2>1, <3>4, AskedOnce
      <3> QED BY <1>4, <3>3, <3>4
    <2>2. CASE q # p
      <3>1. approval[i] = "ABSENT" /\ me[q].mode = "run"
        BY <1>2, <2>2 DEF GateInv, AheadUnasked
      <3>2. ~RequestApproval(p)
        BY <2>2, <3>1, AskedOnce DEF TypeInv, OneFirstPass
      <3> QED BY <1>4, <3>1, <3>2
    <2> QED BY <2>1, <2>2
  <1>10. ASSUME NEW q \in Procs PROVE SeenStands(q)'
    <2>1. me'[q].seen = me[q].seen \/ me'[q].seen = <<>>
      BY <1>1, <1>2, NoCallFits DEF Going
    <2>2. DOMAIN me[q].seen \subseteq DOMAIN plan /\ DOMAIN <<>> = {}
      <3>1. me[q].seen \in Seq(ApprovalStates) /\ Len(me[q].seen) <= Len(plan)
        BY <1>8 DEF Calls, TypeInv, Fits
      <3> QED BY <3>1, <1>3
    <2>3. SeenStands(q)
      BY DEF GateInv
    <2> QED BY <1>4, <2>1, <2>2, <2>3 DEF SeenStands
  <1>11. ASSUME NEW q \in Procs PROVE Cleared(q)'
    <2> SUFFICES ASSUME pc'[q] = "dispatch"
                 PROVE  /\ plan[me'[q].at].tool = "known" /\ PolicySays(me'[q].at) # "denied"
                        /\ PolicySays(me'[q].at) = "ask" => approval'[me'[q].at] = "APPROVED"
      BY <1>1 DEF Cleared, PolicySays
    <2>0. me'[q].at \in DOMAIN plan
      <3>1. Fits(pc[q], me[q])' /\ me'[q] \in Calls
        BY DEF TypeInv, TypeOK
      <3> QED BY <1>1, <1>3, <3>1 DEF Fits, Acting, Calls
    <2>1. CASE q # p
      <3>1. Cleared(q) /\ pc[q] = "dispatch" /\ me'[q] = me[q]
        BY <1>2, <2>1 DEF GateInv
      <3> QED BY <1>4, <2>0, <3>1 DEF Cleared
    <2>2. CASE q = p /\ Choose(p)
      <3>1. plan[me[p].at].tool = "known" /\ PolicySays(me[p].at) = "auto"
        BY <2>2 DEF Choose, Considered, AtStep, Kind, Decision, PolicySays
      <3>2. me'[p] = Charged(p)
        BY <2>2, Effect DEF Choose
      <3>3. me'[p].at = me[p].at
        BY <1>8, <3>2 DEF Charged, Calls
      <3> QED BY <2>2, <3>1, <3>3
    <2>3. CASE q = p /\ ResumeApproved(p)
      <3>1. me'[p] = me[p] /\ ResumeAt(p, "APPROVED")
        BY <2>3, Effect DEF ResumeApproved
      <3>2. me[p].at \in DOMAIN me[p].seen /\ me[p].seen[me[p].at] = "APPROVED"
        BY <1>8, <3>1 DEF ResumeAt, Calls
      <3>3. approval[me[p].at] = "APPROVED"
        BY <3>2 DEF GateInv, SeenStands
      <3> QED BY <1>4, <2>0, <2>3, <3>1, <3>3 DEF GateInv, AskedFits
    <2> QED BY <1>1, <2>1, <2>2, <2>3 DEF Going
  <1> QED BY <1>6, <1>7, <1>9, <1>10, <1>11 DEF GateInv


LEMMA GateOfPlan ==
  ASSUME TypeInv, TypeInv', GateInv, NEW p \in Procs, MakePlan(p)
  PROVE  GateInv'
  <1>1. plan = <<>> /\ DOMAIN plan = {}
    <2>1. plan = <<>>
      BY UnderWay DEF MakePlan, Fits
    <2> QED BY <2>1
  <1>2. /\ UNCHANGED deciding /\ approval' = [i \in DOMAIN plan' |-> "ABSENT"]
        /\ pc'[p] = "planned" /\ me'[p] = me[p] /\ \A q \in Procs : q # p => pc'[q] = pc[q]
             /\ me'[q] = me[q]
    BY Effect DEF MakePlan, world
  <1>3. Settled'
    BY <1>1, <1>2 DEF Settled, TypeInv, TypeOK
  <1>4. AskedFits' /\ \A q \in Procs : AheadUnasked(q)'
    BY <1>2 DEF AskedFits, AheadUnasked
  <1>5. ASSUME NEW q \in Procs PROVE SeenStands(q)' /\ Cleared(q)'
    <2>1. me[q] \in Calls /\ Fits(pc[q], me[q])
      BY DEF TypeInv, TypeOK
    <2>2. DOMAIN me[q].seen = {}
      BY <1>1, <2>1 DEF Calls, Fits
    <2>3. pc[q] # "dispatch"
      BY <1>1, <2>1 DEF Calls, Fits, Acting
    <2> QED BY <1>2, <2>2, <2>3 DEF SeenStands, Cleared
  <1> QED BY <1>3, <1>4, <1>5 DEF GateInv

LEMMA GateOfStarts ==
  ASSUME TypeInv, TypeInv', GateInv, NEW p \in Procs, Submit(p) \/ Resume(p) \/ Cancel(p)
  PROVE  GateInv'
  <1>1. /\ UNCHANGED <<plan, approval, deciding>>
        /\ \E at, m : Goes(p, at, m) /\ at # "dispatch"
    BY DEF Submit, Resume, Cancel, store, world
  <1>2. pc'[p] # "dispatch" /\ \A q \in Procs : q # p => pc'[q] = pc[q] /\ me'[q] = me[q]
    BY <1>1, Effect
  <1>3. \A i \in DOMAIN plan : PolicySays(i)' = PolicySays(i)
    BY <1>1 DEF PolicySays
  <1>4. Settled' /\ AskedFits'
    BY <1>1, <1>3 DEF GateInv, Settled, AskedFits
  <1>5. \A q \in Procs : q # p => (AheadUnasked(q) /\ SeenStands(q) /\ Cleared(q))'
    BY <1>1, <1>2, <1>3 DEF GateInv, AheadUnasked, SeenStands, Cleared, PolicySays
  <1>6. Cleared(p)'
    BY <1>2 DEF Cleared
  <1>7. AheadUnasked(p)' /\ SeenStands(p)'
    <2>1. CASE Submit(p)
      <3>1. me'[p] = [NoCall EXCEPT !.mode = "run"] /\ plan = <<>>
        BY <2>1, Effect DEF Submit, TypeInv, OneFirstPass
      <3>2. me'[p].seen = <<>>
        BY <3>1, NoCallFits DEF Calls
      <3>3. DOMAIN plan' = {} /\ DOMAIN me'[p].seen = {}
        BY <1>1, <3>1, <3>2
      <3> QED BY <3>3 DEF AheadUnasked, SeenStands
    <2>2. CASE Resume(p)
      <3>1. me'[p] = [NoCall EXCEPT !.run = status, !.mode = "resume", !.seen = approval]
        BY <2>2, Effect DEF Resume
      <3>2. me'[p].mode = "resume" /\ me'[p].seen = approval
        BY <3>1, NoCallFits DEF Calls
      <3> QED BY <1>1, <3>2 DEF AheadUnasked, SeenStands
    <2>3. CASE Cancel(p)
      <3>1. me'[p] = [NoCall EXCEPT !.run = status, !.mode = "cancel"]
        BY <2>3, Effect DEF Cancel
      <3>2. me'[p].mode = "cancel" /\ me'[p].seen = <<>> /\ DOMAIN <<>> = {}
        BY <3>1, NoCallFits DEF Calls
      <3> QED BY <3>2 DEF AheadUnasked, SeenStands
    <2> QED BY <2>1, <2>2, <2>3
  <1> QED BY <1>4, <1>5, <1>6, <1>7 DEF GateInv

LEMMA GateOfWorld ==
  ASSUME TypeInv, TypeInv', GateInv, Operator \/ Decisions \/ UNCHANGED vars
  PROVE  GateInv'
  <1>1. UNCHANGED <<plan, pc, me>>
    BY DEF Operator, SetLevel, OpenIncident, CloseIncident, Decisions, Settle, SettleAction,
       CrashDecision,
       vars, store, world
  <1>2. CASE UNCHANGED <<approval, deciding>>
    BY <1>1, <1>2 DEF GateInv, Settled, AskedFits, AheadUnasked, SeenStands, Cleared, PolicySays
  <1>3. ASSUME NEW i \in DOMAIN approval, SettleAction(i) \/ CrashDecision(i) PROVE GateInv'
    <2>1. UNCHANGED approval /\ deciding' \subseteq deciding
      BY <1>3 DEF SettleAction, CrashDecision, store
    <2> QED BY <1>1, <2>1 DEF GateInv, Settled, AskedFits, AheadUnasked, SeenStands, Cleared,
          PolicySays
  <1>4. ASSUME NEW i \in DOMAIN approval, NEW decision \in {"APPROVED", "REJECTED"}, Settle(i, decision)
        PROVE GateInv'
    <2>1. /\ approval[i] = "PENDING" /\ i \in DOMAIN plan
          /\ approval'[i] = decision /\ \A j \in DOMAIN plan : j # i => approval'[j] = approval[j]
          /\ deciding' = deciding \cup {i} /\ deciding \subseteq DOMAIN plan
      BY <1>4, TypeLengths DEF Settle, TypeInv, TypeOK
    <2>2. Settled'
      BY <2>1 DEF GateInv, Settled
    <2>3. AskedFits'
      BY <1>1, <2>1 DEF GateInv, AskedFits, PolicySays
    <2>4. ASSUME NEW q \in Procs PROVE AheadUnasked(q)'
      BY <1>1, <2>1 DEF GateInv, AheadUnasked
    <2>5. ASSUME NEW q \in Procs PROVE SeenStands(q)' /\ Cleared(q)'
      <3>1. me[q] \in Calls /\ Fits(pc[q], me[q]) /\ DOMAIN plan = 1 .. Len(plan) /\ Len(plan) \in Nat
        BY TypeLengths DEF TypeInv, TypeOK
      <3>2. DOMAIN me[q].seen \subseteq DOMAIN plan /\ (pc[q] = "dispatch" => me[q].at \in DOMAIN plan)
        BY <3>1 DEF Calls, Fits, Acting
      <3> QED BY <1>1, <2>1, <3>2 DEF GateInv, SeenStands, Cleared, PolicySays
    <2> QED BY <2>2, <2>3, <2>4, <2>5 DEF GateInv
  <1> QED
    BY <1>2, <1>3, <1>4 DEF Operator, SetLevel, OpenIncident, CloseIncident, Decisions, vars,
       store, world

\* The inductive invariant of every interleaving.
Inv == TypeInv /\ GateInv

LEMMA InvInit == Init => Inv
  <1> SUFFICES ASSUME Init PROVE Inv
    OBVIOUS
  <1>1. TypeInv
    BY TypeInit
  <1>2. GateInv
    BY NoCallFits DEF Init, GateInv, Settled, AskedFits, AheadUnasked, SeenStands, Cleared
  <1> QED BY <1>1, <1>2 DEF Inv

LEMMA InvStep == Inv /\ [Next]_vars => Inv'
  <1> SUFFICES ASSUME Inv, [Next]_vars PROVE Inv'
    OBVIOUS
  <1>1. TypeInv /\ GateInv /\ TypeInv'
    BY TypeStep DEF Inv, GateInv
  <1>2. GateInv'
    BY <1>1, GateOfCalls, GateOfPlan, GateOfStarts, GateOfWorld DEF Next
  <1> QED BY <1>1, <1>2 DEF Inv

\* Whatever the plans, the policy, the budgets and the number of calls, and however
\* calls, votes, the operator and deaths interleave, every record of the run stays in
\* range, and the three records of a step are there for every step.
THEOREM TypeCorrect == Spec => []TypeOK
  <1>1. Inv => TypeOK
    BY DEF Inv, TypeInv
  <1> QED BY <1>1, InvInit, InvStep, PTL DEF Spec

\* The inductive invariant that the theorems about every interleaving rest on: what a
\* call has read of the decisions still stands, and what it is about to start was
\* cleared, whatever the others did in between.
THEOREM Invariance == Spec => []Inv
  BY InvInit, InvStep, PTL DEF Spec

\* "no approval, no action": however calls, votes and deaths interleave, no step is
\* started that names no known tool, that the policy denies, or that the policy asks
\* about and whose stored approval does not read APPROVED.
THEOREM Gate == Spec => GateHolds
  <1> DEFINE Permitted == \A i \in DOMAIN plan : Started(i) =>
                            /\ plan[i].tool = "known"
                            /\ PolicySays(i) # "denied"
                            /\ PolicySays(i) = "ask" => approval[i] = "APPROVED"
  <1>1. ASSUME Inv, [Next]_vars PROVE [Permitted]_vars
    <2> SUFFICES ASSUME Next, NEW i \in DOMAIN plan, Started(i)
                 PROVE  /\ plan[i].tool = "known"
                        /\ PolicySays(i) # "denied"
                        /\ PolicySays(i) = "ask" => approval[i] = "APPROVED"
      BY <1>1
    <2>1. i \in DOMAIN dispatched /\ dispatched[i] \in Nat /\ dispatched'[i] > dispatched[i]
      <3>1. TypeInv /\ dispatched \in Seq(Nat)
        BY <1>1 DEF Inv, TypeInv, TypeOK
      <3> QED BY <3>1, TypeLengths DEF Started
    <2>2. PICK p \in Procs : MakePlan(p) \/ Dispatch(p)
      BY <2>1, Writers DEF Next, Submit, Resume, Cancel, Operator, SetLevel, OpenIncident,
         CloseIncident,
         Decisions, Settle, SettleAction, CrashDecision, history
    <2>3. ~MakePlan(p)
      BY <1>1, UnderWay DEF MakePlan, Fits, Inv
    <2>4. pc[p] = "dispatch" /\ dispatched' = [dispatched EXCEPT ![me[p].at] = @ + 1]
      BY <2>2, <2>3 DEF Dispatch
    <2>5. i = me[p].at
      BY <2>1, <2>4
    <2> QED BY <1>1, <2>4, <2>5 DEF Inv, GateInv, Cleared
  <1> QED BY <1>1, Invariance, PTL DEF Spec, GateHolds


-----------------------------------------------------------------------------
\* The size of a set of places.
LEMMA Sizes ==
  ASSUME NEW n \in Nat, NEW S \in SUBSET (1 .. n)
  PROVE  /\ IsFiniteSet(S) /\ Cardinality(S) \in Nat
         /\ \A T \in SUBSET S : IsFiniteSet(T) /\ Cardinality(T) \in Nat
              /\ Cardinality(T) <= Cardinality(S)
         /\ \A x : \A T \in SUBSET (S \cup {x}) : Cardinality(T) <= Cardinality(S) + 1
  <1>1. IsFiniteSet(S)
    <2>1. IsFiniteSet(1 .. n)
      BY FS_Interval
    <2> QED BY <2>1, FS_Subset
  <1>2. Cardinality(S) \in Nat
    BY <1>1, FS_CardinalityType
  <1>3. \A T \in SUBSET S : IsFiniteSet(T) /\ Cardinality(T) \in Nat /\ Cardinality(T) <= Cardinality(S)
    BY <1>1, FS_Subset, FS_CardinalityType
  <1>4. ASSUME NEW x, NEW T \in SUBSET (S \cup {x}) PROVE Cardinality(T) <= Cardinality(S) + 1
    <2>1. /\ IsFiniteSet(S \cup {x})
          /\ Cardinality(S \cup {x}) = Cardinality(S) \/ Cardinality(S \cup {x}) = Cardinality(S) + 1
      BY <1>1, FS_AddElement
    <2>2. Cardinality(T) <= Cardinality(S \cup {x}) /\ Cardinality(T) \in Nat
      BY <2>1, FS_Subset, FS_CardinalityType
    <2> QED BY <1>2, <2>1, <2>2
  <1> QED BY <1>1, <1>2, <1>3, <1>4

\* The steps the budgets have been charged for: asked about, started or chosen.
Charges ==
  {i \in DOMAIN plan : \/ approval[i] # "ABSENT" \/ dispatched[i] > 0
                       \/ \E p \in Procs : pc[p] = "dispatch" /\ me[p].at = i}
NetworkCharges == {i \in Charges : plan[i].network}

\* The first pass has counted every charge, and no charge goes past a budget.
CountsCharges(p) ==
  me[p].mode = "run" => /\ Cardinality(Charges) <= me[p].spent
                        /\ Cardinality(NetworkCharges) <= me[p].network

\* The charges fit the budgets as far as there are any.
WithinBudgets ==
  /\ Charges # {} => Cardinality(Charges) <= MaxActions /\ Cardinality(Charges) <= MaxToolCalls
  /\ NetworkCharges # {} => Cardinality(NetworkCharges) <= MaxNetwork

\* Every charge was counted while there was budget left.
ChargeInv == WithinBudgets /\ \A p \in Procs : CountsCharges(p)

LEMMA ChargesFinite ==
  ASSUME TypeInv
  PROVE  /\ Len(plan) \in Nat /\ Charges \in SUBSET (1 .. Len(plan))
              /\ NetworkCharges \in SUBSET Charges
         /\ NetworkCharges \in SUBSET (1 .. Len(plan))
  BY TypeLengths DEF Charges, NetworkCharges

\* No step is charged for but by the first pass choosing it or asking about it.
LEMMA ChargesGrow ==
  ASSUME TypeInv, TypeInv', GateInv, NEW p \in Procs, Continue(p) \/ Crash(p), ~MakePlan(p)
  PROVE  \/ Charges' \subseteq Charges
         \/ /\ RequestApproval(p) \/ Choose(p)
            /\ Charges' \subseteq Charges \cup {me[p].at}
  <1>1. Going(p) /\ UNCHANGED plan
    BY CallsGo, Writers
  <1>2. \A q \in Procs : q # p => pc'[q] = pc[q] /\ me'[q] = me[q]
    BY OthersStay
  <1> SUFFICES ASSUME NEW i \in DOMAIN plan, i \in Charges', i \notin Charges
               PROVE  (RequestApproval(p) \/ Choose(p)) /\ i = me[p].at
    BY <1>1 DEF Charges
  <1>3. /\ approval[i] = "ABSENT" /\ ~(dispatched[i] > 0)
        /\ \A q \in Procs : ~(pc[q] = "dispatch" /\ me[q].at = i)
    BY DEF Charges
  <1>4. CASE approval'[i] # "ABSENT"
    <2>1. RequestApproval(p)
      BY <1>3, <1>4, Writers
    <2> QED BY <1>3, <1>4, <2>1, AskedOnce, TypeLengths
  <1>5. CASE dispatched'[i] > 0
    <2>1. Dispatch(p)
      BY <1>3, <1>5, Writers
    <2>2. dispatched \in Seq(Nat) /\ DOMAIN dispatched = DOMAIN plan
      BY TypeLengths DEF TypeInv, TypeOK
    <2> QED BY <1>3, <1>5, <2>1, <2>2 DEF Dispatch
  <1>6. ASSUME NEW q \in Procs, pc'[q] = "dispatch" /\ me'[q].at = i
        PROVE  (RequestApproval(p) \/ Choose(p)) /\ i = me[p].at
    <2>1. q = p
      BY <1>2, <1>3, <1>6
    <2>2. CASE Choose(p)
      <3>1. me'[p] = Charged(p) /\ me[p] \in Calls
        BY <2>2, Effect DEF Choose, TypeInv, TypeOK
      <3>2. me'[p].at = me[p].at
        BY <3>1 DEF Charged, Calls
      <3> QED BY <1>6, <2>1, <2>2, <3>2
    <2>3. CASE ResumeApproved(p)
      <3>1. me'[p] = me[p] /\ ResumeAt(p, "APPROVED")
        BY <2>3, Effect DEF ResumeApproved
      <3>2. me[p] \in Calls /\ me[p].at \in Nat \ {0}
        BY Under, UnderWay
      <3>3. me[p].at \in DOMAIN me[p].seen /\ me[p].seen[me[p].at] = "APPROVED"
        BY <3>1, <3>2 DEF ResumeAt, Calls
      <3>4. approval[me[p].at] = "APPROVED"
        BY <3>3 DEF GateInv, SeenStands
      <3> QED BY <1>3, <1>6, <2>1, <3>1, <3>4
    <2> QED BY <1>1, <1>6, <2>1, <2>2, <2>3 DEF Going
  <1>7. \/ approval'[i] # "ABSENT" \/ dispatched'[i] > 0
        \/ \E q \in Procs : pc'[q] = "dispatch" /\ me'[q].at = i
    BY DEF Charges
  <1> QED BY <1>4, <1>5, <1>6, <1>7

\* ... which is a charge to its account, while there was budget left.
LEMMA ChargePaid ==
  ASSUME TypeInv, NEW p \in Procs, RequestApproval(p) \/ Choose(p)
  PROVE  /\ me[p] \in Calls /\ me[p].mode = "run"
         /\ me[p].spent < MaxActions /\ me[p].spent < MaxToolCalls /\ me[p].network < MaxNetwork
         /\ me'[p].mode = "run" /\ me'[p].spent = me[p].spent + 1
         /\ me'[p].network = IF plan[me[p].at].network THEN me[p].network + 1 ELSE me[p].network
  <1>1. pc[p] = "step" /\ ~OverBudget(me[p])
    BY DEF RequestApproval, Choose, Considered, AtStep
  <1>2. me[p] \in Calls /\ me[p].mode = "run"
    BY <1>1, UnderWay DEF Fits, FirstPassOnly
  <1>3. me'[p] = Charged(p)
    BY Effect DEF RequestApproval, Choose
  <1>4. /\ Charged(p).mode = me[p].mode /\ Charged(p).spent = me[p].spent + 1
        /\ Charged(p).network = IF plan[me[p].at].network THEN me[p].network + 1 ELSE me[p].network
    BY <1>2 DEF Charged, Calls, Kind
  <1>5. me[p].spent < MaxActions /\ me[p].spent < MaxToolCalls /\ me[p].network < MaxNetwork
    BY <1>1, <1>2, EngineAssumption DEF OverBudget, Calls
  <1> QED BY <1>2, <1>3, <1>4, <1>5

\* The four kinds of step: a call goes on, plans, or starts, and what surrounds it.
LEMMA ChargeOfCalls ==
  ASSUME TypeInv, TypeInv', GateInv, ChargeInv, NEW p \in Procs, Continue(p) \/ Crash(p), ~MakePlan(p)
  PROVE  ChargeInv'
  <1>1. Going(p) /\ UNCHANGED plan
    BY CallsGo, Writers
  <1>2. \A q \in Procs : q # p => pc'[q] = pc[q] /\ me'[q] = me[q]
    BY OthersStay
  <1>3. /\ \A q \in Procs : me[q].spent \in Nat /\ me[q].network \in Nat
        /\ MaxActions \in Int /\ MaxToolCalls \in Int /\ MaxNetwork \in Int
    <2>1. \A m \in Calls : m.spent \in Nat /\ m.network \in Nat
      BY DEF Calls
    <2> QED BY <2>1, EngineAssumption DEF TypeInv, TypeOK
  <1>4. /\ Len(plan) \in Nat /\ Charges \in SUBSET (1 .. Len(plan))
             /\ NetworkCharges \in SUBSET (1 .. Len(plan))
        /\ Charges' \in SUBSET (1 .. Len(plan)) /\ NetworkCharges' \in SUBSET (1 .. Len(plan))
    <2>1. ASSUME TypeInv PROVE /\ Len(plan) \in Nat /\ Charges \in SUBSET (1 .. Len(plan))
                               /\ NetworkCharges \in SUBSET (1 .. Len(plan))
      BY <2>1, ChargesFinite
    <2>2. TypeInv => /\ Len(plan) \in Nat /\ Charges \in SUBSET (1 .. Len(plan))
                     /\ NetworkCharges \in SUBSET (1 .. Len(plan))
      BY <2>1
    <2>3. TypeInv' => /\ Charges' \in SUBSET (1 .. Len(plan'))
                      /\ NetworkCharges' \in SUBSET (1 .. Len(plan'))
      BY TypeLengths DEF Charges, NetworkCharges, TypeInv, TypeOK
    <2> QED BY <1>1, <2>2, <2>3
  <1>5. /\ Cardinality(Charges) \in Nat /\ Cardinality(NetworkCharges) \in Nat
        /\ Cardinality(Charges') \in Nat /\ Cardinality(NetworkCharges') \in Nat
    BY <1>4, Sizes
  <1>6. CASE Charges' \subseteq Charges
    <2>1. NetworkCharges' \subseteq NetworkCharges
      BY <1>1, <1>6 DEF NetworkCharges
    <2>2. Cardinality(Charges') <= Cardinality(Charges)
            /\ Cardinality(NetworkCharges') <= Cardinality(NetworkCharges)
      BY <1>4, <1>6, <2>1, Sizes
    <2>3. WithinBudgets'
      BY <1>3, <1>5, <1>6, <2>1, <2>2 DEF ChargeInv, WithinBudgets
    <2>4. ASSUME NEW q \in Procs, me'[q].mode = "run"
          PROVE  Cardinality(Charges') <= me'[q].spent /\ Cardinality(NetworkCharges') <= me'[q].network
      <3>1. me[q].mode = "run" /\ me'[q].spent \in {me[q].spent, me[q].spent + 1}
            /\ me'[q].network \in {me[q].network, me[q].network + 1}
        BY <1>1, <1>2, <2>4, NoCallFits DEF Going
      <3>2. Cardinality(Charges) <= me[q].spent /\ Cardinality(NetworkCharges) <= me[q].network
        BY <3>1 DEF ChargeInv, CountsCharges
      <3> QED BY <1>3, <1>5, <2>2, <3>1, <3>2
    <2> QED BY <2>3, <2>4 DEF ChargeInv, CountsCharges
  <1>7. CASE (RequestApproval(p) \/ Choose(p)) /\ Charges' \subseteq Charges \cup {me[p].at}
    <2>1. /\ me[p].mode = "run" /\ me'[p].mode = "run"
          /\ me[p].spent < MaxActions /\ me[p].spent < MaxToolCalls /\ me[p].network < MaxNetwork
          /\ me'[p].spent = me[p].spent + 1
          /\ me'[p].network = IF plan[me[p].at].network THEN me[p].network + 1 ELSE me[p].network
      BY <1>7, ChargePaid
    <2>2. Cardinality(Charges) <= me[p].spent /\ Cardinality(NetworkCharges) <= me[p].network
      BY <2>1 DEF ChargeInv, CountsCharges
    <2>3. Cardinality(Charges') <= Cardinality(Charges) + 1
      BY <1>4, <1>7, Sizes
    <2>4. /\ Cardinality(NetworkCharges') <= me'[p].network
          /\ NetworkCharges' # {} => Cardinality(NetworkCharges') <= MaxNetwork
      <3>1. CASE plan[me[p].at].network
        <4>1. NetworkCharges' \subseteq NetworkCharges \cup {me[p].at}
          BY <1>1, <1>7 DEF NetworkCharges
        <4>2. Cardinality(NetworkCharges') <= Cardinality(NetworkCharges) + 1
          BY <1>4, <4>1, Sizes
        <4> QED BY <1>3, <1>5, <2>1, <2>2, <3>1, <4>2
      <3>2. CASE ~plan[me[p].at].network
        <4>1. NetworkCharges' \subseteq NetworkCharges
          BY <1>1, <1>7, <3>2 DEF NetworkCharges
        <4>2. Cardinality(NetworkCharges') <= Cardinality(NetworkCharges)
          BY <1>4, <4>1, Sizes
        <4> QED BY <1>3, <1>5, <2>1, <2>2, <3>2, <4>1, <4>2
      <3> QED BY <3>1, <3>2
    <2>5. WithinBudgets'
      BY <1>3, <1>5, <2>1, <2>2, <2>3, <2>4 DEF WithinBudgets
    <2>6. ASSUME NEW q \in Procs, me'[q].mode = "run" PROVE q = p
      BY <2>1, <2>6 DEF TypeInv, OneFirstPass
    <2> QED BY <1>3, <1>5, <2>1, <2>2, <2>3, <2>4, <2>5, <2>6 DEF ChargeInv, CountsCharges
  <1> QED BY <1>6, <1>7, ChargesGrow


LEMMA ChargeOfPlan ==
  ASSUME TypeInv, TypeInv', NEW p \in Procs, MakePlan(p)
  PROVE  ChargeInv'
  <1>1. plan = <<>> /\ Len(plan) = 0
    BY UnderWay, TypeLengths DEF MakePlan, Fits
  <1>2. /\ approval' = [i \in DOMAIN plan' |-> "ABSENT"] /\ dispatched' = [i \in DOMAIN plan' |-> 0]
        /\ pc'[p] = "planned" /\ me'[p] = me[p] /\ \A q \in Procs : q # p => pc'[q] = pc[q]
             /\ me'[q] = me[q]
    BY Effect DEF MakePlan
  <1>3. ASSUME NEW q \in Procs PROVE pc'[q] # "dispatch" /\ me'[q].spent \in Nat
                 /\ me'[q].network \in Nat
    <2>1. me[q] \in Calls /\ Fits(pc[q], me[q])
      BY DEF TypeInv, TypeOK
    <2>2. pc[q] # "dispatch" /\ me[q].spent \in Nat /\ me[q].network \in Nat
      BY <1>1, <2>1 DEF Calls, Fits, Acting
    <2> QED BY <1>2, <2>2
  <1>4. Charges' = {} /\ NetworkCharges' = {} /\ Cardinality({}) = 0
    BY <1>2, <1>3, FS_EmptySet DEF Charges, NetworkCharges
  <1> QED BY <1>3, <1>4 DEF ChargeInv, WithinBudgets, CountsCharges

LEMMA ChargeOfStarts ==
  ASSUME TypeInv, TypeInv', ChargeInv, NEW p \in Procs, Submit(p) \/ Resume(p) \/ Cancel(p)
  PROVE  ChargeInv'
  <1>1. /\ UNCHANGED <<plan, approval, dispatched>> /\ pc[p] = "idle"
        /\ \E at, m : Goes(p, at, m) /\ at # "dispatch"
    BY DEF Submit, Resume, Cancel, store, history
  <1>2. pc'[p] # "dispatch" /\ \A q \in Procs : q # p => pc'[q] = pc[q] /\ me'[q] = me[q]
    BY <1>1, Effect
  <1>3. Charges' = Charges /\ NetworkCharges' = NetworkCharges
    <2>1. \A q \in Procs, i \in DOMAIN plan : (pc[q] = "dispatch"
            /\ me[q].at = i) <=> (pc'[q] = "dispatch" /\ me'[q].at = i)
      BY <1>1, <1>2
    <2>2. Charges' = Charges
      BY <1>1, <2>1 DEF Charges
    <2> QED BY <1>1, <2>2 DEF NetworkCharges
  <1>4. ASSUME NEW q \in Procs, me'[q].mode = "run"
        PROVE  Cardinality(Charges') <= me'[q].spent /\ Cardinality(NetworkCharges') <= me'[q].network
    <2>1. CASE q # p
      BY <1>2, <1>3, <1>4, <2>1 DEF ChargeInv, CountsCharges
    <2>2. CASE q = p
      <3>1. ~Resume(p) /\ ~Cancel(p)
        <4>1. Resume(p) => me'[p] = [NoCall EXCEPT !.run = status, !.mode = "resume", !.seen = approval]
          BY Effect DEF Resume
        <4>2. Cancel(p) => me'[p] = [NoCall EXCEPT !.run = status, !.mode = "cancel"]
          BY Effect DEF Cancel
        <4>3. /\ [NoCall EXCEPT !.run = status, !.mode = "resume", !.seen = approval].mode = "resume"
              /\ [NoCall EXCEPT !.run = status, !.mode = "cancel"].mode = "cancel"
          BY NoCallFits DEF Calls
        <4> QED BY <1>4, <2>2, <4>1, <4>2, <4>3
      <3>2. plan = <<>> /\ me'[p] = [NoCall EXCEPT !.mode = "run"]
        BY <3>1, Effect DEF Submit, TypeInv, OneFirstPass
      <3>3. me'[p].spent \in Nat /\ me'[p].network \in Nat
        BY <3>2, NoCallFits DEF Calls
      <3>4. Charges' = {} /\ NetworkCharges' = {} /\ Cardinality({}) = 0
        BY <1>3, <3>2, FS_EmptySet DEF Charges, NetworkCharges
      <3> QED BY <2>2, <3>3, <3>4
    <2> QED BY <2>1, <2>2
  <1> QED BY <1>3, <1>4 DEF ChargeInv, WithinBudgets, CountsCharges

LEMMA ChargeOfWorld ==
  ASSUME TypeInv, TypeInv', ChargeInv, Operator \/ Decisions \/ UNCHANGED vars
  PROVE  ChargeInv'
  <1>1. UNCHANGED <<plan, dispatched, pc, me>>
    BY DEF Operator, SetLevel, OpenIncident, CloseIncident, Decisions, Settle, SettleAction,
       CrashDecision,
       vars, store, world, history
  <1>2. \A i \in DOMAIN plan : approval'[i] # "ABSENT" <=> approval[i] # "ABSENT"
    BY TypeLengths DEF Operator, SetLevel, OpenIncident, CloseIncident, Decisions, Settle,
       SettleAction,
       CrashDecision, vars, store, TypeInv, TypeOK
  <1>3. Charges' = Charges
    BY <1>1, <1>2 DEF Charges
  <1>4. NetworkCharges' = NetworkCharges
    BY <1>1, <1>3 DEF NetworkCharges
  <1> QED BY <1>1, <1>3, <1>4 DEF ChargeInv, WithinBudgets, CountsCharges

LEMMA ChargeStep == Inv /\ ChargeInv /\ [Next]_vars => ChargeInv'
  <1> SUFFICES ASSUME Inv, ChargeInv, [Next]_vars PROVE ChargeInv'
    OBVIOUS
  <1>1. TypeInv /\ TypeInv' /\ GateInv
    BY InvStep DEF Inv
  <1> QED BY <1>1, ChargeOfCalls, ChargeOfPlan, ChargeOfStarts, ChargeOfWorld DEF Next

LEMMA ChargeInit == Init => ChargeInv
  <1> SUFFICES ASSUME Init PROVE ChargeInv
    OBVIOUS
  <1>1. Charges = {} /\ NetworkCharges = {} /\ Cardinality({}) = 0
    BY FS_EmptySet DEF Init, Charges, NetworkCharges
  <1>2. \A p \in Procs : me[p].mode = "none"
    BY NoCallFits DEF Init
  <1> QED BY <1>1, <1>2 DEF ChargeInv, WithinBudgets, CountsCharges

\* The first pass counts each step it asks about or chooses before it does so, and no
\* resume adds one: the counts stand for the charges, however the calls interleave.
THEOREM ChargeInvariance == Spec => [](Inv /\ ChargeInv)
  <1>1. Init => Inv /\ ChargeInv
    BY InvInit, ChargeInit
  <1>2. (Inv /\ ChargeInv) /\ [Next]_vars => (Inv /\ ChargeInv)'
    BY InvStep, ChargeStep
  <1> QED BY <1>1, <1>2, PTL DEF Spec

\* What is started was charged for.
LEMMA ChargesCover == TypeInv /\ ChargeInv => StartsWithinBudget
  <1> SUFFICES ASSUME TypeInv, ChargeInv PROVE StartsWithinBudget
    OBVIOUS
  <1> DEFINE started == {i \in DOMAIN plan : dispatched[i] > 0}
             network == {i \in started : plan[i].network}
  <1>1. started \subseteq Charges /\ network \subseteq NetworkCharges
    BY DEF Charges, NetworkCharges
  <1>2. /\ Cardinality(started) <= Cardinality(Charges)
             /\ Cardinality(network) <= Cardinality(NetworkCharges)
        /\ Cardinality(started) \in Nat /\ Cardinality(network) \in Nat
        /\ Cardinality(Charges) \in Nat /\ Cardinality(NetworkCharges) \in Nat
    BY <1>1, Sizes, ChargesFinite
  <1>3. /\ started # {} => Cardinality(started) <= MaxActions /\ Cardinality(started) <= MaxToolCalls
        /\ network # {} => Cardinality(network) <= MaxNetwork
    <2> HIDE DEF started, network
    <2> QED BY <1>1, <1>2, EngineAssumption DEF ChargeInv, WithinBudgets
  <1> QED BY <1>3 DEF StartsWithinBudget

\* The steps a run starts, its first pass and all its resumes together, are within its
\* budgets, however calls, votes and deaths interleave: none is started that the first
\* pass did not charge for.
THEOREM StartsCharged == Spec => []StartsWithinBudget
  BY ChargeInvariance, ChargesCover, PTL DEF Inv


-----------------------------------------------------------------------------
\* Where a step of a call gets it, and what it keeps: its copy of the run's status, the
\* step it is at, its tally, its attempts and the status it asks for.
Became(p, at, run, place, tally, tries, target) ==
  /\ pc'[p] = at
  /\ me'[p].mode = me[p].mode /\ me'[p].seen = me[p].seen
  /\ me'[p].run = run /\ me'[p].at = place /\ me'[p].tally = tally
  /\ me'[p].tries = tries /\ me'[p].target = target

\* One line for each step of a call.
LEMMA Becomes ==
  ASSUME TypeInv, NEW p \in Procs
  PROVE  /\ BeginPlanning(p) => Became(p, "planning", "PLANNING", me[p].at, me[p].tally,
                                       me[p].tries, me[p].target)
         /\ MakePlan(p) => Became(p, "planned", me[p].run, me[p].at, me[p].tally, me[p].tries,
                                  me[p].target)
         /\ EnterExecuting(p) => Became(p, "step", "EXECUTING", me[p].at, me[p].tally,
                                        me[p].tries, me[p].target)
         /\ Exhaust(p) => Became(p, "verify", me[p].run, me[p].at,
                                 [me[p].tally EXCEPT !.exhausted = TRUE], me[p].tries,
                                 me[p].target)
         /\ SkipReasoning(p) => Became(p, "step", me[p].run, me[p].at + 1, me[p].tally,
                                       me[p].tries, me[p].target)
         /\ RejectStep(p) => Became(p, "step", me[p].run, me[p].at + 1,
                                    [me[p].tally EXCEPT !.failures = @ + 1], me[p].tries,
                                    me[p].target)
         /\ SafeModeBlock(p) => Became(p, "step", me[p].run, me[p].at + 1,
                                       [me[p].tally EXCEPT !.blocked = TRUE], me[p].tries,
                                       me[p].target)
         /\ PolicyDeny(p) => Became(p, "step", me[p].run, me[p].at + 1,
                                    [me[p].tally EXCEPT !.blocked = TRUE], me[p].tries,
                                    me[p].target)
         /\ RequestApproval(p) => Became(p, "asked", me[p].run, me[p].at, me[p].tally,
                                         me[p].tries, me[p].target)
         /\ MarkAwaiting(p) => Became(p, "step", "AWAITING_APPROVAL", me[p].at + 1,
                                      [me[p].tally EXCEPT !.awaiting = TRUE], me[p].tries,
                                      me[p].target)
         /\ Choose(p) => Became(p, "dispatch", me[p].run, me[p].at, me[p].tally, me[p].tries,
                                me[p].target)
         /\ Dispatch(p) => Became(p, "invoke", me[p].run, me[p].at, me[p].tally, 0, me[p].target)
         /\ RecordSuccess(p) => Became(p, AfterAction(p), me[p].run, me[p].at + 1,
                                       [me[p].tally EXCEPT !.executed = @ + 1], me[p].tries,
                                       me[p].target)
         /\ RecordFailure(p) => Became(p, AfterAction(p), me[p].run, me[p].at + 1,
                                       [me[p].tally EXCEPT !.executed = @ + 1, !.failures = @ + 1],
                                       me[p].tries, me[p].target)
         /\ Verify(p) => Became(p, "decide",
                                IF me[p].tally.awaiting THEN me[p].run ELSE "VERIFYING", me[p].at,
                                me[p].tally, me[p].tries, me[p].target)
         /\ Decide(p) => Became(p, IF Asks(p) = me[p].run THEN "put" ELSE "advance", me[p].run,
                                me[p].at, me[p].tally, me[p].tries, Asks(p))
         /\ Advance(p) => Became(p, IF me[p].run = "VERIFYING" THEN "put" ELSE "advance",
                                 Waypoint(me[p]), me[p].at, me[p].tally, me[p].tries,
                                 me[p].target)
         /\ ResumeApproved(p) => Became(p, "dispatch", me[p].run, me[p].at, me[p].tally,
                                        me[p].tries, me[p].target)
         /\ ResumeRejected(p) => Became(p, "resume", me[p].run, me[p].at + 1,
                                        [me[p].tally EXCEPT !.blocked = TRUE], me[p].tries,
                                        me[p].target)
         /\ ResumePasses(p) => Became(p, "resume", me[p].run, me[p].at + 1, me[p].tally,
                                      me[p].tries, me[p].target)
         /\ ResumeEnds(p) => Became(p, "decide", me[p].run, me[p].at, me[p].tally, me[p].tries,
                                    me[p].target)
         /\ \A r \in {"ok", "fail", "refused"} :
              Invoke(p, r) => Became(p,
                                     IF r = "fail" /\ me[p].tries = 0 THEN "invoke" ELSE "record",
                                     me[p].run, me[p].at, me[p].tally, me[p].tries + 1,
                                     me[p].target)
         /\ Refuse(p) \/ Raise(p) \/ FailPlan(p) \/ PutFinal(p) \/ CancelCommit(p) \/ Crash(p) =>
              pc'[p] = "idle" /\ me'[p] = NoCall
  <1>1. me[p] \in Calls
    BY DEF TypeInv, TypeOK
  <1>2. ASSUME BeginPlanning(p)
        PROVE  Became(p, "planning", "PLANNING", me[p].at, me[p].tally, me[p].tries, me[p].target)
    <2> DEFINE m == [me[p] EXCEPT !.run = "PLANNING"]
    <2>1. pc'[p] = "planning" /\ me'[p] = m
      BY <1>2, Effect DEF BeginPlanning
    <2>2. /\ m.mode = me[p].mode /\ m.seen = me[p].seen /\ m.run = "PLANNING" /\ m.at = me[p].at
          /\ m.tally = me[p].tally /\ m.tries = me[p].tries /\ m.target = me[p].target
      BY <1>1 DEF Calls
    <2> HIDE DEF m
    <2> QED BY <2>1, <2>2 DEF Became
  <1>3. ASSUME MakePlan(p)
        PROVE  Became(p, "planned", me[p].run, me[p].at, me[p].tally, me[p].tries, me[p].target)
    <2> DEFINE m == me[p]
    <2>1. pc'[p] = "planned" /\ me'[p] = m
      BY <1>3, Effect DEF MakePlan
    <2>2. /\ m.mode = me[p].mode /\ m.seen = me[p].seen /\ m.run = me[p].run /\ m.at = me[p].at
          /\ m.tally = me[p].tally /\ m.tries = me[p].tries /\ m.target = me[p].target
      BY <1>1 DEF Calls
    <2> HIDE DEF m
    <2> QED BY <2>1, <2>2 DEF Became
  <1>4. ASSUME EnterExecuting(p)
        PROVE  Became(p, "step", "EXECUTING", me[p].at, me[p].tally, me[p].tries, me[p].target)
    <2> DEFINE m == [me[p] EXCEPT !.run = "EXECUTING"]
    <2>1. pc'[p] = "step" /\ me'[p] = m
      BY <1>4, Effect DEF EnterExecuting
    <2>2. /\ m.mode = me[p].mode /\ m.seen = me[p].seen /\ m.run = "EXECUTING" /\ m.at = me[p].at
          /\ m.tally = me[p].tally /\ m.tries = me[p].tries /\ m.target = me[p].target
      BY <1>1 DEF Calls
    <2> HIDE DEF m
    <2> QED BY <2>1, <2>2 DEF Became
  <1>5. ASSUME Exhaust(p)
        PROVE  Became(p, "verify", me[p].run, me[p].at, [me[p].tally EXCEPT !.exhausted = TRUE],
                      me[p].tries, me[p].target)
    <2> DEFINE m == [me[p] EXCEPT !.tally.exhausted = TRUE]
    <2>1. pc'[p] = "verify" /\ me'[p] = m
      BY <1>5, Effect DEF Exhaust
    <2>2. /\ m.mode = me[p].mode /\ m.seen = me[p].seen /\ m.run = me[p].run /\ m.at = me[p].at
          /\ m.tally = [me[p].tally EXCEPT !.exhausted = TRUE] /\ m.tries = me[p].tries
                    /\ m.target = me[p].target
      BY <1>1 DEF Calls
    <2> HIDE DEF m
    <2> QED BY <2>1, <2>2 DEF Became
  <1>6. ASSUME SkipReasoning(p)
        PROVE  Became(p, "step", me[p].run, me[p].at + 1, me[p].tally, me[p].tries, me[p].target)
    <2> DEFINE m == [me[p] EXCEPT !.at = @ + 1]
    <2>1. pc'[p] = "step" /\ me'[p] = m
      BY <1>6, Effect DEF SkipReasoning
    <2>2. /\ m.mode = me[p].mode /\ m.seen = me[p].seen /\ m.run = me[p].run /\ m.at = me[p].at + 1
          /\ m.tally = me[p].tally /\ m.tries = me[p].tries /\ m.target = me[p].target
      BY <1>1 DEF Calls
    <2> HIDE DEF m
    <2> QED BY <2>1, <2>2 DEF Became
  <1>7. ASSUME RejectStep(p)
        PROVE  Became(p, "step", me[p].run, me[p].at + 1, [me[p].tally EXCEPT !.failures = @ + 1],
                      me[p].tries, me[p].target)
    <2> DEFINE m == [me[p] EXCEPT !.at = @ + 1, !.tally.failures = @ + 1]
    <2>1. pc'[p] = "step" /\ me'[p] = m
      BY <1>7, Effect DEF RejectStep
    <2>2. /\ m.mode = me[p].mode /\ m.seen = me[p].seen /\ m.run = me[p].run /\ m.at = me[p].at + 1
          /\ m.tally = [me[p].tally EXCEPT !.failures = @ + 1] /\ m.tries = me[p].tries
                    /\ m.target = me[p].target
      BY <1>1 DEF Calls
    <2> HIDE DEF m
    <2> QED BY <2>1, <2>2 DEF Became
  <1>8. ASSUME SafeModeBlock(p)
        PROVE  Became(p, "step", me[p].run, me[p].at + 1, [me[p].tally EXCEPT !.blocked = TRUE],
                      me[p].tries, me[p].target)
    <2> DEFINE m == [me[p] EXCEPT !.at = @ + 1, !.tally.blocked = TRUE]
    <2>1. pc'[p] = "step" /\ me'[p] = m
      BY <1>8, Effect DEF SafeModeBlock
    <2>2. /\ m.mode = me[p].mode /\ m.seen = me[p].seen /\ m.run = me[p].run /\ m.at = me[p].at + 1
          /\ m.tally = [me[p].tally EXCEPT !.blocked = TRUE] /\ m.tries = me[p].tries
                    /\ m.target = me[p].target
      BY <1>1 DEF Calls
    <2> HIDE DEF m
    <2> QED BY <2>1, <2>2 DEF Became
  <1>9. ASSUME PolicyDeny(p)
        PROVE  Became(p, "step", me[p].run, me[p].at + 1, [me[p].tally EXCEPT !.blocked = TRUE],
                      me[p].tries, me[p].target)
    <2> DEFINE m == [Charged(p) EXCEPT !.at = @ + 1, !.tally.blocked = TRUE]
    <2>1. pc'[p] = "step" /\ me'[p] = m
      BY <1>9, Effect DEF PolicyDeny
    <2>2. /\ m.mode = me[p].mode /\ m.seen = me[p].seen /\ m.run = me[p].run /\ m.at = me[p].at + 1
          /\ m.tally = [me[p].tally EXCEPT !.blocked = TRUE] /\ m.tries = me[p].tries
                    /\ m.target = me[p].target
      BY <1>1 DEF Calls, Charged
    <2> HIDE DEF m
    <2> QED BY <2>1, <2>2 DEF Became
  <1>10. ASSUME RequestApproval(p)
        PROVE  Became(p, "asked", me[p].run, me[p].at, me[p].tally, me[p].tries, me[p].target)
    <2> DEFINE m == Charged(p)
    <2>1. pc'[p] = "asked" /\ me'[p] = m
      BY <1>10, Effect DEF RequestApproval
    <2>2. /\ m.mode = me[p].mode /\ m.seen = me[p].seen /\ m.run = me[p].run /\ m.at = me[p].at
          /\ m.tally = me[p].tally /\ m.tries = me[p].tries /\ m.target = me[p].target
      BY <1>1 DEF Calls, Charged
    <2> HIDE DEF m
    <2> QED BY <2>1, <2>2 DEF Became
  <1>11. ASSUME MarkAwaiting(p)
        PROVE  Became(p, "step", "AWAITING_APPROVAL", me[p].at + 1,
                      [me[p].tally EXCEPT !.awaiting = TRUE], me[p].tries, me[p].target)
    <2> DEFINE m == [me[p] EXCEPT !.at = @ + 1, !.tally.awaiting = TRUE,
                    !.run = "AWAITING_APPROVAL"]
    <2>1. pc'[p] = "step" /\ me'[p] = m
      BY <1>11, Effect DEF MarkAwaiting
    <2>2. /\ m.mode = me[p].mode /\ m.seen = me[p].seen /\ m.run = "AWAITING_APPROVAL"
                    /\ m.at = me[p].at + 1
          /\ m.tally = [me[p].tally EXCEPT !.awaiting = TRUE] /\ m.tries = me[p].tries
                    /\ m.target = me[p].target
      BY <1>1 DEF Calls
    <2> HIDE DEF m
    <2> QED BY <2>1, <2>2 DEF Became
  <1>12. ASSUME Choose(p)
        PROVE  Became(p, "dispatch", me[p].run, me[p].at, me[p].tally, me[p].tries, me[p].target)
    <2> DEFINE m == Charged(p)
    <2>1. pc'[p] = "dispatch" /\ me'[p] = m
      BY <1>12, Effect DEF Choose
    <2>2. /\ m.mode = me[p].mode /\ m.seen = me[p].seen /\ m.run = me[p].run /\ m.at = me[p].at
          /\ m.tally = me[p].tally /\ m.tries = me[p].tries /\ m.target = me[p].target
      BY <1>1 DEF Calls, Charged
    <2> HIDE DEF m
    <2> QED BY <2>1, <2>2 DEF Became
  <1>13. ASSUME Dispatch(p)
        PROVE  Became(p, "invoke", me[p].run, me[p].at, me[p].tally, 0, me[p].target)
    <2> DEFINE m == [me[p] EXCEPT !.tries = 0]
    <2>1. pc'[p] = "invoke" /\ me'[p] = m
      BY <1>13, Effect DEF Dispatch
    <2>2. /\ m.mode = me[p].mode /\ m.seen = me[p].seen /\ m.run = me[p].run /\ m.at = me[p].at
          /\ m.tally = me[p].tally /\ m.tries = 0 /\ m.target = me[p].target
      BY <1>1 DEF Calls
    <2> HIDE DEF m
    <2> QED BY <2>1, <2>2 DEF Became
  <1>14. ASSUME RecordSuccess(p)
        PROVE  Became(p, AfterAction(p), me[p].run, me[p].at + 1,
                      [me[p].tally EXCEPT !.executed = @ + 1], me[p].tries, me[p].target)
    <2>1. PICK y \in Yields :
            Goes(p, AfterAction(p),
                 [me[p] EXCEPT !.at = @ + 1, !.tally.executed = @ + 1,
                    !.checks = IF me[p].mode = "run"
                    /\ y.check # "none" THEN @ \cup {y.check} ELSE @])
      BY <1>14 DEF RecordSuccess
    <2> DEFINE owed == IF me[p].mode = "run" /\ y.check # "none" THEN me[p].checks \cup {y.check}
                                                                 ELSE me[p].checks
               m == [me[p] EXCEPT !.at = @ + 1, !.tally.executed = @ + 1, !.checks = owed]
    <2>2. pc'[p] = AfterAction(p) /\ me'[p] = m
      BY <2>1, Effect
    <2> HIDE DEF owed
    <2>3. /\ m.mode = me[p].mode /\ m.seen = me[p].seen /\ m.run = me[p].run /\ m.at = me[p].at + 1
          /\ m.tally = [me[p].tally EXCEPT !.executed = @ + 1]
          /\ m.tries = me[p].tries /\ m.target = me[p].target
      BY <1>1 DEF Calls
    <2> HIDE DEF m
    <2> QED BY <2>2, <2>3 DEF Became
  <1>15. ASSUME RecordFailure(p)
        PROVE  Became(p, AfterAction(p), me[p].run, me[p].at + 1,
                      [me[p].tally EXCEPT !.executed = @ + 1, !.failures = @ + 1], me[p].tries,
                      me[p].target)
    <2> DEFINE m == [me[p] EXCEPT !.at = @ + 1, !.tally.executed = @ + 1, !.tally.failures = @ + 1]
    <2>1. pc'[p] = AfterAction(p) /\ me'[p] = m
      BY <1>15, Effect DEF RecordFailure
    <2>2. /\ m.mode = me[p].mode /\ m.seen = me[p].seen /\ m.run = me[p].run /\ m.at = me[p].at + 1
          /\ m.tally = [me[p].tally EXCEPT !.executed = @ + 1,
                    !.failures = @ + 1] /\ m.tries = me[p].tries /\ m.target = me[p].target
      BY <1>1 DEF Calls
    <2> HIDE DEF m
    <2> QED BY <2>1, <2>2 DEF Became
  <1>16. ASSUME Verify(p)
        PROVE  Became(p, "decide", IF me[p].tally.awaiting THEN me[p].run ELSE "VERIFYING",
                      me[p].at, me[p].tally, me[p].tries, me[p].target)
    <2> DEFINE m == [me[p] EXCEPT !.run = IF me[p].tally.awaiting THEN @ ELSE "VERIFYING"]
    <2>1. pc'[p] = "decide" /\ me'[p] = m
      BY <1>16, Effect DEF Verify
    <2>2. /\ m.mode = me[p].mode /\ m.seen = me[p].seen
                    /\ m.run = (IF me[p].tally.awaiting THEN me[p].run ELSE "VERIFYING")
                    /\ m.at = me[p].at
          /\ m.tally = me[p].tally /\ m.tries = me[p].tries /\ m.target = me[p].target
      BY <1>1 DEF Calls
    <2> HIDE DEF m
    <2> QED BY <2>1, <2>2 DEF Became
  <1>17. ASSUME Decide(p)
        PROVE  Became(p, IF Asks(p) = me[p].run THEN "put" ELSE "advance", me[p].run, me[p].at,
                      me[p].tally, me[p].tries, Asks(p))
    <2> DEFINE m == [me[p] EXCEPT !.target = Asks(p)]
    <2>1. pc'[p] = (IF Asks(p) = me[p].run THEN "put" ELSE "advance") /\ me'[p] = m
      BY <1>17, Effect DEF Decide
    <2>2. /\ m.mode = me[p].mode /\ m.seen = me[p].seen /\ m.run = me[p].run /\ m.at = me[p].at
          /\ m.tally = me[p].tally /\ m.tries = me[p].tries /\ m.target = Asks(p)
      BY <1>1 DEF Calls
    <2> HIDE DEF m
    <2> QED BY <2>1, <2>2 DEF Became
  <1>18. ASSUME Advance(p)
        PROVE  Became(p, IF me[p].run = "VERIFYING" THEN "put" ELSE "advance", Waypoint(me[p]),
                      me[p].at, me[p].tally, me[p].tries, me[p].target)
    <2> DEFINE m == [me[p] EXCEPT !.run = Waypoint(me[p])]
    <2>1. pc'[p] = (IF me[p].run = "VERIFYING" THEN "put" ELSE "advance") /\ me'[p] = m
      BY <1>18, Effect DEF Advance
    <2>2. /\ m.mode = me[p].mode /\ m.seen = me[p].seen /\ m.run = Waypoint(me[p])
                    /\ m.at = me[p].at
          /\ m.tally = me[p].tally /\ m.tries = me[p].tries /\ m.target = me[p].target
      BY <1>1 DEF Calls
    <2> HIDE DEF m
    <2> QED BY <2>1, <2>2 DEF Became
  <1>19. ASSUME ResumeApproved(p)
        PROVE  Became(p, "dispatch", me[p].run, me[p].at, me[p].tally, me[p].tries, me[p].target)
    <2> DEFINE m == me[p]
    <2>1. pc'[p] = "dispatch" /\ me'[p] = m
      BY <1>19, Effect DEF ResumeApproved
    <2>2. /\ m.mode = me[p].mode /\ m.seen = me[p].seen /\ m.run = me[p].run /\ m.at = me[p].at
          /\ m.tally = me[p].tally /\ m.tries = me[p].tries /\ m.target = me[p].target
      BY <1>1 DEF Calls
    <2> HIDE DEF m
    <2> QED BY <2>1, <2>2 DEF Became
  <1>20. ASSUME ResumeRejected(p)
        PROVE  Became(p, "resume", me[p].run, me[p].at + 1, [me[p].tally EXCEPT !.blocked = TRUE],
                      me[p].tries, me[p].target)
    <2> DEFINE m == [me[p] EXCEPT !.at = @ + 1, !.tally.blocked = TRUE]
    <2>1. pc'[p] = "resume" /\ me'[p] = m
      BY <1>20, Effect DEF ResumeRejected
    <2>2. /\ m.mode = me[p].mode /\ m.seen = me[p].seen /\ m.run = me[p].run /\ m.at = me[p].at + 1
          /\ m.tally = [me[p].tally EXCEPT !.blocked = TRUE] /\ m.tries = me[p].tries
                    /\ m.target = me[p].target
      BY <1>1 DEF Calls
    <2> HIDE DEF m
    <2> QED BY <2>1, <2>2 DEF Became
  <1>21. ASSUME ResumePasses(p)
        PROVE  Became(p, "resume", me[p].run, me[p].at + 1, me[p].tally, me[p].tries,
                      me[p].target)
    <2> DEFINE m == [me[p] EXCEPT !.at = @ + 1]
    <2>1. pc'[p] = "resume" /\ me'[p] = m
      BY <1>21, Effect DEF ResumePasses
    <2>2. /\ m.mode = me[p].mode /\ m.seen = me[p].seen /\ m.run = me[p].run /\ m.at = me[p].at + 1
          /\ m.tally = me[p].tally /\ m.tries = me[p].tries /\ m.target = me[p].target
      BY <1>1 DEF Calls
    <2> HIDE DEF m
    <2> QED BY <2>1, <2>2 DEF Became
  <1>22. ASSUME ResumeEnds(p)
        PROVE  Became(p, "decide", me[p].run, me[p].at, me[p].tally, me[p].tries, me[p].target)
    <2> DEFINE m == me[p]
    <2>1. pc'[p] = "decide" /\ me'[p] = m
      BY <1>22, Effect DEF ResumeEnds
    <2>2. /\ m.mode = me[p].mode /\ m.seen = me[p].seen /\ m.run = me[p].run /\ m.at = me[p].at
          /\ m.tally = me[p].tally /\ m.tries = me[p].tries /\ m.target = me[p].target
      BY <1>1 DEF Calls
    <2> HIDE DEF m
    <2> QED BY <2>1, <2>2 DEF Became
  <1>23. ASSUME NEW r \in {"ok", "fail", "refused"}, Invoke(p, r)
        PROVE  Became(p, IF r = "fail" /\ me[p].tries = 0 THEN "invoke" ELSE "record", me[p].run,
                      me[p].at, me[p].tally, me[p].tries + 1, me[p].target)
    <2> DEFINE m == [me[p] EXCEPT !.tries = @ + 1, !.result = r]
    <2>1. pc'[p] = (IF r = "fail" /\ me[p].tries = 0 THEN "invoke" ELSE "record") /\ me'[p] = m
      BY <1>23, Effect DEF Invoke
    <2>2. /\ m.mode = me[p].mode /\ m.seen = me[p].seen /\ m.run = me[p].run /\ m.at = me[p].at
          /\ m.tally = me[p].tally /\ m.tries = me[p].tries + 1 /\ m.target = me[p].target
      BY <1>1 DEF Calls
    <2> HIDE DEF m
    <2> QED BY <2>1, <2>2 DEF Became
  <1>24. ASSUME Refuse(p) \/ Raise(p) \/ FailPlan(p) \/ PutFinal(p) \/ CancelCommit(p) \/ Crash(p)
        PROVE  pc'[p] = "idle" /\ me'[p] = NoCall
    BY <1>24, Effect DEF Refuse, Raise, FailPlan, PutFinal, CancelCommit, Crash, Ends
  <1> QED BY <1>2, <1>3, <1>4, <1>5, <1>6, <1>7, <1>8, <1>9, <1>10, <1>11, <1>12, <1>13, <1>14,
                    <1>15, <1>16, <1>17, <1>18, <1>19, <1>20, <1>21, <1>22, <1>23, <1>24


-----------------------------------------------------------------------------
\* From here on: one call or one decision at a time, deaths included.
Alone ==
  /\ \A p, q \in Procs : pc[p] # "idle" /\ pc[q] # "idle" => p = q
  /\ \A p \in Procs : pc[p] # "idle" => deciding = {}

\* The call's copy of the status is the stored one, and each place in the code has its own.
RunAt(p) ==
  /\ pc[p] # "idle" => me[p].run = status
  /\ pc[p] \notin {"idle", "put"} => ~IsTerminal(me[p].run)
  /\ pc[p] = "submitted" => me[p].run = "PENDING"
  /\ pc[p] \in {"planning", "planned"} => me[p].run = "PLANNING"
  /\ pc[p] \in {"submitted", "planning", "planned"} => ~me[p].tally.awaiting
  /\ pc[p] \in {"step", "asked", "verify"} \/ (pc[p] \in Acting /\ me[p].mode = "run") =>
       me[p].run = IF me[p].tally.awaiting THEN "AWAITING_APPROVAL" ELSE "EXECUTING"
  /\ pc[p] = "put" => me[p].run = me[p].target

\* No call overlaps another, and each knows the stored status.
RunInv == Alone /\ \A p \in Procs : RunAt(p)

\* A change of the stored status is a row of the table.
StatusMoves ==
  \/ status' = status
  \/ {status, status'} \subseteq RunStatuses /\ AllowedTransition(status, status')

\* The rows of the table that a call uses.
LEMMA Rows ==
  /\ AllowedTransition("PENDING", "PLANNING") /\ AllowedTransition("PLANNING", "EXECUTING")
  /\ AllowedTransition("PLANNING", "BLOCKED") /\ AllowedTransition("EXECUTING", "AWAITING_APPROVAL")
  /\ AllowedTransition("EXECUTING", "VERIFYING")
  BY DEF AllowedTransition, Transitions, RunStatuses, TerminalStatuses

LEMMA RunOfCalls ==
  ASSUME TypeInv, RunInv, NEW p \in Procs, Continue(p) \/ Crash(p)
  PROVE  RunAt(p)' /\ StatusMoves
  <1>1. /\ pc[p] # "idle" /\ me[p].run = status /\ status \in RunStatuses /\ me[p].tally \in Tallies
        /\ RunAt(p) /\ Fits(pc[p], me[p]) /\ me[p].target \in RunStatuses
    BY Under, UnderWay DEF RunInv, RunAt, Calls
  <1>2. NoCall.mode = "none"
    BY NoCallFits
  <1> USE <1>1 DEF RunAt, StatusMoves, Fits, FirstPassOnly, Acting, Concluding, IsTerminal
  <1>3. CASE BeginPlanning(p)
    <2>1. Became(p, "planning", "PLANNING", me[p].at, me[p].tally, me[p].tries, me[p].target)
      BY Zenon, <1>3, Becomes
    <2> QED BY <1>3, <2>1, Rows DEF Became, BeginPlanning, Moved, RunStatuses, TerminalStatuses
  <1>4. CASE MakePlan(p)
    <2>1. Became(p, "planned", me[p].run, me[p].at, me[p].tally, me[p].tries, me[p].target)
      BY Zenon, <1>4, Becomes
    <2> QED BY <1>4, <2>1 DEF Became, MakePlan
  <1>5. CASE EnterExecuting(p)
    <2>1. Became(p, "step", "EXECUTING", me[p].at, me[p].tally, me[p].tries, me[p].target)
      BY Zenon, <1>5, Becomes
    <2> QED BY <1>5, <2>1, Rows DEF Became, EnterExecuting, Moved, RunStatuses, TerminalStatuses
  <1>6. CASE Exhaust(p)
    <2>1. Became(p, "verify", me[p].run, me[p].at, [me[p].tally EXCEPT !.exhausted = TRUE],
                 me[p].tries, me[p].target)
      BY Zenon, <1>6, Becomes
    <2> QED BY <1>6, <2>1 DEF Became, Exhaust, Tallies, store
  <1>7. CASE SkipReasoning(p)
    <2>1. Became(p, "step", me[p].run, me[p].at + 1, me[p].tally, me[p].tries, me[p].target)
      BY Zenon, <1>7, Becomes
    <2> QED BY <1>7, <2>1 DEF Became, SkipReasoning, AtStep
  <1>8. CASE RejectStep(p)
    <2>1. Became(p, "step", me[p].run, me[p].at + 1, [me[p].tally EXCEPT !.failures = @ + 1],
                 me[p].tries, me[p].target)
      BY Zenon, <1>8, Becomes
    <2> QED BY <1>8, <2>1 DEF Became, RejectStep, AtStep, Tallies
  <1>9. CASE SafeModeBlock(p)
    <2>1. Became(p, "step", me[p].run, me[p].at + 1, [me[p].tally EXCEPT !.blocked = TRUE],
                 me[p].tries, me[p].target)
      BY Zenon, <1>9, Becomes
    <2> QED BY <1>9, <2>1 DEF Became, SafeModeBlock, AtStep, Tallies
  <1>10. CASE PolicyDeny(p)
    <2>1. Became(p, "step", me[p].run, me[p].at + 1, [me[p].tally EXCEPT !.blocked = TRUE],
                 me[p].tries, me[p].target)
      BY Zenon, <1>10, Becomes
    <2> QED BY <1>10, <2>1 DEF Became, PolicyDeny, Considered, AtStep, Tallies
  <1>11. CASE RequestApproval(p)
    <2>1. Became(p, "asked", me[p].run, me[p].at, me[p].tally, me[p].tries, me[p].target)
      BY Zenon, <1>11, Becomes
    <2> QED BY <1>11, <2>1 DEF Became, RequestApproval, Considered, AtStep
  <1>12. CASE MarkAwaiting(p)
    <2>1. Became(p, "step", "AWAITING_APPROVAL", me[p].at + 1,
                 [me[p].tally EXCEPT !.awaiting = TRUE], me[p].tries, me[p].target)
      BY Zenon, <1>12, Becomes
    <2> QED BY <1>12, <2>1, Rows DEF Became, MarkAwaiting, Moved, Tallies, RunStatuses,
       TerminalStatuses
  <1>13. CASE Choose(p)
    <2>1. Became(p, "dispatch", me[p].run, me[p].at, me[p].tally, me[p].tries, me[p].target)
      BY Zenon, <1>13, Becomes
    <2> QED BY <1>13, <2>1 DEF Became, Choose, Considered, AtStep
  <1>14. CASE Dispatch(p)
    <2>1. Became(p, "invoke", me[p].run, me[p].at, me[p].tally, 0, me[p].target)
      BY Zenon, <1>14, Becomes
    <2> QED BY <1>14, <2>1 DEF Became, Dispatch
  <1>15. CASE RecordSuccess(p)
    <2>1. Became(p, AfterAction(p), me[p].run, me[p].at + 1,
                 [me[p].tally EXCEPT !.executed = @ + 1], me[p].tries, me[p].target)
      BY Zenon, <1>15, Becomes
    <2> QED BY <1>15, <2>1 DEF Became, RecordSuccess, AfterAction, Tallies
  <1>16. CASE RecordFailure(p)
    <2>1. Became(p, AfterAction(p), me[p].run, me[p].at + 1,
                 [me[p].tally EXCEPT !.executed = @ + 1, !.failures = @ + 1], me[p].tries,
                 me[p].target)
      BY Zenon, <1>16, Becomes
    <2> QED BY <1>16, <2>1 DEF Became, RecordFailure, AfterAction, Tallies
  <1>17. CASE Verify(p)
    <2>1. Became(p, "decide", IF me[p].tally.awaiting THEN me[p].run ELSE "VERIFYING", me[p].at,
                 me[p].tally, me[p].tries, me[p].target)
      BY Zenon, <1>17, Becomes
    <2> QED BY <1>17, <2>1, Rows DEF Became, Verify, Moved, RunStatuses, TerminalStatuses
  <1>18. CASE Decide(p)
    <2>1. Became(p, IF Asks(p) = me[p].run THEN "put" ELSE "advance", me[p].run, me[p].at,
                 me[p].tally, me[p].tries, Asks(p))
      BY Zenon, <1>18, Becomes
    <2> QED BY <1>18, <2>1 DEF Became, Decide, store
  <1>19. CASE Advance(p)
    <2>1. Became(p, IF me[p].run = "VERIFYING" THEN "put" ELSE "advance", Waypoint(me[p]),
                 me[p].at, me[p].tally, me[p].tries, me[p].target)
      BY Zenon, <1>19, Becomes
    <2>2. CASE me[p].run = "VERIFYING"
      <3>1. Waypoint(me[p]) = me[p].target
        BY <2>2 DEF Waypoint
      <3>2. pc'[p] = "put" /\ me'[p].run = me[p].target /\ me'[p].target = me[p].target
              /\ status' = me[p].target
        BY <1>19, <2>1, <2>2, <3>1 DEF Became, Advance, Moved
      <3>3. StatusMoves
        BY <1>19, <3>1, <3>2 DEF Advance, MayMove
      <3> QED BY <3>2, <3>3
    <2>3. CASE me[p].run # "VERIFYING"
      <3>1. Waypoint(me[p]) \in {"EXECUTING", "VERIFYING"}
        BY <2>3 DEF Waypoint
      <3>2. pc'[p] = "advance" /\ me'[p].run = Waypoint(me[p]) /\ status' = Waypoint(me[p])
        BY <1>19, <2>1, <2>3 DEF Became, Advance, Moved
      <3>3. StatusMoves
        BY <1>19, <3>1, <3>2 DEF Advance, MayMove, RunStatuses
      <3> QED BY <3>1, <3>2, <3>3 DEF TerminalStatuses
    <2> QED BY <2>2, <2>3
  <1>20. CASE ResumeApproved(p)
    <2>1. Became(p, "dispatch", me[p].run, me[p].at, me[p].tally, me[p].tries, me[p].target)
      BY Zenon, <1>20, Becomes
    <2> QED BY <1>20, <2>1 DEF Became, ResumeApproved, ResumeAt, store
  <1>21. CASE ResumeRejected(p)
    <2>1. Became(p, "resume", me[p].run, me[p].at + 1, [me[p].tally EXCEPT !.blocked = TRUE],
                 me[p].tries, me[p].target)
      BY Zenon, <1>21, Becomes
    <2> QED BY <1>21, <2>1 DEF Became, ResumeRejected, ResumeAt
  <1>22. CASE ResumePasses(p)
    <2>1. Became(p, "resume", me[p].run, me[p].at + 1, me[p].tally, me[p].tries, me[p].target)
      BY Zenon, <1>22, Becomes
    <2> QED BY <1>22, <2>1 DEF Became, ResumePasses, ResumeAt, store
  <1>23. CASE ResumeEnds(p)
    <2>1. Became(p, "decide", me[p].run, me[p].at, me[p].tally, me[p].tries, me[p].target)
      BY Zenon, <1>23, Becomes
    <2> QED BY <1>23, <2>1 DEF Became, ResumeEnds, store
  <1>24. ASSUME NEW r \in {"ok", "fail", "refused"}, Invoke(p, r) PROVE RunAt(p)' /\ StatusMoves
    <2>1. Became(p, IF r = "fail" /\ me[p].tries = 0 THEN "invoke" ELSE "record", me[p].run,
                 me[p].at, me[p].tally, me[p].tries + 1, me[p].target)
      BY Zenon, <1>24, Becomes
    <2> QED BY <1>24, <2>1 DEF Became, Invoke, store
  <1>25. CASE Refuse(p)
    <2>1. pc'[p] = "idle" /\ me'[p].mode = "none"
      BY Zenon, <1>2, <1>25, Becomes
    <2> QED BY <1>25, <2>1, Rows DEF Refuse, Moved, RunStatuses, TerminalStatuses
  <1>26. CASE Raise(p) \/ FailPlan(p) \/ Crash(p)
    <2>1. pc'[p] = "idle" /\ me'[p].mode = "none"
      BY Zenon, <1>2, <1>26, Becomes
    <2> QED BY <1>26, <2>1 DEF Raise, FailPlan, Crash, store
  <1>27. CASE PutFinal(p)
    <2>1. pc'[p] = "idle" /\ me'[p].mode = "none"
      BY Zenon, <1>2, <1>27, Becomes
    <2> QED BY <1>27, <2>1 DEF PutFinal
  <1>28. CASE CancelCommit(p)
    <2>1. pc'[p] = "idle" /\ me'[p].mode = "none"
      BY Zenon, <1>2, <1>28, Becomes
    <2> QED BY <1>28, <2>1 DEF CancelCommit, MayMove, Moved, RunStatuses, TerminalStatuses
  <1> QED
    BY Zenon, <1>3, <1>4, <1>5, <1>6, <1>7, <1>8, <1>9, <1>10, <1>11, <1>12, <1>13, <1>14,
       <1>15,
       <1>16, <1>17, <1>18, <1>19, <1>20, <1>21, <1>22, <1>23, <1>24, <1>25, <1>26, <1>27,
          <1>28 DEF Continue


LEMMA RunOfStarts ==
  ASSUME TypeInv, NEW p \in Procs, Submit(p) \/ Resume(p) \/ Cancel(p)
  PROVE  RunAt(p)' /\ (status' = status \/ (status = "ABSENT" /\ status' = "PENDING"))
  <1> USE DEF RunAt, FirstPassOnly, Acting, IsTerminal
  <1>1. CASE Submit(p)
    <2> DEFINE m == [NoCall EXCEPT !.mode = "run"]
    <2>1. pc'[p] = "submitted" /\ me'[p] = m
      BY <1>1, Effect DEF Submit
    <2>2. m.run = "PENDING" /\ ~m.tally.awaiting
      BY DEF NoCall, NoTally
    <2> HIDE DEF m
    <2> QED BY <1>1, <2>1, <2>2 DEF Submit, TerminalStatuses
  <1>2. CASE Resume(p)
    <2> DEFINE m == [NoCall EXCEPT !.run = status, !.mode = "resume", !.seen = approval]
    <2>1. pc'[p] = "resume" /\ me'[p] = m
      BY <1>2, Effect DEF Resume
    <2>2. m.run = status
      BY NoCallFits DEF Calls
    <2> HIDE DEF m
    <2> QED BY <1>2, <2>1, <2>2 DEF Resume, store
  <1>3. CASE Cancel(p)
    <2> DEFINE m == [NoCall EXCEPT !.run = status, !.mode = "cancel"]
    <2>1. pc'[p] = "cancel" /\ me'[p] = m
      BY <1>3, Effect DEF Cancel
    <2>2. m.run = status
      BY NoCallFits DEF Calls
    <2> HIDE DEF m
    <2> QED BY <1>3, <2>1, <2>2 DEF Cancel, CanCancel
  <1> QED BY <1>1, <1>2, <1>3

\* What surrounds the calls leaves their places and the status alone.
LEMMA WorldApart ==
  Operator \/ Decisions \/ UNCHANGED vars => UNCHANGED <<status, plan, step, ledger, pc, me,
    dispatched, calls>>
  BY DEF Operator, SetLevel, OpenIncident, CloseIncident, Decisions, Settle, SettleAction,
     CrashDecision,
     vars, store, world, history

\* A call starts, or a vote settles an approval, when no call is under way.
LEMMA StartsAlone ==
  ASSUME ~Interleaved
  PROVE  /\ \A p \in Procs : Submit(p) \/ Resume(p) \/ Cancel(p) =>
              (\A q \in Procs : pc[q] = "idle") /\ deciding = {} /\ UNCHANGED deciding
         /\ \A i, d : Settle(i, d) => \A q \in Procs : pc[q] = "idle"
  BY DEF Submit, Resume, Cancel, Settle, MayStart, world

\* A call or a decision that starts does so alone, and stays alone.
LEMMA AloneStep ==
  ASSUME ~Interleaved, TypeInv, Alone, [Next]_vars
  PROVE  Alone'
  <1>1. ASSUME NEW p \in Procs, Continue(p) \/ Crash(p) PROVE Alone'
    <2>1. \A q \in Procs : pc'[q] # "idle" => pc[q] # "idle"
      BY <1>1, Under, OthersStay
    <2> QED BY <1>1, <2>1, Writers DEF Alone
  <1>2. ASSUME NEW p \in Procs, Submit(p) \/ Resume(p) \/ Cancel(p) PROVE Alone'
    <2>1. \E at, m : Goes(p, at, m)
      BY <1>2 DEF Submit, Resume, Cancel
    <2>2. \A q \in Procs : q # p => pc'[q] = pc[q]
      BY <2>1, Effect
    <2> QED BY <1>2, <2>2, StartsAlone DEF Alone
  <1>3. ASSUME Operator \/ Decisions \/ UNCHANGED vars PROVE Alone'
    <2>1. deciding' \subseteq deciding \/ \A q \in Procs : pc[q] = "idle"
      BY <1>3, StartsAlone DEF Operator, SetLevel, OpenIncident, CloseIncident, Decisions,
         SettleAction,
         CrashDecision, vars, world
    <2> QED BY <1>3, <2>1, WorldApart DEF Alone
  <1> QED BY <1>1, <1>2, <1>3 DEF Next

\* While a call goes on, the others have not begun.
LEMMA OthersIdle ==
  ASSUME ~Interleaved, TypeInv, Alone,
         NEW p \in Procs, Continue(p) \/ Crash(p) \/ Submit(p) \/ Resume(p) \/ Cancel(p)
  PROVE  \A q \in Procs : q # p => pc[q] = "idle" /\ pc'[q] = "idle" /\ me'[q] = me[q]
  <1>1. CASE Continue(p) \/ Crash(p)
    BY <1>1, Under, OthersStay DEF Alone
  <1>2. CASE Submit(p) \/ Resume(p) \/ Cancel(p)
    <2>1. \E at, m : Goes(p, at, m)
      BY <1>2 DEF Submit, Resume, Cancel
    <2>2. \A q \in Procs : q # p => pc'[q] = pc[q] /\ me'[q] = me[q]
      BY <2>1, Effect
    <2> QED BY <1>2, <2>2, StartsAlone
  <1> QED BY <1>1, <1>2

LEMMA RunStep ==
  ASSUME ~Interleaved, TypeInv, RunInv, [Next]_vars
  PROVE  /\ RunInv'
         /\ StatusMoves \/ (status = "ABSENT" /\ status' = "PENDING")
  <1>1. Alone'
    BY AloneStep DEF RunInv
  <1>2. ASSUME NEW p \in Procs, Continue(p) \/ Crash(p) \/ Submit(p) \/ Resume(p) \/ Cancel(p)
        PROVE  /\ RunInv'
               /\ StatusMoves \/ (status = "ABSENT" /\ status' = "PENDING")
    <2>1. RunAt(p)' /\ (StatusMoves \/ (status = "ABSENT" /\ status' = "PENDING"))
      BY <1>2, RunOfCalls, RunOfStarts DEF StatusMoves
    <2>2. \A q \in Procs : q # p => pc'[q] = "idle"
      BY <1>2, OthersIdle DEF RunInv
    <2>3. \A q \in Procs : q # p => RunAt(q)'
      BY <2>2 DEF RunAt, Acting
    <2> QED BY <1>1, <2>1, <2>3 DEF RunInv
  <1>3. ASSUME Operator \/ Decisions \/ UNCHANGED vars
        PROVE  RunInv' /\ StatusMoves
    <2>1. UNCHANGED <<status, pc, me>>
      BY <1>3, WorldApart
    <2> QED BY <1>1, <2>1 DEF RunInv, RunAt, StatusMoves
  <1> QED BY <1>2, <1>3 DEF Next

LEMMA RunInit == Init => RunInv
  BY DEF Init, RunInv, Alone, RunAt, Acting



-----------------------------------------------------------------------------
\* A call under way knows the decisions, and has yet to start what it is coming to.
Fresh(p) ==
  /\ me[p].mode = "resume" => me[p].seen = approval
  /\ me[p].mode = "run" => \A i \in DOMAIN plan :
       /\ approval[i] \in {"ABSENT", "PENDING"}
       /\ i > me[p].at \/ (i = me[p].at /\ pc[p] \notin {"invoke", "record"}) => dispatched[i] = 0
  /\ pc[p] = "dispatch" => dispatched[me[p].at] = 0
  /\ pc[p] \in Acting => approval[me[p].at] = IF me[p].mode = "run" THEN "ABSENT" ELSE "APPROVED"
  /\ pc[p] \in {"invoke", "record"} => step[me[p].at] = "RUNNING" /\ dispatched[me[p].at] > 0

\* No step was started twice, and none that is still to be decided or due at all.
OpenUnstarted ==
  \A i \in DOMAIN plan :
    /\ dispatched[i] <= 1
    /\ approval[i] = "PENDING" \/ i \in deciding \/ action[i] = "APPROVED" => dispatched[i] = 0
    /\ step[i] = "DONE" => dispatched[i] > 0 /\ approval[i] \in {"ABSENT", "APPROVED"}

\* No step is started twice, and a call is still to come to what it may start.
StartsInv == OpenUnstarted /\ \A p \in Procs : Fresh(p)

LEMMA Records ==
  ASSUME TypeInv
  PROVE  /\ Len(plan) \in Nat /\ DOMAIN plan = 1 .. Len(plan) /\ DOMAIN step = 1 .. Len(plan)
         /\ DOMAIN action = 1 .. Len(plan) /\ DOMAIN approval = 1 .. Len(plan)
         /\ DOMAIN dispatched = 1 .. Len(plan) /\ \A i \in 1 .. Len(plan) : dispatched[i] \in Nat
         /\ Len(approval) = Len(plan)
  BY DEF TypeInv, TypeOK

LEMMA StartsOfCalls ==
  ASSUME TypeInv, GateInv, Alone, StartsInv, NEW p \in Procs, Continue(p) \/ Crash(p), ~MakePlan(p)
  PROVE  Fresh(p)' /\ OpenUnstarted'
  <1>1. /\ pc[p] # "idle" /\ me[p].at \in Nat \ {0} /\ Fits(pc[p], me[p]) /\ Fresh(p) /\ OpenUnstarted
        /\ deciding = {} /\ deciding' = {} /\ plan' = plan
    BY Under, UnderWay, Writers DEF StartsInv, Alone
  <1>2. /\ Len(plan) \in Nat /\ DOMAIN plan = 1 .. Len(plan) /\ DOMAIN step = 1 .. Len(plan)
        /\ DOMAIN action = 1 .. Len(plan) /\ DOMAIN approval = 1 .. Len(plan)
        /\ DOMAIN dispatched = 1 .. Len(plan) /\ \A i \in 1 .. Len(plan) : dispatched[i] \in Nat
        /\ Len(approval) = Len(plan)
    BY Records
  <1>3. NoCall.mode = "none"
    BY NoCallFits
  <1> USE <1>1, <1>2 DEF Fresh, OpenUnstarted, Fits, FirstPassOnly, Acting, Concluding
  <1>4. CASE BeginPlanning(p)
    <2>1. Became(p, "planning", "PLANNING", me[p].at, me[p].tally, me[p].tries, me[p].target)
      BY Zenon, <1>4, Becomes
    <2> QED BY <1>4, <2>1 DEF Became, BeginPlanning, history
  <1>5. CASE EnterExecuting(p)
    <2>1. Became(p, "step", "EXECUTING", me[p].at, me[p].tally, me[p].tries, me[p].target)
      BY Zenon, <1>5, Becomes
    <2> QED BY <1>5, <2>1 DEF Became, EnterExecuting, history
  <1>6. CASE Exhaust(p)
    <2>1. Became(p, "verify", me[p].run, me[p].at, [me[p].tally EXCEPT !.exhausted = TRUE],
                 me[p].tries, me[p].target)
      BY Zenon, <1>6, Becomes
    <2> QED BY <1>6, <2>1 DEF Became, Exhaust, store, history
  <1>7. CASE SkipReasoning(p)
    <2>1. Became(p, "step", me[p].run, me[p].at + 1, me[p].tally, me[p].tries, me[p].target)
      BY Zenon, <1>7, Becomes
    <2> QED BY <1>7, <2>1 DEF Became, SkipReasoning, AtStep, history
  <1>8. CASE RejectStep(p)
    <2>1. Became(p, "step", me[p].run, me[p].at + 1, [me[p].tally EXCEPT !.failures = @ + 1],
                 me[p].tries, me[p].target)
      BY Zenon, <1>8, Becomes
    <2> QED BY <1>8, <2>1 DEF Became, RejectStep, AtStep, history
  <1>9. CASE SafeModeBlock(p)
    <2>1. Became(p, "step", me[p].run, me[p].at + 1, [me[p].tally EXCEPT !.blocked = TRUE],
                 me[p].tries, me[p].target)
      BY Zenon, <1>9, Becomes
    <2> QED BY <1>9, <2>1 DEF Became, SafeModeBlock, AtStep, history
  <1>10. CASE PolicyDeny(p)
    <2>1. Became(p, "step", me[p].run, me[p].at + 1, [me[p].tally EXCEPT !.blocked = TRUE],
                 me[p].tries, me[p].target)
      BY Zenon, <1>10, Becomes
    <2> QED BY <1>10, <2>1 DEF Became, PolicyDeny, Considered, AtStep, history
  <1>11. CASE RequestApproval(p)
    <2>1. Became(p, "asked", me[p].run, me[p].at, me[p].tally, me[p].tries, me[p].target)
      BY Zenon, <1>11, Becomes
    <2> QED BY <1>11, <2>1, AskedOnce DEF Became, RequestApproval, Considered, AtStep, history
  <1>12. CASE MarkAwaiting(p)
    <2>1. Became(p, "step", "AWAITING_APPROVAL", me[p].at + 1,
                 [me[p].tally EXCEPT !.awaiting = TRUE], me[p].tries, me[p].target)
      BY Zenon, <1>12, Becomes
    <2> QED BY <1>12, <2>1 DEF Became, MarkAwaiting, history
  <1>13. CASE Choose(p)
    <2>1. Became(p, "dispatch", me[p].run, me[p].at, me[p].tally, me[p].tries, me[p].target)
      BY Zenon, <1>13, Becomes
    <2>2. me[p].at \in 1 .. Len(plan) /\ pc[p] = "step" /\ me[p].mode = "run"
      BY <1>13 DEF Choose, Considered, AtStep
    <2>3. approval[me[p].at] = "ABSENT"
      BY <2>2 DEF GateInv, AheadUnasked
    <2> QED BY <1>13, <2>1, <2>2, <2>3 DEF Became, Choose, history
  <1>14. CASE Dispatch(p)
    <2>1. Became(p, "invoke", me[p].run, me[p].at, me[p].tally, 0, me[p].target)
      BY Zenon, <1>14, Becomes
    <2> QED BY <1>14, <2>1 DEF Became, Dispatch
  <1>15. CASE RecordSuccess(p)
    <2>1. Became(p, AfterAction(p), me[p].run, me[p].at + 1,
                 [me[p].tally EXCEPT !.executed = @ + 1], me[p].tries, me[p].target)
      BY Zenon, <1>15, Becomes
    <2> QED BY <1>15, <2>1 DEF Became, RecordSuccess, AfterAction, history
  <1>16. CASE RecordFailure(p)
    <2>1. Became(p, AfterAction(p), me[p].run, me[p].at + 1,
                 [me[p].tally EXCEPT !.executed = @ + 1, !.failures = @ + 1], me[p].tries,
                 me[p].target)
      BY Zenon, <1>16, Becomes
    <2> QED BY <1>16, <2>1 DEF Became, RecordFailure, AfterAction, history
  <1>17. CASE Verify(p)
    <2>1. Became(p, "decide", IF me[p].tally.awaiting THEN me[p].run ELSE "VERIFYING", me[p].at,
                 me[p].tally, me[p].tries, me[p].target)
      BY Zenon, <1>17, Becomes
    <2> QED BY <1>17, <2>1 DEF Became, Verify, history
  <1>18. CASE Decide(p)
    <2>1. Became(p, IF Asks(p) = me[p].run THEN "put" ELSE "advance", me[p].run, me[p].at,
                 me[p].tally, me[p].tries, Asks(p))
      BY Zenon, <1>18, Becomes
    <2> QED BY <1>18, <2>1 DEF Became, Decide, store, history
  <1>19. CASE Advance(p)
    <2>1. Became(p, IF me[p].run = "VERIFYING" THEN "put" ELSE "advance", Waypoint(me[p]),
                 me[p].at, me[p].tally, me[p].tries, me[p].target)
      BY Zenon, <1>19, Becomes
    <2> QED BY <1>19, <2>1 DEF Became, Advance, history
  <1>20. CASE ResumeApproved(p)
    <2>1. Became(p, "dispatch", me[p].run, me[p].at, me[p].tally, me[p].tries, me[p].target)
      BY Zenon, <1>20, Becomes
    <2> QED BY <1>20, <2>1 DEF Became, ResumeApproved, ResumeAt, store, history
  <1>21. CASE ResumeRejected(p)
    <2>1. Became(p, "resume", me[p].run, me[p].at + 1, [me[p].tally EXCEPT !.blocked = TRUE],
                 me[p].tries, me[p].target)
      BY Zenon, <1>21, Becomes
    <2> QED BY <1>21, <2>1 DEF Became, ResumeRejected, ResumeAt, history
  <1>22. CASE ResumePasses(p)
    <2>1. Became(p, "resume", me[p].run, me[p].at + 1, me[p].tally, me[p].tries, me[p].target)
      BY Zenon, <1>22, Becomes
    <2> QED BY <1>22, <2>1 DEF Became, ResumePasses, ResumeAt, store, history
  <1>23. CASE ResumeEnds(p)
    <2>1. Became(p, "decide", me[p].run, me[p].at, me[p].tally, me[p].tries, me[p].target)
      BY Zenon, <1>23, Becomes
    <2> QED BY <1>23, <2>1 DEF Became, ResumeEnds, store, history
  <1>24. ASSUME NEW r \in {"ok", "fail", "refused"}, Invoke(p, r) PROVE Fresh(p)' /\ OpenUnstarted'
    <2>1. Became(p, IF r = "fail" /\ me[p].tries = 0 THEN "invoke" ELSE "record", me[p].run,
                 me[p].at, me[p].tally, me[p].tries + 1, me[p].target)
      BY Zenon, <1>24, Becomes
    <2> QED BY <1>24, <2>1 DEF Became, Invoke, store
  <1>25. CASE Refuse(p) \/ Raise(p) \/ FailPlan(p) \/ PutFinal(p) \/ CancelCommit(p) \/ Crash(p)
    <2>1. pc'[p] = "idle" /\ me'[p].mode = "none"
      BY Zenon, <1>3, <1>25, Becomes
    <2>2. UNCHANGED <<approval, action, step, dispatched>>
      BY <1>25 DEF Refuse, Raise, FailPlan, PutFinal, CancelCommit, Crash, store, history
    <2> QED BY <2>1, <2>2
  <1> QED
    BY Zenon, <1>4, <1>5, <1>6, <1>7, <1>8, <1>9, <1>10, <1>11, <1>12, <1>13, <1>14, <1>15,
       <1>16, <1>17, <1>18, <1>19, <1>20, <1>21, <1>22, <1>23, <1>24, <1>25 DEF Continue


LEMMA StartsOfPlan ==
  ASSUME TypeInv, TypeInv', Alone, StartsInv, NEW p \in Procs, MakePlan(p)
  PROVE  Fresh(p)' /\ OpenUnstarted'
  <1>1. pc[p] = "planning" /\ me[p].mode = "run" /\ deciding = {} /\ UNCHANGED deciding
    BY UnderWay DEF MakePlan, Fits, FirstPassOnly, Alone, world
  <1>2. pc'[p] = "planned" /\ me'[p] = me[p]
    BY Effect DEF MakePlan
  <1>3. \A i \in DOMAIN plan' : step'[i] = "PENDING" /\ action'[i] = "ABSENT"
          /\ approval'[i] = "ABSENT" /\ dispatched'[i] = 0
    BY DEF MakePlan
  <1> QED BY <1>1, <1>2, <1>3 DEF Fresh, OpenUnstarted, Acting

LEMMA StartsOfStarts ==
  ASSUME TypeInv, StartsInv, NEW p \in Procs, Submit(p) \/ Resume(p) \/ Cancel(p)
  PROVE  Fresh(p)' /\ OpenUnstarted'
  <1>1. /\ DOMAIN step = DOMAIN plan /\ DOMAIN action = DOMAIN plan /\ OpenUnstarted
    BY TypeLengths DEF StartsInv
  <1>2. UNCHANGED <<plan, approval, dispatched, deciding>>
    BY DEF Submit, Resume, Cancel, store, world, history
  <1>3. \A i \in DOMAIN plan : /\ step'[i] = "DONE" => step[i] = "DONE"
                               /\ action'[i] = "APPROVED" => action[i] = "APPROVED"
    <2>1. Submit(p) \/ Resume(p) => UNCHANGED <<step, action>>
      BY DEF Submit, Resume, store
    <2>2. Cancel(p) =>
            /\ \A i \in DOMAIN step :
                 step'[i] = IF step[i] = "RUNNING" THEN "BLOCKED" ELSE step[i]
            /\ \A i \in DOMAIN action :
                 action'[i] = IF action[i] = "EXECUTING" THEN "SKIPPED" ELSE action[i]
      BY DEF Cancel
    <2> QED BY <1>1, <2>1, <2>2
  <1>4. OpenUnstarted'
    BY <1>1, <1>2, <1>3 DEF OpenUnstarted
  <1>5. CASE Submit(p)
    <2>1. pc'[p] = "submitted" /\ plan = <<>>
      BY <1>5, Effect DEF Submit, TypeInv, OneFirstPass
    <2>2. me'[p] = [NoCall EXCEPT !.mode = "run"]
      BY <1>5, Effect DEF Submit
    <2>3. me'[p].mode = "run"
      BY <2>2, NoCallFits DEF Calls
    <2>4. DOMAIN plan = {}
      BY <2>1
    <2> QED BY <1>2, <1>4, <2>1, <2>3, <2>4 DEF Fresh, Acting
  <1>6. CASE Resume(p)
    <2>1. pc'[p] = "resume" /\ me'[p] = [NoCall EXCEPT !.run = status, !.mode = "resume",
            !.seen = approval]
      BY <1>6, Effect DEF Resume
    <2>2. me'[p].mode = "resume" /\ me'[p].seen = approval
      BY <2>1, NoCallFits DEF Calls
    <2> QED BY <1>2, <1>4, <2>1, <2>2 DEF Fresh, Acting
  <1>7. CASE Cancel(p)
    <2>1. pc'[p] = "cancel" /\ me'[p] = [NoCall EXCEPT !.run = status, !.mode = "cancel"]
      BY <1>7, Effect DEF Cancel
    <2>2. me'[p].mode = "cancel"
      BY <2>1, NoCallFits DEF Calls
    <2> QED BY <1>4, <2>1, <2>2 DEF Fresh, Acting
  <1> QED BY <1>5, <1>6, <1>7

LEMMA StartsOfWorld ==
  ASSUME ~Interleaved, TypeInv, GateInv, StartsInv, Operator \/ Decisions \/ UNCHANGED vars
  PROVE  StartsInv'
  <1>1. UNCHANGED <<plan, step, pc, me, dispatched>>
    BY WorldApart
  <1>2. OpenUnstarted /\ \A q \in Procs : Fresh(q)
    BY DEF StartsInv
  <1>3. CASE UNCHANGED <<approval, action, deciding>>
    BY <1>1, <1>2, <1>3 DEF StartsInv, OpenUnstarted, Fresh
  <1>4. ASSUME NEW i \in DOMAIN approval, SettleAction(i) \/ CrashDecision(i) PROVE StartsInv'
    <2>1. UNCHANGED approval /\ deciding' \subseteq deciding /\ i \in deciding
      BY <1>4 DEF SettleAction, CrashDecision, store
    <2>2. \A j \in DOMAIN plan : action'[j] = action[j] \/ j \in deciding
      BY <1>4, TypeLengths DEF SettleAction, CrashDecision, store
    <2>3. OpenUnstarted'
      BY <1>1, <1>2, <2>1, <2>2 DEF OpenUnstarted
    <2> QED BY <1>1, <1>2, <2>1, <2>3 DEF StartsInv, Fresh
  <1>5. ASSUME NEW i \in DOMAIN approval, NEW decision \in {"APPROVED", "REJECTED"}, Settle(i, decision)
        PROVE  StartsInv'
    <2>1. /\ approval[i] = "PENDING" /\ i \in DOMAIN plan /\ UNCHANGED action
          /\ approval'[i] = decision /\ \A j \in DOMAIN plan : j # i => approval'[j] = approval[j]
          /\ deciding' = deciding \cup {i}
      BY <1>5, TypeLengths DEF Settle
    <2>2. dispatched[i] = 0 /\ step[i] # "DONE"
      BY <1>2, <2>1 DEF OpenUnstarted
    <2>3. OpenUnstarted'
      BY <1>1, <1>2, <2>1, <2>2 DEF OpenUnstarted
    <2>4. ASSUME NEW q \in Procs PROVE Fresh(q)'
      <3>1. pc'[q] = "idle" /\ me'[q].mode = "none"
        BY <1>1, <1>5, StartsAlone DEF TypeInv, Fits
      <3> QED BY <3>1 DEF Fresh, Acting
    <2> QED BY <2>3, <2>4 DEF StartsInv
  <1> QED
    BY <1>3, <1>4, <1>5 DEF Operator, SetLevel, OpenIncident, CloseIncident, Decisions, vars,
       store, world

LEMMA StartsStep ==
  ASSUME ~Interleaved, TypeInv, TypeInv', GateInv, Alone, StartsInv, [Next]_vars
  PROVE  StartsInv'
  <1>1. ASSUME NEW p \in Procs, Continue(p) \/ Crash(p) \/ Submit(p) \/ Resume(p) \/ Cancel(p)
        PROVE  StartsInv'
    <2>1. Fresh(p)' /\ OpenUnstarted'
      BY <1>1, StartsOfCalls, StartsOfPlan, StartsOfStarts
    <2>2. \A q \in Procs : q # p => pc'[q] = "idle"
      BY <1>1, OthersIdle
    <2>3. \A q \in Procs : q # p => Fresh(q)'
      BY <2>2 DEF Fresh, TypeInv, Fits, Acting
    <2> QED BY <2>1, <2>3 DEF StartsInv
  <1>2. ASSUME Operator \/ Decisions \/ UNCHANGED vars PROVE StartsInv'
    BY <1>2, StartsOfWorld
  <1> QED BY <1>1, <1>2 DEF Next

LEMMA StartsInit == Init => StartsInv
  BY NoCallFits DEF Init, StartsInv, OpenUnstarted, Fresh, Acting


-----------------------------------------------------------------------------
\* How many steps were started, and how often the tools were called for it: at most twice.
HowMany == Cardinality({i \in DOMAIN plan : dispatched[i] > 0})

\* Two tool calls for each step started, less the attempts a call still has.
CallsInv ==
  /\ calls <= 2 * HowMany
  /\ \A p \in Procs :
       pc[p] = "invoke" => me[p].tries \in {0, 1} /\ calls + 2 <= 2 * HowMany + me[p].tries

LEMMA HowManyNat == TypeInv => HowMany \in Nat
  <1> SUFFICES ASSUME TypeInv PROVE HowMany \in Nat
    OBVIOUS
  <1>1. {i \in DOMAIN plan : dispatched[i] > 0} \in SUBSET (1 .. Len(plan)) /\ Len(plan) \in Nat
    BY Records
  <1> QED BY <1>1, Sizes DEF HowMany

\* A step that is started for the first time counts.
LEMMA DispatchCounts ==
  ASSUME TypeInv, StartsInv, NEW p \in Procs, Dispatch(p)
  PROVE  HowMany' = HowMany + 1
  <1> DEFINE S == {i \in DOMAIN plan : dispatched[i] > 0}
             at == me[p].at
  <1>1. pc[p] = "dispatch" /\ me[p].at \in Nat \ {0} /\ me[p].at <= Len(plan)
    BY UnderWay DEF Dispatch, Fits, Acting
  <1>2. at \in DOMAIN plan /\ dispatched[at] = 0 /\ at \in DOMAIN dispatched
    BY <1>1, Records DEF StartsInv, Fresh
  <1>3. plan' = plan /\ dispatched' = [dispatched EXCEPT ![at] = @ + 1]
    BY DEF Dispatch
  <1>4. S' = S \cup {at} /\ at \notin S
    BY <1>2, <1>3, Records
  <1>5. S \in SUBSET (1 .. Len(plan)) /\ Len(plan) \in Nat
    BY Records
  <1>6. IsFiniteSet(S) /\ Cardinality(S) \in Nat
    BY <1>5, Sizes
  <1>7. Cardinality(S') = Cardinality(S) + 1
    BY <1>4, <1>6, FS_AddElement
  <1> QED BY <1>7 DEF HowMany

\* Only a start, and a failed first attempt, is followed by an attempt.
LEMMA InvokedNext ==
  ASSUME TypeInv, NEW p \in Procs, Continue(p) \/ Crash(p), ~Dispatch(p),
         \A r \in {"ok", "fail", "refused"} : ~Invoke(p, r)
  PROVE  pc'[p] # "invoke"
  <1>1. CASE Refuse(p) \/ Raise(p) \/ FailPlan(p) \/ PutFinal(p) \/ CancelCommit(p) \/ Crash(p)
    <2>1. pc'[p] = "idle"
      BY Zenon, <1>1, Becomes
    <2> QED BY <2>1
  <1>2. ASSUME BeginPlanning(p) \/ MakePlan(p) \/ EnterExecuting(p) \/ Exhaust(p)
                 \/ SkipReasoning(p) \/ RejectStep(p)
                \/ SafeModeBlock(p) \/ PolicyDeny(p) \/ RequestApproval(p) \/ MarkAwaiting(p)
                     \/ Choose(p)
        PROVE  pc'[p] \in {"planning", "planned", "step", "verify", "asked", "dispatch"}
    BY Zenon, <1>2, Becomes DEF Became
  <1>3. ASSUME RecordSuccess(p) \/ RecordFailure(p) \/ Verify(p) \/ Decide(p) \/ Advance(p)
                \/ ResumeApproved(p) \/ ResumeRejected(p) \/ ResumePasses(p) \/ ResumeEnds(p)
        PROVE  pc'[p] \in {"step", "resume", "decide", "put", "advance", "dispatch"}
    BY Zenon, <1>3, Becomes DEF Became, AfterAction
  <1> QED BY <1>1, <1>2, <1>3 DEF Continue

LEMMA CallsOfCalls ==
  ASSUME TypeInv, StartsInv, CallsInv, NEW p \in Procs, Continue(p) \/ Crash(p), ~MakePlan(p)
  PROVE  /\ calls' <= 2 * HowMany'
         /\ pc'[p] = "invoke" => me'[p].tries \in {0, 1} /\ calls' + 2 <= 2 * HowMany' + me'[p].tries
  <1>1. HowMany \in Nat /\ calls \in Nat /\ me[p].tries \in Nat
    <2>1. me[p] \in Calls
      BY DEF TypeInv, TypeOK
    <2>2. me[p].tries \in Nat
      BY <2>1 DEF Calls
    <2> QED BY <2>2, HowManyNat DEF TypeInv, TypeOK
  <1>2. CASE Dispatch(p)
    <2>1. Became(p, "invoke", me[p].run, me[p].at, me[p].tally, 0, me[p].target)
      BY Zenon, <1>2, Becomes
    <2>2. HowMany' = HowMany + 1 /\ calls' = calls
      BY <1>2, DispatchCounts DEF Dispatch
    <2> QED BY <1>1, <2>1, <2>2 DEF CallsInv, Became
  <1>3. ASSUME NEW r \in {"ok", "fail", "refused"}, Invoke(p, r)
        PROVE  /\ calls' <= 2 * HowMany'
               /\ pc'[p] = "invoke" => me'[p].tries \in {0, 1}
                    /\ calls' + 2 <= 2 * HowMany' + me'[p].tries
    <2>1. Became(p, IF r = "fail" /\ me[p].tries = 0 THEN "invoke" ELSE "record", me[p].run,
                 me[p].at, me[p].tally, me[p].tries + 1, me[p].target)
      BY Zenon, <1>3, Becomes
    <2>2. HowMany' = HowMany /\ calls' = calls + 1 /\ pc[p] = "invoke"
      BY <1>3 DEF Invoke, HowMany, store
    <2>3. me[p].tries \in {0, 1} /\ calls + 2 <= 2 * HowMany + me[p].tries
      BY <2>2 DEF CallsInv
    <2>4. calls' <= 2 * HowMany'
      BY <1>1, <2>2, <2>3
    <2>5. CASE pc'[p] = "invoke"
      <3>1. me[p].tries = 0 /\ me'[p].tries = 1
        BY <1>1, <2>1, <2>5 DEF Became
      <3> QED BY <1>1, <2>2, <2>3, <2>4, <3>1
    <2> QED BY <2>4, <2>5
  <1>4. CASE ~Dispatch(p) /\ \A r \in {"ok", "fail", "refused"} : ~Invoke(p, r)
    <2>1. UNCHANGED calls
      BY Zenon, <1>4 DEF Continue, MakePlan, Refuse, Raise, FailPlan, PutFinal, CancelCommit, Crash,
         BeginPlanning, EnterExecuting, Exhaust, SkipReasoning, RejectStep, SafeModeBlock,
         MarkAwaiting, RecordFailure, ResumeApproved, ResumeRejected, ResumePasses, ResumeEnds,
         PolicyDeny, RequestApproval, Choose, RecordSuccess, Verify, Decide, Advance, AtStep,
         Considered, ResumeAt, history
    <2>2. UNCHANGED <<plan, dispatched>>
      BY <1>4, Writers
    <2>3. HowMany' = HowMany
      BY <2>2 DEF HowMany
    <2>4. pc'[p] # "invoke"
      BY <1>4, InvokedNext
    <2> QED BY <2>1, <2>3, <2>4 DEF CallsInv
  <1> QED BY <1>2, <1>3, <1>4


LEMMA CallsStep ==
  ASSUME ~Interleaved, TypeInv, Alone, StartsInv, CallsInv, [Next]_vars
  PROVE  CallsInv'
  <1>1. ASSUME NEW p \in Procs, Continue(p) \/ Crash(p) \/ Submit(p) \/ Resume(p) \/ Cancel(p)
        PROVE  CallsInv'
    <2>1. \A q \in Procs : q # p => pc'[q] = "idle"
      BY <1>1, OthersIdle
    <2>2. /\ calls' <= 2 * HowMany'
          /\ pc'[p] = "invoke" => me'[p].tries \in {0, 1} /\ calls' + 2 <= 2 * HowMany' + me'[p].tries
      <3>1. CASE MakePlan(p)
        <4>1. plan = <<>> /\ DOMAIN plan = {}
          <5>1. plan = <<>>
            BY <3>1, UnderWay DEF MakePlan, Fits
          <5> QED BY <5>1
        <4>2. HowMany = 0
          BY <4>1, FS_EmptySet DEF HowMany
        <4>3. \A i \in DOMAIN plan' : ~(dispatched'[i] > 0)
          BY <3>1 DEF MakePlan
        <4>4. HowMany' = 0
          BY <4>3, FS_EmptySet DEF HowMany
        <4>5. pc'[p] = "planned" /\ UNCHANGED calls
          BY <3>1, Effect DEF MakePlan
        <4> QED BY <4>2, <4>4, <4>5 DEF CallsInv
      <3>2. CASE ~MakePlan(p) /\ (Continue(p) \/ Crash(p))
        BY <3>2, CallsOfCalls
      <3>3. CASE Submit(p) \/ Resume(p) \/ Cancel(p)
        <4>1. UNCHANGED <<plan, dispatched, calls>> /\ \E at, m : Goes(p, at, m) /\ at # "invoke"
          BY <3>3 DEF Submit, Resume, Cancel, store, history
        <4>2. pc'[p] # "invoke" /\ HowMany' = HowMany
          BY <4>1, Effect DEF HowMany
        <4> QED BY <4>1, <4>2 DEF CallsInv
      <3> QED BY <1>1, <3>1, <3>2, <3>3
    <2> QED BY <2>1, <2>2 DEF CallsInv
  <1>2. ASSUME Operator \/ Decisions \/ UNCHANGED vars PROVE CallsInv'
    BY <1>2, WorldApart DEF CallsInv, HowMany
  <1> QED BY <1>1, <1>2 DEF Next

LEMMA CallsInit == Init => CallsInv
  <1> SUFFICES ASSUME Init PROVE CallsInv
    OBVIOUS
  <1>1. HowMany = 0
    BY FS_EmptySet DEF Init, HowMany
  <1> QED BY <1>1 DEF Init, CallsInv

\* The inductive invariant of one call or decision at a time.
TurnsInv == Inv /\ ChargeInv /\ RunInv /\ StartsInv /\ CallsInv

LEMMA TurnsInit == Init => TurnsInv
  BY InvInit, ChargeInit, RunInit, StartsInit, CallsInit DEF TurnsInv

LEMMA TurnsStep ==
  ASSUME ~Interleaved
  PROVE  TurnsInv /\ [Next]_vars => TurnsInv'
  <1> SUFFICES ASSUME TurnsInv, [Next]_vars PROVE TurnsInv'
    OBVIOUS
  <1>1. TypeInv /\ GateInv /\ TypeInv' /\ Inv' /\ Alone
    BY InvStep DEF TurnsInv, Inv, RunInv
  <1>2. ChargeInv' /\ RunInv'
    BY <1>1, ChargeStep, RunStep DEF TurnsInv
  <1>3. StartsInv' /\ CallsInv'
    BY <1>1, StartsStep, CallsStep DEF TurnsInv
  <1> QED BY <1>1, <1>2, <1>3 DEF TurnsInv

\* The inductive invariant of one call or decision at a time: what a call has read is
\* still what the store says, until it ends or its process dies.
THEOREM Turns ==
  ASSUME ~Interleaved
  PROVE  Spec => []TurnsInv
  BY TurnsInit, TurnsStep, PTL DEF Spec

\* "a retried resume does not repeat a side effect": with one call or decision at a time no
\* step is started twice, the first pass, every resume and every death together.
THEOREM NoRepeats ==
  ASSUME ~Interleaved
  PROVE  Spec => []StartedOnce
  <1>1. TurnsInv => StartedOnce
    BY DEF TurnsInv, StartsInv, OpenUnstarted, StartedOnce
  <1> QED BY <1>1, Turns, PTL

\* The budgets bound what a run starts, and what it starts bounds its tool calls.
THEOREM Budgets ==
  ASSUME ~Interleaved
  PROVE  Spec => []BudgetHolds
  <1>1. TurnsInv => BudgetHolds
    BY ChargesCover DEF TurnsInv, Inv, CallsInv, HowMany, BudgetHolds
  <1> QED BY <1>1, Turns, PTL

\* With one call or decision at a time the persisted status of a run behaves as the state
\* machine promises, deaths included: each write of it is a row of the table, whichever
\* call makes it and wherever an earlier one was cut off.
THEOREM KeepsPromise ==
  ASSUME ~Interleaved
  PROVE  Spec => Lifecycle
  <1>1. Init => Promise!Init
    BY DEF Init, Promise!Init
  <1>2. ASSUME TypeInv, RunInv, [Next]_vars PROVE [Promise!Next]_status
    <2>1. StatusMoves \/ (status = "ABSENT" /\ status' = "PENDING")
      BY <1>2, RunStep
    <2>2. StatusMoves => [Promise!Next]_status
      BY DEF StatusMoves, Promise!Next, Promise!Move, AllowedTransition,
         Promise!AllowedTransition,
         Transitions, Promise!Transitions, RunStatuses, Promise!RunStatuses,
         TerminalStatuses, Promise!TerminalStatuses
    <2> QED BY <2>1, <2>2 DEF Promise!Next, Promise!Create
  <1>3. TurnsInv => TypeInv /\ RunInv
    BY DEF TurnsInv, Inv
  <1> QED BY <1>1, <1>2, <1>3, Turns, PTL DEF Spec, Lifecycle, Promise!Spec


-----------------------------------------------------------------------------
\* What the tally of a call stands for, and how far it has looked.
Counted(p) ==
  /\ pc[p] # "idle" /\ me[p].tally.executed > 0 /\ me[p].tally.failures = 0 =>
       \E i \in DOMAIN plan : step[i] = "DONE" /\ (me[p].mode = "resume" => approval[i] = "APPROVED")
  /\ me[p].mode = "resume" => \A i \in DOMAIN plan : i < me[p].at =>
       /\ approval[i] = "REJECTED" => me[p].tally.blocked
       /\ crashes = 0 /\ approval[i] = "APPROVED" => step[i] \in {"DONE", "FAILED"}
  /\ me[p].mode = "run" /\ me[p].tally.failures = 0 /\ ~me[p].tally.blocked =>
       \A i \in DOMAIN plan : i < me[p].at => approval[i] # "ABSENT" \/ step[i] \in {"DONE", "SKIPPED"}
  /\ pc[p] = "verify" => me[p].tally.exhausted
  /\ pc[p] \in Concluding /\ ~me[p].tally.exhausted => me[p].at > Len(plan)
  /\ pc[p] = "asked" => approval[me[p].at] = "PENDING"
  /\ pc[p] \in {"submitted", "planning"} => me[p].at = 1

\* Unless a process has died, an approved step is done, failed, or on its way.
ApprovedIsDue ==
  crashes = 0 => \A i \in DOMAIN plan :
    approval[i] = "APPROVED" =>
      \/ i \in deciding \/ action[i] = "APPROVED" \/ step[i] \in {"DONE", "FAILED"}
      \/ \E p \in Procs : pc[p] \in {"invoke", "record"} /\ me[p].at = i

\* What a SUCCESS stands for.
Earned ==
  /\ FirstPassHonest
  /\ ledger.evidence /\ ~ledger.unbacked /\ ~ledger.critical
  /\ ledger.checks \subseteq {"PASS"}
  /\ \E i \in DOMAIN plan : step[i] = "DONE"
  /\ \A i \in DOMAIN plan : approval[i] \in {"ABSENT", "APPROVED"}
  /\ crashes = 0 => \A i \in DOMAIN plan : approval[i] = "APPROVED" => step[i] \in {"DONE", "FAILED"}

\* Who asks for SUCCESS, and what is stored as SUCCESS, has earned it.
VerdictInv ==
  /\ ApprovedIsDue
  /\ \A p \in Procs : Counted(p)
  /\ \A p \in Procs : pc[p] \in {"advance", "put"} /\ me[p].target = "SUCCESS" => Earned
  /\ status = "SUCCESS" => Earned

\* A tally and its numbers.
LEMMA TallyOfCall ==
  ASSUME TypeInv, NEW p \in Procs
  PROVE  /\ me[p].tally.executed \in Nat /\ me[p].tally.failures \in Nat
         /\ me[p].tally \in Tallies
  <1>1. me[p] \in Calls
    BY DEF TypeInv, TypeOK
  <1>2. me[p].tally \in Tallies
    BY <1>1 DEF Calls
  <1> QED BY <1>2 DEF Tallies

LEMMA CountsOfCalls ==
  ASSUME TypeInv, GateInv, Alone, StartsInv, VerdictInv, NEW p \in Procs, Continue(p) \/ Crash(p),
         ~MakePlan(p)
  PROVE  Counted(p)' /\ ApprovedIsDue'
  <1>1. /\ pc[p] # "idle" /\ me[p].at \in Nat \ {0} /\ Fits(pc[p], me[p]) /\ Fresh(p) /\ OpenUnstarted
        /\ deciding = {} /\ deciding' = {} /\ plan' = plan /\ Counted(p) /\ ApprovedIsDue
        /\ \A q \in Procs : q # p => pc[q] = "idle" /\ pc'[q] = "idle"
    BY Under, UnderWay, Writers, OthersStay DEF StartsInv, Alone, VerdictInv
  <1>2. /\ Len(plan) \in Nat /\ DOMAIN plan = 1 .. Len(plan) /\ DOMAIN step = 1 .. Len(plan)
        /\ DOMAIN action = 1 .. Len(plan) /\ DOMAIN approval = 1 .. Len(plan)
        /\ DOMAIN dispatched = 1 .. Len(plan) /\ \A i \in 1 .. Len(plan) : dispatched[i] \in Nat
        /\ Len(approval) = Len(plan)
    BY Records
  <1>3. /\ me[p].tally.executed \in Nat /\ me[p].tally.failures \in Nat /\ me[p].tally \in Tallies
    BY TallyOfCall
  <1>4. me[p].mode = "run" => \A i \in DOMAIN plan : i > me[p].at \/ (i = me[p].at
          /\ pc[p] # "asked") => approval[i] = "ABSENT"
    BY DEF GateInv, AheadUnasked
  <1>0. \A r \in {"ok", "fail", "refused"} :
          Invoke(p, r) => Became(p, IF r = "fail" /\ me[p].tries = 0 THEN "invoke" ELSE "record",
                                 me[p].run, me[p].at, me[p].tally, me[p].tries + 1, me[p].target)
    BY Zenon, Becomes
  <1> USE <1>1, <1>2, <1>3, <1>4 DEF Counted, ApprovedIsDue, Fresh, OpenUnstarted, Fits,
     FirstPassOnly, Acting, Concluding
  <1>5. CASE BeginPlanning(p)
    <2>1. Became(p, "planning", "PLANNING", me[p].at, me[p].tally, me[p].tries, me[p].target)
      BY Zenon, <1>5, Becomes
    <2>2. Counted(p)'
      BY <1>5, <2>1 DEF Became, BeginPlanning, world
    <2>3. ApprovedIsDue'
      BY <1>5, <2>1 DEF Became, BeginPlanning, world
    <2> QED BY <2>2, <2>3
  <1>6. CASE EnterExecuting(p)
    <2>1. Became(p, "step", "EXECUTING", me[p].at, me[p].tally, me[p].tries, me[p].target)
      BY Zenon, <1>6, Becomes
    <2>2. Counted(p)'
      BY <1>6, <2>1 DEF Became, EnterExecuting, world
    <2>3. ApprovedIsDue'
      BY <1>6, <2>1 DEF Became, EnterExecuting, world
    <2> QED BY <2>2, <2>3
  <1>7. CASE Exhaust(p)
    <2>1. Became(p, "verify", me[p].run, me[p].at, [me[p].tally EXCEPT !.exhausted = TRUE],
                 me[p].tries, me[p].target)
      BY Zenon, <1>7, Becomes
    <2>2. Counted(p)'
      BY <1>7, <2>1 DEF Became, Exhaust, Tallies, store, world
    <2>3. ApprovedIsDue'
      BY <1>7, <2>1 DEF Became, Exhaust, Tallies, store, world
    <2> QED BY <2>2, <2>3
  <1>8. CASE SkipReasoning(p)
    <2>1. Became(p, "step", me[p].run, me[p].at + 1, me[p].tally, me[p].tries, me[p].target)
      BY Zenon, <1>8, Becomes
    <2>2. Counted(p)'
      BY <1>8, <2>1 DEF Became, SkipReasoning, AtStep, world
    <2>3. ApprovedIsDue'
      BY <1>8, <2>1 DEF Became, SkipReasoning, AtStep, world
    <2> QED BY <2>2, <2>3
  <1>9. CASE RejectStep(p)
    <2>1. Became(p, "step", me[p].run, me[p].at + 1, [me[p].tally EXCEPT !.failures = @ + 1],
                 me[p].tries, me[p].target)
      BY Zenon, <1>9, Becomes
    <2>2. Counted(p)'
      BY <1>9, <2>1 DEF Became, RejectStep, AtStep, Tallies, world
    <2>3. ApprovedIsDue'
      BY <1>9, <2>1 DEF Became, RejectStep, AtStep, Tallies, world
    <2> QED BY <2>2, <2>3
  <1>10. CASE SafeModeBlock(p)
    <2>1. Became(p, "step", me[p].run, me[p].at + 1, [me[p].tally EXCEPT !.blocked = TRUE],
                 me[p].tries, me[p].target)
      BY Zenon, <1>10, Becomes
    <2>2. Counted(p)'
      BY <1>10, <2>1 DEF Became, SafeModeBlock, AtStep, Tallies, world
    <2>3. ApprovedIsDue'
      BY <1>10, <2>1 DEF Became, SafeModeBlock, AtStep, Tallies, world
    <2> QED BY <2>2, <2>3
  <1>11. CASE PolicyDeny(p)
    <2>1. Became(p, "step", me[p].run, me[p].at + 1, [me[p].tally EXCEPT !.blocked = TRUE],
                 me[p].tries, me[p].target)
      BY Zenon, <1>11, Becomes
    <2>2. Counted(p)'
      BY <1>11, <2>1 DEF Became, PolicyDeny, Considered, AtStep, Tallies, world
    <2>3. ApprovedIsDue'
      BY <1>11, <2>1 DEF Became, PolicyDeny, Considered, AtStep, Tallies, world
    <2> QED BY <2>2, <2>3
  <1>12. CASE RequestApproval(p)
    <2>1. Became(p, "asked", me[p].run, me[p].at, me[p].tally, me[p].tries, me[p].target)
      BY Zenon, <1>12, Becomes
    <2>2. Counted(p)'
      BY <1>12, <2>1, AskedOnce DEF Became, RequestApproval, Considered, AtStep, world
    <2>3. ApprovedIsDue'
      BY <1>12, <2>1, AskedOnce DEF Became, RequestApproval, Considered, AtStep, world
    <2> QED BY <2>2, <2>3
  <1>13. CASE MarkAwaiting(p)
    <2>1. Became(p, "step", "AWAITING_APPROVAL", me[p].at + 1,
                 [me[p].tally EXCEPT !.awaiting = TRUE], me[p].tries, me[p].target)
      BY Zenon, <1>13, Becomes
    <2>2. Counted(p)'
      BY <1>13, <2>1 DEF Became, MarkAwaiting, Tallies, world
    <2>3. ApprovedIsDue'
      BY <1>13, <2>1 DEF Became, MarkAwaiting, Tallies, world
    <2> QED BY <2>2, <2>3
  <1>14. CASE Choose(p)
    <2>1. Became(p, "dispatch", me[p].run, me[p].at, me[p].tally, me[p].tries, me[p].target)
      BY Zenon, <1>14, Becomes
    <2>2. Counted(p)'
      BY <1>14, <2>1 DEF Became, Choose, Considered, AtStep, world
    <2>3. ApprovedIsDue'
      BY <1>14, <2>1 DEF Became, Choose, Considered, AtStep, world
    <2> QED BY <2>2, <2>3
  <1>15. CASE Dispatch(p)
    <2>1. Became(p, "invoke", me[p].run, me[p].at, me[p].tally, 0, me[p].target)
      BY Zenon, <1>15, Becomes
    <2>2. /\ pc[p] = "dispatch" /\ pc'[p] = "invoke" /\ me'[p].at = me[p].at
          /\ UNCHANGED <<approval, crashes>>
          /\ step' = [step EXCEPT ![me[p].at] = "RUNNING"]
          /\ action' = [action EXCEPT ![me[p].at] = "EXECUTING"]
      BY <1>15, <2>1 DEF Became, Dispatch, world
    <2>3. Counted(p)'
      BY <2>1, <2>2 DEF Became
    <2>4. ASSUME crashes' = 0, NEW i \in DOMAIN plan, approval'[i] = "APPROVED"
          PROVE  \/ action'[i] = "APPROVED" \/ step'[i] \in {"DONE", "FAILED"}
                 \/ pc'[p] \in {"invoke", "record"} /\ me'[p].at = i
      <3>1. \/ action[i] = "APPROVED" \/ step[i] \in {"DONE", "FAILED"}
            \/ \E q \in Procs : pc[q] \in {"invoke", "record"} /\ me[q].at = i
        BY <2>2, <2>4
      <3>2. ~\E q \in Procs : pc[q] \in {"invoke", "record"}
        BY <2>2
      <3> QED BY <2>2, <3>1, <3>2
    <2>5. ApprovedIsDue'
      BY <2>4
    <2> QED BY <2>3, <2>5
  <1>16. CASE RecordSuccess(p)
    <2>1. Became(p, AfterAction(p), me[p].run, me[p].at + 1,
                 [me[p].tally EXCEPT !.executed = @ + 1], me[p].tries, me[p].target)
      BY Zenon, <1>16, Becomes
    <2>2. /\ pc[p] = "record" /\ UNCHANGED <<approval, crashes>>
          /\ step' = [step EXCEPT ![me[p].at] = "DONE"]
          /\ action' = [action EXCEPT ![me[p].at] = "EXECUTED"]
      BY <1>16 DEF RecordSuccess, world
    <2>3. /\ pc'[p] = AfterAction(p) /\ me'[p].mode = me[p].mode /\ me'[p].at = me[p].at + 1
          /\ me'[p].tally = [me[p].tally EXCEPT !.executed = @ + 1]
      BY <2>1 DEF Became
    <2>4. me'[p].tally.failures = me[p].tally.failures /\ me'[p].tally.blocked = me[p].tally.blocked
      BY <2>3 DEF Tallies
    <2>5. /\ me[p].at \in DOMAIN plan /\ step'[me[p].at] = "DONE"
          /\ \A i \in DOMAIN plan : i # me[p].at => step'[i] = step[i] /\ action'[i] = action[i]
          /\ me[p].mode = "resume" => approval[me[p].at] = "APPROVED"
      BY <2>2
    <2>6. Counted(p)'
      <3>1. \E i \in DOMAIN plan : step'[i] = "DONE" /\ (me'[p].mode = "resume"
              => approval'[i] = "APPROVED")
        BY <2>2, <2>3, <2>5
      <3>2. ASSUME me'[p].mode = "resume", NEW i \in DOMAIN plan, i < me[p].at + 1
            PROVE  /\ approval'[i] = "REJECTED" => me'[p].tally.blocked
                   /\ crashes' = 0 /\ approval'[i] = "APPROVED" => step'[i] \in {"DONE", "FAILED"}
        <4>1. i < me[p].at \/ i = me[p].at
          BY <3>2
        <4> QED BY <2>2, <2>3, <2>4, <2>5, <3>2, <4>1
      <3>3. ASSUME me'[p].mode = "run", me'[p].tally.failures = 0, ~me'[p].tally.blocked,
                   NEW i \in DOMAIN plan, i < me[p].at + 1
            PROVE  approval'[i] # "ABSENT" \/ step'[i] \in {"DONE", "SKIPPED"}
        <4>1. i < me[p].at \/ i = me[p].at
          BY <3>3
        <4> QED BY <2>2, <2>3, <2>4, <2>5, <3>3, <4>1
      <3>4. pc'[p] \in {"step", "resume"}
        BY <2>3 DEF AfterAction
      <3> QED BY <2>3, <3>1, <3>2, <3>3, <3>4
    <2>7. ASSUME crashes' = 0, NEW i \in DOMAIN plan, approval'[i] = "APPROVED"
          PROVE  action'[i] = "APPROVED" \/ step'[i] \in {"DONE", "FAILED"}
      <3>1. \/ action[i] = "APPROVED" \/ step[i] \in {"DONE", "FAILED"}
            \/ \E q \in Procs : pc[q] \in {"invoke", "record"} /\ me[q].at = i
        BY <2>2, <2>7
      <3>2. \A q \in Procs : pc[q] \in {"invoke", "record"} => q = p
        OBVIOUS
      <3> QED BY <2>2, <2>5, <3>1, <3>2
    <2>8. ApprovedIsDue'
      BY <2>7
    <2> QED BY <2>6, <2>8
  <1>17. CASE RecordFailure(p)
    <2>1. Became(p, AfterAction(p), me[p].run, me[p].at + 1,
                 [me[p].tally EXCEPT !.executed = @ + 1, !.failures = @ + 1], me[p].tries,
                 me[p].target)
      BY Zenon, <1>17, Becomes
    <2>2. Counted(p)'
      BY <1>17, <2>1 DEF Became, RecordFailure, AfterAction, Tallies, world
    <2>3. ApprovedIsDue'
      BY <1>17, <2>1 DEF Became, RecordFailure, AfterAction, Tallies, world
    <2> QED BY <2>2, <2>3
  <1>18. CASE Verify(p)
    <2>1. Became(p, "decide", IF me[p].tally.awaiting THEN me[p].run ELSE "VERIFYING", me[p].at,
                 me[p].tally, me[p].tries, me[p].target)
      BY Zenon, <1>18, Becomes
    <2>2. Counted(p)'
      BY <1>18, <2>1 DEF Became, Verify, world
    <2>3. ApprovedIsDue'
      BY <1>18, <2>1 DEF Became, Verify, world
    <2> QED BY <2>2, <2>3
  <1>19. CASE Decide(p)
    <2>1. Became(p, IF Asks(p) = me[p].run THEN "put" ELSE "advance", me[p].run, me[p].at,
                 me[p].tally, me[p].tries, Asks(p))
      BY Zenon, <1>19, Becomes
    <2>2. Counted(p)'
      BY <1>19, <2>1 DEF Became, Decide, store, world
    <2>3. ApprovedIsDue'
      BY <1>19, <2>1 DEF Became, Decide, store, world
    <2> QED BY <2>2, <2>3
  <1>20. CASE Advance(p)
    <2>1. Became(p, IF me[p].run = "VERIFYING" THEN "put" ELSE "advance", Waypoint(me[p]),
                 me[p].at, me[p].tally, me[p].tries, me[p].target)
      BY Zenon, <1>20, Becomes
    <2>2. Counted(p)'
      BY <1>20, <2>1 DEF Became, Advance, world
    <2>3. ApprovedIsDue'
      BY <1>20, <2>1 DEF Became, Advance, world
    <2> QED BY <2>2, <2>3
  <1>21. CASE ResumeApproved(p)
    <2>1. Became(p, "dispatch", me[p].run, me[p].at, me[p].tally, me[p].tries, me[p].target)
      BY Zenon, <1>21, Becomes
    <2>2. Counted(p)'
      BY <1>21, <2>1 DEF Became, ResumeApproved, ResumeAt, store, world
    <2>3. ApprovedIsDue'
      BY <1>21, <2>1 DEF Became, ResumeApproved, ResumeAt, store, world
    <2> QED BY <2>2, <2>3
  <1>22. CASE ResumeRejected(p)
    <2>1. Became(p, "resume", me[p].run, me[p].at + 1, [me[p].tally EXCEPT !.blocked = TRUE],
                 me[p].tries, me[p].target)
      BY Zenon, <1>22, Becomes
    <2>2. Counted(p)'
      BY <1>22, <2>1 DEF Became, ResumeRejected, ResumeAt, Tallies, world
    <2>3. ApprovedIsDue'
      BY <1>22, <2>1 DEF Became, ResumeRejected, ResumeAt, Tallies, world
    <2> QED BY <2>2, <2>3
  <1>23. CASE ResumePasses(p)
    <2>1. Became(p, "resume", me[p].run, me[p].at + 1, me[p].tally, me[p].tries, me[p].target)
      BY Zenon, <1>23, Becomes
    <2>2. /\ pc[p] = "resume" /\ me[p].at \in DOMAIN plan /\ UNCHANGED <<step, action, approval,
               crashes>>
          /\ \/ approval[me[p].at] \in {"ABSENT", "PENDING"}
             \/ approval[me[p].at] = "APPROVED" /\ action[me[p].at] # "APPROVED"
      BY <1>23 DEF ResumePasses, ResumeAt, store, world
    <2>3. /\ pc'[p] = "resume" /\ me'[p].mode = "resume" /\ me'[p].at = me[p].at + 1
          /\ me'[p].tally = me[p].tally
      BY <2>1, <2>2 DEF Became
    <2>4. ApprovedIsDue'
      BY <2>2
    <2>5. \A q \in Procs : pc[q] \notin {"invoke", "record"}
      BY <2>2
    <2>6. crashes = 0 /\ approval[me[p].at] = "APPROVED" => step[me[p].at] \in {"DONE", "FAILED"}
      BY <2>2, <2>5
    <2>7. \A i \in DOMAIN plan : i < me[p].at + 1 => i < me[p].at \/ i = me[p].at
      OBVIOUS
    <2>8. Counted(p)'
      BY <2>2, <2>3, <2>6, <2>7
    <2> QED BY <2>4, <2>8
  <1>24. CASE ResumeEnds(p)
    <2>1. Became(p, "decide", me[p].run, me[p].at, me[p].tally, me[p].tries, me[p].target)
      BY Zenon, <1>24, Becomes
    <2>2. Counted(p)'
      BY <1>24, <2>1 DEF Became, ResumeEnds, store, world
    <2>3. ApprovedIsDue'
      BY <1>24, <2>1 DEF Became, ResumeEnds, store, world
    <2> QED BY <2>2, <2>3
  <1>25. ASSUME NEW r \in {"ok", "fail", "refused"}, Invoke(p, r) PROVE Counted(p)' /\ ApprovedIsDue'
    <2>1. Became(p, IF r = "fail" /\ me[p].tries = 0 THEN "invoke" ELSE "record", me[p].run,
                 me[p].at, me[p].tally, me[p].tries + 1, me[p].target)
      BY <1>0, <1>25
    <2> QED BY <1>25, <2>1 DEF Became, Invoke, store, world
  <1>26. CASE Refuse(p) \/ Raise(p) \/ FailPlan(p) \/ PutFinal(p) \/ CancelCommit(p) \/ Crash(p)
    <2>1. pc'[p] = "idle" /\ me'[p] = NoCall
      BY Zenon, <1>26, Becomes
    <2>2. NoCall.mode = "none" /\ NoCall.tally.executed = 0
      BY DEF NoCall, NoTally
    <2>3. UNCHANGED <<approval, action, step>> /\ (UNCHANGED crashes \/ (Crash(p)
            /\ crashes' = crashes + 1))
      BY <1>26 DEF Refuse, Raise, FailPlan, PutFinal, CancelCommit, Crash, store, world
    <2>4. pc[p] \notin {"invoke", "record"} \/ Crash(p)
      BY <1>26 DEF Refuse, Raise, FailPlan, PutFinal, CancelCommit
    <2>5. Crash(p) => crashes' # 0
      BY <2>3 DEF TypeInv, TypeOK, Crash
    <2>6. Counted(p)'
      BY <2>1, <2>2
    <2> QED BY <2>1, <2>3, <2>4, <2>5, <2>6
  <1> HIDE <1>1, <1>2, <1>3, <1>4
         DEF Counted, ApprovedIsDue, Fresh, OpenUnstarted, Fits, FirstPassOnly, Acting, Concluding
  <1> QED
    BY Zenon, <1>5, <1>6, <1>7, <1>8, <1>9, <1>10, <1>11, <1>12, <1>13, <1>14, <1>15, <1>16,
       <1>17, <1>18, <1>19, <1>20, <1>21, <1>22, <1>23, <1>24, <1>25, <1>26 DEF Continue


\* A pass that asks for SUCCESS has earned it.
LEMMA DecideEarns ==
  ASSUME TypeInv, StartsInv, NEW p \in Procs, Counted(p), pc[p] = "decide", Asks(p) = "SUCCESS"
  PROVE  Earned
  <1>1. RawVerdict(me[p].tally, ledger, Pending) = "SUCCESS"
        /\ "UNVERIFIABLE" \notin ledger.checks /\ ~ledger.unbacked /\ ~ledger.critical
    BY DEF Asks, Verdict
  <1>2. /\ me[p].tally.executed \in Nat /\ me[p].tally.failures \in Nat
    BY TallyOfCall
  <1>3. /\ ~me[p].tally.exhausted /\ ~Pending /\ ~me[p].tally.blocked /\ "FAIL" \notin ledger.checks
        /\ me[p].tally.failures = 0 /\ me[p].tally.executed > 0 /\ ledger.evidence
    BY <1>1, <1>2 DEF RawVerdict
  <1>4. ledger.checks \subseteq {"PASS"}
    BY <1>1, <1>3 DEF TypeInv, TypeOK, Ledgers, Outcomes
  <1>5. /\ DOMAIN plan = 1 .. Len(plan) /\ Len(plan) \in Nat /\ DOMAIN approval = DOMAIN plan
        /\ \A i \in DOMAIN plan : approval[i] \in ApprovalStates
    BY Records DEF TypeInv, TypeOK
  <1>6. me[p].at \in Nat /\ me[p].mode \in {"run", "resume"} /\ me[p].at > Len(plan)
    BY <1>3, UnderWay DEF Fits, Concluding, Counted
  <1>7. \A i \in DOMAIN plan : i < me[p].at /\ approval[i] # "PENDING"
    BY <1>3, <1>5, <1>6 DEF Pending
  <1>8. PICK d \in DOMAIN plan : step[d] = "DONE" /\ (me[p].mode = "resume" => approval[d] = "APPROVED")
    BY <1>3 DEF Counted
  <1>9. CASE me[p].mode = "run"
    <2>1. \A i \in DOMAIN plan : approval[i] = "ABSENT"
      BY <1>7, <1>9 DEF StartsInv, Fresh
    <2>2. \A i \in DOMAIN plan : step[i] \in {"DONE", "SKIPPED"}
      BY <1>3, <1>7, <1>9, <2>1 DEF Counted
    <2> QED BY <1>1, <1>3, <1>4, <1>8, <2>1, <2>2 DEF Earned, FirstPassHonest
  <1>10. CASE me[p].mode = "resume"
    <2>1. \A i \in DOMAIN plan : approval[i] # "REJECTED"
      BY <1>3, <1>7, <1>10 DEF Counted
    <2>2. crashes = 0 => \A i \in DOMAIN plan : approval[i] = "APPROVED" => step[i] \in {"DONE",
            "FAILED"}
      BY <1>7, <1>10 DEF Counted
    <2>3. \A i \in DOMAIN plan : approval[i] \in {"ABSENT", "APPROVED"}
      BY <1>5, <1>7, <2>1 DEF ApprovalStates
    <2> QED BY <1>1, <1>3, <1>4, <1>8, <1>10, <2>2, <2>3 DEF Earned, FirstPassHonest
  <1> QED BY <1>6, <1>9, <1>10

\* ... and nothing that is still to come takes it away.
LEMMA EarnedKeeps ==
  ASSUME Earned, UNCHANGED <<plan, step, approval, ledger>>, crashes' = 0 => crashes = 0
  PROVE  Earned'
  BY DEF Earned, FirstPassHonest

\* Deaths are counted, and never forgotten.
LEMMA CrashesGrow ==
  ASSUME TypeInv, [Next]_vars
  PROVE  crashes' = 0 => crashes = 0
  <1>1. crashes \in Nat
    BY DEF TypeInv, TypeOK
  <1>2. ASSUME NEW p \in Procs, Continue(p) PROVE UNCHANGED crashes
    BY Zenon, <1>2 DEF Continue, MakePlan, Refuse, Raise, FailPlan, PutFinal, CancelCommit, Crash,
       BeginPlanning, EnterExecuting, Exhaust, SkipReasoning, RejectStep, SafeModeBlock,
       MarkAwaiting, Dispatch, RecordFailure, ResumeApproved, ResumeRejected, ResumePasses,
       ResumeEnds, PolicyDeny, RequestApproval, Choose, Invoke, RecordSuccess, Verify, Decide,
       Advance,
      AtStep, Considered, ResumeAt, world
  <1>3. UNCHANGED crashes \/ crashes' = crashes + 1
    BY <1>2 DEF Next, Submit, Resume, Cancel, Crash, Operator, SetLevel, OpenIncident,
       CloseIncident,
       Decisions, Settle, SettleAction, CrashDecision, vars, world
  <1> QED BY <1>1, <1>3

\* Where the rest of what a call does gets it.
LEMMA OtherPlaces ==
  ASSUME TypeInv, NEW p \in Procs, Continue(p),
         ~Decide(p) /\ ~Advance(p) /\ ~PutFinal(p) /\ ~Raise(p) /\ ~FailPlan(p) /\ ~Refuse(p),
         ~CancelCommit(p)
  PROVE  pc'[p] \in {"planning", "planned", "step", "verify", "asked", "dispatch", "invoke",
           "record", "decide", "resume"}
  <1>1. ASSUME BeginPlanning(p) \/ MakePlan(p) \/ EnterExecuting(p) \/ Exhaust(p)
                 \/ SkipReasoning(p) \/ RejectStep(p)
                \/ SafeModeBlock(p) \/ PolicyDeny(p) \/ RequestApproval(p) \/ MarkAwaiting(p)
                     \/ Choose(p) \/ Dispatch(p)
        PROVE  pc'[p] \in {"planning", "planned", "step", "verify", "asked", "dispatch", "invoke"}
    BY Zenon, <1>1, Becomes DEF Became
  <1>2. ASSUME RecordSuccess(p) \/ RecordFailure(p) \/ Verify(p) \/ ResumeApproved(p)
                \/ ResumeRejected(p) \/ ResumePasses(p) \/ ResumeEnds(p)
        PROVE  pc'[p] \in {"step", "resume", "decide", "dispatch"}
    BY Zenon, <1>2, Becomes DEF Became, AfterAction
  <1>3. ASSUME NEW r \in {"ok", "fail", "refused"}, Invoke(p, r)
        PROVE  pc'[p] \in {"invoke", "record"}
    BY Zenon, <1>3, Becomes DEF Became
  <1> QED BY <1>1, <1>2, <1>3 DEF Continue

\* Only the end of _finalize() makes a run a SUCCESS, and only deciding for it leads there.
LEMMA SuccessComes ==
  ASSUME TypeInv, RunInv, NEW p \in Procs, Continue(p) \/ Crash(p)
  PROVE  /\ status' = "SUCCESS" =>
              /\ (pc[p] \in {"advance", "put"} /\ me[p].target = "SUCCESS") \/ status = "SUCCESS"
              /\ UNCHANGED <<plan, step, approval, ledger>>
         /\ pc'[p] \in {"advance", "put"} /\ me'[p].target = "SUCCESS" =>
              \/ Decide(p) /\ Asks(p) = "SUCCESS" /\ UNCHANGED <<plan, step, approval, ledger>>
              \/ /\ pc[p] \in {"advance", "put"} /\ me[p].target = "SUCCESS"
                 /\ UNCHANGED <<plan, step, approval, ledger>>
  <1>1. /\ pc[p] # "idle" /\ me[p].run = status /\ RunAt(p) /\ "SUCCESS" \in TerminalStatuses
    BY Under DEF RunInv, RunAt, TerminalStatuses
  <1>2. CASE Decide(p)
    <2>1. Became(p, IF Asks(p) = me[p].run THEN "put" ELSE "advance", me[p].run, me[p].at,
                 me[p].tally, me[p].tries, Asks(p))
      BY Zenon, <1>2, Becomes
    <2>2. status # "SUCCESS" /\ pc[p] = "decide"
      BY <1>1, <1>2 DEF Decide, RunAt, IsTerminal
    <2> QED BY <1>2, <2>1, <2>2 DEF Decide, Became, store
  <1>3. CASE Advance(p)
    <2>1. Became(p, IF me[p].run = "VERIFYING" THEN "put" ELSE "advance", Waypoint(me[p]),
                 me[p].at, me[p].tally, me[p].tries, me[p].target)
      BY Zenon, <1>3, Becomes
    <2>2. status' = Waypoint(me[p]) \/ status' = status
      BY <1>3 DEF Advance, Moved
    <2>3. Waypoint(me[p]) = "SUCCESS" => me[p].target = "SUCCESS"
      BY DEF Waypoint
    <2> QED BY <1>3, <2>1, <2>2, <2>3 DEF Advance, Became
  <1>4. CASE PutFinal(p)
    <2>1. pc'[p] = "idle"
      BY Zenon, <1>4, Becomes
    <2> QED BY <1>1, <1>4, <2>1 DEF PutFinal, RunAt
  <1>5. CASE Raise(p) \/ FailPlan(p) \/ Crash(p)
    <2>1. pc'[p] = "idle"
      BY Zenon, <1>5, Becomes
    <2> QED BY <1>5, <2>1 DEF Raise, FailPlan, Crash, store
  <1>6. CASE Refuse(p) \/ CancelCommit(p)
    <2>1. pc'[p] = "idle"
      BY Zenon, <1>6, Becomes
    <2>2. status' # "SUCCESS"
      BY <1>1, <1>6 DEF Refuse, CancelCommit, Moved, RunAt, IsTerminal
    <2> QED BY <2>1, <2>2
  <1>7. CASE ~Decide(p) /\ ~Advance(p) /\ ~PutFinal(p) /\ ~Raise(p) /\ ~FailPlan(p) /\ ~Crash(p)
          /\ ~Refuse(p) /\ ~CancelCommit(p)
    <2>1. pc'[p] \in {"planning", "planned", "step", "verify", "asked", "dispatch", "invoke",
            "record", "decide", "resume"}
      BY Zenon, <1>7, OtherPlaces
    <2>2. status' # "SUCCESS"
      <3>1. pc[p] # "put"
        BY Zenon, <1>7 DEF Continue, MakePlan, BeginPlanning, EnterExecuting, Exhaust,
           SkipReasoning, RejectStep, SafeModeBlock, MarkAwaiting, Dispatch, RecordFailure,
           ResumeApproved, ResumeRejected, ResumePasses, ResumeEnds, PolicyDeny,
           RequestApproval, Choose, Invoke, RecordSuccess, Verify, AtStep, Considered, ResumeAt
      <3>2. status # "SUCCESS"
        BY <1>1, <3>1 DEF RunAt, IsTerminal
      <3>3. status' \in {status, "PLANNING", "EXECUTING", "AWAITING_APPROVAL", "VERIFYING"}
        BY Zenon, <1>7 DEF Continue, MakePlan, BeginPlanning, EnterExecuting, Exhaust,
           SkipReasoning, RejectStep, SafeModeBlock, MarkAwaiting, Dispatch, RecordFailure,
           ResumeApproved, ResumeRejected, ResumePasses, ResumeEnds, PolicyDeny,
           RequestApproval, Choose, Invoke, RecordSuccess, Verify, AtStep, Considered, ResumeAt,
           store, Moved
      <3> QED BY <3>2, <3>3
    <2> QED BY <2>1, <2>2
  <1> QED BY <1>2, <1>3, <1>4, <1>5, <1>6, <1>7


LEMMA VerdictOfCalls ==
  ASSUME ~Interleaved, TypeInv, GateInv, RunInv, StartsInv, VerdictInv, [Next]_vars,
         NEW p \in Procs, Continue(p) \/ Crash(p), ~MakePlan(p)
  PROVE  VerdictInv'
  <1>1. Alone /\ Counted(p) /\ Counted(p)' /\ ApprovedIsDue'
    BY CountsOfCalls DEF RunInv, VerdictInv
  <1>2. \A q \in Procs : q # p => pc[q] = "idle" /\ pc'[q] = "idle" /\ me'[q] = me[q]
    BY <1>1, OthersIdle
  <1>3. ASSUME NEW q \in Procs, q # p PROVE Counted(q)'
    <2>1. me'[q].mode = "none" /\ pc'[q] = "idle"
      BY <1>2, <1>3 DEF TypeInv, Fits
    <2> QED BY <2>1 DEF Counted, Concluding
  <1>4. crashes' = 0 => crashes = 0
    BY CrashesGrow
  <1>5. status' = "SUCCESS" => Earned'
    <2> SUFFICES ASSUME status' = "SUCCESS" PROVE Earned'
      OBVIOUS
    <2>1. Earned /\ UNCHANGED <<plan, step, approval, ledger>>
      BY SuccessComes DEF VerdictInv
    <2> QED BY <1>4, <2>1, EarnedKeeps
  <1>6. pc'[p] \in {"advance", "put"} /\ me'[p].target = "SUCCESS" => Earned'
    <2> SUFFICES ASSUME pc'[p] \in {"advance", "put"}, me'[p].target = "SUCCESS" PROVE Earned'
      OBVIOUS
    <2>1. CASE Decide(p) /\ Asks(p) = "SUCCESS" /\ UNCHANGED <<plan, step, approval, ledger>>
      <3>1. Earned
        BY <1>1, <2>1, DecideEarns DEF Decide
      <3> QED BY <1>4, <2>1, <3>1, EarnedKeeps
    <2>2. CASE pc[p] \in {"advance", "put"} /\ me[p].target = "SUCCESS" /\ UNCHANGED <<plan, step,
            approval, ledger>>
      <3>1. Earned
        BY <2>2 DEF VerdictInv
      <3> QED BY <1>4, <2>2, <3>1, EarnedKeeps
    <2> QED BY <2>1, <2>2, SuccessComes
  <1> QED BY <1>1, <1>2, <1>3, <1>5, <1>6 DEF VerdictInv

LEMMA VerdictOfPlan ==
  ASSUME ~Interleaved, TypeInv, RunInv, VerdictInv, NEW p \in Procs, MakePlan(p)
  PROVE  VerdictInv'
  <1>1. /\ pc[p] = "planning" /\ pc'[p] = "planned" /\ me'[p] = me[p]
        /\ \A q \in Procs : q # p => pc'[q] = "idle" /\ me'[q] = me[q]
    BY Effect, OthersIdle DEF MakePlan, RunInv, Continue
  <1>2. plan = <<>> /\ me[p].mode = "run" /\ me[p].at = 1 /\ Counted(p)
    BY <1>1, UnderWay DEF Fits, FirstPassOnly, VerdictInv, Counted
  <1>3. ~(me[p].tally.executed > 0 /\ me[p].tally.failures = 0)
    <2>1. DOMAIN plan = {}
      BY <1>2
    <2> QED BY <1>1, <1>2, <2>1 DEF Counted
  <1>4. \A i \in DOMAIN plan' : approval'[i] = "ABSENT" /\ i \in Nat \ {0}
    BY EngineAssumption DEF MakePlan
  <1>5. Counted(p)' /\ ApprovedIsDue'
    BY <1>1, <1>2, <1>3, <1>4 DEF Counted, ApprovedIsDue, Concluding
  <1>6. ASSUME NEW q \in Procs, q # p PROVE Counted(q)'
    <2>1. me'[q].mode = "none" /\ pc'[q] = "idle"
      BY <1>1, <1>6, OthersIdle DEF TypeInv, Fits, RunInv, Continue
    <2> QED BY <2>1 DEF Counted, Concluding
  <1>7. status' = status /\ status = "PLANNING"
    BY <1>1 DEF MakePlan, RunInv, RunAt
  <1> QED BY <1>1, <1>5, <1>6, <1>7 DEF VerdictInv

LEMMA VerdictOfStarts ==
  ASSUME ~Interleaved, TypeInv, RunInv, VerdictInv, NEW p \in Procs, Submit(p) \/ Resume(p) \/ Cancel(p)
  PROVE  VerdictInv'
  <1>1. /\ \A q \in Procs : pc[q] = "idle"
        /\ \A q \in Procs : q # p => pc'[q] = "idle" /\ me'[q] = me[q]
        /\ UNCHANGED <<plan, approval, crashes, deciding>>
    BY StartsAlone, OthersIdle DEF RunInv, Submit, Resume, Cancel, store, world
  <1>2. status' # "SUCCESS" /\ pc'[p] \in {"submitted", "resume", "cancel"}
    BY Effect DEF Submit, Resume, Cancel, store, IsTerminal, CanCancel, TerminalStatuses
  <1>3. me'[p].at = 1 /\ me'[p].tally.executed = 0 /\ (me'[p].mode = "run" => plan = <<>>)
    <2>1. NoCall.at = 1 /\ NoCall.tally.executed = 0
      BY DEF NoCall, NoTally
    <2>2. CASE Submit(p)
      <3> DEFINE m == [NoCall EXCEPT !.mode = "run"]
      <3>1. me'[p] = m /\ plan = <<>>
        BY <2>2, Effect DEF Submit, TypeInv, OneFirstPass
      <3>2. m.at = NoCall.at /\ m.tally = NoCall.tally
        BY NoCallFits DEF Calls
      <3> HIDE DEF m
      <3> QED BY <2>1, <3>1, <3>2
    <2>3. CASE Resume(p)
      <3> DEFINE m == [NoCall EXCEPT !.run = status, !.mode = "resume", !.seen = approval]
      <3>1. me'[p] = m
        BY <2>3, Effect DEF Resume
      <3>2. m.at = NoCall.at /\ m.tally = NoCall.tally /\ m.mode = "resume"
        BY NoCallFits DEF Calls
      <3> HIDE DEF m
      <3> QED BY <2>1, <3>1, <3>2
    <2>4. CASE Cancel(p)
      <3> DEFINE m == [NoCall EXCEPT !.run = status, !.mode = "cancel"]
      <3>1. me'[p] = m
        BY <2>4, Effect DEF Cancel
      <3>2. m.at = NoCall.at /\ m.tally = NoCall.tally /\ m.mode = "cancel"
        BY NoCallFits DEF Calls
      <3> HIDE DEF m
      <3> QED BY <2>1, <3>1, <3>2
    <2> QED BY <2>2, <2>3, <2>4
  <1>4. Counted(p)'
    <2>1. \A i \in DOMAIN plan : ~(i < 1)
      BY Records
    <2> QED BY <1>1, <1>2, <1>3, <2>1 DEF Counted, Concluding
  <1>5. ASSUME NEW q \in Procs, q # p PROVE Counted(q)'
    <2>1. me'[q].mode = "none" /\ pc'[q] = "idle"
      BY <1>1, <1>5 DEF TypeInv, Fits
    <2> QED BY <2>1 DEF Counted, Concluding
  <1>6. \A i \in DOMAIN plan : /\ step[i] \in {"DONE", "FAILED"} => step'[i] = step[i]
                               /\ action[i] = "APPROVED" => action'[i] = "APPROVED"
    <2>1. Submit(p) \/ Resume(p) => UNCHANGED <<step, action>>
      BY DEF Submit, Resume, store
    <2>2. Cancel(p) =>
            /\ \A i \in DOMAIN step :
                 step'[i] = IF step[i] = "RUNNING" THEN "BLOCKED" ELSE step[i]
            /\ \A i \in DOMAIN action :
                 action'[i] = IF action[i] = "EXECUTING" THEN "SKIPPED" ELSE action[i]
      BY DEF Cancel
    <2> QED BY <2>1, <2>2, Records
  <1>7. ApprovedIsDue'
    BY <1>1, <1>6 DEF VerdictInv, ApprovedIsDue
  <1> QED BY <1>1, <1>2, <1>4, <1>5, <1>7 DEF VerdictInv

LEMMA VerdictOfWorld ==
  ASSUME ~Interleaved, TypeInv, VerdictInv, [Next]_vars, Operator \/ Decisions \/ UNCHANGED vars
  PROVE  VerdictInv'
  <1>1. UNCHANGED <<status, plan, step, ledger, pc, me>>
    BY WorldApart
  <1>2. crashes' = 0 => crashes = 0
    BY CrashesGrow
  <1>3. CASE UNCHANGED <<approval, action, deciding>>
    <2>1. ApprovedIsDue'
      BY <1>1, <1>2, <1>3 DEF VerdictInv, ApprovedIsDue
    <2>2. Earned => Earned'
      BY <1>1, <1>2, <1>3, EarnedKeeps
    <2>3. \A q \in Procs : Counted(q)'
      BY <1>1, <1>2, <1>3 DEF VerdictInv, Counted
    <2> QED BY <1>1, <2>1, <2>2, <2>3 DEF VerdictInv
  <1>4. ASSUME NEW i \in DOMAIN approval, SettleAction(i) \/ CrashDecision(i) PROVE VerdictInv'
    <2>1. UNCHANGED approval
      BY <1>4 DEF SettleAction, CrashDecision, store
    <2>2. ASSUME SettleAction(i) PROVE ApprovedIsDue'
      <3>1. /\ \A j \in DOMAIN plan : j # i => action'[j] = action[j]
            /\ action'[i] = approval[i] /\ deciding' = deciding \ {i}
        BY <2>2, Records DEF SettleAction
      <3> QED BY <1>1, <1>2, <2>1, <3>1 DEF VerdictInv, ApprovedIsDue
    <2>3. ASSUME CrashDecision(i) PROVE ApprovedIsDue'
      <3>1. crashes' # 0
        BY <2>3 DEF CrashDecision, TypeInv, TypeOK
      <3> QED BY <3>1 DEF ApprovedIsDue
    <2>4. ApprovedIsDue'
      BY <1>4, <2>2, <2>3
    <2>5. Earned => Earned'
      BY <1>1, <1>2, <2>1, EarnedKeeps
    <2>6. \A q \in Procs : Counted(q)'
      BY <1>1, <1>2, <2>1 DEF VerdictInv, Counted
    <2> QED BY <1>1, <2>4, <2>5, <2>6 DEF VerdictInv
  <1>5. ASSUME NEW i \in DOMAIN approval, NEW decision \in {"APPROVED", "REJECTED"}, Settle(i, decision)
        PROVE  VerdictInv'
    <2>1. /\ approval[i] = "PENDING" /\ i \in DOMAIN plan /\ UNCHANGED action
          /\ \A j \in DOMAIN plan : j # i => approval'[j] = approval[j]
          /\ deciding' = deciding \cup {i}
      BY <1>5, TypeLengths DEF Settle
    <2>2. \A q \in Procs : pc'[q] = "idle" /\ me'[q].mode = "none"
      BY <1>1, <1>5, StartsAlone DEF TypeInv, Fits
    <2>3. ~Earned
      BY <2>1 DEF Earned
    <2>4. \A q \in Procs : Counted(q)'
      BY <2>2 DEF Counted, Concluding
    <2>5. ApprovedIsDue'
      BY <1>1, <1>2, <2>1 DEF VerdictInv, ApprovedIsDue
    <2> QED BY <1>1, <2>2, <2>3, <2>4, <2>5 DEF VerdictInv
  <1> QED
    BY <1>3, <1>4, <1>5 DEF Operator, SetLevel, OpenIncident, CloseIncident, Decisions, vars,
       store, world


LEMMA VerdictStep ==
  ASSUME ~Interleaved
  PROVE  TurnsInv /\ VerdictInv /\ [Next]_vars => VerdictInv'
  <1> SUFFICES ASSUME TurnsInv, VerdictInv, [Next]_vars PROVE VerdictInv'
    OBVIOUS
  <1>1. TypeInv /\ GateInv /\ RunInv /\ StartsInv
    BY DEF TurnsInv, Inv
  <1>2. ASSUME NEW p \in Procs, Continue(p) \/ Crash(p) PROVE VerdictInv'
    BY <1>1, <1>2, VerdictOfCalls, VerdictOfPlan
  <1>3. ASSUME NEW p \in Procs, Submit(p) \/ Resume(p) \/ Cancel(p) PROVE VerdictInv'
    BY <1>1, <1>3, VerdictOfStarts
  <1>4. CASE Operator \/ Decisions \/ UNCHANGED vars
    BY <1>1, <1>4, VerdictOfWorld
  <1> QED BY <1>2, <1>3, <1>4 DEF Next

LEMMA VerdictInit == Init => VerdictInv
  <1> SUFFICES ASSUME Init PROVE VerdictInv
    OBVIOUS
  <1>1. DOMAIN plan = {}
    BY DEF Init
  <1>2. \A p \in Procs : pc[p] = "idle" /\ me[p].mode = "none"
    BY NoCallFits DEF Init
  <1>3. status # "SUCCESS"
    BY DEF Init
  <1> QED BY <1>1, <1>2, <1>3 DEF VerdictInv, ApprovedIsDue, Counted, Concluding

\* The tally a call counts from zero stands for what the steps and approvals say, so
\* that a SUCCESS it asks for, and one that is stored, has been earned.
THEOREM Verdicts ==
  ASSUME ~Interleaved
  PROVE  Spec => [](TurnsInv /\ VerdictInv)
  <1>1. Init => TurnsInv /\ VerdictInv
    BY TurnsInit, VerdictInit
  <1>2. (TurnsInv /\ VerdictInv) /\ [Next]_vars => (TurnsInv /\ VerdictInv)'
    BY TurnsStep, VerdictStep
  <1> QED BY <1>1, <1>2, PTL DEF Spec

\* "the run is never reported as a clean SUCCESS": no run that has met a critical
\* degradation is stored as a SUCCESS, however many resumes have counted from zero since.
THEOREM NeverClean ==
  ASSUME ~Interleaved
  PROVE  Spec => []NeverCleanSuccess
  <1>1. VerdictInv => NeverCleanSuccess
    BY DEF VerdictInv, Earned, NeverCleanSuccess
  <1> QED BY <1>1, Verdicts, PTL

\* A stored SUCCESS has an executed step and evidence behind it, and no failed check, bare
\* claim, open question, refusal or dishonest first pass against it.
THEOREM Honest ==
  ASSUME ~Interleaved
  PROVE  Spec => []SuccessIsEarned
  <1>1. VerdictInv => SuccessIsEarned
    BY DEF VerdictInv, Earned, SuccessIsEarned
  <1> QED BY <1>1, Verdicts, PTL

\* A SUCCESS has used every approval people gave it, unless a process died on the way.
THEOREM ApprovalsUsed ==
  ASSUME ~Interleaved
  PROVE  Spec => []SuccessUsesApprovals
  <1>1. VerdictInv => SuccessUsesApprovals
    BY DEF VerdictInv, Earned, SuccessUsesApprovals
  <1> QED BY <1>1, Verdicts, PTL
=============================================================================
