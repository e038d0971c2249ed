SPECIFICATION FairSpec
CONSTANTS
  p1 = p1
  p2 = p2
  Procs = {p1}
  Plans <- SerialPlans
  Policy <- StrictPolicy
  MaxActions = 2
  MaxToolCalls = 3
  MaxNetwork = 1
  Yields <- Rich
  MayTimeOut = TRUE
  MayCancel = TRUE
  MayOperate = TRUE
  Interleaved = FALSE
  MaxCrashes = 1
INVARIANTS TypeOK StartedOnce NeverCleanSuccess SuccessIsEarned BudgetHolds SuccessUsesApprovals
PROPERTIES Lifecycle RunReturns ResumeFinishes
CHECK_DEADLOCK FALSE
