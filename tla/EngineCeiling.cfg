SPECIFICATION Spec
CONSTANTS
  p1 = p1
  p2 = p2
  Procs = {p1}
  Plans <- TwoAsks
  Policy <- StrictPolicy
  MaxActions = 3
  MaxToolCalls = 3
  MaxNetwork = 3
  Yields <- Plain
  MayTimeOut = FALSE
  MayCancel = FALSE
  MayOperate = FALSE
  Interleaved = FALSE
  MaxCrashes = 0
PROPERTIES RejectionCeiling
CHECK_DEADLOCK FALSE
