SPECIFICATION Spec
CONSTANTS
  p1 = p1
  p2 = p2
  Procs = {p1}
  Plans <- TwoAsks
  Policy <- StrictPolicy
  MaxActions = 3
  MaxToolCalls = 3
  MaxNetwork = 3
  Yields <- Plain
  MayTimeOut = FALSE
  MayCancel = FALSE
  MayOperate = TRUE
  Interleaved = FALSE
  MaxCrashes = 0
PROPERTIES SafeModeStopsChoice
CHECK_DEADLOCK FALSE
