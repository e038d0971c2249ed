SPECIFICATION Spec
CONSTANTS
  p1 = p1
  p2 = p2
  Procs = {p1, p2}
  Plans <- OneRead
  Policy <- StrictPolicy
  MaxActions = 3
  MaxToolCalls = 3
  MaxNetwork = 3
  Yields <- Plain
  MayTimeOut = FALSE
  MayCancel = TRUE
  MayOperate = FALSE
  Interleaved = TRUE
  MaxCrashes = 0
PROPERTIES TerminalIsFinal
CHECK_DEADLOCK FALSE
