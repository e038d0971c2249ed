SPECIFICATION Spec
CONSTANTS
  Callers = {c1}
  Scopes = {acme, other}
  Bodies = {cautious, strict}
  None = None
  MaxVersion = 3
  MaxCrashes = 0
PROPERTIES PoliciesAreKept
CHECK_DEADLOCK FALSE
