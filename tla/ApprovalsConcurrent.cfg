SPECIFICATION Spec
CONSTANTS
  destructive = destructive
  external = external
  misconfigured = misconfigured
  alice = alice
  bob = bob
  carol = carol
  s1 = s1
  s2 = s2
  Approvals = {destructive}
  Approvers = {alice, bob, carol}
  Roles = {"analyst", "operator"}
  Sessions = {s1, s2}
  PolicyQuorum <- MCQuorum
  PolicyMinRole <- MCMinRole
  Interleaved = TRUE
  MaxEscalations = 1
  MaxCrashes = 1
  MaxExecutions = 2
INVARIANTS QuorumBehindApproval
PROPERTIES ExecutionHadQuorum
SYMMETRY SafetySymmetry
CHECK_DEADLOCK FALSE
