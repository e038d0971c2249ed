SPECIFICATION FairSpec
CONSTANTS
  destructive = destructive
  external = external
  misconfigured = misconfigured
  alice = alice
  bob = bob
  carol = carol
  s1 = s1
  s2 = s2
  Approvals = {destructive, external, misconfigured}
  Approvers = {alice, bob}
  Roles = {"admin", ""}
  Sessions = {s1}
  PolicyQuorum <- MCQuorum
  PolicyMinRole <- MCMinRole
  Interleaved = FALSE
  MaxEscalations = 1
  MaxCrashes = 1
  MaxExecutions = 2
INVARIANTS ActionFollowsRecord ExecutedOnce
PROPERTIES SettledIsImmutable ImplementsPromise DecisionReachesAction
CHECK_DEADLOCK FALSE
