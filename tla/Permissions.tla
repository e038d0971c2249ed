---------------------------- MODULE Permissions -----------------------------
(***************************************************************************)
(* The permission decision of sworker/permissions.py and the safe-mode     *)
(* test of sworker/safemode.py.  Reading code and commands to find the     *)
(* risk of one invocation (classify) is left out: a planned step comes     *)
(* with its effective risk.                                                *)
(***************************************************************************)
EXTENDS Integers

\* RISK_ORDER: the order is what the guard compares.
RiskRanks == [read |-> 0, reversible |-> 1, external |-> 2, financial |-> 3, destructive |-> 4]

Risks == DOMAIN RiskRanks

RiskRank(risk) == RiskRanks[risk]

Levels == {"off", "readonly", "locked"}

\* A risk the worker's policy does not mention needs approval.
PolicyFor(policy, risk) == IF risk \in DOMAIN policy THEN policy[risk] ELSE "approve"

\* DecompositionGuard.blocked_reason: only refusals are consulted, and nothing
\* up to reversible is ever refused.
GuardBlocks(refused, risk) ==
  /\ RiskRank(risk) > RiskRank("reversible")
  /\ \E r \in refused : RiskRank(r) <= RiskRank(risk)

\* PermissionEngine.evaluate: denied, or needing approval, or automatic.
Evaluate(policy, refused, risk, always) ==
  IF GuardBlocks(refused, risk) \/ PolicyFor(policy, risk) = "deny" THEN "denied"
  ELSE IF always \/ PolicyFor(policy, risk) = "approve" THEN "ask"
  ELSE "auto"

\* SafeMode.is_blocked.
SafeModeBlocks(level, risk) ==
  \/ level = "locked"
  \/ level = "readonly" /\ risk # "read"
=============================================================================
