-------------------------------- MODULE Rbac --------------------------------
(***************************************************************************)
(* The escalation ladder of sworker/rbac.py.  Roles are the strings a      *)
(* caller passes; a name that is not on the ladder ranks below every role  *)
(* on it, and a minimum that is not on the ladder is met by admin alone.   *)
(***************************************************************************)
EXTENDS Integers

RoleRanks == [viewer |-> 0, analyst |-> 1, worker |-> 2, operator |-> 3, admin |-> 4]

LadderRoles == DOMAIN RoleRanks

RoleRank(role) == IF role \in LadderRoles THEN RoleRanks[role] ELSE -1

RoleSatisfies(role, minimum) ==
  \/ minimum = ""
  \/ minimum # "" /\ minimum \notin LadderRoles /\ role = "admin"
  \/ minimum \in LadderRoles /\ RoleRank(role) >= RoleRank(minimum)
=============================================================================
