---------------------------- MODULE MCApprovals -----------------------------
(* Small instances of Approvals: a destructive action that needs two       *)
(* operators, an external one that needs anybody, and a misconfigured one  *)
(* (quorum 0, a minimum role off the ladder).                              *)
EXTENDS Approvals, TLC

CONSTANTS destructive, external, misconfigured, alice, bob, carol, s1, s2

QuorumOf == [a \in {destructive, external, misconfigured} |->
               IF a = destructive THEN 2 ELSE IF a = external THEN 1 ELSE 0]
MCQuorum == [a \in Approvals |-> QuorumOf[a]]

MinRoleOf == [a \in {destructive, external, misconfigured} |->
                IF a = destructive THEN "operator" ELSE IF a = external THEN "" ELSE "owner"]
MCMinRole == [a \in Approvals |-> MinRoleOf[a]]

\* The approvers differ in nothing but their names.
ApproverSymmetry == Permutations(Approvers)

\* So do the sessions.
SafetySymmetry == Permutations(Approvers) \cup Permutations(Sessions)
=============================================================================
