-------------------------- MODULE ApprovalPromise ---------------------------
(***************************************************************************)
(* What an approval promises the engine: an atomic ballot per approval.    *)
(* Distinct people say yes until enough of them have, one no settles it    *)
(* against, the requirement may be raised while the ballot is open, and    *)
(* nothing changes once it is closed.  Approvals.tla, whose handlers read  *)
(* and write the store in separate steps, is checked to implement this     *)
(* when a single session votes at a time.                                  *)
(***************************************************************************)
EXTENDS Naturals, FiniteSets

CONSTANTS Approvals, Approvers

VARIABLES
  verdict,   \* per approval: ABSENT, PENDING, APPROVED or REJECTED
  ayes,      \* per approval: the people who have said yes
  need       \* per approval: how many must

Init ==
  /\ verdict = [a \in Approvals |-> "ABSENT"]
  /\ ayes = [a \in Approvals |-> {}]
  /\ need = [a \in Approvals |-> 1]

Open(a) ==
  /\ verdict[a] = "ABSENT"
  /\ verdict' = [verdict EXCEPT ![a] = "PENDING"]
  /\ need' \in [Approvals -> Nat \ {0}]
  /\ \A b \in Approvals \ {a} : need'[b] = need[b]
  /\ UNCHANGED ayes

SayYes(a, p) ==
  /\ verdict[a] = "PENDING"
  /\ ayes' = [ayes EXCEPT ![a] = @ \cup {p}]
  /\ verdict' = IF Cardinality(ayes'[a]) >= need[a]
                THEN [verdict EXCEPT ![a] = "APPROVED"]
                ELSE verdict
  /\ UNCHANGED need

SayNo(a, p) ==
  /\ verdict[a] = "PENDING"
  /\ ayes' = [ayes EXCEPT ![a] = @ \ {p}]
  /\ verdict' = [verdict EXCEPT ![a] = "REJECTED"]
  /\ UNCHANGED need

Raise(a) ==
  /\ verdict[a] = "PENDING"
  /\ need' = [need EXCEPT ![a] = @ + 1]
  /\ UNCHANGED <<verdict, ayes>>

Next ==
  \E a \in Approvals :
    \/ Open(a)
    \/ Raise(a)
    \/ \E p \in Approvers : SayYes(a, p) \/ SayNo(a, p)

Spec == Init /\ [][Next]_<<verdict, ayes, need>>
=============================================================================
