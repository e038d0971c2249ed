---------------------------- MODULE RunLifecycle ----------------------------
(***************************************************************************)
(* What the state machine promises of one run, whoever drives it: the run  *)
(* record is created PENDING and after that its persisted status changes   *)
(* only along a row of the table.  A detailed specification of the engine  *)
(* implements the promise when its persisted status, under the identity    *)
(* mapping, behaves as Spec.                                               *)
(***************************************************************************)
EXTENDS StateMachine

VARIABLE status    \* the status in the persisted run record, ABSENT before it exists

Init == status = "ABSENT"

Create == status = "ABSENT" /\ status' = "PENDING"

Move == \E target \in RunStatuses :
          /\ status \in RunStatuses
          /\ AllowedTransition(status, target)
          /\ status' = target

Next == Create \/ Move

Spec == Init /\ [][Next]_status
=============================================================================
