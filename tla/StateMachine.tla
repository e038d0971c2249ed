---------------------------- MODULE StateMachine ----------------------------
(***************************************************************************)
(* The run state machine: the table of sworker/statemachine.py and the     *)
(* predicates the engine asks of it.  Statuses keep the strings that are   *)
(* persisted in the run record.  RUNNING is a member of the enumeration    *)
(* that no row of the table names, neither as a source nor as a target.    *)
(***************************************************************************)

TerminalStatuses ==
  {"SUCCESS", "PARTIAL_SUCCESS", "FAILED", "BLOCKED",
   "INSUFFICIENT_EVIDENCE", "CANCELLED", "DENIED"}

RunStatuses ==
  TerminalStatuses \cup
  {"PENDING", "PLANNING", "RUNNING", "EXECUTING", "AWAITING_APPROVAL", "VERIFYING"}

\* What each status may become; a status with no row goes nowhere.
Transitions ==
  [s \in RunStatuses |->
     CASE s = "PENDING"   -> {"PLANNING", "CANCELLED", "DENIED"}
       [] s = "PLANNING"  -> {"EXECUTING", "CANCELLED", "DENIED",
                              "INSUFFICIENT_EVIDENCE", "BLOCKED"}
       [] s = "EXECUTING" -> {"AWAITING_APPROVAL", "VERIFYING", "CANCELLED",
                              "DENIED", "BLOCKED", "FAILED"}
       [] s = "AWAITING_APPROVAL" -> {"EXECUTING", "CANCELLED", "DENIED", "BLOCKED"}
       [] s = "VERIFYING" -> TerminalStatuses
       [] OTHER -> {}]

IsTerminal(s) == s \in TerminalStatuses

AllowedTransition(current, target) == target \in Transitions[current]

CanCancel(s) == ~IsTerminal(s)
=============================================================================
