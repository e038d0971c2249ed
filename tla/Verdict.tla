------------------------------ MODULE Verdict -------------------------------
(***************************************************************************)
(* How WorkerEngine._finalize turns one pass over a run into the status it *)
(* asks for: t is what the pass counted, led what the store holds of the   *)
(* run, pending whether an approval of the run is still open.              *)
(***************************************************************************)
EXTENDS StateMachine, Naturals

Outcomes == {"PASS", "FAIL", "UNVERIFIABLE"}

\* What one pass counts.
Tallies == [executed : Nat, failures : Nat, blocked : BOOLEAN,
            awaiting : BOOLEAN, exhausted : BOOLEAN]

NoTally == [executed |-> 0, failures |-> 0, blocked |-> FALSE,
            awaiting |-> FALSE, exhausted |-> FALSE]

\* What the store keeps of a run: evidence, the outcomes of its checks, whether
\* an artifact shows a claim nothing backs, and critical degradations.
Ledgers == [evidence : BOOLEAN, checks : SUBSET Outcomes,
            unbacked : BOOLEAN, critical : BOOLEAN]

EmptyLedger == [evidence |-> FALSE, checks |-> {}, unbacked |-> FALSE, critical |-> FALSE]

\* Mutant of RawVerdict: approvals left over from an earlier pass do not hold
\* the run back.
RawVerdictForgetsPending(t, led, pending) ==
  IF t.exhausted THEN "BLOCKED"
  ELSE IF t.awaiting THEN "AWAITING_APPROVAL"
  ELSE IF t.blocked THEN "BLOCKED"
  ELSE IF "FAIL" \in led.checks THEN "PARTIAL_SUCCESS"
  ELSE IF t.executed = 0 /\ t.failures = 0 THEN "INSUFFICIENT_EVIDENCE"
  ELSE IF t.failures >= t.executed THEN "FAILED"
  ELSE IF t.failures > 0 THEN "PARTIAL_SUCCESS"
  ELSE IF ~led.evidence THEN "INSUFFICIENT_EVIDENCE"
  ELSE "SUCCESS"

\* The status before the downgrades, first match wins.
RawVerdict(t, led, pending) ==
  IF t.exhausted THEN "BLOCKED"
  ELSE IF t.awaiting \/ pending THEN "AWAITING_APPROVAL"
  ELSE IF t.blocked THEN "BLOCKED"
  ELSE IF "FAIL" \in led.checks THEN "PARTIAL_SUCCESS"
  ELSE IF t.executed = 0 /\ t.failures = 0 THEN "INSUFFICIENT_EVIDENCE"
  ELSE IF t.failures >= t.executed THEN "FAILED"
  ELSE IF t.failures > 0 THEN "PARTIAL_SUCCESS"
  ELSE IF ~led.evidence THEN "INSUFFICIENT_EVIDENCE"
  ELSE "SUCCESS"

\* Mutant of Verdict: degradations are shown but do not count.
VerdictForgetsDegradation(t, led, pending) ==
  LET raw == RawVerdict(t, led, pending) IN
  IF raw = "SUCCESS" /\ ("UNVERIFIABLE" \in led.checks \/ led.unbacked)
  THEN "PARTIAL_SUCCESS" ELSE raw

\* An unproven figure, an unbacked claim or a critical degradation takes a
\* success down to a partial one.
Verdict(t, led, pending) ==
  LET raw == RawVerdict(t, led, pending) IN
  IF raw = "SUCCESS" /\ ("UNVERIFIABLE" \in led.checks \/ led.unbacked \/ led.critical)
  THEN "PARTIAL_SUCCESS" ELSE raw
=============================================================================
