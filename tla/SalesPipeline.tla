---------------------------- MODULE SalesPipeline ----------------------------
(***************************************************************************)
(* The stages of sales/pipeline.py, the moves it allows, and the stages    *)
(* for which sales/followup.py knows a next action.                        *)
(***************************************************************************)

Forward == [
  prospect            |-> {"contacted"},
  contacted           |-> {"responded"},
  responded           |-> {"discovery_scheduled", "qualified"},
  discovery_scheduled |-> {"discovery_completed"},
  discovery_completed |-> {"qualified"},
  qualified           |-> {"audit_in_progress", "proposal_sent"},
  audit_in_progress   |-> {"proposal_sent"},
  proposal_sent       |-> {"negotiation", "won"},
  negotiation         |-> {"won"},
  won                 |-> {"onboarding"},
  lost                |-> {"prospect"},
  onboarding          |-> {"implementation"},
  implementation      |-> {"completed"},
  completed           |-> {"expansion"},
  expansion           |-> {}]

Stages == DOMAIN Forward

Losable == Stages \ {"won", "lost", "completed"}

AllowedNext(s) == Forward[s] \cup (IF s \in Losable THEN {"lost"} ELSE {})

\* The stages with a rule for what to do next.
Ruled == {"contacted", "responded", "discovery_scheduled", "discovery_completed", "qualified",
          "proposal_sent", "negotiation", "audit_in_progress", "lost"}
=============================================================================
