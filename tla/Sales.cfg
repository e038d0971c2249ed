SPECIFICATION Spec
CONSTANTS
  Callers = {c1, c2}
  Keys = {acme}
  Drafts = {d1, d2}
  People = {alice}
  None = None
  MaxMoves = 3
  MaxEvidence = 2
  MaxCalls = 7
  MaxRaces = 5
  MaxCrashes = 1
INVARIANTS OneCompanyPerLead HistoryTellsStage ScoreIsOnRecord ScoreIsLatest SentWasApproved SendsAreBooked OneReminder
SYMMETRY Exchangeable
CHECK_DEADLOCK FALSE
