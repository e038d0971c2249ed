SPECIFICATION ResearchSpec
CONSTANTS
  Candidates = {1, 2}
  Page = 2
  Contents = {{"hiring_signal"}, {"entry", "knowledge"}}
  MaxCommands = 3
  MaxDeaths = 1
INVARIANTS SkeletonIsNoEvidence
CHECK_DEADLOCK FALSE
