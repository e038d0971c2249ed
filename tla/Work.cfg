SPECIFICATION Spec
CONSTANTS
  Limit = 1
  MaxActions = 2
  MaxPasses = 2
  Keys = {"n", "s"}
  Nums = {4, 499}
  Mentions <- ZeroMentioned
  Missing = Missing
  Outside = Outside
  NoNum = NoNum
  Blank = Blank
  Wild = Wild
  MaxRows = 2
  MaxQueries = 1
  MaxAlterations = 1
  Markdown = {"md"}
  Adapted = {"json"}
  Commands = {"compile"}
  MaxEdits = 2
  MaxJobs = 2
  Files = {"a", "b"}
  Paths = {"hook"}
  Unknown = "other"
  MaxWrites = 3
  MaxRounds = 3
  MaxPosts = 1
  Candidates = {1, 2}
  Page = 2
  Contents = {{"hiring_signal", "entry"}}
  MaxSteps = 3
  Customers = {"acme"}
  Sellers = {operator, strategist}
  operator = operator
  strategist = strategist
  Approvers = {" ", "ann"}
  MaxDays = 2
  MaxCommands = 4
  MaxDeaths = 1
  MaxFailures = 1
  None = None
INVARIANTS CallsHold FiguresHold WatchersHold ResearchHolds DailyHolds
PROPERTIES PastIsSettled
SYMMETRY SameSellers
CHECK_DEADLOCK FALSE
