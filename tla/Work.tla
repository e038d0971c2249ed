-------------------------------- MODULE Work ---------------------------------
(***************************************************************************)
(* What a worker does: tool calls, the figures of a report, the knowledge  *)
(* index, triggers, lead research and the daily procedure of the sales     *)
(* pack.  They share no state in the code, so a behaviour is one of one    *)
(* part: focus says which, the variables of the others are None.  A        *)
(* variable has the name it has in its part; where two parts have the      *)
(* same, with the part's in front.                                         *)
(***************************************************************************)
EXTENDS Integers

CONSTANTS
  Limit, MaxActions, MaxPasses,                       \* of tool calls
  Keys, Nums, Mentions, Missing, Outside, NoNum, Blank, Wild,
  MaxRows, MaxQueries, MaxAlterations,                \* of figures
  Markdown, Adapted, Commands, MaxEdits, MaxJobs,     \* of the knowledge index
  Files, Paths, Unknown, MaxWrites, MaxRounds, MaxPosts,   \* of triggers
  Candidates, Page, Contents, MaxSteps,               \* of research
  Customers, Sellers, Approvers, MaxDays, MaxCommands,    \* of the sales day
  MaxDeaths, MaxFailures, None

VARIABLES
  focus,         \* the part this behaviour is of
  setup, pass, sent, doing, actions, log, left, outbox, repo, file, deaths,
  source, report, computed, checked, reread, done, figEdits,
  corpus, access, dir, index, job, seen, outcome, quiet, edits, jobs, failures,
  content, last, cur, trigLeft, scanning, told, accepted, answers, writes, rounds, posts,
  own, shared, blank, leads, evidence, pain_points, scores, command, queue, resWrites, ever,
  passed, named, commands, lost,
  today, place, drafts, reminders, history, passes, hand, todo, crowded, orders, dayFailures

calls == <<setup, pass, sent, doing, actions, log, left, outbox, repo, file, deaths>>
figures == <<source, report, computed, checked, reread, done, figEdits>>
knowledge == <<corpus, access, dir, index, job, seen, outcome, quiet, edits, jobs, failures>>
triggers == <<content, last, cur, trigLeft, scanning, told, accepted, answers, writes,
              rounds, posts>>
research == <<own, shared, blank, leads, evidence, pain_points, scores, command, queue,
              resWrites, ever, passed, named, commands, lost>>
daily == <<today, place, drafts, reminders, history, passes, hand, todo, crowded, orders,
           dayFailures>>

T == INSTANCE ToolCalls

F == INSTANCE Figures WITH MaxEdits <- MaxAlterations, edits <- figEdits

K == INSTANCE Knowledge

G == INSTANCE Triggers WITH left <- trigLeft

R == INSTANCE Research WITH MaxCommands <- MaxSteps, writes <- resWrites

D == INSTANCE Daily WITH failures <- dayFailures

WorkAssumption ==
  /\ T!ToolCallsAssumption /\ F!FiguresAssumption /\ K!KnowledgeAssumption
  /\ G!TriggersAssumption /\ R!ResearchAssumption /\ D!DailyAssumption

-----------------------------------------------------------------------------
Parts == {"calls", "figures", "knowledge", "triggers", "research", "daily"}

\* A part that is not the one in focus.
NoCalls ==
  /\ setup = None /\ pass = None /\ sent = None /\ doing = None /\ actions = None /\ log = None
  /\ left = None /\ outbox = None /\ repo = None /\ file = None /\ deaths = None

NoFigures ==
  /\ source = None /\ report = None /\ computed = None /\ checked = None /\ done = None
  /\ reread = None /\ figEdits = None

NoKnowledge ==
  /\ corpus = None /\ dir = None /\ index = None /\ job = None /\ seen = None /\ outcome = None
  /\ access = None /\ quiet = None /\ edits = None /\ jobs = None /\ failures = None

NoTriggers ==
  /\ content = None /\ last = None /\ cur = None /\ trigLeft = None /\ scanning = None
  /\ told = None /\ accepted = None /\ answers = None /\ writes = None /\ rounds = None
  /\ posts = None

NoResearch ==
  /\ own = None /\ shared = None /\ blank = None /\ leads = None /\ evidence = None
  /\ pain_points = None /\ scores = None /\ command = None /\ queue = None /\ resWrites = None
  /\ ever = None /\ passed = None /\ named = None /\ commands = None /\ lost = None

NoDaily ==
  /\ today = None /\ place = None /\ drafts = None /\ reminders = None /\ history = None
  /\ passes = None /\ hand = None /\ todo = None /\ crowded = None /\ orders = None
  /\ dayFailures = None

Init ==
  /\ focus \in Parts
  /\ IF focus = "calls" THEN T!Init ELSE NoCalls
  /\ IF focus = "figures" THEN F!Init ELSE NoFigures
  /\ IF focus = "knowledge" THEN K!KnowInit ELSE NoKnowledge
  /\ IF focus = "triggers" THEN G!TrigInit ELSE NoTriggers
  /\ IF focus = "research" THEN R!Init ELSE NoResearch
  /\ IF focus = "daily" THEN D!Init ELSE NoDaily

\* A step of one part leaves the others alone.
Only(part) ==
  /\ focus = part
  /\ UNCHANGED focus
  /\ IF part = "calls" THEN TRUE ELSE UNCHANGED calls
  /\ IF part = "figures" THEN TRUE ELSE UNCHANGED figures
  /\ IF part = "knowledge" THEN TRUE ELSE UNCHANGED knowledge
  /\ IF part = "triggers" THEN TRUE ELSE UNCHANGED triggers
  /\ IF part = "research" THEN TRUE ELSE UNCHANGED research
  /\ IF part = "daily" THEN TRUE ELSE UNCHANGED daily

Next ==
  \/ Only("calls") /\ T!Next
  \/ Only("figures") /\ F!Next
  \/ Only("knowledge") /\ K!KnowNext
  \/ Only("triggers") /\ G!TrigNext
  \/ Only("research") /\ R!Next
  \/ Only("daily") /\ D!Next

vars == <<focus, calls, figures, knowledge, triggers, research, daily>>

Spec == Init /\ [][Next]_vars

-----------------------------------------------------------------------------
\* An observation that says nothing left the machine is right, and a pass keeps to the
\* message limit.
CallsHold == focus = "calls" => T!EgressIsHonest /\ T!LimitPerPass

\* A sum the report states is verified as it was computed, and the check at the end of
\* a pass agrees with the one of the terminal.
FiguresHold == focus = "figures" => F!SumsVerify /\ F!ChecksAgree

\* The watcher's index is as new as the documents that have text and can be read, and what
\* the file trigger reports adds up to the files.
WatchersHold ==
  /\ focus = "knowledge" => K!WatchedIsCurrent
  /\ focus = "triggers" => G!ReportsAddUp

\* A lead scores no more than its documents ever told, and research overlooks none.
ResearchHolds == focus = "research" => R!ScoreIsDeserved /\ R!PainIsFound

\* Reminders do not multiply unless two plan one at once, and the shipped check of the
\* drafts passes at any moment unless an approver has a blank name.
DailyHolds == focus = "daily" => D!RemindersDoNotMultiply /\ D!ShippedCheckPasses

\* The counts of a day that is over stay, once nothing of it is under way.
PastIsSettled == [][focus = "daily" => D!OverIsOver]_vars
=============================================================================
