------------------------------- MODULE Research -------------------------------
(***************************************************************************)
(* How a company becomes a scored lead: sales/discovery.py,                *)
(* sales/research.py and the "all" modes of the tools in                   *)
(* sales/tools/base.py, the steps of DAILY_RESEARCH.                       *)
(*                                                                         *)
(* A document is the set of what the patterns match in it: claim types and *)
(* pain points.  "own" holds company/<stem>.md of each lead, "shared" the  *)
(* one text file there; anybody may write one, also while a command runs.  *)
(* The candidate roster is no document.  Every row is a transaction,       *)
(* "writes" the ones a command has still to make, so a death leaves the    *)
(* first of them.  The documents of a lead are read together.  An          *)
(* evaluation is one step here: SalesLedger takes it apart and lets        *)
(* commands race.                                                          *)
(***************************************************************************)
EXTENDS Scoring

CONSTANTS
  Candidates,    \* the rows of the roster, by their place: 1 .. n
  Page,          \* how many leads search_leads() returns
  Contents,      \* what a document may hold
  MaxCommands, MaxDeaths   \* bounds

ResearchAssumption == Candidates \subseteq Nat \ {0} /\ IsFiniteSet(Candidates) /\ Page \in Nat

VARIABLES
  own, shared,   \* the documents; Absent if there is none
  blank,         \* the leads whose document is the skeleton as it was written
  leads,         \* the leads of the ledger
  evidence,      \* per lead: its rows
  pain_points,   \* per lead: its rows
  scores,        \* per lead: its qualifications
  command,       \* the running command
  queue,         \* the leads it has still to look at
  writes,        \* the rows it has still to write
  ever,          \* history, per lead: what the documents in its scope ever told
  passed,        \* history: "research all" since a document or a lead came: "no", "begun", "yes"
  named,         \* history: was a lead researched by its name?
  commands, lost \* commands begun, commands that died

resVars == <<own, shared, blank, leads, evidence, pain_points, scores, command, queue, writes,
             ever, passed, named, commands, lost>>
documents == <<own, shared, blank, ever>>
ledger == <<leads, evidence, pain_points, scores>>
counts == <<commands, lost>>

Absent == {"absent"}

PAIN_PATTERNS == [
  entry     |-> [severity |-> 4, frequency |-> 5, revenue_impact |-> 3,
                 automation_potential |-> 5, implementation_difficulty |-> 2],
  knowledge |-> [severity |-> 4, frequency |-> 4, revenue_impact |-> 4,
                 automation_potential |-> 4, implementation_difficulty |-> 3]]

Pains == DOMAIN PAIN_PATTERNS

SIGNALS == {"hiring_signal", "budget_signal", "contact_info"}

Company == [industry |-> "brokerage", team_size |-> 12, geography |-> ""]

ICPs == {[industry |-> "brokerage", min_team_size |-> 20, geography |-> "Austin", rank |-> 2]}

\* What the patterns match in a skeleton: it gives examples of each.
_write_skeleton_doc == {"budget_signal", "entry", "knowledge"}

\* A source is a document, by its lead, the shared one, or
Roster == -1
Manual == -2

Row(l, type, source) == [lead |-> l, type |-> type, source |-> source, pain |-> FALSE]

-----------------------------------------------------------------------------
(***************************************************************************)
(* What a command reads.                                                   *)
(***************************************************************************)
\* S in order: before[x] is what comes before x, and the i-th has i - 1 before it.
Listed(S, before) == [i \in 1 .. Cardinality(S) |-> CHOOSE x \in S : Cardinality(before[x]) = i - 1]

LeadScore(l) == IF scores[l] = <<>> THEN 0 ELSE Last(scores[l])

\* By score, then by age; the first page only.
search_leads ==
  LET before == [l \in leads |-> {k \in leads :
        LeadScore(k) > LeadScore(l) \/ (LeadScore(k) = LeadScore(l) /\ k < l)}]
  IN SubSeq(Listed(leads, before), 1, Capped(Cardinality(leads), Page))

AllDocuments == {l \in Candidates : own[l] # Absent}

\* Mutant of _scoped_sources_for_lead: every document of the company folder.
EverySource(l) == AllDocuments \cup (IF shared # Absent THEN {0} ELSE {})

\* A lead's own document and the shared one; with neither, every document.
_scoped_sources_for_lead(l) ==
  LET scoped == (AllDocuments \cap {l}) \cup (IF shared # Absent THEN {0} ELSE {})
  IN IF scoped = {} THEN AllDocuments ELSE scoped

\* A document is named by its lead; the shared one is 0 and is read last.
Text(d) == IF d = 0 THEN shared ELSE own[d]

InOrder(S) == Listed(S, [b \in S |-> {a \in S \ {0} : b = 0 \/ a < b}])

extract_signals(l, d) ==
  LET hits == SetToSeq(Text(d) \cap SIGNALS) IN [i \in DOMAIN hits |-> Row(l, hits[i], d)]

\* Each match is a claim and then the pain point that cites it.
detect_pain(l, d) ==
  FlattenSeq([i \in 1 .. Cardinality(Text(d) \cap Pains) |->
    LET p == SetToSeq(Text(d) \cap Pains)[i]
    IN <<Row(l, p, d), [Row(l, p, d) EXCEPT !.pain = TRUE]>>])

research_lead(l, sources) ==
  LET files == InOrder(sources) IN
  FlattenSeq([i \in DOMAIN files |-> extract_signals(l, files[i]) \o detect_pain(l, files[i])])

\* What the documents in the scope of a lead tell: its own and the shared one, and every
\* one if it has neither.
InScope(l) ==
  LET scoped == {d \in {l, 0} : Text(d) # Absent}
      sources == IF scoped = {} THEN AllDocuments ELSE scoped
  IN {r \in [type : SIGNALS \cup Pains, source : sources, tier : {"OBSERVED"}] :
        r.type \in Text(r.source)}

-----------------------------------------------------------------------------
Init ==
  /\ own \in [Candidates -> Contents \cup {Absent}]
  /\ shared \in Contents \cup {Absent}
  /\ blank = {}
  /\ leads = {}
  /\ evidence = [l \in Candidates |-> <<>>]
  /\ pain_points = [l \in Candidates |-> <<>>]
  /\ scores = [l \in Candidates |-> <<>>]
  /\ command = "none" /\ queue = <<>> /\ writes = <<>>
  /\ ever = [l \in Candidates |-> InScope(l)]
  /\ passed = "no" /\ named = FALSE
  /\ commands = 0 /\ lost = 0

Begins(c) ==
  /\ command = "none" /\ commands < MaxCommands
  /\ command' = c
  /\ commands' = commands + 1
  /\ UNCHANGED <<ledger, lost>>

Birth(l, source) == << Row(l, "lead", source), Row(l, "provenance", source),
                       Row(l, "contact_info", source) >>

\* sales_discover, over the first rows of the roster: each a lead, where its key is new,
\* with the claims of where it came from and how to reach it.
Discover(limit) ==
  LET fresh == InOrder({l \in Candidates : l <= limit} \ leads) IN
  /\ Begins("discover")
  /\ writes' = FlattenSeq([i \in DOMAIN fresh |-> Birth(fresh[i], Roster)])
  /\ passed' = "no"
  /\ UNCHANGED <<documents, queue, named>>

\* The documents are not as they were: what they tell now is told for good.
Written ==
  /\ ever' = [l \in Candidates |-> ever[l] \cup InScope(l)']
  /\ passed' = "no"

\* A company entered by hand: the document given replaces the one it has, without either
\* it gets a skeleton.  If it is no lead yet it becomes one, which may be researched from
\* that document and scored at once.
Add(l, text, research) ==
  LET new == l \notin leads
      skeleton == text = Absent /\ own[l] = Absent
  IN
  /\ Begins("score")
  /\ own' = [own EXCEPT ![l] = IF skeleton THEN _write_skeleton_doc
                               ELSE IF text # Absent THEN text ELSE @]
  /\ blank' = IF skeleton THEN blank \cup {l} ELSE IF text # Absent THEN blank \ {l} ELSE blank
  /\ UNCHANGED <<shared, named>>
  /\ Written
  /\ writes' = IF new THEN Birth(l, Manual) \o (IF research THEN research_lead(l, {l})' ELSE <<>>)
               ELSE <<>>
  /\ queue' = IF new /\ research THEN <<l>> ELSE <<>>

\* Somebody writes a document, a skeleton or another, whatever command is running.
FillIn(d, text) ==
  /\ commands < MaxCommands
  /\ commands' = commands + 1
  /\ own' = IF d = 0 THEN own ELSE [own EXCEPT ![d] = text]
  /\ shared' = IF d = 0 THEN text ELSE shared
  /\ blank' = blank \ {d}
  /\ Written
  /\ UNCHANGED <<ledger, command, queue, writes, named, lost>>

\* sales_research and sales_qualify of "all": the leads are listed first.
All(c) ==
  /\ c \in {"research", "qualify"}
  /\ Begins(c)
  /\ queue' = search_leads
  /\ passed' = IF c = "research" /\ passed = "no" THEN "begun" ELSE passed
  /\ UNCHANGED <<documents, writes, named>>

\* One lead by its name, researched whatever there is already.
ResearchNamed(l, sources) ==
  /\ l \in leads
  /\ Begins("name")
  /\ writes' = research_lead(l, sources)
  /\ named' = TRUE
  /\ UNCHANGED <<documents, queue, passed>>

\* One lead by its name, scored again whatever it scored before.
QualifyNamed(l) ==
  /\ l \in leads /\ evidence[l] # <<>>
  /\ Begins("score")
  /\ queue' = <<l>>
  /\ UNCHANGED <<documents, writes, passed, named>>

Researched(l) == pain_points[l] # <<>>

\* The next lead of the list: researched ones are passed over.
ResearchNext ==
  LET l == Head(queue) IN
  /\ command = "research" /\ queue # <<>> /\ writes = <<>>
  /\ queue' = Tail(queue)
  /\ writes' = IF Researched(l) THEN <<>> ELSE research_lead(l, _scoped_sources_for_lead(l))
  /\ UNCHANGED <<documents, ledger, command, passed, named, counts>>

\* evaluate(): the score of what is stored; without evidence there is none.
evaluate(l) ==
  Score(Company, ICPs,
        [i \in DOMAIN evidence[l] |-> [type |-> evidence[l][i].type, tier |-> "OBSERVED",
                                       source |-> evidence[l][i].source]],
        [i \in DOMAIN pain_points[l] |-> PAIN_PATTERNS[pain_points[l][i].type]], TRUE)

\* The next lead of the list: qualified ones and ones without evidence are passed over.
\* A lead just added is scored once it is written, a named one in any case.
QualifyNext ==
  LET l == Head(queue) IN
  /\ command \in {"qualify", "score"} /\ queue # <<>> /\ writes = <<>>
  /\ queue' = Tail(queue)
  /\ scores' = IF command = "qualify" /\ (scores[l] # <<>> \/ evidence[l] = <<>>) THEN scores
               ELSE [scores EXCEPT ![l] = Append(@, evaluate(l))]
  /\ UNCHANGED <<documents, leads, evidence, pain_points, command, writes, passed, named, counts>>

\* The next row.
Write ==
  LET w == Head(writes) IN
  /\ writes # <<>>
  /\ writes' = Tail(writes)
  /\ leads' = IF w.type = "lead" THEN leads \cup {w.lead} ELSE leads
  /\ evidence' = IF w.type = "lead" \/ w.pain THEN evidence
                 ELSE [evidence EXCEPT ![w.lead] = Append(@, w)]
  /\ pain_points' = IF w.pain THEN [pain_points EXCEPT ![w.lead] = Append(@, w)] ELSE pain_points
  /\ UNCHANGED <<documents, scores, command, queue, passed, named, counts>>

End ==
  /\ command # "none" /\ queue = <<>> /\ writes = <<>>
  /\ command' = "none"
  /\ passed' = IF command = "research" /\ passed = "begun" THEN "yes" ELSE passed
  /\ UNCHANGED <<documents, ledger, queue, writes, named, counts>>

\* The command dies; its next row is never written.
Die ==
  /\ command # "none" /\ lost < MaxDeaths
  /\ lost' = lost + 1
  /\ command' = "none" /\ queue' = <<>> /\ writes' = <<>>
  /\ UNCHANGED <<documents, ledger, passed, named, commands>>

\* The tools of a run and the commands of the terminal.
SalesDiscoverTool == \E n \in Candidates : Discover(n)

SalesResearchTool ==
  All("research") \/ \E l \in leads : ResearchNamed(l, _scoped_sources_for_lead(l))

SalesQualifyTool == All("qualify") \/ \E l \in leads : QualifyNamed(l)

cmd_lead_discover == \E n \in Candidates : Discover(n)

\* Without sources it names those of the docs folder inside company/: they are not there.
cmd_lead_research == \E l \in leads, S \in {{}} \cup {{d} : d \in AllDocuments} : ResearchNamed(l, S)

cmd_lead_qualify == \E l \in leads : QualifyNamed(l)

cmd_add ==
  \E l \in Candidates, text \in Contents \cup {Absent}, research \in BOOLEAN : Add(l, text, research)

Edits == \E d \in Candidates \cup {0}, text \in Contents : FillIn(d, text)

Next ==
  \/ SalesDiscoverTool \/ SalesResearchTool \/ SalesQualifyTool
  \/ cmd_lead_discover \/ cmd_lead_research \/ cmd_lead_qualify \/ cmd_add \/ Edits
  \/ ResearchNext \/ QualifyNext \/ Write \/ End \/ Die

ResearchSpec == Init /\ [][Next]_resVars

-----------------------------------------------------------------------------
(***************************************************************************)
(* Properties                                                              *)
(***************************************************************************)
\* What a lead is worth: from the roster and all that the documents in its scope ever told,
\* each finding once.
Deserved(l) ==
  LET roster == {[type |-> "contact_info", source |-> Roster, tier |-> "OBSERVED"]}
      pains == SetToSeq({r \in ever[l] : r.type \in Pains})
  IN Score(Company, ICPs, SetToSeq({r \in ever[l] : r.type \in SIGNALS} \cup roster),
           [i \in DOMAIN pains |-> PAIN_PATTERNS[pains[i].type]], TRUE)

\* "one prospect's evidence does not inflate another's score", nor does research that
\* died and was done again, nor a document that was written over: no lead scores more
\* than the documents in its scope ever told, unless somebody researched it by name,
\* which repeats its pain points.
ScoreIsDeserved ==
  ~named => \A l \in leads : \A i \in DOMAIN scores[l] : scores[l][i] <= Deserved(l)

HasPain(l) == \E d \in _scoped_sources_for_lead(l) : Text(d) \cap Pains # {}

\* After a whole pass over a ledger of one page, and until a document is written, a lead
\* whose documents tell of pain has pain points: what discovery attached did not make it
\* look researched, and no death has hidden it.
PainIsFound ==
  passed = "yes" /\ command = "none" /\ Cardinality(leads) <= Page =>
    \A l \in leads : HasPain(l) => pain_points[l] # <<>>

\* "'all' to process every un-researched lead": however many there are.
AllMeansEveryLead ==
  passed = "yes" /\ command = "none" => \A l \in leads : HasPain(l) => pain_points[l] # <<>>

\* "until then, research degrades gracefully (no fabricated evidence)": what nobody has
\* filled in is evidence of nothing.
SkeletonIsNoEvidence ==
  \A l \in leads : \A i \in DOMAIN evidence[l] : evidence[l][i].source \notin blank
=============================================================================
