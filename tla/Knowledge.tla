------------------------------ MODULE Knowledge ------------------------------
(***************************************************************************)
(* The compiled index of the company's documents: sworker/knowledge.py and *)
(* the command knowledge of cli.py.  Documents are read one by one while   *)
(* people go on writing them; the Atlas compiler itself is not part of the *)
(* repository: its store keeps, per source, what was ingested last.        *)
(***************************************************************************)
EXTENDS Integers

CONSTANTS
  Markdown,       \* documents Atlas reads itself
  Adapted,        \* documents whose text is extracted first: pdf, docx, json
  Commands,       \* compile and rebuild commands under way beside the watcher
  MaxEdits,       \* bound: changes of documents
  MaxJobs,        \* bound: compile and rebuild commands given
  MaxFailures     \* bound: compiles that fail or die

KnowledgeAssumption ==
  /\ Markdown \cap Adapted = {}
  /\ "watcher" \notin Commands
  /\ {MaxEdits, MaxJobs, MaxFailures} \subseteq Nat

VARIABLES
  corpus,       \* document -> its version, 0 for none, negative with too little text
  access,       \* document -> may it be read: "open", "locked", or "reopened" with the
                \* version that was locked
  dir,          \* is there a directory of the index?
  index,        \* document -> the version ingested last, 0 for none
  job,          \* per compiler: what it does, found, has left to read, and has read
  seen,         \* the watcher's snapshot, or NotWatching
  outcome,      \* how the watcher's last compile ended
  quiet,        \* has the watcher polled since without compiling?
  edits, jobs, failures

knowVars == <<corpus, access, dir, index, job, seen, outcome, quiet, edits, jobs, failures>>

Documents == Markdown \cup Adapted
Compilers == Commands \cup {"watcher"}

Nothing == [d \in Documents |-> 0]
NotWatching == [d \in {} |-> 0]
Idle == [does |-> "idle", found |-> {}, left |-> {}, got |-> Nothing]

-----------------------------------------------------------------------------
\* What can be ingested: it can be read and has text enough.
Readable(d) == corpus[d] > 0 /\ access[d] # "locked"

\* collect_sources(): the text of an adapted document is extracted on the way, and
\* without one it is skipped; a markdown file is only listed.
Collected == {d \in Documents : IF d \in Adapted THEN Readable(d) ELSE corpus[d] # 0}

Compile == [does |-> "compile", found |-> Collected, left |-> Collected,
            got |-> [d \in Documents |-> IF d \in Adapted /\ Readable(d) THEN corpus[d] ELSE 0]]

\* atlas_index_status(): the checksum recorded for an adapted document is that of its
\* extracted text, so it is never the checksum of the file it is compared with.  A file
\* that may not be read is compared with nothing.
Gone == {d \in Documents : index[d] # 0 /\ corpus[d] = 0}
Stale == {d \in Documents : index[d] # 0 /\ corpus[d] # 0 /\
                            access[d] # "locked" /\ (d \in Adapted \/ index[d] # corpus[d])}

-----------------------------------------------------------------------------
KnowInit ==
  /\ corpus \in [Documents -> {0, 1, -1}] /\ access = [d \in Documents |-> "open"]
  /\ dir = TRUE /\ index = Nothing
  /\ job = [c \in Compilers |-> Idle]
  /\ seen = NotWatching /\ outcome = "none" /\ quiet = FALSE
  /\ edits = 0 /\ jobs = 0 /\ failures = 0

\* Somebody writes a document, a text or little more than nothing, or deletes it.
Edit(d) ==
  /\ edits < MaxEdits
  /\ edits' = edits + 1
  /\ \E v \in {0, edits + 2, -(edits + 2)} :
       /\ v # corpus[d] /\ (v = 0 \/ access[d] # "locked")
       /\ corpus' = [corpus EXCEPT ![d] = v]
  /\ access' = [access EXCEPT ![d] = "open"]
  /\ UNCHANGED <<dir, index, job, seen, outcome, quiet, jobs, failures>>

\* Somebody takes away the permission to read it, or gives it back; its version stays.
Chmod(d) ==
  /\ edits < MaxEdits /\ corpus[d] # 0
  /\ edits' = edits + 1
  /\ access' = [access EXCEPT ![d] = IF @ = "locked" THEN "reopened" ELSE "locked"]
  /\ UNCHANGED <<corpus, dir, index, job, seen, outcome, quiet, jobs, failures>>

\* incremental_compile(), of a command; the command makes the workspace's
\* directories first.
Begin(c) ==
  /\ job[c] = Idle /\ jobs < MaxJobs
  /\ jobs' = jobs + 1
  /\ dir' = TRUE
  /\ job' = [job EXCEPT ![c] = Compile]
  /\ UNCHANGED <<corpus, access, index, seen, outcome, quiet, edits, failures>>

\* rebuild_index() removes the directory of an index that has something in it ...
Rebuild(c) ==
  /\ job[c] = Idle /\ jobs < MaxJobs
  /\ jobs' = jobs + 1
  /\ dir' = (index = Nothing)
  /\ index' = Nothing
  /\ job' = [job EXCEPT ![c] = [Idle EXCEPT !.does = "rebuild"]]
  /\ UNCHANGED <<corpus, access, seen, outcome, quiet, edits, failures>>

\* ... and then compiles.
Recompile(c) ==
  /\ job[c].does = "rebuild"
  /\ job' = [job EXCEPT ![c] = Compile]
  /\ UNCHANGED <<corpus, access, dir, index, seen, outcome, quiet, edits, jobs, failures>>

\* A markdown file is read now, and passed over if it cannot be read or has too little
\* text; an extracted text goes through a temporary file in the directory of the index,
\* and is passed over if there is no such directory.
Read(c, d) ==
  /\ job[c].does = "compile" /\ d \in job[c].left
  /\ job' = [job EXCEPT ![c].left = @ \ {d},
                        ![c].got[d] = IF d \in Markdown
                                      THEN IF Readable(d) THEN corpus[d] ELSE 0
                                      ELSE IF dir THEN @ ELSE 0]
  /\ UNCHANGED <<corpus, access, dir, index, seen, outcome, quiet, edits, jobs, failures>>

Reported(c, result) ==
  /\ outcome' = IF c = "watcher" THEN result ELSE outcome
  /\ quiet' = IF c = "watcher" THEN FALSE ELSE quiet

\* Mutant of Ingested: what was ingested already is not ingested again.
IngestedOnce(c, d) == IF index[d] # 0 THEN index[d] ELSE job[c].got[d]

\* The store keeps a source nobody ingested this time.
Ingested(c, d) == IF job[c].got[d] # 0 THEN job[c].got[d] ELSE index[d]

\* The store is opened, which makes its directory, and takes the sources.
Store(c) ==
  /\ job[c].does = "compile" /\ job[c].left = {} /\ job[c].found # {}
  /\ dir' = TRUE
  /\ index' = [d \in Documents |-> Ingested(c, d)]
  /\ job' = [job EXCEPT ![c] = Idle]
  /\ Reported(c, "ok")
  /\ UNCHANGED <<corpus, access, seen, edits, jobs, failures>>

\* Nothing to compile, the compiler failed, or the process died.
Fail(c) ==
  /\ job[c] # Idle
  /\ IF job[c].does = "compile" /\ job[c].found = {} THEN UNCHANGED failures
     ELSE failures < MaxFailures /\ failures' = failures + 1
  /\ job' = [job EXCEPT ![c] = Idle]
  /\ Reported(c, "failed")
  /\ UNCHANGED <<corpus, access, dir, index, seen, edits, jobs>>

\* watch_knowledge() takes what there is as seen.
Watch ==
  /\ seen = NotWatching
  /\ seen' = corpus
  /\ UNCHANGED <<corpus, access, dir, index, job, outcome, quiet, edits, jobs, failures>>

\* The time and size of each document, which every change changes.
Snapshot == corpus

\* A poll that finds a difference remembers what it saw and compiles.
Poll ==
  /\ seen # NotWatching /\ job["watcher"] = Idle /\ Snapshot # seen
  /\ seen' = Snapshot
  /\ job' = [job EXCEPT !["watcher"] = Compile]
  /\ outcome' = "none" /\ quiet' = FALSE
  /\ UNCHANGED <<corpus, access, dir, index, edits, jobs, failures>>

PollQuiet ==
  /\ seen # NotWatching /\ job["watcher"] = Idle /\ Snapshot = seen
  /\ quiet' = TRUE
  /\ UNCHANGED <<corpus, access, dir, index, job, seen, outcome, edits, jobs, failures>>

\* The command knowledge: compile, rebuild and watch.
CmdKnowledge == Watch \/ \E c \in Commands : Begin(c) \/ Rebuild(c)

KnowNext ==
  \/ \E d \in Documents : Edit(d) \/ Chmod(d)
  \/ CmdKnowledge
  \/ \E c \in Compilers :
       \/ Recompile(c) \/ Store(c) \/ Fail(c)
       \/ \E d \in Documents : Read(c, d)
  \/ Poll \/ PollQuiet

KnowSpec == KnowInit /\ [][KnowNext]_knowVars

-----------------------------------------------------------------------------
(* What the tool knowledge.search answers to a question every document answers: *)
(* claims of the index or, if there is none, lines of the markdown documents.    *)
SearchClaims == {<<d, index[d]>> : d \in {e \in Documents : index[e] # 0}}
GrepKnowledge == {<<d, corpus[d]>> : d \in {e \in Markdown : corpus[e] # 0 /\ access[e] # "locked"}}
KnowledgeSearch == IF SearchClaims # {} THEN SearchClaims ELSE GrepKnowledge

\* When the watcher, alone at work, polls and finds nothing new after a compile that
\* went well, a markdown document that has text enough, and that nobody was kept from
\* reading, is not outdated and a search answers with its present content, however the
\* documents changed while they were read.
WatchedIsCurrent ==
  outcome = "ok" /\ quiet /\ seen = corpus /\ jobs = 0 =>
    \A d \in Markdown : corpus[d] > 0 /\ access[d] = "open" =>
      d \notin Stale /\ <<d, corpus[d]>> \in KnowledgeSearch

\* WatchedDropsClaims: what "keep the compiled index in sync with the source corpus"
\* (knowledge.py:553) claims beyond that.  A document cut down to little text, or deleted,
\* keeps the claims of its last text; one locked while it was compiled is not compiled
\* when it is reopened.
WatchedDropsClaims ==
  outcome = "ok" /\ quiet /\ seen = corpus /\ jobs = 0 =>
    \A d \in Markdown : index[d] = IF Readable(d) THEN corpus[d] ELSE 0

\* "a compile failure is reported and the watcher keeps running (the next poll
\* retries) rather than silently marking the index as current".
FailureIsRetried == ~(outcome = "failed" /\ quiet /\ Collected # {})

\* A rebuild compiles what an incremental compile compiles.
RebuildLosesNothing ==
  jobs = 2 /\ edits = 0 /\ failures = 0 /\ (\A c \in Compilers : job[c] = Idle) =>
    \A d \in Documents : Readable(d) => index[d] # 0
=============================================================================
