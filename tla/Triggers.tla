------------------------------ MODULE Triggers ------------------------------
(***************************************************************************)
(* The triggers of a worker: sworker/trigger.py and the command trigger of *)
(* cli.py.  A thread hashes the files of a root one after the other while  *)
(* others write them, and reports those that differ from the last round;   *)
(* the webhook server answers first and reports then.                      *)
(***************************************************************************)
EXTENDS Integers

CONSTANTS
  Files,          \* files of the watched root
  Paths,          \* paths of webhooks the worker declares
  Unknown,        \* a path nobody declares
  MaxWrites,      \* bound: changes of files
  MaxRounds,      \* bound: rounds of the watcher
  MaxPosts        \* bound: requests to the webhook server

TriggersAssumption ==
  Unknown \notin Paths /\ {MaxWrites, MaxRounds, MaxPosts} \subseteq Nat

VARIABLES
  content,      \* file -> its content, 0 for none
  last,         \* the hashes of the round before, or Unprimed
  cur, left,    \* the hashes of this round, and the files it still has to hash
  scanning,
  told,         \* file -> the content somebody who reads what is reported knows
  accepted,     \* the request that was answered 202 and not reported yet, or Unknown
  answers,      \* history: how often a path was accepted and how often reported
  writes, rounds, posts

trigVars == <<content, last, cur, left, scanning, told, accepted, answers, writes, rounds,
              posts>>

Absent == [f \in Files |-> 0]
Unprimed == [f \in Files |-> -1]

-----------------------------------------------------------------------------
TrigInit ==
  /\ content \in [Files -> {0, 1}]
  /\ last = Unprimed /\ cur = Absent /\ left = {} /\ scanning = FALSE
  /\ told = Absent
  /\ accepted = Unknown /\ answers = [p \in Paths |-> [accepted |-> 0, reported |-> 0]]
  /\ writes = 0 /\ rounds = 0 /\ posts = 0

Write(f) ==
  /\ writes < MaxWrites
  /\ writes' = writes + 1
  /\ \E v \in {0, writes + 2} : v # content[f] /\ content' = [content EXCEPT ![f] = v]
  /\ UNCHANGED <<last, cur, left, scanning, told, accepted, answers, rounds, posts>>

\* snapshot_roots() lists the directory ...
Scan ==
  /\ ~scanning /\ rounds < MaxRounds
  /\ rounds' = rounds + 1
  /\ scanning' = TRUE
  /\ left' = {f \in Files : content[f] # 0} /\ cur' = Absent
  /\ UNCHANGED <<content, last, told, accepted, answers, writes, posts>>

\* ... and hashes what it listed; a file that is gone by then is left out.
Hash(f) ==
  /\ f \in left
  /\ left' = left \ {f}
  /\ cur' = [cur EXCEPT ![f] = content[f]]
  /\ UNCHANGED <<content, last, scanning, told, accepted, answers, writes, rounds, posts>>

\* What is there and was not there, or was different, the round before.
Changed == {f \in Files : cur[f] # 0 /\ cur[f] # last[f]}

\* The first round is the baseline and reports nothing.  Whoever is told reads the file.
Report ==
  /\ scanning /\ left = {}
  /\ told' = IF last = Unprimed THEN cur
             ELSE [f \in Files |-> IF f \in Changed THEN content[f] ELSE told[f]]
  /\ last' = cur /\ scanning' = FALSE
  /\ UNCHANGED <<content, cur, left, accepted, answers, writes, rounds, posts>>

\* The server takes one request at a time.  Methods other than POST, paths nobody
\* registered and wrong secrets are refused; what is accepted is answered first.
Post(path, secretOk) ==
  /\ accepted = Unknown /\ posts < MaxPosts
  /\ posts' = posts + 1
  /\ IF path \in Paths /\ secretOk
     THEN /\ accepted' = path
          /\ answers' = [answers EXCEPT ![path].accepted = @ + 1]
     ELSE UNCHANGED <<accepted, answers>>
  /\ UNCHANGED <<content, last, cur, left, scanning, told, writes, rounds>>

Reported ==
  /\ accepted # Unknown
  /\ answers' = [answers EXCEPT ![accepted].reported = @ + 1]
  /\ accepted' = Unknown
  /\ UNCHANGED <<content, last, cur, left, scanning, told, writes, rounds, posts>>

\* trigger watch runs the rounds of FileWatcher.run, trigger serve the server.
Watch == Scan \/ Report \/ \E f \in Files : Hash(f)

Serve == Reported \/ \E path \in Paths \cup {Unknown}, secretOk \in BOOLEAN : Post(path, secretOk)

CmdTrigger == Watch \/ Serve

TrigNext == CmdTrigger \/ \E f \in Files : Write(f)

TrigSpec == TrigInit /\ [][TrigNext]_trigVars

-----------------------------------------------------------------------------
\* "fires when a file is created/modified": once a round has seen the files as they
\* are, whoever reads what is reported knows every one of them, whatever was written,
\* taken away and put back while files were hashed and reports made.
ReportsAddUp ==
  ~scanning /\ last # Unprimed =>
    \A f \in Files : content[f] # 0 /\ content[f] = last[f] => told[f] = content[f]
=============================================================================
