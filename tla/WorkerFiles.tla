---------------------------- MODULE WorkerFiles ----------------------------
(***************************************************************************)
(* The worker files of a workspace: sworker/lifecycle.py, templates.py,    *)
(* the loading of config.py, and the commands of cli.py around them.  A    *)
(* command reads and checks, records a snapshot of the file it is about to *)
(* change, and writes the file; open(.., "w") empties it first, so that a  *)
(* death in the middle leaves a file nothing can be loaded from.           *)
(***************************************************************************)
EXTENDS Integers

CONSTANTS
  Names,          \* names of workers
  Texts,          \* what else there is in a worker's file
  Commands,       \* commands under way at one time
  MaxStarts,      \* bound: commands started
  MaxDeaths       \* bound: commands that die

WorkerFilesAssumption ==
  /\ Texts \cap {"template", "none", "torn"} = {}
  /\ MaxStarts \in Nat /\ MaxDeaths \in Nat

VARIABLES
  file,           \* name -> the content of its file, NoFile, or Torn
  history,        \* name -> the contents recorded under versions/
  shelf,          \* name -> the content in archived/, or NoFile
  market,         \* name -> the content in marketplace/, or NoFile
  parcel,         \* the content of an exported file somebody carries about
  at, job,        \* per command: the step it makes next and what it has computed
  starts, deaths,
  turns           \* do the commands take turns?

fileVars == <<file, history, shelf, market, parcel, at, job, starts, deaths, turns>>

\* limits: does the file set max_actions and its like, or leave the defaults?
Contents == [text : Texts \cup {"template"}, limits : {"own", "default"}, disabled : BOOLEAN]

Template == [text |-> "template", limits |-> "default", disabled |-> FALSE]
NoFile   == [Template EXCEPT !.text = "none"]
Torn     == [Template EXCEPT !.text = "torn"]

NoJob == [name |-> "none", content |-> NoFile, kind |-> "none"]

-----------------------------------------------------------------------------
FilesInit ==
  /\ file \in [Names -> {NoFile} \cup
                 [text : Texts, limits : {"own"}, disabled : {FALSE}]]
  /\ \E n \in Names : file[n] # NoFile
  /\ history = [n \in Names |-> {}]
  /\ shelf = [n \in Names |-> NoFile]
  /\ market = [n \in Names |-> NoFile]
  /\ parcel = NoFile
  /\ at = [c \in Commands |-> "idle"]
  /\ job = [c \in Commands |-> NoJob]
  /\ starts = 0 /\ deaths = 0
  /\ turns \in BOOLEAN

\* load_worker(): the policy, the tools and the flags are taken from the file;
\* the resource limits are not.
Loaded(content) == [content EXCEPT !.limits = "default"]

\* get_worker() finds a file it can load.
Loadable(n) == file[n] \notin {NoFile, Torn}

Ready(c) ==
  /\ at[c] = "idle" /\ starts < MaxStarts
  /\ turns => \A d \in Commands : at[d] = "idle"

\* Command c goes on to step next for the file of n.
Begin(c, next, kind, n, content) ==
  /\ Ready(c)
  /\ starts' = starts + 1
  /\ at' = [at EXCEPT ![c] = next]
  /\ job' = [job EXCEPT ![c] = [name |-> n, content |-> content, kind |-> kind]]
  /\ UNCHANGED <<file, history, shelf, market, parcel, deaths, turns>>

\* set_enabled() renders what it has loaded, with the flag flipped.
SetEnabled(c, n, disabled) ==
  /\ Loadable(n)
  /\ Begin(c, "snapshot", "write", n, [Loaded(file[n]) EXCEPT !.disabled = disabled])

\* clone() refuses an existing target unless it is forced.
Clone(c, src, dst, force) ==
  /\ Loadable(src)
  /\ file[dst] = NoFile \/ force
  /\ Begin(c, "snapshot", "write", dst, Loaded(file[src]))

\* archive() finds the worker; the copy in archived/ is looked for afterwards.
Archive(c, n) ==
  /\ Loadable(n)
  /\ Begin(c, "snapshot", "move", n, NoFile)

\* import_worker() takes the mapping as it stands in the file it is given.
Import(c, n, content, force) ==
  /\ content # NoFile
  /\ file[n] = NoFile \/ force
  /\ Begin(c, "snapshot", "write", n, content)

ImportParcel(c, n, force) == Import(c, n, parcel, force)

ImportFromMarket(c, n, force) == Import(c, n, market[n], force)

\* create_worker() writes a template over a file it is forced to replace, and
\* keeps no snapshot of it.
CreateFromTemplate(c, n, force) ==
  /\ file[n] = NoFile \/ force
  /\ Begin(c, "empty", "write", n, Template)

\* export_worker() and publish_to_marketplace() write what is loaded, elsewhere.
Export(c, n) ==
  /\ Ready(c) /\ Loadable(n)
  /\ parcel' = Loaded(file[n])
  /\ starts' = starts + 1
  /\ UNCHANGED <<file, history, shelf, market, at, job, deaths, turns>>

PublishToMarket(c, n) ==
  /\ Ready(c) /\ Loadable(n) /\ market[n] = NoFile
  /\ market' = [market EXCEPT ![n] = Loaded(file[n])]
  /\ starts' = starts + 1
  /\ UNCHANGED <<file, history, shelf, parcel, at, job, deaths, turns>>

-----------------------------------------------------------------------------
\* Mutant of Snapshot: the version recorded is the one that is going to be.
SnapshotNew(c) ==
  /\ at[c] = "snapshot"
  /\ LET n == job[c].name IN
       history' = IF file[n] = NoFile THEN history
                  ELSE [history EXCEPT ![n] = @ \cup {job[c].content}]
  /\ at' = [at EXCEPT ![c] = IF job[c].kind = "move" THEN "move" ELSE "empty"]
  /\ UNCHANGED <<file, shelf, market, parcel, job, starts, deaths, turns>>

\* _snapshot() keeps what the file holds by now, if there is one.
Snapshot(c) ==
  /\ at[c] = "snapshot"
  /\ LET n == job[c].name IN
       history' = IF file[n] = NoFile THEN history
                  ELSE [history EXCEPT ![n] = @ \cup {file[n]}]
  /\ at' = [at EXCEPT ![c] = IF job[c].kind = "move" THEN "move" ELSE "empty"]
  /\ UNCHANGED <<file, shelf, market, parcel, job, starts, deaths, turns>>

\* The file is opened for writing, which empties it ...
Empty(c) ==
  /\ at[c] = "empty"
  /\ file' = [file EXCEPT ![job[c].name] = Torn]
  /\ at' = [at EXCEPT ![c] = "fill"]
  /\ UNCHANGED <<history, shelf, market, parcel, job, starts, deaths, turns>>

\* ... and written.
Fill(c) ==
  /\ at[c] = "fill"
  /\ file' = [file EXCEPT ![job[c].name] = job[c].content]
  /\ at' = [at EXCEPT ![c] = "idle"]
  /\ job' = [job EXCEPT ![c] = NoJob]
  /\ UNCHANGED <<history, shelf, market, parcel, starts, deaths, turns>>

\* archive() refuses when there is an archived copy already; the snapshot stays.
Move(c) ==
  /\ at[c] = "move"
  /\ LET n == job[c].name IN
       IF shelf[n] = NoFile /\ file[n] # NoFile
       THEN /\ shelf' = [shelf EXCEPT ![n] = file[n]]
            /\ file' = [file EXCEPT ![n] = NoFile]
       ELSE UNCHANGED <<shelf, file>>
  /\ at' = [at EXCEPT ![c] = "idle"]
  /\ job' = [job EXCEPT ![c] = NoJob]
  /\ UNCHANGED <<history, market, parcel, starts, deaths, turns>>

Die(c) ==
  /\ at[c] # "idle" /\ deaths < MaxDeaths
  /\ deaths' = deaths + 1
  /\ at' = [at EXCEPT ![c] = "idle"]
  /\ job' = [job EXCEPT ![c] = NoJob]
  /\ UNCHANGED <<file, history, shelf, market, parcel, starts, turns>>

\* The commands worker and template.
CmdWorkerLifecycle(c, n, flag) ==
  \/ SetEnabled(c, n, flag) \/ ImportParcel(c, n, flag)
  \/ \E m \in Names : Clone(c, n, m, flag)
  \/ Archive(c, n) \/ Export(c, n)

CmdTemplate(c, n, flag) ==
  \/ CreateFromTemplate(c, n, flag) \/ ImportFromMarket(c, n, flag)
  \/ PublishToMarket(c, n)

FilesNext ==
  \E c \in Commands :
    \/ \E n \in Names, flag \in BOOLEAN : CmdWorkerLifecycle(c, n, flag) \/ CmdTemplate(c, n, flag)
    \/ Snapshot(c) \/ Empty(c) \/ Fill(c) \/ Move(c) \/ Die(c)

FilesSpec == FilesInit /\ [][FilesNext]_fileVars

-----------------------------------------------------------------------------
\* "records each mutation so lifecycle changes are auditable and reversible":
\* while the commands take turns, a content that a lifecycle command takes away
\* from a worker's file, by finishing or by dying halfway, is among its versions.
\* (A template forced over a worker is not such a command.)
ReplacedStays ==
  turns => \A n \in Names :
    Loadable(n) /\ file'[n] # file[n] =>
      \/ file[n] \in history[n]
      \/ \E c \in Commands : job[c].name = n /\ job[c].content = Template
=============================================================================
