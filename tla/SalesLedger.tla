----------------------------- MODULE SalesLedger -----------------------------
(***************************************************************************)
(* SalesRepository of sales/repository.py and the handlers on top of it:   *)
(* discovery, qualification, stage moves, outreach and follow-ups.         *)
(*                                                                         *)
(* Every _insert and _update commits on its own, so a handler is a list of *)
(* transactions, and what it read before the first may be stale at each.   *)
(* A caller is a command, a sales tool of a run or a web request; "call"   *)
(* holds its variables and pc its next transaction:                        *)
(*                                                                         *)
(*   discover   company | lead | birth | attach                            *)
(*   research   evidence, if any was found, | feed                         *)
(*   evaluate   version | score | cache                                    *)
(*   move       stage | history | feed                                     *)
(*   draft      draft | feed                                               *)
(*   approve    approve                                                    *)
(*   send       sent | count | feed | remind, then as schedule             *)
(*   schedule   followup | next | task                                     *)
(*                                                                         *)
(* A lead is its dedupe key, which the schema makes UNIQUE, as it does a   *)
(* lead's qualification versions.  A score stands for the number of        *)
(* evidence rows it was computed from.  No command completes a task or a   *)
(* follow-up, edits a lead or records an outcome: those methods of the     *)
(* repository have no caller and no action here.  The schema also refuses  *)
(* a lead whose candidate names a prospect the ledger does not have, and   *)
(* by then its company is committed.                                       *)
(***************************************************************************)
EXTENDS SalesPipeline, Integers, FiniteSets, Sequences

CONSTANTS
  Callers,
  Keys,           \* companies, by dedupe key
  Drafts,         \* outreach drafts, by id
  People,         \* who approves
  None,           \* nobody, nothing
  MaxMoves,       \* bounds: stage changes of a lead,
  MaxEvidence,    \*         evidence rows of a lead,
  MaxCalls,       \*         calls begun by callers that take turns,
  MaxRaces,       \*         calls begun by callers that race,
  MaxCrashes      \*         callers that die

ASSUME LedgerAssumption ==
  /\ None \notin Stages \cup Keys \cup Drafts \cup People
  /\ {MaxMoves, MaxEvidence, MaxCalls, MaxRaces, MaxCrashes} \subseteq Nat

VARIABLES
  companies,    \* per key: company rows inserted
  lead,         \* per key: the lead row (lost_reason: is there one?)
  history,      \* per key: pipeline_history
  evidence,     \* per key: evidence rows
  quals,        \* per key: the scores of the qualifications, by version
  feed,         \* per key: activity rows
  draft,        \* per id: the draft row
  metric,       \* experiment_metrics.sent, all days and experiments together
  followups, tasks,   \* per key: open ones
  pc, call,     \* per caller
  sends,        \* history: per draft, how often it was marked sent
  refused,      \* history: per key, leads refused for a prospect nobody knows
  reads,        \* history: per key, researches that read a document
  begun, crashes,
  ordered       \* do the callers take turns, as the commands of one terminal do?

crm == <<companies, lead, history, evidence, quals, refused, reads>>
outreach == <<draft, metric, sends>>
reminders == <<followups, tasks>>
rest == <<begun, crashes, ordered>>
vars == <<crm, outreach, reminders, feed, pc, call, rest>>

NoLead == [stage |-> None, lost_reason |-> FALSE, score |-> 0, version |-> 0, next |-> None]

Leads == [stage : Stages \cup {None}, lost_reason : BOOLEAN, score : Nat,
          version : Nat, next : Ruled \cup {None}]

NoDraft == [state |-> "none", key |-> None, by |-> None, counted |-> FALSE]

DraftRows == [state : {"none", "draft", "approved", "sent"}, key : Keys \cup {None},
              by : People \cup {None}, counted : BOOLEAN]

Transitions == [from : Stages \cup {None}, to : Stages]

NoCall == [key |-> None, id |-> None, by |-> None, from |-> None, to |-> None,
           score |-> 0, version |-> 0, reason |-> FALSE, exp |-> FALSE, known |-> TRUE,
           op |-> "none"]

CallRecords == [key : Keys \cup {None}, id : Drafts \cup {None}, by : People \cup {None},
                from : Stages \cup {None}, to : Stages \cup {None}, score : Nat, version : Nat,
                reason : BOOLEAN, exp : BOOLEAN, known : BOOLEAN,
                op : {"none", "discover", "research", "evaluate", "move", "draft", "approve",
                      "send", "schedule"}]

PCs == {"idle", "company", "lead", "birth", "attach", "version", "score", "cache", "stage",
        "history", "draft", "approve", "sent", "count", "feed", "remind", "followup", "next",
        "task"}

Exists(k) == lead[k].stage # None

-----------------------------------------------------------------------------
Init ==
  /\ companies = [k \in Keys |-> 0]
  /\ lead = [k \in Keys |-> NoLead]
  /\ history = [k \in Keys |-> <<>>]
  /\ evidence = [k \in Keys |-> 0]
  /\ quals = [k \in Keys |-> <<>>]
  /\ refused = [k \in Keys |-> 0]
  /\ reads = [k \in Keys |-> 0]
  /\ feed = [k \in Keys |-> 0]
  /\ draft = [d \in Drafts |-> NoDraft]
  /\ metric = 0
  /\ followups = [k \in Keys |-> 0]
  /\ tasks = [k \in Keys |-> 0]
  /\ pc = [c \in Callers |-> "idle"]
  /\ call = [c \in Callers |-> NoCall]
  /\ sends = [d \in Drafts |-> 0]
  /\ begun = 0 /\ crashes = 0
  /\ ordered \in BOOLEAN

\* Caller c starts a handler with its first transaction at "at".
Begins(c, at, m) ==
  /\ pc[c] = "idle"
  /\ ordered => \A d \in Callers : pc[d] = "idle"
  /\ begun < IF ordered THEN MaxCalls ELSE MaxRaces
  /\ begun' = begun + 1
  /\ pc' = [pc EXCEPT ![c] = at]
  /\ call' = [call EXCEPT ![c] = m]
  /\ UNCHANGED <<crashes, ordered>>

Goes(c, at) ==
  /\ pc' = [pc EXCEPT ![c] = at]
  /\ UNCHANGED <<call, rest>>

Ends(c) ==
  /\ pc' = [pc EXCEPT ![c] = "idle"]
  /\ call' = [call EXCEPT ![c] = NoCall]
  /\ UNCHANGED rest

-----------------------------------------------------------------------------
(***************************************************************************)
(* Discovery: create_lead(), then the provenance of the new lead.          *)
(***************************************************************************)
\* Mutant of Discover: the ledger is not looked at.
DiscoverBlindly(c, k, known) ==
  /\ Begins(c, "company", [NoCall EXCEPT !.op = "discover", !.key = k, !.known = known])
  /\ UNCHANGED <<crm, outreach, reminders, feed>>

\* A company that is there already is answered from the ledger.  known: the
\* candidate names no prospect, or one of the ledger.
Discover(c, k, known) ==
  /\ ~Exists(k)
  /\ Begins(c, "company", [NoCall EXCEPT !.op = "discover", !.key = k, !.known = known])
  /\ UNCHANGED <<crm, outreach, reminders, feed>>

InsertCompany(c) ==
  /\ pc[c] = "company"
  /\ companies' = [companies EXCEPT ![call[c].key] = @ + 1]
  /\ Goes(c, "lead")
  /\ UNCHANGED <<lead, history, evidence, quals, refused, reads, outreach, reminders, feed>>

\* The key of a lead that has appeared meanwhile is refused, and so is a prospect
\* nobody knows: the call fails, and its company stays.
InsertLead(c) ==
  LET k == call[c].key IN
  /\ pc[c] = "lead"
  /\ IF Exists(k) \/ ~call[c].known
     THEN /\ Ends(c)
          /\ refused' = IF call[c].known THEN refused ELSE [refused EXCEPT ![k] = @ + 1]
          /\ UNCHANGED lead
     ELSE /\ Goes(c, "birth")
          /\ lead' = [lead EXCEPT ![k].stage = "prospect"]
          /\ UNCHANGED refused
  /\ UNCHANGED <<companies, history, evidence, quals, reads, outreach, reminders, feed>>

InsertBirth(c) ==
  /\ pc[c] = "birth"
  /\ history' = [history EXCEPT ![call[c].key] = Append(@, [from |-> None, to |-> "prospect"])]
  /\ Goes(c, "attach")
  /\ UNCHANGED <<companies, lead, evidence, quals, refused, reads, outreach, reminders, feed>>

AttachProvenance(c) ==
  /\ pc[c] = "attach"
  /\ evidence' = [evidence EXCEPT ![call[c].key] = @ + 1]
  /\ Ends(c)
  /\ UNCHANGED <<companies, lead, history, quals, refused, reads, outreach, reminders, feed>>

\* Research reads a document of a lead; what it finds is attached, and the feed
\* says that the lead was researched.
Attach(c, k, found) ==
  /\ Exists(k)
  /\ found => evidence[k] < MaxEvidence
  /\ Begins(c, "feed", [NoCall EXCEPT !.op = "research", !.key = k])
  /\ evidence' = IF found THEN [evidence EXCEPT ![k] = @ + 1] ELSE evidence
  /\ reads' = [reads EXCEPT ![k] = @ + 1]
  /\ UNCHANGED <<companies, lead, history, quals, refused, outreach, reminders, feed>>

-----------------------------------------------------------------------------
(***************************************************************************)
(* Qualification: evaluate() and record_qualification().                   *)
(***************************************************************************)
\* Without evidence there is no score.
Evaluate(c, k) ==
  /\ Exists(k) /\ evidence[k] > 0
  /\ Begins(c, "version", [NoCall EXCEPT !.op = "evaluate", !.key = k, !.score = evidence[k]])
  /\ UNCHANGED <<crm, outreach, reminders, feed>>

NextVersion(c) ==
  /\ pc[c] = "version"
  /\ pc' = [pc EXCEPT ![c] = "score"]
  /\ call' = [call EXCEPT ![c].version = Len(quals[call[c].key]) + 1]
  /\ UNCHANGED <<crm, outreach, reminders, feed, rest>>

\* Mutant of InsertScore: a version that is taken is passed over in silence.
InsertScoreSilently(c) ==
  LET k == call[c].key IN
  /\ pc[c] = "score"
  /\ Goes(c, "cache")
  /\ quals' = IF call[c].version <= Len(quals[k]) THEN quals
              ELSE [quals EXCEPT ![k] = Append(@, call[c].score)]
  /\ UNCHANGED <<companies, lead, history, evidence, refused, reads, outreach, reminders, feed>>

\* A version that is taken by now is refused, and the call fails.
InsertScore(c) ==
  LET k == call[c].key IN
  /\ pc[c] = "score"
  /\ IF call[c].version <= Len(quals[k])
     THEN Ends(c) /\ UNCHANGED quals
     ELSE Goes(c, "cache") /\ quals' = [quals EXCEPT ![k] = Append(@, call[c].score)]
  /\ UNCHANGED <<companies, lead, history, evidence, refused, reads, outreach, reminders, feed>>

\* Mutant of CacheScore: the first score stays.
CacheScoreFirst(c) ==
  LET k == call[c].key IN
  /\ pc[c] = "cache"
  /\ lead' = IF lead[k].version > 0 THEN lead
             ELSE [lead EXCEPT ![k].score = call[c].score, ![k].version = call[c].version]
  /\ Ends(c)
  /\ UNCHANGED <<companies, history, evidence, quals, refused, reads, outreach, reminders, feed>>

CacheScore(c) ==
  LET k == call[c].key IN
  /\ pc[c] = "cache"
  /\ lead' = [lead EXCEPT ![k].score = call[c].score, ![k].version = call[c].version]
  /\ Ends(c)
  /\ UNCHANGED <<companies, history, evidence, quals, refused, reads, outreach, reminders, feed>>

-----------------------------------------------------------------------------
(***************************************************************************)
(* The pipeline: move_stage().                                             *)
(***************************************************************************)
\* A documented move; a loss needs its reason.
Move(c, k, to, reason) ==
  /\ Exists(k) /\ Len(history[k]) <= MaxMoves
  /\ to \in AllowedNext(lead[k].stage)
  /\ to = "lost" => reason
  /\ Begins(c, "stage", [NoCall EXCEPT !.op = "move", !.key = k, !.from = lead[k].stage,
                                       !.to = to, !.reason = reason])
  /\ UNCHANGED <<crm, outreach, reminders, feed>>

UpdateStage(c) ==
  LET k == call[c].key IN
  /\ pc[c] = "stage"
  /\ lead' = [lead EXCEPT ![k].stage = call[c].to,
                          ![k].lost_reason = IF call[c].to = "lost" THEN call[c].reason ELSE @]
  /\ Goes(c, "history")
  /\ UNCHANGED <<companies, history, evidence, quals, refused, reads, outreach, reminders, feed>>

\* Mutant of InsertMove: the row is built from the lead as it is now.
InsertMoveReread(c) ==
  LET k == call[c].key IN
  /\ pc[c] = "history"
  /\ history' = [history EXCEPT ![k] = Append(@, [from |-> lead[k].stage, to |-> call[c].to])]
  /\ Goes(c, "feed")
  /\ UNCHANGED <<companies, lead, evidence, quals, refused, reads, outreach, reminders, feed>>

InsertMove(c) ==
  LET k == call[c].key IN
  /\ pc[c] = "history"
  /\ history' = [history EXCEPT ![k] = Append(@, [from |-> call[c].from, to |-> call[c].to])]
  /\ Goes(c, "feed")
  /\ UNCHANGED <<companies, lead, evidence, quals, refused, reads, outreach, reminders, feed>>

-----------------------------------------------------------------------------
(***************************************************************************)
(* Outreach: prepare(), approve_draft() and record_sent().                 *)
(***************************************************************************)
Prepare(c, d, k) ==
  /\ Exists(k) /\ draft[d].state = "none"
  /\ \A b \in Callers : pc[b] # "idle" => call[b].id # d
  /\ Begins(c, "draft", [NoCall EXCEPT !.op = "draft", !.key = k, !.id = d])
  /\ UNCHANGED <<crm, outreach, reminders, feed>>

InsertDraft(c) ==
  LET d == call[c].id IN
  /\ pc[c] = "draft"
  /\ draft' = [draft EXCEPT ![d] = [NoDraft EXCEPT !.state = "draft", !.key = call[c].key]]
  /\ Goes(c, "feed")
  /\ UNCHANGED <<crm, metric, sends, reminders, feed>>

\* Only a draft can be approved, by somebody.
Approve(c, d, p) ==
  /\ draft[d].state = "draft"
  /\ Begins(c, "approve",
            [NoCall EXCEPT !.op = "approve", !.key = draft[d].key, !.id = d, !.by = p])
  /\ UNCHANGED <<crm, outreach, reminders, feed>>

UpdateApproved(c) ==
  LET d == call[c].id IN
  /\ pc[c] = "approve"
  /\ draft' = [draft EXCEPT ![d].state = "approved", ![d].by = call[c].by]
  /\ Ends(c)
  /\ UNCHANGED <<crm, metric, sends, reminders, feed>>

\* Mutant of Send: a draft will do.
SendDraft(c, d, exp) ==
  /\ draft[d].state \in {"draft", "approved"}
  /\ Begins(c, "sent", [NoCall EXCEPT !.op = "send", !.key = draft[d].key, !.id = d, !.exp = exp])
  /\ UNCHANGED <<crm, outreach, reminders, feed>>

\* Mutant of Send: what was sent may be sent again.
SendAgain(c, d, exp) ==
  /\ draft[d].state \in {"approved", "sent"}
  /\ Begins(c, "sent", [NoCall EXCEPT !.op = "send", !.key = draft[d].key, !.id = d, !.exp = exp])
  /\ UNCHANGED <<crm, outreach, reminders, feed>>

\* Only what is approved is recorded as sent; exp: for an experiment that exists.
Send(c, d, exp) ==
  /\ draft[d].state = "approved"
  /\ Begins(c, "sent", [NoCall EXCEPT !.op = "send", !.key = draft[d].key, !.id = d, !.exp = exp])
  /\ UNCHANGED <<crm, outreach, reminders, feed>>

UpdateSent(c) ==
  LET d == call[c].id IN
  /\ pc[c] = "sent"
  /\ draft' = [draft EXCEPT ![d].state = "sent", ![d].counted = call[c].exp]
  /\ sends' = [sends EXCEPT ![d] = @ + 1]
  /\ Goes(c, IF call[c].exp THEN "count" ELSE "feed")
  /\ UNCHANGED <<crm, metric, reminders, feed>>

\* The touch and the day's count, in one transaction.
Count(c) ==
  /\ pc[c] = "count"
  /\ metric' = metric + 1
  /\ Goes(c, "feed")
  /\ UNCHANGED <<crm, draft, sends, reminders, feed>>

\* log_activity(), the end of a move, a draft or a research; a send goes on to its
\* reminder.
Log(c) ==
  /\ pc[c] = "feed"
  /\ feed' = [feed EXCEPT ![call[c].key] = @ + 1]
  /\ IF call[c].op = "send" THEN Goes(c, "remind") ELSE Ends(c)
  /\ UNCHANGED <<crm, outreach, reminders>>

-----------------------------------------------------------------------------
(***************************************************************************)
(* Follow-ups: schedule_for_lead().                                        *)
(***************************************************************************)
\* Mutant of NeedsReminder: reminders are not looked for.
NeedsReminderAgain(k) == lead[k].stage \in Ruled

\* Nothing for a lead that has an open one, or whose stage has no rule.
NeedsReminder(k) == followups[k] = 0 /\ lead[k].stage \in Ruled

Schedule(c, k) ==
  /\ Exists(k) /\ NeedsReminder(k)
  /\ Begins(c, "followup", [NoCall EXCEPT !.op = "schedule", !.key = k, !.from = lead[k].stage])
  /\ UNCHANGED <<crm, outreach, reminders, feed>>

\* The end of a send.
Remind(c) ==
  LET k == call[c].key IN
  /\ pc[c] = "remind"
  /\ IF NeedsReminder(k)
     THEN /\ pc' = [pc EXCEPT ![c] = "followup"]
          /\ call' = [call EXCEPT ![c].from = lead[k].stage]
          /\ UNCHANGED rest
     ELSE Ends(c)
  /\ UNCHANGED <<crm, outreach, reminders, feed>>

InsertFollowup(c) ==
  /\ pc[c] = "followup"
  /\ followups' = [followups EXCEPT ![call[c].key] = @ + 1]
  /\ Goes(c, "next")
  /\ UNCHANGED <<crm, outreach, tasks, feed>>

\* The lead's next action is the one of the stage it was read in.
UpdateNextAction(c) ==
  /\ pc[c] = "next"
  /\ lead' = [lead EXCEPT ![call[c].key].next = call[c].from]
  /\ Goes(c, "task")
  /\ UNCHANGED <<companies, history, evidence, quals, refused, reads, outreach, reminders, feed>>

InsertTask(c) ==
  /\ pc[c] = "task"
  /\ tasks' = [tasks EXCEPT ![call[c].key] = @ + 1]
  /\ Ends(c)
  /\ UNCHANGED <<crm, outreach, followups, feed>>

-----------------------------------------------------------------------------
\* A caller dies; its next transaction is never made.
Crash(c) ==
  /\ pc[c] # "idle" /\ crashes < MaxCrashes
  /\ crashes' = crashes + 1
  /\ pc' = [pc EXCEPT ![c] = "idle"]
  /\ call' = [call EXCEPT ![c] = NoCall]
  /\ UNCHANGED <<crm, outreach, reminders, feed, begun, ordered>>

Start(c) ==
  \/ \E k \in Keys, known \in BOOLEAN : Discover(c, k, known)
  \/ \E k \in Keys, found \in BOOLEAN : Attach(c, k, found)
  \/ \E k \in Keys : Evaluate(c, k) \/ Schedule(c, k)
  \/ \E k \in Keys, to \in Stages, reason \in BOOLEAN : Move(c, k, to, reason)
  \/ \E d \in Drafts :
       \/ \E k \in Keys : Prepare(c, d, k)
       \/ \E p \in People : Approve(c, d, p)
       \/ \E exp \in BOOLEAN : Send(c, d, exp)

Step(c) ==
  \/ InsertCompany(c) \/ InsertLead(c) \/ InsertBirth(c) \/ AttachProvenance(c)
  \/ NextVersion(c) \/ InsertScore(c) \/ CacheScore(c)
  \/ UpdateStage(c) \/ InsertMove(c)
  \/ InsertDraft(c) \/ UpdateApproved(c) \/ UpdateSent(c) \/ Count(c) \/ Log(c)
  \/ Remind(c) \/ InsertFollowup(c) \/ UpdateNextAction(c) \/ InsertTask(c)

Next == \E c \in Callers : Start(c) \/ Step(c) \/ Crash(c)

Spec == Init /\ [][Next]_vars

-----------------------------------------------------------------------------
(***************************************************************************)
(* Properties                                                              *)
(***************************************************************************)
Quiet == \A c \in Callers : pc[c] = "idle"

\* Nobody raced, nobody died, and nobody is in mid-handler.
Undisturbed == ordered /\ crashes = 0 /\ Quiet

CrmTypes ==
  /\ companies \in [Keys -> Nat]
  /\ lead \in [Keys -> Leads]
  /\ history \in [Keys -> Seq(Transitions)]
  /\ evidence \in [Keys -> Nat]
  /\ quals \in [Keys -> Seq(Nat)]
  /\ refused \in [Keys -> Nat] /\ reads \in [Keys -> Nat]

OutreachTypes == draft \in [Drafts -> DraftRows] /\ metric \in Nat /\ sends \in [Drafts -> Nat]

ReminderTypes == followups \in [Keys -> Nat] /\ tasks \in [Keys -> Nat] /\ feed \in [Keys -> Nat]

CallTypes == pc \in [Callers -> PCs] /\ call \in [Callers -> CallRecords]

RestTypes == begun \in Nat /\ crashes \in Nat /\ ordered \in BOOLEAN

\* The rows and the callers' variables stay in range.
TypeOK == CrmTypes /\ OutreachTypes /\ ReminderTypes /\ CallTypes /\ RestTypes

\* "a lead is deduplicated on a normalised company identity": one company row
\* for it, with its lead, and of the others each was inserted for a lead the
\* schema then refused because its candidate named a prospect nobody knows.
OneCompanyPerLead ==
  Undisturbed =>
    \A k \in Keys : companies[k] = refused[k] + (IF Exists(k) THEN 1 ELSE 0)

\* "history is never rewritten" and tells the lead's whole way: each row starts
\* where the one before it ended, by a documented move, and the last ends at the
\* lead's stage.
HistoryTellsStage ==
  Undisturbed => \A k \in Keys : Exists(k) =>
    /\ history[k] # <<>>
    /\ history[k][1] = [from |-> None, to |-> "prospect"]
    /\ \A i \in 2 .. Len(history[k]) :
         /\ history[k][i].from = history[k][i - 1].to
         /\ history[k][i].to \in AllowedNext(history[k][i].from)
    /\ history[k][Len(history[k])].to = lead[k].stage

\* Whoever races or dies, a lost deal has its reason: stage and reason are one
\* transaction.
LostHasReason == \A k \in Keys : lead[k].stage = "lost" => lead[k].lost_reason

\* Whoever races or dies, the score a lead shows is one that is on record.
ScoreIsOnRecord ==
  \A k \in Keys : lead[k].version > 0 =>
    lead[k].version <= Len(quals[k]) /\ quals[k][lead[k].version] = lead[k].score

\* "refresh the lead's cached latest score": the newest, and no older score was
\* computed from more evidence.
ScoreIsLatest ==
  ordered => \A k \in Keys :
    /\ Undisturbed => lead[k].version = Len(quals[k])
    /\ \A i \in 2 .. Len(quals[k]) : quals[k][i - 1] <= quals[k][i]

\* "an outreach draft can only become sent after it was approved", however
\* approvals and sends race and die.
SentWasApproved ==
  \A d \in Drafts : draft[d].state \in {"approved", "sent"} \/ sends[d] > 0 => draft[d].by # None

\* A draft is recorded as sent once, deaths included, if callers take turns.
SentOnce == ordered => \A d \in Drafts : sends[d] <= 1

\* The experiment's count is the number of its sent drafts; a death can only make
\* it fall short.
MetricCountsSends ==
  LET counted == Cardinality({d \in Drafts : draft[d].counted}) IN
  ordered => metric <= counted /\ (Undisturbed => metric = counted)

\* "re-running the daily procedure must not multiply reminders": one open
\* follow-up per lead, and with it its task and the lead's next action.
OneReminder ==
  \A k \in Keys :
    /\ ordered => followups[k] <= 1
    /\ Undisturbed => tasks[k] = followups[k] /\ (followups[k] = 1 <=> lead[k].next # None)

\* The activity feed has a row for each move, each draft, each send and each
\* research that read a document.
FeedIsComplete ==
  Undisturbed => \A k \in Keys :
    LET its == {d \in Drafts : draft[d].key = k} IN
    feed[k] = reads[k] + (IF Exists(k) THEN Len(history[k]) - 1 ELSE 0)
              + Cardinality(its) + Cardinality({d \in its : draft[d].state = "sent"})

\* A send is recorded once, counted in its experiment, and shown in the feed.
SendsAreBooked == SentOnce /\ MetricCountsSends /\ FeedIsComplete
=============================================================================
