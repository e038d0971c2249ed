----------------------------- MODULE SalesProofs -----------------------------
(***************************************************************************)
(* Proofs about SalesLedger, for any callers, companies, drafts, people    *)
(* and bounds.  However callers race and die:                              *)
(*                                                                         *)
(*   LedgerTypes     the ranges                                            *)
(*   ApprovedFirst   nothing is sent, or says so, without an approver      *)
(*   LossExplained   a lost lead has its reason                            *)
(*   ScoreRecorded   the score a lead shows is one that is on record       *)
(*                                                                         *)
(* They are conjuncts of one inductive invariant, IInv, or follow from it: *)
(* what a caller carries from its reads to its writes still fits the rows  *)
(* it is about to write, because rows only ever go forward.                *)
(*                                                                         *)
(* If callers take turns, as the commands of one terminal do:              *)
(*                                                                         *)
(*   CompanyFound      a company is inserted once, with its lead, or for   *)
(*                     a lead that was refused                             *)
(*   HistoryComplete   history tells a lead's whole way to its stage       *)
(*   LatestShown       a lead shows the score of its last version          *)
(*   Booked            a send is recorded once, counted, and in the feed   *)
(*   RemindedOnce      a lead has one reminder, with all its parts         *)
(*                                                                         *)
(* These add to it that only one caller is at work, and how far the tables *)
(* differ at each of its places: TurnsInv.                                 *)
(***************************************************************************)
EXTENDS SalesLedger, FiniteSetTheorems, TLAPS

\* What a caller has read is enough for the transaction it is about to make.
CallFits(c) ==
  /\ pc[c] # "idle" => call[c].key \in Keys
  /\ pc[c] \in {"stage", "history"} =>
       call[c].to \in Stages /\ (call[c].to = "lost" => call[c].reason)
  /\ pc[c] \in {"followup", "next"} => call[c].from \in Ruled
  /\ pc[c] = "approve" => call[c].by \in People

\* What a draft's row says, apart from its approver.
RowFits(d) ==
  /\ draft[d].state # "none" => draft[d].key \in Keys
  /\ draft[d].state = "none" => sends[d] = 0

\* A draft is inserted once; an approver, once put, stays.
HoldFits(c) ==
  /\ pc[c] \in {"approve", "sent"} => call[c].id \in Drafts /\ draft[call[c].id].state # "none"
  /\ pc[c] = "sent" => draft[call[c].id].by # None
  /\ pc[c] = "draft" => call[c].id \in Drafts /\ draft[call[c].id].state = "none"

DraftsFit ==
  /\ \A d \in Drafts : RowFits(d)
  /\ \A c \in Callers : HoldFits(c)
  /\ \A c, b \in Callers : c # b /\ pc[c] = "draft" /\ pc[b] = "draft" => call[c].id # call[b].id

\* Versions are taken in order and never given up.
ScoresFit ==
  \A c \in Callers :
    /\ pc[c] = "score" =>
         call[c].version >= 1 /\ call[c].version <= Len(quals[call[c].key]) + 1
    /\ pc[c] = "cache" =>
         /\ call[c].version >= 1 /\ call[c].version <= Len(quals[call[c].key])
         /\ quals[call[c].key][call[c].version] = call[c].score

CallsFit == \A c \in Callers : CallFits(c)

IInv ==
  /\ TypeOK
  /\ CallsFit
  /\ DraftsFit /\ SentWasApproved
  /\ LostHasReason
  /\ ScoresFit /\ ScoreIsOnRecord

-----------------------------------------------------------------------------
(***************************************************************************)
(* Ranges                                                                  *)
(***************************************************************************)
LEMMA NoCallInRange == NoCall \in CallRecords
  BY DEF NoCall, CallRecords

\* The ranges of the fields of a call.
LEMMA CallFields ==
  ASSUME CallTypes, NEW c \in Callers
  PROVE  /\ pc[c] \in PCs
         /\ call[c] \in CallRecords
         /\ call[c].id \in Drafts \cup {None} /\ call[c].by \in People \cup {None}
         /\ call[c].from \in Stages \cup {None} /\ call[c].to \in Stages \cup {None}
         /\ call[c].score \in Nat /\ call[c].version \in Nat
         /\ call[c].reason \in BOOLEAN /\ call[c].exp \in BOOLEAN
  BY DEF CallTypes, CallRecords

\* A caller in mid-handler is about a company.
LEMMA CallKey ==
  ASSUME CallsFit, NEW c \in Callers, pc[c] # "idle"
  PROVE  call[c].key \in Keys
  BY DEF CallsFit, CallFits

\* What the transactions of the handlers write to the lead's tables is in range.
LEMMA CrmStep ==
  ASSUME CrmTypes, CallTypes, CallsFit, [Next]_vars
  PROVE  CrmTypes'
  <1>0. CASE UNCHANGED crm
    BY <1>0 DEF CrmTypes, crm
  <1>1. ASSUME NEW c \in Callers, InsertCompany(c) PROVE CrmTypes'
    <2>1. call[c].key \in Keys  BY <1>1, CallKey DEF InsertCompany
    <2> QED  BY <1>1, <2>1 DEF InsertCompany, CrmTypes
  <1>2. ASSUME NEW c \in Callers, InsertLead(c) PROVE CrmTypes'
    <2> DEFINE k == call[c].key
    <2>1. k \in Keys  BY <1>2, CallKey DEF InsertLead
    <2>2. lead[k] \in Leads /\ lead \in [Keys -> Leads]  BY <2>1 DEF CrmTypes
    <2>3. [lead[k] EXCEPT !.stage = "prospect"] \in Leads
      BY <2>2 DEF Leads, Stages, Forward
    <2>4. lead' = lead \/ lead' = [lead EXCEPT ![k] = [lead[k] EXCEPT !.stage = "prospect"]]
      BY <1>2, <2>1, <2>2 DEF InsertLead
    <2>5. lead' \in [Keys -> Leads]  BY <2>2, <2>3, <2>4
    <2>6. refused' = refused \/ refused' = [refused EXCEPT ![k] = @ + 1]
      BY <1>2 DEF InsertLead
    <2>7. refused \in [Keys -> Nat] /\ refused[k] + 1 \in Nat  BY <2>1 DEF CrmTypes
    <2>8. refused' \in [Keys -> Nat]  BY <2>1, <2>6, <2>7
    <2> QED  BY <1>2, <2>5, <2>8 DEF InsertLead, CrmTypes
  <1>3. ASSUME NEW c \in Callers, InsertBirth(c) PROVE CrmTypes'
    <2> DEFINE k == call[c].key
               t == [from |-> None, to |-> "prospect"]
    <2>1. k \in Keys  BY <1>3, CallKey DEF InsertBirth
    <2>2. history[k] \in Seq(Transitions) /\ history \in [Keys -> Seq(Transitions)]
      BY <2>1 DEF CrmTypes
    <2>3. t \in Transitions  BY DEF Transitions, Stages, Forward
    <2>4. history' = [history EXCEPT ![k] = Append(history[k], t)]
      BY <1>3, <2>1, <2>2 DEF InsertBirth
    <2> HIDE DEF t
    <2>5. Append(history[k], t) \in Seq(Transitions)  BY <2>2, <2>3
    <2>6. history' \in [Keys -> Seq(Transitions)]  BY <2>1, <2>2, <2>4, <2>5
    <2> QED  BY <1>3, <2>6 DEF InsertBirth, CrmTypes
  <1>4. ASSUME NEW c \in Callers, AttachProvenance(c) PROVE CrmTypes'
    <2>1. call[c].key \in Keys  BY <1>4, CallKey DEF AttachProvenance
    <2>2. evidence' = [evidence EXCEPT ![call[c].key] = @ + 1]  BY <1>4 DEF AttachProvenance
    <2>3. evidence \in [Keys -> Nat] /\ evidence[call[c].key] + 1 \in Nat  BY <2>1 DEF CrmTypes
    <2>4. evidence' \in [Keys -> Nat]  BY <2>1, <2>2, <2>3
    <2> QED  BY <1>4, <2>4 DEF AttachProvenance, CrmTypes
  <1>5. ASSUME NEW c \in Callers, NEW k \in Keys, NEW found \in BOOLEAN, Attach(c, k, found)
        PROVE  CrmTypes'
    BY <1>5 DEF Attach, CrmTypes
  <1>6. ASSUME NEW c \in Callers, InsertScore(c) PROVE CrmTypes'
    <2> DEFINE k == call[c].key
               s == Append(quals[k], call[c].score)
    <2>1. k \in Keys  BY <1>6, CallKey DEF InsertScore
    <2>2. quals[k] \in Seq(Nat) /\ quals \in [Keys -> Seq(Nat)]  BY <2>1 DEF CrmTypes
    <2>3. s \in Seq(Nat)  BY <2>2, CallFields
    <2>4. quals' = quals \/ quals' = [quals EXCEPT ![k] = s]
      BY <1>6, <2>1, <2>2 DEF InsertScore
    <2> HIDE DEF s
    <2>5. quals' \in [Keys -> Seq(Nat)]  BY <2>1, <2>2, <2>3, <2>4
    <2> QED  BY <1>6, <2>5 DEF InsertScore, CrmTypes
  <1>7. ASSUME NEW c \in Callers, CacheScore(c) PROVE CrmTypes'
    <2> DEFINE k == call[c].key
               l == [lead[k] EXCEPT !.score = call[c].score, !.version = call[c].version]
    <2>1. k \in Keys  BY <1>7, CallKey DEF CacheScore
    <2>2. lead[k] \in Leads /\ lead \in [Keys -> Leads]  BY <2>1 DEF CrmTypes
    <2>3. l \in Leads  BY <2>2, CallFields DEF Leads
    <2>4. lead' = [lead EXCEPT ![k] = l]  BY <1>7, <2>1, <2>2 DEF CacheScore
    <2>5. lead' \in [Keys -> Leads]  BY <2>2, <2>3, <2>4
    <2> QED  BY <1>7, <2>5 DEF CacheScore, CrmTypes
  <1>8. ASSUME NEW c \in Callers, UpdateStage(c) PROVE CrmTypes'
    <2> DEFINE k == call[c].key
               r == IF call[c].to = "lost" THEN call[c].reason ELSE lead[k].lost_reason
               l == [lead[k] EXCEPT !.stage = call[c].to, !.lost_reason = r]
    <2>1. k \in Keys /\ call[c].to \in Stages
      BY <1>8, CallKey DEF UpdateStage, CallsFit, CallFits
    <2>2. lead[k] \in Leads /\ lead \in [Keys -> Leads]  BY <2>1 DEF CrmTypes
    <2>3. r \in BOOLEAN  BY <2>2, CallFields DEF Leads
    <2>4. l \in Leads  BY <2>1, <2>2, <2>3 DEF Leads
    <2>5. lead' = [lead EXCEPT ![k] = l]  BY <1>8, <2>1, <2>2 DEF UpdateStage
    <2>6. lead' \in [Keys -> Leads]  BY <2>2, <2>4, <2>5
    <2> QED  BY <1>8, <2>6 DEF UpdateStage, CrmTypes
  <1>9. ASSUME NEW c \in Callers, InsertMove(c) PROVE CrmTypes'
    <2> DEFINE k == call[c].key
               t == [from |-> call[c].from, to |-> call[c].to]
    <2>1. k \in Keys /\ call[c].to \in Stages
      BY <1>9, CallKey DEF InsertMove, CallsFit, CallFits
    <2>2. history[k] \in Seq(Transitions) /\ history \in [Keys -> Seq(Transitions)]
      BY <2>1 DEF CrmTypes
    <2>3. t \in Transitions  BY <2>1, CallFields DEF Transitions
    <2>4. history' = [history EXCEPT ![k] = Append(history[k], t)]
      BY <1>9, <2>1, <2>2 DEF InsertMove
    <2> HIDE DEF t
    <2>5. Append(history[k], t) \in Seq(Transitions)  BY <2>2, <2>3
    <2>6. history' \in [Keys -> Seq(Transitions)]  BY <2>1, <2>2, <2>4, <2>5
    <2> QED  BY <1>9, <2>6 DEF InsertMove, CrmTypes
  <1>10. ASSUME NEW c \in Callers, UpdateNextAction(c) PROVE CrmTypes'
    <2> DEFINE k == call[c].key
               l == [lead[k] EXCEPT !.next = call[c].from]
    <2>1. k \in Keys /\ call[c].from \in Ruled
      BY <1>10, CallKey DEF UpdateNextAction, CallsFit, CallFits
    <2>2. lead[k] \in Leads /\ lead \in [Keys -> Leads]  BY <2>1 DEF CrmTypes
    <2>3. l \in Leads  BY <2>1, <2>2 DEF Leads
    <2>4. lead' = [lead EXCEPT ![k] = l]  BY <1>10, <2>1, <2>2 DEF UpdateNextAction
    <2>5. lead' \in [Keys -> Leads]  BY Zenon, <2>2, <2>3, <2>4
    <2> QED  BY <1>10, <2>5 DEF UpdateNextAction, CrmTypes
  <1>11. ASSUME NEW c \in Callers, Start(c) PROVE CrmTypes'
    BY Zenon, <1>0, <1>5, <1>11
       DEF Start, Discover, Evaluate, Schedule, Move, Prepare, Approve, Send
  <1>12. ASSUME NEW c \in Callers, Step(c) PROVE CrmTypes'
    BY <1>0, <1>1, <1>2, <1>3, <1>4, <1>6, <1>7, <1>8, <1>9, <1>10, <1>12
       DEF Step, NextVersion, InsertDraft, UpdateApproved, UpdateSent, Count, Log, Remind,
           InsertFollowup, InsertTask
  <1> QED
    BY <1>0, <1>11, <1>12 DEF Next, Crash, vars

\* So is what they write to the drafts, the counts, the reminders and the feed.
LEMMA OutreachStep ==
  ASSUME OutreachTypes, CallTypes, CallsFit, DraftsFit, [Next]_vars
  PROVE  OutreachTypes'
  <1>0. CASE UNCHANGED outreach
    BY <1>0 DEF OutreachTypes, outreach
  <1>1. ASSUME NEW c \in Callers, InsertDraft(c) PROVE OutreachTypes'
    <2> DEFINE r == [NoDraft EXCEPT !.state = "draft", !.key = call[c].key]
    <2>1. call[c].id \in Drafts /\ call[c].key \in Keys
      BY <1>1, CallKey DEF InsertDraft, DraftsFit, HoldFits
    <2>2. r \in DraftRows  BY <2>1 DEF DraftRows, NoDraft
    <2>3. draft' = [draft EXCEPT ![call[c].id] = r]  BY <1>1 DEF InsertDraft
    <2> HIDE DEF r
    <2> QED  BY <1>1, <2>2, <2>3 DEF InsertDraft, OutreachTypes
  <1>2. ASSUME NEW c \in Callers, UpdateApproved(c) PROVE OutreachTypes'
    <2> DEFINE d == call[c].id
               r == [draft[d] EXCEPT !.state = "approved", !.by = call[c].by]
    <2>1. d \in Drafts  BY <1>2 DEF UpdateApproved, DraftsFit, HoldFits
    <2>2. draft[d] \in DraftRows /\ draft \in [Drafts -> DraftRows]
      BY <2>1 DEF OutreachTypes
    <2>3. r \in DraftRows  BY <2>2, CallFields DEF DraftRows
    <2>4. draft' = [draft EXCEPT ![d] = r]  BY <1>2, <2>1, <2>2 DEF UpdateApproved
    <2>5. draft' \in [Drafts -> DraftRows]  BY <2>2, <2>3, <2>4
    <2> QED  BY <1>2, <2>5 DEF UpdateApproved, OutreachTypes
  <1>3. ASSUME NEW c \in Callers, UpdateSent(c) PROVE OutreachTypes'
    <2> DEFINE d == call[c].id
               r == [draft[d] EXCEPT !.state = "sent", !.counted = call[c].exp]
    <2>1. d \in Drafts  BY <1>3 DEF UpdateSent, DraftsFit, HoldFits
    <2>2. draft[d] \in DraftRows /\ draft \in [Drafts -> DraftRows]
      BY <2>1 DEF OutreachTypes
    <2>3. r \in DraftRows  BY <2>2, CallFields DEF DraftRows
    <2>4. draft' = [draft EXCEPT ![d] = r]  BY <1>3, <2>1, <2>2 DEF UpdateSent
    <2>5. draft' \in [Drafts -> DraftRows]  BY <2>2, <2>3, <2>4
    <2>6. sends' \in [Drafts -> Nat]  BY <1>3, <2>1 DEF UpdateSent, OutreachTypes
    <2> QED  BY <1>3, <2>5, <2>6 DEF UpdateSent, OutreachTypes
  <1>4. ASSUME NEW c \in Callers, Count(c) PROVE OutreachTypes'
    BY <1>4 DEF Count, OutreachTypes
  <1>5. ASSUME NEW c \in Callers, Start(c) PROVE OutreachTypes'
    BY Zenon, <1>0, <1>5
       DEF Start, Discover, Attach, Evaluate, Schedule, Move, Prepare, Approve, Send
  <1>6. ASSUME NEW c \in Callers, Step(c) PROVE OutreachTypes'
    BY <1>0, <1>1, <1>2, <1>3, <1>4, <1>6
       DEF Step, InsertCompany, InsertLead, InsertBirth, AttachProvenance, NextVersion,
           InsertScore, CacheScore, UpdateStage, InsertMove, Log, Remind, InsertFollowup,
           UpdateNextAction, InsertTask
  <1> QED
    BY <1>0, <1>5, <1>6 DEF Next, Crash, vars

LEMMA ReminderStep ==
  ASSUME ReminderTypes, CallsFit, [Next]_vars
  PROVE  ReminderTypes'
  <1>0. CASE UNCHANGED <<reminders, feed>>
    BY <1>0 DEF ReminderTypes, reminders
  <1>1. ASSUME NEW c \in Callers, InsertFollowup(c) PROVE ReminderTypes'
    <2>1. call[c].key \in Keys  BY <1>1, CallKey DEF InsertFollowup
    <2> QED  BY <1>1, <2>1 DEF InsertFollowup, ReminderTypes
  <1>2. ASSUME NEW c \in Callers, InsertTask(c) PROVE ReminderTypes'
    <2>1. call[c].key \in Keys  BY <1>2, CallKey DEF InsertTask
    <2> QED  BY <1>2, <2>1 DEF InsertTask, ReminderTypes
  <1>3. ASSUME NEW c \in Callers, Log(c) PROVE ReminderTypes'
    <2>1. call[c].key \in Keys  BY <1>3, CallKey DEF Log
    <2> QED  BY <1>3, <2>1 DEF Log, ReminderTypes, reminders
  <1>4. ASSUME NEW c \in Callers, Start(c) PROVE ReminderTypes'
    BY Zenon, <1>0, <1>4
       DEF Start, Discover, Attach, Evaluate, Schedule, Move, Prepare, Approve, Send
  <1>5. ASSUME NEW c \in Callers, Step(c) PROVE ReminderTypes'
    BY Zenon, <1>0, <1>1, <1>2, <1>3, <1>5
       DEF Step, InsertCompany, InsertLead, InsertBirth, AttachProvenance, NextVersion,
           InsertScore, CacheScore, UpdateStage, InsertMove, InsertDraft, UpdateApproved,
           UpdateSent, Count, Remind, UpdateNextAction
  <1> QED
    BY <1>0, <1>4, <1>5 DEF Next, Crash, vars

\* A handler that begins has its variables in range.
LEMMA BeginsInRange ==
  ASSUME CallTypes, RestTypes, NEW c \in Callers, NEW at \in PCs, NEW m \in CallRecords,
         Begins(c, at, m)
  PROVE  CallTypes' /\ RestTypes'
  BY DEF Begins, CallTypes, RestTypes

LEMMA GoesInRange ==
  ASSUME CallTypes, RestTypes, NEW c \in Callers, NEW at \in PCs, Goes(c, at)
  PROVE  CallTypes' /\ RestTypes'
  BY DEF Goes, CallTypes, RestTypes, rest

LEMMA EndsInRange ==
  ASSUME CallTypes, RestTypes, NEW c \in Callers, Ends(c)
  PROVE  CallTypes' /\ RestTypes'
  BY NoCallInRange DEF Ends, CallTypes, RestTypes, rest, PCs

\* And so are the variables a handler starts with or adds to.
LEMMA CallStep ==
  ASSUME CrmTypes, OutreachTypes, CallTypes, RestTypes, CallsFit, [Next]_vars
  PROVE  CallTypes' /\ RestTypes'
  <1> DEFINE Good == CallTypes' /\ RestTypes'
  <1>1. ASSUME NEW c \in Callers, NEW k \in Keys, NEW known \in BOOLEAN, Discover(c, k, known)
        PROVE  Good
    <2>1. [NoCall EXCEPT !.op = "discover", !.key = k, !.known = known] \in CallRecords
      BY NoCallInRange DEF CallRecords
    <2> QED  BY <1>1, <2>1, BeginsInRange DEF Discover, PCs
  <1>2. ASSUME NEW c \in Callers, NEW k \in Keys, Evaluate(c, k) PROVE Good
    <2>1. evidence[k] \in Nat  BY DEF CrmTypes
    <2>2. [NoCall EXCEPT !.op = "evaluate", !.key = k, !.score = evidence[k]] \in CallRecords
      BY <2>1, NoCallInRange DEF CallRecords
    <2> QED  BY <1>2, <2>2, BeginsInRange DEF Evaluate, PCs
  <1>3. ASSUME NEW c \in Callers, NEW k \in Keys, Schedule(c, k) PROVE Good
    <2>1. lead[k].stage \in Stages \cup {None}  BY DEF CrmTypes, Leads
    <2>2. [NoCall EXCEPT !.op = "schedule", !.key = k, !.from = lead[k].stage] \in CallRecords
      BY <2>1, NoCallInRange DEF CallRecords
    <2> QED  BY <1>3, <2>2, BeginsInRange DEF Schedule, PCs
  <1>4. ASSUME NEW c \in Callers, NEW k \in Keys, NEW to \in Stages, NEW reason \in BOOLEAN,
               Move(c, k, to, reason)
        PROVE  Good
    <2>1. lead[k].stage \in Stages \cup {None}  BY DEF CrmTypes, Leads
    <2>2. [NoCall EXCEPT !.op = "move", !.key = k, !.from = lead[k].stage, !.to = to,
                         !.reason = reason] \in CallRecords
      BY <2>1, NoCallInRange DEF CallRecords
    <2> QED  BY <1>4, <2>2, BeginsInRange DEF Move, PCs
  <1>5. ASSUME NEW c \in Callers, NEW d \in Drafts, NEW k \in Keys, Prepare(c, d, k) PROVE Good
    <2>1. [NoCall EXCEPT !.op = "draft", !.key = k, !.id = d] \in CallRecords
      BY NoCallInRange DEF CallRecords
    <2> QED  BY <1>5, <2>1, BeginsInRange DEF Prepare, PCs
  <1>6. ASSUME NEW c \in Callers, NEW d \in Drafts, NEW p \in People, Approve(c, d, p) PROVE Good
    <2>1. draft[d].key \in Keys \cup {None}  BY DEF OutreachTypes, DraftRows
    <2>2. [NoCall EXCEPT !.op = "approve", !.key = draft[d].key, !.id = d, !.by = p]
            \in CallRecords
      BY <2>1, NoCallInRange DEF CallRecords
    <2> QED  BY <1>6, <2>2, BeginsInRange DEF Approve, PCs
  <1>7. ASSUME NEW c \in Callers, NEW d \in Drafts, NEW exp \in BOOLEAN, Send(c, d, exp)
        PROVE  Good
    <2>1. draft[d].key \in Keys \cup {None}  BY DEF OutreachTypes, DraftRows
    <2>2. [NoCall EXCEPT !.op = "send", !.key = draft[d].key, !.id = d, !.exp = exp]
            \in CallRecords
      BY <2>1, NoCallInRange DEF CallRecords
    <2> QED  BY <1>7, <2>2, BeginsInRange DEF Send, PCs
  <1>8. ASSUME NEW c \in Callers, NextVersion(c) PROVE Good
    <2> DEFINE v == Len(quals[call[c].key]) + 1
               m == [call[c] EXCEPT !.version = v]
    <2>1. call[c].key \in Keys  BY <1>8, CallKey DEF NextVersion
    <2>2. v \in Nat  BY <2>1 DEF CrmTypes
    <2>3. m \in CallRecords  BY <2>2, CallFields DEF CallRecords
    <2>4. call' = [call EXCEPT ![c] = m]  BY <1>8 DEF NextVersion, CallTypes
    <2> HIDE DEF m
    <2> QED  BY <1>8, <2>3, <2>4 DEF NextVersion, CallTypes, RestTypes, rest, PCs
  <1>9. ASSUME NEW c \in Callers, Remind(c) PROVE Good
    <2> DEFINE s == lead[call[c].key].stage
               m == [call[c] EXCEPT !.from = s]
    <2>1. call[c].key \in Keys  BY <1>9, CallKey DEF Remind
    <2>2. s \in Stages \cup {None}  BY <2>1 DEF CrmTypes, Leads
    <2>3. m \in CallRecords  BY <2>2, CallFields DEF CallRecords
    <2>4. CASE NeedsReminder(call[c].key)
      <3>1. call' = [call EXCEPT ![c] = m]  BY <1>9, <2>4 DEF Remind, CallTypes
      <3> HIDE DEF m
      <3> QED  BY <1>9, <2>3, <2>4, <3>1 DEF Remind, CallTypes, RestTypes, rest, PCs
    <2>5. CASE ~NeedsReminder(call[c].key)
      BY <1>9, <2>5, EndsInRange DEF Remind
    <2> QED  BY <2>4, <2>5
  <1>10. ASSUME NEW c \in Callers, Crash(c) PROVE Good
    BY <1>10, NoCallInRange DEF Crash, CallTypes, RestTypes, PCs
  <1>11. ASSUME NEW c \in Callers, NEW k \in Keys, NEW found \in BOOLEAN, Attach(c, k, found)
         PROVE  Good
    <2>1. [NoCall EXCEPT !.op = "research", !.key = k] \in CallRecords
      BY NoCallInRange DEF CallRecords
    <2> QED  BY <1>11, <2>1, BeginsInRange DEF Attach, PCs
  <1>12. ASSUME NEW c \in Callers, Step(c) PROVE Good
    <2>1. \A at \in PCs : Goes(c, at) => Good  BY GoesInRange
    <2>2. Ends(c) => Good  BY EndsInRange
    <2>3. CASE NextVersion(c) \/ Remind(c)  BY <1>8, <1>9, <2>3
    <2>4. CASE Step(c) /\ ~NextVersion(c) /\ ~Remind(c)
      BY Zenon, <2>1, <2>2, <2>4
         DEF Step, InsertCompany, InsertLead, InsertBirth, AttachProvenance, InsertScore,
             CacheScore, UpdateStage, InsertMove, InsertDraft, UpdateApproved, UpdateSent,
             Count, Log, InsertFollowup, UpdateNextAction, InsertTask, PCs
    <2> QED  BY <1>12, <2>3, <2>4
  <1>13. CASE UNCHANGED vars
    BY <1>13 DEF vars, CallTypes, RestTypes, rest
  <1> QED
    BY <1>1, <1>2, <1>3, <1>4, <1>5, <1>6, <1>7, <1>10, <1>11, <1>12, <1>13 DEF Next, Start

-----------------------------------------------------------------------------
(***************************************************************************)
(* What a caller carries                                                   *)
(***************************************************************************)
\* Only the caller that moves changes its place and its variables.
LEMMA OthersKeep ==
  ASSUME CallTypes, NEW c \in Callers, Start(c) \/ Step(c) \/ Crash(c), NEW b \in Callers, b # c
  PROVE  pc'[b] = pc[b] /\ call'[b] = call[b]
  <1>1. CASE Start(c)
    BY Zenon, <1>1 DEF Start, Discover, Attach, Evaluate, Schedule, Move, Prepare, Approve, Send,
                       Begins,
                CallTypes
  <1>2. ASSUME NEW at, Goes(c, at) PROVE pc'[b] = pc[b] /\ call'[b] = call[b]
    BY <1>2 DEF Goes, CallTypes
  <1>3. ASSUME Ends(c) PROVE pc'[b] = pc[b] /\ call'[b] = call[b]
    BY <1>3 DEF Ends, CallTypes
  <1>4. CASE NextVersion(c)
    BY <1>4 DEF NextVersion, CallTypes
  <1>5. CASE Remind(c)
    BY <1>3, <1>5 DEF Remind, CallTypes
  <1>6. CASE Step(c) /\ ~NextVersion(c) /\ ~Remind(c)
    BY Zenon, <1>2, <1>3, <1>6
       DEF Step, InsertCompany, InsertLead, InsertBirth, AttachProvenance, InsertScore,
           CacheScore, UpdateStage, InsertMove, InsertDraft, UpdateApproved, UpdateSent,
           Count, Log, InsertFollowup, UpdateNextAction, InsertTask
  <1>7. CASE Crash(c)
    BY <1>7 DEF Crash, CallTypes
  <1> QED
    BY <1>1, <1>4, <1>5, <1>6, <1>7

\* Where the three ways to move leave the caller.
LEMMA Begun ==
  ASSUME CallTypes, NEW c \in Callers, NEW at, NEW m, Begins(c, at, m)
  PROVE  pc'[c] = at /\ call'[c] = m
  BY DEF Begins, CallTypes

LEMMA Gone ==
  ASSUME CallTypes, NEW c \in Callers, NEW at, Goes(c, at)
  PROVE  pc'[c] = at /\ call'[c] = call[c]
  BY DEF Goes, CallTypes

LEMMA Ended ==
  ASSUME CallTypes, NEW c \in Callers, Ends(c)
  PROVE  pc'[c] = "idle" /\ call'[c] = NoCall
  BY DEF Ends, CallTypes

\* What a caller has read stays enough for what it does next.
LEMMA CallsFitStep ==
  ASSUME CrmTypes, CallTypes, CallsFit, DraftsFit, [Next]_vars
  PROVE  CallsFit'
  <1>1. ASSUME NEW c \in Callers, Start(c) \/ Step(c) \/ Crash(c), CallFits(c)' PROVE CallsFit'
    BY <1>1, OthersKeep DEF CallsFit, CallFits
  <1>2. ASSUME NEW c \in Callers, pc'[c] = "idle" PROVE CallFits(c)'
    BY <1>2 DEF CallFits
  <1>3. ASSUME NEW c \in Callers, Start(c) PROVE CallsFit'
    <2> SUFFICES ASSUME ~UNCHANGED <<pc, call>> PROVE CallsFit'
      BY DEF CallsFit, CallFits
    <2>0. ASSUME NEW at, NEW m, Begins(c, at, m), m.key \in Keys, at # "history",
                 at = "stage" => m.to \in Stages /\ (m.to = "lost" => m.reason),
                 at \in {"followup", "next"} => m.from \in Ruled,
                 at = "approve" => m.by \in People
          PROVE  CallsFit'
      <3>1. pc'[c] = at /\ call'[c] = m  BY <2>0, Begun
      <3>2. CallFits(c)'  BY <2>0, <3>1 DEF CallFits
      <3> QED  BY <1>1, <1>3, <3>2
    <2>1. ASSUME NEW k \in Keys,
                 \/ \E known \in BOOLEAN : Discover(c, k, known)
                 \/ \E found \in BOOLEAN : Attach(c, k, found)
                 \/ Evaluate(c, k)
          PROVE  CallsFit'
      BY <2>0, <2>1 DEF Discover, Attach, Evaluate, NoCall
    <2>2. ASSUME NEW k \in Keys, Schedule(c, k) PROVE CallsFit'
      BY <2>0, <2>2 DEF Schedule, NeedsReminder, NoCall
    <2>3. ASSUME NEW k \in Keys, NEW to \in Stages, NEW reason \in BOOLEAN,
                 Move(c, k, to, reason)
          PROVE  CallsFit'
      BY <2>0, <2>3 DEF Move, NoCall
    <2>4. ASSUME NEW d \in Drafts, NEW k \in Keys, Prepare(c, d, k) PROVE CallsFit'
      BY <2>0, <2>4 DEF Prepare, NoCall
    <2>5. ASSUME NEW d \in Drafts, NEW p \in People, Approve(c, d, p) PROVE CallsFit'
      BY <2>0, <2>5 DEF Approve, NoCall, DraftsFit, RowFits
    <2>6. ASSUME NEW d \in Drafts, NEW exp \in BOOLEAN, Send(c, d, exp) PROVE CallsFit'
      BY <2>0, <2>6 DEF Send, NoCall, DraftsFit, RowFits
    <2> QED
      BY <1>3, <2>1, <2>2, <2>3, <2>4, <2>5, <2>6 DEF Start
  <1>4. ASSUME NEW c \in Callers, Step(c) PROVE CallsFit'
    <2> USE DEF CallsFit, CallFits
    <2>1. CASE Ends(c)
      BY <1>1, <1>2, <1>4, <2>1, Ended
    <2>2. CASE UpdateStage(c)
      BY <1>1, <1>4, <2>2, Gone DEF UpdateStage
    <2>3. CASE InsertFollowup(c)
      BY <1>1, <1>4, <2>3, Gone DEF InsertFollowup
    <2>4. CASE NextVersion(c)
      <3>1. pc'[c] = "score" /\ call'[c].key = call[c].key
        BY <2>4, CallFields DEF NextVersion, CallTypes, CallRecords
      <3> QED  BY <1>1, <1>4, <2>4, <3>1 DEF NextVersion
    <2>5. CASE Remind(c) /\ ~Ends(c)
      <3>1. /\ pc'[c] = "followup" /\ call'[c].key = call[c].key
            /\ call'[c].from \in Ruled
        BY <2>5, CallFields DEF Remind, NeedsReminder, CallTypes, CallRecords
      <3> QED  BY <1>1, <1>4, <2>5, <3>1 DEF Remind
    <2>6. ASSUME NEW at \in PCs \ {"stage", "history", "followup", "next", "approve"},
                 Goes(c, at), pc[c] # "idle"
          PROVE  CallsFit'
      BY <1>1, <1>4, <2>6, Gone
    <2>7. CASE UpdateNextAction(c) \/ InsertCompany(c) \/ InsertLead(c) \/ InsertBirth(c)
      BY <2>1, <2>6, <2>7 DEF UpdateNextAction, InsertCompany, InsertLead, InsertBirth, PCs
    <2>8. CASE InsertScore(c) \/ InsertMove(c) \/ InsertDraft(c) \/ UpdateSent(c) \/ Count(c)
      BY <2>1, <2>6, <2>8 DEF InsertScore, InsertMove, InsertDraft, UpdateSent, Count, PCs
    <2>9. CASE Log(c)
      BY <2>1, <2>6, <2>9 DEF Log, PCs
    <2>10. CASE AttachProvenance(c) \/ CacheScore(c) \/ UpdateApproved(c) \/ InsertTask(c)
      BY <2>1, <2>10 DEF AttachProvenance, CacheScore, UpdateApproved, InsertTask
    <2> QED
      BY <1>4, <2>1, <2>2, <2>3, <2>4, <2>5, <2>7, <2>8, <2>9, <2>10 DEF Step
  <1>5. ASSUME NEW c \in Callers, Crash(c) PROVE CallsFit'
    BY <1>1, <1>2, <1>5 DEF Crash, CallTypes
  <1>6. CASE UNCHANGED vars
    BY <1>6 DEF vars, CallsFit, CallFits
  <1> QED
    BY <1>3, <1>4, <1>5, <1>6 DEF Next

-----------------------------------------------------------------------------
(***************************************************************************)
(* Approved first                                                          *)
(***************************************************************************)
LEMMA NobodyIsNobody == None \notin People
  BY LedgerAssumption

\* A step that leaves the drafts alone and its caller with none in hand.
LEMMA DraftsAlone ==
  ASSUME CallTypes, DraftsFit, SentWasApproved, UNCHANGED <<draft, sends>>,
         NEW c \in Callers, Start(c) \/ Step(c) \/ Crash(c),
         pc'[c] \notin {"draft", "approve", "sent"}
  PROVE  DraftsFit' /\ SentWasApproved'
  <1>1. \A b \in Callers : b # c => HoldFits(b)'
    BY OthersKeep DEF DraftsFit, HoldFits
  <1>2. HoldFits(c)'
    BY DEF HoldFits
  <1>3. \A d \in Drafts : RowFits(d)'
    BY DEF DraftsFit, RowFits
  <1>4. SentWasApproved'
    BY DEF SentWasApproved
  <1>5. \A a, b \in Callers : a # b /\ pc'[a] = "draft" /\ pc'[b] = "draft"
                                => call'[a].id # call'[b].id
    BY OthersKeep DEF DraftsFit
  <1> QED
    BY <1>1, <1>2, <1>3, <1>4, <1>5 DEF DraftsFit

\* A caller that takes a draft in hand, and the rows left alone.
LEMMA DraftTaken ==
  ASSUME CallTypes, DraftsFit, SentWasApproved, UNCHANGED <<draft, sends>>,
         NEW c \in Callers, Start(c), NEW d \in Drafts, NEW at, pc'[c] = at, call'[c].id = d,
         at \in {"approve", "sent"} => draft[d].state # "none",
         at = "sent" => draft[d].by # None,
         at = "draft" => /\ draft[d].state = "none"
                         /\ \A b \in Callers : pc[b] = "draft" => call[b].id # d
  PROVE  DraftsFit' /\ SentWasApproved'
  <1>1. \A b \in Callers : b # c => HoldFits(b)'
    BY OthersKeep DEF DraftsFit, HoldFits
  <1>2. HoldFits(c)'
    BY DEF HoldFits
  <1>3. \A e \in Drafts : RowFits(e)'
    BY DEF DraftsFit, RowFits
  <1>4. SentWasApproved'
    BY DEF SentWasApproved
  <1>5. \A b \in Callers : b # c => pc'[b] = pc[b] /\ call'[b] = call[b]
    BY OthersKeep
  <1>6. \A a, b \in Callers : a # b /\ pc'[a] = "draft" /\ pc'[b] = "draft"
                                => call'[a].id # call'[b].id
    BY <1>5 DEF DraftsFit
  <1> QED
    BY <1>1, <1>2, <1>3, <1>4, <1>6 DEF DraftsFit

\* A caller that writes draft d and lets it go.
LEMMA DraftWritten ==
  ASSUME CallTypes, DraftsFit, SentWasApproved, OutreachTypes,
         NEW c \in Callers, Step(c), pc'[c] \notin {"draft", "approve", "sent"},
         NEW d \in Drafts,
         \A e \in Drafts : e # d => draft'[e] = draft[e] /\ sends'[e] = sends[e],
         draft'[d].state # "none", draft'[d].key \in Keys,
         draft'[d].state = "draft" =>
           sends'[d] = 0 /\ \A b \in Callers : b # c /\ pc[b] = "draft" => call[b].id # d,
         draft[d].state = "none" <=> draft'[d].state = "draft",
         draft'[d].state # "draft" => draft'[d].by # None
  PROVE  DraftsFit' /\ SentWasApproved'
  <1>1. \A b \in Callers : b # c => pc'[b] = pc[b] /\ call'[b] = call[b]
    BY OthersKeep
  <1>2. ASSUME NEW b \in Callers, b # c PROVE HoldFits(b)'
    <2>1. CASE call[b].id = d
      BY <1>1, <1>2, <2>1 DEF DraftsFit, HoldFits
    <2>2. CASE call[b].id # d
      BY <1>1, <1>2, <2>2 DEF DraftsFit, HoldFits
    <2> QED  BY <2>1, <2>2
  <1>3. HoldFits(c)'
    BY DEF HoldFits
  <1>4. \A e \in Drafts : RowFits(e)'
    BY DEF DraftsFit, RowFits
  <1>5. SentWasApproved'
    BY DEF SentWasApproved
  <1>6. \A a, b \in Callers : a # b /\ pc'[a] = "draft" /\ pc'[b] = "draft"
                                => call'[a].id # call'[b].id
    BY <1>1 DEF DraftsFit
  <1> QED
    BY <1>2, <1>3, <1>4, <1>5, <1>6 DEF DraftsFit

\* Rows and what callers hold of them stay as they should, whoever moves.
LEMMA DraftStep ==
  ASSUME OutreachTypes, CallTypes, CallsFit, DraftsFit, SentWasApproved, [Next]_vars
  PROVE  DraftsFit' /\ SentWasApproved'
  <1> DEFINE Good == DraftsFit' /\ SentWasApproved'
  <1>1. ASSUME NEW c \in Callers, NEW d \in Drafts, NEW k \in Keys, Prepare(c, d, k) PROVE Good
    <2> DEFINE m == [NoCall EXCEPT !.op = "draft", !.key = k, !.id = d]
    <2>0. Begins(c, "draft", m) /\ m.id = d  BY <1>1 DEF Prepare, NoCall
    <2> HIDE DEF m
    <2>1. pc'[c] = "draft" /\ call'[c].id = d  BY <2>0, Begun
    <2>2. Start(c) /\ UNCHANGED <<draft, sends>>  BY Zenon, <1>1 DEF Start, Prepare, outreach
    <2> QED  BY <1>1, <2>1, <2>2, DraftTaken DEF Prepare
  <1>2. ASSUME NEW c \in Callers, NEW d \in Drafts, NEW p \in People, Approve(c, d, p) PROVE Good
    <2> DEFINE m == [NoCall EXCEPT !.op = "approve", !.key = draft[d].key, !.id = d, !.by = p]
    <2>0. Begins(c, "approve", m) /\ m.id = d  BY <1>2 DEF Approve, NoCall
    <2> HIDE DEF m
    <2>1. pc'[c] = "approve" /\ call'[c].id = d  BY <2>0, Begun
    <2>2. Start(c) /\ UNCHANGED <<draft, sends>>  BY Zenon, <1>2 DEF Start, Approve, outreach
    <2> QED  BY <1>2, <2>1, <2>2, DraftTaken DEF Approve
  <1>3. ASSUME NEW c \in Callers, NEW d \in Drafts, NEW exp \in BOOLEAN, Send(c, d, exp)
        PROVE  Good
    <2> DEFINE m == [NoCall EXCEPT !.op = "send", !.key = draft[d].key, !.id = d, !.exp = exp]
    <2>0. Begins(c, "sent", m) /\ m.id = d  BY <1>3 DEF Send, NoCall
    <2> HIDE DEF m
    <2>1. pc'[c] = "sent" /\ call'[c].id = d  BY <2>0, Begun
    <2>2. Start(c) /\ UNCHANGED <<draft, sends>>  BY Zenon, <1>3 DEF Start, Send, outreach
    <2> QED  BY <1>3, <2>1, <2>2, DraftTaken DEF Send, SentWasApproved
  <1>4. ASSUME NEW c \in Callers, InsertDraft(c) PROVE Good
    <2> DEFINE d == call[c].id
               r == [NoDraft EXCEPT !.state = "draft", !.key = call[c].key]
    <2>1. d \in Drafts /\ draft[d].state = "none" /\ call[c].key \in Keys
      BY <1>4, CallKey DEF InsertDraft, DraftsFit, HoldFits
    <2>2. draft' = [draft EXCEPT ![d] = r]  BY <1>4 DEF InsertDraft
    <2>3. draft'[d] = r /\ \A e \in Drafts : e # d => draft'[e] = draft[e]
      BY <2>1, <2>2 DEF OutreachTypes
    <2>4. r.state = "draft" /\ r.key = call[c].key  BY DEF NoDraft
    <2>5. sends' = sends /\ sends[d] = 0
      BY <1>4, <2>1 DEF InsertDraft, DraftsFit, RowFits
    <2>6. pc'[c] = "feed" /\ pc[c] = "draft"  BY <1>4, Gone DEF InsertDraft
    <2>7. \A b \in Callers : b # c /\ pc[b] = "draft" => call[b].id # d
      BY <2>6 DEF DraftsFit
    <2>8. Step(c)  BY <1>4 DEF Step
    <2> HIDE DEF d, r
    <2> QED  BY <2>1, <2>3, <2>4, <2>5, <2>6, <2>7, <2>8, DraftWritten
  <1>5. ASSUME NEW c \in Callers, UpdateApproved(c) PROVE Good
    <2> DEFINE d == call[c].id
               r == [draft[d] EXCEPT !.state = "approved", !.by = call[c].by]
    <2>1. d \in Drafts /\ draft[d].state # "none" /\ call[c].by \in People
      BY <1>5 DEF UpdateApproved, DraftsFit, HoldFits, CallsFit, CallFits
    <2>2. draft[d] \in DraftRows /\ draft[d].key \in Keys
      BY <2>1 DEF OutreachTypes, DraftsFit, RowFits
    <2>3. draft' = [draft EXCEPT ![d] = r]
      BY <1>5, <2>1, <2>2 DEF UpdateApproved, OutreachTypes
    <2>4. draft'[d] = r /\ \A e \in Drafts : e # d => draft'[e] = draft[e]
      BY <2>1, <2>3 DEF OutreachTypes
    <2>5. r.state = "approved" /\ r.key = draft[d].key /\ r.by = call[c].by
      BY <2>2 DEF DraftRows
    <2>6. pc'[c] = "idle" /\ sends' = sends /\ Step(c)
      BY <1>5, Ended DEF UpdateApproved, Step
    <2>7. r.by # None  BY <2>1, <2>5, NobodyIsNobody
    <2> HIDE DEF d, r
    <2> QED  BY <2>1, <2>2, <2>4, <2>5, <2>6, <2>7, DraftWritten
  <1>6. ASSUME NEW c \in Callers, UpdateSent(c) PROVE Good
    <2> DEFINE d == call[c].id
               r == [draft[d] EXCEPT !.state = "sent", !.counted = call[c].exp]
    <2>1. d \in Drafts /\ draft[d].state # "none" /\ draft[d].by # None
      BY <1>6 DEF UpdateSent, DraftsFit, HoldFits
    <2>2. draft[d] \in DraftRows /\ draft[d].key \in Keys
      BY <2>1 DEF OutreachTypes, DraftsFit, RowFits
    <2>3. draft' = [draft EXCEPT ![d] = r]
      BY <1>6, <2>1, <2>2 DEF UpdateSent, OutreachTypes
    <2>4. /\ draft'[d] = r
          /\ \A e \in Drafts : e # d => draft'[e] = draft[e] /\ sends'[e] = sends[e]
      BY <1>6, <2>1, <2>3 DEF UpdateSent, OutreachTypes
    <2>5. r.state = "sent" /\ r.key = draft[d].key /\ r.by = draft[d].by
      BY <2>2 DEF DraftRows
    <2>6. pc'[c] \in {"count", "feed"} /\ Step(c)
      BY <1>6, Gone DEF UpdateSent, Step
    <2> HIDE DEF d, r
    <2> QED  BY <2>1, <2>2, <2>4, <2>5, <2>6, DraftWritten
  <1>7. ASSUME NEW c \in Callers, Start(c), UNCHANGED <<draft, sends>> PROVE Good
    <2>1. ASSUME NEW at, NEW m, Begins(c, at, m), at \notin {"draft", "approve", "sent"} PROVE Good
      BY <1>7, <2>1, Begun, DraftsAlone
    <2>2. ASSUME NEW k \in Keys, Evaluate(c, k) \/ Schedule(c, k) PROVE Good
      BY <2>1, <2>2 DEF Evaluate, Schedule
    <2>5. ASSUME NEW k \in Keys, NEW known \in BOOLEAN, Discover(c, k, known) PROVE Good
      BY <2>1, <2>5 DEF Discover
    <2>3. ASSUME NEW k \in Keys, NEW to \in Stages, NEW reason \in BOOLEAN,
                 Move(c, k, to, reason)
          PROVE  Good
      BY <2>1, <2>3 DEF Move
    <2>4. ASSUME NEW k \in Keys, NEW found \in BOOLEAN, Attach(c, k, found) PROVE Good
      BY <2>1, <2>4 DEF Attach
    <2> QED
      BY <1>1, <1>2, <1>3, <1>7, <2>2, <2>3, <2>4, <2>5 DEF Start
  <1>8. ASSUME NEW c \in Callers, Step(c), UNCHANGED <<draft, sends>> PROVE Good
    <2>1. ASSUME NEW at, Goes(c, at), at \notin {"draft", "approve", "sent"} PROVE Good
      BY <1>8, <2>1, Gone, DraftsAlone
    <2>2. Ends(c) => Good
      BY <1>8, Ended, DraftsAlone
    <2>3. CASE NextVersion(c)
      BY <1>8, <2>3, DraftsAlone DEF NextVersion, CallTypes
    <2>4. CASE Remind(c) /\ ~Ends(c)
      BY <1>8, <2>4, DraftsAlone DEF Remind, CallTypes
    <2>5. CASE Step(c) /\ ~NextVersion(c) /\ ~Remind(c)
      BY <1>4, <1>5, <1>6, <2>1, <2>2, <2>5
         DEF Step, InsertCompany, InsertLead, InsertBirth, AttachProvenance, InsertScore,
             CacheScore, UpdateStage, InsertMove, Count, Log, InsertFollowup,
             UpdateNextAction, InsertTask
    <2> QED
      BY <1>8, <2>2, <2>3, <2>4, <2>5
  <1>9. ASSUME NEW c \in Callers, Crash(c) PROVE Good
    BY <1>9, DraftsAlone DEF Crash, CallTypes, outreach
  <1>10. CASE UNCHANGED vars
    BY <1>10 DEF vars, outreach, DraftsFit, RowFits, HoldFits, SentWasApproved
  <1>11. ASSUME NEW c \in Callers, Start(c) PROVE Good
    <2>1. UNCHANGED <<draft, sends>>
      BY Zenon, <1>11
         DEF Start, Discover, Attach, Evaluate, Schedule, Move, Prepare, Approve, Send, outreach
    <2> QED  BY <1>7, <1>11, <2>1
  <1>12. ASSUME NEW c \in Callers, Step(c) PROVE Good
    <2>1. UNCHANGED <<draft, sends>> \/ InsertDraft(c) \/ UpdateApproved(c) \/ UpdateSent(c)
      BY <1>12
         DEF Step, InsertCompany, InsertLead, InsertBirth, AttachProvenance, NextVersion,
             InsertScore, CacheScore, UpdateStage, InsertMove, Count, Log, Remind,
             InsertFollowup, UpdateNextAction, InsertTask, outreach
    <2> QED  BY <1>4, <1>5, <1>6, <1>8, <1>12, <2>1
  <1> QED
    BY <1>9, <1>10, <1>11, <1>12 DEF Next

-----------------------------------------------------------------------------
(***************************************************************************)
(* Losses and scores                                                       *)
(***************************************************************************)
\* What a step may do to a lead's row: a move, or a cached score, or neither.
LEMMA LeadStep ==
  ASSUME CrmTypes, CallTypes, CallsFit, [Next]_vars, NEW k \in Keys
  PROVE  \/ /\ lead'[k].stage = lead[k].stage /\ lead'[k].lost_reason = lead[k].lost_reason
            /\ lead'[k].score = lead[k].score /\ lead'[k].version = lead[k].version
         \/ /\ lead'[k].stage = "lost" => lead'[k].lost_reason
            /\ lead'[k].score = lead[k].score /\ lead'[k].version = lead[k].version
         \/ \E c \in Callers :
              /\ CacheScore(c) /\ k = call[c].key
              /\ lead'[k].stage = lead[k].stage /\ lead'[k].lost_reason = lead[k].lost_reason
              /\ lead'[k].score = call[c].score /\ lead'[k].version = call[c].version
  <1> DEFINE Same == /\ lead'[k].stage = lead[k].stage
                     /\ lead'[k].lost_reason = lead[k].lost_reason
                     /\ lead'[k].score = lead[k].score /\ lead'[k].version = lead[k].version
             Moved == /\ lead'[k].stage = "lost" => lead'[k].lost_reason
                      /\ lead'[k].score = lead[k].score /\ lead'[k].version = lead[k].version
             Cached(c) == /\ CacheScore(c) /\ k = call[c].key
                          /\ lead'[k].stage = lead[k].stage
                          /\ lead'[k].lost_reason = lead[k].lost_reason
                          /\ lead'[k].score = call[c].score
                          /\ lead'[k].version = call[c].version
  <1>0. lead \in [Keys -> Leads] /\ lead[k] \in Leads
    BY DEF CrmTypes
  <1>1. ASSUME NEW c \in Callers, InsertLead(c) PROVE Same \/ Moved
    BY <1>0, <1>1 DEF InsertLead, Leads
  <1>2. ASSUME NEW c \in Callers, CacheScore(c) PROVE Same \/ Cached(c)
    <2>1. CASE k = call[c].key
      BY <1>0, <1>2, <2>1 DEF CacheScore, Leads
    <2>2. CASE k # call[c].key
      BY <1>0, <1>2, <2>2 DEF CacheScore
    <2> QED  BY <2>1, <2>2
  <1>3. ASSUME NEW c \in Callers, UpdateStage(c) PROVE Same \/ Moved
    <2>1. call[c].to = "lost" => call[c].reason
      BY <1>3 DEF UpdateStage, CallsFit, CallFits
    <2>2. CASE k = call[c].key
      BY <1>0, <1>3, <2>1, <2>2 DEF UpdateStage, Leads
    <2>3. CASE k # call[c].key
      BY <1>0, <1>3, <2>3 DEF UpdateStage
    <2> QED  BY <2>2, <2>3
  <1>4. ASSUME NEW c \in Callers, UpdateNextAction(c) PROVE Same
    BY <1>0, <1>4 DEF UpdateNextAction, Leads
  <1>5. lead' = lead => Same
    OBVIOUS
  <1>6. ASSUME NEW c \in Callers, Start(c) PROVE Same
    BY Zenon, <1>5, <1>6
       DEF Start, Discover, Attach, Evaluate, Schedule, Move, Prepare, Approve, Send, crm
  <1>7. ASSUME NEW c \in Callers, Step(c) PROVE Same \/ Moved \/ Cached(c)
    BY Zenon, <1>1, <1>2, <1>3, <1>4, <1>5, <1>7
       DEF Step, InsertCompany, InsertBirth, AttachProvenance, NextVersion, InsertScore,
           InsertMove, InsertDraft, UpdateApproved, UpdateSent, Count, Log, Remind,
           InsertFollowup, InsertTask, crm
  <1>8. ASSUME NEW c \in Callers, Crash(c) PROVE Same
    BY <1>5, <1>8 DEF Crash, crm
  <1> HIDE DEF Same, Moved, Cached
  <1>9. Same \/ Moved \/ \E c \in Callers : Cached(c)
    <2>1. CASE UNCHANGED vars  BY <1>5, <2>1 DEF vars, crm
    <2> QED  BY <1>6, <1>7, <1>8, <2>1 DEF Next
  <1> QED
    BY <1>9 DEF Same, Moved, Cached

\* Stage and reason are written by one transaction, which has both.
LEMMA LossStep ==
  ASSUME CrmTypes, CallTypes, CallsFit, LostHasReason, [Next]_vars
  PROVE  LostHasReason'
  BY LeadStep DEF LostHasReason

\* Qualifications are only ever added, and by the caller whose version it is.
LEMMA QualsStep ==
  ASSUME CrmTypes, CallTypes, CallsFit, ScoresFit, [Next]_vars, NEW k \in Keys
  PROVE  /\ Len(quals[k]) \in Nat /\ Len(quals'[k]) \in Nat
         /\ Len(quals[k]) <= Len(quals'[k])
         /\ \A i \in 1 .. Len(quals[k]) : quals'[k][i] = quals[k][i]
  <1> DEFINE Kept == /\ Len(quals[k]) \in Nat /\ Len(quals'[k]) \in Nat
                     /\ Len(quals[k]) <= Len(quals'[k])
                     /\ \A i \in 1 .. Len(quals[k]) : quals'[k][i] = quals[k][i]
  <1>0. quals \in [Keys -> Seq(Nat)] /\ quals[k] \in Seq(Nat)
    BY DEF CrmTypes
  <1>1. quals' = quals => Kept
    BY <1>0
  <1>2. ASSUME NEW c \in Callers, InsertScore(c) PROVE Kept
    <2> DEFINE s == Append(quals[k], call[c].score)
    <2>1. call[c].score \in Nat  BY CallFields
    <2>2. /\ Len(s) = Len(quals[k]) + 1 /\ Len(quals[k]) \in Nat
          /\ \A i \in 1 .. Len(quals[k]) : s[i] = quals[k][i]
      BY <1>0, <2>1
    <2>3. quals'[k] = quals[k] \/ quals'[k] = s
      BY <1>0, <1>2 DEF InsertScore
    <2> HIDE DEF s
    <2> QED  BY <2>2, <2>3
  <1> HIDE DEF Kept
  <1>3. ASSUME NEW c \in Callers, Start(c) PROVE Kept
    BY Zenon, <1>1, <1>3
       DEF Start, Discover, Attach, Evaluate, Schedule, Move, Prepare, Approve, Send, crm
  <1>4. ASSUME NEW c \in Callers, Step(c) PROVE Kept
    BY Zenon, <1>1, <1>2, <1>4
       DEF Step, InsertCompany, InsertLead, InsertBirth, AttachProvenance, NextVersion,
           CacheScore, UpdateStage, InsertMove, InsertDraft, UpdateApproved, UpdateSent,
           Count, Log, Remind, InsertFollowup, UpdateNextAction, InsertTask, crm
  <1>5. ASSUME NEW c \in Callers, Crash(c) PROVE Kept
    BY <1>1, <1>5 DEF Crash, crm
  <1>6. UNCHANGED vars => Kept
    BY <1>1 DEF vars, crm
  <1>7. Kept
    BY <1>3, <1>4, <1>5, <1>6 DEF Next
  <1> QED
    BY <1>7 DEF Kept

\* So a version, once on record, stays as it is, and a lead shows only those.
LEMMA RecordStep ==
  ASSUME CrmTypes, CallTypes, CallsFit, ScoresFit, ScoreIsOnRecord, [Next]_vars
  PROVE  ScoreIsOnRecord'
  <1> SUFFICES ASSUME NEW k \in Keys, lead'[k].version > 0
               PROVE  /\ lead'[k].version <= Len(quals'[k])
                      /\ quals'[k][lead'[k].version] = lead'[k].score
    BY DEF ScoreIsOnRecord
  <1>0. lead[k].version \in Nat
    BY DEF CrmTypes, Leads
  <1>1. CASE lead'[k].score = lead[k].score /\ lead'[k].version = lead[k].version
    BY <1>0, <1>1, QualsStep DEF ScoreIsOnRecord
  <1>2. ASSUME NEW c \in Callers, CacheScore(c), k = call[c].key,
               lead'[k].score = call[c].score, lead'[k].version = call[c].version
        PROVE  /\ lead'[k].version <= Len(quals'[k])
               /\ quals'[k][lead'[k].version] = lead'[k].score
    BY <1>2, QualsStep, CallFields DEF CacheScore, ScoresFit
  <1> QED
    BY <1>1, <1>2, LeadStep

\* Nor does what a caller is about to write contradict the record.
LEMMA ScoresStep ==
  ASSUME CrmTypes, CallTypes, CallsFit, ScoresFit, [Next]_vars
  PROVE  ScoresFit'
  <1> DEFINE Fits(b) ==
        /\ pc[b] = "score" =>
             call[b].version >= 1 /\ call[b].version <= Len(quals[call[b].key]) + 1
        /\ pc[b] = "cache" =>
             /\ call[b].version >= 1 /\ call[b].version <= Len(quals[call[b].key])
             /\ quals[call[b].key][call[b].version] = call[b].score
  <1>0. \A b \in Callers : Fits(b)
    BY DEF ScoresFit
  <1>1. ASSUME NEW b \in Callers, pc'[b] = pc[b], call'[b] = call[b] PROVE Fits(b)'
    <2>1. CASE pc[b] \in {"score", "cache"}
      <3>1. call[b].key \in Keys /\ call[b].version \in Nat
        BY <2>1, CallKey, CallFields
      <3> DEFINE k == call[b].key
      <3>2. /\ Len(quals[k]) \in Nat /\ Len(quals'[k]) \in Nat
            /\ Len(quals[k]) <= Len(quals'[k])
            /\ \A i \in 1 .. Len(quals[k]) : quals'[k][i] = quals[k][i]
        BY <3>1, QualsStep
      <3> DEFINE v == call[b].version
      <3>3. Fits(b)  BY <1>0
      <3>4. pc[b] = "score" => v >= 1 /\ v <= Len(quals[k]) + 1  BY <3>3
      <3>5. pc[b] = "cache" => v >= 1 /\ v <= Len(quals[k]) /\ quals[k][v] = call[b].score
        BY <3>3
      <3> HIDE DEF k, v
      <3>6. pc[b] = "score" => v <= Len(quals'[k]) + 1  BY <3>1, <3>2, <3>4 DEF v
      <3>7. pc[b] = "cache" => v <= Len(quals'[k]) /\ quals'[k][v] = quals[k][v]
        BY <3>1, <3>2, <3>5 DEF v
      <3> QED  BY <1>1, <3>4, <3>5, <3>6, <3>7 DEF k, v
    <2>2. CASE pc[b] \notin {"score", "cache"}
      BY <1>1, <2>2
    <2> QED  BY <2>1, <2>2
  <1>2. ASSUME NEW b \in Callers, pc'[b] \notin {"score", "cache"} PROVE Fits(b)'
    BY <1>2
  <1>3. ASSUME NEW c \in Callers, NextVersion(c) PROVE Fits(c)'
    <2> DEFINE k == call[c].key
    <2>1. k \in Keys /\ Len(quals[k]) \in Nat
      BY <1>3, CallKey DEF NextVersion, CrmTypes
    <2>2. /\ pc'[c] = "score" /\ quals' = quals
          /\ call'[c].key = k /\ call'[c].version = Len(quals[k]) + 1
      BY <1>3, CallFields DEF NextVersion, CallTypes, CallRecords, crm
    <2> QED  BY <2>1, <2>2
  <1>4. ASSUME NEW c \in Callers, InsertScore(c) PROVE Fits(c)'
    <2> DEFINE k == call[c].key
               s == Append(quals[k], call[c].score)
    <2>1. CASE Ends(c)
      BY <1>2, <2>1, Ended
    <2>2. CASE ~Ends(c)
      <3>1. k \in Keys  BY <1>4, CallKey DEF InsertScore
      <3>2. quals[k] \in Seq(Nat) /\ quals \in [Keys -> Seq(Nat)]  BY <3>1 DEF CrmTypes
      <3>3. call[c].version \in Nat /\ call[c].score \in Nat  BY CallFields
      <3>4. /\ pc[c] = "score" /\ call[c].version > Len(quals[k])
            /\ Goes(c, "cache") /\ quals'[k] = s
        BY <1>4, <2>2, <3>1, <3>2, <3>3 DEF InsertScore
      <3>5. pc'[c] = "cache" /\ call'[c] = call[c]  BY <3>4, Gone
      <3>6. call[c].version = Len(quals[k]) + 1  BY <1>0, <3>2, <3>3, <3>4
      <3>7. Len(s) = Len(quals[k]) + 1 /\ s[Len(quals[k]) + 1] = call[c].score
        BY <3>2, <3>3
      <3>8. Len(quals[k]) \in Nat  BY <3>2
      <3> HIDE DEF s
      <3> QED  BY <3>4, <3>5, <3>6, <3>7, <3>8
    <2> QED  BY <2>1, <2>2
  <1> HIDE DEF Fits
  <1>5. ASSUME NEW c \in Callers, Start(c) PROVE Fits(c)'
    <2>1. ASSUME NEW at, NEW m, Begins(c, at, m), at \notin {"score", "cache"} PROVE Fits(c)'
      BY <1>2, <2>1, Begun
    <2>2. ASSUME NEW k \in Keys, Evaluate(c, k) \/ Schedule(c, k) PROVE Fits(c)'
      BY <2>1, <2>2 DEF Evaluate, Schedule
    <2>8. ASSUME NEW k \in Keys, NEW known \in BOOLEAN, Discover(c, k, known) PROVE Fits(c)'
      BY <2>1, <2>8 DEF Discover
    <2>3. ASSUME NEW k \in Keys, NEW to \in Stages, NEW reason \in BOOLEAN,
                 Move(c, k, to, reason)
          PROVE  Fits(c)'
      BY <2>1, <2>3 DEF Move
    <2>4. ASSUME NEW d \in Drafts, \E k \in Keys : Prepare(c, d, k) PROVE Fits(c)'
      BY <2>1, <2>4 DEF Prepare
    <2>5. ASSUME NEW d \in Drafts, \E p \in People : Approve(c, d, p) PROVE Fits(c)'
      BY <2>1, <2>5 DEF Approve
    <2>6. ASSUME NEW d \in Drafts, \E exp \in BOOLEAN : Send(c, d, exp) PROVE Fits(c)'
      BY <2>1, <2>6 DEF Send
    <2>7. ASSUME NEW k \in Keys, NEW found \in BOOLEAN, Attach(c, k, found) PROVE Fits(c)'
      BY <2>1, <2>7 DEF Attach
    <2> QED  BY <1>5, <2>2, <2>3, <2>4, <2>5, <2>6, <2>7, <2>8 DEF Start
  <1>6. ASSUME NEW c \in Callers, Step(c) PROVE Fits(c)'
    <2>1. ASSUME NEW at, Goes(c, at), at \notin {"score", "cache"} PROVE Fits(c)'
      BY <1>2, <2>1, Gone
    <2>2. Ends(c) => Fits(c)'
      BY <1>2, Ended
    <2>3. CASE Remind(c) /\ ~Ends(c)
      BY <1>2, <2>3 DEF Remind, CallTypes
    <2>4. CASE Step(c) /\ ~NextVersion(c) /\ ~InsertScore(c) /\ ~Remind(c)
      BY Zenon, <2>1, <2>2, <2>4
         DEF Step, InsertCompany, InsertLead, InsertBirth, AttachProvenance, CacheScore,
             UpdateStage, InsertMove, InsertDraft, UpdateApproved, UpdateSent, Count, Log,
             InsertFollowup, UpdateNextAction, InsertTask
    <2> QED  BY <1>3, <1>4, <1>6, <2>2, <2>3, <2>4
  <1>7. ASSUME NEW c \in Callers, Crash(c) PROVE Fits(c)'
    BY <1>2, <1>7 DEF Crash, CallTypes
  <1>8. \A b \in Callers : Fits(b)'
    <2>1. CASE UNCHANGED vars  BY <1>1, <2>1 DEF vars
    <2>2. ASSUME NEW c \in Callers, Start(c) \/ Step(c) \/ Crash(c), NEW b \in Callers
          PROVE  Fits(b)'
      BY <1>1, <1>5, <1>6, <1>7, <2>2, OthersKeep
    <2> QED  BY <2>1, <2>2 DEF Next
  <1> QED
    BY <1>8 DEF Fits, ScoresFit

-----------------------------------------------------------------------------
(***************************************************************************)
(* The invariant                                                           *)
(***************************************************************************)
LEMMA Initially == Init => IInv
  <1> SUFFICES ASSUME Init PROVE IInv
    OBVIOUS
  <1>1. NoLead \in Leads /\ NoDraft \in DraftRows
    BY DEF NoLead, Leads, NoDraft, DraftRows
  <1>2. <<>> \in Seq(Transitions) /\ <<>> \in Seq(Nat)
    OBVIOUS
  <1>3. CrmTypes /\ OutreachTypes
    BY <1>1, <1>2 DEF Init, CrmTypes, OutreachTypes
  <1>4. ReminderTypes /\ RestTypes
    BY DEF Init, ReminderTypes, RestTypes
  <1>5. CallTypes
    BY NoCallInRange DEF Init, CallTypes, PCs
  <1>6. CallsFit /\ ScoresFit
    BY DEF Init, CallsFit, CallFits, ScoresFit
  <1>7. DraftsFit /\ SentWasApproved
    BY DEF Init, DraftsFit, RowFits, HoldFits, SentWasApproved, NoDraft
  <1>8. None # "lost"
    BY LedgerAssumption DEF Stages, Forward
  <1>9. LostHasReason /\ ScoreIsOnRecord
    BY <1>8 DEF Init, LostHasReason, ScoreIsOnRecord, NoLead
  <1> QED
    BY <1>3, <1>4, <1>5, <1>6, <1>7, <1>9 DEF IInv, TypeOK

LEMMA Inductive == IInv /\ [Next]_vars => IInv'
  <1> SUFFICES ASSUME IInv, [Next]_vars PROVE IInv'
    OBVIOUS
  <1> USE DEF IInv, TypeOK
  <1>1. CrmTypes' /\ OutreachTypes' /\ ReminderTypes'
    BY CrmStep, OutreachStep, ReminderStep
  <1>2. CallTypes' /\ RestTypes'
    BY CallStep
  <1>3. CallsFit' /\ DraftsFit' /\ SentWasApproved'
    BY CallsFitStep, DraftStep
  <1>4. LostHasReason' /\ ScoresFit' /\ ScoreIsOnRecord'
    BY LossStep, ScoresStep, RecordStep
  <1> QED
    BY <1>1, <1>2, <1>3, <1>4

LEMMA InvariantHolds == Spec => []IInv
  BY Initially, Inductive, PTL DEF Spec

-----------------------------------------------------------------------------
\* Every row of the ledger and every variable of a handler stays in its range.
THEOREM LedgerTypes == Spec => []TypeOK
  <1>1. IInv => TypeOK  BY DEF IInv
  <1> QED  BY <1>1, InvariantHolds, PTL

\* approve_draft() and record_sent(): whatever the order of approvals and sends,
\* and whoever dies, no draft is approved or recorded as sent without an approver.
THEOREM ApprovedFirst == Spec => []SentWasApproved
  <1>1. IInv => SentWasApproved  BY DEF IInv
  <1> QED  BY <1>1, InvariantHolds, PTL

\* move_stage(): a lead in "lost" has a reason, whoever else moved it meanwhile.
THEOREM LossExplained == Spec => []LostHasReason
  <1>1. IInv => LostHasReason  BY DEF IInv
  <1> QED  BY <1>1, InvariantHolds, PTL

\* record_qualification(): the score and version a lead shows are those of a row of
\* its qualifications, whoever raced to add one.
THEOREM ScoreRecorded == Spec => []ScoreIsOnRecord
  <1>1. IInv => ScoreIsOnRecord  BY DEF IInv
  <1> QED  BY <1>1, InvariantHolds, PTL

-----------------------------------------------------------------------------
(***************************************************************************)
(* Callers that take turns.  The handler under way is the only one, so     *)
(* that what it read when it began is still so at each transaction.        *)
(***************************************************************************)
OneTurn == ordered => \A b, c \in Callers : pc[b] # "idle" /\ pc[c] # "idle" => b = c

\* While c is at work the others are not.
Turn(c) == ordered' = ordered /\ \A b \in Callers : b # c => pc[b] = "idle" /\ pc'[b] = "idle"

\* Who dies is counted, nobody else is, and the regime stays.
LEMMA Standing ==
  ASSUME RestTypes, NEW c \in Callers, Start(c) \/ Step(c) \/ Crash(c)
  PROVE  /\ ordered' = ordered
         /\ crashes' = IF Crash(c) THEN crashes + 1 ELSE crashes
         /\ crashes' = 0 => crashes = 0 /\ ~Crash(c)
  <1>1. CASE Crash(c)
    BY <1>1 DEF RestTypes, Crash
  <1>2. CASE Start(c) \/ Step(c)
    <2>1. crashes' = crashes /\ ordered' = ordered
      BY Zenon, <1>2 DEF Start, Discover, Attach, Evaluate, Schedule, Move, Prepare, Approve,
                         Send, Begins,
           Step, InsertCompany, InsertLead, InsertBirth, AttachProvenance, NextVersion,
           InsertScore, CacheScore, UpdateStage, InsertMove, InsertDraft, UpdateApproved,
           UpdateSent, Count, Log, Remind, InsertFollowup, UpdateNextAction, InsertTask, Goes,
           Ends, rest
    <2>2. ~Crash(c)
      BY <2>1 DEF Crash, RestTypes
    <2> QED BY <2>1, <2>2
  <1> QED BY <1>1, <1>2

LEMMA TakesTurn ==
  ASSUME CallTypes, RestTypes, OneTurn, ordered, NEW c \in Callers,
         Start(c) \/ Step(c) \/ Crash(c)
  PROVE  Turn(c)
  <1>1. ordered' = ordered
    BY Standing
  <1>2. ASSUME NEW b \in Callers, b # c PROVE pc[b] = "idle"
    <2>1. CASE Start(c)
      BY Zenon, <1>2, <2>1 DEF Start, Discover, Attach, Evaluate, Schedule, Move, Prepare, Approve,
                        Send, Begins
    <2>2. CASE Step(c) \/ Crash(c)
      <3>1. pc[c] # "idle"
        BY Zenon, <2>2 DEF Step, InsertCompany, InsertLead, InsertBirth, AttachProvenance,
                           NextVersion,
           InsertScore, CacheScore, UpdateStage, InsertMove, InsertDraft, UpdateApproved,
           UpdateSent, Count, Log, Remind, InsertFollowup, UpdateNextAction, InsertTask, Crash
      <3> QED BY <1>2, <3>1 DEF OneTurn
    <2> QED BY <2>1, <2>2
  <1> QED BY <1>1, <1>2, OthersKeep DEF Turn

\* From where each transaction goes where, and what its caller remembers.
LEMMA Paths ==
  ASSUME CallTypes, NEW c \in Callers
  PROVE  /\ InsertCompany(c) => pc[c] = "company" /\ pc'[c] = "lead" /\ call'[c] = call[c]
         /\ InsertLead(c) => /\ pc[c] = "lead" /\ pc'[c] \in {"idle", "birth"}
                             /\ pc'[c] = "birth" <=> ~Exists(call[c].key) /\ call[c].known
                             /\ pc'[c] = "birth" => call'[c] = call[c]
         /\ InsertBirth(c) => pc[c] = "birth" /\ pc'[c] = "attach" /\ call'[c] = call[c]
         /\ AttachProvenance(c) => pc[c] = "attach" /\ pc'[c] = "idle"
         /\ NextVersion(c) => /\ pc[c] = "version" /\ pc'[c] = "score"
                              /\ call'[c].key = call[c].key /\ call'[c].score = call[c].score
                              /\ call'[c].version = Len(quals[call[c].key]) + 1
         /\ InsertScore(c) => /\ pc[c] = "score" /\ pc'[c] \in {"idle", "cache"}
                              /\ pc'[c] = "cache" => call'[c] = call[c]
         /\ CacheScore(c) => pc[c] = "cache" /\ pc'[c] = "idle"
         /\ UpdateStage(c) => pc[c] = "stage" /\ pc'[c] = "history" /\ call'[c] = call[c]
         /\ InsertMove(c) => pc[c] = "history" /\ pc'[c] = "feed" /\ call'[c] = call[c]
         /\ InsertDraft(c) => pc[c] = "draft" /\ pc'[c] = "feed" /\ call'[c] = call[c]
         /\ UpdateApproved(c) => pc[c] = "approve" /\ pc'[c] = "idle"
         /\ UpdateSent(c) => /\ pc[c] = "sent" /\ call'[c] = call[c]
                             /\ pc'[c] = IF call[c].exp THEN "count" ELSE "feed"
         /\ Count(c) => pc[c] = "count" /\ pc'[c] = "feed" /\ call'[c] = call[c]
         /\ Log(c) => /\ pc[c] = "feed" /\ pc'[c] \in {"idle", "remind"}
                      /\ pc'[c] = "remind" => call'[c] = call[c]
         /\ Remind(c) => /\ pc[c] = "remind" /\ pc'[c] \in {"idle", "followup"}
                         /\ pc'[c] = "followup" => /\ NeedsReminder(call[c].key)
                                                   /\ call'[c].key = call[c].key
         /\ InsertFollowup(c) => pc[c] = "followup" /\ pc'[c] = "next" /\ call'[c] = call[c]
         /\ UpdateNextAction(c) => pc[c] = "next" /\ pc'[c] = "task" /\ call'[c] = call[c]
         /\ InsertTask(c) => pc[c] = "task" /\ pc'[c] = "idle"
         /\ Crash(c) => pc[c] # "idle" /\ pc'[c] = "idle"
  <1>1. call[c] \in CallRecords
    BY DEF CallTypes
  <1>2. ASSUME NEW at, Goes(c, at) PROVE pc'[c] = at /\ call'[c] = call[c]
    BY <1>2, Gone
  <1>3. Ends(c) => pc'[c] = "idle"
    BY Ended
  <1>4. NextVersion(c) => /\ pc[c] = "version" /\ pc'[c] = "score"
                          /\ call'[c].key = call[c].key /\ call'[c].score = call[c].score
                          /\ call'[c].version = Len(quals[call[c].key]) + 1
    BY <1>1 DEF NextVersion, CallTypes, CallRecords
  <1>5. Remind(c) => /\ pc[c] = "remind" /\ pc'[c] \in {"idle", "followup"}
                     /\ pc'[c] = "followup" => /\ NeedsReminder(call[c].key)
                                               /\ call'[c].key = call[c].key
    BY <1>1, <1>3 DEF Remind, CallTypes, CallRecords
  <1>6. Crash(c) => pc[c] # "idle" /\ pc'[c] = "idle"
    BY DEF Crash, CallTypes
  <1>7. InsertLead(c) => /\ pc[c] = "lead" /\ pc'[c] \in {"idle", "birth"}
                         /\ pc'[c] = "birth" <=> ~Exists(call[c].key) /\ call[c].known
                         /\ pc'[c] = "birth" => call'[c] = call[c]
    BY <1>2, <1>3 DEF InsertLead
  <1>8. InsertScore(c) => /\ pc[c] = "score" /\ pc'[c] \in {"idle", "cache"}
                          /\ pc'[c] = "cache" => call'[c] = call[c]
    BY <1>2, <1>3 DEF InsertScore
  <1>9. UpdateSent(c) => /\ pc[c] = "sent" /\ call'[c] = call[c]
                         /\ pc'[c] = IF call[c].exp THEN "count" ELSE "feed"
    BY <1>2 DEF UpdateSent
  <1>10. Log(c) => /\ pc[c] = "feed" /\ pc'[c] \in {"idle", "remind"}
                   /\ pc'[c] = "remind" => call'[c] = call[c]
    BY <1>2, <1>3 DEF Log
  <1>11. /\ InsertCompany(c) => pc[c] = "company" /\ pc'[c] = "lead" /\ call'[c] = call[c]
         /\ InsertBirth(c) => pc[c] = "birth" /\ pc'[c] = "attach" /\ call'[c] = call[c]
         /\ AttachProvenance(c) => pc[c] = "attach" /\ pc'[c] = "idle"
         /\ CacheScore(c) => pc[c] = "cache" /\ pc'[c] = "idle"
         /\ UpdateStage(c) => pc[c] = "stage" /\ pc'[c] = "history" /\ call'[c] = call[c]
         /\ InsertMove(c) => pc[c] = "history" /\ pc'[c] = "feed" /\ call'[c] = call[c]
         /\ InsertDraft(c) => pc[c] = "draft" /\ pc'[c] = "feed" /\ call'[c] = call[c]
         /\ UpdateApproved(c) => pc[c] = "approve" /\ pc'[c] = "idle"
         /\ Count(c) => pc[c] = "count" /\ pc'[c] = "feed" /\ call'[c] = call[c]
         /\ InsertFollowup(c) => pc[c] = "followup" /\ pc'[c] = "next" /\ call'[c] = call[c]
         /\ UpdateNextAction(c) => pc[c] = "next" /\ pc'[c] = "task" /\ call'[c] = call[c]
         /\ InsertTask(c) => pc[c] = "task" /\ pc'[c] = "idle"
    BY <1>2, <1>3 DEF InsertCompany, InsertBirth, AttachProvenance, CacheScore, UpdateStage,
       InsertMove, InsertDraft, UpdateApproved, Count, InsertFollowup, UpdateNextAction, InsertTask
  <1> QED BY Zenon, <1>4, <1>5, <1>6, <1>7, <1>8, <1>9, <1>10, <1>11

\* ... and with what each handler begins.
LEMMA Beginnings ==
  ASSUME CallTypes, NEW c \in Callers
  PROVE  /\ \A k \in Keys :
              /\ \A known \in BOOLEAN : Discover(c, k, known) =>
                   pc[c] = "idle" /\ pc'[c] = "company" /\ call'[c].key = k /\ ~Exists(k)
              /\ \A found \in BOOLEAN : Attach(c, k, found) =>
                   pc[c] = "idle" /\ pc'[c] = "feed" /\ call'[c].key = k
              /\ Evaluate(c, k) => /\ pc[c] = "idle" /\ pc'[c] = "version"
                                   /\ call'[c].key = k /\ call'[c].score = evidence[k]
              /\ Schedule(c, k) => /\ pc[c] = "idle" /\ pc'[c] = "followup" /\ call'[c].key = k
                                   /\ NeedsReminder(k)
              /\ \A to \in Stages, reason \in BOOLEAN : Move(c, k, to, reason) =>
                   /\ pc[c] = "idle" /\ pc'[c] = "stage" /\ call'[c].key = k
                   /\ call'[c].from = lead[k].stage /\ call'[c].to = to
                   /\ Exists(k) /\ to \in AllowedNext(lead[k].stage)
         /\ \A d \in Drafts :
              /\ \A k \in Keys : Prepare(c, d, k) =>
                   /\ pc[c] = "idle" /\ pc'[c] = "draft" /\ call'[c].key = k /\ call'[c].id = d
                   /\ draft[d].state = "none"
              /\ \A p \in People : Approve(c, d, p) =>
                   /\ pc[c] = "idle" /\ pc'[c] = "approve"
                   /\ call'[c].id = d /\ draft[d].state = "draft"
              /\ \A exp \in BOOLEAN : Send(c, d, exp) =>
                   /\ pc[c] = "idle" /\ pc'[c] = "sent" /\ call'[c].id = d
                   /\ call'[c].key = draft[d].key /\ draft[d].state = "approved"
  <1>1. ASSUME NEW at, NEW m, Begins(c, at, m) PROVE pc[c] = "idle" /\ pc'[c] = at /\ call'[c] = m
    BY <1>1, Begun DEF Begins
  <1>2. ASSUME NEW k \in Keys, NEW known \in BOOLEAN, Discover(c, k, known)
        PROVE  pc[c] = "idle" /\ pc'[c] = "company" /\ call'[c].key = k /\ ~Exists(k)
    <2> DEFINE m == [NoCall EXCEPT !.op = "discover", !.key = k, !.known = known]
    <2>1. m.key = k
      BY NoCallInRange DEF CallRecords
    <2>2. Begins(c, "company", m) /\ ~Exists(k)
      BY <1>2 DEF Discover
    <2> HIDE DEF m
    <2> QED BY <1>1, <2>1, <2>2
  <1>3. ASSUME NEW k \in Keys, Evaluate(c, k)
        PROVE  /\ pc[c] = "idle" /\ pc'[c] = "version"
               /\ call'[c].key = k /\ call'[c].score = evidence[k]
    <2> DEFINE m == [NoCall EXCEPT !.op = "evaluate", !.key = k, !.score = evidence[k]]
    <2>1. m.key = k /\ m.score = evidence[k]
      BY NoCallInRange DEF CallRecords
    <2>2. Begins(c, "version", m)
      BY <1>3 DEF Evaluate
    <2> HIDE DEF m
    <2> QED BY <1>1, <2>1, <2>2
  <1>4. ASSUME NEW k \in Keys, Schedule(c, k)
        PROVE  pc[c] = "idle" /\ pc'[c] = "followup" /\ call'[c].key = k /\ NeedsReminder(k)
    <2> DEFINE m == [NoCall EXCEPT !.op = "schedule", !.key = k, !.from = lead[k].stage]
    <2>1. m.key = k
      BY NoCallInRange DEF CallRecords
    <2>2. Begins(c, "followup", m) /\ NeedsReminder(k)
      BY <1>4 DEF Schedule
    <2> HIDE DEF m
    <2> QED BY <1>1, <2>1, <2>2
  <1>5. ASSUME NEW k \in Keys, NEW to \in Stages, NEW reason \in BOOLEAN, Move(c, k, to, reason)
        PROVE  /\ pc[c] = "idle" /\ pc'[c] = "stage" /\ call'[c].key = k
               /\ call'[c].from = lead[k].stage /\ call'[c].to = to
               /\ Exists(k) /\ to \in AllowedNext(lead[k].stage)
    <2> DEFINE m == [NoCall EXCEPT !.op = "move", !.key = k, !.from = lead[k].stage,
                                   !.to = to, !.reason = reason]
    <2>1. m.key = k /\ m.from = lead[k].stage /\ m.to = to
      BY NoCallInRange DEF CallRecords
    <2>2. Begins(c, "stage", m) /\ Exists(k) /\ to \in AllowedNext(lead[k].stage)
      BY <1>5 DEF Move
    <2> HIDE DEF m
    <2> QED BY <1>1, <2>1, <2>2
  <1>6. ASSUME NEW d \in Drafts, NEW k \in Keys, Prepare(c, d, k)
        PROVE  /\ pc[c] = "idle" /\ pc'[c] = "draft" /\ call'[c].key = k /\ call'[c].id = d
               /\ draft[d].state = "none"
    <2> DEFINE m == [NoCall EXCEPT !.op = "draft", !.key = k, !.id = d]
    <2>1. m.key = k /\ m.id = d
      BY NoCallInRange DEF CallRecords
    <2>2. Begins(c, "draft", m) /\ draft[d].state = "none"
      BY <1>6 DEF Prepare
    <2> HIDE DEF m
    <2> QED BY <1>1, <2>1, <2>2
  <1>7. ASSUME NEW d \in Drafts, NEW p \in People, Approve(c, d, p)
        PROVE  pc[c] = "idle" /\ pc'[c] = "approve" /\ call'[c].id = d /\ draft[d].state = "draft"
    <2> DEFINE m == [NoCall EXCEPT !.op = "approve", !.key = draft[d].key, !.id = d, !.by = p]
    <2>1. m.id = d
      BY NoCallInRange DEF CallRecords
    <2>2. Begins(c, "approve", m) /\ draft[d].state = "draft"
      BY <1>7 DEF Approve
    <2> HIDE DEF m
    <2> QED BY <1>1, <2>1, <2>2
  <1>8. ASSUME NEW d \in Drafts, NEW exp \in BOOLEAN, Send(c, d, exp)
        PROVE  /\ pc[c] = "idle" /\ pc'[c] = "sent" /\ call'[c].id = d
               /\ call'[c].key = draft[d].key /\ draft[d].state = "approved"
    <2> DEFINE m == [NoCall EXCEPT !.op = "send", !.key = draft[d].key, !.id = d, !.exp = exp]
    <2>1. m.key = draft[d].key /\ m.id = d
      BY NoCallInRange DEF CallRecords
    <2>2. Begins(c, "sent", m) /\ draft[d].state = "approved"
      BY <1>8 DEF Send
    <2> HIDE DEF m
    <2> QED BY <1>1, <2>1, <2>2
  <1>9. ASSUME NEW k \in Keys, NEW found \in BOOLEAN, Attach(c, k, found)
        PROVE  pc[c] = "idle" /\ pc'[c] = "feed" /\ call'[c].key = k
    <2> DEFINE m == [NoCall EXCEPT !.op = "research", !.key = k]
    <2>1. m.key = k
      BY NoCallInRange DEF CallRecords
    <2>2. Begins(c, "feed", m)
      BY <1>9 DEF Attach
    <2> HIDE DEF m
    <2> QED BY <1>1, <2>1, <2>2
  <1> QED BY Zenon, <1>2, <1>3, <1>4, <1>5, <1>6, <1>7, <1>8, <1>9

\* Somebody is at one of these places, about company k.
Busy(places, k) == \E c \in Callers : pc[c] \in places /\ call[c].key = k

\* A lead is inserted unless its candidate names a prospect nobody knows.
Led(c) == InsertLead(c) /\ call[c].known

\* A company's row is inserted with its lead, for a key that has none, or is left when
\* the lead is refused.
CompaniesFit ==
  ordered =>
    /\ \A c \in Callers : pc[c] = "stage" => Exists(call[c].key)
    /\ crashes = 0 =>
         /\ \A c \in Callers : pc[c] \in {"company", "lead"} => ~Exists(call[c].key)
         /\ \A k \in Keys :
              companies[k] = refused[k] + (IF Exists(k) \/ Busy({"lead"}, k) THEN 1 ELSE 0)

\* History h is a documented way from discovery to stage s.
Told(h, s) ==
  /\ h # <<>>
  /\ h[1] = [from |-> None, to |-> "prospect"]
  /\ \A i \in 2 .. Len(h) : h[i].from = h[i - 1].to /\ h[i].to \in AllowedNext(h[i].from)
  /\ h[Len(h)].to = s

\* The row of a lead and its history differ only while a handler is between them.
HistoryFits ==
  ordered /\ crashes = 0 =>
    /\ \A k \in Keys :
         IF Exists(k) /\ ~Busy({"birth"}, k)
         THEN Busy({"history"}, k) \/ Told(history[k], lead[k].stage)
         ELSE history[k] = <<>>
    /\ \A c \in Callers :
         LET k == call[c].key IN
         /\ pc[c] = "birth" => lead[k].stage = "prospect"
         /\ pc[c] = "stage" =>
              lead[k].stage = call[c].from /\ call[c].to \in AllowedNext(call[c].from)
         /\ pc[c] = "history" =>
              /\ Told(history[k], call[c].from) /\ call[c].to \in AllowedNext(call[c].from)
              /\ lead[k].stage = call[c].to

\* Each score was computed from no less evidence than the one before it, and from
\* no more than there is.
InOrder(q, e) ==
  /\ \A i \in 2 .. Len(q) : q[i - 1] <= q[i]
  /\ \A i \in 1 .. Len(q) : q[i] <= e

\* Evidence only grows, and a score is inserted before any more of it is found.
GradesFit ==
  ordered =>
    /\ \A k \in Keys :
         /\ InOrder(quals[k], evidence[k])
         /\ crashes = 0 => Busy({"cache"}, k) \/ lead[k].version = Len(quals[k])
    /\ \A c \in Callers :
         /\ pc[c] \in {"version", "score"} => call[c].score = evidence[call[c].key]
         /\ pc[c] = "cache" => call[c].version = Len(quals[call[c].key])

\* A handler holds the draft in the state it read.
SendsFit ==
  ordered =>
    /\ \A d \in Drafts :
         /\ sends[d] <= 1
         /\ draft[d].state # "sent" => sends[d] = 0 /\ ~draft[d].counted
         /\ draft[d].state = "none" => draft[d].key = None
    /\ \A c \in Callers :
         /\ pc[c] = "approve" => draft[call[c].id].state = "draft"
         /\ pc[c] = "sent" => /\ draft[call[c].id].state = "approved"
                              /\ draft[call[c].id].key = call[c].key

Counted == {d \in Drafts : draft[d].counted}
Its(k) == {d \in Drafts : draft[d].key = k}
Sent(k) == {d \in Its(k) : draft[d].state = "sent"}

CountFits ==
  LET due == IF \E c \in Callers : pc[c] = "count" THEN 1 ELSE 0 IN
  /\ IsFiniteSet(Counted)
  /\ ordered => /\ metric + due <= Cardinality(Counted)
                /\ crashes = 0 => metric + due = Cardinality(Counted)

FeedFits ==
  /\ \A k \in Keys : IsFiniteSet(Its(k))
  /\ ordered /\ crashes = 0 => \A k \in Keys :
       feed[k] + (IF Busy({"count", "feed"}, k) THEN 1 ELSE 0)
         = reads[k] + (IF Exists(k) /\ ~Busy({"birth"}, k) THEN Len(history[k]) - 1 ELSE 0)
           + Cardinality(Its(k)) + Cardinality(Sent(k))

\* A follow-up, the lead's next action and a task are one reminder, in this order.
RemindersFit ==
  ordered =>
    /\ \A k \in Keys : followups[k] <= 1
    /\ \A c \in Callers : pc[c] = "followup" => followups[call[c].key] = 0
    /\ crashes = 0 => \A k \in Keys :
         IF Busy({"next"}, k) THEN followups[k] = 1 /\ tasks[k] = 0 /\ lead[k].next = None
         ELSE IF Busy({"task"}, k) THEN followups[k] = 1 /\ tasks[k] = 0 /\ lead[k].next # None
         ELSE tasks[k] = followups[k] /\ (followups[k] = 1 <=> lead[k].next # None)

\* With callers taking turns, only the one that moves can be anywhere.
LEMMA BusyAlone ==
  ASSUME NEW c \in Callers, Turn(c), NEW places, "idle" \notin places
  PROVE  \A k \in Keys : /\ Busy(places, k) <=> pc[c] \in places /\ call[c].key = k
                         /\ Busy(places, k)' <=> pc'[c] \in places /\ call'[c].key = k
  BY DEF Turn, Busy

LEMMA BusyAt ==
  ASSUME NEW c \in Callers, Turn(c), NEW p, p # "idle"
  PROVE  \A k \in Keys : /\ Busy({p}, k) <=> pc[c] = p /\ call[c].key = k
                         /\ Busy({p}, k)' <=> pc'[c] = p /\ call'[c].key = k
  BY BusyAlone

\* Which transaction writes which table.
LEMMA Writers ==
  ASSUME NEW c \in Callers, Start(c) \/ Step(c) \/ Crash(c)
  PROVE  /\ companies' = companies \/ InsertCompany(c)
         /\ lead' = lead \/ InsertLead(c) \/ CacheScore(c) \/ UpdateStage(c) \/ UpdateNextAction(c)
         /\ history' = history \/ InsertBirth(c) \/ InsertMove(c)
         /\ \/ evidence' = evidence \/ AttachProvenance(c)
            \/ \E k \in Keys, found \in BOOLEAN : Attach(c, k, found)
         /\ quals' = quals \/ InsertScore(c)
         /\ refused' = refused \/ (InsertLead(c) /\ ~call[c].known)
         /\ reads' = reads \/ \E k \in Keys, found \in BOOLEAN : Attach(c, k, found)
         /\ draft' = draft \/ InsertDraft(c) \/ UpdateApproved(c) \/ UpdateSent(c)
         /\ metric' = metric \/ Count(c)
         /\ sends' = sends \/ UpdateSent(c)
         /\ followups' = followups \/ InsertFollowup(c)
         /\ tasks' = tasks \/ InsertTask(c)
         /\ feed' = feed \/ Log(c)
  <1>1. CASE Start(c) \/ Crash(c)
    <2>1. UNCHANGED <<companies, lead, history, quals, refused, draft, metric, sends, followups,
                      tasks, feed>>
      BY Zenon, <1>1 DEF Start, Discover, Attach, Evaluate, Schedule, Move, Prepare, Approve,
                         Send, crm,
                  outreach, reminders, Crash
    <2>2. \/ UNCHANGED <<evidence, reads>>
          \/ \E k \in Keys, found \in BOOLEAN : Attach(c, k, found)
      BY Zenon, <1>1 DEF Start, Discover, Evaluate, Schedule, Move, Prepare, Approve, Send, crm,
                         Crash
    <2> QED BY <2>1, <2>2
  <1>2. CASE Step(c)
    BY Zenon, <1>2 DEF Step, InsertCompany, InsertLead, InsertBirth, AttachProvenance, NextVersion,
       InsertScore, CacheScore, UpdateStage, InsertMove, InsertDraft, UpdateApproved, UpdateSent,
       Count, Log, Remind, InsertFollowup, UpdateNextAction, InsertTask, crm, outreach, reminders
  <1> QED BY <1>1, <1>2

\* Who gets to a place.
LEMMA Arrivals ==
  ASSUME CallTypes, NEW c \in Callers, Start(c) \/ Step(c) \/ Crash(c)
  PROVE  /\ pc'[c] = "company" => \E k \in Keys, known \in BOOLEAN : Discover(c, k, known)
         /\ pc'[c] = "lead" => InsertCompany(c)
         /\ pc'[c] = "birth" => Led(c)
         /\ pc'[c] = "version" => \E k \in Keys : Evaluate(c, k)
         /\ pc'[c] = "score" => NextVersion(c)
         /\ pc'[c] = "cache" => InsertScore(c)
         /\ pc'[c] = "stage" => \E k \in Keys, to \in Stages, r \in BOOLEAN : Move(c, k, to, r)
         /\ pc'[c] = "history" => UpdateStage(c)
         /\ pc'[c] = "approve" => \E d \in Drafts, p \in People : Approve(c, d, p)
         /\ pc'[c] = "sent" => \E d \in Drafts, exp \in BOOLEAN : Send(c, d, exp)
         /\ pc'[c] = "count" => UpdateSent(c)
         /\ pc'[c] = "feed" => \/ InsertMove(c) \/ InsertDraft(c) \/ UpdateSent(c) \/ Count(c)
                              \/ \E k \in Keys, found \in BOOLEAN : Attach(c, k, found)
         /\ pc'[c] = "followup" => Remind(c) \/ \E k \in Keys : Schedule(c, k)
         /\ pc'[c] = "next" => InsertFollowup(c)
         /\ pc'[c] = "task" => UpdateNextAction(c)
  <1>1. CASE Start(c)
    <2>1. ASSUME NEW k \in Keys, NEW known \in BOOLEAN, Discover(c, k, known)
          PROVE  pc'[c] = "company"
      BY <2>1, Beginnings
    <2>2. ASSUME NEW k \in Keys, NEW found \in BOOLEAN, Attach(c, k, found)
          PROVE  pc'[c] = "feed"
      BY <2>2, Beginnings
    <2>3. ASSUME NEW k \in Keys, Evaluate(c, k) PROVE pc'[c] = "version"
      BY <2>3, Beginnings
    <2>4. ASSUME NEW k \in Keys, Schedule(c, k) PROVE pc'[c] = "followup"
      BY <2>4, Beginnings
    <2>5. ASSUME NEW k \in Keys, NEW to \in Stages, NEW r \in BOOLEAN, Move(c, k, to, r)
          PROVE  pc'[c] = "stage"
      BY <2>5, Beginnings
    <2>6. ASSUME NEW d \in Drafts, NEW k \in Keys, Prepare(c, d, k) PROVE pc'[c] = "draft"
      BY <2>6, Beginnings
    <2>7. ASSUME NEW d \in Drafts, NEW p \in People, Approve(c, d, p) PROVE pc'[c] = "approve"
      BY <2>7, Beginnings
    <2>8. ASSUME NEW d \in Drafts, NEW exp \in BOOLEAN, Send(c, d, exp) PROVE pc'[c] = "sent"
      BY <2>8, Beginnings
    <2>9. pc'[c] \in {"company", "feed", "version", "followup", "stage", "draft", "approve", "sent"}
      BY <1>1, <2>1, <2>2, <2>3, <2>4, <2>5, <2>6, <2>7, <2>8 DEF Start
    <2>10. /\ pc'[c] = "company" => \E k \in Keys, known \in BOOLEAN : Discover(c, k, known)
           /\ pc'[c] = "version" => \E k \in Keys : Evaluate(c, k)
           /\ pc'[c] = "stage" => \E k \in Keys, to \in Stages, r \in BOOLEAN : Move(c, k, to, r)
           /\ pc'[c] = "approve" => \E d \in Drafts, p \in People : Approve(c, d, p)
           /\ pc'[c] = "sent" => \E d \in Drafts, exp \in BOOLEAN : Send(c, d, exp)
           /\ pc'[c] = "followup" => \E k \in Keys : Schedule(c, k)
           /\ pc'[c] = "feed" => \E k \in Keys, found \in BOOLEAN : Attach(c, k, found)
      BY <1>1, <2>1, <2>2, <2>3, <2>4, <2>5, <2>6, <2>7, <2>8 DEF Start
    <2> QED BY <2>9, <2>10
  <1>2. CASE Step(c)
    <2>1. CASE InsertCompany(c) \/ InsertLead(c) \/ InsertBirth(c) \/ AttachProvenance(c)
      BY <2>1, Paths DEF Led
    <2>2. CASE NextVersion(c) \/ InsertScore(c) \/ CacheScore(c) \/ UpdateStage(c) \/ InsertMove(c)
      BY <2>2, Paths
    <2>3. CASE InsertDraft(c) \/ UpdateApproved(c) \/ UpdateSent(c) \/ Count(c) \/ Log(c)
      BY <2>3, Paths
    <2>4. CASE Remind(c) \/ InsertFollowup(c) \/ UpdateNextAction(c) \/ InsertTask(c)
      BY <2>4, Paths
    <2> QED BY <1>2, <2>1, <2>2, <2>3, <2>4 DEF Step
  <1>3. CASE Crash(c)
    BY <1>3, Paths
  <1> QED BY <1>1, <1>2, <1>3

\* Who leaves one, if nobody dies.
LEMMA Departures ==
  ASSUME NEW c \in Callers, Start(c) \/ Step(c)
  PROVE  /\ pc[c] = "company" => InsertCompany(c)
         /\ pc[c] = "lead" => InsertLead(c)
         /\ pc[c] = "birth" => InsertBirth(c)
         /\ pc[c] = "version" => NextVersion(c)
         /\ pc[c] = "score" => InsertScore(c)
         /\ pc[c] = "cache" => CacheScore(c)
         /\ pc[c] = "stage" => UpdateStage(c)
         /\ pc[c] = "history" => InsertMove(c)
         /\ pc[c] = "count" => Count(c)
         /\ pc[c] = "feed" => Log(c)
         /\ pc[c] = "next" => UpdateNextAction(c)
         /\ pc[c] = "task" => InsertTask(c)
  <1>1. CASE Start(c)
    <2>1. pc[c] = "idle"
      BY Zenon, <1>1 DEF Start, Discover, Attach, Evaluate, Schedule, Move, Prepare, Approve,
                         Send, Begins
    <2> QED BY <2>1
  <1>2. CASE Step(c)
    BY Zenon, <1>2 DEF Step, InsertCompany, InsertLead, InsertBirth, AttachProvenance, NextVersion,
       InsertScore, CacheScore, UpdateStage, InsertMove, InsertDraft, UpdateApproved, UpdateSent,
       Count, Log, Remind, InsertFollowup, UpdateNextAction, InsertTask
  <1> QED BY <1>1, <1>2

\* What happens to a lead's row.
LEMMA LeadRow ==
  ASSUME CrmTypes, CallTypes, CallsFit, NEW c \in Callers, Start(c) \/ Step(c) \/ Crash(c),
         NEW k \in Keys
  PROVE  /\ lead'[k].stage = CASE Led(c) /\ k = call[c].key /\ ~Exists(k) -> "prospect"
                               [] UpdateStage(c) /\ k = call[c].key -> call[c].to
                               [] OTHER -> lead[k].stage
         /\ lead'[k].version = IF CacheScore(c) /\ k = call[c].key THEN call[c].version
                               ELSE lead[k].version
         /\ lead'[k].next = IF UpdateNextAction(c) /\ k = call[c].key THEN call[c].from
                            ELSE lead[k].next
  <1> DEFINE l == lead[k]
             m == lead'[k]
  <1>0. lead \in [Keys -> Leads] /\ l \in Leads
    BY DEF CrmTypes
  <1>1. pc[c] = "lead" => ~UpdateStage(c) /\ ~CacheScore(c) /\ ~UpdateNextAction(c)
    BY DEF UpdateStage, CacheScore, UpdateNextAction
  <1> USE DEF Led
  <1>2. CASE InsertLead(c)
    <2>1. ~UpdateStage(c) /\ ~CacheScore(c) /\ ~UpdateNextAction(c)
      BY <1>1, <1>2 DEF InsertLead
    <2>2. m = IF k = call[c].key /\ call[c].known /\ ~Exists(k) THEN [l EXCEPT !.stage = "prospect"] ELSE l
      BY <1>0, <1>2 DEF InsertLead
    <2> QED BY <1>0, <1>2, <2>1, <2>2 DEF Leads
  <1>3. CASE CacheScore(c)
    <2>1. ~UpdateStage(c) /\ ~InsertLead(c) /\ ~UpdateNextAction(c)
      BY <1>3 DEF InsertLead, UpdateStage, CacheScore, UpdateNextAction
    <2>2. m = IF k = call[c].key
              THEN [l EXCEPT !.score = call[c].score, !.version = call[c].version] ELSE l
      BY <1>0, <1>3 DEF CacheScore
    <2> QED BY <1>0, <1>3, <2>1, <2>2 DEF Leads
  <1>4. CASE UpdateStage(c)
    <2>1. ~CacheScore(c) /\ ~InsertLead(c) /\ ~UpdateNextAction(c)
      BY <1>4 DEF InsertLead, UpdateStage, CacheScore, UpdateNextAction
    <2>2. m = IF k = call[c].key
              THEN [l EXCEPT !.stage = call[c].to,
                             !.lost_reason = IF call[c].to = "lost" THEN call[c].reason ELSE @]
              ELSE l
      BY <1>0, <1>4 DEF UpdateStage
    <2> QED BY <1>0, <1>4, <2>1, <2>2 DEF Leads
  <1>5. CASE UpdateNextAction(c)
    <2>1. ~CacheScore(c) /\ ~InsertLead(c) /\ ~UpdateStage(c)
      BY <1>5 DEF InsertLead, UpdateStage, CacheScore, UpdateNextAction
    <2>2. m = IF k = call[c].key THEN [l EXCEPT !.next = call[c].from] ELSE l
      BY <1>0, <1>5 DEF UpdateNextAction
    <2> QED BY <1>0, <1>5, <2>1, <2>2 DEF Leads
  <1>6. CASE ~InsertLead(c) /\ ~CacheScore(c) /\ ~UpdateStage(c) /\ ~UpdateNextAction(c)
    BY <1>6, Writers
  <1> QED BY <1>2, <1>3, <1>4, <1>5, <1>6

LEMMA OneTurnStep ==
  ASSUME IInv, OneTurn, [Next]_vars
  PROVE  OneTurn'
  <1>1. CASE UNCHANGED vars
    BY <1>1 DEF OneTurn, vars, rest
  <1>2. ASSUME NEW c \in Callers, Start(c) \/ Step(c) \/ Crash(c) PROVE OneTurn'
    <2>1. ordered' = ordered /\ (ordered => Turn(c))
      BY <1>2, Standing, TakesTurn DEF IInv, TypeOK
    <2> QED BY <2>1 DEF OneTurn, Turn
  <1> QED BY <1>1, <1>2 DEF Next

-----------------------------------------------------------------------------
(***************************************************************************)
(* One company per lead                                                    *)
(***************************************************************************)
LEMMA NoneIsNoStage == None \notin Stages /\ "prospect" \in Stages /\ Ruled \subseteq Stages
  BY LedgerAssumption DEF Stages, Forward, Ruled

\* A lead appears with its row and stays.
LEMMA Found ==
  ASSUME IInv, ordered, CompaniesFit, NEW c \in Callers, Start(c) \/ Step(c) \/ Crash(c),
         NEW k \in Keys
  PROVE  Exists(k)' <=> Exists(k) \/ (Led(c) /\ k = call[c].key)
  <1>1. UpdateStage(c) => pc[c] = "stage" /\ call[c].to \in Stages /\ Exists(call[c].key)
    BY DEF UpdateStage, IInv, CallsFit, CallFits, CompaniesFit
  <1>2. Led(c) => ~UpdateStage(c)
    BY DEF Led, InsertLead, UpdateStage
  <1>3. lead'[k].stage = CASE Led(c) /\ k = call[c].key /\ ~Exists(k) -> "prospect"
                           [] UpdateStage(c) /\ k = call[c].key -> call[c].to
                           [] OTHER -> lead[k].stage
    BY LeadRow DEF IInv, TypeOK
  <1> QED BY <1>1, <1>2, <1>3, NoneIsNoStage DEF Exists

LEMMA CompaniesStep ==
  ASSUME IInv, OneTurn, CompaniesFit, [Next]_vars
  PROVE  CompaniesFit'
  <1>1. CASE UNCHANGED vars
    BY <1>1 DEF CompaniesFit, Exists, Busy, vars, crm, rest
  <1>2. ASSUME NEW c \in Callers, Start(c) \/ Step(c) \/ Crash(c), ordered' PROVE CompaniesFit'
    <2>0. CallTypes /\ CrmTypes /\ RestTypes
      BY DEF IInv, TypeOK
    <2>1. ordered /\ Turn(c)
      BY <1>2, <2>0, Standing, TakesTurn
    <2>2. \A k \in Keys : Exists(k)' <=> Exists(k) \/ (Led(c) /\ k = call[c].key)
      BY <1>2, <2>1, Found
    <2>3. \A b \in Callers : b # c => pc'[b] = "idle"
      BY <2>1 DEF Turn
    <2> DEFINE Owed(k) == IF Exists(k) \/ Busy({"lead"}, k) THEN 1 ELSE 0
    <2>7. companies \in [Keys -> Nat] /\ refused \in [Keys -> Nat]
      BY <2>0 DEF CrmTypes
    <2>4. pc'[c] = "stage" => Exists(call[c].key)'
      <3> SUFFICES ASSUME NEW k \in Keys, NEW to \in Stages, NEW r \in BOOLEAN, Move(c, k, to, r)
                   PROVE  Exists(call[c].key)'
        BY <1>2, <2>0, Arrivals
      <3>1. call'[c].key = k /\ Exists(k)
        BY <2>0, Beginnings
      <3> QED BY <2>2, <3>1 DEF Exists
    <2>5. ASSUME crashes' = 0
          PROVE  /\ pc'[c] \in {"company", "lead"} => ~Exists(call[c].key)'
                 /\ \A k \in Keys :
                      companies'[k] = refused'[k] + Owed(k)'
      <3>1. crashes = 0 /\ ~Crash(c)
        BY <1>2, <2>0, <2>5, Standing
      <3>2. /\ pc[c] \in {"company", "lead"} => ~Exists(call[c].key)
            /\ \A k \in Keys : companies[k] = refused[k] + Owed(k)
        BY <2>1, <3>1 DEF CompaniesFit
      <3>3. \A k \in Keys : /\ Busy({"lead"}, k) <=> pc[c] = "lead" /\ call[c].key = k
                            /\ Busy({"lead"}, k)' <=> pc'[c] = "lead" /\ call'[c].key = k
        BY <2>1, BusyAt
      <3>4. pc'[c] = "company" => ~Exists(call[c].key)'
        <4> SUFFICES ASSUME NEW k \in Keys, NEW known \in BOOLEAN, Discover(c, k, known)
                     PROVE  ~Exists(call[c].key)'
          BY <1>2, <2>0, Arrivals
        <4>1. call'[c].key = k /\ ~Exists(k) /\ ~Led(c)
          BY <2>0, Beginnings DEF Led, InsertLead
        <4> QED BY <2>2, <4>1 DEF Exists
      <3>5. CASE InsertCompany(c)
        <4>1. pc[c] = "company" /\ pc'[c] = "lead" /\ call'[c] = call[c] /\ call[c].key \in Keys
          BY <2>0, <3>5, Paths, CallKey DEF IInv
        <4>2. ~Led(c)
          BY <4>1 DEF Led, InsertLead
        <4>3. refused' = refused /\ companies' = [companies EXCEPT ![call[c].key] = @ + 1]
          BY <3>5 DEF InsertCompany
        <4>4. ~Exists(call[c].key)'
          BY <2>2, <3>2, <4>1, <4>2 DEF Exists
        <4>5. ASSUME NEW k \in Keys
              PROVE  companies'[k] = refused'[k] + Owed(k)'
          BY <2>2, <2>7, <3>2, <3>3, <4>1, <4>2, <4>3
        <4> QED BY <4>1, <4>4, <4>5
      <3>6. CASE Led(c)
        <4>1. /\ pc[c] = "lead" /\ pc'[c] \in {"idle", "birth"}
              /\ companies' = companies /\ refused' = refused
          BY <2>0, <3>6, Paths DEF Led, InsertLead
        <4> QED BY <2>2, <3>2, <3>3, <3>6, <4>1
      <3>8. CASE InsertLead(c) /\ ~call[c].known
        <4>1. /\ pc[c] = "lead" /\ pc'[c] = "idle" /\ call[c].key \in Keys
              /\ companies' = companies /\ refused' = [refused EXCEPT ![call[c].key] = @ + 1]
          BY <2>0, <3>8, Paths, CallKey DEF InsertLead, IInv
        <4>2. ~Led(c) /\ ~Exists(call[c].key)
          BY <3>2, <3>8, <4>1 DEF Led
        <4>3. ASSUME NEW k \in Keys
              PROVE  companies'[k] = refused'[k] + Owed(k)'
          BY <2>2, <2>7, <3>2, <3>3, <4>1, <4>2
        <4> QED BY <4>1, <4>3
      <3>7. CASE ~InsertCompany(c) /\ ~InsertLead(c)
        <4>1. /\ companies' = companies /\ refused' = refused /\ ~Led(c)
              /\ pc[c] # "lead" /\ pc'[c] # "lead"
          BY <1>2, <2>0, <3>1, <3>7, Writers, Arrivals, Departures DEF Led
        <4> QED BY <2>2, <3>2, <3>3, <3>4, <4>1
      <3>9. call[c].known \in BOOLEAN
        BY <2>0 DEF CallTypes, CallRecords
      <3> QED BY <3>4, <3>5, <3>6, <3>7, <3>8, <3>9 DEF Led
    <2> QED BY <2>1, <2>3, <2>4, <2>5 DEF CompaniesFit
  <1> QED BY <1>1, <1>2 DEF Next, CompaniesFit

-----------------------------------------------------------------------------
(***************************************************************************)
(* History tells the stage                                                 *)
(***************************************************************************)
\* A history that begins, and one that goes on.
LEMMA ToldBirth == Told(Append(<<>>, [from |-> None, to |-> "prospect"]), "prospect")
  BY DEF Told

LEMMA ToldOn ==
  ASSUME NEW h \in Seq(Transitions), NEW s \in Stages, Told(h, s), NEW t \in Stages,
         t \in AllowedNext(s)
  PROVE  Told(Append(h, [from |-> s, to |-> t]), t)
  <1> DEFINE r == [from |-> s, to |-> t]
             g == Append(h, r)
  <1>1. r \in Transitions /\ r.from = s /\ r.to = t
    BY DEF Transitions
  <1> HIDE DEF r
  <1>2. /\ Len(h) \in Nat \ {0} /\ Len(g) = Len(h) + 1
        /\ g[Len(h) + 1] = r /\ \A i \in 1 .. Len(h) : g[i] = h[i]
    BY <1>1 DEF Told
  <1> HIDE DEF g
  <1>3. g # <<>> /\ g[1] = [from |-> None, to |-> "prospect"] /\ g[Len(g)].to = t
    BY <1>1, <1>2 DEF Told
  <1>4. ASSUME NEW i \in 2 .. Len(g)
        PROVE  g[i].from = g[i - 1].to /\ g[i].to \in AllowedNext(g[i].from)
    <2>1. CASE i = Len(h) + 1
      <3>1. i - 1 = Len(h) /\ g[i - 1] = h[Len(h)] /\ g[i] = r
        BY <1>2, <2>1
      <3> QED BY <1>1, <3>1 DEF Told
    <2>2. CASE i # Len(h) + 1
      <3>1. i \in 2 .. Len(h) /\ i - 1 \in 1 .. Len(h) /\ i \in 1 .. Len(h)
        BY <1>2, <2>2
      <3> QED BY <1>2, <3>1 DEF Told
    <2> QED BY <2>1, <2>2
  <1> QED BY <1>3, <1>4 DEF Told, g, r

\* A history is of stages.
LEMMA TransitionsTold ==
  ASSUME NEW h \in Seq(Transitions), NEW s, Told(h, s)
  PROVE  s \in Stages
  <1>1. Len(h) \in 1 .. Len(h)
    BY DEF Told
  <1>2. h[Len(h)] \in Transitions
    BY <1>1
  <1> QED BY <1>2 DEF Told, Transitions

LEMMA HistoryStep ==
  ASSUME IInv, OneTurn, CompaniesFit, HistoryFits, [Next]_vars
  PROVE  HistoryFits'
  <1>1. CASE UNCHANGED vars
    BY <1>1 DEF HistoryFits, Exists, Busy, vars, crm, rest
  <1>2. ASSUME NEW c \in Callers, Start(c) \/ Step(c) \/ Crash(c), ordered', crashes' = 0
        PROVE  HistoryFits'
    <2>0. CallTypes /\ CrmTypes /\ RestTypes
      BY DEF IInv, TypeOK
    <2>1. ordered /\ Turn(c) /\ crashes = 0 /\ ~Crash(c)
      BY <1>2, <2>0, Standing, TakesTurn
    <2> DEFINE Row(k) == IF Exists(k) /\ ~(pc[c] = "birth" /\ call[c].key = k)
                         THEN \/ pc[c] = "history" /\ call[c].key = k
                              \/ Told(history[k], lead[k].stage)
                         ELSE history[k] = <<>>
               AtBirth == pc[c] = "birth" => lead[call[c].key].stage = "prospect"
               AtStage == pc[c] = "stage" => /\ lead[call[c].key].stage = call[c].from
                                             /\ call[c].to \in AllowedNext(call[c].from)
               AtHistory == pc[c] = "history" =>
                              /\ Told(history[call[c].key], call[c].from)
                              /\ call[c].to \in AllowedNext(call[c].from)
                              /\ lead[call[c].key].stage = call[c].to
    <2>2. \A k \in Keys : /\ Busy({"birth"}, k) <=> pc[c] = "birth" /\ call[c].key = k
                          /\ Busy({"birth"}, k)' <=> pc'[c] = "birth" /\ call'[c].key = k
      BY <2>1, BusyAt
    <2>3. \A k \in Keys : /\ Busy({"history"}, k) <=> pc[c] = "history" /\ call[c].key = k
                          /\ Busy({"history"}, k)' <=> pc'[c] = "history" /\ call'[c].key = k
      BY <2>1, BusyAt
    <2>4. (\A k \in Keys : Row(k)) /\ AtBirth /\ AtStage /\ AtHistory
      BY <2>1, <2>2, <2>3 DEF HistoryFits
    <2>5. \A b \in Callers : b # c => pc'[b] = "idle"
      BY <2>1 DEF Turn
    <2>6. SUFFICES (\A k \in Keys : Row(k)') /\ AtBirth' /\ AtStage' /\ AtHistory'
      BY <2>2, <2>3, <2>5 DEF HistoryFits
    <2>7. \A k \in Keys : Exists(k)' <=> Exists(k) \/ (Led(c) /\ k = call[c].key)
      BY <1>2, <2>1, Found
    <2>8. \A k \in Keys :
            lead'[k].stage = CASE Led(c) /\ k = call[c].key /\ ~Exists(k) -> "prospect"
                               [] UpdateStage(c) /\ k = call[c].key -> call[c].to
                               [] OTHER -> lead[k].stage
      BY <1>2, <2>0, LeadRow DEF IInv
    <2>9. pc[c] # "idle" => call[c].key \in Keys
      BY CallKey DEF IInv
    <2>10. /\ history \in [Keys -> Seq(Transitions)]
           /\ \A k \in Keys : lead[k].stage \in Stages \cup {None}
      BY <2>0 DEF CrmTypes, Leads
    <2>11. CASE Led(c)
      <3>1. pc[c] = "lead" /\ ~Exists(call[c].key) /\ ~UpdateStage(c) /\ history' = history
        BY <2>1, <2>11 DEF Led, InsertLead, UpdateStage, CompaniesFit
      <3>2. pc'[c] = "birth" /\ call'[c] = call[c]
        BY <2>0, <2>11, <3>1, Paths DEF Led
      <3>3. \A k \in Keys : lead'[k].stage = IF k = call[c].key THEN "prospect" ELSE lead[k].stage
        BY <2>8, <2>11, <3>1
      <3> QED BY <2>4, <2>7, <2>9, <2>11, <3>1, <3>2, <3>3
    <2>12. CASE InsertBirth(c)
      <3>1. pc[c] = "birth" /\ pc'[c] = "attach" /\ ~Led(c) /\ ~UpdateStage(c)
        BY <2>0, <2>12, Paths DEF InsertBirth, Led, InsertLead, UpdateStage
      <3>2. \A k \in Keys : lead'[k].stage = lead[k].stage
        BY <2>8, <3>1
      <3>3. history' = [history EXCEPT ![call[c].key] =
                                Append(@, [from |-> None, to |-> "prospect"])]
        BY <2>12 DEF InsertBirth
      <3>4. history[call[c].key] = <<>>
        BY <2>4, <2>9, <3>1
      <3>5. Told(history'[call[c].key], "prospect")
        BY <2>9, <2>10, <3>1, <3>3, <3>4, ToldBirth
      <3>6. \A k \in Keys : k # call[c].key => history'[k] = history[k]
        BY <2>10, <3>3
      <3>7. ASSUME NEW k \in Keys PROVE Row(k)'
        <4>1. CASE k = call[c].key
          <5>1. lead'[k].stage = "prospect" /\ Told(history'[k], lead'[k].stage)
            BY <2>4, <3>1, <3>2, <3>5, <4>1
          <5>2. Exists(k)'
            BY <5>1, NoneIsNoStage DEF Exists
          <5> QED BY <3>1, <5>1, <5>2
        <4>2. CASE k # call[c].key
          <5>1. history'[k] = history[k] /\ lead'[k].stage = lead[k].stage
            BY <3>2, <3>6, <4>2
          <5>2. Exists(k)' <=> Exists(k)
            BY <2>7, <4>2
          <5> QED BY <2>4, <3>1, <4>2, <5>1, <5>2
        <4> QED BY <4>1, <4>2
      <3> QED BY <3>1, <3>7
    <2>13. CASE UpdateStage(c)
      <3>1. pc[c] = "stage" /\ pc'[c] = "history" /\ call'[c] = call[c] /\ ~Led(c)
        BY <2>0, <2>13, Paths DEF Led, InsertLead
      <3>2. \A k \in Keys : lead'[k].stage = IF k = call[c].key THEN call[c].to ELSE lead[k].stage
        BY <2>8, <2>13, <3>1
      <3>3. history' = history /\ Exists(call[c].key)
        BY <2>1, <2>13, <3>1 DEF UpdateStage, CompaniesFit
      <3> QED BY <2>4, <2>7, <2>9, <3>1, <3>2, <3>3
    <2>14. CASE InsertMove(c)
      <3>1. pc[c] = "history" /\ pc'[c] = "feed" /\ ~Led(c) /\ ~UpdateStage(c)
        BY <2>0, <2>14, Paths DEF InsertMove, Led, InsertLead, UpdateStage
      <3>2. \A k \in Keys : lead'[k].stage = lead[k].stage
        BY <2>8, <3>1
      <3>3. history' = [history EXCEPT ![call[c].key] =
                                Append(@, [from |-> call[c].from, to |-> call[c].to])]
        BY <2>14 DEF InsertMove
      <3>4. \A k \in Keys : k # call[c].key => history'[k] = history[k]
        BY <2>10, <3>3
      <3>5. /\ Told(history[call[c].key], call[c].from) /\ call[c].to \in AllowedNext(call[c].from)
            /\ lead[call[c].key].stage = call[c].to /\ call[c].to \in Stages
        BY <2>4, <3>1 DEF IInv, CallsFit, CallFits
      <3>6. call[c].from \in Stages
        BY <3>5, <2>9, <2>10, <3>1, TransitionsTold
      <3>7. Told(history'[call[c].key], call[c].to)
        BY <2>9, <2>10, <3>1, <3>3, <3>5, <3>6, ToldOn
      <3>8. ASSUME NEW k \in Keys PROVE Row(k)'
        <4>1. CASE k = call[c].key
          <5>1. Told(history'[k], lead'[k].stage) /\ lead'[k].stage \in Stages
            BY <3>2, <3>5, <3>7, <4>1
          <5>2. Exists(k)'
            BY <5>1, NoneIsNoStage DEF Exists
          <5> QED BY <3>1, <5>1, <5>2
        <4>2. CASE k # call[c].key
          <5>1. history'[k] = history[k] /\ lead'[k].stage = lead[k].stage
            BY <3>2, <3>4, <4>2
          <5>2. Exists(k)' <=> Exists(k)
            BY <2>7, <4>2
          <5> QED BY <2>4, <3>1, <4>2, <5>1, <5>2
        <4> QED BY <4>1, <4>2
      <3> QED BY <3>1, <3>8
    <2>15. CASE ~Led(c) /\ ~InsertBirth(c) /\ ~UpdateStage(c) /\ ~InsertMove(c)
      <3>1. history' = history /\ {pc[c], pc'[c]} \cap {"birth", "history"} = {}
        BY <1>2, <2>0, <2>1, <2>15, Writers, Arrivals, Departures
      <3>2. \A k \in Keys : lead'[k].stage = lead[k].stage /\ (Exists(k)' <=> Exists(k))
        BY <2>7, <2>8, <2>15
      <3>3. ASSUME NEW k \in Keys, NEW to \in Stages, NEW r \in BOOLEAN, Move(c, k, to, r)
            PROVE  AtStage'
        <4>1. /\ call'[c].key = k /\ call'[c].from = lead[k].stage /\ call'[c].to = to
              /\ to \in AllowedNext(lead[k].stage)
          BY <2>0, <3>3, Beginnings
        <4> QED BY <3>2, <4>1
      <3>4. AtStage'
        BY <1>2, <2>0, <3>3, Arrivals
      <3> QED BY <2>4, <3>1, <3>2, <3>4
    <2> QED BY <2>11, <2>12, <2>13, <2>14, <2>15
  <1> QED BY <1>1, <1>2 DEF Next, HistoryFits

-----------------------------------------------------------------------------
(***************************************************************************)
(* The latest score                                                        *)
(***************************************************************************)
LEMMA OrderKept ==
  ASSUME NEW q \in Seq(Nat), NEW e \in Nat, InOrder(q, e), NEW f \in Nat, e <= f
  PROVE  InOrder(q, f)
  <1>1. ASSUME NEW i \in 1 .. Len(q) PROVE q[i] <= f
    <2>1. q[i] \in Nat /\ q[i] <= e
      BY DEF InOrder
    <2> QED BY <2>1
  <1> QED BY <1>1 DEF InOrder

LEMMA OrderGrows ==
  ASSUME NEW q \in Seq(Nat), NEW e \in Nat, InOrder(q, e)
  PROVE  InOrder(Append(q, e), e)
  <1> DEFINE r == Append(q, e)
  <1>1. /\ Len(q) \in Nat /\ Len(r) = Len(q) + 1 /\ r[Len(q) + 1] = e
        /\ \A i \in 1 .. Len(q) : r[i] = q[i]
    OBVIOUS
  <1> HIDE DEF r
  <1>2. ASSUME NEW i \in 1 .. Len(r) PROVE r[i] <= e
    <2>1. i = Len(q) + 1 \/ i \in 1 .. Len(q)
      BY <1>1
    <2>2. \A j \in 1 .. Len(q) : r[j] <= e
      BY <1>1 DEF InOrder
    <2> QED BY <1>1, <2>1, <2>2
  <1>3. ASSUME NEW i \in 2 .. Len(r) PROVE r[i - 1] <= r[i]
    <2>1. i = Len(q) + 1 \/ i \in 2 .. Len(q)
      BY <1>1
    <2>2. i - 1 \in 1 .. Len(q)
      BY <1>1
    <2>3. r[i - 1] = q[i - 1] /\ q[i - 1] <= e
      BY <1>1, <2>2 DEF InOrder
    <2>4. CASE i = Len(q) + 1
      BY <1>1, <2>3, <2>4
    <2>5. CASE i \in 2 .. Len(q)
      <3>1. i \in 1 .. Len(q)
        BY <1>1, <2>5
      <3> QED BY <1>1, <2>3, <2>5, <3>1 DEF InOrder
    <2> QED BY <2>1, <2>4, <2>5
  <1> QED BY <1>2, <1>3 DEF InOrder, r

LEMMA GradesStep ==
  ASSUME IInv, OneTurn, GradesFit, [Next]_vars
  PROVE  GradesFit'
  <1>1. CASE UNCHANGED vars
    BY <1>1 DEF GradesFit, Busy, vars, crm, rest
  <1>2. ASSUME NEW c \in Callers, Start(c) \/ Step(c) \/ Crash(c), ordered' PROVE GradesFit'
    <2>0. CallTypes /\ CrmTypes /\ RestTypes
      BY DEF IInv, TypeOK
    <2>1. ordered /\ Turn(c) /\ (crashes' = 0 => crashes = 0 /\ ~Crash(c))
      BY <1>2, <2>0, Standing, TakesTurn
    <2> DEFINE Shown(k) == \/ pc[c] = "cache" /\ call[c].key = k
                           \/ lead[k].version = Len(quals[k])
               Read == pc[c] \in {"version", "score"} => call[c].score = evidence[call[c].key]
               Given == pc[c] = "cache" => call[c].version = Len(quals[call[c].key])
               Fit == /\ \A k \in Keys : InOrder(quals[k], evidence[k])
                      /\ crashes = 0 => \A k \in Keys : Shown(k)
                      /\ Read /\ Given
    <2>2. \A k \in Keys : /\ Busy({"cache"}, k) <=> pc[c] = "cache" /\ call[c].key = k
                          /\ Busy({"cache"}, k)' <=> pc'[c] = "cache" /\ call'[c].key = k
      BY <2>1, BusyAt
    <2>3. Fit
      BY <2>1, <2>2 DEF GradesFit
    <2>4. \A b \in Callers : b # c => pc'[b] = "idle"
      BY <2>1 DEF Turn
    <2>5. SUFFICES Fit'
      BY <2>2, <2>4 DEF GradesFit
    <2>6. \A k \in Keys : lead'[k].version = IF CacheScore(c) /\ k = call[c].key
                                             THEN call[c].version ELSE lead[k].version
      BY <1>2, <2>0, LeadRow DEF IInv
    <2>7. pc[c] # "idle" => call[c].key \in Keys
      BY CallKey DEF IInv
    <2>8. /\ quals \in [Keys -> Seq(Nat)] /\ evidence \in [Keys -> Nat]
          /\ \A k \in Keys : quals[k] \in Seq(Nat) /\ Len(quals[k]) \in Nat /\ evidence[k] \in Nat
      BY <2>0 DEF CrmTypes
    <2>9. ASSUME NEW k \in Keys, quals' = quals,
                 evidence' = evidence \/ evidence' = [evidence EXCEPT ![k] = @ + 1],
                 pc'[c] \in {"idle", "feed"}, pc[c] # "cache", ~CacheScore(c)
          PROVE  Fit'
      <3>1. ASSUME NEW j \in Keys PROVE InOrder(quals'[j], evidence'[j])
        <4>1. evidence[j] <= evidence'[j] /\ evidence'[j] \in Nat
          <5>1. CASE evidence' = evidence
            BY <2>8, <5>1
          <5>2. CASE evidence' = [evidence EXCEPT ![k] = @ + 1]
            BY <2>8, <5>2
          <5> QED BY <2>9, <5>1, <5>2
        <4> QED BY <2>3, <2>8, <2>9, <4>1, OrderKept
      <3> QED BY <2>1, <2>3, <2>6, <2>9, <3>1
    <2>10. CASE AttachProvenance(c)
      BY <2>0, <2>7, <2>9, <2>10, Paths DEF AttachProvenance, CacheScore
    <2>11. ASSUME NEW k \in Keys, NEW found \in BOOLEAN, Attach(c, k, found) PROVE Fit'
      BY <2>0, <2>9, <2>11, Beginnings DEF Attach, CacheScore
    <2>12. CASE InsertScore(c)
      <3> DEFINE k == call[c].key
                 s == Append(quals[k], call[c].score)
      <3>1. pc[c] = "score" /\ k \in Keys /\ ~CacheScore(c) /\ evidence' = evidence
        BY <2>7, <2>12 DEF InsertScore, CacheScore
      <3>2. CASE Ends(c)
        <4>1. pc'[c] = "idle"
          BY <2>0, <3>2, Ended
        <4>2. quals' = quals
          BY <2>0, <2>12, <3>2, <4>1, Gone DEF InsertScore
        <4> QED BY <2>1, <2>3, <2>6, <3>1, <4>1, <4>2
      <3>3. CASE ~Ends(c)
        <4>1. /\ call[c].version > Len(quals[k]) /\ pc'[c] = "cache" /\ call'[c] = call[c]
              /\ quals' = [quals EXCEPT ![k] = s]
          BY <2>0, <2>8, <2>12, <3>1, <3>3, Gone, CallFields DEF InsertScore
        <4>2. call[c].version \in Nat /\ call[c].version <= Len(quals[k]) + 1
          BY <2>0, <3>1, CallFields DEF IInv, ScoresFit
        <4>3. call[c].score = evidence[k]
          BY <2>3, <3>1
        <4>4. Len(s) = Len(quals[k]) + 1 /\ InOrder(s, evidence[k])
          BY <2>3, <2>8, <3>1, <4>3, OrderGrows
        <4> HIDE DEF s
        <4>5. quals'[k] = s /\ \A j \in Keys : j # k => quals'[j] = quals[j]
          BY <2>8, <3>1, <4>1
        <4>6. call'[c].version = Len(quals'[call'[c].key])
          BY <2>8, <3>1, <4>1, <4>2, <4>4, <4>5
        <4>7. ASSUME NEW j \in Keys PROVE InOrder(quals'[j], evidence'[j])
          BY <2>3, <3>1, <4>4, <4>5
        <4>8. ASSUME NEW j \in Keys, crashes' = 0 PROVE Shown(j)'
          BY <2>1, <2>3, <2>6, <3>1, <4>1, <4>5, <4>8
        <4> QED BY <4>1, <4>6, <4>7, <4>8
      <3> QED BY <3>2, <3>3
    <2>13. CASE CacheScore(c)
      <3>1. pc[c] = "cache" /\ pc'[c] = "idle" /\ quals' = quals /\ evidence' = evidence
        BY <2>0, <2>13, Paths DEF CacheScore
      <3> QED BY <2>1, <2>3, <2>6, <2>7, <2>13, <3>1
    <2>14. CASE /\ ~AttachProvenance(c)
                /\ \A k \in Keys, found \in BOOLEAN : ~Attach(c, k, found)
                /\ ~InsertScore(c) /\ ~CacheScore(c)
      <3>1. quals' = quals /\ evidence' = evidence
        BY <1>2, <2>14, Writers
      <3>2. pc'[c] # "cache" /\ (~Crash(c) => pc[c] # "cache")
        BY <1>2, <2>0, <2>14, Arrivals, Departures
      <3>3. pc'[c] = "version" => call'[c].score = evidence[call'[c].key]
        <4> SUFFICES ASSUME NEW k \in Keys, Evaluate(c, k)
                     PROVE  call'[c].score = evidence[call'[c].key]
          BY <1>2, <2>0, Arrivals
        <4> QED BY <2>0, Beginnings
      <3>4. pc'[c] = "score" => call'[c].score = evidence[call'[c].key]
        <4> SUFFICES ASSUME NextVersion(c) PROVE call'[c].score = evidence[call'[c].key]
          BY <1>2, <2>0, Arrivals
        <4>1. pc[c] = "version" /\ call'[c].key = call[c].key /\ call'[c].score = call[c].score
          BY <2>0, Paths
        <4> QED BY <2>3, <4>1
      <3> QED BY <2>1, <2>3, <2>6, <2>14, <3>1, <3>2, <3>3, <3>4
    <2> QED BY <2>10, <2>11, <2>12, <2>13, <2>14
  <1> QED BY <1>1, <1>2 DEF Next, GradesFit

-----------------------------------------------------------------------------
(***************************************************************************)
(* Sends and their books                                                   *)
(***************************************************************************)
\* What happens to a draft's row.
LEMMA DraftRow ==
  ASSUME IInv, NEW c \in Callers, Start(c) \/ Step(c) \/ Crash(c), NEW d \in Drafts
  PROVE  LET own == d = call[c].id IN
         /\ InsertDraft(c) /\ own =>
              /\ draft[d].state = "none" /\ draft'[d].state = "draft"
              /\ draft'[d].key = call[c].key /\ draft'[d].counted = FALSE
         /\ UpdateApproved(c) /\ own =>
              /\ draft'[d].state = "approved" /\ draft'[d].key = draft[d].key
              /\ draft'[d].counted = draft[d].counted
         /\ UpdateSent(c) /\ own =>
              /\ draft'[d].state = "sent" /\ draft'[d].key = draft[d].key
              /\ draft'[d].counted = call[c].exp
         /\ ~(own /\ (InsertDraft(c) \/ UpdateApproved(c) \/ UpdateSent(c))) => draft'[d] = draft[d]
         /\ sends'[d] = IF UpdateSent(c) /\ own THEN sends[d] + 1 ELSE sends[d]
  <1>0. /\ draft \in [Drafts -> DraftRows] /\ draft[d] \in DraftRows /\ sends \in [Drafts -> Nat]
    BY DEF IInv, TypeOK, OutreachTypes
  <1>1. CASE InsertDraft(c)
    <2>1. pc[c] = "draft" /\ ~UpdateApproved(c) /\ ~UpdateSent(c)
      BY <1>1 DEF InsertDraft, UpdateApproved, UpdateSent
    <2>2. draft[call[c].id].state = "none"
      BY <2>1 DEF IInv, DraftsFit, HoldFits
    <2> DEFINE r == [NoDraft EXCEPT !.state = "draft", !.key = call[c].key]
    <2>3. r.state = "draft" /\ r.key = call[c].key /\ r.counted = FALSE
      BY DEF NoDraft
    <2>4. draft'[d] = (IF d = call[c].id THEN r ELSE draft[d]) /\ sends' = sends
      BY <1>0, <1>1 DEF InsertDraft
    <2> HIDE DEF r
    <2> QED BY <1>1, <2>1, <2>2, <2>3, <2>4
  <1>2. CASE UpdateApproved(c)
    <2>1. ~InsertDraft(c) /\ ~UpdateSent(c)
      BY <1>2 DEF InsertDraft, UpdateApproved, UpdateSent
    <2> DEFINE r == [draft[d] EXCEPT !.state = "approved", !.by = call[c].by]
    <2>2. r.state = "approved" /\ r.key = draft[d].key /\ r.counted = draft[d].counted
      BY <1>0 DEF DraftRows
    <2>3. draft'[d] = (IF d = call[c].id THEN r ELSE draft[d]) /\ sends' = sends
      BY <1>0, <1>2 DEF UpdateApproved
    <2> HIDE DEF r
    <2> QED BY <1>2, <2>1, <2>2, <2>3
  <1>3. CASE UpdateSent(c)
    <2>1. ~InsertDraft(c) /\ ~UpdateApproved(c)
      BY <1>3 DEF InsertDraft, UpdateApproved, UpdateSent
    <2> DEFINE r == [draft[d] EXCEPT !.state = "sent", !.counted = call[c].exp]
    <2>2. r.state = "sent" /\ r.key = draft[d].key /\ r.counted = call[c].exp
      BY <1>0 DEF DraftRows
    <2>3. /\ draft'[d] = IF d = call[c].id THEN r ELSE draft[d]
          /\ sends'[d] = IF d = call[c].id THEN sends[d] + 1 ELSE sends[d]
      BY <1>0, <1>3 DEF UpdateSent
    <2> HIDE DEF r
    <2> QED BY <1>3, <2>1, <2>2, <2>3
  <1>4. CASE ~InsertDraft(c) /\ ~UpdateApproved(c) /\ ~UpdateSent(c)
    BY <1>4, Writers
  <1> QED BY <1>1, <1>2, <1>3, <1>4

LEMMA SendsStep ==
  ASSUME IInv, OneTurn, SendsFit, [Next]_vars
  PROVE  SendsFit'
  <1>1. CASE UNCHANGED vars
    BY <1>1 DEF SendsFit, vars, outreach, rest
  <1>2. ASSUME NEW c \in Callers, Start(c) \/ Step(c) \/ Crash(c), ordered' PROVE SendsFit'
    <2>0. CallTypes /\ RestTypes /\ \A d \in Drafts : sends[d] \in Nat
      BY DEF IInv, TypeOK, OutreachTypes
    <2>1. ordered /\ Turn(c)
      BY <1>2, <2>0, Standing, TakesTurn
    <2>2. \A b \in Callers : b # c => pc'[b] = "idle"
      BY <2>1 DEF Turn
    <2>3. /\ UpdateSent(c) => draft[call[c].id].state = "approved"
          /\ UpdateApproved(c) => draft[call[c].id].state = "draft"
          /\ InsertDraft(c) => call[c].key # None
      BY <2>1, CallKey, LedgerAssumption DEF SendsFit, UpdateSent, UpdateApproved, InsertDraft, IInv
    <2>4. ASSUME NEW d \in Drafts
          PROVE  /\ sends'[d] <= 1
                 /\ draft'[d].state # "sent" => sends'[d] = 0 /\ ~draft'[d].counted
                 /\ draft'[d].state = "none" => draft'[d].key = None
      <3>1. /\ sends[d] <= 1
            /\ draft[d].state # "sent" => sends[d] = 0 /\ ~draft[d].counted
            /\ draft[d].state = "none" => draft[d].key = None
        BY <2>1 DEF SendsFit
      <3>2. CASE d = call[c].id /\ InsertDraft(c)
        <4>1. ~UpdateSent(c)
          BY <3>2 DEF InsertDraft, UpdateSent
        <4> QED BY <1>2, <3>1, <3>2, <4>1, DraftRow
      <3>3. CASE d = call[c].id /\ UpdateApproved(c)
        <4>1. ~UpdateSent(c)
          BY <3>3 DEF UpdateApproved, UpdateSent
        <4> QED BY <1>2, <2>3, <3>1, <3>3, <4>1, DraftRow
      <3>4. CASE d = call[c].id /\ UpdateSent(c)
        <4>1. draft'[d].state = "sent" /\ sends'[d] = sends[d] + 1
          BY <1>2, <3>4, DraftRow
        <4>2. sends[d] = 0
          BY <2>3, <3>1, <3>4
        <4> QED BY <4>1, <4>2
      <3>5. CASE ~(d = call[c].id /\ (InsertDraft(c) \/ UpdateApproved(c) \/ UpdateSent(c)))
        <4>1. draft'[d] = draft[d] /\ sends'[d] = sends[d]
          BY Zenon, <1>2, <3>5, DraftRow
        <4> QED BY <3>1, <4>1
      <3> QED BY <3>2, <3>3, <3>4, <3>5
    <2>5. pc[c] = "idle" => draft' = draft
      BY Zenon, <1>2, Writers DEF InsertDraft, UpdateApproved, UpdateSent
    <2>6. pc'[c] = "approve" => draft'[call'[c].id].state = "draft"
      <3> SUFFICES ASSUME NEW d \in Drafts, NEW p \in People, Approve(c, d, p)
                   PROVE  draft'[call'[c].id].state = "draft"
        BY <1>2, <2>0, Arrivals
      <3> QED BY <2>0, <2>5, Beginnings
    <2>7. pc'[c] = "sent" => /\ draft'[call'[c].id].state = "approved"
                             /\ draft'[call'[c].id].key = call'[c].key
      <3> SUFFICES ASSUME NEW d \in Drafts, NEW exp \in BOOLEAN, Send(c, d, exp)
                   PROVE  /\ draft'[call'[c].id].state = "approved"
                          /\ draft'[call'[c].id].key = call'[c].key
        BY <1>2, <2>0, Arrivals
      <3> QED BY <2>0, <2>5, Beginnings
    <2> QED BY <2>2, <2>4, <2>6, <2>7 DEF SendsFit
  <1> QED BY <1>1, <1>2 DEF Next, SendsFit

LEMMA CountStep ==
  ASSUME IInv, OneTurn, SendsFit, CountFits, [Next]_vars
  PROVE  CountFits'
  <1>1. CASE UNCHANGED vars
    BY <1>1 DEF CountFits, Counted, vars, outreach, rest
  <1>2. ASSUME NEW c \in Callers, Start(c) \/ Step(c) \/ Crash(c) PROVE CountFits'
    <2>0. CallTypes /\ RestTypes /\ metric \in Nat
      BY DEF IInv, TypeOK, OutreachTypes
    <2>1. IsFiniteSet(Counted')
      <3>1. ASSUME NEW d \in Counted' PROVE d \in Counted \cup {call[c].id}
        <4>1. CASE d # call[c].id
          <5>1. draft'[d] = draft[d]
            BY <1>2, <3>1, <4>1, DraftRow DEF Counted
          <5> QED BY <3>1, <5>1 DEF Counted
        <4> QED BY <4>1
      <3>2. IsFiniteSet(Counted \cup {call[c].id})
        BY FS_AddElement DEF CountFits
      <3> QED BY <3>1, <3>2, FS_Subset
    <2>2. ASSUME ordered'
          PROVE  LET due == IF \E b \in Callers : pc'[b] = "count" THEN 1 ELSE 0 IN
                 /\ metric' + due <= Cardinality(Counted')
                 /\ crashes' = 0 => metric' + due = Cardinality(Counted')
      <3>1. ordered /\ Turn(c) /\ (crashes' = 0 => crashes = 0 /\ ~Crash(c))
        BY <1>2, <2>0, <2>2, Standing, TakesTurn
      <3> DEFINE n == Cardinality(Counted)
                 m == Cardinality(Counted')
                 due == IF pc[c] = "count" THEN 1 ELSE 0
                 soon == IF pc'[c] = "count" THEN 1 ELSE 0
      <3>2. /\ (\E b \in Callers : pc[b] = "count") <=> pc[c] = "count"
            /\ (\E b \in Callers : pc'[b] = "count") <=> pc'[c] = "count"
        BY <3>1 DEF Turn
      <3>3. n \in Nat /\ metric + due <= n /\ (crashes = 0 => metric + due = n)
        BY <3>1, <3>2, FS_CardinalityType DEF CountFits
      <3>4. SUFFICES metric' + soon <= m /\ (crashes' = 0 => metric' + soon = m)
        BY <3>2
      <3>5. \A d \in Drafts : draft[d].counted \in BOOLEAN
        BY DEF IInv, TypeOK, OutreachTypes, DraftRows
      <3>6. CASE UpdateSent(c) /\ call[c].exp
        <4> DEFINE d == call[c].id
        <4>1. pc[c] = "sent" /\ pc'[c] = "count" /\ metric' = metric /\ d \in Drafts
          BY <2>0, <3>6, Paths DEF UpdateSent, IInv, DraftsFit, HoldFits
        <4>2. ~draft[d].counted
          BY <3>1, <4>1 DEF SendsFit
        <4>3. draft'[d].counted = call[c].exp /\ \A e \in Drafts : e # d => draft'[e] = draft[e]
          BY <1>2, <3>6, <4>1, DraftRow
        <4>4. Counted' = Counted \cup {d}
          BY <3>6, <4>1, <4>3 DEF Counted
        <4>5. m = n + 1
          BY <4>2, <4>4, FS_AddElement DEF Counted, CountFits
        <4> HIDE DEF m, n
        <4> QED BY <2>0, <3>1, <3>3, <4>1, <4>5
      <3>7. CASE ~(UpdateSent(c) /\ call[c].exp)
        <4>1. ASSUME NEW d \in Drafts PROVE draft'[d].counted <=> draft[d].counted
          <5>1. CASE UpdateSent(c) /\ d = call[c].id
            <6>1. ~draft[d].counted
              BY <3>1, <5>1 DEF SendsFit, UpdateSent
            <6>2. draft'[d].counted = call[c].exp
              BY <1>2, <5>1, DraftRow
            <6> QED BY <3>7, <5>1, <6>1, <6>2
          <5>2. CASE InsertDraft(c) /\ d = call[c].id
            <6>1. draft'[d].counted = FALSE /\ draft[d].state = "none"
              BY <1>2, <5>2, DraftRow
            <6> QED BY <3>1, <6>1 DEF SendsFit
          <5>3. CASE ~(UpdateSent(c) /\ d = call[c].id) /\ ~(InsertDraft(c) /\ d = call[c].id)
            BY <1>2, <5>3, DraftRow
          <5> QED BY <5>1, <5>2, <5>3
        <4>2. m = n
          BY <4>1 DEF Counted
        <4>3. pc'[c] # "count"
          BY <1>2, <2>0, <3>7, Arrivals, Paths
        <4>4. metric' = metric \/ (metric' = metric + 1 /\ pc[c] = "count")
          BY <1>2, Writers DEF Count
        <4>5. ~Crash(c) /\ pc[c] = "count" => metric' = metric + 1
          BY <1>2, Departures DEF Count
        <4> HIDE DEF m, n
        <4> QED BY <2>0, <3>1, <3>3, <4>2, <4>3, <4>4, <4>5
      <3> QED BY <3>6, <3>7
    <2> QED BY <2>1, <2>2 DEF CountFits
  <1> QED BY <1>1, <1>2 DEF Next

\* A draft, once it is inserted, is of a company; a company's sent drafts are among its.
LEMMA ItsStep ==
  ASSUME IInv, ordered, SendsFit, NEW c \in Callers, Start(c) \/ Step(c) \/ Crash(c),
         NEW k \in Keys, IsFiniteSet(Its(k))
  PROVE  LET own == call[c].key = k /\ (InsertDraft(c) \/ UpdateSent(c)) IN
         /\ Cardinality(Its(k)) + Cardinality(Sent(k)) \in Nat
         /\ (Cardinality(Its(k)) + Cardinality(Sent(k)))'
              = Cardinality(Its(k)) + Cardinality(Sent(k)) + IF own THEN 1 ELSE 0
  <1> DEFINE d == call[c].id
             n == Cardinality(Its(k))
             s == Cardinality(Sent(k))
  <1>0. IsFiniteSet(Sent(k)) /\ n \in Nat /\ s \in Nat
    <2>1. Sent(k) \subseteq Its(k)
      BY DEF Sent
    <2>2. IsFiniteSet(Sent(k))
      BY <2>1, FS_Subset
    <2> QED BY <2>2, FS_CardinalityType
  <1>1. CASE InsertDraft(c)
    <2>1. d \in Drafts /\ draft[d].state = "none" /\ ~UpdateSent(c) /\ ~UpdateApproved(c)
      BY <1>1 DEF IInv, DraftsFit, HoldFits, InsertDraft, UpdateSent, UpdateApproved
    <2>2. /\ draft'[d].state = "draft" /\ draft'[d].key = call[c].key
          /\ \A e \in Drafts : e # d => draft'[e] = draft[e]
      BY Zenon, <1>1, <2>1, DraftRow
    <2>3. draft[d].key # k
      BY <2>1, LedgerAssumption DEF SendsFit
    <2>4. Sent(k)' = Sent(k)
      BY <2>1, <2>2 DEF Sent, Its
    <2>5. CASE call[c].key = k
      <3>1. Its(k)' = Its(k) \cup {d} /\ d \notin Its(k)
        BY <2>1, <2>2, <2>3, <2>5 DEF Its
      <3>2. Cardinality(Its(k)') = n + 1
        BY <3>1, FS_AddElement
      <3> HIDE DEF n, s
      <3> QED BY <1>0, <1>1, <2>4, <2>5, <3>2 DEF n, s
    <2>6. CASE call[c].key # k
      <3>1. Its(k)' = Its(k)
        BY <2>1, <2>2, <2>3, <2>6 DEF Its
      <3> QED BY <1>0, <2>4, <2>6, <3>1
    <2> QED BY <2>5, <2>6
  <1>2. CASE UpdateSent(c)
    <2>1. /\ d \in Drafts /\ draft[d].state = "approved" /\ draft[d].key = call[c].key
          /\ ~InsertDraft(c)
      BY <1>2 DEF IInv, DraftsFit, HoldFits, InsertDraft, UpdateSent, SendsFit
    <2>2. /\ draft'[d].state = "sent" /\ draft'[d].key = call[c].key
          /\ \A e \in Drafts : e # d => draft'[e] = draft[e]
      BY <1>2, <2>1, DraftRow
    <2>3. Its(k)' = Its(k)
      BY <2>1, <2>2 DEF Its
    <2>4. CASE call[c].key = k
      <3>1. Sent(k)' = Sent(k) \cup {d} /\ d \notin Sent(k)
        BY <2>1, <2>2, <2>4 DEF Sent, Its
      <3>2. Cardinality(Sent(k)') = s + 1
        BY <1>0, <3>1, FS_AddElement
      <3> HIDE DEF n, s
      <3> QED BY <1>0, <1>2, <2>3, <2>4, <3>2 DEF n, s
    <2>5. CASE call[c].key # k
      <3>1. Sent(k)' = Sent(k)
        BY <2>1, <2>2, <2>5 DEF Sent, Its
      <3> QED BY <1>0, <2>3, <2>5, <3>1
    <2> QED BY <2>4, <2>5
  <1>3. CASE ~InsertDraft(c) /\ ~UpdateSent(c)
    <2>1. UpdateApproved(c) => draft[d].state = "draft"
      BY DEF UpdateApproved, SendsFit
    <2>2. ASSUME NEW e \in Drafts
          PROVE  /\ draft'[e].key = draft[e].key
                 /\ draft'[e].state = "sent" <=> draft[e].state = "sent"
      <3>1. CASE UpdateApproved(c) /\ e = d
        BY <2>1, <3>1, DraftRow
      <3>2. CASE ~(UpdateApproved(c) /\ e = d)
        BY <1>3, <3>2, DraftRow
      <3> QED BY <3>1, <3>2
    <2>3. Its(k)' = Its(k) /\ Sent(k)' = Sent(k)
      BY <2>2 DEF Its, Sent
    <2> QED BY <1>0, <1>3, <2>3
  <1> QED BY <1>1, <1>2, <1>3

\* What the feed should have seen of a lead's way.
LEMMA MovesStep ==
  ASSUME IInv, OneTurn, ordered, crashes = 0, CompaniesFit, HistoryFits,
         NEW c \in Callers, Start(c) \/ Step(c), NEW k \in Keys
  PROVE  LET moves == IF Exists(k) /\ ~Busy({"birth"}, k) THEN Len(history[k]) - 1 ELSE 0 IN
         moves \in Int
         /\ moves' = moves + IF InsertMove(c) /\ call[c].key = k THEN 1 ELSE 0
  <1>0. CallTypes /\ CrmTypes /\ RestTypes
    BY DEF IInv, TypeOK
  <1>1. Turn(c)
    BY <1>0, TakesTurn
  <1>2. /\ Busy({"birth"}, k) <=> pc[c] = "birth" /\ call[c].key = k
        /\ Busy({"birth"}, k)' <=> pc'[c] = "birth" /\ call'[c].key = k
    BY <1>1, BusyAt
  <1>3. Exists(k)' <=> Exists(k) \/ (Led(c) /\ k = call[c].key)
    BY Found
  <1>4. history \in [Keys -> Seq(Transitions)] /\ Len(history[k]) \in Nat
    BY <1>0 DEF CrmTypes
  <1>5. CASE Led(c)
    <2>1. pc[c] = "lead" /\ ~Exists(call[c].key) /\ ~InsertMove(c) /\ history' = history
      BY <1>5 DEF Led, InsertLead, InsertMove, CompaniesFit
    <2>2. pc'[c] = "birth" /\ call'[c] = call[c]
      BY <1>0, <1>5, <2>1, Paths DEF Led
    <2> QED BY <1>2, <1>3, <1>4, <1>5, <2>1, <2>2
  <1>6. CASE InsertBirth(c)
    <2>1. pc[c] = "birth" /\ pc'[c] = "attach" /\ ~Led(c) /\ ~InsertMove(c)
      BY <1>0, <1>6, Paths DEF InsertBirth, Led, InsertLead, InsertMove
    <2> DEFINE t == [from |-> None, to |-> "prospect"]
    <2>2. history' = [history EXCEPT ![call[c].key] = Append(@, t)]
      BY <1>6 DEF InsertBirth
    <2>3. CASE call[c].key = k
      <3>1. history[k] = <<>>
        BY <1>2, <2>1, <2>3 DEF HistoryFits
      <3>2. history'[k] = Append(<<>>, t)
        BY <1>4, <2>2, <2>3, <3>1
      <3>3. Len(history'[k]) = 1
        BY <3>2
      <3> QED BY <1>2, <1>3, <1>4, <2>1, <2>3, <3>3
    <2>4. CASE call[c].key # k
      <3>1. history'[k] = history[k]
        BY <1>4, <2>2, <2>4
      <3> QED BY <1>2, <1>3, <1>4, <2>1, <2>4, <3>1
    <2> QED BY <2>3, <2>4
  <1>7. CASE InsertMove(c)
    <2>1. pc[c] = "history" /\ pc'[c] = "feed" /\ ~Led(c) /\ call[c].to \in Stages
      BY <1>0, <1>7, Paths DEF InsertMove, Led, InsertLead, IInv, CallsFit, CallFits
    <2> DEFINE t == [from |-> call[c].from, to |-> call[c].to]
    <2>2. history' = [history EXCEPT ![call[c].key] = Append(@, t)]
      BY <1>7 DEF InsertMove
    <2>3. CASE call[c].key = k
      <3>1. Exists(k)
        BY <2>1, <2>3, NoneIsNoStage DEF HistoryFits, Exists
      <3>2. history'[k] = Append(history[k], t) /\ t \in Transitions
        BY <1>0, <1>4, <2>1, <2>2, <2>3, CallFields DEF Transitions
      <3>3. Len(history'[k]) = Len(history[k]) + 1
        BY <1>4, <3>2
      <3> QED BY <1>2, <1>3, <1>4, <1>7, <2>1, <2>3, <3>1, <3>3
    <2>4. CASE call[c].key # k
      <3>1. history'[k] = history[k]
        BY <1>4, <2>2, <2>4
      <3> QED BY <1>2, <1>3, <1>4, <2>1, <2>4, <3>1
    <2> QED BY <2>3, <2>4
  <1>8. CASE ~Led(c) /\ ~InsertBirth(c) /\ ~InsertMove(c)
    <2>1. history' = history /\ pc[c] # "birth" /\ pc'[c] # "birth"
      BY <1>0, <1>8, Writers, Arrivals, Departures
    <2> QED BY <1>2, <1>3, <1>4, <1>8, <2>1
  <1> QED BY <1>5, <1>6, <1>7, <1>8

LEMMA FeedStep ==
  ASSUME IInv, OneTurn, CompaniesFit, HistoryFits, SendsFit, FeedFits, [Next]_vars
  PROVE  FeedFits'
  <1>1. CASE UNCHANGED vars
    BY <1>1 DEF FeedFits, Its, Sent, Exists, Busy, vars, crm, outreach, rest
  <1>2. ASSUME NEW c \in Callers, Start(c) \/ Step(c) \/ Crash(c) PROVE FeedFits'
    <2>0. CallTypes /\ RestTypes /\ feed \in [Keys -> Nat] /\ reads \in [Keys -> Nat]
      BY DEF IInv, TypeOK, ReminderTypes, CrmTypes
    <2>1. ASSUME NEW k \in Keys PROVE IsFiniteSet(Its(k)')
      <3>1. ASSUME NEW d \in Its(k)' PROVE d \in Its(k) \cup {call[c].id}
        <4>1. CASE d # call[c].id
          <5>1. draft'[d] = draft[d]
            BY <1>2, <3>1, <4>1, DraftRow DEF Its
          <5> QED BY <3>1, <5>1 DEF Its
        <4> QED BY <4>1
      <3>2. IsFiniteSet(Its(k) \cup {call[c].id})
        BY FS_AddElement DEF FeedFits
      <3> QED BY <3>1, <3>2, FS_Subset
    <2>2. ASSUME ordered', crashes' = 0, NEW k \in Keys
          PROVE  (feed[k] + (IF Busy({"count", "feed"}, k) THEN 1 ELSE 0)
                    = reads[k]
                      + (IF Exists(k) /\ ~Busy({"birth"}, k) THEN Len(history[k]) - 1 ELSE 0)
                      + Cardinality(Its(k)) + Cardinality(Sent(k)))'
      <3>1. ordered /\ Turn(c) /\ crashes = 0 /\ ~Crash(c) /\ (Start(c) \/ Step(c))
        BY <1>2, <2>0, <2>2, Standing, TakesTurn
      <3> DEFINE moves == IF Exists(k) /\ ~Busy({"birth"}, k) THEN Len(history[k]) - 1 ELSE 0
                 drafts == Cardinality(Its(k)) + Cardinality(Sent(k))
                 due == IF Busy({"count", "feed"}, k) THEN 1 ELSE 0
                 mine == call[c].key = k
                 Reads == \E found \in BOOLEAN : Attach(c, k, found)
      <3>2. /\ Busy({"count", "feed"}, k) <=> pc[c] \in {"count", "feed"} /\ call[c].key = k
            /\ Busy({"count", "feed"}, k)' <=> pc'[c] \in {"count", "feed"} /\ call'[c].key = k
        <4>1. "idle" \notin {"count", "feed"}
          OBVIOUS
        <4> QED BY <3>1, <4>1, BusyAlone
      <3>3. moves \in Int /\ moves' = moves + IF InsertMove(c) /\ mine THEN 1 ELSE 0
        BY <3>1, MovesStep
      <3>4. /\ drafts \in Nat
            /\ drafts' = drafts + IF mine /\ (InsertDraft(c) \/ UpdateSent(c)) THEN 1 ELSE 0
        BY <3>1, ItsStep DEF FeedFits
      <3>5. feed'[k] = feed[k] + IF Log(c) /\ mine THEN 1 ELSE 0
        <4>1. CASE Log(c)
          BY <2>0, <4>1 DEF Log
        <4>2. CASE ~Log(c)
          BY <1>2, <2>0, <4>2, Writers
        <4> QED BY <4>1, <4>2
      <3>6. feed[k] + due = reads[k] + moves + Cardinality(Its(k)) + Cardinality(Sent(k))
        BY <3>1 DEF FeedFits
      <3>7. Cardinality(Its(k)) \in Nat /\ Cardinality(Sent(k)) \in Nat
        <4>1. Sent(k) \subseteq Its(k) /\ IsFiniteSet(Its(k))
          BY DEF Sent, FeedFits
        <4> QED BY <4>1, FS_Subset, FS_CardinalityType
      <3>8. Cardinality(Its(k)') \in Nat /\ Cardinality(Sent(k)') \in Nat
        <4>1. Sent(k)' \subseteq Its(k)' /\ IsFiniteSet(Its(k)')
          BY <2>1 DEF Sent
        <4> QED BY <4>1, FS_Subset, FS_CardinalityType
      <3>9. feed[k] + due = reads[k] + moves + drafts
        BY <2>0, <3>3, <3>6, <3>7
      <3>19. /\ reads[k] \in Nat /\ reads'[k] = reads[k] + IF Reads THEN 1 ELSE 0
             /\ Reads => pc[c] = "idle" /\ pc'[c] = "feed" /\ call'[c].key = k
             /\ \A j \in Keys, found \in BOOLEAN :
                  Attach(c, j, found) => pc[c] = "idle" /\ pc'[c] = "feed" /\ call'[c].key = j
        <4>1. \A j \in Keys, found \in BOOLEAN : Attach(c, j, found) =>
                /\ reads' = [reads EXCEPT ![j] = @ + 1]
                /\ pc[c] = "idle" /\ pc'[c] = "feed" /\ call'[c].key = j
          BY <2>0, Beginnings DEF Attach
        <4>2. reads' = reads \/ \E j \in Keys, found \in BOOLEAN : Attach(c, j, found)
          BY <1>2, Writers
        <4> QED BY <2>0, <4>1, <4>2
      <3>10. SUFFICES feed'[k] + due' = reads'[k] + moves' + drafts'
        <4>1. moves' \in Int /\ reads'[k] \in Nat
          BY <3>3, <3>19
        <4> QED BY <3>8, <4>1
      <3>11. feed[k] \in Nat
        BY <2>0
      <3>12. due = IF pc[c] \in {"count", "feed"} /\ mine THEN 1 ELSE 0
        BY <3>2
      <3>13. due' = IF pc'[c] \in {"count", "feed"} /\ call'[c].key = k THEN 1 ELSE 0
        BY <3>2
      <3> HIDE DEF moves, drafts, due, Reads
      <3>14. CASE InsertMove(c) \/ InsertDraft(c) \/ UpdateSent(c)
        <4>1. /\ pc[c] \in {"history", "draft", "sent"} /\ pc'[c] \in {"count", "feed"}
              /\ call'[c] = call[c] /\ ~Log(c)
          BY <2>0, <3>14, Paths DEF Log
        <4>2. InsertMove(c) => ~InsertDraft(c) /\ ~UpdateSent(c)
          BY DEF InsertMove, InsertDraft, UpdateSent
        <4> QED BY <3>3, <3>4, <3>5, <3>9, <3>11, <3>12, <3>13, <3>19, <3>14, <4>1, <4>2
      <3>15. CASE Count(c)
        <4>1. /\ pc[c] = "count" /\ pc'[c] = "feed" /\ call'[c] = call[c] /\ ~Log(c)
              /\ ~InsertMove(c) /\ ~InsertDraft(c) /\ ~UpdateSent(c)
          BY Zenon, <2>0, <3>15, Paths DEF Log, InsertMove, InsertDraft, UpdateSent
        <4> QED BY <3>3, <3>4, <3>5, <3>9, <3>11, <3>12, <3>13, <3>19, <4>1
      <3>16. CASE Log(c)
        <4>1. /\ pc[c] = "feed" /\ pc'[c] \notin {"count", "feed"}
              /\ ~InsertMove(c) /\ ~InsertDraft(c) /\ ~UpdateSent(c)
          BY Zenon, <2>0, <3>16, Paths DEF InsertMove, InsertDraft, UpdateSent
        <4> QED BY <3>3, <3>4, <3>5, <3>9, <3>11, <3>12, <3>13, <3>19, <3>16, <4>1
      <3>18. CASE \E j \in Keys, found \in BOOLEAN : Attach(c, j, found)
        <4>1. /\ pc[c] = "idle" /\ pc'[c] = "feed"
              /\ ~Log(c) /\ ~InsertMove(c) /\ ~InsertDraft(c) /\ ~UpdateSent(c)
          BY <3>18, <3>19 DEF Log, InsertMove, InsertDraft, UpdateSent
        <4>2. Reads <=> call'[c].key = k
          BY <3>18, <3>19 DEF Reads
        <4> QED BY <3>3, <3>4, <3>5, <3>9, <3>11, <3>12, <3>13, <3>19, <4>1, <4>2
      <3>17. CASE /\ ~InsertMove(c) /\ ~InsertDraft(c) /\ ~UpdateSent(c)
                  /\ ~Count(c) /\ ~Log(c)
                  /\ \A j \in Keys, found \in BOOLEAN : ~Attach(c, j, found)
        <4>1. pc[c] \notin {"count", "feed"} /\ pc'[c] \notin {"count", "feed"}
          BY <2>0, <3>1, <3>17, Arrivals, Departures
        <4>2. ~Reads
          BY <3>17 DEF Reads
        <4> QED BY <3>3, <3>4, <3>5, <3>9, <3>11, <3>12, <3>13, <3>19, <3>17, <4>1, <4>2
      <3> QED BY <3>14, <3>15, <3>16, <3>17, <3>18
    <2> QED BY <2>1, <2>2 DEF FeedFits
  <1> QED BY <1>1, <1>2 DEF Next

-----------------------------------------------------------------------------
(***************************************************************************)
(* One reminder                                                            *)
(***************************************************************************)
LEMMA RemindersStep ==
  ASSUME IInv, OneTurn, RemindersFit, [Next]_vars
  PROVE  RemindersFit'
  <1>1. CASE UNCHANGED vars
    BY <1>1 DEF RemindersFit, Busy, vars, crm, reminders, rest
  <1>2. ASSUME NEW c \in Callers, Start(c) \/ Step(c) \/ Crash(c), ordered' PROVE RemindersFit'
    <2>0. /\ CallTypes /\ CrmTypes /\ RestTypes
          /\ followups \in [Keys -> Nat] /\ tasks \in [Keys -> Nat]
      BY DEF IInv, TypeOK, ReminderTypes
    <2>1. ordered /\ Turn(c) /\ (crashes' = 0 => crashes = 0 /\ ~Crash(c))
      BY <1>2, <2>0, Standing, TakesTurn
    <2> DEFINE Row(k) ==
          IF pc[c] = "next" /\ call[c].key = k
          THEN followups[k] = 1 /\ tasks[k] = 0 /\ lead[k].next = None
          ELSE IF pc[c] = "task" /\ call[c].key = k
          THEN followups[k] = 1 /\ tasks[k] = 0 /\ lead[k].next # None
          ELSE tasks[k] = followups[k] /\ (followups[k] = 1 <=> lead[k].next # None)
    <2>2. \A k \in Keys : /\ Busy({"next"}, k) <=> pc[c] = "next" /\ call[c].key = k
                          /\ Busy({"next"}, k)' <=> pc'[c] = "next" /\ call'[c].key = k
      BY <2>1, BusyAt
    <2>3. \A k \in Keys : /\ Busy({"task"}, k) <=> pc[c] = "task" /\ call[c].key = k
                          /\ Busy({"task"}, k)' <=> pc'[c] = "task" /\ call'[c].key = k
      BY <2>1, BusyAt
    <2>4. /\ \A k \in Keys : followups[k] <= 1
          /\ pc[c] = "followup" => followups[call[c].key] = 0
          /\ crashes = 0 => \A k \in Keys : Row(k)
      BY <2>1, <2>2, <2>3 DEF RemindersFit
    <2>5. \A b \in Callers : b # c => pc'[b] = "idle"
      BY <2>1 DEF Turn
    <2>6. \A k \in Keys : lead'[k].next = IF UpdateNextAction(c) /\ k = call[c].key
                                          THEN call[c].from ELSE lead[k].next
      BY <1>2, <2>0, LeadRow DEF IInv
    <2>7. pc[c] # "idle" => call[c].key \in Keys
      BY CallKey DEF IInv
    <2>8. \A k \in Keys : followups[k] \in Nat /\ tasks[k] \in Nat
      BY <2>0
    <2>9. \A k \in Keys : followups'[k] = followups[k]
                            + IF InsertFollowup(c) /\ call[c].key = k THEN 1 ELSE 0
      <3>1. CASE InsertFollowup(c)
        BY <2>0, <3>1 DEF InsertFollowup
      <3>2. CASE ~InsertFollowup(c)
        BY <1>2, <2>0, <3>2, Writers
      <3> QED BY <3>1, <3>2
    <2>10. \A k \in Keys : tasks'[k] = tasks[k] + IF InsertTask(c) /\ call[c].key = k THEN 1 ELSE 0
      <3>1. CASE InsertTask(c)
        BY <2>0, <3>1 DEF InsertTask
      <3>2. CASE ~InsertTask(c)
        BY <1>2, <2>0, <3>2, Writers
      <3> QED BY <3>1, <3>2
    <2>11. \A k \in Keys : followups'[k] <= 1
      BY <2>4, <2>8, <2>9 DEF InsertFollowup
    <2>12. pc'[c] = "followup" => followups'[call'[c].key] = 0
      <3>1. ASSUME Remind(c), pc'[c] = "followup" PROVE followups'[call'[c].key] = 0
        <4>1. pc[c] = "remind" /\ NeedsReminder(call[c].key) /\ call'[c].key = call[c].key
          BY <2>0, <3>1, Paths
        <4> QED BY <2>7, <2>8, <2>9, <4>1 DEF NeedsReminder, InsertFollowup
      <3>2. ASSUME NEW k \in Keys, Schedule(c, k) PROVE followups'[call'[c].key] = 0
        <4>1. pc[c] = "idle" /\ call'[c].key = k /\ NeedsReminder(k)
          BY <2>0, <3>2, Beginnings
        <4> QED BY <2>8, <2>9, <4>1 DEF NeedsReminder, InsertFollowup
      <3> QED BY <1>2, <2>0, <3>1, <3>2, Arrivals
    <2>13. ASSUME crashes' = 0, NEW k \in Keys PROVE Row(k)'
      <3>1. Row(k) /\ ~Crash(c) /\ (Start(c) \/ Step(c))
        BY <1>2, <2>1, <2>4, <2>13
      <3>2. CASE InsertFollowup(c)
        <4>1. /\ pc[c] = "followup" /\ pc'[c] = "next" /\ call'[c] = call[c]
              /\ ~UpdateNextAction(c) /\ ~InsertTask(c)
          BY <2>0, <3>2, Paths DEF UpdateNextAction, InsertTask
        <4> QED BY <2>4, <2>6, <2>8, <2>9, <2>10, <3>1, <3>2, <4>1
      <3>3. CASE UpdateNextAction(c)
        <4>1. /\ pc[c] = "next" /\ pc'[c] = "task" /\ call'[c] = call[c]
              /\ ~InsertFollowup(c) /\ ~InsertTask(c)
          BY <2>0, <3>3, Paths DEF InsertFollowup, InsertTask
        <4>2. call[c].from # None
          BY <4>1, NoneIsNoStage DEF IInv, CallsFit, CallFits
        <4> QED BY <2>6, <2>8, <2>9, <2>10, <3>1, <3>3, <4>1, <4>2
      <3>4. CASE InsertTask(c)
        <4>1. /\ pc[c] = "task" /\ pc'[c] = "idle" /\ ~InsertFollowup(c) /\ ~UpdateNextAction(c)
          BY <2>0, <3>4, Paths DEF InsertFollowup, UpdateNextAction
        <4> QED BY <2>6, <2>8, <2>9, <2>10, <3>1, <3>4, <4>1
      <3>5. CASE ~InsertFollowup(c) /\ ~UpdateNextAction(c) /\ ~InsertTask(c)
        <4>1. {pc[c], pc'[c]} \cap {"next", "task"} = {}
          BY <2>0, <3>1, <3>5, Arrivals, Departures
        <4>2. lead'[k].next = lead[k].next /\ followups'[k] = followups[k] /\ tasks'[k] = tasks[k]
          BY <2>6, <2>8, <2>9, <2>10, <3>5
        <4>3. pc[c] \notin {"next", "task"} /\ pc'[c] \notin {"next", "task"}
          BY <4>1
        <4> QED BY <3>1, <4>2, <4>3
      <3> QED BY <3>2, <3>3, <3>4, <3>5
    <2> QED BY <2>2, <2>3, <2>5, <2>11, <2>12, <2>13 DEF RemindersFit
  <1> QED BY <1>1, <1>2 DEF Next, RemindersFit

-----------------------------------------------------------------------------
(***************************************************************************)
(* The invariant of callers that take turns                                *)
(***************************************************************************)
TurnsInv ==
  /\ IInv
  /\ OneTurn
  /\ CompaniesFit
  /\ HistoryFits
  /\ GradesFit
  /\ SendsFit /\ CountFits /\ FeedFits
  /\ RemindersFit

LEMMA TurnsInitially == Init => TurnsInv
  <1> SUFFICES ASSUME Init PROVE TurnsInv
    OBVIOUS
  <1>1. IInv /\ OneTurn
    BY Initially DEF OneTurn, Init
  <1>2. \A k \in Keys : ~Exists(k) /\ lead[k].next = None /\ lead[k].version = 0
    BY DEF Init, Exists, NoLead
  <1>3. \A places, k : "idle" \notin places => ~Busy(places, k)
    BY DEF Init, Busy
  <1>4. \A d \in Drafts : /\ draft[d].state = "none" /\ draft[d].key = None
                          /\ draft[d].counted = FALSE /\ sends[d] = 0
    BY DEF Init, NoDraft
  <1>5. CompaniesFit
    BY <1>2, <1>3 DEF Init, CompaniesFit
  <1>6. HistoryFits
    BY <1>2 DEF Init, HistoryFits
  <1>7. GradesFit
    BY <1>2 DEF Init, GradesFit, InOrder
  <1>8. SendsFit
    BY <1>4 DEF Init, SendsFit
  <1>9. Counted = {} /\ \A k \in Keys : Its(k) = {} /\ Sent(k) = {}
    BY <1>4, LedgerAssumption DEF Counted, Its, Sent
  <1>10. CountFits
    BY <1>9, FS_EmptySet DEF Init, CountFits
  <1>11. FeedFits
    <2>1. "idle" \notin {"count", "feed"}
      OBVIOUS
    <2>2. \A k \in Keys : ~Busy({"count", "feed"}, k) /\ ~Exists(k)
                          /\ feed[k] = 0 /\ reads[k] = 0
      BY <1>2, <1>3, <2>1 DEF Init
    <2>3. \A k \in Keys : /\ IsFiniteSet(Its(k))
                          /\ Cardinality(Its(k)) = 0 /\ Cardinality(Sent(k)) = 0
      BY <1>9, FS_EmptySet
    <2> QED BY <2>2, <2>3 DEF FeedFits
  <1>12. RemindersFit
    <2>1. "idle" \notin {"next"} /\ "idle" \notin {"task"}
      OBVIOUS
    <2> QED BY <1>2, <1>3, <2>1 DEF Init, RemindersFit
  <1> QED BY <1>1, <1>5, <1>6, <1>7, <1>8, <1>10, <1>11, <1>12 DEF TurnsInv

LEMMA TurnsInductive == TurnsInv /\ [Next]_vars => TurnsInv'
  <1> SUFFICES ASSUME TurnsInv, [Next]_vars PROVE TurnsInv'
    OBVIOUS
  <1> USE DEF TurnsInv
  <1>1. IInv' /\ OneTurn'
    BY Inductive, OneTurnStep
  <1>2. CompaniesFit' /\ HistoryFits'
    BY CompaniesStep, HistoryStep
  <1>3. GradesFit' /\ RemindersFit'
    BY GradesStep, RemindersStep
  <1>4. SendsFit' /\ CountFits' /\ FeedFits'
    BY SendsStep, CountStep, FeedStep
  <1> QED BY <1>1, <1>2, <1>3, <1>4

LEMMA TurnsHold == Spec => []TurnsInv
  BY TurnsInitially, TurnsInductive, PTL DEF Spec

\* When nobody is in mid-handler, nobody is anywhere.
LEMMA NobodyBusy ==
  ASSUME Quiet, NEW places, "idle" \notin places, NEW k
  PROVE  ~Busy(places, k)
  BY DEF Quiet, Busy

LEMMA NobodyAt ==
  ASSUME Quiet, NEW p, p # "idle", NEW k
  PROVE  ~Busy({p}, k)
  BY NobodyBusy

-----------------------------------------------------------------------------
\* create_lead(): if commands take turns, and none dies between its rows, a lead's
\* company is inserted with it, once, and a company that is left without a lead was
\* inserted for one that the schema refused, because of the prospect it names.
THEOREM CompanyFound == Spec => []OneCompanyPerLead
  <1>1. TurnsInv => OneCompanyPerLead
    <2> SUFFICES ASSUME TurnsInv, Undisturbed, NEW k \in Keys
                 PROVE  companies[k] = refused[k] + (IF Exists(k) THEN 1 ELSE 0)
      BY DEF OneCompanyPerLead
    <2>1. ~Busy({"lead"}, k)
      BY NobodyAt DEF Undisturbed
    <2> QED BY <2>1 DEF TurnsInv, CompaniesFit, Undisturbed
  <1> QED BY <1>1, TurnsHold, PTL

\* move_stage(): the rows of a lead's history are a documented way, without a gap, from
\* its discovery to the stage it is in.
THEOREM HistoryComplete == Spec => []HistoryTellsStage
  <1>1. TurnsInv => HistoryTellsStage
    <2> SUFFICES ASSUME TurnsInv, Undisturbed, NEW k \in Keys, Exists(k)
                 PROVE  Told(history[k], lead[k].stage)
      BY DEF HistoryTellsStage, Told
    <2>1. ~Busy({"birth"}, k) /\ ~Busy({"history"}, k)
      BY NobodyAt DEF Undisturbed
    <2> QED BY <2>1 DEF TurnsInv, HistoryFits, Undisturbed
  <1> QED BY <1>1, TurnsHold, PTL

\* evaluate() and record_qualification(): versions are of ever more evidence, and the
\* lead shows the last.
THEOREM LatestShown == Spec => []ScoreIsLatest
  <1>1. TurnsInv => ScoreIsLatest
    <2> SUFFICES ASSUME TurnsInv, ordered, NEW k \in Keys
                 PROVE  /\ Undisturbed => lead[k].version = Len(quals[k])
                        /\ \A i \in 2 .. Len(quals[k]) : quals[k][i - 1] <= quals[k][i]
      BY DEF ScoreIsLatest
    <2>1. Undisturbed => ~Busy({"cache"}, k)
      BY NobodyAt DEF Undisturbed
    <2> QED BY <2>1 DEF TurnsInv, GradesFit, InOrder, Undisturbed
  <1> QED BY <1>1, TurnsHold, PTL

\* record_sent(): a draft is recorded as sent once, even if commands die; its experiment
\* counts no more than its sent drafts, and all of them if none died; and the feed shows
\* every research, move, draft and send.
THEOREM Booked == Spec => []SendsAreBooked
  <1>1. TurnsInv => SentOnce
    BY DEF TurnsInv, SendsFit, SentOnce
  <1>2. TurnsInv => MetricCountsSends
    <2> SUFFICES ASSUME TurnsInv, ordered
                 PROVE  /\ metric <= Cardinality(Counted)
                        /\ Undisturbed => metric = Cardinality(Counted)
      BY DEF MetricCountsSends, Counted
    <2> DEFINE due == IF \E c \in Callers : pc[c] = "count" THEN 1 ELSE 0
    <2>1. metric \in Nat /\ Cardinality(Counted) \in Nat
      BY FS_CardinalityType DEF TurnsInv, IInv, TypeOK, OutreachTypes, CountFits
    <2>2. /\ metric + due <= Cardinality(Counted)
          /\ crashes = 0 => metric + due = Cardinality(Counted)
      BY DEF TurnsInv, CountFits
    <2>3. due \in 0 .. 1 /\ (Undisturbed => due = 0)
      BY DEF Undisturbed, Quiet
    <2> HIDE DEF due
    <2> QED BY <2>1, <2>2, <2>3 DEF Undisturbed
  <1>3. TurnsInv => FeedIsComplete
    <2> SUFFICES ASSUME TurnsInv, Undisturbed, NEW k \in Keys
                 PROVE  feed[k] = reads[k] + (IF Exists(k) THEN Len(history[k]) - 1 ELSE 0)
                                  + Cardinality(Its(k)) + Cardinality(Sent(k))
      BY DEF FeedIsComplete, Its, Sent
    <2>1. "idle" \notin {"count", "feed"} /\ "idle" \notin {"birth"}
      OBVIOUS
    <2>2. ~Busy({"count", "feed"}, k) /\ ~Busy({"birth"}, k)
      BY <2>1, NobodyBusy DEF Undisturbed
    <2>3. feed[k] \in Nat
      BY DEF TurnsInv, IInv, TypeOK, ReminderTypes
    <2> QED BY <2>2, <2>3 DEF TurnsInv, FeedFits, Undisturbed
  <1>4. TurnsInv => SendsAreBooked
    BY <1>1, <1>2, <1>3 DEF SendsAreBooked
  <1> QED BY <1>4, TurnsHold, PTL

\* schedule_for_lead(): however often it runs, a lead has one open follow-up at most,
\* and, if no run died halfway, its task and its next action with it.
THEOREM RemindedOnce == Spec => []OneReminder
  <1>1. TurnsInv => OneReminder
    <2> SUFFICES ASSUME TurnsInv, NEW k \in Keys
                 PROVE  /\ ordered => followups[k] <= 1
                        /\ Undisturbed => /\ tasks[k] = followups[k]
                                          /\ followups[k] = 1 <=> lead[k].next # None
      BY DEF OneReminder
    <2>1. Undisturbed => ~Busy({"next"}, k) /\ ~Busy({"task"}, k)
      BY NobodyAt DEF Undisturbed
    <2> QED BY <2>1 DEF TurnsInv, RemindersFit, Undisturbed
  <1> QED BY <1>1, TurnsHold, PTL

=============================================================================
