-------------------------------- MODULE Daily --------------------------------
(***************************************************************************)
(* The sales day of sales/cli.py: "daily-run" with its passes, the         *)
(* commands given beside it, the reminders of sales/followup.py, the       *)
(* counts of sales/metrics.py, the checks of sales/checks.py, the brief.   *)
(*                                                                         *)
(* Whoever writes to the book - the daily run, an operator, the run of     *)
(* another worker - does one thing at a time: it looks, it asks the clock, *)
(* it commits.  Between these the others work, midnight comes and a        *)
(* process may die.  Only a lead's move is looked up and made at once:     *)
(* SalesLedger takes it apart.                                             *)
(***************************************************************************)
EXTENDS SalesPipeline, Integers, Sequences, FiniteSets
Lists == INSTANCE SequencesExt

CONSTANTS Customers, Sellers, Approvers, MaxDays, MaxCommands, MaxFailures

\* The daily run is a desk of its own.
Desks == Sellers \cup {"daily"}

DailyAssumption == IsFiniteSet(Customers) /\ "daily" \notin Sellers

VARIABLES
  today,
  place,        \* per lead: its stage and the day it came; "none" before
  drafts,       \* the drafts, oldest first: lead, state, by, created, sent_at
  reminders,    \* per lead: [due, created] of its open follow-ups
  history,      \* the stage moves: lead, to, day
  passes,       \* what the running daily-run has still to do
  hand,         \* per desk: the task it is at
  todo,         \* per desk: the tasks after that one
  crowded,      \* history: leads whose follow-up two desks were planning at once
  orders, failures

desk == <<passes, hand, todo>>
dayVars == <<today, place, drafts, reminders, history, passes, hand, todo, crowded, orders, failures>>
book == <<place, drafts, reminders, history>>

NoPlace == [stage |-> "none", created |-> 0]

Known == {l \in Customers : place[l].stage # "none"}

\* Days until the next action; a stage without one is not there.
RULES == [contacted |-> 3, responded |-> 1, discovery_scheduled |-> 1, discovery_completed |-> 1,
          qualified |-> 2, proposal_sent |-> 3, negotiation |-> 2, audit_in_progress |-> 7,
          lost |-> 90]

Nobody == ""

\* A task about a lead, a draft, or neither; word is the approver or the stage it names.
Task(step, lead, draft, word) ==
  [step |-> step, lead |-> lead, draft |-> draft, word |-> word, due |-> 0, day |-> 0]

Idle == Task("none", "none", 0, Nobody)

On(step, lead) == Task(step, lead, 0, Nobody)
Sending(i) == Task("send", "none", i, Nobody)

\* Desk a has done what it was at, or goes on with it.
Finish(a) == hand' = [hand EXCEPT ![a] = Idle]
GoOn(a, step) == hand' = [hand EXCEPT ![a].step = step]

At(a, step) == hand[a].step = step

\* What a step of a task leaves alone.
Rest == UNCHANGED <<today, passes, todo, orders, failures>>

-----------------------------------------------------------------------------
(***************************************************************************)
(* One task.                                                               *)
(***************************************************************************)
\* The next of a desk's list.
Take(a) ==
  /\ hand[a] = Idle /\ todo[a] # <<>>
  /\ hand' = [hand EXCEPT ![a] = Head(todo[a])]
  /\ todo' = [todo EXCEPT ![a] = Tail(@)]
  /\ UNCHANGED <<today, book, passes, crowded, orders, failures>>

\* A row that is counted by its day is given the time before it is written.
Clocked == [discover |-> "discovered", draft |-> "drafted", sending |-> "sent",
            reminding |-> "reminded", moving |-> "moved"]

Clock(a) ==
  /\ hand[a].step \in DOMAIN Clocked
  /\ hand' = [hand EXCEPT ![a].step = Clocked[@], ![a].day = today]
  /\ Rest /\ UNCHANGED <<book, crowded>>

\* Mutant of Open: what is due by today only.
OpenToday(l) == SelectSeq(reminders[l], LAMBDA f : f.due <= today)

\* due_followups() up to the end of time.
Open(l) == reminders[l]

\* A reminder for a lead whose stage has a rule and that has none open.
schedule_for_lead(a) ==
  LET l == hand[a].lead IN
  /\ At(a, "remind")
  /\ IF Open(l) # <<>> \/ place[l].stage \notin DOMAIN RULES
     THEN Finish(a) /\ UNCHANGED crowded
     ELSE /\ hand' = [hand EXCEPT ![a].step = "reminding",
                                  ![a].due = today + RULES[place[l].stage]]
          /\ crowded' = IF \E b \in Desks : hand[b].lead = l
                                            /\ hand[b].step \in {"reminding", "reminded"}
                        THEN crowded \cup {l} ELSE crowded
  /\ Rest /\ UNCHANGED book

schedule_followup(a) ==
  LET h == hand[a] IN
  /\ At(a, "reminded")
  /\ reminders' = [reminders EXCEPT ![h.lead] = Append(@, [due |-> h.due, created |-> h.day])]
  /\ Finish(a)
  /\ Rest /\ UNCHANGED <<place, drafts, history, crowded>>

\* A new draft, whatever drafts the lead has.
create_draft(a) ==
  /\ At(a, "drafted")
  /\ drafts' = Append(drafts, [lead |-> hand[a].lead, state |-> "draft", by |-> Nobody,
                               created |-> hand[a].day, sent_at |-> 0])
  /\ Finish(a)
  /\ Rest /\ UNCHANGED <<place, reminders, history, crowded>>

\* A lead that is there is not brought again.
create_lead(a) ==
  LET h == hand[a] IN
  /\ At(a, "discovered")
  /\ place' = IF h.lead \in Known THEN place
              ELSE [place EXCEPT ![h.lead] = [stage |-> "prospect", created |-> h.day]]
  /\ Finish(a)
  /\ Rest /\ UNCHANGED <<drafts, reminders, history, crowded>>

\* The stage of the lead, and then the row of the move.
move_stage(a) ==
  LET h == hand[a] IN
  /\ At(a, "move")
  /\ IF h.lead \in Known /\ h.word \in AllowedNext(place[h.lead].stage)
     THEN place' = [place EXCEPT ![h.lead].stage = h.word] /\ GoOn(a, "moving")
     ELSE Finish(a) /\ UNCHANGED place
  /\ Rest /\ UNCHANGED <<drafts, reminders, history, crowded>>

LogMove(a) ==
  LET h == hand[a] IN
  /\ At(a, "moved")
  /\ history' = Append(history, [lead |-> h.lead, to |-> h.word, day |-> h.day])
  /\ Finish(a)
  /\ Rest /\ UNCHANGED <<place, drafts, reminders, crowded>>

\* Only a draft can be approved, and by somebody: a name of blanks is one.
approve_draft(a) ==
  /\ At(a, "approve")
  /\ IF hand[a].draft \in DOMAIN drafts /\ drafts[hand[a].draft].state = "draft"
        /\ hand[a].word # Nobody
     THEN GoOn(a, "approving") ELSE Finish(a)
  /\ Rest /\ UNCHANGED <<book, crowded>>

Approve(a) ==
  /\ At(a, "approving")
  /\ drafts' = [drafts EXCEPT ![hand[a].draft].state = "approved",
                              ![hand[a].draft].by = hand[a].word]
  /\ Finish(a)
  /\ Rest /\ UNCHANGED <<place, reminders, history, crowded>>

\* Mutant of Sendable: what is sent may be recorded again.
SendableAgain(i) == drafts[i].state \in {"approved", "sent"}

Sendable(i) == drafts[i].state = "approved"

\* Anything but an approved draft is refused, and skipped by a bulk send.
record_sent(a) ==
  /\ At(a, "send")
  /\ IF hand[a].draft \in DOMAIN drafts /\ Sendable(hand[a].draft)
     THEN GoOn(a, "sending") ELSE Finish(a)
  /\ Rest /\ UNCHANGED <<book, crowded>>

\* The send, after which the lead's next reminder is due.
Send(a) ==
  LET i == hand[a].draft IN
  /\ At(a, "sent")
  /\ drafts' = [drafts EXCEPT ![i].state = "sent", ![i].sent_at = hand[a].day]
  /\ hand' = [hand EXCEPT ![a] = On("remind", drafts[i].lead)]
  /\ Rest /\ UNCHANGED <<place, reminders, history, crowded>>

Proceed(a) ==
  \/ Take(a) \/ Clock(a) \/ schedule_for_lead(a) \/ schedule_followup(a) \/ create_draft(a)
  \/ create_lead(a) \/ move_stage(a) \/ LogMove(a) \/ approve_draft(a) \/ Approve(a)
  \/ record_sent(a) \/ Send(a)

-----------------------------------------------------------------------------
Init ==
  /\ today = 1
  /\ place = [l \in Customers |-> NoPlace]
  /\ drafts = <<>>
  /\ reminders = [l \in Customers |-> <<>>]
  /\ history = <<>>
  /\ passes = <<>>
  /\ hand = [a \in Desks |-> Idle]
  /\ todo = [a \in Desks |-> <<>>]
  /\ crowded = {}
  /\ orders = 0 /\ failures = 0

Ordered == orders < MaxCommands /\ orders' = orders + 1

Free(a) == hand[a] = Idle /\ todo[a] = <<>>

\* The loop: the researcher's pass, the three steps of the outreach worker's, and the
\* passes of the qualifier and the analyst, which change nothing kept here.
cmd_daily_run ==
  /\ passes = <<>> /\ Free("daily") /\ Ordered
  /\ passes' = <<"discover", "draft", "remind", "move", "report">>
  /\ UNCHANGED <<today, book, hand, todo, crowded, failures>>

\* A pass lists what there is when it begins: the researcher any leads that are not there
\* yet, the outreach steps every lead there is.
Begin(step, leads) ==
  /\ passes # <<>> /\ Head(passes) = step /\ Free("daily")
  /\ passes' = Tail(passes)
  /\ todo' = [todo EXCEPT !["daily"] =
                [i \in 1 .. Cardinality(leads) |->
                   Task(step, Lists!SetToSeq(leads)[i], 0, "contacted")]]
  /\ UNCHANGED <<today, book, hand, crowded, orders, failures>>

ResearchPass == \E fresh \in SUBSET (Customers \ Known) : Begin("discover", fresh)

SalesDraftOutreachTool == Begin("draft", Known)

SalesScheduleFollowupTool == Begin("remind", Known)

SalesMoveStageTool == Begin("move", Known)

Report == Begin("report", {})

\* A pass raises an exception: what it was at is left, the next worker's pass goes on.
PassFails ==
  /\ passes # <<>> /\ failures < MaxFailures
  /\ failures' = failures + 1
  /\ hand' = [hand EXCEPT !["daily"] = Idle]
  /\ todo' = [todo EXCEPT !["daily"] = <<>>]
  /\ passes' = CASE Head(passes) = "discover" -> Tail(passes)
                 [] Head(passes) = "draft" /\ ~Free("daily") -> passes
                 [] OTHER -> <<"report">>
  /\ UNCHANGED <<today, book, crowded, orders>>

\* A process dies.
Die(a) ==
  /\ failures < MaxFailures /\ (~Free(a) \/ (a = "daily" /\ passes # <<>>))
  /\ failures' = failures + 1
  /\ hand' = [hand EXCEPT ![a] = Idle]
  /\ todo' = [todo EXCEPT ![a] = <<>>]
  /\ passes' = IF a = "daily" THEN <<>> ELSE passes
  /\ UNCHANGED <<today, book, crowded, orders>>

-----------------------------------------------------------------------------
(***************************************************************************)
(* The commands of an operator, and the tools of a worker's run.           *)
(***************************************************************************)
Give(a, task) ==
  /\ Free(a) /\ Ordered
  /\ hand' = [hand EXCEPT ![a] = task]
  /\ UNCHANGED <<today, book, passes, todo, crowded, failures>>

cmd_outreach_draft(a, l) == l \in Known /\ Give(a, On("draft", l))

cmd_outreach_approve(a, i, by) ==
  drafts[i].state = "draft" /\ Give(a, Task("approve", "none", i, by))

\* The same, asked for by a run of the strategist and granted there.
SalesApproveDraftTool(a, i, by) == cmd_outreach_approve(a, i, by)

cmd_outreach_send(a, i) == Give(a, Sending(i))

SalesRecordSentTool(a, i) == cmd_outreach_send(a, i)

\* The first of the drafts that are approved now, max at most.
SalesBulkSendTool(a, max) ==
  LET approved == SelectSeq([i \in DOMAIN drafts |-> i], Sendable)
  IN /\ Free(a) /\ Ordered
     /\ \E n \in 0 .. max :
          /\ n = max \/ n = Len(approved)
          /\ n <= Len(approved)
          /\ todo' = [todo EXCEPT ![a] = [i \in 1 .. n |-> Sending(approved[i])]]
     /\ UNCHANGED <<today, book, passes, hand, crowded, failures>>

cmd_outreach_send_pending(a) == SalesBulkSendTool(a, Len(drafts))

cmd_followups_schedule(a, l) == l \in Known /\ Give(a, On("remind", l))

\* A lead is moved by the strategist: here on an answer, or as lost.
Moved(a, l, to) == l \in Known /\ Give(a, Task("move", l, 0, to))

Midnight ==
  /\ today < MaxDays
  /\ today' = today + 1
  /\ UNCHANGED <<book, desk, crowded, orders, failures>>

Command(a) ==
  \/ \E l \in Customers :
       \/ cmd_outreach_draft(a, l) \/ cmd_followups_schedule(a, l)
       \/ \E to \in {"responded", "lost"} : Moved(a, l, to)
  \/ \E i \in DOMAIN drafts :
       \/ \E by \in Approvers : cmd_outreach_approve(a, i, by) \/ SalesApproveDraftTool(a, i, by)
       \/ cmd_outreach_send(a, i) \/ SalesRecordSentTool(a, i) \/ SalesBulkSendTool(a, i)
  \/ cmd_outreach_send_pending(a)

Next ==
  \/ cmd_daily_run \/ ResearchPass \/ SalesDraftOutreachTool \/ SalesScheduleFollowupTool
  \/ SalesMoveStageTool \/ Report \/ PassFails \/ Midnight
  \/ \E a \in Desks : Proceed(a) \/ Die(a)
  \/ \E a \in Sellers : Command(a)

DailySpec == Init /\ [][Next]_dayVars

-----------------------------------------------------------------------------
(***************************************************************************)
(* What is read from the book.                                             *)
(***************************************************************************)
Moves(to, d) == Cardinality({i \in DOMAIN history : history[i].to = to /\ history[i].day = d})

Sent(d) == Cardinality({i \in DOMAIN drafts : drafts[i].sent_at = d})

daily_counts(d) == [
  leads_discovered    |-> Cardinality({l \in Known : place[l].created = d}),
  outreach_drafted    |-> Cardinality({i \in DOMAIN drafts : drafts[i].created = d}),
  outreach_sent       |-> Sent(d),
  followups_scheduled |-> Cardinality(
       UNION {{<<l, i>> : i \in {j \in DOMAIN reminders[l] : reminders[l][j].created = d}} :
                l \in Customers}),
  lost                |-> Moves("lost", d)]

\* SQL's TRIM, of the names there are.
Trim(by) == IF by = " " THEN Nobody ELSE by

sales_outreach_approved_first ==
  \A i \in DOMAIN drafts : drafts[i].state = "sent" => Trim(drafts[i].by) # Nobody

\* A report of day d, against the counts of the book as it is next.
sales_metrics_match_ledger(expect, d) == expect = daily_counts(d)'

DraftsOf(l) == SelectSeq(drafts, LAMBDA d : d.lead = l)

\* What the brief says of a lead: the state of the first draft of its list.
cmd_brief(l) == IF DraftsOf(l) = <<>> THEN "none" ELSE Head(DraftsOf(l)).state

-----------------------------------------------------------------------------
(***************************************************************************)
(* Properties                                                              *)
(***************************************************************************)
\* "re-running the daily procedure must not multiply reminders": one open follow-up for
\* a lead, on whatever day, after whatever failure, however often it is asked and by
\* whomever, unless two planned one for that lead at once.
RemindersDoNotMultiply == \A l \in Customers \ crowded : Len(reminders[l]) <= 1

\* "every sent draft was approved first", by the shipped check, in the middle of anything:
\* it fails for nothing but an approver whose name is blank.
ShippedCheckPasses ==
  (\A i \in DOMAIN drafts : drafts[i].by # " ") => sales_outreach_approved_first

\* Nothing of day d is under way: no row has the day and is not written, and no draft sent
\* on it is about to be approved or sent again.
Settled(d) ==
  /\ \A a \in Desks : hand[a].day # d
  /\ \A i \in DOMAIN drafts :
       drafts[i].sent_at = d =>
         /\ drafts[i].state = "sent"
         /\ \A a \in Desks : hand[a].draft = i => hand[a].step \notin {"approving", "sending", "sent"}

\* "re-derivable": a day that is over and has nothing under way counts the same from then
\* on, whatever is sent, planned and moved later.
OverIsOver ==
  \A d \in 1 .. MaxDays :
    d < today /\ Settled(d) => Settled(d)' /\ sales_metrics_match_ledger(daily_counts(d), d)

\* "approve+send if a draft is pending human approval": a lead with a draft to approve
\* is flagged in the brief.
BriefShowsPending ==
  \A l \in Known : (\E i \in DOMAIN drafts : drafts[i].lead = l /\ drafts[i].state = "draft")
                     => cmd_brief(l) = "draft"
=============================================================================
