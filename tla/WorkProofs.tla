----------------------------- MODULE WorkProofs ------------------------------
(***************************************************************************)
(* Proofs about what a worker does: ToolCalls, Triggers, Daily, Knowledge  *)
(* and Figures are its parts T, G, D, K and F.  For any limit and bounds,  *)
(* whatever the tools report, for any finite set of customers, any         *)
(* documents and any tables.                                               *)
(*                                                                         *)
(*   LimitHolds      no pass delivers more messages than its limit         *)
(*   EgressHolds     what a tool reports of its target is what it did      *)
(*   ReportsReach    who reads what the watcher reports knows the files    *)
(*   OneReminderEach a lead has at most one open reminder                  *)
(*   ShippedChecksHold                                                     *)
(*                   a day that ran through passes the checks it came with *)
(*   PastDaysStay    what a day counts is settled once it is over          *)
(*   WatcherCatchesUp                                                      *)
(*                   after a compile that went well, what was not changed  *)
(*                   since the watcher saw it is in the index as it is     *)
(*   SumsPass        a sum that was computed passes the check of it        *)
(*                                                                         *)
(* What was delivered is not bounded by the counter of the current pass    *)
(* alone: LimitInv adds that each earlier pass is good for at most the     *)
(* limit, and the current one for what it has counted.  A report can come  *)
(* from the second attempt: EgressInv adds that a call which reached a     *)
(* host is one no check stops, and that what the log says of a host was    *)
(* said after reaching it.                                                 *)
(*                                                                         *)
(* The last section states it of the whole (CallsInWork, ...): a behaviour *)
(* is one of the part in focus (PartBegins, PartSteps).  What it states of *)
(* the part R (ResearchInWork) is proved in ResearchProofs.                *)
(***************************************************************************)
EXTENDS ResearchProofs, Sequences, FiniteSetTheorems, WellFoundedInduction, TLAPS

-----------------------------------------------------------------------------
(***************************************************************************)
(* Tool calls.                                                             *)
(***************************************************************************)
Tools == {"http", "message", "open", "download", "upload", "click", "type", "shell", "python",
          "read", "write", "delete", "status", "branch", "commit", "push"}

\* The numbers, and that what is being done is a call.
Numbers ==
  /\ pass \in Nat \ {0} /\ sent \in Nat
  /\ outbox \in [delivered : Nat, drafts : Nat]
  /\ \A d \in doing : d.call.tool \in Tools

\* The inductive invariant.
LimitInv ==
  /\ Numbers
  /\ Limit > 0 => sent <= Limit /\ outbox.delivered + Limit <= Limit * pass + sent

-----------------------------------------------------------------------------
\* A call is of one of the tools.
LEMMA CallsAreOfTools == \A c \in T!Calls : c.tool \in Tools
  <1> SUFFICES ASSUME NEW c \in T!Calls PROVE c.tool \in Tools
    OBVIOUS
  <1>1. CASE c \in T!HttpCalls
    BY <1>1 DEF T!HttpCalls, Tools
  <1>2. CASE c \in T!MessageCalls
    BY <1>2 DEF T!MessageCalls, Tools
  <1>3. CASE c \in T!OpenCalls \cup T!DownloadCalls \cup T!UploadCalls
    BY <1>3 DEF T!OpenCalls, T!DownloadCalls, T!UploadCalls, Tools
  <1>4. CASE c \in T!PageCalls \cup T!ExecCalls
    BY <1>4 DEF T!PageCalls, T!ExecCalls, Tools
  <1>5. CASE c \in T!FileCalls \cup T!GitCalls
    BY <1>5 DEF T!FileCalls, T!GitCalls, Tools
  <1> QED BY <1>1, <1>2, <1>3, <1>4, <1>5 DEF T!Calls

\* A report of these effects is of one of them.
LEMMA ReportsTouch ==
  ASSUME NEW status, NEW data, NEW touched, NEW r \in T!Reports(status, data, touched)
  PROVE  r.touched \in touched
  BY DEF T!Reports

\* The reports that come without an effect, or with that of a request.
LEMMA HarmlessReports ==
  /\ \A status, data : \A r \in T!NoEffect(status, data) : r.touched = "nothing"
  /\ \A data, failed : \A r \in T!Sent(data, failed) : r.touched \in {"host", "nothing"}
  <1>1. \A status, data : \A r \in T!NoEffect(status, data) : r.touched = "nothing"
    BY ReportsTouch DEF T!NoEffect
  <1>2. \A data, failed : \A r \in T!Sent(data, failed) : r.touched \in {"host", "nothing"}
    BY ReportsTouch DEF T!Sent
  <1> QED BY <1>1, <1>2

\* Only a message that the limit lets pass is delivered.
LEMMA DeliveriesAreCounted ==
  ASSUME NEW c, c.tool \in Tools, NEW r \in T!Run(c), r.touched = "delivered"
  PROVE  ~(Limit > 0 /\ sent >= Limit)
  <1> USE HarmlessReports
  <1>1. CASE c.tool = "http"
    <2>1. r \in T!Http(c)
      BY <1>1 DEF T!Run
    <2>2. \A q \in T!HttpExchange : q.touched # "delivered"
      BY ReportsTouch DEF T!HttpExchange
    <2> QED BY <2>1, <2>2 DEF T!Http
  <1>2. CASE c.tool = "message"
    <2>1. r \in T!Message(c)
      BY <1>2 DEF T!Run
    <2>2. ~T!RateReached(c) /\ r \in T!Deliver(c.draft)
      BY <2>1 DEF T!Message
    <2>3. ~c.draft
      BY <2>2, ReportsTouch DEF T!Deliver
    <2> QED BY <2>2, <2>3 DEF T!RateReached
  <1>3. CASE c.tool \in {"open", "download", "upload", "click", "type"}
    <2>1. \/ r \in T!Browsing(T!Open(c)) \/ r \in T!Browsing(T!Download(c))
          \/ r \in T!Browsing(T!Upload(c)) \/ r \in T!Browsing(T!PageAction)
      BY <1>3 DEF T!Run
    <2>2. r \in T!Open(c) \/ r \in T!Download(c) \/ r \in T!Upload(c) \/ r \in T!PageAction
      BY <2>1 DEF T!Browsing
    <2> QED BY <2>2 DEF T!Open, T!Download, T!Upload, T!PageAction
  <1>4. CASE c.tool \in {"shell", "python"}
    <2>1. r \in T!Shell(c) \/ r \in T!InSandbox
      BY <1>4 DEF T!Run
    <2> QED BY <2>1 DEF T!Shell, T!InSandbox
  <1>5. CASE c.tool \in {"read", "write", "delete"}
    <2>1. r \in T!ReadFile(c) \/ r \in T!WriteFile(c) \/ r \in T!DeleteFile(c)
      BY <1>5 DEF T!Run
    <2> QED BY <2>1, ReportsTouch DEF T!ReadFile, T!WriteFile, T!DeleteFile
  <1>6. CASE c.tool \in {"status", "branch", "commit", "push"}
    <2>1. \A ok, effects : r \in T!GitRun(c, ok, effects) => "delivered" \in effects
      BY ReportsTouch DEF T!GitRun
    <2>2. r \in T!Commit(c) \/ r \in T!Push(c) \/ r \in T!GitRun(c, TRUE, {"nothing"})
      BY <1>6 DEF T!Run
    <2>3. r \notin T!Commit(c) /\ r \notin T!Push(c)
      BY <2>1 DEF T!Commit, T!Push
    <2> QED BY <2>1, <2>2, <2>3
  <1> QED BY <1>1, <1>2, <1>3, <1>4, <1>5, <1>6 DEF Tools

\* The bound of one more pass.
LEMMA NextBound ==
  ASSUME NEW p \in Nat, NEW l \in Nat
  PROVE  l * (p + 1) = l * p + l /\ l * p \in Nat
  OBVIOUS

LEMMA LimitStep == T!ToolCallsAssumption /\ LimitInv /\ [T!Next]_(T!toolVars) => LimitInv'
  <1> SUFFICES ASSUME T!ToolCallsAssumption, LimitInv, [T!Next]_(T!toolVars) PROVE LimitInv'
    OBVIOUS
  <1> USE DEF LimitInv
  <1>0. Limit \in Nat
    BY DEF T!ToolCallsAssumption
  <1>1. CASE UNCHANGED T!toolVars
    BY <1>1 DEF Numbers, T!toolVars
  <1>2. ASSUME NEW c \in T!Calls, T!Begin(c) PROVE LimitInv'
    BY <1>2, CallsAreOfTools DEF T!Begin, Numbers
  <1>3. CASE T!Attempt
    <2>0. PICK d \in doing : \E r \in T!Run(d.call) :
            /\ T!Touch(r, d.call)
            /\ sent' = T!Counted(r)
            /\ doing' = {[d EXCEPT !.attempts = @ + 1, !.last = {r}]}
            /\ UNCHANGED pass
      BY <1>3 DEF T!Attempt
    <2>1. PICK r \in T!Run(d.call) :
            /\ T!Touch(r, d.call)
            /\ sent' = T!Counted(r)
            /\ doing' = {[d EXCEPT !.attempts = @ + 1, !.last = {r}]}
            /\ UNCHANGED pass
      BY <2>0
    <2>2. Numbers'
      BY <2>1 DEF Numbers, T!Touch, T!Counted
    <2>3. CASE r.touched = "delivered"
      <3>1. Limit > 0 => sent < Limit
        BY <1>0, <2>1, <2>3, DeliveriesAreCounted DEF Numbers
      <3>2. sent' = sent + 1 /\ outbox'.delivered = outbox.delivered + 1
        BY <2>1, <2>3 DEF T!Touch, T!Counted
      <3> QED BY <1>0, <2>1, <2>2, <3>1, <3>2, NextBound DEF Numbers
    <2>4. CASE r.touched # "delivered"
      <3>1. sent' = sent /\ outbox'.delivered = outbox.delivered
        BY <2>1, <2>4 DEF T!Touch, T!Counted, Numbers
      <3> QED BY <2>1, <2>2, <3>1
    <2> QED BY <2>3, <2>4
  <1>4. CASE T!Record
    BY <1>4 DEF T!Record, Numbers
  <1>5. CASE T!NextPass \/ T!Die
    <2>1. pass' = pass + 1 /\ sent' = 0 /\ UNCHANGED outbox
      BY <1>5 DEF T!NextPass, T!Die
    <2>2. Numbers'
      BY <1>5, <2>1 DEF T!NextPass, T!Die, Numbers
    <2>3. Limit * pass' = Limit * pass + Limit
      BY <1>0, <2>1, NextBound DEF Numbers
    <2> QED BY <1>0, <2>1, <2>2, <2>3, NextBound DEF Numbers
  <1>6. CASE T!Edit
    BY <1>6 DEF T!Edit, Numbers
  <1> QED BY <1>1, <1>2, <1>3, <1>4, <1>5, <1>6 DEF T!Next

\* A run of n passes delivers at most n times the limit, whatever fails, is tried twice
\* or dies (tools/message.py: the count is of deliveries the backend took, and a resume
\* starts it anew).
THEOREM LimitHolds ==
  ASSUME T!ToolCallsAssumption
  PROVE  T!ToolSpec => []T!LimitPerPass
  <1>1. T!Init => LimitInv
    BY DEF T!Init, LimitInv, Numbers, T!ToolCallsAssumption
  <1>2. LimitInv => T!LimitPerPass
    <2> SUFFICES ASSUME LimitInv, Limit > 0 PROVE outbox.delivered <= Limit * pass
      BY DEF T!LimitPerPass
    <2>1. Limit \in Nat /\ Limit * pass \in Nat
      BY NextBound DEF LimitInv, Numbers, T!ToolCallsAssumption
    <2> QED BY <2>1 DEF LimitInv, Numbers
  <1> QED BY <1>1, <1>2, LimitStep, PTL DEF T!ToolSpec

-----------------------------------------------------------------------------
\* What may be shown of a request that reached a host.
Honest(data) == data.verdict = "shown" /\ (data.url => data.egress)

\* A request that no check stops.
MayLeave(c) ==
  /\ c.tool = "http" /\ ~T!EgressRefused(c) /\ c.auth # "unusable"
  /\ ~(setup.dlp /\ c.secret)

Reached(a) == <<a, "http">> \in left

\* What is known of the action being executed: its number is the last and not logged
\* yet, and when it reached a host its last report is honest and no check stops it.
DoingInv ==
  \A d \in doing :
    /\ doing = {d} /\ d.call.tool \in Tools
    /\ d = [call |-> d.call, attempts |-> d.attempts, last |-> d.last]
    /\ actions # 0 /\ actions \notin DOMAIN log
    /\ Reached(actions) => MayLeave(d.call) /\ \E r : d.last = {r} /\ Honest(r.data)

\* The inductive invariant: what is logged of a request that reached a host is honest,
\* and numbers are not used twice.
EgressInv ==
  /\ actions \in Nat
  /\ \A a \in DOMAIN log : a \in 1 .. actions
  /\ left \in SUBSET ((1 .. actions) \X Tools)
  /\ DoingInv
  /\ \A a \in DOMAIN log : Reached(a) => Honest(log[a])

\* A request that reaches a host was stopped by no check.
LEMMA HostMayBeReached ==
  ASSUME NEW c, c.tool = "http", NEW r \in T!Run(c), r.touched = "host"
  PROVE  MayLeave(c)
  <1>1. r \in T!Http(c)
    BY DEF T!Run
  <1>2. \A status, data : r \notin T!NoEffect(status, data)
    BY HarmlessReports
  <1> QED BY <1>1, <1>2 DEF T!Http, MayLeave

\* A report has the data given.
LEMMA ReportsData ==
  ASSUME NEW status, NEW data, NEW touched, NEW r \in T!Reports(status, data, touched)
  PROVE  r.data = data
  BY DEF T!Reports

\* One that no check stops reports what may be shown.
LEMMA ExchangeIsHonest ==
  ASSUME NEW c, MayLeave(c), NEW r \in T!Run(c)
  PROVE  Honest(r.data)
  <1>1. r \in T!HttpExchange
    BY DEF MayLeave, T!Run, T!Http
  <1>2. r.data = T!Shown(TRUE, "shown") \/ r.data = T!Quiet
    <2>1. CASE r \in T!Sent(T!Shown(TRUE, "shown"), T!Shown(TRUE, "shown"))
      BY <2>1, ReportsData DEF T!Sent
    <2>2. CASE r \in T!Reports("failed", T!Quiet, {"host"})
      BY <2>2, ReportsData
    <2> QED BY <1>1, <2>1, <2>2 DEF T!HttpExchange
  <1> QED BY <1>2 DEF Honest, T!Shown, T!Quiet

LEMMA EgressInit == T!Init => EgressInv
  <1> SUFFICES ASSUME T!Init PROVE EgressInv
    OBVIOUS
  <1>1. actions = 0 /\ log = << >> /\ left = {} /\ doing = {}
    BY DEF T!Init
  <1>2. DOMAIN log = {}
    BY <1>1
  <1> QED BY <1>1, <1>2 DEF EgressInv, DoingInv

LEMMA EgressStep == EgressInv /\ [T!Next]_(T!toolVars) => EgressInv'
  <1> SUFFICES ASSUME EgressInv, [T!Next]_(T!toolVars) PROVE EgressInv'
    OBVIOUS
  <1>1. /\ actions \in Nat /\ \A a \in DOMAIN log : a \in 1 .. actions
        /\ left \in SUBSET ((1 .. actions) \X Tools)
        /\ DoingInv /\ \A a \in DOMAIN log : Reached(a) => Honest(log[a])
    BY DEF EgressInv
  <1>2. CASE UNCHANGED T!toolVars \/ T!Edit
    <2>1. UNCHANGED <<setup, doing, actions, log, left>>
      BY <1>2 DEF T!toolVars, T!Edit
    <2> QED BY <1>1, <2>1 DEF EgressInv, DoingInv, Reached, MayLeave
  <1>3. ASSUME NEW c \in T!Calls, T!Begin(c) PROVE EgressInv'
    <2>1. /\ actions' = actions + 1 /\ UNCHANGED <<setup, log, left>>
          /\ doing' = {[call |-> c, attempts |-> 0, last |-> {}]}
      BY <1>3 DEF T!Begin
    <2>2. PICK n \in Nat : n = actions'
      BY <1>1, <2>1
    <2>3. n # 0 /\ n \notin 1 .. actions /\ 1 .. actions \subseteq 1 .. n
      BY <1>1, <2>1, <2>2
    <2>4. ~Reached(n)' /\ n \notin DOMAIN log'
      BY <1>1, <2>1, <2>3 DEF Reached
    <2>5. DoingInv'
      <3> SUFFICES ASSUME NEW d \in doing'
                   PROVE  /\ doing' = {d} /\ d.call.tool \in Tools
                          /\ d = [call |-> d.call, attempts |-> d.attempts, last |-> d.last]
                          /\ n # 0 /\ n \notin DOMAIN log' /\ ~Reached(n)'
        BY <2>2 DEF DoingInv, Reached
      <3>1. d = [call |-> c, attempts |-> 0, last |-> {}]
        BY <2>1
      <3>2. d.call = c /\ d.attempts = 0 /\ d.last = {}
        BY <3>1
      <3>3. c.tool \in Tools
        BY <1>3, CallsAreOfTools
      <3> QED BY <2>1, <2>3, <2>4, <3>1, <3>2, <3>3
    <2>6. left' \in SUBSET ((1 .. actions') \X Tools)
      BY <1>1, <2>1, <2>2, <2>3
    <2>7. actions' \in Nat /\ \A a \in DOMAIN log' : a \in 1 .. actions'
      BY <1>1, <2>1, <2>2, <2>3
    <2>8. \A a \in DOMAIN log' : Reached(a)' => Honest(log'[a])
      BY <1>1, <2>1 DEF Reached
    <2> QED BY <2>5, <2>6, <2>7, <2>8 DEF EgressInv
  <1>4. CASE T!Attempt
    <2>1. PICK d \in doing : \E r \in T!Run(d.call) :
            /\ T!Touch(r, d.call)
            /\ doing' = {[d EXCEPT !.attempts = @ + 1, !.last = {r}]}
            /\ UNCHANGED <<setup, actions, log>>
      BY <1>4 DEF T!Attempt
    <2>2. PICK r \in T!Run(d.call) :
            /\ T!Touch(r, d.call)
            /\ doing' = {[d EXCEPT !.attempts = @ + 1, !.last = {r}]}
            /\ UNCHANGED <<setup, actions, log>>
      BY <2>1
    <2>3. left' = IF r.touched = "host" THEN left \cup {<<actions, d.call.tool>>} ELSE left
      BY <2>2 DEF T!Touch
    <2>4. /\ d.call.tool \in Tools /\ actions # 0 /\ actions \notin DOMAIN log
          /\ d = [call |-> d.call, attempts |-> d.attempts, last |-> d.last]
          /\ Reached(actions) => MayLeave(d.call)
      BY <1>1 DEF DoingInv
    <2>5. left' \in SUBSET ((1 .. actions) \X Tools)
      BY <1>1, <2>3, <2>4
    <2>6. Reached(actions)' => Honest(r.data)
      <3>1. Reached(actions)' => MayLeave(d.call)
        BY <2>2, <2>3, <2>4, HostMayBeReached DEF Reached
      <3> QED BY <3>1, ExchangeIsHonest
    <2>7. Reached(actions)' => MayLeave(d.call)'
      <3>1. MayLeave(d.call)' = MayLeave(d.call)
        BY <2>2 DEF MayLeave, T!EgressRefused
      <3> QED BY <2>2, <2>3, <2>4, <3>1, HostMayBeReached DEF Reached
    <2>8. PICK e : e = [d EXCEPT !.attempts = @ + 1, !.last = {r}]
      OBVIOUS
    <2>9. /\ doing' = {e} /\ e.call = d.call /\ e.last = {r}
          /\ e = [call |-> e.call, attempts |-> e.attempts, last |-> e.last]
      <3>1. PICK c, n, l : d = [call |-> c, attempts |-> n, last |-> l]
        BY <2>4
      <3>2. e = [call |-> c, attempts |-> n + 1, last |-> {r}]
        BY <2>8, <3>1
      <3> QED BY <2>2, <2>8, <3>1, <3>2
    <2>10. DoingInv'
      BY <2>2, <2>4, <2>6, <2>7, <2>9 DEF DoingInv
    <2>11. \A a \in DOMAIN log : Reached(a)' => Reached(a)
      BY <2>3, <2>4 DEF Reached
    <2> QED BY <1>1, <2>2, <2>5, <2>10, <2>11 DEF EgressInv
  <1>5. CASE T!Record
    <2>1. PICK d \in doing :
            log' = [a \in DOMAIN log \cup {actions} |->
                      IF a = actions THEN (CHOOSE r \in d.last : TRUE).data ELSE log[a]]
      BY <1>5 DEF T!Record
    <2>2. doing' = {} /\ UNCHANGED <<setup, actions, left>>
      BY <1>5 DEF T!Record
    <2>3. actions \in 1 .. actions
      BY <1>1 DEF DoingInv
    <2>4. Reached(actions) => Honest(log'[actions])
      BY <1>1, <2>1 DEF DoingInv
    <2>5. \A a \in DOMAIN log' : a \in 1 .. actions /\ (Reached(a) => Honest(log'[a]))
      BY <1>1, <2>1, <2>3, <2>4
    <2> QED BY <1>1, <2>2, <2>5 DEF EgressInv, DoingInv, Reached
  <1>6. CASE T!NextPass \/ T!Die
    <2>1. UNCHANGED <<setup, actions, log, left>> /\ (doing' = doing \/ doing' = {})
      BY <1>6 DEF T!NextPass, T!Die
    <2>2. DoingInv'
      BY <1>1, <2>1 DEF DoingInv, Reached, MayLeave
    <2> QED BY <1>1, <2>1, <2>2 DEF EgressInv, Reached
  <1> QED BY <1>2, <1>3, <1>4, <1>5, <1>6 DEF T!Next

\* A request that reached a host is never shown as refused or blocked, and where its
\* url is shown it is shown as having gone out, whatever its two attempts reported and
\* wherever a process died (tools/http.py: run; engine.py: _execute_action and the
\* renderers of the egress and dlp logs).
THEOREM EgressHolds == T!ToolSpec => []T!EgressIsHonest
  <1>1. EgressInv => T!EgressIsHonest
    <2> SUFFICES ASSUME EgressInv, NEW a \in T!HttpLeft \cap DOMAIN log
                 PROVE  /\ a \notin T!EgressLog({"refused"}) \cup T!DlpLog
                        /\ a \in T!EgressLog({"shown"}) => log[a].egress
      BY DEF T!EgressIsHonest
    <2>1. Reached(a)
      <3>1. PICK p \in left : p[2] = "http" /\ a = p[1]
        BY DEF T!HttpLeft
      <3>2. p = <<p[1], p[2]>>
        BY <3>1 DEF EgressInv
      <3> QED BY <3>1, <3>2 DEF Reached
    <2>2. Honest(log[a])
      BY <2>1 DEF EgressInv
    <2> QED BY <2>2 DEF Honest, T!EgressLog, T!DlpLog
  <1> QED BY <1>1, EgressInit, EgressStep, PTL DEF T!ToolSpec

-----------------------------------------------------------------------------
(***************************************************************************)
(* Triggers.                                                               *)
(***************************************************************************)
\* Every content there is or was has a number a later one exceeds, so that one which is
\* seen again was never away; and the property holds in the middle of a round too.
ToldInv ==
  /\ writes \in Nat
  /\ content \in [Files -> 0 .. writes + 1]
  /\ last \in [Files -> -1 .. writes + 1]
  /\ cur \in [Files -> 0 .. writes + 1]
  /\ told \in [Files -> 0 .. writes + 1]
  /\ last # G!Unprimed =>
       \A f \in Files : content[f] # 0 /\ content[f] = last[f] => told[f] = content[f]

LEMMA ToldInit == G!TrigInit => ToldInv
  <1> SUFFICES ASSUME G!TrigInit PROVE ToldInv
    OBVIOUS
  <1>1. /\ content \in [Files -> {0, 1}] /\ last = G!Unprimed /\ cur = G!Absent
        /\ told = G!Absent /\ writes = 0
    BY DEF G!TrigInit
  <1> QED BY <1>1 DEF ToldInv, G!Unprimed, G!Absent

LEMMA ToldStep == ToldInv /\ [G!TrigNext]_(G!trigVars) => ToldInv'
  <1> SUFFICES ASSUME ToldInv, [G!TrigNext]_(G!trigVars) PROVE ToldInv'
    OBVIOUS
  <1>1. CASE UNCHANGED <<content, last, cur, told, writes>>
    BY <1>1 DEF ToldInv, G!Unprimed
  <1>2. ASSUME NEW f \in Files, G!Write(f) PROVE ToldInv'
    <2>1. PICK v \in {0, writes + 2} : content' = [content EXCEPT ![f] = v]
      BY <1>2 DEF G!Write
    <2>2. writes' = writes + 1 /\ UNCHANGED <<last, cur, told>>
      BY <1>2 DEF G!Write
    <2>3. v \in 0 .. writes' + 1 /\ writes' \in Nat
      BY <2>1, <2>2 DEF ToldInv
    <2>4. /\ content' \in [Files -> 0 .. writes' + 1] /\ last' \in [Files -> -1 .. writes' + 1]
          /\ cur' \in [Files -> 0 .. writes' + 1] /\ told' \in [Files -> 0 .. writes' + 1]
      BY <2>1, <2>2, <2>3 DEF ToldInv
    <2>5. ASSUME last # G!Unprimed, NEW g \in Files, content'[g] # 0, content'[g] = last[g]
          PROVE  told[g] = content'[g]
      <3>1. last[g] \in -1 .. writes + 1
        BY DEF ToldInv
      <3>2. content'[g] = IF g = f THEN v ELSE content[g]
        BY <2>1 DEF ToldInv
      <3>3. g # f
        BY <2>1, <2>5, <3>1, <3>2 DEF ToldInv
      <3> QED BY <2>5, <3>2, <3>3 DEF ToldInv
    <2> QED BY <2>2, <2>3, <2>4, <2>5 DEF ToldInv, G!Unprimed
  <1>3. CASE G!Scan
    <2>1. cur' = G!Absent /\ UNCHANGED <<content, last, told, writes>>
      BY <1>3 DEF G!Scan
    <2> QED BY <2>1 DEF ToldInv, G!Absent, G!Unprimed
  <1>4. ASSUME NEW f \in Files, G!Hash(f) PROVE ToldInv'
    <2>1. cur' = [cur EXCEPT ![f] = content[f]] /\ UNCHANGED <<content, last, told, writes>>
      BY <1>4 DEF G!Hash
    <2> QED BY <2>1 DEF ToldInv, G!Unprimed
  <1>5. CASE G!Report
    <2>1. /\ told' = IF last = G!Unprimed THEN cur
                     ELSE [f \in Files |-> IF f \in G!Changed THEN content[f] ELSE told[f]]
          /\ last' = cur /\ UNCHANGED <<content, cur, writes>>
      BY <1>5 DEF G!Report
    <2>2. told' \in [Files -> 0 .. writes + 1] /\ last' \in [Files -> -1 .. writes + 1]
      BY <2>1 DEF ToldInv
    <2>3. ASSUME NEW f \in Files, content[f] # 0, content[f] = cur[f]
          PROVE  told'[f] = content[f]
      <3>1. CASE last = G!Unprimed
        BY <2>1, <2>3, <3>1
      <3>2. CASE last # G!Unprimed /\ f \in G!Changed
        BY <2>1, <3>2
      <3>3. CASE last # G!Unprimed /\ f \notin G!Changed
        <4>1. content[f] = last[f] /\ told'[f] = told[f]
          BY <2>1, <2>3, <3>3 DEF G!Changed
        <4> QED BY <2>3, <3>3, <4>1 DEF ToldInv
      <3> QED BY <3>1, <3>2, <3>3
    <2> QED BY <2>1, <2>2, <2>3 DEF ToldInv, G!Unprimed
  <1>6. ASSUME NEW path, NEW secretOk, G!Post(path, secretOk) PROVE ToldInv'
    BY <1>1, <1>6 DEF G!Post
  <1> QED BY <1>1, <1>2, <1>3, <1>4, <1>5, <1>6
          DEF G!TrigNext, G!CmdTrigger, G!Watch, G!Serve, G!Reported, G!trigVars

\* "fires when a file is created/modified": after a round whose hashes are still true,
\* whoever reads what is reported knows every file as it is, whatever was written and taken
\* away while files were hashed (trigger.py: FileWatcher.run and snapshot_roots).
THEOREM ReportsReach == G!TrigSpec => []G!ReportsAddUp
  <1>1. ToldInv => G!ReportsAddUp
    BY DEF ToldInv, G!ReportsAddUp
  <1> QED BY <1>1, ToldInit, ToldStep, PTL DEF G!TrigSpec

-----------------------------------------------------------------------------
(***************************************************************************)
(* The sales day.                                                          *)
(***************************************************************************)
\* A list of anything, and what adding to it does.
Members(s) == {s[i] : i \in DOMAIN s}

LEMMA Appended ==
  ASSUME NEW s, s \in Seq(Members(s)), NEW x
  PROVE  /\ Append(s, x) \in Seq(Members(Append(s, x)))
         /\ DOMAIN s \subseteq DOMAIN Append(s, x)
         /\ \A i \in DOMAIN s : Append(s, x)[i] = s[i]
         /\ \A i \in DOMAIN Append(s, x) : i \in DOMAIN s \/ Append(s, x)[i] = x
         /\ Len(Append(s, x)) = Len(s) + 1
  <1> DEFINE t == Append(s, x)
  <1>1. s \in Seq(Members(s) \cup {x})
    <2>1. PICK n \in Nat : DOMAIN s = 1 .. n /\ s \in [1 .. n -> Members(s)]
      OBVIOUS
    <2>2. s \in [1 .. n -> Members(s) \cup {x}]
      BY <2>1
    <2> QED BY <2>2
  <1>2. /\ t \in Seq(Members(s) \cup {x}) /\ Len(t) = Len(s) + 1
        /\ DOMAIN s = 1 .. Len(s) /\ DOMAIN t = 1 .. Len(s) + 1 /\ Len(s) \in Nat
        /\ \A i \in 1 .. Len(s) : t[i] = s[i]
        /\ t[Len(s) + 1] = x
    BY <1>1
  <1> HIDE DEF t
  <1>3. t \in [1 .. Len(s) + 1 -> Members(t)]
    <2>1. t = [i \in 1 .. Len(s) + 1 |-> t[i]]
      BY <1>2
    <2>2. \A i \in 1 .. Len(s) + 1 : t[i] \in Members(t)
      BY <1>2 DEF Members
    <2> QED BY <2>1, <2>2
  <1>4. t \in Seq(Members(t))
    BY <1>2, <1>3
  <1>5. DOMAIN s \subseteq DOMAIN t /\ \A i \in DOMAIN t : i \in DOMAIN s \/ t[i] = x
    BY <1>2
  <1> QED BY <1>2, <1>4, <1>5 DEF t

TaskLike(t) == DOMAIN t = {"step", "lead", "draft", "word", "due", "day"} /\ t.day \in Nat

\* A task nothing has been done of.
NewSteps == {"none", "discover", "draft", "remind", "move", "report", "approve", "send"}

New(t) == \E step \in NewSteps : \E lead, draft, word : t = D!Task(step, lead, draft, word)

DraftLike(d) == DOMAIN d = {"lead", "state", "by", "created", "sent_at"}

Places == [stage : D!Stages \cup {"none"}, created : Nat]

\* The desks hold tasks, and have lists of new ones.
DeskInv ==
  /\ DOMAIN hand = D!Desks
  /\ \A a \in D!Desks : TaskLike(hand[a])
  /\ DOMAIN todo = D!Desks
  /\ \A a \in D!Desks : todo[a] \in Seq(Members(todo[a])) /\ \A t \in Members(todo[a]) : New(t)

BookInv ==
  /\ today \in Nat \ {0}
  /\ place \in [Customers -> Places]
  /\ drafts \in Seq(Members(drafts)) /\ \A i \in DOMAIN drafts : DraftLike(drafts[i])
  /\ DOMAIN reminders = Customers
  /\ \A l \in Customers : reminders[l] \in Seq(Members(reminders[l]))
  /\ history \in Seq(Members(history))

\* Desk a found no open reminder of lead l and has not made one yet.
Planning(a, l) == hand[a].lead = l /\ hand[a].step \in {"reminding", "reminded"}

\* A lead that is not crowded has one reminder at most, none while one is planned, and
\* one desk that plans it.
RemindInv ==
  \A l \in Customers \ crowded :
    /\ Len(reminders[l]) <= 1
    /\ \A a \in D!Desks : Planning(a, l) => reminders[l] = <<>>
    /\ \A a, b \in D!Desks : Planning(a, l) /\ Planning(b, l) => a = b

\* What has left the first state was approved by somebody, and what is about to be
\* approved or sent has or will have been.
NamedInv ==
  /\ \A i \in DOMAIN drafts : drafts[i].state # "draft" => drafts[i].by # D!Nobody
  /\ \A a \in D!Desks :
       /\ hand[a].step = "approving"
            => hand[a].draft \in DOMAIN drafts /\ hand[a].word # D!Nobody
       /\ hand[a].step \in {"sending", "sent"}
            => hand[a].draft \in DOMAIN drafts /\ drafts[hand[a].draft].by # D!Nobody

DayInv == DeskInv /\ BookInv /\ RemindInv /\ NamedInv

NamedSteps == {"approving", "sending", "sent"}

LEMMA NewIsTask ==
  ASSUME NEW t, New(t)
  PROVE  /\ TaskLike(t) /\ t.day = 0
         /\ t.step \in NewSteps
         /\ t.step \notin NamedSteps \cup {"reminding", "reminded"}
  BY DEF New, NewSteps, NamedSteps, TaskLike, D!Task

LEMMA TasksAreNew ==
  /\ New(D!Idle)
  /\ \A i : New(D!Sending(i))
  /\ \A step \in NewSteps : \A lead : New(D!On(step, lead))
  /\ \A step \in NewSteps : \A lead, draft, word : New(D!Task(step, lead, draft, word))
  <1>1. \A step \in NewSteps : \A lead, draft, word : New(D!Task(step, lead, draft, word))
    BY DEF New
  <1>2. "none" \in NewSteps /\ "send" \in NewSteps
    BY DEF NewSteps
  <1> QED BY <1>1, <1>2 DEF D!Idle, D!Sending, D!On

\* A list that a function on 1 .. n gives.
LEMMA ListOfNew ==
  ASSUME NEW n \in Nat, NEW s, s = [i \in 1 .. n |-> s[i]], \A i \in 1 .. n : New(s[i])
  PROVE  s \in Seq(Members(s)) /\ \A t \in Members(s) : New(t)
  <1>1. s \in [1 .. n -> Members(s)] /\ DOMAIN s = 1 .. n
    BY DEF Members
  <1>2. \A t \in Members(s) : New(t)
    BY <1>1 DEF Members
  <1> QED BY <1>1, <1>2

LEMMA DayInit == D!Init => DayInv
  <1> SUFFICES ASSUME D!Init PROVE DayInv
    OBVIOUS
  <1>1. /\ today = 1 /\ place = [l \in Customers |-> D!NoPlace] /\ drafts = <<>>
        /\ reminders = [l \in Customers |-> <<>>] /\ history = <<>>
        /\ hand = [a \in D!Desks |-> D!Idle] /\ todo = [a \in D!Desks |-> <<>>]
    BY DEF D!Init
  <1>2. D!NoPlace \in Places
    BY DEF D!NoPlace, Places
  <1>3. \A a \in D!Desks : hand[a] = D!Idle /\ New(hand[a])
    BY <1>1, TasksAreNew
  <1>4. <<>> \in Seq(Members(<<>>)) /\ Members(<<>>) = {} /\ DOMAIN <<>> = {}
    BY DEF Members
  <1>5. DeskInv
    BY <1>1, <1>3, <1>4, NewIsTask DEF DeskInv
  <1>6. BookInv
    BY <1>1, <1>2, <1>4 DEF BookInv
  <1>7. RemindInv
    <2>1. \A l \in Customers : reminders[l] = <<>> /\ Len(reminders[l]) <= 1
      BY <1>1
    <2>2. \A a \in D!Desks, l \in Customers : ~Planning(a, l)
      BY <1>3, NewIsTask DEF Planning
    <2> QED BY <2>1, <2>2 DEF RemindInv
  <1>8. NamedInv
    BY <1>1, <1>3, <1>4, NewIsTask DEF NamedInv, NamedSteps
  <1> QED BY <1>5, <1>6, <1>7, <1>8 DEF DayInv

\* What daily_counts counts for a day.
Discovered(d) == {l \in D!Known : place[l].created = d}
Drafted(d) == {i \in DOMAIN drafts : drafts[i].created = d}
SentOn(d) == {i \in DOMAIN drafts : drafts[i].sent_at = d}
RemindersOf(l, d) == {<<l, i>> : i \in {j \in DOMAIN reminders[l] : reminders[l][j].created = d}}
Planned(d) == UNION {RemindersOf(l, d) : l \in Customers}
LostOn(d) == {i \in DOMAIN history : history[i].to = "lost" /\ history[i].day = d}

\* Day d is over and stays as it is.
DayKept(d) ==
  /\ D!Settled(d)'
  /\ Discovered(d)' = Discovered(d) /\ Drafted(d)' = Drafted(d) /\ SentOn(d)' = SentOn(d)
  /\ Planned(d)' = Planned(d) /\ LostOn(d)' = LostOn(d)

DayOver(d) == d \in Nat \ {0} /\ d < today /\ D!Settled(d)

\* A desk goes on to a step it was not at, or takes up something new, and nothing is written.
LEMMA HandMoves ==
  ASSUME DayInv, UNCHANGED <<place, drafts, reminders, history, crowded>>,
         today' \in Nat \ {0},
         DOMAIN hand' = D!Desks, DeskInv',
         \A a \in D!Desks : \/ hand'[a] = hand[a]
                            \/ New(hand'[a])
  PROVE  DayInv' /\ \A d : DayOver(d) => DayKept(d)
  <1>1. \A a \in D!Desks : New(hand'[a]) => /\ hand'[a].day = 0
                                            /\ hand'[a].step \notin NamedSteps
                                            /\ hand'[a].step \notin {"reminding", "reminded"}
    BY NewIsTask
  <1>2. BookInv'
    BY DEF DayInv, BookInv, Members
  <1>3. RemindInv'
    <2>1. \A a \in D!Desks : \A l : Planning(a, l)' => Planning(a, l)
      BY <1>1 DEF Planning
    <2> QED BY <2>1 DEF DayInv, RemindInv
  <1>4. NamedInv'
    BY <1>1 DEF DayInv, NamedInv, NamedSteps
  <1>5. ASSUME NEW d, DayOver(d) PROVE DayKept(d)
    <2>1. D!Settled(d)'
      BY <1>1, <1>5 DEF DayOver, D!Settled, NamedSteps
    <2> QED BY <2>1 DEF DayKept, Discovered, Drafted, SentOn, RemindersOf, Planned, LostOn,
                        D!Known
  <1> QED BY <1>2, <1>3, <1>4, <1>5 DEF DayInv

\* Desk a goes on with its task.
LEMMA GoesOn ==
  ASSUME DeskInv, NEW a \in D!Desks, NEW step, D!GoOn(a, step)
  PROVE  /\ DOMAIN hand' = D!Desks
         /\ TaskLike(hand'[a]) /\ hand'[a].step = step
         /\ hand'[a].lead = hand[a].lead /\ hand'[a].draft = hand[a].draft
         /\ hand'[a].word = hand[a].word /\ hand'[a].day = hand[a].day
         /\ \A b \in D!Desks : b # a => hand'[b] = hand[b]
  <1>1. TaskLike(hand[a]) /\ DOMAIN hand = D!Desks
    BY DEF DeskInv
  <1>2. hand'[a] = [hand[a] EXCEPT !.step = step]
    BY <1>1 DEF D!GoOn
  <1>3. DOMAIN hand' = D!Desks /\ \A b \in D!Desks : b # a => hand'[b] = hand[b]
    BY <1>1 DEF D!GoOn
  <1> QED BY <1>1, <1>2, <1>3 DEF TaskLike

\* Desk a has done its task.
LEMMA Finishes ==
  ASSUME DeskInv, NEW a \in D!Desks, D!Finish(a)
  PROVE  /\ DOMAIN hand' = D!Desks /\ New(hand'[a])
         /\ hand'[a].draft = 0
         /\ \A b \in D!Desks : b # a => hand'[b] = hand[b]
  <1>1. D!Idle.draft = 0
    BY DEF D!Idle, D!Task
  <1>2. hand'[a] = D!Idle
    BY DEF D!Finish, DeskInv
  <1> QED BY <1>1, <1>2, TasksAreNew DEF DeskInv, D!Finish

\* The lists stay, and the tasks are tasks.
LEMMA DesksStay ==
  ASSUME DeskInv, NEW a \in D!Desks, DOMAIN hand' = D!Desks, TaskLike(hand'[a]),
         \A b \in D!Desks : b # a => hand'[b] = hand[b], UNCHANGED todo
  PROVE  DeskInv'
  <1>1. \A b \in D!Desks : Members(todo[b])' = Members(todo[b])
    BY DEF Members
  <1>2. D!Desks' = D!Desks
    BY DEF D!Desks
  <1> QED BY <1>1, <1>2 DEF DeskInv

LEMMA BookStays ==
  ASSUME BookInv, UNCHANGED <<today, place, drafts, reminders, history>>
  PROVE  BookInv'
  BY DEF BookInv, Members

\* The time is taken.
LEMMA ClockStep ==
  ASSUME DayInv, NEW a \in D!Desks, D!Clock(a)
  PROVE  DayInv' /\ \A d : DayOver(d) => DayKept(d)
  <1>1. /\ UNCHANGED <<today, place, drafts, reminders, history, crowded, todo>>
        /\ hand[a].step \in DOMAIN D!Clocked
        /\ hand' = [hand EXCEPT ![a].step = D!Clocked[@], ![a].day = today]
    BY DEF D!Clock, D!Rest, D!book
  <1>2. DeskInv /\ DOMAIN hand = D!Desks /\ TaskLike(hand[a]) /\ today \in Nat \ {0}
    BY DEF DayInv, DeskInv, BookInv
  <1>3. /\ DOMAIN hand' = D!Desks /\ TaskLike(hand'[a])
        /\ hand'[a].step = D!Clocked[hand[a].step] /\ hand'[a].day = today
        /\ hand'[a].lead = hand[a].lead /\ hand'[a].draft = hand[a].draft
        /\ hand'[a].word = hand[a].word
        /\ \A b \in D!Desks : b # a => hand'[b] = hand[b]
    BY <1>1, <1>2 DEF TaskLike
  <1>4. /\ hand'[a].step \in {"reminding", "reminded"} => hand[a].step \in {"reminding", "reminded"}
        /\ hand'[a].step \in NamedSteps => hand[a].step = "sending"
        /\ hand'[a].step # "approving" /\ hand'[a].step # "sending"
    BY <1>1, <1>3 DEF D!Clocked, NamedSteps
  <1>5. DeskInv'
    BY <1>1, <1>2, <1>3, DesksStay
  <1>6. BookInv'
    BY <1>1, BookStays DEF DayInv
  <1>7. RemindInv'
    <2>1. \A b \in D!Desks : \A l : Planning(b, l)' => Planning(b, l)
      BY <1>3, <1>4 DEF Planning
    <2> QED BY <1>1, <2>1 DEF DayInv, RemindInv
  <1>8. NamedInv'
    BY <1>1, <1>3, <1>4 DEF DayInv, NamedInv, NamedSteps
  <1>9. ASSUME NEW d, DayOver(d) PROVE DayKept(d)
    <2>1. D!Settled(d)'
      BY <1>1, <1>3, <1>4, <1>9 DEF DayOver, D!Settled, NamedSteps
    <2> QED BY <1>1, <2>1 DEF DayKept, Discovered, Drafted, SentOn, RemindersOf, Planned, LostOn,
                        D!Known
  <1> QED BY <1>5, <1>6, <1>7, <1>8, <1>9 DEF DayInv

\* A desk that looks for an open reminder of a lead.
LEMMA LookStep ==
  ASSUME DayInv, NEW a \in D!Desks, D!schedule_for_lead(a)
  PROVE  DayInv' /\ \A d : DayOver(d) => DayKept(d)
  <1> DEFINE l == hand[a].lead
  <1>1. /\ UNCHANGED <<today, place, drafts, reminders, history, todo>>
        /\ hand[a].step = "remind"
    BY DEF D!schedule_for_lead, D!Rest, D!book, D!At
  <1>2. DeskInv /\ DOMAIN hand = D!Desks /\ TaskLike(hand[a]) /\ today \in Nat \ {0}
    BY DEF DayInv, DeskInv, BookInv
  <1>3. CASE D!Finish(a) /\ UNCHANGED crowded
    <2>1. New(hand'[a]) /\ DOMAIN hand' = D!Desks /\ \A b \in D!Desks : b # a => hand'[b] = hand[b]
      BY <1>2, <1>3, Finishes
    <2>2. DeskInv'
      BY <1>1, <1>2, <2>1, NewIsTask, DesksStay
    <2> QED BY <1>1, <1>2, <1>3, <2>1, <2>2, HandMoves
  <1>4. CASE /\ reminders[l] = <<>>
             /\ hand' = [hand EXCEPT ![a].step = "reminding",
                                     ![a].due = today + D!RULES[place[l].stage]]
             /\ crowded' = IF \E b \in D!Desks : hand[b].lead = l
                                                  /\ hand[b].step \in {"reminding", "reminded"}
                           THEN crowded \cup {l} ELSE crowded
    <2>1. /\ DOMAIN hand' = D!Desks /\ TaskLike(hand'[a])
          /\ hand'[a].step = "reminding" /\ hand'[a].day = hand[a].day
          /\ hand'[a].lead = hand[a].lead /\ hand'[a].draft = hand[a].draft
          /\ hand'[a].word = hand[a].word
          /\ \A b \in D!Desks : b # a => hand'[b] = hand[b]
      BY <1>2, <1>4 DEF TaskLike
    <2>2. DeskInv'
      BY <1>1, <1>2, <2>1, DesksStay
    <2>3. BookInv'
      BY <1>1, BookStays DEF DayInv
    <2>4. RemindInv'
      <3>1. SUFFICES ASSUME NEW k \in Customers, k \notin crowded'
                     PROVE  /\ Len(reminders[k]) <= 1
                            /\ \A b \in D!Desks : Planning(b, k)' => reminders[k] = <<>>
                            /\ \A b, c \in D!Desks : Planning(b, k)' /\ Planning(c, k)' => b = c
        BY <1>1 DEF RemindInv, D!Desks
      <3>2. /\ k \notin crowded /\ Len(reminders[k]) <= 1
            /\ \A b \in D!Desks : Planning(b, k) => reminders[k] = <<>>
            /\ \A b, c \in D!Desks : Planning(b, k) /\ Planning(c, k) => b = c
        <4>1. k \notin crowded
          BY <1>4, <3>1
        <4> QED BY <4>1 DEF DayInv, RemindInv
      <3>3. CASE k = l
        <4>1. \A b \in D!Desks : ~Planning(b, k)
          BY <1>4, <3>1, <3>3 DEF Planning
        <4>2. \A b \in D!Desks : Planning(b, k)' => b = a
          BY <2>1, <4>1 DEF Planning
        <4> QED BY <1>4, <3>2, <3>3, <4>2
      <3>4. CASE k # l
        <4>1. \A b \in D!Desks : Planning(b, k)' => Planning(b, k)
          BY <2>1, <3>4 DEF Planning
        <4> QED BY <3>2, <4>1
      <3> QED BY <3>3, <3>4
    <2>5. NamedInv'
      BY <1>1, <2>1 DEF DayInv, NamedInv
    <2>6. ASSUME NEW d, DayOver(d) PROVE DayKept(d)
      <3>1. D!Settled(d)'
        BY <1>1, <2>1, <2>6 DEF DayOver, D!Settled
      <3> QED BY <1>1, <3>1 DEF DayKept, Discovered, Drafted, SentOn, RemindersOf, Planned,
                                LostOn, D!Known
    <2> QED BY <2>2, <2>3, <2>4, <2>5, <2>6 DEF DayInv
  <1> QED BY <1>3, <1>4 DEF D!schedule_for_lead, D!Open

\* A desk that looks at a draft, to approve it or to send it.
LEMMA DraftLookStep ==
  ASSUME DayInv, NEW a \in D!Desks, D!approve_draft(a) \/ D!record_sent(a)
  PROVE  DayInv' /\ \A d : DayOver(d) => DayKept(d)
  <1> DEFINE i == hand[a].draft
  <1>1. UNCHANGED <<today, place, drafts, reminders, history, todo, crowded>>
    BY DEF D!approve_draft, D!record_sent, D!Rest, D!book
  <1>2. DeskInv /\ today \in Nat \ {0}
    BY DEF DayInv, BookInv
  <1>3. CASE D!Finish(a)
    <2>1. New(hand'[a]) /\ DOMAIN hand' = D!Desks /\ \A b \in D!Desks : b # a => hand'[b] = hand[b]
      BY <1>2, <1>3, Finishes
    <2>2. DeskInv'
      BY <1>1, <1>2, <2>1, NewIsTask, DesksStay
    <2> QED BY <1>1, <1>2, <1>3, <2>1, <2>2, HandMoves
  <1>4. ASSUME NEW step, D!GoOn(a, step), i \in DOMAIN drafts,
               \/ step = "approving" /\ drafts[i].state = "draft" /\ hand[a].word # D!Nobody
               \/ step = "sending" /\ drafts[i].state = "approved"
        PROVE  DayInv' /\ \A d : DayOver(d) => DayKept(d)
    <2>1. /\ DOMAIN hand' = D!Desks
          /\ TaskLike(hand'[a]) /\ hand'[a].step = step
          /\ hand'[a].lead = hand[a].lead /\ hand'[a].draft = hand[a].draft
          /\ hand'[a].word = hand[a].word /\ hand'[a].day = hand[a].day
          /\ \A b \in D!Desks : b # a => hand'[b] = hand[b]
      BY <1>2, <1>4, GoesOn
    <2>2. DeskInv'
      BY <1>1, <1>2, <2>1, DesksStay
    <2>3. BookInv'
      BY <1>1, BookStays DEF DayInv
    <2>4. RemindInv'
      <3>1. \A b \in D!Desks : \A l : Planning(b, l)' => Planning(b, l)
        BY <1>4, <2>1 DEF Planning
      <3> QED BY <1>1, <3>1 DEF DayInv, RemindInv
    <2>5. NamedInv'
      <3>1. drafts[i].state = "approved" => drafts[i].by # D!Nobody
        BY <1>4 DEF DayInv, NamedInv
      <3> QED BY <1>1, <1>4, <2>1, <3>1 DEF DayInv, NamedInv
    <2>6. ASSUME NEW d, DayOver(d) PROVE DayKept(d)
      <3>1. drafts[i].sent_at # d
        BY <1>4, <2>6 DEF DayOver, D!Settled
      <3>2. D!Settled(d)'
        BY <1>1, <2>1, <2>6, <3>1 DEF DayOver, D!Settled
      <3> QED BY <1>1, <3>2 DEF DayKept, Discovered, Drafted, SentOn, RemindersOf, Planned,
                                LostOn, D!Known
    <2> QED BY <2>2, <2>3, <2>4, <2>5, <2>6 DEF DayInv
  <1> QED BY <1>3, <1>4 DEF D!approve_draft, D!record_sent, D!Sendable

\* A desk writes and is done, or has something new to do: what is left to show.
LEMMA Writes ==
  ASSUME DayInv, NEW a \in D!Desks, DOMAIN hand' = D!Desks, New(hand'[a]),
         \A b \in D!Desks : b # a => hand'[b] = hand[b], UNCHANGED <<today, todo, crowded>>,
         BookInv'
  PROVE  /\ DeskInv'
         /\ UNCHANGED reminders => RemindInv'
         /\ UNCHANGED drafts => NamedInv'
         /\ \A d : DayOver(d) /\ UNCHANGED drafts => D!Settled(d)'
  <1>1. DeskInv
    BY DEF DayInv
  <1>2. /\ TaskLike(hand'[a]) /\ hand'[a].day = 0
        /\ hand'[a].step \notin NamedSteps \cup {"reminding", "reminded"}
    BY NewIsTask
  <1>3. DeskInv'
    BY <1>1, <1>2, DesksStay
  <1>4. \A b \in D!Desks : \A l : Planning(b, l)' => Planning(b, l)
    BY <1>2 DEF Planning
  <1>5. UNCHANGED reminders => RemindInv'
    BY <1>4 DEF DayInv, RemindInv
  <1>6. UNCHANGED drafts => NamedInv'
    BY <1>2 DEF DayInv, NamedInv, NamedSteps
  <1>7. \A d : DayOver(d) /\ UNCHANGED drafts => D!Settled(d)'
    BY <1>2 DEF DayOver, D!Settled, NamedSteps
  <1> QED BY <1>3, <1>5, <1>6, <1>7

\* What a desk finishes.
LEMMA WritesAndIsDone ==
  ASSUME DayInv, NEW a \in D!Desks, D!Finish(a), D!Rest, UNCHANGED crowded, BookInv'
  PROVE  /\ DeskInv' /\ DOMAIN hand' = D!Desks
         /\ New(hand'[a]) /\ hand'[a].draft = 0 /\ \A b \in D!Desks : b # a => hand'[b] = hand[b]
         /\ UNCHANGED reminders => RemindInv'
         /\ UNCHANGED drafts => NamedInv'
         /\ \A d : DayOver(d) /\ UNCHANGED drafts => D!Settled(d)'
  <1>1. DeskInv
    BY DEF DayInv
  <1>2. /\ DOMAIN hand' = D!Desks /\ New(hand'[a]) /\ hand'[a].draft = 0
        /\ \A b \in D!Desks : b # a => hand'[b] = hand[b]
    BY <1>1, Finishes
  <1>3. UNCHANGED <<today, todo, crowded>>
    BY DEF D!Rest
  <1> QED BY <1>2, <1>3, Writes

\* A reminder is written.
LEMMA ReminderStep ==
  ASSUME DayInv, NEW a \in D!Desks, D!schedule_followup(a)
  PROVE  DayInv' /\ \A d : DayOver(d) => DayKept(d)
  <1> DEFINE l == hand[a].lead
  <1>1. /\ hand[a].step = "reminded" /\ D!Finish(a) /\ D!Rest
        /\ UNCHANGED <<place, drafts, history, crowded>>
        /\ UNCHANGED today
    BY DEF D!schedule_followup, D!At, D!Rest
  <1>2. PICK x : /\ x = [due |-> hand[a].due, created |-> hand[a].day]
                 /\ reminders' = [reminders EXCEPT ![l] = Append(@, x)]
    BY DEF D!schedule_followup
  <1>3. /\ DOMAIN reminders = Customers /\ \A k \in Customers : reminders[k] \in Seq(Members(reminders[k]))
    BY DEF DayInv, BookInv
  <1>4. /\ DOMAIN reminders' = Customers
        /\ \A k \in Customers : k # l => reminders'[k] = reminders[k]
        /\ l \in Customers => reminders'[l] = Append(reminders[l], x)
    BY <1>2, <1>3
  <1>5. ASSUME NEW k \in Customers PROVE reminders'[k] \in Seq(Members(reminders'[k]))
    <2>1. reminders[k] \in Seq(Members(reminders[k]))
      BY <1>3
    <2>2. Append(reminders[k], x) \in Seq(Members(Append(reminders[k], x)))
      BY <2>1, Appended
    <2>3. reminders'[k] = reminders[k] \/ reminders'[k] = Append(reminders[k], x)
      BY <1>4
    <2> QED BY <2>1, <2>2, <2>3
  <1>6. BookInv'
    BY <1>1, <1>4, <1>5 DEF DayInv, BookInv, Members
  <1>7. /\ DeskInv' /\ New(hand'[a]) /\ \A b \in D!Desks : b # a => hand'[b] = hand[b]
        /\ NamedInv' /\ \A d : DayOver(d) => D!Settled(d)'
    BY <1>1, <1>6, WritesAndIsDone
  <1>8. RemindInv'
    <2>1. \A b \in D!Desks : \A k : Planning(b, k)' => Planning(b, k) /\ b # a
      BY <1>7, NewIsTask DEF Planning
    <2>2. ASSUME NEW k \in Customers, k \notin crowded
          PROVE  /\ Len(reminders'[k]) <= 1
                 /\ \A b \in D!Desks : Planning(b, k)' => reminders'[k] = <<>>
                 /\ \A b, c \in D!Desks : Planning(b, k)' /\ Planning(c, k)' => b = c
      <3>1. /\ Len(reminders[k]) <= 1
            /\ \A b \in D!Desks : Planning(b, k) => reminders[k] = <<>>
            /\ \A b, c \in D!Desks : Planning(b, k) /\ Planning(c, k) => b = c
        BY <2>2 DEF DayInv, RemindInv
      <3>2. CASE k # l
        BY <1>4, <2>1, <3>1, <3>2
      <3>3. CASE k = l
        <4>1. Planning(a, k)
          BY <1>1, <3>3 DEF Planning
        <4>2. reminders[k] = <<>> /\ \A b \in D!Desks : Planning(b, k) => b = a
          BY <3>1, <4>1
        <4>3. Len(reminders'[k]) = 1
          <5>1. reminders'[k] = Append(<<>>, x)
            BY <1>4, <3>3, <4>2
          <5>2. Append(<<>>, x) = <<x>> /\ Len(<<x>>) = 1
            OBVIOUS
          <5> QED BY <5>1, <5>2
        <4> QED BY <2>1, <4>2, <4>3
      <3> QED BY <3>2, <3>3
    <2>3. D!Desks' = D!Desks
      BY DEF D!Desks
    <2> QED BY <1>1, <2>2, <2>3 DEF RemindInv
  <1>9. ASSUME NEW d, DayOver(d) PROVE DayKept(d)
    <2>1. x.created # d
      <3>1. hand[a].day # d
        BY <1>9 DEF DayOver, D!Settled
      <3> QED BY <1>2, <3>1
    <2>2. ASSUME NEW k \in Customers PROVE RemindersOf(k, d)' = RemindersOf(k, d)
      <3>1. CASE k # l
        BY <1>4, <3>1 DEF RemindersOf
      <3>2. CASE k = l
        <4>1. /\ reminders[k] \in Seq(Members(reminders[k])) /\ reminders'[k] = Append(reminders[k], x)
          BY <1>3, <1>4, <3>2
        <4>2. /\ DOMAIN reminders[k] \subseteq DOMAIN reminders'[k]
              /\ \A j \in DOMAIN reminders[k] : reminders'[k][j] = reminders[k][j]
              /\ \A j \in DOMAIN reminders'[k] : j \in DOMAIN reminders[k] \/ reminders'[k][j] = x
          BY <4>1, Appended
        <4>3. {j \in DOMAIN reminders'[k] : reminders'[k][j].created = d}
                = {j \in DOMAIN reminders[k] : reminders[k][j].created = d}
          BY <2>1, <4>2
        <4> QED BY <4>3 DEF RemindersOf
      <3> QED BY <3>1, <3>2
    <2>3. Planned(d)' = Planned(d)
      BY <2>2 DEF Planned
    <2> QED BY <1>1, <1>7, <1>9, <2>3 DEF DayKept, Discovered, Drafted, SentOn, LostOn, D!Known
  <1> QED BY <1>6, <1>7, <1>8, <1>9 DEF DayInv

\* A draft is written.
LEMMA DraftStep ==
  ASSUME DayInv, NEW a \in D!Desks, D!create_draft(a)
  PROVE  DayInv' /\ \A d : DayOver(d) => DayKept(d)
  <1>1. /\ D!Finish(a) /\ D!Rest /\ UNCHANGED <<place, reminders, history, crowded>>
        /\ UNCHANGED today /\ hand[a].step = "drafted"
    BY DEF D!create_draft, D!At, D!Rest
  <1>2. PICK x : /\ x = [lead |-> hand[a].lead, state |-> "draft", by |-> D!Nobody,
                         created |-> hand[a].day, sent_at |-> 0]
                 /\ drafts' = Append(drafts, x)
    BY DEF D!create_draft
  <1>3. DraftLike(x) /\ x.created = hand[a].day /\ x.sent_at = 0 /\ x.state = "draft"
    BY <1>2 DEF DraftLike
  <1>4. /\ drafts' \in Seq(Members(drafts')) /\ DOMAIN drafts \subseteq DOMAIN drafts'
        /\ \A i \in DOMAIN drafts : drafts'[i] = drafts[i]
        /\ \A i \in DOMAIN drafts' : i \in DOMAIN drafts \/ drafts'[i] = x
    <2>1. drafts \in Seq(Members(drafts))
      BY DEF DayInv, BookInv
    <2>2. /\ Append(drafts, x) \in Seq(Members(Append(drafts, x)))
          /\ DOMAIN drafts \subseteq DOMAIN Append(drafts, x)
          /\ \A i \in DOMAIN drafts : Append(drafts, x)[i] = drafts[i]
          /\ \A i \in DOMAIN Append(drafts, x) : i \in DOMAIN drafts \/ Append(drafts, x)[i] = x
      BY <2>1, Appended
    <2> QED BY <1>2, <2>2
  <1>5. \A i \in DOMAIN drafts' : (i \in DOMAIN drafts /\ drafts'[i] = drafts[i]) \/ drafts'[i] = x
    BY <1>4
  <1>6. BookInv'
    <2>1. \A i \in DOMAIN drafts' : DraftLike(drafts'[i])
      BY <1>3, <1>5 DEF DayInv, BookInv
    <2> QED BY <1>1, <1>4, <2>1 DEF DayInv, BookInv, Members
  <1>7. /\ DeskInv' /\ New(hand'[a]) /\ hand'[a].draft = 0
        /\ \A b \in D!Desks : b # a => hand'[b] = hand[b]
        /\ RemindInv'
    BY <1>1, <1>6, WritesAndIsDone
  <1>8. hand'[a].step \notin NamedSteps /\ hand'[a].day = 0
    BY <1>7, NewIsTask
  <1>9. NamedInv'
    <2>1. \A i \in DOMAIN drafts' : drafts'[i].state # "draft" => drafts'[i].by # D!Nobody
      BY <1>3, <1>5 DEF DayInv, NamedInv
    <2>2. \A b \in D!Desks :
            /\ hand'[b].step = "approving"
                 => hand'[b].draft \in DOMAIN drafts' /\ hand'[b].word # D!Nobody
            /\ hand'[b].step \in {"sending", "sent"}
                 => hand'[b].draft \in DOMAIN drafts' /\ drafts'[hand'[b].draft].by # D!Nobody
      BY <1>4, <1>7, <1>8 DEF DayInv, NamedInv, NamedSteps
    <2> QED BY <2>1, <2>2 DEF NamedInv, D!Desks
  <1>10. ASSUME NEW d, DayOver(d) PROVE DayKept(d)
    <2>1. x.created # d /\ x.sent_at # d
      BY <1>3, <1>10 DEF DayOver, D!Settled
    <2>2. Drafted(d)' = Drafted(d) /\ SentOn(d)' = SentOn(d)
      BY <1>4, <1>5, <2>1 DEF Drafted, SentOn
    <2>3. D!Settled(d)'
      <3>1. \A b \in D!Desks : hand'[b].day # d
        BY <1>7, <1>8, <1>10 DEF DayOver, D!Settled
      <3>2. ASSUME NEW i \in DOMAIN drafts', drafts'[i].sent_at = d
            PROVE  /\ drafts'[i].state = "sent"
                   /\ \A b \in D!Desks : hand'[b].draft = i => hand'[b].step \notin NamedSteps
        <4>1. i \in DOMAIN drafts /\ drafts'[i] = drafts[i]
          BY <1>5, <2>1, <3>2
        <4> QED BY <1>7, <1>8, <1>10, <3>2, <4>1 DEF DayOver, D!Settled, NamedSteps
      <3> QED BY <3>1, <3>2 DEF D!Settled, NamedSteps, D!Desks
    <2> QED BY <1>1, <2>2, <2>3 DEF DayKept, Discovered, RemindersOf, Planned, LostOn, D!Known
  <1> QED BY <1>6, <1>7, <1>9, <1>10 DEF DayInv

\* A draft that is there gets another state, approver or day: what stays.
LEMMA DraftChanges ==
  ASSUME DayInv, NEW i \in DOMAIN drafts, NEW x, DraftLike(x), drafts' = [drafts EXCEPT ![i] = x],
         UNCHANGED <<today, place, reminders, history>>
  PROVE  /\ BookInv' /\ DOMAIN drafts' = DOMAIN drafts /\ drafts'[i] = x
         /\ \A j \in DOMAIN drafts : j # i => drafts'[j] = drafts[j]
  <1>1. drafts \in Seq(Members(drafts)) /\ \A j \in DOMAIN drafts : DraftLike(drafts[j])
    BY DEF DayInv, BookInv
  <1>2. PICK n \in Nat : DOMAIN drafts = 1 .. n
    BY <1>1
  <1>3. /\ DOMAIN drafts' = 1 .. n /\ drafts'[i] = x /\ drafts' = [j \in 1 .. n |-> drafts'[j]]
        /\ \A j \in DOMAIN drafts : j # i => drafts'[j] = drafts[j]
    BY <1>2
  <1>4. drafts' \in [1 .. n -> Members(drafts')]
    <2>1. \A j \in 1 .. n : drafts'[j] \in Members(drafts')
      BY <1>3 DEF Members
    <2>2. \A S : (\A j \in 1 .. n : drafts'[j] \in S) => [j \in 1 .. n |-> drafts'[j]] \in [1 .. n -> S]
      OBVIOUS
    <2> QED BY <1>3, <2>1, <2>2
  <1>5. drafts' \in Seq(Members(drafts'))
    <2>1. \A S : \A s \in [1 .. n -> S] : s \in Seq(S)
      OBVIOUS
    <2> QED BY <1>4, <2>1
  <1>6. \A j \in DOMAIN drafts' : DraftLike(drafts'[j])
    BY <1>1, <1>2, <1>3
  <1>7. BookInv'
    <2>1. BookInv
      BY DEF DayInv
    <2>2. \A l \in Customers : reminders'[l] = reminders[l] /\ Members(reminders[l])' = Members(reminders[l])
      BY DEF Members
    <2>3. Members(drafts)' = Members(drafts') /\ Members(history)' = Members(history)
      BY DEF Members
    <2> QED BY <1>5, <1>6, <2>1, <2>2, <2>3 DEF BookInv
  <1> QED BY <1>2, <1>3, <1>7

\* A draft that is not of day d has changed, and its desk is done with it.
LEMMA SettledElsewhere ==
  ASSUME NEW a \in D!Desks, NEW d, D!Settled(d), NEW i,
         hand'[a].day # d, hand'[a].step \notin NamedSteps,
         \A b \in D!Desks : b # a => hand'[b] = hand[b],
         DOMAIN drafts' = DOMAIN drafts, drafts'[i].sent_at # d,
         \A j \in DOMAIN drafts : j # i => drafts'[j] = drafts[j]
  PROVE  D!Settled(d)'
  <1>1. \A b \in D!Desks : hand'[b].day # d
    BY DEF D!Settled
  <1>2. ASSUME NEW j \in DOMAIN drafts, drafts'[j].sent_at = d
        PROVE  /\ drafts'[j].state = "sent"
               /\ \A b \in D!Desks : hand'[b].draft = j => hand'[b].step \notin NamedSteps
    <2>1. drafts'[j] = drafts[j] /\ drafts[j].sent_at = d
      BY <1>2
    <2> QED BY <2>1 DEF D!Settled, NamedSteps
  <1> QED BY <1>1, <1>2 DEF D!Settled, NamedSteps, D!Desks

\* An approval is written.
LEMMA ApproveStep ==
  ASSUME DayInv, NEW a \in D!Desks, D!Approve(a)
  PROVE  DayInv' /\ \A d : DayOver(d) => DayKept(d)
  <1> DEFINE i == hand[a].draft
  <1>1. /\ D!Finish(a) /\ D!Rest /\ UNCHANGED <<place, reminders, history, crowded>>
        /\ UNCHANGED today /\ hand[a].step = "approving"
    BY DEF D!Approve, D!At, D!Rest
  <1>2. i \in DOMAIN drafts /\ DraftLike(drafts[i]) /\ hand[a].word # D!Nobody
    BY <1>1 DEF DayInv, BookInv, NamedInv
  <1>3. PICK x : x = [drafts[i] EXCEPT !.state = "approved", !.by = hand[a].word]
    OBVIOUS
  <1>4. /\ DraftLike(x) /\ x.created = drafts[i].created /\ x.sent_at = drafts[i].sent_at
        /\ x.by # D!Nobody
    BY <1>2, <1>3 DEF DraftLike
  <1>5. drafts' = [drafts EXCEPT ![i] = x]
    BY <1>3 DEF D!Approve
  <1>6. /\ BookInv' /\ DOMAIN drafts' = DOMAIN drafts /\ drafts'[i] = x
        /\ \A j \in DOMAIN drafts : j # i => drafts'[j] = drafts[j]
    BY <1>1, <1>2, <1>4, <1>5, DraftChanges
  <1>7. /\ DeskInv' /\ New(hand'[a]) /\ hand'[a].draft = 0
        /\ \A b \in D!Desks : b # a => hand'[b] = hand[b]
        /\ RemindInv'
    BY <1>1, <1>6, WritesAndIsDone
  <1>8. hand'[a].step \notin NamedSteps /\ hand'[a].day = 0
    BY <1>7, NewIsTask
  <1>9. NamedInv'
    <2>1. \A j \in DOMAIN drafts' : drafts'[j].state # "draft" => drafts'[j].by # D!Nobody
      BY <1>4, <1>6 DEF DayInv, NamedInv
    <2>2. ASSUME NEW b \in D!Desks
          PROVE  /\ hand'[b].step = "approving"
                      => hand'[b].draft \in DOMAIN drafts' /\ hand'[b].word # D!Nobody
                 /\ hand'[b].step \in {"sending", "sent"}
                      => hand'[b].draft \in DOMAIN drafts' /\ drafts'[hand'[b].draft].by # D!Nobody
      <3>1. CASE b = a
        BY <1>8, <3>1 DEF NamedSteps
      <3>2. CASE b # a
        BY <1>4, <1>6, <1>7, <3>2 DEF DayInv, NamedInv
      <3> QED BY <3>1, <3>2
    <2> QED BY <2>1, <2>2 DEF NamedInv, D!Desks
  <1>10. ASSUME NEW d, DayOver(d) PROVE DayKept(d)
    <2>1. drafts[i].sent_at # d
      BY <1>1, <1>2, <1>10 DEF DayOver, D!Settled
    <2>2. Drafted(d)' = Drafted(d) /\ SentOn(d)' = SentOn(d)
      BY <1>4, <1>6 DEF Drafted, SentOn
    <2>3. D!Settled(d)'
      BY <1>6, <1>7, <1>8, <1>10, <2>1, <1>4, SettledElsewhere DEF DayOver
    <2> QED BY <1>1, <2>2, <2>3 DEF DayKept, Discovered, RemindersOf, Planned, LostOn, D!Known
  <1> QED BY <1>6, <1>7, <1>9, <1>10 DEF DayInv

\* A send is written, and the lead's reminder comes next.
LEMMA SendStep ==
  ASSUME DayInv, NEW a \in D!Desks, D!Send(a)
  PROVE  DayInv' /\ \A d : DayOver(d) => DayKept(d)
  <1> DEFINE i == hand[a].draft
  <1>1. /\ UNCHANGED <<place, reminders, history, crowded, today, todo>>
        /\ hand[a].step = "sent"
        /\ hand' = [hand EXCEPT ![a] = D!On("remind", drafts[i].lead)]
    BY DEF D!Send, D!At, D!Rest
  <1>2. i \in DOMAIN drafts /\ DraftLike(drafts[i]) /\ drafts[i].by # D!Nobody
    BY <1>1 DEF DayInv, BookInv, NamedInv
  <1>3. PICK x : x = [drafts[i] EXCEPT !.state = "sent", !.sent_at = hand[a].day]
    OBVIOUS
  <1>4. /\ DraftLike(x) /\ x.created = drafts[i].created /\ x.sent_at = hand[a].day
        /\ x.by # D!Nobody
    BY <1>2, <1>3 DEF DraftLike
  <1>5. drafts' = [drafts EXCEPT ![i] = x]
    BY <1>3 DEF D!Send
  <1>6. /\ BookInv' /\ DOMAIN drafts' = DOMAIN drafts /\ drafts'[i] = x
        /\ \A j \in DOMAIN drafts : j # i => drafts'[j] = drafts[j]
    BY <1>1, <1>2, <1>4, <1>5, DraftChanges
  <1>7. /\ DOMAIN hand' = D!Desks /\ New(hand'[a])
        /\ \A b \in D!Desks : b # a => hand'[b] = hand[b]
    <2>1. DOMAIN hand = D!Desks
      BY DEF DayInv, DeskInv
    <2>2. "remind" \in NewSteps
      BY DEF NewSteps
    <2>3. hand'[a] = D!On("remind", drafts[i].lead)
      BY <1>1, <2>1
    <2> QED BY <1>1, <2>1, <2>2, <2>3, TasksAreNew
  <1>8. hand'[a].step \notin NamedSteps /\ hand'[a].day = 0
    BY <1>7, NewIsTask
  <1>9. DeskInv' /\ RemindInv'
    BY <1>1, <1>6, <1>7, Writes
  <1>10. NamedInv'
    <2>1. \A j \in DOMAIN drafts' : drafts'[j].state # "draft" => drafts'[j].by # D!Nobody
      BY <1>4, <1>6 DEF DayInv, NamedInv
    <2>2. ASSUME NEW b \in D!Desks
          PROVE  /\ hand'[b].step = "approving"
                      => hand'[b].draft \in DOMAIN drafts' /\ hand'[b].word # D!Nobody
                 /\ hand'[b].step \in {"sending", "sent"}
                      => hand'[b].draft \in DOMAIN drafts' /\ drafts'[hand'[b].draft].by # D!Nobody
      <3>1. CASE b = a
        BY <1>8, <3>1 DEF NamedSteps
      <3>2. CASE b # a
        BY <1>4, <1>6, <1>7, <3>2 DEF DayInv, NamedInv
      <3> QED BY <3>1, <3>2
    <2> QED BY <2>1, <2>2 DEF NamedInv, D!Desks
  <1>11. ASSUME NEW d, DayOver(d) PROVE DayKept(d)
    <2>1. D!Settled(d) /\ d # 0
      BY <1>11 DEF DayOver
    <2>2. drafts[i].sent_at # d /\ x.sent_at # d
      BY <1>1, <1>2, <1>4, <2>1 DEF D!Settled
    <2>3. Drafted(d)' = Drafted(d) /\ SentOn(d)' = SentOn(d)
      BY <1>4, <1>6, <2>2 DEF Drafted, SentOn
    <2>4. D!Settled(d)'
      BY <1>6, <1>7, <1>8, <2>1, <2>2, SettledElsewhere
    <2> QED BY <1>1, <2>3, <2>4 DEF DayKept, Discovered, RemindersOf, Planned, LostOn, D!Known
  <1> QED BY <1>6, <1>9, <1>10, <1>11 DEF DayInv

\* A move is on record.
LEMMA LogStep ==
  ASSUME DayInv, NEW a \in D!Desks, D!LogMove(a)
  PROVE  DayInv' /\ \A d : DayOver(d) => DayKept(d)
  <1>1. /\ D!Finish(a) /\ D!Rest /\ UNCHANGED <<place, drafts, reminders, crowded>>
        /\ UNCHANGED today
    BY DEF D!LogMove, D!Rest
  <1>2. PICK x : /\ x = [lead |-> hand[a].lead, to |-> hand[a].word, day |-> hand[a].day]
                 /\ history' = Append(history, x)
    BY DEF D!LogMove
  <1>3. history \in Seq(Members(history))
    BY DEF DayInv, BookInv
  <1>4. /\ Append(history, x) \in Seq(Members(Append(history, x)))
        /\ DOMAIN history \subseteq DOMAIN Append(history, x)
        /\ \A i \in DOMAIN history : Append(history, x)[i] = history[i]
        /\ \A i \in DOMAIN Append(history, x) : i \in DOMAIN history \/ Append(history, x)[i] = x
    BY <1>3, Appended
  <1>5. BookInv'
    <2>1. BookInv /\ history' \in Seq(Members(history'))
      BY <1>2, <1>4 DEF DayInv
    <2> QED BY <1>1, <2>1 DEF BookInv, Members
  <1>6. DeskInv' /\ RemindInv' /\ NamedInv' /\ \A d : DayOver(d) => D!Settled(d)'
    BY <1>1, <1>5, WritesAndIsDone
  <1>7. ASSUME NEW d, DayOver(d) PROVE DayKept(d)
    <2>1. x.day # d
      BY <1>2, <1>7 DEF DayOver, D!Settled
    <2>2. LostOn(d)' = LostOn(d)
      BY <1>2, <1>4, <2>1 DEF LostOn
    <2> QED BY <1>1, <1>6, <1>7, <2>2
            DEF DayKept, Discovered, Drafted, SentOn, RemindersOf, Planned, D!Known
  <1> QED BY <1>5, <1>6, <1>7 DEF DayInv

\* The stages are closed under the moves, and "none" is not one.
LEMMA MovesLeadToStages ==
  ASSUME NEW s \in D!Stages
  PROVE  D!AllowedNext(s) \subseteq D!Stages
  BY DEF D!AllowedNext, D!Stages, D!Forward

LEMMA NoneIsNoStage == "none" \notin D!Stages
  BY DEF D!Stages, D!Forward

\* A lead comes, or moves: who was known is, and is of the same day.
LEMMA PlacesChange ==
  ASSUME DayInv, NEW l, NEW x \in Places, NEW d,
         \/ place' = place
         \/ place' = [place EXCEPT ![l] = x] /\
              \/ l \notin D!Known /\ x.created # d
              \/ l \in D!Known /\ x.stage # "none" /\ x.created = place[l].created
  PROVE  place' \in [Customers -> Places] /\ Discovered(d)' = Discovered(d)
  <1>1. place \in [Customers -> Places]
    BY DEF DayInv, BookInv
  <1>2. CASE place' = place
    BY <1>1, <1>2 DEF Discovered, D!Known
  <1>3. CASE l \notin Customers /\ place' = [place EXCEPT ![l] = x]
    <2>1. place' = place
      BY <1>1, <1>3
    <2> QED BY <1>2, <2>1
  <1>4. CASE l \in Customers /\ place' = [place EXCEPT ![l] = x]
    <2>1. /\ place' \in [Customers -> Places] /\ place'[l] = x
          /\ \A k \in Customers : k # l => place'[k] = place[k]
      BY <1>1, <1>4
    <2>2. CASE l \notin D!Known /\ x.created # d
      BY <1>4, <2>1, <2>2 DEF Discovered, D!Known
    <2>3. CASE l \in D!Known /\ x.stage # "none" /\ x.created = place[l].created
      BY <1>4, <2>1, <2>3 DEF Discovered, D!Known
    <2>4. CASE place' = place
      BY <1>2, <2>4
    <2> QED BY <2>1, <2>2, <2>3, <2>4
  <1> QED BY <1>2, <1>3, <1>4

\* A lead is written.
LEMMA LeadStep ==
  ASSUME DayInv, NEW a \in D!Desks, D!create_lead(a)
  PROVE  DayInv' /\ \A d : DayOver(d) => DayKept(d)
  <1>1. /\ D!Finish(a) /\ D!Rest /\ UNCHANGED <<drafts, reminders, history, crowded>>
        /\ UNCHANGED today
    BY DEF D!create_lead, D!Rest
  <1>2. PICK x : /\ x = [stage |-> "prospect", created |-> hand[a].day]
                 /\ place' = IF hand[a].lead \in D!Known THEN place
                             ELSE [place EXCEPT ![hand[a].lead] = x]
    BY DEF D!create_lead
  <1>3. x \in Places /\ x.created = hand[a].day
    <2>1. hand[a].day \in Nat
      BY DEF DayInv, DeskInv, TaskLike
    <2>2. "prospect" \in D!Stages
      BY DEF D!Stages, D!Forward
    <2> QED BY <1>2, <2>1, <2>2 DEF Places
  <1>4. \A d : d # hand[a].day => place' \in [Customers -> Places] /\ Discovered(d)' = Discovered(d)
    BY <1>2, <1>3, PlacesChange
  <1>5. BookInv'
    <2>1. BookInv /\ place' \in [Customers -> Places]
      BY <1>3, <1>4 DEF DayInv
    <2> QED BY <1>1, <2>1 DEF BookInv, Members
  <1>6. DeskInv' /\ RemindInv' /\ NamedInv' /\ \A d : DayOver(d) => D!Settled(d)'
    BY <1>1, <1>5, WritesAndIsDone
  <1>7. ASSUME NEW d, DayOver(d) PROVE DayKept(d)
    <2>1. d # hand[a].day
      BY <1>7 DEF DayOver, D!Settled
    <2> QED BY <1>1, <1>4, <1>6, <1>7, <2>1
            DEF DayKept, Drafted, SentOn, RemindersOf, Planned, LostOn
  <1> QED BY <1>5, <1>6, <1>7 DEF DayInv

\* A lead moves on.
LEMMA MoveStep ==
  ASSUME DayInv, NEW a \in D!Desks, D!move_stage(a)
  PROVE  DayInv' /\ \A d : DayOver(d) => DayKept(d)
  <1> DEFINE l == hand[a].lead
  <1>1. UNCHANGED <<drafts, reminders, history, crowded, today, todo>>
    BY DEF D!move_stage, D!Rest
  <1>2. DeskInv /\ today \in Nat \ {0}
    BY DEF DayInv, BookInv
  <1>3. CASE D!Finish(a) /\ UNCHANGED place
    <2>1. New(hand'[a]) /\ DOMAIN hand' = D!Desks /\ \A b \in D!Desks : b # a => hand'[b] = hand[b]
      BY <1>2, <1>3, Finishes
    <2>2. DeskInv'
      BY <1>1, <1>2, <2>1, NewIsTask, DesksStay
    <2> QED BY <1>1, <1>2, <1>3, <2>1, <2>2, HandMoves
  <1>4. CASE /\ l \in D!Known /\ hand[a].word \in D!AllowedNext(place[l].stage)
             /\ place' = [place EXCEPT ![l].stage = hand[a].word] /\ D!GoOn(a, "moving")
    <2>1. /\ DOMAIN hand' = D!Desks
          /\ TaskLike(hand'[a]) /\ hand'[a].step = "moving"
          /\ hand'[a].lead = hand[a].lead /\ hand'[a].draft = hand[a].draft
          /\ hand'[a].word = hand[a].word /\ hand'[a].day = hand[a].day
          /\ \A b \in D!Desks : b # a => hand'[b] = hand[b]
      BY <1>2, <1>4, GoesOn
    <2>2. l \in Customers /\ place \in [Customers -> Places] /\ place[l].stage \in D!Stages
      BY <1>4 DEF DayInv, BookInv, D!Known, Places
    <2>3. PICK x : x = [place[l] EXCEPT !.stage = hand[a].word]
      OBVIOUS
    <2>4. hand[a].word \in D!Stages /\ hand[a].word # "none"
      BY <1>4, <2>2, MovesLeadToStages, NoneIsNoStage
    <2>5. x \in Places /\ x.stage # "none" /\ x.created = place[l].created
      BY <2>2, <2>3, <2>4 DEF Places
    <2>6. place' = [place EXCEPT ![l] = x]
      BY <1>4, <2>3
    <2>7. \A d : place' \in [Customers -> Places] /\ Discovered(d)' = Discovered(d)
      BY <1>4, <2>5, <2>6, PlacesChange
    <2>8. DeskInv'
      BY <1>1, <1>2, <2>1, DesksStay
    <2>9. BookInv'
      <3>1. BookInv
        BY DEF DayInv
      <3> QED BY <1>1, <2>7, <3>1 DEF BookInv, Members
    <2>10. RemindInv'
      <3>1. \A b \in D!Desks : \A k : Planning(b, k)' => Planning(b, k)
        BY <2>1 DEF Planning
      <3> QED BY <1>1, <3>1 DEF DayInv, RemindInv
    <2>11. NamedInv'
      BY <1>1, <2>1 DEF DayInv, NamedInv
    <2>12. ASSUME NEW d, DayOver(d) PROVE DayKept(d)
      <3>1. D!Settled(d)'
        BY <1>1, <2>1, <2>12 DEF DayOver, D!Settled
      <3> QED BY <1>1, <2>7, <3>1 DEF DayKept, Drafted, SentOn, RemindersOf, Planned, LostOn
    <2> QED BY <2>8, <2>9, <2>10, <2>11, <2>12 DEF DayInv
  <1> QED BY <1>3, <1>4 DEF D!move_stage

\* A desk has a list of new tasks, which are in its hands or still to come.
LEMMA ListsChange ==
  ASSUME DeskInv, NEW a \in D!Desks, NEW n \in Nat, NEW s, s = [i \in 1 .. n |-> s[i]],
         \A i \in 1 .. n : New(s[i]), todo' = [todo EXCEPT ![a] = s],
         hand' = hand \/ \E t : New(t) /\ hand' = [hand EXCEPT ![a] = t]
  PROVE  /\ DeskInv' /\ DOMAIN hand' = D!Desks
         /\ \A b \in D!Desks : hand'[b] = hand[b] \/ New(hand'[b])
  <1>1. DOMAIN hand = D!Desks /\ DOMAIN todo = D!Desks
    BY DEF DeskInv
  <1>2. /\ DOMAIN hand' = D!Desks
        /\ \A b \in D!Desks : hand'[b] = hand[b] \/ New(hand'[b])
    BY <1>1
  <1>3. s \in Seq(Members(s)) /\ \A t \in Members(s) : New(t)
    BY ListOfNew
  <1>4. ASSUME NEW b \in D!Desks
        PROVE  todo'[b] \in Seq(Members(todo'[b])) /\ \A t \in Members(todo'[b]) : New(t)
    <2>1. todo'[b] = s \/ todo'[b] = todo[b]
      BY <1>1
    <2> QED BY <1>3, <2>1 DEF DeskInv
  <1>5. \A b \in D!Desks : TaskLike(hand'[b])
    BY <1>2, NewIsTask DEF DeskInv
  <1>6. DOMAIN todo' = D!Desks /\ D!Desks' = D!Desks
    BY <1>1 DEF D!Desks
  <1> QED BY <1>2, <1>4, <1>5, <1>6 DEF DeskInv

\* Nothing is written, and desk a gets a list.
LEMMA ListStep ==
  ASSUME DayInv, UNCHANGED <<today, place, drafts, reminders, history, crowded>>,
         NEW a \in D!Desks, NEW n \in Nat, NEW s, s = [i \in 1 .. n |-> s[i]],
         \A i \in 1 .. n : New(s[i]), todo' = [todo EXCEPT ![a] = s],
         hand' = hand \/ \E t : New(t) /\ hand' = [hand EXCEPT ![a] = t]
  PROVE  DayInv' /\ \A d : DayOver(d) => DayKept(d)
  <1>1. DeskInv /\ today \in Nat \ {0}
    BY DEF DayInv, BookInv
  <1>2. /\ DeskInv' /\ DOMAIN hand' = D!Desks
        /\ \A b \in D!Desks : hand'[b] = hand[b] \/ New(hand'[b])
    BY <1>1, ListsChange
  <1> QED BY <1>1, <1>2, HandMoves

\* A desk takes up the next task of its list.
LEMMA TakeStep ==
  ASSUME DayInv, NEW a \in D!Desks, D!Take(a)
  PROVE  DayInv' /\ \A d : DayOver(d) => DayKept(d)
  <1>1. /\ UNCHANGED <<today, place, drafts, reminders, history, crowded>>
        /\ todo[a] # <<>> /\ hand' = [hand EXCEPT ![a] = Head(todo[a])]
        /\ todo' = [todo EXCEPT ![a] = Tail(todo[a])]
    BY DEF D!Take, D!book
  <1>2. todo[a] \in Seq(Members(todo[a])) /\ \A t \in Members(todo[a]) : New(t)
    BY DEF DayInv, DeskInv
  <1>3. PICK n \in Nat : Len(todo[a]) = n + 1 /\ DOMAIN todo[a] = 1 .. n + 1
    <2>1. Len(todo[a]) \in Nat \ {0} /\ DOMAIN todo[a] = 1 .. Len(todo[a])
      BY <1>1, <1>2
    <2>2. Len(todo[a]) - 1 \in Nat /\ Len(todo[a]) = (Len(todo[a]) - 1) + 1
      BY <2>1
    <2> QED BY <2>1, <2>2
  <1>4. Tail(todo[a]) = [i \in 1 .. n |-> Tail(todo[a])[i]]
    BY <1>1, <1>2, <1>3
  <1>5. \A i \in 1 .. n : New(Tail(todo[a])[i])
    BY <1>1, <1>2, <1>3
  <1>6. New(Head(todo[a]))
    BY <1>1, <1>2
  <1> QED BY <1>1, <1>4, <1>5, <1>6, ListStep

\* A pass lists what it is for.
LEMMA BeginStep ==
  ASSUME DayInv, NEW step \in NewSteps, NEW listed, IsFiniteSet(listed), D!Begin(step, listed)
  PROVE  DayInv' /\ \A d : DayOver(d) => DayKept(d)
  <1>1. PICK s : s = [i \in 1 .. D!Cardinality(listed) |->
                        D!Task(step, D!Lists!SetToSeq(listed)[i], 0, "contacted")]
    OBVIOUS
  <1>2. D!Cardinality(listed) \in Nat
    BY FS_CardinalityType DEF D!Cardinality, Cardinality
  <1>3. /\ UNCHANGED <<today, place, drafts, reminders, history, crowded, hand>>
        /\ todo' = [todo EXCEPT !["daily"] = s]
    BY <1>1 DEF D!Begin, D!book
  <1>4. \A i \in 1 .. D!Cardinality(listed) : New(s[i])
    BY <1>1, TasksAreNew
  <1>5. "daily" \in D!Desks
    BY DEF D!Desks
  <1> HIDE DEF D!Cardinality
  <1>6. PICK n \in Nat : n = D!Cardinality(listed)
    BY <1>2
  <1>7. s = [i \in 1 .. n |-> s[i]] /\ \A i \in 1 .. n : New(s[i])
    BY <1>1, <1>4, <1>6
  <1> QED BY <1>3, <1>5, <1>7, ListStep

\* A command is given to a desk.
LEMMA GiveStep ==
  ASSUME DayInv, NEW a \in D!Desks, NEW t, New(t), D!Give(a, t)
  PROVE  DayInv' /\ \A d : DayOver(d) => DayKept(d)
  <1>1. /\ UNCHANGED <<today, place, drafts, reminders, history, crowded, todo>>
        /\ hand' = [hand EXCEPT ![a] = t]
    BY DEF D!Give, D!book
  <1>2. DeskInv /\ today \in Nat \ {0}
    BY DEF DayInv, BookInv
  <1>3. DOMAIN hand' = D!Desks /\ hand'[a] = t /\ \A b \in D!Desks : b # a => hand'[b] = hand[b]
    BY <1>1, <1>2 DEF DeskInv
  <1>4. DeskInv'
    BY <1>1, <1>2, <1>3, NewIsTask, DesksStay
  <1> QED BY <1>1, <1>2, <1>3, <1>4, HandMoves

\* A bulk send lists drafts.
LEMMA BulkStep ==
  ASSUME DayInv, NEW a \in D!Desks, NEW max, D!SalesBulkSendTool(a, max)
  PROVE  DayInv' /\ \A d : DayOver(d) => DayKept(d)
  <1>1. UNCHANGED <<today, place, drafts, reminders, history, crowded, hand>>
    BY DEF D!SalesBulkSendTool, D!book
  <1>2. PICK approved : \E n \in 0 .. max :
          todo' = [todo EXCEPT ![a] = [i \in 1 .. n |-> D!Sending(approved[i])]]
    BY DEF D!SalesBulkSendTool
  <1>5. PICK n \in 0 .. max :
          todo' = [todo EXCEPT ![a] = [i \in 1 .. n |-> D!Sending(approved[i])]]
    BY <1>2
  <1>3. PICK s : s = [i \in 1 .. n |-> D!Sending(approved[i])]
    OBVIOUS
  <1>4. n \in Nat /\ s = [i \in 1 .. n |-> s[i]] /\ \A i \in 1 .. n : New(s[i])
    BY <1>3, TasksAreNew
  <1> QED BY <1>1, <1>3, <1>4, <1>5, ListStep

\* A process is gone, or a pass.
LEMMA LeaveStep ==
  ASSUME DayInv, NEW a \in D!Desks, UNCHANGED <<today, place, drafts, reminders, history, crowded>>,
         hand' = [hand EXCEPT ![a] = D!Idle], todo' = [todo EXCEPT ![a] = <<>>]
  PROVE  DayInv' /\ \A d : DayOver(d) => DayKept(d)
  <1>1. PICK s : s = <<>>
    OBVIOUS
  <1>2. 0 \in Nat /\ s = [i \in 1 .. 0 |-> s[i]] /\ \A i \in 1 .. 0 : New(s[i])
    BY <1>1
  <1> QED BY <1>1, <1>2, TasksAreNew, ListStep

\* Whatever a desk does at its task.
LEMMA ProceedStep ==
  ASSUME DayInv, NEW a \in D!Desks, D!Proceed(a)
  PROVE  DayInv' /\ \A d : DayOver(d) => DayKept(d)
  BY TakeStep, ClockStep, LookStep, ReminderStep, DraftStep, LeadStep, MoveStep, LogStep,
     DraftLookStep, ApproveStep, SendStep
     DEF D!Proceed

\* Whatever is asked of it.
LEMMA CommandStep ==
  ASSUME DayInv, NEW a \in Sellers, D!Command(a)
  PROVE  DayInv' /\ \A d : DayOver(d) => DayKept(d)
  <1>1. a \in D!Desks
    BY DEF D!Desks
  <1>2. "draft" \in NewSteps /\ "remind" \in NewSteps /\ "move" \in NewSteps /\ "approve" \in NewSteps
    BY DEF NewSteps
  <1>3. ASSUME NEW l, D!cmd_outreach_draft(a, l) \/ D!cmd_followups_schedule(a, l)
        PROVE  DayInv' /\ \A d : DayOver(d) => DayKept(d)
    BY <1>1, <1>2, <1>3, GiveStep, TasksAreNew DEF D!cmd_outreach_draft, D!cmd_followups_schedule
  <1>4. ASSUME NEW l, NEW to, D!Moved(a, l, to)
        PROVE  DayInv' /\ \A d : DayOver(d) => DayKept(d)
    BY <1>1, <1>2, <1>4, GiveStep, TasksAreNew DEF D!Moved
  <1>5. ASSUME NEW i, NEW by, D!cmd_outreach_approve(a, i, by)
        PROVE  DayInv' /\ \A d : DayOver(d) => DayKept(d)
    BY <1>1, <1>2, <1>5, GiveStep, TasksAreNew DEF D!cmd_outreach_approve
  <1>6. ASSUME NEW i, D!cmd_outreach_send(a, i)
        PROVE  DayInv' /\ \A d : DayOver(d) => DayKept(d)
    BY <1>1, <1>6, GiveStep, TasksAreNew DEF D!cmd_outreach_send
  <1>7. ASSUME NEW max, D!SalesBulkSendTool(a, max)
        PROVE  DayInv' /\ \A d : DayOver(d) => DayKept(d)
    BY <1>1, <1>7, BulkStep
  <1> QED BY <1>3, <1>4, <1>5, <1>6, <1>7
          DEF D!Command, D!SalesApproveDraftTool, D!SalesRecordSentTool, D!cmd_outreach_send_pending

LEMMA DayStep ==
  ASSUME DayInv, D!DailyAssumption, [D!Next]_(D!dayVars)
  PROVE  DayInv' /\ \A d : DayOver(d) => DayKept(d)
  <1>1. IsFiniteSet(Customers) /\ "daily" \in D!Desks
    BY DEF D!DailyAssumption, D!IsFiniteSet, IsFiniteSet, D!Desks
  <1>2. DeskInv /\ today \in Nat \ {0}
    BY DEF DayInv, BookInv
  <1>3. ASSUME UNCHANGED <<place, drafts, reminders, history, crowded, hand, todo>>,
               today' = today \/ today' = today + 1
        PROVE  DayInv' /\ \A d : DayOver(d) => DayKept(d)
    <2>1. DOMAIN hand' = D!Desks /\ \A a \in D!Desks : hand'[a] = hand[a]
      BY <1>2, <1>3 DEF DeskInv
    <2>2. \A a \in D!Desks : Members(todo[a])' = Members(todo[a])
      BY <1>3 DEF Members
    <2>3. DeskInv'
      BY <1>2, <1>3, <2>1, <2>2 DEF DeskInv, D!Desks
    <2> QED BY <1>2, <1>3, <2>1, <2>3, HandMoves
  <1>4. CASE UNCHANGED D!dayVars
    BY <1>3, <1>4 DEF D!dayVars
  <1>5. CASE D!cmd_daily_run
    BY <1>3, <1>5 DEF D!cmd_daily_run, D!book
  <1>6. ASSUME NEW step \in NewSteps, NEW listed, listed \subseteq Customers, D!Begin(step, listed)
        PROVE  DayInv' /\ \A d : DayOver(d) => DayKept(d)
    <2>1. IsFiniteSet(listed)
      BY <1>1, <1>6, FS_Subset
    <2> QED BY <1>6, <2>1, BeginStep
  <1>7. CASE \/ D!ResearchPass \/ D!SalesDraftOutreachTool \/ D!SalesScheduleFollowupTool
             \/ D!SalesMoveStageTool \/ D!Report
    <2>1. /\ "discover" \in NewSteps /\ "draft" \in NewSteps /\ "remind" \in NewSteps
          /\ "move" \in NewSteps /\ "report" \in NewSteps
      BY DEF NewSteps
    <2>2. D!Known \subseteq Customers /\ {} \subseteq Customers
      BY DEF D!Known
    <2>3. CASE D!ResearchPass
      <3>1. PICK fresh \in SUBSET (Customers \ D!Known) : D!Begin("discover", fresh)
        BY <2>3 DEF D!ResearchPass
      <3> QED BY <1>6, <2>1, <3>1
    <2> QED BY <1>6, <1>7, <2>1, <2>2, <2>3
            DEF D!SalesDraftOutreachTool, D!SalesScheduleFollowupTool, D!SalesMoveStageTool,
                D!Report
  <1>8. CASE D!PassFails
    <2>1. /\ UNCHANGED <<today, place, drafts, reminders, history, crowded>>
          /\ hand' = [hand EXCEPT !["daily"] = D!Idle]
          /\ todo' = [todo EXCEPT !["daily"] = <<>>]
      BY <1>8 DEF D!PassFails, D!book
    <2> QED BY <1>1, <2>1, LeaveStep
  <1>9. ASSUME NEW a \in D!Desks, D!Die(a)
        PROVE  DayInv' /\ \A d : DayOver(d) => DayKept(d)
    <2>1. /\ UNCHANGED <<today, place, drafts, reminders, history, crowded>>
          /\ hand' = [hand EXCEPT ![a] = D!Idle]
          /\ todo' = [todo EXCEPT ![a] = <<>>]
      BY <1>9 DEF D!Die, D!book
    <2> QED BY <2>1, LeaveStep
  <1>10. CASE D!Midnight
    BY <1>3, <1>10 DEF D!Midnight, D!book, D!desk
  <1> QED BY <1>4, <1>5, <1>7, <1>8, <1>9, <1>10, ProceedStep, CommandStep DEF D!Next

\* "re-running the daily procedure must not multiply reminders": a lead has one open
\* follow-up at most (followup.py: schedule_for_lead looks for an open one and then writes
\* one), for any number of leads, desks, days, commands and failures, unless two desks were
\* between their look and their write for that lead at once.
THEOREM OneReminderEach ==
  ASSUME D!DailyAssumption
  PROVE  D!DailySpec => []D!RemindersDoNotMultiply
  <1>1. DayInv => D!RemindersDoNotMultiply
    BY DEF DayInv, RemindInv, D!RemindersDoNotMultiply
  <1>2. DayInv /\ [D!Next]_(D!dayVars) => DayInv'
    BY DayStep
  <1> QED BY <1>1, <1>2, DayInit, PTL DEF D!DailySpec

\* The shipped check of the drafts passes in the middle of a daily run and of a bulk send,
\* after a pass that failed and after a death, with approvals and sends racing (checks.py:
\* sales_outreach_approved_first), unless an approver's name was blank.
THEOREM ShippedCheckHolds ==
  ASSUME D!DailyAssumption
  PROVE  D!DailySpec => []D!ShippedCheckPasses
  <1>1. DayInv => D!ShippedCheckPasses
    <2> SUFFICES ASSUME DayInv, NEW i \in DOMAIN drafts, drafts[i].state = "sent",
                        \A j \in DOMAIN drafts : drafts[j].by # " "
                 PROVE  D!Trim(drafts[i].by) # D!Nobody
      BY DEF D!ShippedCheckPasses, D!sales_outreach_approved_first
    <2>1. drafts[i].by # D!Nobody /\ drafts[i].by # " "
      BY DEF DayInv, NamedInv
    <2> QED BY <2>1 DEF D!Trim
  <1>2. DayInv /\ [D!Next]_(D!dayVars) => DayInv'
    BY DayStep
  <1> QED BY <1>1, <1>2, DayInit, PTL DEF D!DailySpec

\* "re-derivable": a day that is over and has nothing under way - no row that was given its
\* date, no draft sent on it that is being approved or sent again - counts the same from
\* then on (metrics.py: daily_counts), whatever the daily run and the others do later.
THEOREM PastDaysStay ==
  ASSUME D!DailyAssumption
  PROVE  D!DailySpec => [][D!OverIsOver]_(D!dayVars)
  <1>1. DayInv /\ [D!Next]_(D!dayVars) => [D!OverIsOver]_(D!dayVars)
    <2> SUFFICES ASSUME DayInv, [D!Next]_(D!dayVars), NEW d \in 1 .. MaxDays, d < today,
                        D!Settled(d)
                 PROVE  D!Settled(d)' /\ D!daily_counts(d)' = D!daily_counts(d)
      BY DEF D!OverIsOver, D!sales_metrics_match_ledger
    <2>1. DayOver(d)
      BY DEF DayOver
    <2>2. DayKept(d)
      BY <2>1, DayStep
    <2>3. D!daily_counts(d) =
            [leads_discovered |-> D!Cardinality(Discovered(d)),
             outreach_drafted |-> D!Cardinality(Drafted(d)),
             outreach_sent |-> D!Cardinality(SentOn(d)),
             followups_scheduled |-> D!Cardinality(Planned(d)),
             lost |-> D!Cardinality(LostOn(d))]
      BY DEF D!daily_counts, D!Sent, D!Moves, Discovered, Drafted, SentOn, Planned, RemindersOf,
             LostOn
    <2>4. D!daily_counts(d)' =
            [leads_discovered |-> D!Cardinality(Discovered(d)'),
             outreach_drafted |-> D!Cardinality(Drafted(d)'),
             outreach_sent |-> D!Cardinality(SentOn(d)'),
             followups_scheduled |-> D!Cardinality(Planned(d)'),
             lost |-> D!Cardinality(LostOn(d)')]
      BY DEF D!daily_counts, D!Sent, D!Moves, Discovered, Drafted, SentOn, Planned, RemindersOf,
             LostOn
    <2> QED BY <2>2, <2>3, <2>4 DEF DayKept
  <1>2. DayInv /\ [D!Next]_(D!dayVars) => DayInv'
    BY DayStep
  <1> QED BY <1>1, <1>2, DayInit, PTL DEF D!DailySpec
-----------------------------------------------------------------------------
(***************************************************************************)
(* The knowledge index.                                                    *)
(***************************************************************************)
Jobs == [does : {"idle", "compile", "rebuild"}, found : SUBSET K!Documents,
         left : SUBSET K!Documents, got : [K!Documents -> Nat]]

\* What a version that was made before an edit can be.
Versions == {v \in Int : v <= edits + 1 /\ -v <= edits + 1}

\* Versions are numbered by the edits, so a new one is none that was ever seen.
IndexRanges ==
  /\ corpus \in [K!Documents -> Versions] /\ access \in [K!Documents -> {"open", "locked", "reopened"}]
  /\ index \in [K!Documents -> Nat]
  /\ job \in [K!Compilers -> Jobs]
  /\ edits \in Nat /\ jobs \in Nat
  /\ \/ seen = K!NotWatching /\ job["watcher"] = K!Idle /\ outcome # "ok"
     \/ seen \in [K!Documents -> Versions]

\* A document that can be ingested, as the watcher last saw it.
AsSeen(d) == corpus[d] > 0 /\ access[d] = "open" /\ corpus[d] = seen[d]

\* With the watcher alone at work: a markdown document that is as it was seen when a
\* compile began is still to be read or was read as it is, and after a compile that went
\* well it is in the index as it is.
IndexInv ==
  /\ IndexRanges
  /\ jobs = 0 =>
       /\ \A c \in Commands : job[c] = K!Idle
       /\ \/ job["watcher"] = K!Idle
          \/ /\ job["watcher"].does = "compile" /\ outcome # "ok"
             /\ \A d \in Markdown :
                  AsSeen(d) => d \in job["watcher"].left \/ job["watcher"].got[d] = corpus[d]
       /\ outcome = "ok" => \A d \in Markdown : AsSeen(d) => index[d] = corpus[d]

LEMMA IndexInit == K!KnowInit => IndexInv
  <1> SUFFICES ASSUME K!KnowInit PROVE IndexInv
    OBVIOUS
  <1>1. /\ corpus \in [K!Documents -> {0, 1, -1}] /\ access = [d \in K!Documents |-> "open"]
        /\ index = K!Nothing
        /\ job = [c \in K!Compilers |-> K!Idle] /\ seen = K!NotWatching /\ outcome = "none"
        /\ edits = 0 /\ jobs = 0
    BY DEF K!KnowInit
  <1>2. K!Nothing \in [K!Documents -> Nat] /\ K!Idle \in Jobs
    BY DEF K!Nothing, K!Idle, Jobs
  <1>3. "watcher" \in K!Compilers /\ Commands \subseteq K!Compilers
    BY DEF K!Compilers
  <1>4. /\ job["watcher"] = K!Idle /\ job \in [K!Compilers -> Jobs]
        /\ \A c \in Commands : job[c] = K!Idle
    BY <1>1, <1>2, <1>3
  <1>5. corpus \in [K!Documents -> Versions]
    <2>1. {0, 1, -1} \subseteq Versions
      BY <1>1 DEF Versions
    <2> QED BY <1>1, <2>1
  <1> QED BY <1>1, <1>2, <1>4, <1>5 DEF IndexInv, IndexRanges

\* What a compile starts with.
LEMMA CompileIsJob ==
  ASSUME IndexRanges
  PROVE  /\ K!Compile \in Jobs /\ K!Compile.does = "compile" /\ K!Idle \in Jobs
         /\ \A d \in K!Documents : corpus[d] > 0 /\ access[d] = "open" => d \in K!Compile.left
  BY DEF IndexRanges, Versions, K!Compile, K!Collected, K!Readable, Jobs, K!Idle, K!Nothing

\* A document read leaves the list, with what it was read as.
LEMMA ReadIsJob ==
  ASSUME IndexRanges, NEW c \in K!Compilers, NEW d \in K!Documents, K!Read(c, d)
  PROVE  /\ job' \in [K!Compilers -> Jobs] /\ \A b \in K!Compilers \ {c} : job'[b] = job[b]
         /\ job'[c].does = "compile" /\ job'[c].left = job[c].left \ {d}
         /\ d \in Markdown /\ K!Readable(d) => job'[c].got[d] = corpus[d]
         /\ \A e \in K!Documents \ {d} : job'[c].got[e] = job[c].got[e]
  <1> DEFINE g == [job[c].got EXCEPT ![d] = IF d \in Markdown
                                            THEN IF K!Readable(d) THEN corpus[d] ELSE 0
                                            ELSE IF dir THEN @ ELSE 0]
             j == [job[c] EXCEPT !.left = @ \ {d}, !.got = g]
  <1>1. job' = [job EXCEPT ![c] = j]
    BY DEF K!Read
  <1>2. job[c] \in Jobs /\ job[c].does = "compile"
    BY DEF IndexRanges, K!Read
  <1>3. g \in [K!Documents -> Nat]
    BY <1>2 DEF Jobs, IndexRanges, Versions, K!Readable
  <1>4. /\ d \in Markdown /\ K!Readable(d) => g[d] = corpus[d]
        /\ \A e \in K!Documents \ {d} : g[e] = job[c].got[e]
    BY <1>2 DEF Jobs
  <1> HIDE DEF g
  <1>5. j \in Jobs /\ j.does = "compile" /\ j.left = job[c].left \ {d} /\ j.got = g
    BY <1>2, <1>3 DEF Jobs
  <1> HIDE DEF j
  <1>6. /\ job' \in [K!Compilers -> Jobs] /\ job'[c] = j
        /\ \A b \in K!Compilers \ {c} : job'[b] = job[b]
    BY <1>1, <1>5 DEF IndexRanges
  <1> QED BY <1>4, <1>5, <1>6

\* Whatever is written and read meanwhile, what the watcher has of a document that is still
\* as it saw it stays its version.
LEMMA IndexStep ==
  K!KnowledgeAssumption /\ IndexInv /\ [K!KnowNext]_(K!knowVars) => IndexInv'
  <1> SUFFICES ASSUME K!KnowledgeAssumption, IndexInv, [K!KnowNext]_(K!knowVars) PROVE IndexInv'
    OBVIOUS
  <1>0. edits' = edits => Versions' = Versions
    BY DEF Versions
  <1>1. /\ IndexRanges
        /\ corpus \in [K!Documents -> Versions]
        /\ access \in [K!Documents -> {"open", "locked", "reopened"}] /\ index \in [K!Documents -> Nat]
        /\ job \in [K!Compilers -> Jobs] /\ edits \in Nat /\ jobs \in Nat
    BY DEF IndexInv, IndexRanges
  <1>2. /\ "watcher" \in K!Compilers /\ "watcher" \notin Commands /\ Commands \subseteq K!Compilers
        /\ Markdown \subseteq K!Documents
    BY DEF K!Compilers, K!Documents, K!KnowledgeAssumption
  <1>3. K!Idle.does = "idle" /\ K!Idle \in Jobs
    BY <1>1, CompileIsJob DEF K!Idle
  <1>4. CASE UNCHANGED K!knowVars
    BY <1>4 DEF K!knowVars, IndexInv, IndexRanges, Versions, AsSeen
  <1>5. ASSUME NEW d \in K!Documents, K!Edit(d) PROVE IndexInv'
    <2>1. PICK v \in {0, edits + 2, -(edits + 2)} : corpus' = [corpus EXCEPT ![d] = v]
      BY <1>5 DEF K!Edit
    <2>2. /\ edits' = edits + 1 /\ UNCHANGED <<dir, index, job, seen, outcome, quiet, jobs>>
          /\ access' = [access EXCEPT ![d] = "open"]
      BY <1>5 DEF K!Edit
    <2>3. /\ Versions \subseteq Versions' /\ v \in Versions'
          /\ v \in Versions => v = 0
      BY <1>1, <2>1, <2>2 DEF Versions
    <2>4. /\ corpus' \in [K!Documents -> Versions'] /\ corpus'[d] = v
          /\ \A e \in K!Documents \ {d} : corpus'[e] = corpus[e] /\ access'[e] = access[e]
      BY <1>1, <2>1, <2>2, <2>3
    <2>5. \/ seen = K!NotWatching /\ job["watcher"] = K!Idle /\ outcome # "ok"
          \/ seen \in [K!Documents -> Versions]
      BY <1>1 DEF IndexRanges
    <2>6. IndexRanges'
      <3>1. seen \in [K!Documents -> Versions] => seen' \in [K!Documents -> Versions']
        BY <2>2, <2>3
      <3>2. access' \in [K!Documents -> {"open", "locked", "reopened"}]
        BY <1>1, <2>2
      <3> QED BY <1>1, <2>2, <2>4, <2>5, <3>1, <3>2 DEF IndexRanges
    <2>7. CASE seen \in [K!Documents -> Versions]
      <3>1. \A e \in Markdown : AsSeen(e)' => AsSeen(e) /\ corpus'[e] = corpus[e]
        <4> SUFFICES ASSUME NEW e \in Markdown, AsSeen(e)' PROVE AsSeen(e) /\ corpus'[e] = corpus[e]
          OBVIOUS
        <4>1. corpus'[e] > 0 /\ corpus'[e] = seen[e] /\ e \in K!Documents /\ access'[e] = "open"
          BY <1>2, <2>2 DEF AsSeen
        <4>2. e # d
          BY <2>3, <2>4, <2>7, <4>1
        <4> QED BY <2>4, <4>1, <4>2 DEF AsSeen
      <3> QED BY <2>2, <2>6, <3>1 DEF IndexInv
    <2>8. CASE seen = K!NotWatching /\ job["watcher"] = K!Idle /\ outcome # "ok"
      BY <2>2, <2>6, <2>8 DEF IndexInv
    <2> QED BY <2>5, <2>7, <2>8
  <1>14. ASSUME NEW d \in K!Documents, K!Chmod(d) PROVE IndexInv'
    <2>1. /\ edits' = edits + 1 /\ UNCHANGED <<corpus, index, job, seen, outcome, jobs>>
          /\ access' = [access EXCEPT ![d] = IF @ = "locked" THEN "reopened" ELSE "locked"]
      BY <1>14 DEF K!Chmod
    <2>2. Versions \subseteq Versions'
      BY <1>1, <2>1 DEF Versions
    <2>3. /\ access' \in [K!Documents -> {"open", "locked", "reopened"}] /\ access'[d] # "open"
          /\ \A e \in K!Documents \ {d} : access'[e] = access[e]
      BY <1>1, <2>1
    <2>4. IndexRanges'
      BY <1>0, <1>1, <2>1, <2>2, <2>3 DEF IndexRanges
    <2>5. \A e \in Markdown : AsSeen(e)' => AsSeen(e)
      BY <1>2, <2>1, <2>3 DEF AsSeen
    <2> QED BY <2>1, <2>4, <2>5 DEF IndexInv
  <1>6. ASSUME NEW c \in Commands, K!Begin(c) \/ K!Rebuild(c) PROVE IndexInv'
    <2>1. /\ jobs' = jobs + 1 /\ UNCHANGED <<corpus, access, seen, outcome, edits>>
          /\ index' = index \/ index' = K!Nothing
          /\ \/ job' = [job EXCEPT ![c] = K!Compile]
             \/ job' = [job EXCEPT ![c] = [K!Idle EXCEPT !.does = "rebuild"]]
      BY <1>6 DEF K!Begin, K!Rebuild
    <2>2. K!Compile \in Jobs /\ [K!Idle EXCEPT !.does = "rebuild"] \in Jobs
      BY <1>1, CompileIsJob DEF Jobs
    <2>3. K!Nothing \in [K!Documents -> Nat]
      BY DEF K!Nothing
    <2>4. job' \in [K!Compilers -> Jobs] /\ job'["watcher"] = job["watcher"]
      BY <1>1, <1>2, <2>1, <2>2
    <2>5. jobs' # 0 /\ jobs' \in Nat
      BY <1>1, <2>1
    <2>6. IndexRanges'
      BY <1>0, <1>1, <2>1, <2>3, <2>4, <2>5 DEF IndexRanges
    <2> QED BY <2>5, <2>6 DEF IndexInv
  <1>7. CASE K!Watch
    <2>1. seen = K!NotWatching /\ seen' = corpus
          /\ UNCHANGED <<corpus, access, index, job, outcome, edits, jobs>>
      BY <1>7 DEF K!Watch
    <2>2. IndexRanges'
      BY <1>0, <1>1, <2>1 DEF IndexRanges
    <2>3. (job["watcher"] = K!Idle /\ outcome # "ok") \/ K!NotWatching \in [K!Documents -> Versions]
      BY <1>1, <2>1 DEF IndexRanges
    <2>4. K!NotWatching \in [K!Documents -> Versions] => Markdown = {}
      <3>1. DOMAIN K!NotWatching = {}
        BY DEF K!NotWatching
      <3> QED BY <1>2, <3>1
    <2> QED BY <2>1, <2>2, <2>3, <2>4 DEF IndexInv
  <1>8. CASE K!Poll
    <2>1. /\ seen' = corpus /\ job' = [job EXCEPT !["watcher"] = K!Compile] /\ outcome' = "none"
          /\ UNCHANGED <<corpus, access, index, edits, jobs>>
      BY <1>8 DEF K!Poll, K!Snapshot
    <2>2. /\ K!Compile \in Jobs /\ K!Compile.does = "compile"
          /\ \A d \in K!Documents : corpus[d] > 0 /\ access[d] = "open" => d \in K!Compile.left
      BY <1>1, CompileIsJob
    <2>3. /\ job' \in [K!Compilers -> Jobs] /\ job'["watcher"] = K!Compile
          /\ \A c \in Commands : job'[c] = job[c]
      BY <1>1, <1>2, <2>1, <2>2
    <2>4. IndexRanges'
      BY <1>0, <1>1, <2>1, <2>3 DEF IndexRanges
    <2>5. \A d \in Markdown : AsSeen(d)' => d \in job'["watcher"].left
      BY <1>2, <2>1, <2>2, <2>3 DEF AsSeen
    <2> QED BY <2>1, <2>2, <2>3, <2>4, <2>5 DEF IndexInv
  <1>9. CASE K!PollQuiet
    BY <1>9 DEF K!PollQuiet, IndexInv, IndexRanges, Versions, AsSeen
  <1>10. ASSUME NEW c \in K!Compilers, K!Recompile(c) PROVE IndexInv'
    <2>1. /\ job[c].does = "rebuild" /\ job' = [job EXCEPT ![c] = K!Compile]
          /\ UNCHANGED <<corpus, access, index, seen, outcome, edits, jobs>>
      BY <1>10 DEF K!Recompile
    <2>2. jobs # 0
      BY <1>3, <2>1 DEF IndexInv, K!Compilers
    <2>3. job' \in [K!Compilers -> Jobs]
      BY <1>1, <2>1, CompileIsJob
    <2>4. job["watcher"] = K!Idle => job'["watcher"] = K!Idle
      BY <1>1, <1>2, <1>3, <2>1
    <2>5. IndexRanges'
      BY <1>0, <1>1, <2>1, <2>3, <2>4 DEF IndexRanges
    <2> QED BY <2>1, <2>2, <2>5 DEF IndexInv
  <1>11. ASSUME NEW c \in K!Compilers, NEW d \in K!Documents, K!Read(c, d) PROVE IndexInv'
    <2>1. /\ job' \in [K!Compilers -> Jobs] /\ \A b \in K!Compilers \ {c} : job'[b] = job[b]
          /\ job'[c].does = "compile" /\ job'[c].left = job[c].left \ {d}
          /\ d \in Markdown /\ K!Readable(d) => job'[c].got[d] = corpus[d]
          /\ \A e \in K!Documents \ {d} : job'[c].got[e] = job[c].got[e]
      BY <1>1, <1>11, ReadIsJob
    <2>2. /\ job[c].does = "compile" /\ UNCHANGED <<corpus, access, index, seen, outcome, edits, jobs>>
      BY <1>11 DEF K!Read
    <2>3. job["watcher"] = K!Idle => job'["watcher"] = K!Idle
      BY <1>2, <1>3, <2>1, <2>2
    <2>4. IndexRanges'
      BY <1>0, <1>1, <2>1, <2>2, <2>3 DEF IndexRanges
    <2>5. CASE c = "watcher"
      <3>1. jobs = 0 => /\ outcome # "ok"
                        /\ \A e \in Markdown : AsSeen(e) =>
                             e \in job["watcher"].left \/ job["watcher"].got[e] = corpus[e]
        BY <1>3, <2>2, <2>5 DEF IndexInv
      <3>2. jobs = 0 => \A e \in Markdown : AsSeen(e) =>
                             e \in job'["watcher"].left \/ job'["watcher"].got[e] = corpus[e]
        BY <1>2, <2>1, <2>5, <3>1 DEF AsSeen, K!Readable
      <3>3. \A b \in Commands : job'[b] = job[b]
        BY <1>2, <2>1, <2>5
      <3>4. \A e \in Markdown : AsSeen(e)' <=> AsSeen(e)
        BY <2>2 DEF AsSeen
      <3> QED BY <2>1, <2>2, <2>4, <2>5, <3>1, <3>2, <3>3, <3>4 DEF IndexInv
    <2>6. CASE c # "watcher"
      <3>1. jobs # 0
        BY <1>3, <2>2, <2>6 DEF IndexInv, K!Compilers
      <3> QED BY <2>2, <2>4, <3>1 DEF IndexInv
    <2> QED BY <2>5, <2>6
  <1>12. ASSUME NEW c \in K!Compilers, K!Store(c) PROVE IndexInv'
    <2>1. /\ job[c].does = "compile" /\ job[c].left = {} /\ job' = [job EXCEPT ![c] = K!Idle]
          /\ index' = [d \in K!Documents |-> K!Ingested(c, d)]
          /\ outcome' = IF c = "watcher" THEN "ok" ELSE outcome
          /\ UNCHANGED <<corpus, access, seen, edits, jobs>>
      BY <1>12 DEF K!Store, K!Reported
    <2>2. index' \in [K!Documents -> Nat]
      <3>1. job[c].got \in [K!Documents -> Nat]
        BY <1>1 DEF Jobs
      <3> QED BY <1>1, <2>1, <3>1 DEF K!Ingested
    <2>3. /\ job' \in [K!Compilers -> Jobs] /\ job'[c] = K!Idle
          /\ \A b \in K!Compilers \ {c} : job'[b] = job[b]
      BY <1>1, <1>3, <2>1
    <2>4. CASE c = "watcher"
      <3>1. seen \in [K!Documents -> Versions]
        BY <1>1, <1>3, <2>1, <2>4 DEF IndexRanges
      <3>2. IndexRanges'
        BY <1>0, <1>1, <2>1, <2>2, <2>3, <3>1 DEF IndexRanges
      <3>3. jobs = 0 => \A d \in Markdown : AsSeen(d) => job[c].got[d] = corpus[d]
        BY <1>3, <2>1, <2>4 DEF IndexInv
      <3>4. jobs = 0 => \A d \in Markdown : AsSeen(d) => index'[d] = corpus[d]
        BY <1>2, <2>1, <3>3 DEF K!Ingested, AsSeen
      <3>5. \A b \in Commands : job'[b] = job[b]
        BY <1>2, <2>3, <2>4
      <3>6. \A d \in Markdown : AsSeen(d)' <=> AsSeen(d)
        BY <2>1 DEF AsSeen
      <3>7. jobs' = jobs /\ corpus' = corpus /\ job'["watcher"] = K!Idle
        BY <2>1, <2>3, <2>4
      <3> QED BY <3>2, <3>4, <3>5, <3>6, <3>7 DEF IndexInv
    <2>5. CASE c # "watcher"
      <3>1. jobs # 0
        BY <1>3, <2>1, <2>5 DEF IndexInv, K!Compilers
      <3>2. outcome' = outcome /\ job'["watcher"] = job["watcher"]
        BY <1>2, <2>1, <2>3, <2>5
      <3>3. IndexRanges'
        BY <1>0, <1>1, <2>1, <2>2, <2>3, <3>2 DEF IndexRanges
      <3> QED BY <2>1, <3>1, <3>3 DEF IndexInv
    <2> QED BY <2>4, <2>5
  <1>13. ASSUME NEW c \in K!Compilers, K!Fail(c) PROVE IndexInv'
    <2>1. /\ job[c] # K!Idle /\ job' = [job EXCEPT ![c] = K!Idle]
          /\ outcome' = IF c = "watcher" THEN "failed" ELSE outcome
          /\ UNCHANGED <<corpus, access, index, seen, edits, jobs>>
      BY <1>13 DEF K!Fail, K!Reported
    <2>2. /\ job' \in [K!Compilers -> Jobs] /\ job'[c] = K!Idle
          /\ \A b \in K!Compilers \ {c} : job'[b] = job[b]
      BY <1>1, <1>3, <2>1
    <2>3. outcome' # "ok" \/ outcome' = outcome
      BY <2>1
    <2>4. IndexRanges'
      BY <1>0, <1>1, <1>2, <2>1, <2>2, <2>3 DEF IndexRanges
    <2>5. CASE c = "watcher"
      BY <1>2, <2>1, <2>2, <2>4, <2>5 DEF IndexInv
    <2>6. CASE c # "watcher"
      <3>1. jobs # 0
        BY <2>1, <2>6 DEF IndexInv, K!Compilers
      <3> QED BY <2>1, <2>4, <3>1 DEF IndexInv
    <2> QED BY <2>5, <2>6
  <1> QED BY <1>4, <1>5, <1>6, <1>7, <1>8, <1>9, <1>10, <1>11, <1>12, <1>13, <1>14
          DEF K!KnowNext, K!CmdKnowledge

\* When the watcher, alone at work, finds nothing new after a compile that went well, the
\* index has each markdown document with text enough, that nobody was kept from reading, as
\* it is, however they were changed while they were read (knowledge.py: watch_knowledge
\* takes its snapshot before it compiles, and compile_knowledge reads one document after
\* another and passes over what it cannot ingest).
THEOREM WatcherCatchesUp ==
  ASSUME K!KnowledgeAssumption
  PROVE  K!KnowSpec => []K!WatchedIsCurrent
  <1>1. K!KnowInit => IndexInv
    BY IndexInit
  <1>2. IndexInv /\ [K!KnowNext]_(K!knowVars) => IndexInv'
    BY IndexStep
  <1>3. IndexInv => K!WatchedIsCurrent
    <2> SUFFICES ASSUME IndexInv, outcome = "ok", seen = corpus, jobs = 0, NEW d \in Markdown,
                        corpus[d] > 0, access[d] = "open"
                 PROVE  d \notin K!Stale /\ <<d, corpus[d]>> \in K!KnowledgeSearch
      BY DEF K!WatchedIsCurrent
    <2>1. d \in K!Documents /\ d \notin Adapted
      BY DEF K!Documents, K!KnowledgeAssumption
    <2>2. index[d] = corpus[d] /\ index[d] # 0
      BY DEF IndexInv, AsSeen
    <2>3. d \notin K!Stale
      BY <2>1, <2>2 DEF K!Stale
    <2>4. <<d, corpus[d]>> \in K!SearchClaims
      BY <2>1, <2>2 DEF K!SearchClaims
    <2> QED BY <2>3, <2>4 DEF K!KnowledgeSearch
  <1> QED BY <1>1, <1>2, <1>3, PTL DEF K!KnowSpec

-----------------------------------------------------------------------------
(***************************************************************************)
(* Figures.                                                                *)
(***************************************************************************)
\* The row a sum adds first.
First(s) == CHOOSE i \in s : TRUE

\* A sum over each of some sets of rows: g says what the sum of a smaller one is.
Sums(table, sets, g) ==
  [s \in sets |-> IF s = {} THEN 0 ELSE table[First(s)].num + g[s \ {First(s)}]]

\* Sets of rows by their number.
Small(S, n) == {s \in SUBSET S : Cardinality(s) <= n}

\* Without its first row a set is smaller.
LEMMA SmallerByOne ==
  ASSUME NEW S, IsFiniteSet(S), NEW n \in Nat, NEW s \in Small(S, n), s # {}
  PROVE  /\ First(s) \in s /\ n > 0 /\ s \ {First(s)} \in Small(S, n - 1)
  <1>1. First(s) \in s /\ s \in SUBSET S /\ IsFiniteSet(s)
    BY FS_Subset DEF First, Small
  <1>2. Cardinality(s \ {First(s)}) = Cardinality(s) - 1 /\ Cardinality(s) \in Nat
    BY <1>1, FS_RemoveElement, FS_CardinalityType
  <1>3. Cardinality(s \ {First(s)}) \in Nat
    BY <1>1, FS_RemoveElement, FS_CardinalityType, FS_Subset
  <1> QED BY <1>1, <1>2, <1>3 DEF Small

\* There are sums of the sets of up to n rows: of none, and each further row is added to
\* what there is.
LEMMA SumsExistTo ==
  ASSUME NEW S, IsFiniteSet(S), NEW table, NEW n \in Nat
  PROVE  \E g : g = Sums(table, Small(S, n), g)
  <1> DEFINE Has(m) == \E g : g = Sums(table, Small(S, m), g)
             N == {m \in Nat : ~Has(m)}
  <1> SUFFICES ASSUME N # {} PROVE FALSE
    OBVIOUS
  <1>1. PICK m \in N : \A k \in N : m <= k
    BY LeastNumber
  <1>2. CASE m = 0
    <2> DEFINE g == [s \in Small(S, 0) |-> 0]
    <2>1. ASSUME NEW s \in Small(S, 0), s # {} PROVE FALSE
      <3>1. 0 > 0
        BY <2>1, SmallerByOne
      <3> QED BY <3>1
    <2>2. Sums(table, Small(S, 0), g) = [s \in Small(S, 0) |-> 0]
      BY <2>1 DEF Sums
    <2> QED BY <1>2, <2>2
  <1>3. CASE m > 0
    <2>1. m - 1 \in Nat /\ m - 1 \notin N
      BY <1>1, <1>3
    <2>2. PICK g : g = Sums(table, Small(S, m - 1), g)
      BY <2>1
    <2> DEFINE h == Sums(table, Small(S, m), g)
    <2>3. ASSUME NEW s \in Small(S, m), s # {}
          PROVE  h[s \ {First(s)}] = g[s \ {First(s)}]
      <3> DEFINE t == s \ {First(s)}
      <3>1. t \in Small(S, m - 1)
        BY <2>3, SmallerByOne
      <3>2. t \in Small(S, m)
        BY <3>1, FS_CardinalityType, FS_Subset DEF Small
      <3>3. g[t] = Sums(table, Small(S, m - 1), g)[t]
        BY <2>2
      <3>4. g[t] = IF t = {} THEN 0 ELSE table[First(t)].num + g[t \ {First(t)}]
        BY <3>1, <3>3 DEF Sums
      <3>5. h[t] = IF t = {} THEN 0 ELSE table[First(t)].num + g[t \ {First(t)}]
        BY <3>2 DEF Sums
      <3> QED BY <3>4, <3>5
    <2>4. h = Sums(table, Small(S, m), h)
      <3>1. h = [s \in Small(S, m) |->
                   IF s = {} THEN 0 ELSE table[First(s)].num + g[s \ {First(s)}]]
        BY DEF Sums
      <3> HIDE DEF h
      <3>2. \A s \in Small(S, m) :
              (IF s = {} THEN 0 ELSE table[First(s)].num + g[s \ {First(s)}])
                = (IF s = {} THEN 0 ELSE table[First(s)].num + h[s \ {First(s)}])
        BY <2>3
      <3>3. h = [s \in Small(S, m) |->
                   IF s = {} THEN 0 ELSE table[First(s)].num + h[s \ {First(s)}]]
        BY <3>1, <3>2
      <3> QED BY <3>3 DEF Sums
    <2> QED BY <2>4
  <1> QED BY <1>2, <1>3

LEMMA SumsExist ==
  ASSUME NEW S, IsFiniteSet(S), NEW table
  PROVE  \E g : g = Sums(table, SUBSET S, g)
  <1>1. Cardinality(S) \in Nat /\ \A s \in SUBSET S : Cardinality(s) <= Cardinality(S)
    BY FS_CardinalityType, FS_Subset
  <1>2. Small(S, Cardinality(S)) = SUBSET S
    BY <1>1 DEF Small
  <1> QED BY <1>1, <1>2, SumsExistTo

\* What adds up numbers is a number.
LEMMA SumsAreNumbers ==
  ASSUME NEW S, IsFiniteSet(S), NEW table, \A i \in S : table[i].num \in Int,
         NEW g, g = Sums(table, SUBSET S, g), NEW s \in SUBSET S
  PROVE  g[s] \in Int
  <1> DEFINE Bad == {t \in SUBSET S : g[t] \notin Int}
             N == {Cardinality(t) : t \in Bad}
  <1> SUFFICES ASSUME s \in Bad PROVE FALSE
    OBVIOUS
  <1>1. \A t \in SUBSET S : Cardinality(t) \in Nat
    BY FS_CardinalityType, FS_Subset
  <1>2. N \in SUBSET Nat /\ N # {}
    BY <1>1
  <1>3. PICK m \in N : \A k \in N : m <= k
    BY <1>2, LeastNumber
  <1>4. PICK t \in Bad : m = Cardinality(t)
    BY <1>3
  <1>5. g[t] = IF t = {} THEN 0 ELSE table[First(t)].num + g[t \ {First(t)}]
    <2>1. g[t] = Sums(table, SUBSET S, g)[t]
      OBVIOUS
    <2> QED BY <2>1 DEF Sums
  <1>6. t # {} /\ t \in Small(S, m) /\ m \in Nat
    BY <1>1, <1>4, <1>5 DEF Small
  <1>7. First(t) \in t /\ m > 0 /\ t \ {First(t)} \in Small(S, m - 1)
    BY <1>6, SmallerByOne
  <1>8. t \ {First(t)} \notin Bad
    <2>1. Cardinality(t \ {First(t)}) < m
      BY <1>1, <1>6, <1>7 DEF Small
    <2> QED BY <1>1, <1>3, <1>6, <2>1
  <1>9. g[t \ {First(t)}] \in Int /\ table[First(t)].num \in Int
    BY <1>7, <1>8
  <1> QED BY <1>4, <1>5, <1>6, <1>9

\* MapThenSumSet is such a sum.
LEMMA SumRowsIsSums ==
  ASSUME NEW table, NEW rows
  PROVE  F!SumRows(table, rows) =
           (CHOOSE g : g = Sums(table, SUBSET F!Numbered(table, rows), g))
             [F!Numbered(table, rows)]
  BY DEF F!SumRows, F!MapThenSumSet, F!MapThenFoldSet, Sums, First

\* So the sum over some rows is a number, and what the query gives is it, that of no rows
\* included.
LEMMA SumIsNumber ==
  ASSUME F!FiguresAssumption, NEW table \in Seq(F!Rows), NEW rows \in SUBSET DOMAIN table
  PROVE  /\ F!SumRows(table, rows) \in Int
         /\ F!Reduce("sum", table, rows) = F!SumRows(table, rows)
  <1> DEFINE S == F!Numbered(table, rows)
             sum == CHOOSE g : g = Sums(table, SUBSET S, g)
  <1>1. Len(table) \in Nat /\ DOMAIN table = 1 .. Len(table)
        /\ \A i \in 1 .. Len(table) : table[i] \in F!Rows
    OBVIOUS
  <1>2. S \subseteq 1 .. Len(table) /\ IsFiniteSet(S)
    <2>1. S \subseteq 1 .. Len(table)
      BY <1>1 DEF F!Numbered
    <2>2. IsFiniteSet(1 .. Len(table))
      BY <1>1, FS_Interval
    <2> QED BY <2>1, <2>2, FS_Subset
  <1>3. ASSUME NEW i \in S PROVE table[i].num \in Int
    <2>1. i \in 1 .. Len(table) /\ table[i].num \notin {NoNum, Blank}
      BY <1>2, <1>3 DEF F!Numbered
    <2> QED BY <1>1, <2>1 DEF F!Rows, F!FiguresAssumption
  <1>4. sum = Sums(table, SUBSET S, sum)
    BY <1>2, SumsExist
  <1> HIDE DEF sum
  <1>5. sum[S] \in Int
    BY <1>2, <1>3, <1>4, SumsAreNumbers
  <1>6. F!SumRows(table, rows) = sum[S]
    BY SumRowsIsSums DEF sum
  <1>7. CASE S = {}
    <2>1. sum[S] = Sums(table, SUBSET S, sum)[S]
      BY <1>4
    <2>2. Sums(table, SUBSET S, sum)[S] = 0
      BY <1>7 DEF Sums
    <2> QED BY <1>6, <1>7, <2>1, <2>2 DEF F!Reduce
  <1>8. CASE S # {}
    BY <1>5, <1>6, <1>8 DEF F!Reduce
  <1> QED BY <1>7, <1>8

\* The filter derived for a group selects the rows the query put into it.
LEMMA GroupIsSelected ==
  ASSUME F!FiguresAssumption, NEW table \in Seq(F!Rows), NEW where \in F!Wheres,
         NEW k \in F!Groups(table, where)
  PROVE  /\ F!Selected(table, F!GroupWhere(where, k)) = F!Bucket(table, where, k)
         /\ ~F!GroupWhere(where, k).lacking
  <1>1. PICK j \in DOMAIN table : F!Matches(table[j], where) /\ table[j].key = k
    BY DEF F!Groups, F!Selected
  <1>2. k # Wild
    <2>1. table[j] \in F!Rows
      BY <1>1
    <2> QED BY <1>1, <2>1 DEF F!Rows, F!FiguresAssumption
  <1>3. PICK c, a, l : where = [key |-> c, above |-> a, lacking |-> l]
    BY DEF F!Wheres
  <1>4. ~l /\ c \in {Wild, k}
    BY <1>1, <1>3 DEF F!Matches
  <1>5. F!GroupWhere(where, k) = [key |-> k, above |-> a, lacking |-> l]
    BY <1>3 DEF F!GroupWhere
  <1>6. ASSUME NEW i \in DOMAIN table
        PROVE  F!Matches(table[i], F!GroupWhere(where, k))
                 <=> F!Matches(table[i], where) /\ table[i].key = k
    BY <1>2, <1>3, <1>4, <1>5 DEF F!Matches
  <1>7. ~F!GroupWhere(where, k).lacking
    BY <1>4, <1>5
  <1> QED BY <1>6, <1>7 DEF F!Selected, F!Bucket

\* What the tool computes as a sum is that of the rows the derived filter selects, unless
\* it filters on a column that is not there.
LEMMA FiguresAreSums ==
  ASSUME F!FiguresAssumption, source \in Seq(F!Rows), NEW q \in F!Queries,
         NEW f \in F!QueryFigures(q), f.agg = "sum", ~f.where.lacking
  PROVE  f.of = source /\ f.value = F!SumOf(source, f.where)
  <1>1. q.where \in F!Wheres /\ F!Selected(source, q.where) \subseteq DOMAIN source
    BY DEF F!Queries, F!Selected
  <1>2. CASE q.group_by = ""
    <2>1. f = F!Figure(q, F!Selected(source, q.where), q.where)
      BY <1>2 DEF F!QueryFigures
    <2> QED BY <1>1, <2>1, SumIsNumber DEF F!Figure, F!SumOf
  <1>3. CASE q.group_by = "key"
    <2>1. PICK k \in F!Groups(source, q.where) :
            f = F!Figure(q, F!Bucket(source, q.where, k), F!GroupWhere(q.where, k))
      BY <1>3 DEF F!QueryFigures
    <2>2. F!Bucket(source, q.where, k) \in SUBSET DOMAIN source
      BY DEF F!Bucket, F!Selected
    <2>3. F!Selected(source, F!GroupWhere(q.where, k)) = F!Bucket(source, q.where, k)
      BY <1>1, GroupIsSelected
    <2> QED BY <2>1, <2>2, <2>3, SumIsNumber DEF F!Figure, F!SumOf
  <1>4. CASE q.group_by = "lacking"
    <2>1. f = F!Figure(q, F!Selected(source, q.where), [q.where EXCEPT !.lacking = TRUE])
      BY <1>4 DEF F!QueryFigures
    <2>2. PICK c, a, l : q.where = [key |-> c, above |-> a, lacking |-> l]
      BY <1>1 DEF F!Wheres
    <2>3. f.where = [q.where EXCEPT !.lacking = TRUE]
      BY <2>1 DEF F!Figure
    <2> QED BY <2>2, <2>3
  <1> QED BY <1>2, <1>3, <1>4 DEF F!Queries

\* Each sum is that of the table it was computed from, and each check that ran compared it
\* with the table it found.
FiguresInv ==
  /\ source \in F!Unreadable \cup Seq(F!Rows)
  /\ \A f \in computed : f.agg = "sum" /\ ~f.where.lacking =>
       f.of \in Seq(F!Rows) /\ f.value = F!SumOf(f.of, f.where)
  /\ F!SumsVerify

LEMMA FiguresStep ==
  F!FiguresAssumption /\ FiguresInv /\ [F!Next]_(F!figVars) => FiguresInv'
  <1> SUFFICES ASSUME F!FiguresAssumption, FiguresInv, [F!Next]_(F!figVars) PROVE FiguresInv'
    OBVIOUS
  <1>0. UNCHANGED <<checked, reread>> => F!SumsVerify'
    BY DEF FiguresInv, F!SumsVerify
  <1>1. CASE UNCHANGED F!figVars
    BY <1>0, <1>1 DEF FiguresInv, F!figVars
  <1>2. ASSUME NEW q \in F!Queries, F!Query(q) PROVE FiguresInv'
    <2>1. /\ UNCHANGED <<source, checked, reread>> /\ source \notin F!Unreadable
          /\ computed' = computed \cup F!QueryFigures(q)
      BY <1>2 DEF F!Query
    <2>2. source \in Seq(F!Rows)
      BY <2>1 DEF FiguresInv
    <2>3. ASSUME NEW f \in F!QueryFigures(q), f.agg = "sum", ~f.where.lacking
          PROVE  f.of \in Seq(F!Rows) /\ f.value = F!SumOf(f.of, f.where)
      BY <2>2, <2>3, FiguresAreSums
    <2> QED BY <1>0, <2>1, <2>3 DEF FiguresInv
  <1>3. CASE F!Verify
    <2>1. /\ UNCHANGED <<source, computed>> /\ reread' = source
          /\ checked' = {<<f, F!RecomputeSum(source, f.where, f.value)>> :
                           f \in F!Derived(computed)}
      BY <1>3 DEF F!Verify
    <2>2. ASSUME NEW p \in checked', p[1].agg = "sum", ~p[1].where.lacking
          PROVE  p[2] = IF reread' \in F!Unreadable THEN "UNVERIFIABLE"
                        ELSE F!Outcome(F!Close(F!SumOf(reread', p[1].where),
                                               F!SumOf(p[1].of, p[1].where), F!Cent))
      <3>1. PICK f \in F!Derived(computed) : p = <<f, F!RecomputeSum(source, f.where, f.value)>>
        BY <2>1
      <3>2. f.of \in Seq(F!Rows) /\ f.value = F!SumOf(f.of, f.where)
        BY <2>2, <3>1 DEF F!Derived, FiguresInv
      <3>3. F!SumOf(f.of, f.where) # NoNum
        <4>1. F!Selected(f.of, f.where) \in SUBSET DOMAIN f.of
          BY DEF F!Selected
        <4> QED BY <3>2, <4>1, SumIsNumber DEF F!SumOf, F!FiguresAssumption
      <3>4. p[1] = f /\ p[2] = F!RecomputeSum(source, f.where, f.value)
        BY <3>1
      <3> QED BY <2>1, <3>2, <3>3, <3>4 DEF F!RecomputeSum
    <2>3. F!SumsVerify'
      BY <2>2 DEF F!SumsVerify
    <2> QED BY <2>1, <2>3 DEF FiguresInv
  <1>4. CASE F!Backfill
    BY <1>0, <1>4 DEF F!Backfill, FiguresInv
  <1>5. CASE F!EditSource
    <2>1. source' \in F!Unreadable \cup {Append(source, r) : r \in F!Rows}
          /\ source \notin F!Unreadable /\ UNCHANGED <<computed, checked, reread>>
      BY <1>5 DEF F!EditSource
    <2>2. source' \in F!Unreadable \cup Seq(F!Rows)
      BY <2>1 DEF FiguresInv
    <2> QED BY <1>0, <2>1, <2>2 DEF FiguresInv
  <1> QED BY <1>1, <1>2, <1>3, <1>4, <1>5 DEF F!Next

\* However the source is edited, every sum a run states, filtered, grouped by a column the
\* table has or both, is refuted exactly if what it is the sum of has moved by more than the
\* slack since it was queried (tools/data.py: CsvQuery.run; engine.py:
\* _derive_verifications; verify.py: recompute_sum), for any keys and numbers.
THEOREM SumsPass ==
  ASSUME F!FiguresAssumption
  PROVE  F!FigSpec => []F!SumsVerify
  <1>1. F!Init => FiguresInv
    <2>1. F!Tables \subseteq Seq(F!Rows)
      BY DEF F!Tables
    <2> QED BY <2>1 DEF F!Init, FiguresInv, F!SumsVerify
  <1>2. FiguresInv => F!SumsVerify
    BY DEF FiguresInv
  <1> QED BY <1>1, <1>2, FiguresStep, PTL DEF F!FigSpec

\* The checks of one figure do not contradict each other, unless its sum rounds up to the
\* next whole number, and none passes without what it reads (verify.py).
LEMMA ChecksDoAgree == F!ChecksAgree
  <1>1. ASSUME NEW w PROVE F!FailClosed(w)
    BY DEF F!FailClosed, F!RecomputeSum, F!TotalsMatchSource, F!RowCount, F!Schema, F!SetEquality,
           F!RecomputeDelta, F!FileExists, F!ContainsEvidence, F!Regex, F!DocSection, F!Outcome,
           F!Cites, F!Unreadable
  <1>2. ASSUME NEW w, NEW value, source \notin F!Unreadable, ~F!RoundsUp(F!SumOf(source, w))
        PROVE  F!ProvenanceChain(source, w, value, TRUE, report) = "PASS" <=>
                 /\ F!RecomputeSum(source, w, value) = "PASS"
                 /\ F!TotalsMatchSource(source, w, report) = "PASS"
    <2> DEFINE sum == F!SumOf(source, w)
    <2>1. F!ToOnes(F!ToCents(sum) * F!Cent) = F!ToOnes(sum)
      BY <1>2 DEF F!RoundsUp
    <2> HIDE DEF sum
    <2>2. F!TotalsMatchSource(source, w, report) = "PASS" <=>
            /\ report # Outside
            /\ F!Cites(report, {F!InCents(F!ToCents(sum)), F!InOnes(F!ToOnes(sum))})
      BY <1>2, <2>1 DEF F!TotalsMatchSource, F!Outcome, sum
    <2>3. F!RecomputeSum(source, w, value) = "PASS" <=>
            value # NoNum /\ F!Close(sum, value, F!Cent)
      BY <1>2 DEF F!RecomputeSum, F!Outcome, sum
    <2>4. F!ProvenanceChain(source, w, value, TRUE, report) = "PASS" <=>
            /\ value # NoNum /\ report # Outside /\ F!Close(sum, value, F!Cent)
            /\ F!Cites(report, {F!InCents(F!ToCents(sum)), F!InOnes(F!ToOnes(sum))})
      BY <1>2 DEF F!ProvenanceChain, F!Outcome, sum
    <2> QED BY <2>2, <2>3, <2>4
  <1> QED BY <1>1, <1>2 DEF F!ChecksAgree

-----------------------------------------------------------------------------
(***************************************************************************)
(* The parts together.                                                     *)
(***************************************************************************)
LEMMA PartBegins ==
  Init => /\ focus = "calls" => T!Init
          /\ focus = "figures" => F!Init
          /\ focus = "knowledge" => K!KnowInit
          /\ focus = "triggers" => G!TrigInit
          /\ focus = "research" => R!Init
          /\ focus = "daily" => D!Init
  BY DEF Init

\* What a worker does is a step of the part in focus.
LEMMA PartSteps ==
  [Next]_vars =>
    /\ focus' = focus
    /\ focus = "calls" => [T!Next]_(T!toolVars)
    /\ focus = "figures" => [F!Next]_(F!figVars)
    /\ focus = "knowledge" => [K!KnowNext]_(K!knowVars)
    /\ focus = "triggers" => [G!TrigNext]_(G!trigVars)
    /\ focus = "research" => [R!Next]_(R!resVars)
    /\ focus = "daily" => [D!Next]_(D!dayVars)
  <1>1. CASE Next
    BY <1>1 DEF Next, Only
  <1>2. CASE UNCHANGED vars
    <2>1. UNCHANGED <<focus, calls, figures, knowledge, triggers, research, daily>>
      BY <1>2 DEF vars
    <2>2. UNCHANGED T!toolVars
      BY <2>1 DEF calls, T!toolVars
    <2>3. UNCHANGED K!knowVars
      BY <2>1 DEF knowledge, K!knowVars
    <2>4. UNCHANGED G!trigVars
      BY <2>1 DEF triggers, G!trigVars
    <2>5. UNCHANGED D!dayVars
      BY <2>1 DEF daily, D!dayVars
    <2>6. UNCHANGED F!figVars
      BY <2>1 DEF figures, F!figVars
    <2>7. UNCHANGED R!resVars
      BY <2>1 DEF research, R!resVars
    <2> QED BY <2>1, <2>2, <2>3, <2>4, <2>5, <2>6, <2>7
  <1> QED BY <1>1, <1>2

\* Days that stay as they are stay so with everything else.
LEMMA WholeDays ==
  ASSUME [Next]_vars
  PROVE  focus = "daily" /\ UNCHANGED D!dayVars => UNCHANGED vars
  <1>1. CASE Next
    <2>1. focus = "daily" => Only("daily")
      BY <1>1 DEF Next, Only
    <2> QED BY <2>1 DEF Only, D!dayVars, daily, vars
  <1> QED BY <1>1

\* A request that reached a host is never shown as refused, and no pass delivers more
\* messages than its limit (tools/http.py: run; tools/message.py: run).
THEOREM CallsInWork ==
  ASSUME WorkAssumption
  PROVE  Spec => []CallsHold
  <1> DEFINE InFocus == focus = "calls"
  <1>1. Init /\ InFocus => T!Init
    BY PartBegins
  <1>2. [Next]_vars => (InFocus' <=> InFocus) /\ (InFocus => [T!Next]_(T!toolVars))
    BY PartSteps
  <1>3. T!ToolSpec => []T!EgressIsHonest /\ []T!LimitPerPass
    BY EgressHolds, LimitHolds DEF WorkAssumption
  <1>4. (InFocus => T!EgressIsHonest /\ T!LimitPerPass) => CallsHold
    BY DEF CallsHold
  <1> HIDE DEF InFocus
  <1> QED BY <1>1, <1>2, <1>3, <1>4, PTL DEF Spec, T!ToolSpec

\* A sum the report states is verified as it was computed, and the checks agree (engine.py:
\* _derive_verifications; verify.py).
THEOREM FiguresInWork ==
  ASSUME WorkAssumption
  PROVE  Spec => []FiguresHold
  <1> DEFINE InFocus == focus = "figures"
  <1>1. Init /\ InFocus => F!Init
    BY PartBegins
  <1>2. [Next]_vars => (InFocus' <=> InFocus) /\ (InFocus => [F!Next]_(F!figVars))
    BY PartSteps
  <1>3. F!FigSpec => []F!SumsVerify
    BY SumsPass DEF WorkAssumption
  <1>4. (InFocus => F!SumsVerify) => FiguresHold
    BY ChecksDoAgree DEF FiguresHold
  <1> HIDE DEF InFocus
  <1> QED BY <1>1, <1>2, <1>3, <1>4, PTL DEF Spec, F!FigSpec

\* The index of a watcher that caught up is as new as the documents, and what the file
\* trigger reports adds up to the files (knowledge.py: watch_knowledge; trigger.py:
\* FileWatcher.run).
THEOREM WatchersInWork ==
  ASSUME WorkAssumption
  PROVE  Spec => []WatchersHold
  <1> DEFINE Index == focus = "knowledge"
             Trigger == focus = "triggers"
  <1>1. Init => (Index => K!KnowInit) /\ (Trigger => G!TrigInit)
    BY PartBegins
  <1>2. [Next]_vars =>
          /\ (Index' <=> Index) /\ (Index => [K!KnowNext]_(K!knowVars))
          /\ (Trigger' <=> Trigger) /\ (Trigger => [G!TrigNext]_(G!trigVars))
    BY PartSteps
  <1>3. K!KnowSpec => []K!WatchedIsCurrent
    BY WatcherCatchesUp DEF WorkAssumption
  <1>4. G!TrigSpec => []G!ReportsAddUp
    BY ReportsReach
  <1>5. (Index => K!WatchedIsCurrent) /\ (Trigger => G!ReportsAddUp) => WatchersHold
    BY DEF WatchersHold
  <1> HIDE DEF Index, Trigger
  <1> QED BY <1>1, <1>2, <1>3, <1>4, <1>5, PTL DEF Spec, K!KnowSpec, G!TrigSpec

\* No lead scores more than its documents deserve unless it was researched by name, and a
\* whole pass over a ledger of one page finds the pain there is (research.py: research_lead;
\* tools/base.py: SalesResearchTool, SalesQualifyTool).
THEOREM ResearchInWork ==
  ASSUME WorkAssumption
  PROVE  Spec => []ResearchHolds
  <1> DEFINE InFocus == focus = "research"
  <1>1. Init /\ InFocus => R!Init
    BY PartBegins
  <1>2. [Next]_vars => (InFocus' <=> InFocus) /\ (InFocus => [R!Next]_(R!resVars))
    BY PartSteps
  <1>3. R!ResearchSpec => []R!ScoreIsDeserved /\ []R!PainIsFound
    BY ScoresAreDeserved, PainGetsFound DEF WorkAssumption
  <1>4. (InFocus => R!ScoreIsDeserved /\ R!PainIsFound) => ResearchHolds
    BY DEF ResearchHolds
  <1> HIDE DEF InFocus
  <1> QED BY <1>1, <1>2, <1>3, <1>4, PTL DEF Spec, R!ResearchSpec

\* A lead has at most one open reminder, and the checks of the daily procedure pass at any
\* moment (followup.py: schedule_for_lead; checks.py).
THEOREM DailyInWork ==
  ASSUME D!DailyAssumption
  PROVE  Spec => []DailyHolds
  <1> DEFINE InFocus == focus = "daily"
  <1>1. Init /\ InFocus => D!Init
    BY PartBegins
  <1>2. [Next]_vars => (InFocus' <=> InFocus) /\ (InFocus => [D!Next]_(D!dayVars))
    BY PartSteps
  <1>3. D!DailySpec => []D!RemindersDoNotMultiply /\ []D!ShippedCheckPasses
    BY OneReminderEach, ShippedCheckHolds
  <1>4. (InFocus => D!RemindersDoNotMultiply /\ D!ShippedCheckPasses) => DailyHolds
    BY DEF DailyHolds
  <1> HIDE DEF InFocus
  <1> QED BY <1>1, <1>2, <1>3, <1>4, PTL DEF Spec, D!DailySpec

\* What a day counts is settled once it is over (metrics.py: daily_counts).
THEOREM PastInWork ==
  ASSUME D!DailyAssumption
  PROVE  Spec => PastIsSettled
  <1> DEFINE InFocus == focus = "daily"
  <1>1. Init /\ InFocus => D!Init
    BY PartBegins
  <1>2. [Next]_vars => (InFocus' <=> InFocus) /\ (InFocus => [D!Next]_(D!dayVars))
    BY PartSteps
  <1>3. D!DailySpec => [][D!OverIsOver]_(D!dayVars)
    BY PastDaysStay
  <1>4. [Next]_vars /\ (InFocus => [D!OverIsOver]_(D!dayVars))
          => [focus = "daily" => D!OverIsOver]_vars
    BY WholeDays
  <1> HIDE DEF InFocus
  <1> QED BY <1>1, <1>2, <1>3, <1>4, PTL DEF Spec, D!DailySpec, PastIsSettled
=============================================================================
