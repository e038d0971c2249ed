----------------------------- MODULE ToolCalls -----------------------------
(***************************************************************************)
(* The tools themselves (sworker/tools): what a call of each family checks  *)
(* before it touches anything, what it touches, what it reports, and how    *)
(* the engine's two attempts turn the reports into one observation.  One    *)
(* run makes passes (engine.run, then resumes); every pass has a tool       *)
(* context of its own.  Hosts, channels and payloads are kept to what the   *)
(* guards tell apart.                                                       *)
(***************************************************************************)
EXTENDS Naturals, FiniteSets

CONSTANTS Limit,       \* message_rate_limit of the worker, 0 for no limit
          MaxActions,  \* bound on the actions of the run
          MaxPasses,   \* bound on its passes
          MaxDeaths    \* bound on process deaths

ToolCallsAssumption == {Limit, MaxActions, MaxPasses, MaxDeaths} \subseteq Nat

VARIABLES setup,   \* the worker's settings the tools read
          pass,    \* which pass of the run this is
          sent,    \* messages_sent of the pass's context
          doing,   \* the action being executed, with its attempts and result
          actions, \* number of actions begun
          log,     \* action -> its stored observation (url shown, egress, verdict)
          left,    \* actions that contacted a host, as <<action, host>>
          outbox,  \* lines of outbox.jsonl: how many delivered, how many drafts
          repo,    \* the git repository: is there a staged change, how many commits
          file,    \* does the worker's file exist
          deaths

toolVars == <<setup, pass, sent, doing, actions, log, left, outbox, repo, file, deaths>>

Hosts == {"listed", "unlisted", "private"}
Places == {"inside", "outside"}   \* of the filesystem boundary
Setups == [dlp : BOOLEAN, sandbox : {"none", "docker"}, docker : BOOLEAN, browser : BOOLEAN]

HttpCalls == [tool : {"http"}, scheme : {"https"}, host : Hosts, secret : BOOLEAN,
              auth : {"none", "unusable"}]
             \cup [tool : {"http"}, scheme : {"file"}, host : {"listed"}, secret : {FALSE}, auth : {"none"}]
MessageCalls == [tool : {"message"}, channel : {"listed", "unlisted"}, secret : BOOLEAN, draft : BOOLEAN]
OpenCalls == [tool : {"open"}, host : Hosts \ {"private"}, creds : BOOLEAN]
DownloadCalls == [tool : {"download"}, enabled : BOOLEAN, host : Hosts \ {"private"}, place : Places]
UploadCalls == [tool : {"upload"}, enabled : BOOLEAN, place : Places]
PageCalls == [tool : {"click", "type"}]
ExecCalls == [tool : {"shell"}, allowed : BOOLEAN] \cup [tool : {"python"}, allowed : {TRUE}]
FileCalls == [tool : {"read", "write", "delete"}, place : Places]
GitCalls == [tool : {"status", "branch", "commit", "push"}, place : Places]
Calls == HttpCalls \cup MessageCalls \cup OpenCalls \cup DownloadCalls \cup UploadCalls
         \cup PageCalls \cup ExecCalls \cup FileCalls \cup GitCalls

-----------------------------------------------------------------------------
(* What one invocation of a tool can report and do.  "invalid" is a          *)
(* ToolError, which is not retried.                                          *)

Quiet == [url |-> FALSE, egress |-> FALSE, verdict |-> "shown"]
Blocked == [Quiet EXCEPT !.verdict = "dlp"]
Shown(egress, verdict) == [url |-> TRUE, egress |-> egress, verdict |-> verdict]

Reports(status, data, touched) == {[status |-> status, data |-> data, touched |-> t] : t \in touched}
NoEffect(status, data) == Reports(status, data, {"nothing"})

\* A request that is sent and may fail before or after it arrived.
Sent(data, failedData) == Reports("ok", data, {"host"}) \cup Reports("failed", failedData, {"host", "nothing"})

\* _check_egress: the scheme, then the blocked addresses, then the allow-list.
EgressRefused(c) == c.scheme # "https" \/ c.host = "private" \/ c.host # "listed"

\* Mutant of HttpExchange: a failed request is stored as one that never left.
HttpExchangeForgets == Sent(Shown(TRUE, "shown"), Shown(FALSE, "shown"))
                       \cup Reports("failed", Quiet, {"host"})

\* After the refusals the host answers, answers with an error status, or the
\* request fails on the way; when it is the body of an error status that cannot
\* be read, the exception reaches the engine, which stores no data.
HttpExchange == Sent(Shown(TRUE, "shown"), Shown(TRUE, "shown")) \cup Reports("failed", Quiet, {"host"})

Http(c) ==
    IF EgressRefused(c) THEN NoEffect("failed", Shown(FALSE, "refused"))
    ELSE IF setup.dlp /\ c.secret THEN NoEffect("failed", Shown(FALSE, "dlp"))
    ELSE IF c.auth = "unusable" THEN NoEffect("failed", Shown(TRUE, "shown"))
    ELSE HttpExchange

RateReached(c) == ~c.draft /\ Limit > 0 /\ sent >= Limit

\* The outbox appends a line; a full disk makes it raise before.
Deliver(draft) == Reports("ok", Quiet, {IF draft THEN "drafted" ELSE "delivered"})
                  \cup NoEffect("failed", Quiet)

\* Allow-list, then the secret scan, then the limit.
Message(c) ==
    IF c.channel # "listed" THEN NoEffect("failed", Quiet)
    ELSE IF setup.dlp /\ c.secret THEN NoEffect("failed", Blocked)
    ELSE IF RateReached(c) THEN NoEffect("failed", Quiet)
    ELSE Deliver(c.draft)

\* Without a backend no browser tool does anything.
Browsing(reports) == IF setup.browser THEN reports ELSE NoEffect("failed", Quiet)

\* The allow-list, then the credentials, every one of which must resolve.
Open(c) ==
    IF c.host # "listed" \/ c.creds THEN NoEffect("failed", Shown(FALSE, "shown"))
    ELSE Sent(Shown(FALSE, "shown"), Quiet)

PageAction == Sent(Quiet, Quiet)

Download(c) ==
    IF ~c.enabled THEN NoEffect("failed", Quiet)
    ELSE IF c.host # "listed" THEN NoEffect("failed", Shown(FALSE, "shown"))
    ELSE IF c.place = "outside" THEN NoEffect("failed", Quiet)
    ELSE Sent(Shown(FALSE, "shown"), Shown(FALSE, "shown"))

\* An upload stages the file and sends nothing.
Upload(c) ==
    IF ~c.enabled \/ c.place = "outside" \/ ~file THEN NoEffect("failed", Quiet) ELSE NoEffect("ok", Quiet)

\* The sandbox never falls back to the host; a command may exit badly or be
\* killed at its timeout, its process group with it.
InSandbox ==
    IF setup.sandbox = "docker" /\ ~setup.docker THEN NoEffect("failed", Quiet)
    ELSE NoEffect("ok", Quiet) \cup NoEffect("failed", Quiet)

Shell(c) == IF c.allowed THEN InSandbox ELSE NoEffect("invalid", Quiet)

\* ToolContext.resolve: outside the boundary, or missing when it must exist.
Unresolved(c, mustExist) == c.place = "outside" \/ (mustExist /\ ~file)

ReadFile(c) == IF Unresolved(c, TRUE) THEN NoEffect("invalid", Quiet) ELSE NoEffect("ok", Quiet)

WriteFile(c) ==
    IF Unresolved(c, FALSE) THEN NoEffect("invalid", Quiet)
    ELSE Reports("ok", Quiet, {"written"}) \cup NoEffect("failed", Quiet)

DeleteFile(c) ==
    IF Unresolved(c, TRUE) THEN NoEffect("invalid", Quiet)
    ELSE Reports("ok", Quiet, {"removed"}) \cup NoEffect("failed", Quiet)

\* _git: at its timeout git is killed, with or without its effect.
GitRun(c, ok, effects) ==
    IF c.place = "outside" THEN NoEffect("invalid", Quiet)
    ELSE (IF ok THEN Reports("ok", Quiet, effects) ELSE {})
         \cup Reports("failed", Quiet, effects \cup {"nothing"})

\* commit is add, then commit: with nothing changed git refuses it.
Commit(c) == GitRun(c, repo.changed, IF repo.changed THEN {"committed"} ELSE {})

Push(c) == GitRun(c, TRUE, {"host"})

Run(c) ==
    CASE c.tool = "http" -> Http(c)
      [] c.tool = "message" -> Message(c)
      [] c.tool = "open" -> Browsing(Open(c))
      [] c.tool = "download" -> Browsing(Download(c))
      [] c.tool = "upload" -> Browsing(Upload(c))
      [] c.tool \in {"click", "type"} -> Browsing(PageAction)
      [] c.tool = "shell" -> Shell(c)
      [] c.tool = "python" -> InSandbox
      [] c.tool = "read" -> ReadFile(c)
      [] c.tool = "write" -> WriteFile(c)
      [] c.tool = "delete" -> DeleteFile(c)
      [] c.tool = "commit" -> Commit(c)
      [] c.tool = "push" -> Push(c)
      [] c.tool \in {"status", "branch"} -> GitRun(c, TRUE, {"nothing"})

-----------------------------------------------------------------------------
Idle == doing = {}

Init ==
    /\ setup \in Setups
    /\ setup.docker => setup.sandbox = "docker"   \* otherwise it is not looked for
    /\ pass = 1 /\ sent = 0 /\ doing = {} /\ actions = 0
    /\ log = << >> /\ left = {}
    /\ outbox = [delivered |-> 0, drafts |-> 0]
    /\ repo = [changed |-> TRUE, commits |-> 0]
    /\ file = FALSE
    /\ deaths = 0

\* _execute_action stores the action EXECUTING before the tool is run.
Begin(c) ==
    /\ Idle /\ actions < MaxActions
    /\ actions' = actions + 1
    /\ doing' = {[call |-> c, attempts |-> 0, last |-> {}]}
    /\ UNCHANGED <<setup, pass, sent, log, left, outbox, repo, file, deaths>>

MayAttempt(d) == d.attempts < 2 /\ \A r \in d.last : r.status = "failed"

\* Only a delivery counts, and only when the backend took it.
Counted(r) == IF r.touched = "delivered" THEN sent + 1 ELSE sent

Touch(r, c) ==
    /\ left' = IF r.touched = "host" THEN left \cup {<<actions, c.tool>>} ELSE left
    /\ outbox' = [delivered |-> outbox.delivered + (IF r.touched = "delivered" THEN 1 ELSE 0),
                  drafts |-> outbox.drafts + (IF r.touched = "drafted" THEN 1 ELSE 0)]
    /\ repo' = IF r.touched = "committed" THEN [changed |-> FALSE, commits |-> repo.commits + 1] ELSE repo
    /\ file' = CASE r.touched = "written" -> TRUE [] r.touched = "removed" -> FALSE [] OTHER -> file

Attempt ==
    \E d \in doing : \E r \in Run(d.call) :
        /\ MayAttempt(d)
        /\ Touch(r, d.call)
        /\ sent' = Counted(r)
        /\ doing' = {[d EXCEPT !.attempts = @ + 1, !.last = {r}]}
        /\ UNCHANGED <<setup, pass, actions, log, deaths>>

\* The last attempt's report becomes the observation.
Record ==
    \E d \in doing :
        /\ d.last # {} /\ ~MayAttempt(d)
        /\ log' = [a \in DOMAIN log \cup {actions} |->
                     IF a = actions THEN (CHOOSE r \in d.last : TRUE).data ELSE log[a]]
        /\ doing' = {}
        /\ UNCHANGED <<setup, pass, sent, actions, left, outbox, repo, file, deaths>>

\* A resume builds a fresh context, its counter at 0.
NextPass ==
    /\ Idle /\ pass < MaxPasses
    /\ pass' = pass + 1 /\ sent' = 0
    /\ UNCHANGED <<setup, doing, actions, log, left, outbox, repo, file, deaths>>

\* The process dies: the action stays EXECUTING in the store for ever.
Die ==
    /\ deaths < MaxDeaths /\ pass < MaxPasses /\ ~Idle
    /\ deaths' = deaths + 1
    /\ pass' = pass + 1 /\ sent' = 0 /\ doing' = {}
    /\ UNCHANGED <<setup, actions, log, left, outbox, repo, file>>

\* Somebody edits the working tree.
Edit ==
    /\ Idle /\ ~repo.changed
    /\ repo' = [repo EXCEPT !.changed = TRUE]
    /\ UNCHANGED <<setup, pass, sent, doing, actions, log, left, outbox, file, deaths>>

Next == (\E c \in Calls : Begin(c)) \/ Attempt \/ Record \/ NextPass \/ Die \/ Edit

ToolSpec == Init /\ [][Next]_toolVars

-----------------------------------------------------------------------------
(* render_egress_log: every observation with a url, under "refused" when it   *)
(* says so and otherwise under "allowed".                                     *)
EgressLog(verdicts) == {a \in DOMAIN log : log[a].url /\ log[a].verdict \in verdicts}
DlpLog == {a \in DOMAIN log : log[a].verdict = "dlp"}

\* EgressIsHonest: an HTTP request that reached a host is never shown as
\* refused or blocked, and where its url is shown it is shown as having gone
\* out, whatever the two attempts reported and whenever a process died
\* (http.py:71-147, engine.py:773-811, render_egress_log, render_dlp_log).
HttpLeft == {p[1] : p \in {q \in left : q[2] = "http"}}
EgressIsHonest ==
    \A a \in HttpLeft \cap DOMAIN log :
        /\ a \notin EgressLog({"refused"}) \cup DlpLog
        /\ a \in EgressLog({"shown"}) => log[a].egress

\* LimitPerPass: no pass delivers more messages than the limit, so that a run
\* of n passes delivers at most n times the limit (message.py:149-166).
LimitPerPass == Limit > 0 => outbox.delivered <= Limit * pass

\* RateLimitPerRun: what message.py:13 says: "refuses once the run's sent count
\* reaches the cap".  The counter is the pass's, so a resumed run exceeds it.
RateLimitPerRun == Limit > 0 => outbox.delivered <= Limit

=============================================================================
