------------------------------ MODULE Accounts ------------------------------
(***************************************************************************)
(* Accounts, sessions and what may be posted: sworker/auth.py, the grants  *)
(* of rbac.py, the gate and the handlers of web.py and the command user of *)
(* cli.py.  The server's threads and the commands interleave: a password   *)
(* is verified, or hashed, between the reading of an account and the       *)
(* writing that follows, and a request is handled after its gate.          *)
(***************************************************************************)
EXTENDS Rbac, FiniteSets

CONSTANTS
  Users,          \* user names
  Tokens,         \* 1 .. the most sessions there may be
  TTL,            \* how long a session is valid
  MaxClock,       \* bound: the clock
  MaxChanges      \* bound: accounts disabled or enabled again

AccountsAssumption ==
  /\ "" \notin Users /\ TTL \in Nat \ {0}
  /\ {MaxClock, MaxChanges} \subseteq Nat

VARIABLES
  account,      \* user -> role ("" for no account) and disabled
  session,      \* token -> user ("" for no session), expires, revoked
  clock,
  adding,       \* the accounts, user and role, whose password is being hashed
  login,        \* the user whose password was just verified, or ""
  post,         \* the request that passed the gate: token, path; or NoPost
  minRole,      \* the least role of the approval that is voted on
  votes,        \* the votes recorded: by, role
  acted,        \* history: user -> when a request of his last passed the gate, or -1
  lastGood,     \* history: user -> when he was last enabled or being signed in
  changes, turns

fixed == <<minRole, turns>>

acctVars == <<account, session, clock, adding, login, post, votes, acted, lastGood,
              changes, fixed>>

NoAccount == [role |-> "", disabled |-> FALSE]
NoSession == [user |-> "", expires |-> 0, revoked |-> FALSE]
NoPost == [token |-> 0, path |-> ""]

-----------------------------------------------------------------------------
\* The permissions a route of the server asks for, and the roles that grant them.
Grants ==
  [viewer   |-> {"run:read", "approval:read", "worker:read", "audit:read"},
   analyst  |-> {"run:create", "run:read", "approval:read", "worker:read", "audit:read"},
   operator |-> {"run:create", "run:read", "approval:decide", "approval:read", "worker:read",
                 "schedule:manage", "procedure:publish", "audit:read"},
   admin    |-> {"run:create", "run:read", "approval:decide", "approval:read", "worker:read",
                 "worker:manage", "knowledge:manage", "audit:read", "schedule:manage",
                 "user:manage", "policy:manage", "secret:read", "secret:manage",
                 "procedure:publish"}]

\* authorize(): an unknown role, or one without the permission, is refused.
Authorized(role, permission) ==
  role \in DOMAIN Grants /\ permission \in Grants[role]

RoutePerms == [run |-> "run:create",         \* /run and /resume
               approve |-> "approval:decide", \* /approve and /deny
               verify |-> "run:read",         \* /verify and /api/v1/explain
               incident |-> "admin"]          \* /api/v1/safemode and /api/v1/incident

\* Mutant of Valid: nobody looks at the time.
ValidForever(t) == session[t].user # "" /\ ~session[t].revoked

\* validate_session(): revoked and expired sessions are nobody's.
Valid(t) == session[t].user # "" /\ ~session[t].revoked /\ session[t].expires > clock

\* _cookie_user(): the user of the session and his role, or two empty texts.
CookieUser(t) ==
  IF Valid(t) THEN [by |-> session[t].user, role |-> account[session[t].user].role]
              ELSE [by |-> "", role |-> ""]

-----------------------------------------------------------------------------
AcctInit ==
  /\ account = [u \in Users |-> NoAccount]
  /\ session = [t \in Tokens |-> NoSession]
  /\ clock = 0 /\ adding = {} /\ login = "" /\ post = NoPost
  /\ minRole \in {"", "admin"} /\ votes = {}
  /\ acted = [u \in Users |-> -1]
  /\ lastGood = [u \in Users |-> -1]
  /\ changes = 0 /\ turns \in BOOLEAN

Quiet == turns => adding = {} /\ login = "" /\ post = NoPost

Enabled(u) == account[u].role # "" /\ ~account[u].disabled

\* An hour passes for whoever is signed in.
Tick ==
  /\ clock < MaxClock
  /\ clock' = clock + 1
  /\ lastGood' = [u \in Users |->
       IF login = u \/ Enabled(u) THEN clock + 1 ELSE lastGood[u]]
  /\ UNCHANGED <<account, session, adding, login, post, votes, acted, changes, fixed>>

NameFree(u) == account[u].role = ""

\* create_user(): a name that is taken is refused, then the password is hashed.
AddUser(u, role) ==
  /\ Quiet /\ Cardinality(adding) < 2
  /\ NameFree(u)
  /\ adding' = adding \cup {[user |-> u, role |-> role]}
  /\ UNCHANGED <<account, session, clock, login, post, votes, acted, lastGood, changes, fixed>>

\* onboard: the first account is an administrator's.
Onboard(u) ==
  /\ Quiet /\ Cardinality(adding) < 2
  /\ \A v \in Users : account[v].role = ""
  /\ adding' = adding \cup {[user |-> u, role |-> "admin"]}
  /\ UNCHANGED <<account, session, clock, login, post, votes, acted, lastGood, changes, fixed>>

PutUser(new) ==
  /\ account' = [account EXCEPT ![new.user] = [role |-> new.role, disabled |-> FALSE]]
  /\ lastGood' = [lastGood EXCEPT ![new.user] = clock]
  /\ adding' = adding \ {new}
  /\ UNCHANGED <<session, clock, login, post, votes, acted, changes, fixed>>

\* disable_user() and enable_user(); the sessions of the account stay as they are.
SetDisabled(u, disabled) ==
  /\ Quiet
  /\ account[u].role # "" /\ changes < MaxChanges
  /\ changes' = changes + 1
  /\ account' = [account EXCEPT ![u].disabled = disabled]
  /\ lastGood' = [lastGood EXCEPT ![u] = IF disabled /\ account[u].disabled THEN @ ELSE clock]
  /\ UNCHANGED <<session, clock, adding, login, post, votes, acted, fixed>>

\* authenticate(): the account is read, then the password is verified.
LoginCheck(u) ==
  /\ Quiet /\ login = ""
  /\ Enabled(u)
  /\ login' = u
  /\ UNCHANGED <<account, session, clock, adding, post, votes, acted, lastGood, changes,
                 fixed>>

\* The password was right: a new session is put.
LoginPut(t) ==
  /\ login # "" /\ session[t] = NoSession
  /\ session' = [session EXCEPT ![t] =
                   [user |-> login, expires |-> clock + TTL, revoked |-> FALSE]]
  /\ login' = ""
  /\ lastGood' = [lastGood EXCEPT ![login] = clock]
  /\ UNCHANGED <<account, clock, adding, post, votes, acted, changes, fixed>>

LoginRefused ==
  /\ login # ""
  /\ login' = ""
  /\ UNCHANGED <<account, session, clock, adding, post, votes, acted, lastGood, changes,
                 fixed>>

\* /logout needs no session that is still valid.
Logout(t) ==
  /\ Quiet
  /\ session[t] # NoSession /\ ~session[t].revoked
  /\ session' = [session EXCEPT ![t].revoked = TRUE]
  /\ UNCHANGED <<account, clock, adding, login, post, votes, acted, lastGood, changes, fixed>>

\* Any page is shown to whoever has a session.
Get(t) ==
  /\ Valid(t)
  /\ acted' = [acted EXCEPT ![session[t].user] = clock]
  /\ UNCHANGED <<account, session, clock, adding, login, post, votes, lastGood, changes,
                 fixed>>

\* _gate_mutate(): session and permission are checked once, before the handler.
Gate(t, path) ==
  /\ Quiet /\ post = NoPost
  /\ Valid(t)
  /\ Authorized(CookieUser(t).role, RoutePerms[path])
  /\ post' = [token |-> t, path |-> path]
  /\ acted' = [acted EXCEPT ![session[t].user] = clock]
  /\ UNCHANGED <<account, session, clock, adding, login, votes, lastGood, changes, fixed>>

\* /approve and /deny read the cookie a second time; without a session any more the
\* vote is that of "web", with no role.  vote() refuses a role below the approval's; a
\* vote takes the place of an earlier one of the same voter.  The approval stays open:
\* how votes settle it is in Approvals.
Decide ==
  /\ post # NoPost /\ post.path = "approve"
  /\ LET voter == CookieUser(post.token)
         by == IF voter.by = "" THEN "web" ELSE voter.by
     IN votes' = IF RoleSatisfies(voter.role, minRole)
                 THEN {v \in votes : v.by # by} \cup {[by |-> by, role |-> voter.role]}
                 ELSE votes
  /\ post' = NoPost
  /\ UNCHANGED <<account, session, clock, adding, login, acted, lastGood, changes, fixed>>

\* The other handlers do what was asked, whoever asked.
Perform ==
  /\ post # NoPost /\ post.path # "approve"
  /\ post' = NoPost
  /\ UNCHANGED <<account, session, clock, adding, login, votes, acted, lastGood, changes,
                 fixed>>

\* The command user.
CmdUser(u) ==
  \/ \E role \in {"viewer", "operator"} : AddUser(u, role)
  \/ \E disabled \in BOOLEAN : SetDisabled(u, disabled)

\* A POST logs in or out, or passes the gate and is handled.
HandlePost ==
  \/ Decide \/ Perform \/ LoginRefused
  \/ \E u \in Users : LoginCheck(u)
  \/ \E t \in Tokens : LoginPut(t) \/ Logout(t) \/ \E path \in DOMAIN RoutePerms : Gate(t, path)

AcctNext ==
  \/ Tick \/ HandlePost
  \/ \E new \in adding : PutUser(new)
  \/ \E u \in Users : Onboard(u) \/ CmdUser(u)
  \/ \E t \in Tokens : Get(t)

AcctSpec == AcctInit /\ [][AcctNext]_acctVars

-----------------------------------------------------------------------------
\* "A session is invalid if it does not exist, is revoked, or has expired": sessions
\* outlive a disabled account, but nobody's request passes TTL or more after the
\* account was last good, whatever is disabled, enabled and signed in meanwhile.
DisabledUsersFade ==
  \A u \in Users : acted[u] >= 0 => lastGood[u] >= 0 /\ acted[u] < lastGood[u] + TTL

\* Whoever votes over the web, votes again, or votes again in another role, has one vote.
\* It meets the approval's least role, and one with a role is of a user who may decide; a
\* vote without one, of a session that ended while the request was under way, is nobody's
\* and counts only where no role is asked for.
VotersMayDecide ==
  \A v \in votes :
    /\ \A w \in votes : w.by = v.by => w = v
    /\ RoleSatisfies(v.role, minRole)
    /\ IF v.role = "" THEN v.by = "web" /\ minRole = ""
       ELSE turns => Authorized(account[v.by].role, "approval:decide")

\* While nothing is under way in between, an account keeps the role it was made with.
RoleStays ==
  turns => \A u \in Users : account[u].role # "" => account'[u].role = account[u].role
=============================================================================
