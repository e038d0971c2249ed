--------------------------- MODULE PlatformProofs ---------------------------
(***************************************************************************)
(* Proofs about Accounts and Incidents, the parts A and I of a workspace,  *)
(* for any users, sessions and lifetime, any operators and any number of   *)
(* commands and deaths, however the server's threads and the commands      *)
(* interleave.                                                             *)
(*                                                                         *)
(*   UsersFade       no request of a user passes the gate a lifetime or    *)
(*                   more after his account was last good                  *)
(*   VotersCount     a vote meets its minimum; with turns, whoever's it is *)
(*                   may vote                                              *)
(*   RolesStay       with turns, an account keeps its role                 *)
(*   FreezeHolds     an incident freezes until somebody stands down        *)
(*   TimelineTells   in turns and without deaths, the lines alternate      *)
(*                                                                         *)
(* The first property speaks of requests; the invariant FadeInv adds what  *)
(* makes it so: a session ends within a lifetime of that time too, and     *)
(* that time only goes forward.  VoteInv follows a vote back over the      *)
(* second reading of the cookie to the gate: whoever is signed in has an   *)
(* account with a role, and in turns nobody's role changes while a request *)
(* is under way.                                                           *)
(*                                                                         *)
(* FrozenUntilStoodDown is not inductive: the row and the line of an       *)
(* incident are written some steps after its lock.  Its invariant adds     *)
(* which lists of writes there are, and that whoever is past the lock has  *)
(* left the workspace frozen or seen it thawed.  TimelineInv says how far  *)
(* each of those lists leaves the row and the lines apart.                 *)
(***************************************************************************)
EXTENDS Workspace, SequenceTheorems, TLAPS

-----------------------------------------------------------------------------
(***************************************************************************)
(* Accounts.                                                               *)
(***************************************************************************)
SessionRecords == [user : Users \cup {""}, expires : Nat, revoked : BOOLEAN]

Newcomers == [user : Users, role : {"viewer", "operator", "admin"}]

\* The ranges of what says who a session is of ...
WhoIsWho ==
  /\ session \in [Tokens -> SessionRecords]
  /\ adding \subseteq Newcomers
  /\ login \in Users \cup {""}

\* ... and of the times.
Times ==
  /\ clock \in Nat
  /\ acted \in [Users -> Int]
  /\ lastGood \in [Users -> Int]
  /\ \A u \in Users : lastGood[u] <= clock

\* A session ends within a lifetime of when its user was good.
SessionsFade ==
  \A t \in Tokens, u \in Users :
    session[t].user = u => lastGood[u] >= 0 /\ session[t].expires <= lastGood[u] + TTL

\* The inductive invariant.
FadeInv == WhoIsWho /\ Times /\ A!DisabledUsersFade /\ SessionsFade

-----------------------------------------------------------------------------
LEMMA Lifetime == A!AccountsAssumption => TTL \in Nat /\ TTL > 0
  <1>1. A!AccountsAssumption => TTL \in Nat \ {0}
    BY Zenon DEF A!AccountsAssumption
  <1> QED BY <1>1

\* When a session ends, and whose one that counts is.
LEMMA SessionFields ==
  ASSUME WhoIsWho, NEW t \in Tokens
  PROVE  session[t].expires \in Nat /\ (A!Valid(t) => session[t].user \in Users)
  BY DEF WhoIsWho, SessionRecords, A!Valid

\* A step that does not touch the sessions, and lets nobody's last good time go back,
\* keeps the invariant.
LEMMA ForwardKeeps ==
  ASSUME A!AccountsAssumption, FadeInv, WhoIsWho', Times', UNCHANGED <<session, acted>>,
         \A u \in Users : lastGood'[u] >= lastGood[u]
  PROVE  FadeInv'
  <1>1. A!DisabledUsersFade'
    BY Lifetime DEF FadeInv, Times, A!DisabledUsersFade
  <1>2. SessionsFade'
    <2> SUFFICES ASSUME NEW t \in Tokens, NEW u \in Users, session'[t].user = u
                 PROVE  lastGood'[u] >= 0 /\ session'[t].expires <= lastGood'[u] + TTL
      BY DEF SessionsFade
    <2>1. lastGood[u] >= 0 /\ session[t].expires <= lastGood[u] + TTL
      BY DEF FadeInv, SessionsFade
    <2>2. session[t].expires \in Nat /\ session'[t].expires = session[t].expires
      BY SessionFields DEF FadeInv
    <2> QED BY <2>1, <2>2, Lifetime DEF FadeInv, Times
  <1> QED BY <1>1, <1>2 DEF FadeInv

\* In particular one that changes none of the times.
LEMMA StillKeeps ==
  ASSUME A!AccountsAssumption, FadeInv, WhoIsWho', UNCHANGED <<session, acted, clock, lastGood>>
  PROVE  FadeInv'
  <1>1. Times' /\ \A u \in Users : lastGood'[u] >= lastGood[u]
    BY DEF FadeInv, Times
  <1> QED BY <1>1, ForwardKeeps

\* A request of a valid session comes before the lifetime is over.
LEMMA RequestKeeps ==
  ASSUME A!AccountsAssumption, FadeInv, NEW t \in Tokens, A!Valid(t),
         NEW u \in Users, u = session[t].user, acted' = [acted EXCEPT ![u] = clock],
         UNCHANGED <<session, clock, adding, login, lastGood>>
  PROVE  FadeInv'
  <1>1. lastGood[u] >= 0 /\ session[t].expires <= lastGood[u] + TTL /\ session[t].expires > clock
    BY DEF FadeInv, SessionsFade, A!Valid
  <1>2. session[t].expires \in Nat
    BY SessionFields DEF FadeInv
  <1>3. lastGood[u] >= 0 /\ clock < lastGood[u] + TTL
    BY <1>1, <1>2, Lifetime DEF FadeInv, Times
  <1>4. Times'
    BY DEF FadeInv, Times
  <1>5. A!DisabledUsersFade'
    BY <1>3 DEF FadeInv, Times, A!DisabledUsersFade
  <1>6. WhoIsWho' /\ SessionsFade'
    BY DEF FadeInv, WhoIsWho, SessionsFade
  <1> QED BY <1>4, <1>5, <1>6 DEF FadeInv

LEMMA FadeInit == A!AccountsAssumption /\ A!AcctInit => FadeInv
  <1> SUFFICES ASSUME A!AccountsAssumption, A!AcctInit PROVE FadeInv
    OBVIOUS
  <1>1. A!NoSession \in SessionRecords /\ A!NoSession.user = ""
    BY DEF A!NoSession, SessionRecords
  <1>2. WhoIsWho
    BY <1>1 DEF A!AcctInit, WhoIsWho
  <1>3. SessionsFade
    BY <1>1 DEF A!AcctInit, SessionsFade, A!AccountsAssumption
  <1>4. clock = 0 /\ acted = [u \in Users |-> -1] /\ lastGood = [u \in Users |-> -1]
    BY DEF A!AcctInit
  <1>5. Times /\ A!DisabledUsersFade
    BY <1>4 DEF Times, A!DisabledUsersFade
  <1> QED BY <1>2, <1>3, <1>5 DEF FadeInv

LEMMA FadeStep == A!AccountsAssumption /\ FadeInv /\ [A!AcctNext]_(A!acctVars) => FadeInv'
  <1> SUFFICES ASSUME A!AccountsAssumption, FadeInv, [A!AcctNext]_(A!acctVars) PROVE FadeInv'
    OBVIOUS
  <1> USE DEF A!fixed
  <1>1. CASE UNCHANGED A!acctVars
    <2>1. WhoIsWho' /\ UNCHANGED <<session, acted, clock, lastGood>>
      BY <1>1 DEF A!acctVars, FadeInv, WhoIsWho
    <2> QED BY <2>1, StillKeeps
  <1>2. CASE A!Tick
    <2>1. /\ clock' = clock + 1 /\ UNCHANGED <<session, adding, login, acted>>
          /\ \A u \in Users : lastGood'[u] = clock + 1 \/ lastGood'[u] = lastGood[u]
          /\ lastGood' = [u \in Users |-> lastGood'[u]]
      BY <1>2 DEF A!Tick
    <2>2. Times' /\ \A u \in Users : lastGood'[u] >= lastGood[u]
      BY <2>1 DEF FadeInv, Times
    <2>3. WhoIsWho'
      BY <2>1 DEF FadeInv, WhoIsWho
    <2> QED BY <2>1, <2>2, <2>3, ForwardKeeps
  <1>3. ASSUME NEW u \in Users,
               A!Onboard(u) \/ \E role \in {"viewer", "operator"} : A!AddUser(u, role)
        PROVE  FadeInv'
    <2>1. PICK role \in {"viewer", "operator", "admin"} :
             /\ adding' = adding \cup {[user |-> u, role |-> role]}
             /\ UNCHANGED <<session, clock, login, acted, lastGood>>
      BY <1>3 DEF A!Onboard, A!AddUser
    <2>2. [user |-> u, role |-> role] \in Newcomers
      BY DEF Newcomers
    <2>3. WhoIsWho'
      BY <2>1, <2>2 DEF FadeInv, WhoIsWho
    <2> QED BY <2>1, <2>3, StillKeeps
  <1>4. ASSUME NEW new \in adding, A!PutUser(new) PROVE FadeInv'
    <2>1. PICK u \in Users : u = new.user
      BY DEF FadeInv, WhoIsWho, Newcomers
    <2>2. /\ lastGood' = [lastGood EXCEPT ![u] = clock]
          /\ adding' = adding \ {new} /\ UNCHANGED <<session, clock, login, acted>>
      BY <1>4, <2>1 DEF A!PutUser
    <2>3. Times' /\ \A v \in Users : lastGood'[v] >= lastGood[v]
      BY <2>2 DEF FadeInv, Times
    <2>4. WhoIsWho'
      BY <2>2 DEF FadeInv, WhoIsWho
    <2> QED BY <2>2, <2>3, <2>4, ForwardKeeps
  <1>5. ASSUME NEW u \in Users, NEW disabled \in BOOLEAN, A!SetDisabled(u, disabled) PROVE FadeInv'
    <2>1. /\ lastGood' = lastGood \/ lastGood' = [lastGood EXCEPT ![u] = clock]
          /\ UNCHANGED <<session, clock, adding, login, acted>>
      <3>1. CASE disabled /\ account[u].disabled
        BY <1>5, <3>1 DEF A!SetDisabled, FadeInv, Times
      <3>2. CASE ~(disabled /\ account[u].disabled)
        BY <1>5, <3>2 DEF A!SetDisabled
      <3> QED BY <3>1, <3>2
    <2>2. Times' /\ \A v \in Users : lastGood'[v] >= lastGood[v]
      BY <2>1 DEF FadeInv, Times
    <2>3. WhoIsWho'
      BY <2>1 DEF FadeInv, WhoIsWho
    <2> QED BY <2>1, <2>2, <2>3, ForwardKeeps
  <1>6. ASSUME NEW u \in Users, A!LoginCheck(u) PROVE FadeInv'
    <2>1. WhoIsWho' /\ UNCHANGED <<session, acted, clock, lastGood>>
      BY <1>6 DEF A!LoginCheck, FadeInv, WhoIsWho
    <2> QED BY <2>1, StillKeeps
  <1>7. CASE A!LoginRefused \/ A!Decide \/ A!Perform
    <2>1. UNCHANGED <<session, acted, clock, lastGood, adding>> /\ login' \in {login, ""}
      BY <1>7 DEF A!LoginRefused, A!Decide, A!Perform
    <2>2. WhoIsWho'
      BY <2>1 DEF FadeInv, WhoIsWho
    <2> QED BY <2>1, <2>2, StillKeeps
  <1>8. ASSUME NEW t \in Tokens, A!LoginPut(t) PROVE FadeInv'
    <2> DEFINE new == [user |-> login, expires |-> clock + TTL, revoked |-> FALSE]
    <2>1. PICK u \in Users : u = login
      BY <1>8 DEF A!LoginPut, FadeInv, WhoIsWho
    <2>2. /\ login' = "" /\ session' = [session EXCEPT ![t] = new]
          /\ lastGood' = [lastGood EXCEPT ![u] = clock]
          /\ UNCHANGED <<clock, adding, acted>>
      BY <1>8, <2>1 DEF A!LoginPut
    <2>3. clock + TTL \in Nat
      BY Lifetime DEF FadeInv, Times
    <2>4. new \in SessionRecords
      BY <2>1, <2>3 DEF SessionRecords
    <2>5. WhoIsWho'
      BY <2>2, <2>4 DEF FadeInv, WhoIsWho
    <2>6. Times' /\ (\A v \in Users : lastGood'[v] >= lastGood[v]) /\ A!DisabledUsersFade'
      <3>1. lastGood' = [lastGood EXCEPT ![u] = clock] /\ UNCHANGED <<clock, acted>>
        BY <2>2
      <3>2. Times' /\ \A v \in Users : lastGood'[v] >= lastGood[v]
        BY <3>1 DEF FadeInv, Times
      <3>3. A!DisabledUsersFade'
        BY <3>1, <3>2, Lifetime DEF FadeInv, Times, A!DisabledUsersFade
      <3> QED BY <3>2, <3>3
    <2>7. SessionsFade'
      <3> SUFFICES ASSUME NEW s \in Tokens, NEW v \in Users, session'[s].user = v
                   PROVE  lastGood'[v] >= 0 /\ session'[s].expires <= lastGood'[v] + TTL
        BY DEF SessionsFade
      <3>1. CASE s = t
        <4>1. session'[s].user = u /\ session'[s].expires = clock + TTL
          BY <2>1, <2>2, <3>1 DEF FadeInv, WhoIsWho
        <4>2. lastGood'[v] = clock
          BY <2>2, <4>1 DEF FadeInv, Times
        <4> QED BY <2>3, <4>1, <4>2, Lifetime DEF FadeInv, Times
      <3>2. CASE s # t
        <4>1. session'[s] = session[s]
          BY <2>2, <3>2 DEF FadeInv, WhoIsWho
        <4>2. session[s].expires \in Nat
          BY SessionFields DEF FadeInv
        <4>3. lastGood[v] >= 0 /\ session[s].expires <= lastGood[v] + TTL
          BY <4>1 DEF FadeInv, SessionsFade
        <4> QED BY <2>6, <4>1, <4>2, <4>3, Lifetime DEF FadeInv, Times
      <3> QED BY <3>1, <3>2
    <2> QED BY <2>5, <2>6, <2>7 DEF FadeInv
  <1>9. ASSUME NEW t \in Tokens, A!Logout(t) PROVE FadeInv'
    <2>1. /\ session' = [session EXCEPT ![t].revoked = TRUE]
          /\ UNCHANGED <<clock, adding, login, acted, lastGood>>
      BY <1>9 DEF A!Logout
    <2>2. /\ session' \in [Tokens -> SessionRecords]
          /\ \A s \in Tokens : session'[s].user = session[s].user
                               /\ session'[s].expires = session[s].expires
      BY <2>1 DEF FadeInv, WhoIsWho, SessionRecords
    <2>3. WhoIsWho' /\ Times' /\ A!DisabledUsersFade'
      BY <2>1, <2>2 DEF FadeInv, WhoIsWho, Times, A!DisabledUsersFade
    <2>4. SessionsFade'
      BY <2>1, <2>2 DEF FadeInv, SessionsFade
    <2> QED BY <2>3, <2>4 DEF FadeInv
  <1>10. ASSUME NEW t \in Tokens, A!Get(t) \/ \E path \in DOMAIN A!RoutePerms : A!Gate(t, path)
         PROVE  FadeInv'
    <2>1. /\ A!Valid(t) /\ acted' = [acted EXCEPT ![session[t].user] = clock]
          /\ UNCHANGED <<session, clock, adding, login, lastGood>>
      BY <1>10 DEF A!Get, A!Gate
    <2>2. PICK u \in Users : u = session[t].user
      BY <2>1, SessionFields DEF FadeInv
    <2> QED BY <2>1, <2>2, RequestKeeps
  <1> QED BY <1>1, <1>2, <1>3, <1>4, <1>5, <1>6, <1>7, <1>8, <1>9, <1>10
          DEF A!AcctNext, A!CmdUser, A!HandlePost

\* Sessions outlive a disabled account, but no request of its user passes the gate a
\* session's lifetime or more after the account was last good (auth.py:
\* validate_session looks at the session only; login gives it expires_at), whoever is
\* signed in, disabled or enabled meanwhile.
THEOREM UsersFade ==
  ASSUME A!AccountsAssumption
  PROVE  A!AcctSpec => []A!DisabledUsersFade
  <1>1. FadeInv => A!DisabledUsersFade
    BY DEF FadeInv
  <1> QED BY <1>1, FadeInit, FadeStep, PTL DEF A!AcctSpec

-----------------------------------------------------------------------------
\* The ranges of accounts and votes, and of the request that is being handled.  An
\* account that was read as one, by a login or for a session, has a role.
Roles == {"", "viewer", "operator", "admin"}

NewRoles == Roles \ {""}

Ballots == [by : Users \cup {"web"}, role : Roles]

Records ==
  /\ WhoIsWho
  /\ account \in [Users -> [role : Roles, disabled : BOOLEAN]]
  /\ votes \subseteq Ballots
  /\ minRole \in {"", "admin"}
  /\ post # A!NoPost => post.token \in Tokens /\ post.path \in DOMAIN A!RoutePerms

HasRole(u) == account[u].role # ""

KnownUsers ==
  /\ login # "" => HasRole(login)
  /\ \A t \in Tokens : session[t].user # "" => HasRole(session[t].user)

MayDecide(u) == A!Authorized(account[u].role, "approval:decide")

\* What every vote stands for, whoever interleaves.
VotesCount ==
  \A v \in votes :
    /\ \A w \in votes : w.by = v.by => w = v
    /\ A!RoleSatisfies(v.role, minRole)
    /\ v.role = "" => v.by = "web"

\* Whose the votes and the request under way are, while the commands and the requests
\* take turns: nothing else is under way.
OneAtATime ==
  /\ \A a, b \in adding : a = b
  /\ adding # {} => login = "" /\ post = A!NoPost
  /\ login # "" => post = A!NoPost
  /\ \A new \in adding : A!NameFree(new.user)

DecidersOnly ==
  /\ post # A!NoPost /\ post.path = "approve" =>
       session[post.token].user # "" /\ MayDecide(session[post.token].user)
  /\ \A v \in votes : v.role # "" => v.by \in Users /\ MayDecide(v.by)

VoteInv ==
  /\ Records /\ KnownUsers /\ VotesCount
  /\ acctTurns => OneAtATime /\ DecidersOnly

-----------------------------------------------------------------------------
LEMMA VoteInit == A!AccountsAssumption /\ A!AcctInit => VoteInv
  <1> SUFFICES ASSUME A!AccountsAssumption, A!AcctInit PROVE VoteInv
    OBVIOUS
  <1>1. WhoIsWho
    BY FadeInit DEF FadeInv
  <1>2. Records
    BY <1>1 DEF A!AcctInit, Records, A!NoAccount, Roles
  <1>3. KnownUsers
    BY DEF A!AcctInit, KnownUsers, A!NoSession
  <1>4. VotesCount /\ OneAtATime /\ DecidersOnly
    BY DEF A!AcctInit, VotesCount, OneAtATime, DecidersOnly
  <1> QED BY <1>2, <1>3, <1>4 DEF VoteInv

\* A step that leaves the records alone.
LEMMA SameVotes ==
  ASSUME VoteInv, UNCHANGED <<account, session, adding, login, post, votes, minRole, acctTurns>>
  PROVE  VoteInv'
  <1>1. Records' /\ KnownUsers' /\ VotesCount'
    BY DEF VoteInv, Records, WhoIsWho, KnownUsers, HasRole, VotesCount
  <1>2. acctTurns => OneAtATime' /\ DecidersOnly'
    BY DEF VoteInv, OneAtATime, A!NameFree, DecidersOnly, MayDecide
  <1> QED BY <1>1, <1>2 DEF VoteInv

\* Who has no role may not decide.
LEMMA NobodyDecides == \A u : MayDecide(u) => HasRole(u)
  BY DEF MayDecide, HasRole, A!Authorized, A!Grants

\* An account is put or changed: whoever has a role keeps one, and in turns it is the
\* role he has.
LEMMA RolesKept ==
  ASSUME VoteInv, Records', UNCHANGED <<session, post, votes, minRole, acctTurns>>,
         login' = login,
         \A u \in Users : HasRole(u) =>
           HasRole(u)' /\ (acctTurns => account'[u].role = account[u].role),
         acctTurns => OneAtATime'
  PROVE  VoteInv'
  <1>1. \A t \in Tokens : session[t].user \in Users \cup {""}
    BY DEF VoteInv, Records, WhoIsWho, SessionRecords
  <1>2. KnownUsers'
    BY <1>1 DEF VoteInv, Records, WhoIsWho, KnownUsers
  <1>3. VotesCount'
    BY DEF VoteInv, VotesCount
  <1>4. ASSUME acctTurns, NEW u \in Users, MayDecide(u) PROVE MayDecide(u)'
    BY <1>4, NobodyDecides DEF MayDecide
  <1>5. acctTurns => DecidersOnly'
    <2> SUFFICES ASSUME acctTurns PROVE DecidersOnly'
      OBVIOUS
    <2>1. DecidersOnly
      BY DEF VoteInv
    <2>2. ASSUME post # A!NoPost, post.path = "approve"
          PROVE  session[post.token].user # "" /\ MayDecide(session[post.token].user)'
      <3>1. post.token \in Tokens
        BY <2>2 DEF VoteInv, Records
      <3>2. PICK u \in Users : u = session[post.token].user
        BY <1>1, <2>1, <2>2, <3>1 DEF DecidersOnly
      <3>3. MayDecide(u)'
        BY <1>4, <2>1, <2>2, <3>2 DEF DecidersOnly
      <3> QED BY <2>1, <2>2, <3>2, <3>3 DEF DecidersOnly, MayDecide
    <2>3. ASSUME NEW v \in votes, v.role # "" PROVE v.by \in Users /\ MayDecide(v.by)'
      <3>1. PICK u \in Users : u = v.by
        BY <2>1, <2>3 DEF DecidersOnly
      <3>2. MayDecide(u)'
        BY <1>4, <2>1, <2>3, <3>1 DEF DecidersOnly
      <3> QED BY <3>1, <3>2
    <2> QED BY <2>2, <2>3 DEF DecidersOnly
  <1> QED BY <1>2, <1>3, <1>5 DEF VoteInv

\* A session is put or ended, or a login is under way, and no request is.
LEMMA SessionsMove ==
  ASSUME VoteInv, WhoIsWho', UNCHANGED <<account, adding, post, votes, minRole, acctTurns>>,
         login' # "" => HasRole(login'),
         \A t \in Tokens : session'[t].user # "" => HasRole(session'[t].user),
         acctTurns /\ (adding # {} \/ post # A!NoPost) => login' = "",
         post # A!NoPost => session'[post.token].user = session[post.token].user
  PROVE  VoteInv'
  <1>1. Records'
    BY DEF VoteInv, Records
  <1>2. KnownUsers'
    BY DEF KnownUsers, HasRole
  <1>3. VotesCount'
    BY DEF VoteInv, VotesCount
  <1>4. acctTurns => OneAtATime' /\ DecidersOnly'
    BY DEF VoteInv, OneAtATime, A!NameFree, DecidersOnly, MayDecide
  <1> QED BY <1>1, <1>2, <1>3, <1>4 DEF VoteInv

\* A vote, of whoever the cookie now says it is of.
LEMMA DecideVotes ==
  ASSUME A!AccountsAssumption, VoteInv, A!Decide
  PROVE  VoteInv'
  <1> DEFINE voter == A!CookieUser(post.token)
             by == IF voter.by = "" THEN "web" ELSE voter.by
             ballot == [by |-> by, role |-> voter.role]
  <1>1. /\ Records /\ KnownUsers /\ VotesCount /\ (acctTurns => OneAtATime /\ DecidersOnly)
        /\ post # A!NoPost /\ post.path = "approve" /\ post.token \in Tokens
    BY DEF VoteInv, Records, A!Decide
  <1>2. \/ votes' = votes
        \/ /\ A!RoleSatisfies(voter.role, minRole)
           /\ votes' = {v \in votes : v.by # by} \cup {ballot}
    BY DEF A!Decide
  <1>3. post' = A!NoPost /\ UNCHANGED <<account, session, clock, adding, login, minRole, acctTurns>>
    BY DEF A!Decide, A!fixed
  <1>4. \/ by = "web" /\ voter.role = ""
        \/ /\ by \in Users /\ by = session[post.token].user
           /\ voter.role = account[by].role /\ HasRole(by)
    <2>1. CASE A!Valid(post.token)
      <3>1. PICK u \in Users : u = session[post.token].user
        BY <1>1, <2>1, SessionFields DEF Records
      <3>2. u # "" /\ HasRole(u)
        BY <1>1, <3>1 DEF KnownUsers, A!AccountsAssumption
      <3> QED BY <2>1, <3>1, <3>2 DEF A!CookieUser
    <2>2. CASE ~A!Valid(post.token)
      BY <2>2 DEF A!CookieUser
    <2> QED BY <2>1, <2>2
  <1>5. ballot.by = by /\ ballot.role = voter.role
    OBVIOUS
  <1> HIDE DEF voter, by
  <1>6. ballot \in Ballots
    BY <1>1, <1>4 DEF Records, Ballots, Roles
  <1> HIDE DEF ballot
  <1>7. Records'
    BY <1>1, <1>2, <1>3, <1>6 DEF Records, WhoIsWho
  <1>8. KnownUsers'
    BY <1>1, <1>3 DEF KnownUsers, HasRole
  <1>9. VotesCount'
    BY <1>1, <1>2, <1>3, <1>4, <1>5 DEF VotesCount, HasRole
  <1>10. acctTurns => OneAtATime' /\ DecidersOnly'
    <2> SUFFICES ASSUME acctTurns PROVE OneAtATime' /\ DecidersOnly'
      OBVIOUS
    <2>1. OneAtATime'
      BY <1>1, <1>3 DEF OneAtATime, A!NameFree
    <2>2. ballot.role # "" => ballot.by \in Users /\ MayDecide(ballot.by)
      BY <1>1, <1>4, <1>5 DEF DecidersOnly
    <2>3. \A v \in votes' : v.role # "" => v.by \in Users /\ MayDecide(v.by)
      BY <1>1, <1>2, <2>2 DEF DecidersOnly
    <2>4. DecidersOnly'
      BY <1>3, <2>3 DEF DecidersOnly, MayDecide
    <2> QED BY <2>1, <2>4
  <1> QED BY <1>3, <1>7, <1>8, <1>9, <1>10 DEF VoteInv

LEMMA VoteStep ==
  A!AccountsAssumption /\ FadeInv /\ VoteInv /\ [A!AcctNext]_(A!acctVars) => VoteInv'
  <1> SUFFICES ASSUME A!AccountsAssumption, FadeInv, VoteInv, [A!AcctNext]_(A!acctVars)
               PROVE  VoteInv'
    OBVIOUS
  <1> USE DEF A!fixed
  <1>1. Records /\ WhoIsWho /\ WhoIsWho' /\ KnownUsers
    BY FadeStep DEF FadeInv, VoteInv, Records
  <1>2. CASE UNCHANGED A!acctVars \/ A!Tick \/ \E t \in Tokens : A!Get(t)
    <2>1. UNCHANGED <<account, session, adding, login, post, votes, minRole, acctTurns>>
      BY <1>2 DEF A!acctVars, A!Tick, A!Get
    <2> QED BY <2>1, SameVotes
  <1>3. ASSUME NEW u \in Users,
               A!Onboard(u) \/ \E role \in {"viewer", "operator"} : A!AddUser(u, role)
        PROVE  VoteInv'
    <2>1. PICK role \in {"viewer", "operator", "admin"} :
            adding' = adding \cup {[user |-> u, role |-> role]}
      BY <1>3 DEF A!Onboard, A!AddUser
    <2>2. /\ A!Quiet /\ A!NameFree(u)
          /\ UNCHANGED <<account, session, login, post, votes, minRole, acctTurns>>
      BY <1>3 DEF A!Onboard, A!AddUser, A!NameFree
    <2>3. Records'
      BY <1>1, <2>2 DEF Records
    <2>4. ASSUME acctTurns PROVE OneAtATime'
      <3>1. adding = {} /\ login = "" /\ post = A!NoPost
        BY <2>2, <2>4 DEF A!Quiet
      <3>2. PICK new : new = [user |-> u, role |-> role]
        OBVIOUS
      <3>3. adding' = {new} /\ new.user = u
        BY <2>1, <3>1, <3>2
      <3> QED BY <2>2, <3>1, <3>3 DEF OneAtATime, A!NameFree
    <2> QED BY <2>2, <2>3, <2>4, RolesKept DEF HasRole
  <1>4. ASSUME NEW new \in adding, A!PutUser(new) PROVE VoteInv'
    <2>1. PICK u \in Users, role \in NewRoles : u = new.user /\ role = new.role
      BY <1>1 DEF WhoIsWho, Newcomers, NewRoles, Roles
    <2>2. /\ account' = [account EXCEPT ![u] = [role |-> role, disabled |-> FALSE]]
          /\ adding' = adding \ {new}
          /\ UNCHANGED <<session, login, post, votes, minRole, acctTurns>>
      BY <1>4, <2>1 DEF A!PutUser
    <2>3. Records'
      BY <1>1, <2>1, <2>2 DEF Records, NewRoles
    <2>4. acctTurns => OneAtATime /\ A!NameFree(u) /\ adding' = {}
      BY <2>1, <2>2 DEF VoteInv, OneAtATime
    <2>5. acctTurns => OneAtATime'
      BY <2>2, <2>4 DEF OneAtATime
    <2>6. \A v \in Users : HasRole(v) =>
            HasRole(v)' /\ (acctTurns => account'[v].role = account[v].role)
      BY <1>1, <2>1, <2>2, <2>4 DEF Records, HasRole, A!NameFree, NewRoles
    <2> QED BY <2>2, <2>3, <2>5, <2>6, RolesKept
  <1>5. ASSUME NEW u \in Users, NEW disabled \in BOOLEAN, A!SetDisabled(u, disabled)
        PROVE  VoteInv'
    <2>1. /\ account' = [account EXCEPT ![u].disabled = disabled]
          /\ UNCHANGED <<session, adding, login, post, votes, minRole, acctTurns>>
      BY <1>5 DEF A!SetDisabled
    <2>2. Records' /\ \A v \in Users : account'[v].role = account[v].role
      BY <1>1, <2>1 DEF Records
    <2>3. acctTurns => OneAtATime'
      BY <1>1, <2>1, <2>2 DEF VoteInv, OneAtATime, A!NameFree, WhoIsWho, Newcomers
    <2> QED BY <2>1, <2>2, <2>3, RolesKept DEF HasRole
  <1>6. ASSUME NEW u \in Users, A!LoginCheck(u) PROVE VoteInv'
    <2>1. /\ login' = u /\ HasRole(u) /\ A!Quiet
          /\ UNCHANGED <<account, session, adding, post, votes, minRole, acctTurns>>
      BY <1>6 DEF A!LoginCheck, A!Enabled, HasRole
    <2> QED BY <1>1, <2>1, SessionsMove DEF KnownUsers, A!Quiet
  <1>7. CASE A!LoginRefused
    <2>1. login' = "" /\ UNCHANGED <<account, session, adding, post, votes, minRole, acctTurns>>
      BY <1>7 DEF A!LoginRefused
    <2> QED BY <1>1, <2>1, SessionsMove DEF KnownUsers
  <1>8. ASSUME NEW t \in Tokens, A!LoginPut(t) PROVE VoteInv'
    <2>1. /\ login # "" /\ session[t] = A!NoSession /\ login' = ""
          /\ session' = [session EXCEPT ![t] =
                          [user |-> login, expires |-> clock + TTL, revoked |-> FALSE]]
          /\ UNCHANGED <<account, adding, post, votes, minRole, acctTurns>>
      BY <1>8 DEF A!LoginPut
    <2>2. \A s \in Tokens :
            session'[s].user = IF s = t THEN login ELSE session[s].user
      BY <1>1, <2>1 DEF WhoIsWho
    <2>3. \A s \in Tokens : session'[s].user # "" => HasRole(session'[s].user)
      BY <1>1, <2>1, <2>2 DEF KnownUsers
    <2>4. CASE acctTurns
      <3>1. post = A!NoPost
        BY <2>1, <2>4 DEF VoteInv, OneAtATime
      <3> QED BY <1>1, <2>1, <2>3, <3>1, SessionsMove
    <2>5. CASE ~acctTurns
      <3>1. Records' /\ KnownUsers' /\ VotesCount'
        BY <1>1, <2>1, <2>3 DEF VoteInv, Records, KnownUsers, HasRole, VotesCount
      <3> QED BY <2>1, <2>5, <3>1 DEF VoteInv
    <2> QED BY <2>4, <2>5
  <1>9. ASSUME NEW t \in Tokens, A!Logout(t) PROVE VoteInv'
    <2>1. /\ session' = [session EXCEPT ![t].revoked = TRUE] /\ A!Quiet
          /\ UNCHANGED <<account, adding, login, post, votes, minRole, acctTurns>>
      BY <1>9 DEF A!Logout
    <2>2. \A s \in Tokens : session'[s].user = session[s].user
      BY <1>1, <2>1 DEF WhoIsWho, SessionRecords
    <2>3. post # A!NoPost => post.token \in Tokens
      BY <1>1 DEF Records
    <2> QED BY <1>1, <2>1, <2>2, <2>3, SessionsMove DEF KnownUsers, VoteInv, OneAtATime
  <1>10. ASSUME NEW t \in Tokens, NEW path \in DOMAIN A!RoutePerms, A!Gate(t, path) PROVE VoteInv'
    <2>1. /\ A!Quiet /\ A!Valid(t) /\ A!Authorized(A!CookieUser(t).role, A!RoutePerms[path])
          /\ post' = [token |-> t, path |-> path]
          /\ UNCHANGED <<account, session, adding, login, votes, minRole, acctTurns>>
      BY <1>10 DEF A!Gate
    <2>2. Records' /\ KnownUsers' /\ VotesCount'
      BY <1>1, <2>1 DEF VoteInv, Records, KnownUsers, HasRole, VotesCount
    <2>3. session[t].user # "" /\ (path = "approve" => MayDecide(session[t].user))
      <3>1. A!CookieUser(t).role = account[session[t].user].role /\ session[t].user # ""
        BY <2>1 DEF A!Valid, A!CookieUser
      <3>2. path = "approve" => A!RoutePerms[path] = "approval:decide"
        BY DEF A!RoutePerms
      <3> QED BY <2>1, <3>1, <3>2 DEF MayDecide
    <2>4. acctTurns => OneAtATime' /\ DecidersOnly'
      BY <2>1, <2>3 DEF VoteInv, A!Quiet, OneAtATime, DecidersOnly, MayDecide
    <2> QED BY <2>1, <2>2, <2>4 DEF VoteInv
  <1>11. CASE A!Decide
    BY <1>11, DecideVotes
  <1>12. CASE A!Perform
    <2>1. /\ post' = A!NoPost
          /\ UNCHANGED <<account, session, adding, login, votes, minRole, acctTurns>>
      BY <1>12 DEF A!Perform
    <2>2. Records' /\ KnownUsers' /\ VotesCount'
      BY <1>1, <2>1 DEF VoteInv, Records, KnownUsers, HasRole, VotesCount
    <2>3. acctTurns => OneAtATime' /\ DecidersOnly'
      BY <2>1 DEF VoteInv, OneAtATime, A!NameFree, DecidersOnly, MayDecide
    <2> QED BY <2>1, <2>2, <2>3 DEF VoteInv
  <1> QED BY <1>2, <1>3, <1>4, <1>5, <1>6, <1>7, <1>8, <1>9, <1>10, <1>11, <1>12
          DEF A!AcctNext, A!CmdUser, A!HandlePost

\* Every vote over the web meets the least role asked for, and one with a role is, in
\* turns, of a user who may decide, although the cookie is read again after the gate
\* (web.py: _gate_mutate, _cookie_user and _decide).
THEOREM VotersCount ==
  ASSUME A!AccountsAssumption
  PROVE  A!AcctSpec => []A!VotersMayDecide
  <1>1. VoteInv => A!VotersMayDecide
    <2> SUFFICES ASSUME VoteInv, NEW v \in votes
                 PROVE  /\ \A w \in votes : w.by = v.by => w = v
                        /\ A!RoleSatisfies(v.role, minRole)
                        /\ IF v.role = "" THEN v.by = "web" /\ minRole = ""
                           ELSE acctTurns => A!Authorized(account[v.by].role, "approval:decide")
      BY DEF A!VotersMayDecide
    <2>1. /\ A!RoleSatisfies(v.role, minRole) /\ (v.role = "" => v.by = "web")
          /\ \A w \in votes : w.by = v.by => w = v
      BY DEF VoteInv, VotesCount
    <2>2. A!RoleSatisfies("", minRole) => minRole = ""
      <3>1. minRole \in {"", "admin"}
        BY DEF VoteInv, Records
      <3>2. "admin" \in A!LadderRoles /\ ~(A!RoleRank("") >= A!RoleRank("admin"))
        BY DEF A!RoleRank, A!LadderRoles, A!RoleRanks
      <3>3. ~A!RoleSatisfies("", "admin")
        BY <3>2, Zenon DEF A!RoleSatisfies
      <3> QED BY <3>1, <3>3
    <2>3. acctTurns /\ v.role # "" => A!Authorized(account[v.by].role, "approval:decide")
      BY DEF VoteInv, DecidersOnly, MayDecide
    <2> QED BY <2>1, <2>2, <2>3
  <1>2. A!AcctInit => FadeInv /\ VoteInv
    BY FadeInit, VoteInit
  <1>3. FadeInv /\ VoteInv /\ [A!AcctNext]_(A!acctVars) => (FadeInv /\ VoteInv)'
    BY FadeStep, VoteStep
  <1> QED BY <1>1, <1>2, <1>3, PTL DEF A!AcctSpec

\* In turns an account keeps the role it was made with: a name that was free when the
\* password was hashed is still free when the account is put (auth.py: create_user,
\* disable_user and enable_user).
THEOREM RolesStay ==
  ASSUME A!AccountsAssumption
  PROVE  A!AcctSpec => [][A!RoleStays]_(A!acctVars)
  <1>1. FadeInv /\ VoteInv /\ [A!AcctNext]_(A!acctVars) => [A!RoleStays]_(A!acctVars)
    <2> SUFFICES ASSUME FadeInv, VoteInv, A!AcctNext, acctTurns,
                        NEW u \in Users, account[u].role # ""
                 PROVE  account'[u].role = account[u].role
      BY DEF A!RoleStays
    <2>1. Records
      BY DEF VoteInv
    <2>2. ASSUME NEW new \in adding, A!PutUser(new) PROVE account'[u].role = account[u].role
      <3>1. new.user # u
        BY <2>2 DEF VoteInv, OneAtATime, A!NameFree
      <3> QED BY <2>1, <2>2, <3>1 DEF A!PutUser, Records
    <2>3. ASSUME NEW v \in Users, NEW disabled \in BOOLEAN, A!SetDisabled(v, disabled)
          PROVE  account'[u].role = account[u].role
      BY <2>1, <2>3 DEF A!SetDisabled, Records
    <2>4. \/ UNCHANGED account
          \/ \E new \in adding : A!PutUser(new)
          \/ \E v \in Users, disabled \in BOOLEAN : A!SetDisabled(v, disabled)
      BY Zenon DEF A!AcctNext, A!CmdUser, A!HandlePost, A!Tick, A!Decide, A!Perform,
                   A!LoginRefused, A!LoginCheck, A!LoginPut, A!Logout, A!Gate, A!Onboard, A!AddUser,
                   A!Get
    <2> QED BY <2>2, <2>3, <2>4
  <1>2. A!AcctInit => FadeInv /\ VoteInv
    BY FadeInit, VoteInit
  <1>3. FadeInv /\ VoteInv /\ [A!AcctNext]_(A!acctVars) => (FadeInv /\ VoteInv)'
    BY FadeStep, VoteStep
  <1> QED BY <1>1, <1>2, <1>3, PTL DEF A!AcctSpec

-----------------------------------------------------------------------------
(***************************************************************************)
(* Incidents.                                                              *)
(***************************************************************************)
\* The lists of writes a command may still have before it.
Programs ==
  {<<>>,
   <<"lock", "persist", "opened">>, <<"persist", "opened">>, <<"opened">>,
   <<"lock", "persist", "opened", "lockdown">>, <<"persist", "opened", "lockdown">>,
   <<"opened", "lockdown">>,
   <<"lock", "lockdown">>, <<"lockdown">>,
   <<"close", "closed">>, <<"closed">>}

Timelines == [opened : Nat, closed : Nat, rejected : Nat, lockdown : Nat]

\* The ranges.
IncRanges ==
  /\ level \in I!Levels
  /\ incident \in {"open", "closed"}
  /\ timeline \in Timelines
  /\ incTodo \in [Operators -> Programs]
  /\ thawed \in BOOLEAN

Frozen == thawed \/ level = "locked"

\* The next write comes after the lock of the same incident.
PastTheLock(program) == program # <<>> /\ Head(program) \in {"persist", "opened"}

\* The inductive invariant.
FreezeInv ==
  /\ IncRanges
  /\ incident = "open" \/ timeline.opened > 0 => Frozen
  /\ \A o \in Operators : PastTheLock(incTodo[o]) => Frozen

-----------------------------------------------------------------------------
\* What is left of a list of writes is such a list again, and it is past the lock
\* only if the list was, or began with the lock.
LEMMA TailsAreProgrammes ==
  ASSUME NEW program \in Programs, program # <<>>
  PROVE  /\ Tail(program) \in Programs
         /\ Head(program) \in {"lock", "persist", "opened", "lockdown", "close", "closed"}
         /\ PastTheLock(Tail(program)) => Head(program) \in {"lock", "persist"}
  <1>1. CASE program = <<"lock", "persist", "opened">>
    BY <1>1 DEF Programs, PastTheLock
  <1>2. CASE program = <<"persist", "opened">>
    BY <1>2 DEF Programs, PastTheLock
  <1>3. CASE program = <<"lock", "persist", "opened", "lockdown">>
    BY <1>3 DEF Programs, PastTheLock
  <1>4. CASE program = <<"persist", "opened", "lockdown">>
    BY <1>4 DEF Programs, PastTheLock
  <1>5. CASE program = <<"opened", "lockdown">>
    BY <1>5 DEF Programs, PastTheLock
  <1>6. CASE program = <<"lock", "lockdown">>
    BY <1>6 DEF Programs, PastTheLock
  <1>7. CASE program = <<"close", "closed">>
    BY <1>7 DEF Programs, PastTheLock
  <1>8. CASE program = <<"opened">>
    BY <1>8 DEF Programs, PastTheLock
  <1>9. CASE program = <<"lockdown">>
    BY <1>9 DEF Programs, PastTheLock
  <1>10. CASE program = <<"closed">>
    BY <1>10 DEF Programs, PastTheLock
  <1> QED BY <1>1, <1>2, <1>3, <1>4, <1>5, <1>6, <1>7, <1>8, <1>9, <1>10 DEF Programs

\* lockdown() with no incident: a declaration, and a line of its own.
LEMMA LockdownDeclares ==
  I!Declaring \o <<"lockdown">> = <<"lock", "persist", "opened", "lockdown">>
  <1> DEFINE Words == {"lock", "persist", "opened", "lockdown"}
             s == I!Declaring \o <<"lockdown">>
             t == <<"lock", "persist", "opened", "lockdown">>
  <1>1. I!Declaring \in Seq(Words) /\ <<"lockdown">> \in Seq(Words) /\ t \in Seq(Words)
    <2>1. t \in Seq(Words)
      OBVIOUS
    <2>2. <<"lockdown">> \in Seq(Words)
      OBVIOUS
    <2>3. <<"lock", "persist", "opened">> \in Seq(Words)
      OBVIOUS
    <2> QED BY <2>1, <2>2, <2>3 DEF I!Declaring
  <1>2. s \in Seq(Words) /\ Len(s) = 4 /\ Len(t) = 4
    BY <1>1 DEF I!Declaring
  <1>3. \A i \in 1 .. 4 : s[i] = t[i]
    BY <1>1, <1>2 DEF I!Declaring
  <1> QED BY <1>1, <1>2, <1>3, SeqEqual

\* The lists a command begins with; none of them is past its lock.
LEMMA Beginnings ==
  /\ I!Declaring \in Programs /\ ~PastTheLock(I!Declaring)
  /\ I!Declaring \o <<"lockdown">> \in Programs /\ ~PastTheLock(I!Declaring \o <<"lockdown">>)
  /\ <<"lock", "lockdown">> \in Programs /\ ~PastTheLock(<<"lock", "lockdown">>)
  /\ <<"close", "closed">> \in Programs /\ ~PastTheLock(<<"close", "closed">>)
  /\ <<>> \in Programs /\ ~PastTheLock(<<>>)
  <1>1. I!Declaring \o <<"lockdown">> = <<"lock", "persist", "opened", "lockdown">>
    BY LockdownDeclares
  <1> QED BY <1>1 DEF Programs, PastTheLock, I!Declaring

\* A command that begins leaves the level and what there is of incidents alone, and
\* its list is not past the lock.
LEMMA SetOutKeeps ==
  ASSUME FreezeInv, NEW o \in Operators, NEW program \in Programs, ~PastTheLock(program),
         incTodo' = [incTodo EXCEPT ![o] = program],
         UNCHANGED <<level, incident, thawed>>, timeline' \in Timelines,
         timeline'.opened = timeline.opened
  PROVE  FreezeInv'
  BY DEF FreezeInv, IncRanges, Frozen

\* A write: its list was one, and so is what is left.
LEMMA WriteTakesHead ==
  ASSUME IncRanges, NEW o \in Operators, NEW write, I!Does(o, write)
  PROVE  /\ incTodo[o] \in Programs /\ incTodo[o] # <<>> /\ Head(incTodo[o]) = write
         /\ Tail(incTodo[o]) \in Programs
         /\ PastTheLock(Tail(incTodo[o])) => write \in {"lock", "persist"}
         /\ incTodo' = [incTodo EXCEPT ![o] = Tail(incTodo[o])]
         /\ incTodo' \in [Operators -> Programs]
  <1>1. incTodo[o] \in Programs /\ incTodo[o] # <<>> /\ Head(incTodo[o]) = write
    BY DEF IncRanges, I!Does
  <1>2. /\ Tail(incTodo[o]) \in Programs
        /\ PastTheLock(Tail(incTodo[o])) => write \in {"lock", "persist"}
    BY <1>1, TailsAreProgrammes
  <1>3. incTodo' = [incTodo EXCEPT ![o] = Tail(incTodo[o])]
    BY DEF I!Does
  <1> QED BY <1>1, <1>2, <1>3 DEF IncRanges

LEMMA FreezeInit == I!IncInit => FreezeInv
  <1> SUFFICES ASSUME I!IncInit PROVE FreezeInv
    OBVIOUS
  <1>1. incTodo \in [Operators -> Programs] /\ \A o \in Operators : ~PastTheLock(incTodo[o])
    BY Beginnings DEF I!IncInit
  <1>2. timeline \in Timelines /\ timeline.opened = 0
    BY DEF I!IncInit, Timelines
  <1>3. level \in I!Levels /\ incident = "closed" /\ thawed \in BOOLEAN
    BY DEF I!IncInit, I!Levels
  <1>4. IncRanges
    BY <1>1, <1>2, <1>3 DEF IncRanges
  <1> QED BY <1>1, <1>2, <1>3, <1>4 DEF FreezeInv

LEMMA FreezeStep == FreezeInv /\ [I!IncNext]_(I!incVars) => FreezeInv'
  <1> SUFFICES ASSUME FreezeInv, [I!IncNext]_(I!incVars) PROVE FreezeInv'
    OBVIOUS
  <1>1. CASE UNCHANGED I!incVars
    BY <1>1 DEF FreezeInv, IncRanges, Frozen, I!incVars
  <1>2. ASSUME NEW o \in Operators, I!CmdSafemode(o) PROVE FreezeInv'
    BY <1>2 DEF I!CmdSafemode, I!SetLevel, I!Begin, FreezeInv, IncRanges, Frozen, I!Levels
  <1>3. ASSUME NEW o \in Operators, I!OpenRefused(o) PROVE FreezeInv'
    BY <1>3 DEF I!OpenRefused, FreezeInv, IncRanges, Frozen, Timelines
  <1>4. ASSUME NEW o \in Operators, I!Open(o) PROVE FreezeInv'
    BY <1>4, Beginnings, SetOutKeeps DEF I!Open, FreezeInv, IncRanges
  <1>5. ASSUME NEW o \in Operators, I!Lockdown(o) PROVE FreezeInv'
    <2>1. PICK program \in {<<"lock", "lockdown">>, I!Declaring \o <<"lockdown">>} :
            incTodo' = [incTodo EXCEPT ![o] = program]
      BY <1>5 DEF I!Lockdown
    <2>2. program \in Programs /\ ~PastTheLock(program)
      BY <2>1, Beginnings
    <2> QED BY <1>5, <2>1, <2>2, SetOutKeeps DEF I!Lockdown, FreezeInv, IncRanges
  <1>6. ASSUME NEW o \in Operators, I!Close(o) PROVE FreezeInv'
    BY <1>6, Beginnings, SetOutKeeps DEF I!Close, FreezeInv, IncRanges
  <1>7. ASSUME NEW o \in Operators, I!Lock(o) PROVE FreezeInv'
    <2>1. incTodo' \in [Operators -> Programs]
      BY <1>7, WriteTakesHead DEF I!Lock, FreezeInv
    <2> QED BY <1>7, <2>1 DEF I!Lock, FreezeInv, IncRanges, Frozen, I!Levels
  <1>8. ASSUME NEW o \in Operators, I!Persist(o) PROVE FreezeInv'
    <2>1. I!Does(o, "persist") /\ IncRanges
      BY <1>8 DEF I!Persist, FreezeInv
    <2>2. incTodo' \in [Operators -> Programs] /\ PastTheLock(incTodo[o])
      BY <2>1, WriteTakesHead DEF PastTheLock
    <2>3. Frozen
      BY <2>2 DEF FreezeInv
    <2> QED BY <1>8, <2>2, <2>3 DEF I!Persist, FreezeInv, IncRanges, Frozen
  <1>9. ASSUME NEW o \in Operators, I!PersistClosed(o) PROVE FreezeInv'
    <2>1. I!Does(o, "close") /\ IncRanges
      BY <1>9 DEF I!PersistClosed, FreezeInv
    <2>2. /\ incTodo' = [incTodo EXCEPT ![o] = Tail(incTodo[o])]
          /\ incTodo' \in [Operators -> Programs]
          /\ ~PastTheLock(Tail(incTodo[o]))
      BY <2>1, WriteTakesHead
    <2> QED BY <1>9, <2>2 DEF I!PersistClosed, FreezeInv, IncRanges, Frozen
  <1>10. ASSUME NEW o \in Operators, I!Log(o) PROVE FreezeInv'
    <2>1. PICK event \in {"opened", "lockdown", "closed"} :
            I!Does(o, event) /\ timeline' = [timeline EXCEPT ![event] = @ + 1]
      BY <1>10 DEF I!Log
    <2>2. /\ incTodo[o] # <<>> /\ Head(incTodo[o]) = event
          /\ incTodo' = [incTodo EXCEPT ![o] = Tail(incTodo[o])]
          /\ incTodo' \in [Operators -> Programs]
          /\ ~PastTheLock(Tail(incTodo[o]))
      BY <2>1, WriteTakesHead DEF FreezeInv
    <2>3. timeline' \in Timelines /\ (event # "opened" => timeline'.opened = timeline.opened)
      <3>1. timeline \in Timelines
        BY DEF FreezeInv, IncRanges
      <3>2. CASE event = "opened"
        BY <2>1, <3>1, <3>2 DEF Timelines
      <3>3. CASE event = "lockdown"
        BY <2>1, <3>1, <3>3 DEF Timelines
      <3>4. CASE event = "closed"
        BY <2>1, <3>1, <3>4 DEF Timelines
      <3> QED BY <3>2, <3>3, <3>4
    <2>4. event = "opened" => Frozen
      BY <2>2 DEF FreezeInv, PastTheLock
    <2> QED BY <1>10, <2>2, <2>3, <2>4 DEF I!Log, FreezeInv, IncRanges, Frozen
  <1>11. ASSUME NEW o \in Operators, I!Die(o) PROVE FreezeInv'
    BY <1>11, Beginnings, SetOutKeeps DEF I!Die, FreezeInv, IncRanges
  <1> QED BY <1>1, <1>2, <1>3, <1>4, <1>5, <1>6, <1>7, <1>8, <1>9, <1>10, <1>11
          DEF I!IncNext, I!CmdIncident

\* An incident that was declared has frozen the workspace and nothing but an operator
\* who sets a lower level thaws it (incident.py: open, lockdown and close; safemode.py:
\* set_level), however the commands interleave and wherever they die.
THEOREM FreezeHolds == I!IncSpec => []I!FrozenUntilStoodDown
  <1>1. FreezeInv => I!FrozenUntilStoodDown
    BY DEF FreezeInv, Frozen, I!FrozenUntilStoodDown, IncRanges, Timelines
  <1> QED BY <1>1, FreezeInit, FreezeStep, PTL DEF I!IncSpec

-----------------------------------------------------------------------------
Balance == timeline.opened - timeline.closed

\* With such a list of writes still to make: is the incident's row open, and is
\* there one line opened more than closed?
RowIsOpen(program) ==
  IF program = <<>> THEN incident = "open"
  ELSE Head(program) \in {"opened", "lockdown", "close"} \/ program = <<"lock", "lockdown">>

LineIsThere(program) ==
  IF program = <<>> THEN incident = "open"
  ELSE Head(program) \in {"lockdown", "close", "closed"} \/ program = <<"lock", "lockdown">>

Fits(program) ==
  /\ incident = "open" <=> RowIsOpen(program)
  /\ Balance = IF LineIsThere(program) THEN 1 ELSE 0

\* With commands taking turns and none dead, one is under way at most, and its list
\* says how far the row and the lines are.
TimelineInv ==
  /\ IncRanges /\ incDeaths \in Nat
  /\ incTurns /\ incDeaths = 0 =>
       /\ \A o, p \in Operators : incTodo[o] # <<>> /\ incTodo[p] # <<>> => o = p
       /\ (\A o \in Operators : incTodo[o] = <<>>) => Fits(<<>>)
       /\ \A o \in Operators : incTodo[o] # <<>> => Fits(incTodo[o])

-----------------------------------------------------------------------------
\* How the row and the lines move on with each write of a list.
LEMMA TailsFit ==
  ASSUME NEW program \in Programs, program # <<>>
  PROVE  /\ Head(program) = "lock" =>
              /\ Tail(program) # <<>> /\ RowIsOpen(Tail(program)) = RowIsOpen(program)
              /\ LineIsThere(Tail(program)) = LineIsThere(program)
         /\ Head(program) = "persist" =>
              /\ ~LineIsThere(program) /\ Tail(program) # <<>>
              /\ RowIsOpen(Tail(program)) /\ ~LineIsThere(Tail(program))
         /\ Head(program) = "opened" =>
              /\ RowIsOpen(program) /\ ~LineIsThere(program)
              /\ Tail(program) # <<>> => RowIsOpen(Tail(program)) /\ LineIsThere(Tail(program))
         /\ Head(program) = "lockdown" =>
              RowIsOpen(program) /\ LineIsThere(program) /\ Tail(program) = <<>>
         /\ Head(program) = "close" =>
              /\ LineIsThere(program) /\ Tail(program) # <<>>
              /\ ~RowIsOpen(Tail(program)) /\ LineIsThere(Tail(program))
         /\ Head(program) = "closed" =>
              ~RowIsOpen(program) /\ LineIsThere(program) /\ Tail(program) = <<>>
  <1> USE DEF RowIsOpen, LineIsThere
  <1>1. CASE program = <<"lock", "persist", "opened">>
    BY <1>1
  <1>2. CASE program = <<"persist", "opened">>
    BY <1>2
  <1>3. CASE program = <<"lock", "persist", "opened", "lockdown">>
    BY <1>3
  <1>4. CASE program = <<"persist", "opened", "lockdown">>
    BY <1>4
  <1>5. CASE program = <<"opened", "lockdown">>
    BY <1>5
  <1>6. CASE program = <<"lock", "lockdown">>
    BY <1>6
  <1>7. CASE program = <<"close", "closed">>
    BY <1>7
  <1>8. CASE program = <<"opened">>
    BY <1>8
  <1>9. CASE program = <<"lockdown">>
    BY <1>9
  <1>10. CASE program = <<"closed">>
    BY <1>10
  <1> QED BY <1>1, <1>2, <1>3, <1>4, <1>5, <1>6, <1>7, <1>8, <1>9, <1>10 DEF Programs

\* The lists a command begins with: a declaration finds no incident, the others one.
LEMMA BeginningsFit ==
  /\ ~RowIsOpen(I!Declaring) /\ ~LineIsThere(I!Declaring)
  /\ ~RowIsOpen(I!Declaring \o <<"lockdown">>) /\ ~LineIsThere(I!Declaring \o <<"lockdown">>)
  /\ RowIsOpen(<<"lock", "lockdown">>) /\ LineIsThere(<<"lock", "lockdown">>)
  /\ RowIsOpen(<<"close", "closed">>) /\ LineIsThere(<<"close", "closed">>)
  /\ I!Declaring # <<>> /\ I!Declaring \o <<"lockdown">> # <<>>
  <1>1. I!Declaring \o <<"lockdown">> = <<"lock", "persist", "opened", "lockdown">>
    BY LockdownDeclares
  <1> QED BY <1>1 DEF RowIsOpen, LineIsThere, I!Declaring

LEMMA TimelineInit == I!IncidentsAssumption /\ I!IncInit => TimelineInv
  <1> SUFFICES ASSUME I!IncInit PROVE TimelineInv
    OBVIOUS
  <1>1. IncRanges /\ incDeaths \in Nat
    BY FreezeInit DEF FreezeInv, I!IncInit
  <1>2. timeline.opened = 0 /\ timeline.closed = 0 /\ incident = "closed"
        /\ \A o \in Operators : incTodo[o] = <<>>
    BY DEF I!IncInit
  <1> QED BY <1>1, <1>2 DEF TimelineInv, Fits, Balance, RowIsOpen, LineIsThere

\* A command begins, and its list fits what it has found.
LEMMA BeginFits ==
  ASSUME TimelineInv, IncRanges', NEW o \in Operators, I!Begin(o), NEW program \in Programs,
         program # <<>>, incident = "open" <=> RowIsOpen(program),
         RowIsOpen(program) <=> LineIsThere(program),
         incTodo' = [incTodo EXCEPT ![o] = program],
         UNCHANGED <<incident, timeline, incDeaths, incTurns>>
  PROVE  TimelineInv'
  <1> SUFFICES ASSUME incTurns, incDeaths = 0
               PROVE  /\ \A p, q \in Operators : incTodo'[p] # <<>> /\ incTodo'[q] # <<>> => p = q
                      /\ incTodo'[o] # <<>>
                      /\ \A p \in Operators :
                           incTodo'[p] # <<>> => Fits(program)' /\ incTodo'[p] = program
    BY DEF TimelineInv, Fits, RowIsOpen, LineIsThere, Balance
  <1>1. \A p \in Operators : incTodo[p] = <<>>
    BY DEF I!Begin
  <1>2. Fits(<<>>)
    BY <1>1 DEF TimelineInv
  <1>3. Fits(program)
    BY <1>2 DEF Fits, RowIsOpen, LineIsThere
  <1>4. Fits(program)'
    BY <1>3 DEF Fits, RowIsOpen, LineIsThere, Balance
  <1>5. incTodo'[o] = program /\ \A p \in Operators : p # o => incTodo'[p] = <<>>
    BY <1>1 DEF TimelineInv, IncRanges
  <1> QED BY <1>4, <1>5

\* A write of the one command that is under way.
LEMMA WriteFits ==
  ASSUME TimelineInv, IncRanges', NEW o \in Operators, NEW write, I!Does(o, write),
         NEW rest, rest = Tail(incTodo[o]), UNCHANGED <<incDeaths, incTurns>>,
         incTurns /\ incDeaths = 0 /\ Fits(incTodo[o]) => Fits(rest)'
  PROVE  TimelineInv'
  <1>1. incTodo[o] # <<>> /\ incTodo' = [incTodo EXCEPT ![o] = rest]
    BY DEF I!Does
  <1> SUFFICES ASSUME incTurns, incDeaths = 0
               PROVE  /\ \A p, q \in Operators : incTodo'[p] # <<>> /\ incTodo'[q] # <<>> => p = q
                      /\ \A p \in Operators : incTodo'[p] # <<>> => incTodo'[p] = rest
                      /\ (\A p \in Operators : incTodo'[p] = <<>>) => rest = <<>>
                      /\ Fits(rest)'
    BY DEF TimelineInv
  <1>2. \A p \in Operators : p # o => incTodo[p] = <<>>
    BY <1>1 DEF TimelineInv
  <1>3. incTodo'[o] = rest /\ \A p \in Operators : p # o => incTodo'[p] = <<>>
    BY <1>1, <1>2 DEF TimelineInv, IncRanges
  <1>4. Fits(rest)'
    BY <1>1 DEF TimelineInv
  <1> QED BY <1>3, <1>4

LEMMA TimelineStep ==
  TimelineInv /\ FreezeInv /\ [I!IncNext]_(I!incVars) => TimelineInv'
  <1> SUFFICES ASSUME TimelineInv, FreezeInv, [I!IncNext]_(I!incVars) PROVE TimelineInv'
    OBVIOUS
  <1>1. IncRanges /\ IncRanges' /\ incDeaths \in Nat
    BY FreezeStep DEF FreezeInv, TimelineInv
  <1> USE DEF Fits, RowIsOpen, LineIsThere, Balance
  <1>2. CASE UNCHANGED I!incVars
    BY <1>1, <1>2 DEF I!incVars, TimelineInv
  <1>3. ASSUME NEW o \in Operators, I!CmdSafemode(o) PROVE TimelineInv'
    <2>1. UNCHANGED <<incident, timeline, incTodo, incDeaths, incTurns>>
      BY <1>3 DEF I!CmdSafemode, I!SetLevel
    <2> QED BY <1>1, <2>1 DEF TimelineInv
  <1>4. ASSUME NEW o \in Operators, I!OpenRefused(o) PROVE TimelineInv'
    <2>1. /\ timeline'.opened = timeline.opened /\ timeline'.closed = timeline.closed
          /\ UNCHANGED <<incident, incTodo, incDeaths, incTurns>>
      BY <1>1, <1>4 DEF I!OpenRefused, IncRanges, Timelines
    <2> QED BY <1>1, <2>1 DEF TimelineInv
  <1> HIDE DEF Fits, RowIsOpen, LineIsThere, Balance
  <1>5. ASSUME NEW o \in Operators, I!Open(o) PROVE TimelineInv'
    BY <1>1, <1>5, Beginnings, BeginningsFit, BeginFits DEF I!Open, I!Refused
  <1>6. ASSUME NEW o \in Operators, I!Lockdown(o) PROVE TimelineInv'
    <2>1. CASE incident = "open"
      BY <1>1, <1>6, <2>1, Beginnings, BeginningsFit, BeginFits DEF I!Lockdown
    <2>2. CASE incident # "open"
      BY <1>1, <1>6, <2>2, Beginnings, BeginningsFit, BeginFits DEF I!Lockdown
    <2> QED BY <2>1, <2>2
  <1>7. ASSUME NEW o \in Operators, I!Close(o) PROVE TimelineInv'
    BY <1>1, <1>7, Beginnings, BeginningsFit, BeginFits DEF I!Close
  <1>8. ASSUME NEW o \in Operators, I!Lock(o) PROVE TimelineInv'
    <2>1. PICK rest : rest = Tail(incTodo[o])
      OBVIOUS
    <2>2. /\ I!Does(o, "lock") /\ UNCHANGED <<incident, timeline, incDeaths, incTurns>>
          /\ incTodo[o] \in Programs /\ incTodo[o] # <<>> /\ Head(incTodo[o]) = "lock"
      BY <1>1, <1>8 DEF I!Lock, I!Does, IncRanges
    <2>3. /\ rest # <<>> /\ RowIsOpen(rest) = RowIsOpen(incTodo[o])
          /\ LineIsThere(rest) = LineIsThere(incTodo[o])
      BY <2>1, <2>2, TailsFit
    <2>4. Fits(incTodo[o]) => Fits(rest)'
      BY <2>2, <2>3 DEF Fits, RowIsOpen, LineIsThere, Balance
    <2> QED BY <1>1, <2>1, <2>2, <2>4, WriteFits
  <1>9. ASSUME NEW o \in Operators, I!Persist(o) PROVE TimelineInv'
    <2>1. PICK rest : rest = Tail(incTodo[o])
      OBVIOUS
    <2>2. /\ I!Does(o, "persist") /\ incident' = "open"
          /\ UNCHANGED <<timeline, incDeaths, incTurns>>
          /\ incTodo[o] \in Programs /\ incTodo[o] # <<>> /\ Head(incTodo[o]) = "persist"
      BY <1>1, <1>9 DEF I!Persist, I!Does, IncRanges
    <2>3. rest # <<>> /\ RowIsOpen(rest) /\ ~LineIsThere(rest) /\ ~LineIsThere(incTodo[o])
      BY <2>1, <2>2, TailsFit
    <2>4. Fits(incTodo[o]) => Fits(rest)'
      BY <2>2, <2>3 DEF Fits, RowIsOpen, LineIsThere, Balance
    <2> QED BY <1>1, <2>1, <2>2, <2>4, WriteFits
  <1>10. ASSUME NEW o \in Operators, I!PersistClosed(o) PROVE TimelineInv'
    <2>1. PICK rest : rest = Tail(incTodo[o])
      OBVIOUS
    <2>2. /\ I!Does(o, "close") /\ incident' = "closed"
          /\ UNCHANGED <<timeline, incDeaths, incTurns>>
          /\ incTodo[o] \in Programs /\ incTodo[o] # <<>> /\ Head(incTodo[o]) = "close"
      BY <1>1, <1>10 DEF I!PersistClosed, I!Does, IncRanges
    <2>3. rest # <<>> /\ ~RowIsOpen(rest) /\ LineIsThere(rest) /\ LineIsThere(incTodo[o])
      BY <2>1, <2>2, TailsFit
    <2>4. Fits(incTodo[o]) => Fits(rest)'
      BY <2>2, <2>3 DEF Fits, RowIsOpen, LineIsThere, Balance
    <2> QED BY <1>1, <2>1, <2>2, <2>4, WriteFits
  <1>11. ASSUME NEW o \in Operators, I!Log(o) PROVE TimelineInv'
    <2>1. PICK rest : rest = Tail(incTodo[o])
      OBVIOUS
    <2>2. PICK event \in {"opened", "lockdown", "closed"} :
            I!Does(o, event) /\ timeline' = [timeline EXCEPT ![event] = @ + 1]
      BY <1>11 DEF I!Log
    <2>3. /\ UNCHANGED <<incident, incDeaths, incTurns>>
          /\ incTodo[o] \in Programs /\ incTodo[o] # <<>> /\ Head(incTodo[o]) = event
      BY <1>1, <1>11, <2>2 DEF I!Log, I!Does, IncRanges
    <2>4. timeline \in Timelines /\ Balance \in Int
      BY <1>1 DEF IncRanges, Timelines, Balance
    <2>5. Fits(incTodo[o]) => Fits(rest)'
      <3>1. CASE event = "opened"
        <4>1. Balance' = Balance + 1
          BY <2>2, <2>4, <3>1 DEF Timelines, Balance
        <4>2. /\ RowIsOpen(incTodo[o]) /\ ~LineIsThere(incTodo[o])
              /\ rest # <<>> => RowIsOpen(rest) /\ LineIsThere(rest)
          BY <2>1, <2>3, <3>1, TailsFit
        <4> QED BY <2>3, <2>4, <4>1, <4>2 DEF Fits, RowIsOpen, LineIsThere
      <3>2. CASE event = "lockdown"
        <4>1. Balance' = Balance
          BY <2>2, <2>4, <3>2 DEF Timelines, Balance
        <4>2. RowIsOpen(incTodo[o]) /\ LineIsThere(incTodo[o]) /\ rest = <<>>
          BY <2>1, <2>3, <3>2, TailsFit
        <4> QED BY <2>3, <2>4, <4>1, <4>2 DEF Fits, RowIsOpen, LineIsThere
      <3>3. CASE event = "closed"
        <4>1. Balance' = Balance - 1
          BY <2>2, <2>4, <3>3 DEF Timelines, Balance
        <4>2. ~RowIsOpen(incTodo[o]) /\ LineIsThere(incTodo[o]) /\ rest = <<>>
          BY <2>1, <2>3, <3>3, TailsFit
        <4> QED BY <2>3, <2>4, <4>1, <4>2 DEF Fits, RowIsOpen, LineIsThere
      <3> QED BY <3>1, <3>2, <3>3
    <2> QED BY <1>1, <2>1, <2>2, <2>3, <2>5, WriteFits
  <1>12. ASSUME NEW o \in Operators, I!Die(o) PROVE TimelineInv'
    <2>1. incDeaths' = incDeaths + 1
      BY <1>12 DEF I!Die
    <2>2. incDeaths' \in Nat /\ incDeaths' # 0
      BY <1>1, <2>1
    <2> QED BY <1>1, <2>2 DEF TimelineInv
  <1> QED BY <1>2, <1>3, <1>4, <1>5, <1>6, <1>7, <1>8, <1>9, <1>10, <1>11, <1>12
          DEF I!IncNext, I!CmdIncident

\* "Only one incident may be open at a time": while the commands take turns and none
\* dies, the lines opened and closed of a timeline alternate and tell whether there is
\* an incident (incident.py: open, close and lockdown).
THEOREM TimelineTells ==
  ASSUME I!IncidentsAssumption
  PROVE  I!IncSpec => []I!TimelineAlternates
  <1>1. TimelineInv => I!TimelineAlternates
    BY DEF TimelineInv, I!TimelineAlternates, Fits, Balance, LineIsThere
  <1>2. I!IncInit => TimelineInv /\ FreezeInv
    BY TimelineInit, FreezeInit
  <1>3. TimelineInv /\ FreezeInv /\ [I!IncNext]_(I!incVars) => (TimelineInv /\ FreezeInv)'
    BY TimelineStep, FreezeStep
  <1> QED BY <1>1, <1>2, <1>3, PTL DEF I!IncSpec
=============================================================================
