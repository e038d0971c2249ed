--------------------------- MODULE PolicyRegistry ---------------------------
(***************************************************************************)
(* PolicyStore of sworker/policy.py: policies stored under the hash of     *)
(* their body, and per scope a pointer to the current one.  A body stands  *)
(* for its hash.  publish() reads, puts the record, puts the pointer, with *)
(* nothing held in between.                                                *)
(***************************************************************************)
EXTENDS Integers

CONSTANTS
  Callers,        \* concurrent publishers
  Scopes,         \* workspaces and organizations
  Bodies,         \* risk maps
  None,           \* no policy
  MaxVersion,     \* bound: versions of a scope
  MaxCrashes      \* bound: publishers that die

RegistryAssumption ==
  /\ None \notin Bodies
  /\ MaxVersion \in Nat /\ MaxCrashes \in Nat

VARIABLES
  policies,     \* body -> its record, or NoRecord
  current,      \* scope -> the body it points at, or None
  pc, local,    \* per caller: where its publish is and what it will put
  crashes,
  ordered       \* do the callers take turns, as the commands of one terminal do?

vars == <<policies, current, pc, local, crashes, ordered>>

Published == [scope : Scopes, version : Nat]

NoRecord == [scope |-> None, version |-> 0]

NoPublish == [body |-> None, scope |-> None, version |-> 0]

-----------------------------------------------------------------------------
Init ==
  /\ policies = [b \in Bodies |-> NoRecord]
  /\ current = [s \in Scopes |-> None]
  /\ pc = [c \in Callers |-> "idle"]
  /\ local = [c \in Callers |-> NoPublish]
  /\ crashes = 0
  /\ ordered \in BOOLEAN

\* latest(): the record the scope's pointer leads to, and one more than its
\* version.
NextVersion(s) == IF current[s] = None THEN 1 ELSE policies[current[s]].version + 1

MayStart(c) ==
  /\ pc[c] = "idle"
  /\ ordered => \A d \in Callers : pc[d] = "idle"

\* Mutant of Publish: the versions are not counted on.
PublishUnversioned(c, s, b) ==
  /\ MayStart(c)
  /\ policies[b].scope # s
  /\ local' = [local EXCEPT ![c] = [body |-> b, scope |-> s, version |-> 1]]
  /\ pc' = [pc EXCEPT ![c] = "put"]
  /\ UNCHANGED <<policies, current, crashes, ordered>>

\* publish() of a body the scope does not have makes a record.  (One that it has
\* is answered from the store and nothing is written, not even the pointer.)
Publish(c, s, b) ==
  /\ MayStart(c)
  /\ policies[b].scope # s
  /\ NextVersion(s) <= MaxVersion
  /\ local' = [local EXCEPT ![c] = [body |-> b, scope |-> s, version |-> NextVersion(s)]]
  /\ pc' = [pc EXCEPT ![c] = "put"]
  /\ UNCHANGED <<policies, current, crashes, ordered>>

\* It goes under its hash, over whatever another scope has there.
PutPolicy(c) ==
  /\ pc[c] = "put"
  /\ policies' = [policies EXCEPT ![local[c].body] =
                    [scope |-> local[c].scope, version |-> local[c].version]]
  /\ pc' = [pc EXCEPT ![c] = "promote"]
  /\ UNCHANGED <<current, local, crashes, ordered>>

\* The pointer of the scope is put, whatever it points at by now.
Promote(c) ==
  /\ pc[c] = "promote"
  /\ current' = [current EXCEPT ![local[c].scope] = local[c].body]
  /\ pc' = [pc EXCEPT ![c] = "idle"]
  /\ local' = [local EXCEPT ![c] = NoPublish]
  /\ UNCHANGED <<policies, crashes, ordered>>

Crash(c) ==
  /\ pc[c] # "idle" /\ crashes < MaxCrashes
  /\ crashes' = crashes + 1
  /\ pc' = [pc EXCEPT ![c] = "idle"]
  /\ local' = [local EXCEPT ![c] = NoPublish]
  /\ UNCHANGED <<policies, current, ordered>>

Next ==
  \E c \in Callers :
    \/ \E s \in Scopes, b \in Bodies : Publish(c, s, b)
    \/ PutPolicy(c) \/ Promote(c) \/ Crash(c)

Spec == Init /\ [][Next]_vars

-----------------------------------------------------------------------------
\* Records, pointers and the callers' copies stay in range.
TypeOK ==
  /\ policies \in [Bodies -> Published \cup {NoRecord}]
  /\ current \in [Scopes -> Bodies \cup {None}]
  /\ pc \in [Callers -> {"idle", "put", "promote"}]
  /\ local \in [Callers -> [body : Bodies \cup {None}, scope : Scopes \cup {None}, version : Nat]]
  /\ crashes \in Nat
  /\ ordered \in BOOLEAN

\* Nobody raced and nobody died.
Undisturbed == ordered /\ crashes = 0

\* "the version bodies themselves are never edited or deleted": a stored policy
\* keeps the scope and the version that a run recorded with its hash, if its
\* publishers take turns.
PoliciesAreKept ==
  [][ordered => \A b \in Bodies : policies[b] # NoRecord => policies'[b] = policies[b]]_vars

\* "a change is always a new version": no version number of a scope names two
\* different policies.
VersionsDiffer ==
  Undisturbed =>
    \A b, d \in Bodies :
      policies[b] # NoRecord /\ policies[b] = policies[d] => b = d

\* "current resolves to the latest active version": a scope with a policy points
\* at one, of its own, and no other of its policies is newer.
CurrentIsNewest ==
  Undisturbed /\ (\A c \in Callers : pc[c] = "idle") =>
    \A b \in Bodies : policies[b] # NoRecord =>
      LET now == current[policies[b].scope] IN
      /\ now # None
      /\ policies[now].scope = policies[b].scope
      /\ policies[now].version >= policies[b].version

\* A pointer never dangles, whoever interleaves or dies.
CurrentResolves == \A s \in Scopes : current[s] # None => policies[current[s]] # NoRecord
=============================================================================
