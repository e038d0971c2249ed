------------------------------ MODULE AuditLog ------------------------------
(***************************************************************************)
(* The store of sworker/store.py: the sqlite rows ("an index") and the     *)
(* hash-chained audit.jsonl ("the truth").  The lock covers the row only,  *)
(* and the link to the previous line is read from the file before the new  *)
(* line is appended to it, so a write is three steps:                      *)
(*                                                                         *)
(*   put, delete   commit the row | read the last hash | append the line   *)
(*   audit                          read the last hash | append the line   *)
(*                                                                         *)
(* A hash is a number that no other line has: sha256 over a content that   *)
(* includes the time and the previous hash.  What recomputing it tells is  *)
(* whether the line still has the content it was hashed with.              *)
(* The store as every command opens it, without a workspace id: the tenant *)
(* checks are not modelled.                                                *)
(***************************************************************************)
EXTENDS Integers, Sequences, FiniteSetsExt

CONSTANTS
  Writers,        \* callers: processes, or threads of one
  Keys,           \* record ids (of all tables together)
  Values,         \* record contents
  None,           \* no row
  History,        \* lines of the file from before the chain was introduced
  MaxLines,       \* bound: lines written
  MaxCrashes,     \* bound: writers that die
  MaxEdits        \* bound: lines edited or removed by hand

AuditAssumption ==
  /\ None \notin Values \cup Keys
  /\ {History, MaxLines, MaxCrashes, MaxEdits} \subseteq Nat

VARIABLES
  row,        \* key -> the value committed to sqlite
  log,        \* the lines of audit.jsonl
  torn,       \* does the file end in the middle of a line?
  pc, local,  \* per writer: where its write is, what it writes and the link it read
  stamp,      \* the last hash given
  crashes, edits,
  ordered     \* do the writers take turns, as the commands of one terminal do?

vars == <<row, log, torn, pc, local, stamp, crashes, edits, ordered>>

Genesis == 0

Contents == Values \cup {None}

\* A line with its hash, one from before there were hashes, or bytes that do
\* not parse.  "whole" is FALSE once its content is not what was hashed.
Lines == [kind : {"hashed", "legacy", "garbled"}, key : Keys \cup {None}, val : Contents,
          prev : Nat, hash : Nat, whole : BOOLEAN]

Legacy  == [kind |-> "legacy", key |-> None, val |-> None,
            prev |-> Genesis, hash |-> Genesis, whole |-> TRUE]
Garbled == [Legacy EXCEPT !.kind = "garbled"]

NoWrite == [key |-> None, val |-> None, prev |-> Genesis]

-----------------------------------------------------------------------------
Init ==
  /\ row = [k \in Keys |-> None]
  /\ log = [i \in 1 .. History |-> Legacy]
  /\ torn = FALSE
  /\ pc = [w \in Writers |-> "idle"]
  /\ local = [w \in Writers |-> NoWrite]
  /\ stamp = Genesis /\ crashes = 0 /\ edits = 0
  /\ ordered \in BOOLEAN

MayStart(w) ==
  /\ pc[w] = "idle"
  /\ ordered => \A v \in Writers : pc[v] = "idle"
  /\ stamp < MaxLines

Begins(w, key, val) ==
  /\ pc' = [pc EXCEPT ![w] = "link"]
  /\ local' = [local EXCEPT ![w] = [NoWrite EXCEPT !.key = key, !.val = val]]

\* put() commits the row, whatever row was there.
Put(w, k, v) ==
  /\ MayStart(w)
  /\ row' = [row EXCEPT ![k] = v]
  /\ Begins(w, k, v)
  /\ UNCHANGED <<log, torn, stamp, crashes, edits, ordered>>

\* delete() logs only if there was a row.
Delete(w, k) ==
  /\ MayStart(w)
  /\ row[k] # None
  /\ row' = [row EXCEPT ![k] = None]
  /\ Begins(w, k, None)
  /\ UNCHANGED <<log, torn, stamp, crashes, edits, ordered>>

\* audit() alone: an event about no row.
Note(w) ==
  /\ MayStart(w)
  /\ Begins(w, None, None)
  /\ UNCHANGED <<row, log, torn, stamp, crashes, edits, ordered>>

\* The hash of the last line of the file; a line without one, or one that
\* does not parse, counts as the beginning.
PreviousHash ==
  IF log # <<>> /\ log[Len(log)].kind = "hashed" THEN log[Len(log)].hash ELSE Genesis

\* Mutant of ReadLink: the last hash is kept in memory.
ReadLinkCached(w) ==
  /\ pc[w] = "link"
  /\ local' = [local EXCEPT ![w].prev = stamp]
  /\ pc' = [pc EXCEPT ![w] = "append"]
  /\ UNCHANGED <<row, log, torn, stamp, crashes, edits, ordered>>

ReadLink(w) ==
  /\ pc[w] = "link"
  /\ local' = [local EXCEPT ![w].prev = PreviousHash]
  /\ pc' = [pc EXCEPT ![w] = "append"]
  /\ UNCHANGED <<row, log, torn, stamp, crashes, edits, ordered>>

Written(w) ==
  [kind |-> "hashed", key |-> local[w].key, val |-> local[w].val,
   prev |-> local[w].prev, hash |-> stamp + 1, whole |-> TRUE]

\* The line goes to the end of the file.  Behind half a line it completes that
\* line, and neither can be read.
AppendLine(w) ==
  /\ pc[w] = "append"
  /\ log' = IF torn THEN log ELSE Append(log, Written(w))
  /\ torn' = FALSE
  /\ stamp' = stamp + 1
  /\ pc' = [pc EXCEPT ![w] = "idle"]
  /\ local' = [local EXCEPT ![w] = NoWrite]
  /\ UNCHANGED <<row, crashes, edits, ordered>>

\* A writer dies, possibly with part of its line in the file.
Crash(w) ==
  /\ pc[w] # "idle" /\ crashes < MaxCrashes
  /\ crashes' = crashes + 1
  /\ \/ UNCHANGED <<log, torn>>
     \/ /\ pc[w] = "append" /\ ~torn
        /\ log' = Append(log, Garbled) /\ torn' = TRUE
  /\ pc' = [pc EXCEPT ![w] = "idle"]
  /\ local' = [local EXCEPT ![w] = NoWrite]
  /\ UNCHANGED <<row, stamp, edits, ordered>>

\* By hand: the content of a line is changed, its hash is not ...
Alter(i, v) ==
  /\ edits < MaxEdits /\ log[i].kind = "hashed" /\ log[i].val # v
  /\ edits' = edits + 1
  /\ log' = [log EXCEPT ![i].val = v, ![i].whole = FALSE]
  /\ UNCHANGED <<row, torn, pc, local, stamp, crashes, ordered>>

\* ... or a line that others were chained behind is taken out.
Remove(i) ==
  /\ edits < MaxEdits /\ i < Len(log)
  /\ log[i].kind = "hashed" /\ log[i + 1].kind = "hashed"
  /\ edits' = edits + 1
  /\ log' = SubSeq(log, 1, i - 1) \o SubSeq(log, i + 1, Len(log))
  /\ UNCHANGED <<row, torn, pc, local, stamp, crashes, ordered>>

Write(w) == ReadLink(w) \/ AppendLine(w)

Next ==
  \/ \E w \in Writers :
       \/ \E k \in Keys : Delete(w, k) \/ \E v \in Values : Put(w, k, v)
       \/ Note(w) \/ Write(w) \/ Crash(w)
  \/ \E i \in DOMAIN log : Remove(i) \/ \E v \in Values : Alter(i, v)

Spec == Init /\ [][Next]_vars

-----------------------------------------------------------------------------
(***************************************************************************)
(* verify_audit_chain()                                                    *)
(***************************************************************************)
\* What line i should link to: the hash of the last line before it that
\* parses, the beginning if there is none or if it is one without a hash.
ExpectedPrev(i) ==
  LET before == {j \in 1 .. i - 1 : log[j].kind # "garbled"} IN
  IF before = {} THEN Genesis ELSE log[Max(before)].hash

LineVerifies(i) ==
  /\ log[i].kind # "garbled"
  /\ log[i].kind = "hashed" => log[i].prev = ExpectedPrev(i) /\ log[i].whole

Verifies == \A i \in DOMAIN log : LineVerifies(i)

-----------------------------------------------------------------------------
(***************************************************************************)
(* Properties                                                              *)
(***************************************************************************)
\* Rows, lines and the writers' copies stay in range, and no hash is from the
\* future.
TypeOK ==
  /\ row \in [Keys -> Contents]
  /\ log \in Seq(Lines)
  /\ \A i \in DOMAIN log : log[i].hash <= stamp
  /\ torn \in BOOLEAN
  /\ pc \in [Writers -> {"idle", "link", "append"}]
  /\ local \in [Writers -> [key : Keys \cup {None}, val : Contents, prev : Nat]]
  /\ {stamp, crashes, edits} \subseteq Nat
  /\ ordered \in BOOLEAN

\* "every put extends a per-workspace hash chain": a file whose writers took
\* turns, that nobody edited and no crash cut, verifies, whatever mixture of old
\* and new lines it has.
ChainVerifies ==
  ordered /\ edits = 0 /\ (\A i \in DOMAIN log : log[i].kind # "garbled") => Verifies

\* What the log says of a key last.
Logged(k) ==
  LET about == {i \in DOMAIN log : log[i].kind = "hashed" /\ log[i].key = k} IN
  IF about = {} THEN None ELSE log[Max(about)].val

\* "a Run can be reconstructed even if the database is deleted": when nobody is
\* writing, and nobody died writing, the log can be read to its end and gives the
\* rows.
LogRebuildsRows ==
  ordered /\ edits = 0 /\ crashes = 0 /\ (\A w \in Writers : pc[w] = "idle") =>
    /\ \A i \in DOMAIN log : log[i].kind # "garbled"
    /\ \A k \in Keys : row[k] = Logged(k)

\* "Rewriting any past record breaks verification": once a line has been altered
\* or taken out of the chain the file never verifies again, however it goes on.
EditsShow == ordered /\ edits > 0 => ~Verifies

\* Whoever interleaves or dies, a line is never lost or linked to what is not
\* there: while nobody edits, each names the line before it or an earlier one.
LinksLeadBack ==
  edits = 0 =>
    \A i \in DOMAIN log : log[i].kind = "hashed" =>
      log[i].prev = Genesis \/ \E j \in 1 .. i - 1 : log[j].hash = log[i].prev
=============================================================================
