-------------------------- MODULE WorkspaceProofs ---------------------------
(***************************************************************************)
(* Proofs about the other parts of a workspace and about the whole:        *)
(* Procedures, PolicyRegistry, Schedules, Package, WorkerFiles and         *)
(* Migrations are its parts P, R, S, K, W and M.  For any actors, texts    *)
(* and bounds, where a theorem does not say other.                         *)
(*                                                                         *)
(*   ActiveResolves   the active procedure is there and can be read         *)
(*   PublishedKept    a published version stays what it was                *)
(*   RollbackFound    a rollback goes to the newest of the older versions  *)
(*   PolicyTypes, PointersResolve                                          *)
(*                    what a scope points at is a policy                   *)
(*   VersionsAreNew, PointerIsNewest, PoliciesStay                         *)
(*                    with one scope, versions differ, the pointer is at   *)
(*                    the newest and no policy is written over             *)
(*   OffStays         a schedule that was switched off stays off           *)
(*   TimesRunOnce     one runner runs no due time twice                    *)
(*   RestoresAgree    what was restored is what was packed                 *)
(*   ReplacedKept     what a command takes away is among the versions      *)
(*   MarkerEarned     the marker passes no version that was not migrated   *)
(*   StepsRecorded    migrated in turns, each version is done and told once*)
(*                                                                         *)
(* All rest on what a command carries from its reads to its writes.        *)
(*                                                                         *)
(* The last section states what a workspace keeps, one theorem for each of *)
(* its properties (ProceduresInWorkspace, ...): a behaviour of the whole   *)
(* is one of the part in focus (PartBegins, PartSteps), and a step that    *)
(* leaves that part alone leaves everything (WholeSteps).                  *)
(***************************************************************************)
EXTENDS AuditProofs, PlatformProofs, WellFoundedInduction, TLAPS

-----------------------------------------------------------------------------
(***************************************************************************)
(* Procedures.                                                             *)
(***************************************************************************)
Plans == [minor : Nat \cup {None}, body : Bodies \cup {None}]

Contents == Bodies \cup {P!Empty, P!Mixed, None}

Places == {"idle", "file", "text", "current", "pointer"}

\* The ranges; that there are versions up to some number.
Ranges ==
  /\ \E n \in Nat : version \in [0 .. n - 1 -> Contents]
  /\ active \in Int \cup {None}
  /\ at \in [Publishers -> Places]
  /\ held \in [Publishers -> Plans]
  /\ deaths \in Nat

\* What a publisher carries: a number and a text until it has written the version, a
\* version that is there from the moment it opened it.
Carries(p) ==
  /\ at[p] \in {"file", "text"} => held[p].minor \in P!Minors /\ held[p].body \in Bodies
  /\ at[p] \in {"text", "current", "pointer"} => held[p].minor \in P!Available

\* Whatever is or becomes active was opened before; and unless somebody died, somebody is
\* at work while nothing is active.
ActiveInv ==
  /\ Ranges
  /\ turns \/ P!OneDigit => active \in P!Available \cup {None}
  /\ deaths = 0 /\ P!Available # {} /\ active = None =>
       \E p \in Publishers : at[p] \in {"text", "current", "pointer"}
  /\ \A p \in Publishers : Carries(p)

OneAtWork == \A p, q \in Publishers : at[p] # "idle" /\ at[q] # "idle" => p = q

\* Of each version there is the text is there, unless a death has emptied it or it is
\* being written.
Whole(m) ==
  \/ version[m] \in Bodies
  \/ m \in emptied
  \/ \E p \in Publishers : at[p] = "text" /\ held[p].minor = m

\* What the one under way in turns finds: its number is free until it opens the version,
\* which is not active and empty from then on; current.txt is empty once it has opened it.
Finds(p) ==
  /\ at[p] = "file" => held[p].minor \notin P!Available
  /\ at[p] = "text" => version[held[p].minor] = P!Empty /\ active # held[p].minor
  /\ at[p] = "pointer" => active = None

\* While the commands take turns.
TurnsInv ==
  turns => OneAtWork /\ (\A p \in Publishers : Finds(p)) /\ (\A m \in P!Available : Whole(m))

-----------------------------------------------------------------------------
\* A set of numbers has a least one (the library's theorem of that content takes
\* an operator).
LEMMA LeastNumber ==
  ASSUME NEW N \in SUBSET Nat, N # {}
  PROVE  \E least \in N : \A y \in N : least <= y
  <1>1. PICK x \in N : \A y \in N : <<y, x>> \notin OpToRel(<, Nat)
    BY NatLessThanWellFounded, WFMin
  <1>2. x \in Nat /\ \A y \in N : y \in Nat /\ ~(y < x)
    BY <1>1 DEF OpToRel
  <1>3. \A y \in N : x <= y
    BY <1>2
  <1> QED BY <1>3

\* So a bounded one has a greatest, and Max gives it.
LEMMA MaxIsGreatest ==
  ASSUME NEW n \in Nat, NEW N \in SUBSET (0 .. n), N # {}
  PROVE  P!Max(N) \in N /\ \A y \in N : y <= P!Max(N)
  <1> DEFINE T == {n - s : s \in N}
  <1>1. T \in SUBSET Nat /\ T # {}
    <2>1. \A s \in N : n - s \in Nat
      OBVIOUS
    <2>2. T \in SUBSET Nat
      BY <2>1
    <2>3. PICK s \in N : TRUE
      OBVIOUS
    <2>4. n - s \in T
      OBVIOUS
    <2> QED BY <2>2, <2>4
  <1>2. PICK t \in T : \A y \in T : t <= y
    BY <1>1, LeastNumber
  <1>3. PICK m \in N : t = n - m
    OBVIOUS
  <1>4. \A y \in N : m >= y
    BY <1>2, <1>3
  <1>5. P!Max(N) \in N /\ \A y \in N : P!Max(N) >= y
    BY <1>4 DEF P!Max
  <1> QED BY <1>5

\* The next version is not one that is there.
LEMMA NextMinorIsFree ==
  ASSUME Ranges
  PROVE  P!NextMinor \notin P!Available
  <1>1. CASE P!Available = {}
    BY <1>1
  <1>2. CASE P!Available # {}
    <2>1. PICK n \in Nat : version \in [0 .. n - 1 -> Contents]
      BY DEF Ranges
    <2>2. P!Available \in SUBSET (0 .. n)
      BY <2>1 DEF P!Available, P!Minors
    <2>3. P!Max(P!Available) \in 0 .. n /\ \A y \in P!Available : y <= P!Max(P!Available)
      BY <1>2, <2>2, MaxIsGreatest
    <2>4. P!NextMinor = P!Max(P!Available) + 1
      BY <1>2 DEF P!NextMinor
    <2> QED BY <2>2, <2>3, <2>4
  <1> QED BY <1>1, <1>2

\* The rank of a version's name among the names, as a number.
Rank(m) == P!Digits(m)[1] * 11 + P!Digits(m)[2] + 1

\* The names are in the order of their ranks, and no two have the same.
LEMMA NamesAreRanked ==
  ASSUME NEW m \in Nat, NEW n \in Nat
  PROVE  /\ Rank(m) \in 0 .. 11 * m + 11
         /\ Rank(m) < Rank(n) => P!Precedes(m, n)
         /\ Rank(m) = Rank(n) => m = n
  <1>1. /\ m < 10 => P!Digits(m)[1] = m /\ P!Digits(m)[2] = -1
        /\ ~(m < 10) => /\ P!Digits(m)[1] = m \div 10 /\ P!Digits(m)[2] = m % 10
                        /\ m = 10 * P!Digits(m)[1] + P!Digits(m)[2]
                        /\ P!Digits(m)[1] \in Nat /\ P!Digits(m)[2] \in 0 .. 9
    BY DEF P!Digits
  <1>2. /\ n < 10 => P!Digits(n)[1] = n /\ P!Digits(n)[2] = -1
        /\ ~(n < 10) => /\ P!Digits(n)[1] = n \div 10 /\ P!Digits(n)[2] = n % 10
                        /\ n = 10 * P!Digits(n)[1] + P!Digits(n)[2]
                        /\ P!Digits(n)[1] \in Nat /\ P!Digits(n)[2] \in 0 .. 9
    BY DEF P!Digits
  <1> HIDE DEF P!Digits
  <1>3. /\ P!Digits(m)[1] \in Nat /\ P!Digits(m)[2] \in -1 .. 9 /\ P!Digits(m)[1] <= m
        /\ P!Digits(n)[1] \in Nat /\ P!Digits(n)[2] \in -1 .. 9
    BY <1>1, <1>2
  <1>4. Rank(m) \in 0 .. 11 * m + 11
    BY <1>3 DEF Rank
  <1>5. ASSUME Rank(m) < Rank(n) PROVE P!Precedes(m, n)
    BY <1>3, <1>5 DEF Rank, P!Precedes
  <1>6. ASSUME Rank(m) = Rank(n) PROVE m = n
    <2>1. P!Digits(m)[1] = P!Digits(n)[1] /\ P!Digits(m)[2] = P!Digits(n)[2]
      BY <1>3, <1>6 DEF Rank
    <2> QED BY <1>1, <1>2, <2>1
  <1> QED BY <1>4, <1>5, <1>6

\* Where there is a version before the active one, a rollback finds one that is there.
LEMMA RollbackFinds ==
  ASSUME Ranges, active # None, P!Earlier(active) # {}
  PROVE  P!RollbackTarget \in P!Available
  <1>1. PICK n \in Nat : version \in [0 .. n - 1 -> Contents]
    BY DEF Ranges
  <1> DEFINE before == P!Earlier(active)
             ranks == {Rank(m) : m \in before}
  <1>2. before \subseteq P!Available /\ \A m \in before : m \in Nat /\ m <= n
    BY <1>1 DEF P!Earlier, P!Available, P!Minors
  <1>3. \A m \in before : Rank(m) \in 0 .. 11 * n + 11
    <2> SUFFICES ASSUME NEW m \in before PROVE Rank(m) \in 0 .. 11 * n + 11
      OBVIOUS
    <2>1. Rank(m) \in 0 .. 11 * m + 11 /\ m \in Nat /\ m <= n
      BY <1>2, NamesAreRanked
    <2> QED BY <2>1
  <1>4. ranks \in SUBSET (0 .. 11 * n + 11) /\ ranks # {}
    <2>1. ranks \in SUBSET (0 .. 11 * n + 11)
      BY <1>3
    <2>2. PICK m \in before : TRUE
      OBVIOUS
    <2>3. Rank(m) \in ranks
      OBVIOUS
    <2> QED BY <2>1, <2>3
  <1>5. 11 * n + 11 \in Nat
    OBVIOUS
  <1>6. P!Max(ranks) \in ranks /\ \A r \in ranks : r <= P!Max(ranks)
    BY <1>4, <1>5, MaxIsGreatest
  <1>7. PICK m \in before : P!Max(ranks) = Rank(m)
    BY <1>6
  <1>8. \A k \in before : k = m \/ P!Precedes(k, m)
    <2> SUFFICES ASSUME NEW k \in before PROVE k = m \/ P!Precedes(k, m)
      OBVIOUS
    <2>1. Rank(k) <= Rank(m)
      BY <1>6, <1>7
    <2>2. Rank(k) \in Int /\ Rank(m) \in Int
      BY <1>3
    <2>3. Rank(k) < Rank(m) \/ Rank(k) = Rank(m)
      BY <2>1, <2>2
    <2> QED BY <1>2, <2>3, NamesAreRanked
  <1>9. P!RollbackTarget \in before
    <2> HIDE DEF before
    <2>1. P!RollbackTarget = CHOOSE k \in before : \A j \in before : j = k \/ P!Precedes(j, k)
      BY DEF P!RollbackTarget, before
    <2> QED BY <1>8, <2>1
  <1> QED BY <1>2, <1>9

\* With one digit for the minor numbers, the order of the names is the order of the
\* numbers.
LEMMA OneDigitOrder ==
  ASSUME NEW m \in 0 .. 9, NEW n \in 0 .. 9
  PROVE  P!Precedes(m, n) <=> m < n
  <1>1. P!Digits(m)[1] = m /\ P!Digits(m)[2] = -1 /\ P!Digits(n)[1] = n /\ P!Digits(n)[2] = -1
    BY DEF P!Digits
  <1> QED BY <1>1 DEF P!Precedes

\* A rollback then goes to the greatest of the earlier numbers.
LEMMA RollbackIsGreatest ==
  ASSUME ActiveInv, active # None, P!Earlier(active) # {}, P!OneDigit
  PROVE  /\ P!RollbackTarget < active
         /\ \A m \in P!Available : m < active => m <= P!RollbackTarget
  <1> DEFINE before == P!Earlier(active)
  <1>1. active \in P!Available
    BY DEF ActiveInv
  <1>2. before \in SUBSET (0 .. 9) /\ before \subseteq P!Available
    BY DEF P!Earlier, P!OneDigit
  <1>3. \A m \in P!Available : m \in before <=> m < active
    BY <1>1, OneDigitOrder DEF P!Earlier, P!OneDigit
  <1> HIDE DEF before
  <1>4. P!Max(before) \in before /\ \A m \in before : m <= P!Max(before)
    BY <1>2, MaxIsGreatest DEF before
  <1>5. \A m \in before : m = P!Max(before) \/ P!Precedes(m, P!Max(before))
    <2> SUFFICES ASSUME NEW m \in before, m # P!Max(before) PROVE P!Precedes(m, P!Max(before))
      OBVIOUS
    <2>1. m \in 0 .. 9 /\ P!Max(before) \in 0 .. 9
      BY <1>2, <1>4
    <2>2. m < P!Max(before)
      BY <1>4, <2>1
    <2> QED BY <2>1, <2>2, OneDigitOrder
  <1>6. /\ P!RollbackTarget \in before
        /\ \A m \in before : m = P!RollbackTarget \/ P!Precedes(m, P!RollbackTarget)
    <2>1. P!RollbackTarget = CHOOSE k \in before : \A m \in before : m = k \/ P!Precedes(m, k)
      BY DEF P!RollbackTarget, before
    <2> QED BY <1>4, <1>5, <2>1
  <1>7. \A m \in before : m <= P!RollbackTarget
    <2> SUFFICES ASSUME NEW m \in before PROVE m <= P!RollbackTarget
      OBVIOUS
    <2>1. m \in 0 .. 9 /\ P!RollbackTarget \in 0 .. 9
      BY <1>2, <1>6
    <2> QED BY <1>6, <2>1, OneDigitOrder
  <1> QED BY <1>2, <1>3, <1>6, <1>7

-----------------------------------------------------------------------------
LEMMA ActiveInit == P!ProceduresAssumption /\ P!ProcInit => ActiveInv /\ TurnsInv
  <1> SUFFICES ASSUME P!ProceduresAssumption, P!ProcInit PROVE ActiveInv /\ TurnsInv
    OBVIOUS
  <1>1. PICK n \in FirstMinors, b \in Bodies :
          /\ version = [m \in 0 .. n + MaxNew - 1 |-> IF m < n THEN b ELSE None]
          /\ active = IF n = 0 THEN None ELSE n - 1
    BY DEF P!ProcInit
  <1>2. n \in Nat /\ n + MaxNew \in Nat /\ MaxNew \in Nat /\ None \notin Bodies
    BY DEF P!ProceduresAssumption
  <1>3. version \in [0 .. (n + MaxNew) - 1 -> Contents]
    BY <1>1, <1>2 DEF Contents
  <1>4. /\ active \in P!Available \cup {None} /\ active \in Int \cup {None}
        /\ \A m \in P!Available : version[m] \in Bodies
        /\ active = None => P!Available = {}
    BY <1>1, <1>2 DEF P!Minors, P!Available, P!ProceduresAssumption
  <1>5. at = [p \in Publishers |-> "idle"] /\ held \in [Publishers -> Plans] /\ deaths = 0
    BY DEF P!ProcInit, P!NoPlan, Plans
  <1>6. Ranges
    BY <1>2, <1>3, <1>4, <1>5 DEF Ranges, Places
  <1> QED BY <1>4, <1>5, <1>6 DEF ActiveInv, TurnsInv, Carries, OneAtWork, Finds, Whole

\* Opening a version makes it one that is there; writing it leaves some text in it; of the
\* others nothing changes.
LEMMA VersionsStay ==
  ASSUME P!ProceduresAssumption, ActiveInv, NEW p \in Publishers, P!OpenVersion(p) \/ P!WriteVersion(p)
  PROVE  LET m == held[p].minor IN
         /\ m \in P!Minors /\ P!Minors' = P!Minors
         /\ P!Available' = P!Available \cup {m}
         /\ (\E n \in Nat : version \in [0 .. n - 1 -> Contents])'
         /\ \A k \in P!Minors : k # m => version'[k] = version[k]
         /\ P!OpenVersion(p) => version'[m] = P!Empty
         /\ P!WriteVersion(p) => version'[m] \in Bodies \cup {P!Mixed}
         /\ P!WriteVersion(p) /\ version[m] = P!Empty => version'[m] \in Bodies
  <1> DEFINE m == held[p].minor
  <1>1. PICK n \in Nat : version \in [0 .. n - 1 -> Contents]
    BY DEF ActiveInv, Ranges
  <1>2. at[p] \in {"file", "text"}
    BY DEF P!OpenVersion, P!WriteVersion
  <1>3. m \in P!Minors /\ held[p].body \in Bodies
    BY <1>2 DEF ActiveInv, Carries
  <1>4. PICK text \in Bodies \cup {P!Empty, P!Mixed} :
          /\ version' = [version EXCEPT ![m] = text]
          /\ P!OpenVersion(p) => text = P!Empty
          /\ P!WriteVersion(p) => text \in Bodies \cup {P!Mixed}
          /\ P!WriteVersion(p) /\ version[m] = P!Empty => text \in Bodies
    <2>1. CASE P!OpenVersion(p)
      <3>1. at[p] = "file" /\ version' = [version EXCEPT ![m] = P!Empty]
        BY <2>1 DEF P!OpenVersion
      <3>2. ~P!WriteVersion(p)
        BY <3>1 DEF P!WriteVersion
      <3> QED BY <3>1, <3>2
    <2>2. CASE P!WriteVersion(p)
      <3>1. at[p] = "text"
        BY <2>2 DEF P!WriteVersion
      <3>2. ~P!OpenVersion(p)
        BY <3>1 DEF P!OpenVersion
      <3>3. PICK text \in IF version[m] = P!Empty THEN {held[p].body} ELSE {held[p].body, P!Mixed} :
              version' = [version EXCEPT ![m] = text]
        BY <2>2 DEF P!WriteVersion
      <3> QED BY <1>3, <3>2, <3>3
    <2> QED BY <2>1, <2>2
  <1>5. version' \in [0 .. n - 1 -> Contents]
    BY <1>1, <1>3, <1>4 DEF Contents
  <1>6. text # None
    BY <1>4 DEF P!ProceduresAssumption
  <1> QED BY <1>1, <1>3, <1>4, <1>5, <1>6 DEF P!Minors, P!Available

\* In turns, or with one digit, what is written over current.txt is what is then there.
LEMMA PointerWritten ==
  ASSUME P!ProceduresAssumption, ActiveInv, TurnsInv, NEW p \in Publishers, P!WriteCurrent(p)
  PROVE  /\ held[p].minor \in P!Available /\ held[p].minor \in Nat
         /\ active' \in Int
         /\ turns \/ P!OneDigit => active' = held[p].minor
  <1> DEFINE m == held[p].minor
  <1>1. at[p] = "pointer" /\ active' = P!Overwritten(m)
    BY DEF P!WriteCurrent
  <1>2. m \in P!Available /\ m \in Nat
    BY <1>1 DEF ActiveInv, Carries, Ranges, P!Available, P!Minors
  <1>3. active \in Int \cup {None} /\ None \notin Int
    BY DEF ActiveInv, Ranges, P!ProceduresAssumption
  <1>4. active' \in Int
    <2>1. CASE active = None
      BY <1>1, <1>2, <2>1 DEF P!Overwritten
    <2>2. CASE active \in Int
      <3>1. active % 10 \in Int
        BY <2>2
      <3> QED BY <1>1, <1>2, <2>2, <3>1 DEF P!Overwritten
    <2> QED BY <1>3, <2>1, <2>2
  <1>5. turns \/ P!OneDigit => active = None \/ active \in 0 .. 9
    BY <1>1, <1>3 DEF TurnsInv, Finds, ActiveInv, P!OneDigit
  <1>6. turns \/ P!OneDigit => active' = m
    BY <1>1, <1>5 DEF P!Overwritten
  <1> QED BY <1>2, <1>4, <1>6

\* Every step keeps what is active, and what commands carry, there.
LEMMA ActiveStep ==
  P!ProceduresAssumption /\ ActiveInv /\ TurnsInv /\ [P!ProcNext]_(P!procVars) => ActiveInv'
  <1> SUFFICES ASSUME P!ProceduresAssumption, ActiveInv, TurnsInv, [P!ProcNext]_(P!procVars)
               PROVE ActiveInv'
    OBVIOUS
  <1> DEFINE AtIt(p) == at[p] \in {"text", "current", "pointer"}
             Named == turns \/ P!OneDigit => active \in P!Available \cup {None}
             Busy == deaths = 0 /\ P!Available # {} /\ active = None => \E p \in Publishers : AtIt(p)
  <1>1. /\ Ranges /\ Named /\ Busy /\ \A p \in Publishers : Carries(p)
        /\ at \in [Publishers -> Places] /\ held \in [Publishers -> Plans]
        /\ active \in Int \cup {None} /\ deaths \in Nat
    BY DEF ActiveInv, Ranges
  <1>2. P!NoPlan \in Plans
    BY DEF P!NoPlan, Plans
  <1>3. P!Minors \subseteq Nat /\ P!Available \subseteq P!Minors
    BY DEF ActiveInv, Ranges, P!Minors, P!Available
  \* The versions are as they were.
  <1>4. ASSUME version' = version
        PROVE  /\ P!Minors' = P!Minors /\ P!Available' = P!Available /\ P!OneDigit' = P!OneDigit
               /\ (\E n \in Nat : version \in [0 .. n - 1 -> Contents])'
    BY <1>1, <1>4 DEF P!Minors, P!Available, P!OneDigit, Ranges
  <1> DEFINE Kept == /\ at' \in [Publishers -> Places] /\ held' \in [Publishers -> Plans]
                     /\ deaths' \in Nat /\ active' \in Int \cup {None}
                     /\ (\E n \in Nat : version \in [0 .. n - 1 -> Contents])'
                     /\ Named' /\ Busy' /\ \A p \in Publishers : Carries(p)'
  <1>5. ASSUME UNCHANGED P!procVars PROVE Kept
    <2>1. /\ version' = version /\ at' = at /\ held' = held /\ active' = active /\ deaths' = deaths
          /\ turns' = turns
      BY <1>5 DEF P!procVars
    <2> QED BY <1>1, <1>4, <2>1 DEF Carries
  <1>6. ASSUME NEW p \in Publishers, NEW b \in Bodies, P!Publish(p, b) PROVE Kept
    <2>1. [minor |-> P!NextMinor, body |-> b] \in Plans /\ P!NextMinor \in P!Minors
      BY <1>3, <1>6 DEF P!Publish, Plans
    <2>2. /\ held' = [held EXCEPT ![p] = [minor |-> P!NextMinor, body |-> b]]
          /\ at' = [at EXCEPT ![p] = "file"] /\ at[p] = "idle"
          /\ UNCHANGED <<version, active, deaths, turns>>
      BY <1>6 DEF P!Publish, P!Ready
    <2>3. \A q \in Publishers : Carries(q)'
      BY <1>1, <1>4, <2>1, <2>2 DEF Carries
    <2>4. \A q \in Publishers : AtIt(q) => AtIt(q)'
      BY <1>1, <2>2
    <2> QED BY <1>1, <1>4, <2>1, <2>2, <2>3, <2>4 DEF Places
  <1>7. ASSUME NEW p \in Publishers, P!Rollback(p) \/ \E m \in P!Minors : P!RollbackTo(p, m)
        PROVE  Kept
    <2>1. PICK m \in P!Available :
            /\ held' = [held EXCEPT ![p] = [minor |-> m, body |-> None]]
            /\ at' = [at EXCEPT ![p] = "current"] /\ at[p] = "idle"
            /\ UNCHANGED <<version, active, deaths, turns>>
      BY <1>1, <1>7, RollbackFinds DEF P!RollbackTo, P!Rollback, P!Ready
    <2>2. [minor |-> m, body |-> None] \in Plans
      BY <1>3 DEF Plans
    <2>3. \A q \in Publishers : Carries(q)'
      BY <1>1, <1>4, <2>1, <2>2 DEF Carries
    <2>4. \A q \in Publishers : AtIt(q) => AtIt(q)'
      BY <1>1, <2>1
    <2> QED BY <1>1, <1>4, <2>1, <2>2, <2>3, <2>4 DEF Places
  <1>8. ASSUME NEW p \in Publishers, P!OpenVersion(p) \/ P!WriteVersion(p) PROVE Kept
    <2> DEFINE m == held[p].minor
    <2>1. \E place \in {"text", "current"} :
            /\ at[p] \in {"file", "text"} /\ at' = [at EXCEPT ![p] = place] /\ held' = held
            /\ UNCHANGED <<active, deaths, turns>>
      BY <1>8 DEF P!OpenVersion, P!WriteVersion
    <2>2. /\ m \in P!Minors /\ P!Minors' = P!Minors /\ P!Available' = P!Available \cup {m}
          /\ (\E n \in Nat : version \in [0 .. n - 1 -> Contents])'
      BY <1>8, VersionsStay
    <2>3. \A q \in Publishers : Carries(q)'
      BY <1>1, <2>1, <2>2 DEF Carries
    <2>4. AtIt(p)'
      BY <1>1, <2>1
    <2>5. Named'
      BY <1>1, <2>1, <2>2 DEF P!OneDigit
    <2> QED BY <1>1, <2>1, <2>2, <2>3, <2>4, <2>5 DEF Places
  <1>9. ASSUME NEW p \in Publishers, P!OpenCurrent(p) PROVE Kept
    <2>1. /\ at[p] = "current" /\ at' = [at EXCEPT ![p] = "pointer"] /\ active' = None
          /\ UNCHANGED <<version, held, deaths, turns>>
      BY <1>9 DEF P!OpenCurrent
    <2>2. \A q \in Publishers : Carries(q)'
      BY <1>1, <1>4, <2>1 DEF Carries
    <2>3. AtIt(p)'
      BY <1>1, <2>1
    <2> QED BY <1>1, <1>4, <2>1, <2>2, <2>3 DEF Places
  <1>10. ASSUME NEW p \in Publishers, P!WriteCurrent(p) PROVE Kept
    <2>1. /\ at' = [at EXCEPT ![p] = "idle"] /\ held' = [held EXCEPT ![p] = P!NoPlan]
          /\ UNCHANGED <<version, deaths, turns>>
      BY <1>10 DEF P!WriteCurrent
    <2>2. /\ active' \in Int /\ held[p].minor \in P!Available
          /\ turns \/ P!OneDigit => active' = held[p].minor
      BY <1>10, PointerWritten
    <2>3. active' # None
      BY <2>2 DEF P!ProceduresAssumption
    <2>4. \A q \in Publishers : Carries(q)'
      BY <1>1, <1>4, <2>1 DEF Carries
    <2> QED BY <1>1, <1>2, <1>4, <2>1, <2>2, <2>3, <2>4 DEF Places
  <1>11. ASSUME NEW p \in Publishers, P!Die(p) PROVE Kept
    <2>1. /\ at' = [at EXCEPT ![p] = "idle"] /\ held' = [held EXCEPT ![p] = P!NoPlan]
          /\ UNCHANGED <<version, active, turns>> /\ deaths' = deaths + 1
      BY <1>11 DEF P!Die
    <2>2. deaths' \in Nat /\ deaths' # 0
      BY <1>1, <2>1
    <2>3. \A q \in Publishers : Carries(q)'
      BY <1>1, <1>4, <2>1 DEF Carries
    <2> QED BY <1>1, <1>2, <1>4, <2>1, <2>2, <2>3 DEF Places
  <1>12. Kept
    BY <1>5, <1>6, <1>7, <1>8, <1>9, <1>10, <1>11 DEF P!ProcNext, P!CmdProcedure
  <1> QED BY <1>12 DEF ActiveInv, Ranges

\* While the commands take turns the one under way finds what it needs.
LEMMA TurnsStep ==
  P!ProceduresAssumption /\ ActiveInv /\ TurnsInv /\ [P!ProcNext]_(P!procVars) => TurnsInv'
  <1> SUFFICES ASSUME P!ProceduresAssumption, ActiveInv, TurnsInv, [P!ProcNext]_(P!procVars), turns'
               PROVE  TurnsInv'
    BY DEF TurnsInv
  <1> DEFINE Kept == /\ OneAtWork' /\ (\A q \in Publishers : Finds(q)')
                     /\ \A m \in P!Available' : Whole(m)'
  <1>1. /\ at \in [Publishers -> Places] /\ held \in [Publishers -> Plans] /\ Ranges
        /\ \A q \in Publishers : Carries(q)
    BY DEF ActiveInv, Ranges
  <1>2. turns
    BY DEF P!ProcNext, P!CmdProcedure, P!Publish, P!RollbackTo, P!Rollback, P!OpenVersion,
           P!WriteVersion, P!OpenCurrent, P!WriteCurrent, P!Die, P!procVars
  <1>3. /\ OneAtWork /\ (\A q \in Publishers : Finds(q)) /\ (\A m \in P!Available : Whole(m))
        /\ active \in P!Available \cup {None}
    BY <1>2 DEF TurnsInv, ActiveInv
  <1>4. ASSUME version' = version PROVE P!Available' = P!Available /\ P!Minors' = P!Minors
    BY <1>4 DEF P!Minors, P!Available
  \* Who is under way is alone, and the others find nothing.
  <1>5. ASSUME NEW p \in Publishers, at[p] # "idle"
        PROVE  \A q \in Publishers : q # p => at[q] = "idle"
    BY <1>3, <1>5 DEF OneAtWork
  <1>6. ASSUME UNCHANGED P!procVars PROVE Kept
    <2>1. UNCHANGED <<version, active, at, held, emptied>>
      BY <1>6 DEF P!procVars
    <2> QED BY <1>3, <1>4, <2>1 DEF OneAtWork, Finds, Whole
  <1>7. ASSUME NEW p \in Publishers, NEW place \in Places, NEW plan,
               \A q \in Publishers : at[q] = "idle",
               at' = [at EXCEPT ![p] = place], held' = [held EXCEPT ![p] = plan],
               UNCHANGED <<version, active, emptied>>,
               place = "current" \/ (place = "file" /\ plan.minor \notin P!Available)
        PROVE  Kept
    <2>1. \A q \in Publishers : q # p => at'[q] = "idle"
      BY <1>1, <1>7
    <2>2. at'[p] = place /\ held'[p] = plan
      BY <1>1, <1>7
    <2>3. \A q \in Publishers : Finds(q)'
      BY <1>4, <1>7, <2>1, <2>2 DEF Finds
    <2>4. \A m \in P!Available' : Whole(m)'
      BY <1>3, <1>4, <1>7 DEF Whole
    <2> QED BY <2>1, <2>3, <2>4 DEF OneAtWork
  <1>8. ASSUME NEW p \in Publishers, NEW b \in Bodies, P!Publish(p, b) PROVE Kept
    <2>1. P!NextMinor \notin P!Available
      BY <1>1, NextMinorIsFree
    <2>2. \A q \in Publishers : at[q] = "idle"
      BY <1>2, <1>8 DEF P!Publish, P!Ready
    <2>3. /\ at' = [at EXCEPT ![p] = "file"]
          /\ held' = [held EXCEPT ![p] = [minor |-> P!NextMinor, body |-> b]]
          /\ UNCHANGED <<version, active, emptied>>
      BY <1>8 DEF P!Publish
    <2> QED BY <1>7, <2>1, <2>2, <2>3 DEF Places
  <1>9. ASSUME NEW p \in Publishers, P!Rollback(p) \/ \E m \in P!Minors : P!RollbackTo(p, m)
        PROVE  Kept
    <2>1. /\ \A q \in Publishers : at[q] = "idle"
          /\ at' = [at EXCEPT ![p] = "current"]
          /\ \E plan : held' = [held EXCEPT ![p] = plan]
          /\ UNCHANGED <<version, active, emptied>>
      BY <1>2, <1>9 DEF P!Rollback, P!RollbackTo, P!Ready
    <2> QED BY <1>7, <2>1 DEF Places
  <1>10. ASSUME NEW p \in Publishers, P!OpenVersion(p) PROVE Kept
    <2> DEFINE m == held[p].minor
    <2>1. /\ at[p] = "file" /\ at' = [at EXCEPT ![p] = "text"]
          /\ UNCHANGED <<active, held, emptied>>
      BY <1>10 DEF P!OpenVersion
    <2>2. /\ m \in P!Minors /\ P!Minors' = P!Minors /\ P!Available' = P!Available \cup {m}
          /\ \A k \in P!Minors : k # m => version'[k] = version[k]
          /\ version'[m] = P!Empty
      BY <1>10, VersionsStay
    <2>3. m \notin P!Available /\ m # None
      BY <1>1, <1>3, <2>1, <2>2 DEF Finds, P!ProceduresAssumption, P!Minors, Ranges
    <2>4. active' # m
      BY <1>3, <2>1, <2>3
    <2>5. at'[p] = "text" /\ \A q \in Publishers : q # p => at'[q] = "idle"
      BY <1>1, <1>5, <2>1
    <2>6. \A q \in Publishers : Finds(q)'
      BY <2>1, <2>2, <2>4, <2>5 DEF Finds
    <2>7. ASSUME NEW k \in P!Available' PROVE Whole(k)'
      <3>1. CASE k = m
        BY <2>1, <2>5, <3>1 DEF Whole
      <3>2. CASE k # m
        <4>1. k \in P!Available /\ Whole(k) /\ version'[k] = version[k]
          BY <1>3, <2>2, <3>2 DEF P!Available
        <4>2. \A q \in Publishers : at[q] # "text"
          BY <1>5, <2>1
        <4> QED BY <2>1, <4>1, <4>2 DEF Whole
      <3> QED BY <3>1, <3>2
    <2> QED BY <2>5, <2>6, <2>7 DEF OneAtWork
  <1>11. ASSUME NEW p \in Publishers, P!WriteVersion(p) PROVE Kept
    <2> DEFINE m == held[p].minor
    <2>1. /\ at[p] = "text" /\ at' = [at EXCEPT ![p] = "current"] /\ emptied' = emptied \ {m}
          /\ UNCHANGED <<active, held>>
      BY <1>11 DEF P!WriteVersion
    <2>2. version[m] = P!Empty
      BY <1>3, <2>1 DEF Finds
    <2>3. /\ m \in P!Minors /\ P!Minors' = P!Minors /\ P!Available' = P!Available \cup {m}
          /\ \A k \in P!Minors : k # m => version'[k] = version[k]
          /\ version'[m] \in Bodies
      BY <1>11, <2>2, VersionsStay
    <2>4. at'[p] = "current" /\ \A q \in Publishers : q # p => at'[q] = "idle"
      BY <1>1, <1>5, <2>1
    <2>5. \A q \in Publishers : Finds(q)'
      BY <2>4 DEF Finds
    <2>6. ASSUME NEW k \in P!Available' PROVE Whole(k)'
      <3>1. CASE k = m
        BY <2>3, <3>1 DEF Whole
      <3>2. CASE k # m
        <4>1. k \in P!Available /\ Whole(k) /\ version'[k] = version[k]
          BY <1>3, <2>3, <3>2 DEF P!Available
        <4>2. \A q \in Publishers : at[q] = "text" => held[q].minor = m
          BY <1>5, <2>1
        <4> QED BY <2>1, <3>2, <4>1, <4>2 DEF Whole
      <3> QED BY <3>1, <3>2
    <2> QED BY <2>4, <2>5, <2>6 DEF OneAtWork
  <1>12. ASSUME NEW p \in Publishers, P!OpenCurrent(p) \/ P!WriteCurrent(p) PROVE Kept
    <2>1. \E place \in {"pointer", "idle"} :
            /\ at[p] \in {"current", "pointer"} /\ at' = [at EXCEPT ![p] = place]
            /\ place = "pointer" => active' = None
      BY <1>12 DEF P!OpenCurrent, P!WriteCurrent
    <2>2. UNCHANGED <<version, emptied>>
      BY <1>12 DEF P!OpenCurrent, P!WriteCurrent
    <2>3. at'[p] \in {"pointer", "idle"} /\ \A q \in Publishers : q # p => at'[q] = "idle"
      BY <1>1, <1>5, <2>1
    <2>4. \A q \in Publishers : Finds(q)'
      BY <1>1, <2>1, <2>3 DEF Finds
    <2>5. \A q \in Publishers : at[q] # "text"
      BY <1>5, <2>1
    <2>6. \A m \in P!Available' : Whole(m)'
      BY <1>3, <1>4, <2>2, <2>5 DEF Whole
    <2> QED BY <2>3, <2>4, <2>6 DEF OneAtWork
  <1>13. ASSUME NEW p \in Publishers, P!Die(p) PROVE Kept
    <2>1. /\ at[p] # "idle" /\ at' = [at EXCEPT ![p] = "idle"]
          /\ emptied' = IF at[p] = "text" THEN emptied \cup {held[p].minor} ELSE emptied
          /\ UNCHANGED <<version, active>>
      BY <1>13 DEF P!Die
    <2>2. \A q \in Publishers : at'[q] = "idle"
      BY <1>1, <1>5, <2>1
    <2>3. \A m \in P!Available' : Whole(m)'
      BY <1>3, <1>4, <1>5, <2>1 DEF Whole
    <2> QED BY <2>2, <2>3 DEF OneAtWork, Finds
  <1>14. Kept
    BY <1>6, <1>8, <1>9, <1>10, <1>11, <1>12, <1>13 DEF P!ProcNext, P!CmdProcedure
  <1> QED BY <1>14 DEF TurnsInv

\* Both invariants hold.
LEMMA ProceduresKept ==
  ASSUME P!ProceduresAssumption
  PROVE  P!ProcSpec => [](ActiveInv /\ TurnsInv)
  <1> QED BY ActiveInit, ActiveStep, TurnsStep, PTL DEF P!ProcSpec

-----------------------------------------------------------------------------
\* What is active is there, however the commands race and wherever they die, as long as no
\* name is longer than another; in turns it has its text, unless a death has emptied it
\* (procedures.py: publish_procedure opens and writes the version before it opens and writes
\* current.txt, and no version is removed).
THEOREM ActiveResolves ==
  ASSUME P!ProceduresAssumption
  PROVE  P!ProcSpec => []P!ActiveIsThere
  <1>1. ActiveInv /\ TurnsInv => P!ActiveIsThere
    <2> SUFFICES ASSUME ActiveInv, TurnsInv PROVE P!ActiveIsThere
      OBVIOUS
    <2>1. ASSUME turns, active # None PROVE version[active] \in Bodies \/ active \in emptied
      <3>1. active \in P!Available
        BY <2>1 DEF ActiveInv
      <3> QED BY <2>1, <3>1 DEF TurnsInv, Whole, Finds
    <2>2. ASSUME deaths = 0, P!Available # {}, \A p \in Publishers : at[p] = "idle"
          PROVE  active # None
      BY <2>2 DEF ActiveInv
    <2> QED BY <2>1, <2>2 DEF P!ActiveIsThere, ActiveInv
  <1> QED BY <1>1, ProceduresKept, PTL

\* A published version is never emptied or written over while the commands take turns,
\* whatever is rolled back and whoever dies in between (procedures.py: the next version is
\* counted from the newest one there is, not from the active one).
THEOREM PublishedKept ==
  ASSUME P!ProceduresAssumption
  PROVE  P!ProcSpec => [][P!PublishedStays]_(P!procVars)
  <1>1. ActiveInv /\ TurnsInv /\ [P!ProcNext]_(P!procVars) => [P!PublishedStays]_(P!procVars)
    <2> SUFFICES ASSUME P!ProceduresAssumption, ActiveInv, TurnsInv, P!ProcNext, turns,
                        NEW m \in P!Available, version[m] \in Bodies
                 PROVE  version'[m] = version[m]
      BY DEF P!PublishedStays
    <2>1. ASSUME NEW p \in Publishers, P!OpenVersion(p) \/ P!WriteVersion(p)
          PROVE  version'[m] = version[m]
      <3>1. \A k \in P!Minors : k # held[p].minor => version'[k] = version[k]
        BY <2>1, VersionsStay
      <3>2. at[p] = "file" \/ at[p] = "text"
        BY <2>1 DEF P!OpenVersion, P!WriteVersion
      <3>3. held[p].minor # m
        BY <3>2 DEF TurnsInv, Finds, P!ProceduresAssumption
      <3> QED BY <3>1, <3>3 DEF P!Available
    <2>2. version' = version \/ \E p \in Publishers : P!OpenVersion(p) \/ P!WriteVersion(p)
      BY DEF P!ProcNext, P!CmdProcedure, P!Publish, P!RollbackTo, P!Rollback, P!OpenCurrent,
             P!WriteCurrent, P!Die
    <2> QED BY <2>1, <2>2
  <1> QED BY <1>1, ProceduresKept, PTL DEF P!ProcSpec

\* A rollback that names no version goes to an older one, and to the newest of the
\* older ones, as long as the minor numbers have one digit (procedures.py:
\* rollback_procedure takes the name before the active one, and "1.10" is a name
\* before "1.2").
THEOREM RollbackFound ==
  ASSUME P!ProceduresAssumption
  PROVE  P!ProcSpec => []P!RollbackGoesBack
  <1>1. ActiveInv => P!RollbackGoesBack
    BY RollbackIsGreatest DEF P!RollbackGoesBack
  <1> QED BY <1>1, ProceduresKept, PTL

-----------------------------------------------------------------------------
(***************************************************************************)
(* The policy registry.                                                    *)
(***************************************************************************)
Proposals == [body : PolicyBodies \cup {None}, scope : Scopes \cup {None}, version : Nat]

\* What a caller carries past its reads is a policy of a scope with a version; a stored
\* policy has a version, and a pointer leads to a stored policy.
RegistryInv ==
  /\ policies \in [PolicyBodies -> R!Published \cup {R!NoRecord}]
  /\ current \in [Scopes -> PolicyBodies \cup {None}]
  /\ pc \in [Callers -> {"idle", "put", "promote"}]
  /\ local \in [Callers -> Proposals]
  /\ crashes \in Nat /\ ordered \in BOOLEAN
  /\ \A b \in PolicyBodies : policies[b] # R!NoRecord => policies[b].version # 0
  /\ R!CurrentResolves
  /\ \A c \in Callers : pc[c] # "idle" =>
       local[c].body \in PolicyBodies /\ local[c].scope \in Scopes /\ local[c].version # 0
  /\ \A c \in Callers : pc[c] = "promote" => policies[local[c].body] # R!NoRecord

LEMMA RegistryInit == R!RegistryAssumption /\ R!Init => RegistryInv
  <1> SUFFICES ASSUME R!RegistryAssumption, R!Init PROVE RegistryInv
    OBVIOUS
  <1>1. /\ policies = [b \in PolicyBodies |-> R!NoRecord] /\ current = [s \in Scopes |-> None]
        /\ pc = [c \in Callers |-> "idle"] /\ local = [c \in Callers |-> R!NoPublish]
        /\ crashes = 0 /\ ordered \in BOOLEAN
    BY DEF R!Init
  <1>2. R!NoPublish \in Proposals
    BY DEF R!NoPublish, Proposals
  <1> QED BY <1>1, <1>2 DEF RegistryInv, R!CurrentResolves

\* A publish starts with a version that is a number and not 0.
LEMMA NextVersionCounts ==
  ASSUME R!RegistryAssumption, RegistryInv, NEW s \in Scopes
  PROVE  R!NextVersion(s) \in Nat /\ R!NextVersion(s) # 0
  <1>1. current[s] # None => current[s] \in PolicyBodies /\ policies[current[s]] # R!NoRecord
    BY DEF RegistryInv, R!CurrentResolves
  <1>2. current[s] # None => policies[current[s]].version \in Nat
    BY <1>1 DEF RegistryInv, R!Published
  <1> QED BY <1>2 DEF R!NextVersion

LEMMA RegistryStep == R!RegistryAssumption /\ RegistryInv /\ [R!Next]_(R!vars) => RegistryInv'
  <1> SUFFICES ASSUME R!RegistryAssumption, RegistryInv, [R!Next]_(R!vars) PROVE RegistryInv'
    OBVIOUS
  <1> USE DEF RegistryInv
  <1>1. CASE UNCHANGED R!vars
    BY <1>1 DEF R!vars, R!CurrentResolves
  <1>2. ASSUME NEW c \in Callers, NEW s \in Scopes, NEW b \in PolicyBodies, R!Publish(c, s, b)
        PROVE  RegistryInv'
    <2>1. PICK n \in Nat : n = R!NextVersion(s) /\ n # 0
      BY NextVersionCounts
    <2>2. /\ pc' = [pc EXCEPT ![c] = "put"] /\ UNCHANGED <<policies, current, crashes, ordered>>
          /\ local' = [local EXCEPT ![c] = [body |-> b, scope |-> s, version |-> n]]
      BY <1>2, <2>1 DEF R!Publish
    <2>3. [body |-> b, scope |-> s, version |-> n] \in Proposals
      BY DEF Proposals
    <2>4. local' \in [Callers -> Proposals] /\ pc' \in [Callers -> {"idle", "put", "promote"}]
      BY <2>2, <2>3
    <2> QED BY <2>1, <2>2, <2>4 DEF R!CurrentResolves
  <1>3. ASSUME NEW c \in Callers, R!PutPolicy(c) PROVE RegistryInv'
    <2>1. /\ local[c].body \in PolicyBodies /\ local[c].scope \in Scopes
          /\ local[c].version \in Nat /\ local[c].version # 0
      BY <1>3 DEF R!PutPolicy, Proposals
    <2>2. PICK p : p = [scope |-> local[c].scope, version |-> local[c].version]
      OBVIOUS
    <2>3. p \in R!Published /\ p # R!NoRecord /\ p.version # 0
      BY <2>1, <2>2 DEF R!Published, R!NoRecord
    <2>4. /\ policies' = [policies EXCEPT ![local[c].body] = p]
          /\ pc' = [pc EXCEPT ![c] = "promote"] /\ UNCHANGED <<current, local, crashes, ordered>>
      BY <1>3, <2>2 DEF R!PutPolicy
    <2>5. /\ policies' \in [PolicyBodies -> R!Published \cup {R!NoRecord}]
          /\ pc' \in [Callers -> {"idle", "put", "promote"}]
      BY <2>1, <2>3, <2>4
    <2>6. \A b \in PolicyBodies : policies'[b] = policies[b] \/ policies'[b] = p
      BY <2>1, <2>4
    <2>7. \A b \in PolicyBodies : policies[b] # R!NoRecord => policies'[b] # R!NoRecord
      BY <2>3, <2>6
    <2>8. \A b \in PolicyBodies : policies'[b] # R!NoRecord => policies'[b].version # 0
      BY <2>3, <2>6
    <2>9. policies'[local[c].body] # R!NoRecord
      BY <2>1, <2>3, <2>4
    <2>10. R!CurrentResolves'
      BY <2>4, <2>7 DEF R!CurrentResolves
    <2>11. \A d \in Callers : pc'[d] # "idle" => pc[d] # "idle"
      BY <1>3, <2>4 DEF R!PutPolicy
    <2>12. \A d \in Callers : pc'[d] = "promote" => policies'[local'[d].body] # R!NoRecord
      BY <2>4, <2>7, <2>9
    <2> QED BY <2>4, <2>5, <2>8, <2>10, <2>11, <2>12
  <1>4. ASSUME NEW c \in Callers, R!Promote(c) PROVE RegistryInv'
    <2>1. /\ local[c].body \in PolicyBodies /\ local[c].scope \in Scopes
          /\ policies[local[c].body] # R!NoRecord
      BY <1>4 DEF R!Promote
    <2>2. /\ current' = [current EXCEPT ![local[c].scope] = local[c].body]
          /\ pc' = [pc EXCEPT ![c] = "idle"] /\ local' = [local EXCEPT ![c] = R!NoPublish]
          /\ UNCHANGED <<policies, crashes, ordered>>
      BY <1>4 DEF R!Promote
    <2>3. R!NoPublish \in Proposals
      BY DEF R!NoPublish, Proposals
    <2>4. local' \in [Callers -> Proposals] /\ pc' \in [Callers -> {"idle", "put", "promote"}]
      BY <2>2, <2>3
    <2>5. current' \in [Scopes -> PolicyBodies \cup {None}] /\ R!CurrentResolves'
      BY <2>1, <2>2 DEF R!CurrentResolves
    <2> QED BY <2>2, <2>4, <2>5
  <1>5. ASSUME NEW c \in Callers, R!Crash(c) PROVE RegistryInv'
    <2>1. /\ crashes' = crashes + 1 /\ UNCHANGED <<policies, current, ordered>>
          /\ pc' = [pc EXCEPT ![c] = "idle"] /\ local' = [local EXCEPT ![c] = R!NoPublish]
      BY <1>5 DEF R!Crash
    <2>2. R!NoPublish \in Proposals
      BY DEF R!NoPublish, Proposals
    <2>3. local' \in [Callers -> Proposals] /\ pc' \in [Callers -> {"idle", "put", "promote"}]
      BY <2>1, <2>2
    <2> QED BY <2>1, <2>3 DEF R!CurrentResolves
  <1> QED BY <1>1, <1>2, <1>3, <1>4, <1>5 DEF R!Next

\* The records, the pointers and what the callers carry stay in range (policy.py:
\* PolicyStore.publish), however they interleave and die.
THEOREM PolicyTypes ==
  ASSUME R!RegistryAssumption
  PROVE  R!Spec => []R!TypeOK
  <1>1. RegistryInv => R!TypeOK
    BY DEF RegistryInv, R!TypeOK, Proposals
  <1> QED BY <1>1, RegistryInit, RegistryStep, PTL DEF R!Spec

\* The pointer of a scope never leads to a policy that is not stored (policy.py: publish
\* puts the record before the pointer and removes nothing), whoever interleaves or dies.
THEOREM PointersResolve ==
  ASSUME R!RegistryAssumption
  PROVE  R!Spec => []R!CurrentResolves
  <1>1. RegistryInv => R!CurrentResolves
    BY DEF RegistryInv
  <1> QED BY <1>1, RegistryInit, RegistryStep, PTL DEF R!Spec

\* While the callers take turns one is under way at a time, and with one scope the
\* policy it is about to put is not stored yet.
PutsAreNew ==
  ordered =>
    /\ \A c, d \in Callers : pc[c] # "idle" /\ pc[d] # "idle" => c = d
    /\ \A c \in Callers : pc[c] = "put" => policies[local[c].body] = R!NoRecord

\* No policy is newer than number n.
UpTo(n) == \A b \in PolicyBodies : policies[b] # R!NoRecord => policies[b].version <= n

\* The scope's pointer names its newest policy, except while a newer one waits for its
\* promotion; the one about to be put is newer than all.
NewestInv(s) ==
  R!Undisturbed =>
    /\ R!VersionsDiffer
    /\ (\A c \in Callers : pc[c] # "promote") =>
         /\ current[s] = None => \A b \in PolicyBodies : policies[b] = R!NoRecord
         /\ current[s] # None => UpTo(policies[current[s]].version)
    /\ \A c \in Callers :
         /\ pc[c] = "put" => local[c].version = R!NextVersion(s)
         /\ pc[c] = "promote" =>
              policies[local[c].body].version = local[c].version /\ UpTo(local[c].version)

LEMMA NewestInit ==
  ASSUME R!RegistryAssumption, R!Init, NEW s \in Scopes
  PROVE  PutsAreNew /\ NewestInv(s)
  BY DEF R!Init, PutsAreNew, NewestInv, UpTo, R!VersionsDiffer, R!NoRecord

\* Of one scope, a stored policy is of that scope.
LEMMA OneScope ==
  ASSUME RegistryInv, NEW s, Scopes = {s}, NEW b \in PolicyBodies, policies[b] # R!NoRecord
  PROVE  policies[b].scope = s /\ policies[b].version \in Nat
  <1>1. policies[b] \in R!Published
    BY DEF RegistryInv
  <1> QED BY <1>1 DEF R!Published

LEMMA PutsAreNewStep ==
  ASSUME R!RegistryAssumption, RegistryInv, NEW s, Scopes = {s}, PutsAreNew, [R!Next]_(R!vars)
  PROVE  PutsAreNew'
  <1> SUFFICES ASSUME ordered PROVE PutsAreNew'
    BY DEF PutsAreNew, R!Next, R!vars, R!Publish, R!PutPolicy, R!Promote, R!Crash
  <1>1. /\ pc \in [Callers -> {"idle", "put", "promote"}] /\ local \in [Callers -> Proposals]
        /\ policies \in [PolicyBodies -> R!Published \cup {R!NoRecord}]
    BY DEF RegistryInv
  <1>2. CASE UNCHANGED R!vars
    BY <1>2 DEF PutsAreNew, R!vars
  <1>3. ASSUME NEW c \in Callers, NEW b \in PolicyBodies, R!Publish(c, s, b) PROVE PutsAreNew'
    <2>1. policies[b] = R!NoRecord
      BY <1>3, OneScope DEF R!Publish
    <2>2. \A d \in Callers : pc[d] = "idle"
      BY <1>3 DEF R!Publish, R!MayStart
    <2>3. /\ pc' = [pc EXCEPT ![c] = "put"] /\ UNCHANGED <<policies, ordered>>
          /\ local'[c].body = b
      BY <1>1, <1>3 DEF R!Publish
    <2>4. \A d \in Callers : pc'[d] # "idle" => d = c
      BY <1>1, <2>2, <2>3
    <2> QED BY <2>1, <2>3, <2>4 DEF PutsAreNew
  <1>4. ASSUME NEW c \in Callers, R!PutPolicy(c) PROVE PutsAreNew'
    <2>1. pc[c] = "put" /\ pc' = [pc EXCEPT ![c] = "promote"]
      BY <1>4 DEF R!PutPolicy
    <2>2. \A d \in Callers : pc[d] # "idle" => d = c
      BY <2>1 DEF PutsAreNew
    <2>3. \A d \in Callers : pc'[d] # "idle" => d = c
      BY <1>1, <2>1, <2>2
    <2>4. pc'[c] # "put"
      BY <1>1, <2>1
    <2> QED BY <2>3, <2>4 DEF PutsAreNew
  <1>5. ASSUME NEW c \in Callers, R!Promote(c) \/ R!Crash(c) PROVE PutsAreNew'
    <2>1. pc[c] # "idle" /\ pc' = [pc EXCEPT ![c] = "idle"]
      BY <1>5 DEF R!Promote, R!Crash
    <2>2. \A d \in Callers : pc[d] # "idle" => d = c
      BY <2>1 DEF PutsAreNew
    <2>3. \A d \in Callers : pc'[d] = "idle"
      BY <1>1, <2>1, <2>2
    <2> QED BY <2>3 DEF PutsAreNew
  <1> QED BY <1>2, <1>3, <1>4, <1>5 DEF R!Next

\* One more policy, newer than all there were.
LEMMA NewestStep ==
  ASSUME R!RegistryAssumption, RegistryInv, NEW s, Scopes = {s}, PutsAreNew, NewestInv(s),
         [R!Next]_(R!vars)
  PROVE  NewestInv(s)'
  <1>1. /\ pc \in [Callers -> {"idle", "put", "promote"}] /\ local \in [Callers -> Proposals]
        /\ policies \in [PolicyBodies -> R!Published \cup {R!NoRecord}] /\ crashes \in Nat
        /\ current \in [Scopes -> PolicyBodies \cup {None}] /\ R!CurrentResolves
        /\ None \notin PolicyBodies
    BY DEF RegistryInv, R!RegistryAssumption
  <1>2. CASE UNCHANGED R!vars
    BY <1>2 DEF NewestInv, UpTo, R!vars, R!Undisturbed, R!VersionsDiffer, R!NextVersion
  <1>3. ASSUME NEW c \in Callers, R!Crash(c) PROVE NewestInv(s)'
    <2>1. crashes' # 0
      BY <1>1, <1>3 DEF R!Crash
    <2> QED BY <2>1 DEF NewestInv, R!Undisturbed
  <1>4. SUFFICES ASSUME R!Undisturbed', NEW c \in Callers,
                        (\E b \in PolicyBodies : R!Publish(c, s, b)) \/ R!PutPolicy(c) \/ R!Promote(c)
                 PROVE  NewestInv(s)'
    BY <1>2, <1>3 DEF NewestInv, R!Next
  <1>5. R!Undisturbed /\ ordered
    BY <1>4 DEF R!Undisturbed, R!Publish, R!PutPolicy, R!Promote
  <1>6. \A d \in Callers : d # c => pc[d] = "idle"
    BY <1>4, <1>5 DEF PutsAreNew, R!Publish, R!MayStart, R!PutPolicy, R!Promote
  <1>7. CASE \E b \in PolicyBodies : R!Publish(c, s, b)
    <2>1. PICK b \in PolicyBodies : R!Publish(c, s, b)
      BY <1>7
    <2>2. /\ \A d \in Callers : pc[d] = "idle"
          /\ UNCHANGED <<policies, current, crashes, ordered>>
          /\ pc' = [pc EXCEPT ![c] = "put"] /\ local'[c].version = R!NextVersion(s)
      BY <1>1, <1>5, <2>1 DEF R!Publish, R!MayStart
    <2>3. \A d \in Callers : pc'[d] # "promote" /\ (pc'[d] = "put" => d = c)
      BY <1>1, <2>2
    <2> QED BY <1>5, <2>2, <2>3 DEF NewestInv, UpTo, R!VersionsDiffer, R!NextVersion
  <1>8. CASE R!PutPolicy(c)
    <2>1. PICK b, n : b = local[c].body /\ n = local[c].version
      OBVIOUS
    <2>2. /\ pc[c] = "put" /\ b \in PolicyBodies /\ n \in Nat /\ n # 0 /\ local[c].scope = s
          /\ policies[b] = R!NoRecord /\ n = R!NextVersion(s)
      BY <1>1, <1>5, <1>8, <2>1 DEF R!PutPolicy, RegistryInv, PutsAreNew, NewestInv, Proposals
    <2>3. /\ policies' = [policies EXCEPT ![b] = [scope |-> s, version |-> n]]
          /\ pc' = [pc EXCEPT ![c] = "promote"] /\ UNCHANGED <<current, local, crashes, ordered>>
      BY <1>8, <2>1, <2>2 DEF R!PutPolicy
    <2>4. \A d \in Callers : pc[d] # "promote"
      BY <1>6, <2>2
    <2>5. \A d \in PolicyBodies : policies[d] # R!NoRecord => policies[d].version < n
      <3>1. CASE current[s] = None
        BY <1>5, <2>4, <3>1 DEF NewestInv
      <3>2. CASE current[s] # None
        <4>1. UpTo(policies[current[s]].version)
          BY <1>5, <2>4, <3>2 DEF NewestInv
        <4>2. n = policies[current[s]].version + 1
          BY <2>2, <3>2 DEF R!NextVersion
        <4>3. current[s] \in PolicyBodies /\ policies[current[s]] # R!NoRecord
          BY <1>1, <3>2 DEF R!CurrentResolves
        <4>4. policies[current[s]].version \in Nat
          BY <4>3, OneScope
        <4>5. \A d \in PolicyBodies : policies[d] # R!NoRecord => policies[d].version \in Nat
          BY OneScope
        <4> QED BY <4>1, <4>2, <4>4, <4>5 DEF UpTo
      <3> QED BY <3>1, <3>2
    <2>6. /\ policies'[b] = [scope |-> s, version |-> n]
          /\ \A d \in PolicyBodies : d # b => policies'[d] = policies[d]
      BY <1>1, <2>2, <2>3
    <2>7. UpTo(n)'
      <3> SUFFICES ASSUME NEW d \in PolicyBodies, policies'[d] # R!NoRecord
                   PROVE  policies'[d].version <= n
        BY <2>3 DEF UpTo
      <3>1. CASE d = b
        BY <2>2, <2>6, <3>1
      <3>2. CASE d # b
        <4>1. policies[d].version \in Nat /\ policies[d].version < n
          BY <2>5, <2>6, <3>2, OneScope
        <4> QED BY <2>2, <2>6, <3>2, <4>1
      <3> QED BY <3>1, <3>2
    <2>8. R!VersionsDiffer'
      <3> SUFFICES ASSUME NEW d \in PolicyBodies, NEW e \in PolicyBodies, policies'[d] # R!NoRecord,
                          policies'[d] = policies'[e]
                   PROVE  d = e
        BY DEF R!VersionsDiffer
      <3>1. ASSUME NEW f \in PolicyBodies, f # b, policies'[f] = policies'[b] PROVE FALSE
        <4>1. policies[f] # R!NoRecord /\ policies[f].version = n
          BY <2>2, <2>6, <3>1 DEF R!NoRecord
        <4> QED BY <2>2, <2>5, <4>1
      <3>2. CASE d # b /\ e # b
        BY <1>5, <2>6, <3>2 DEF NewestInv, R!VersionsDiffer
      <3> QED BY <3>1, <3>2
    <2>9. \A d \in Callers : pc'[d] # "idle" => d = c
      BY <1>1, <1>6, <2>3
    <2>10. pc'[c] = "promote" /\ policies'[local'[c].body].version = n /\ local'[c].version = n
      BY <1>1, <2>1, <2>3, <2>6
    <2> QED BY <2>3, <2>7, <2>8, <2>9, <2>10 DEF NewestInv, UpTo
  <1>9. CASE R!Promote(c)
    <2>1. /\ pc[c] = "promote" /\ local[c].scope = s /\ local[c].body \in PolicyBodies
          /\ policies[local[c].body].version = local[c].version /\ UpTo(local[c].version)
      BY <1>1, <1>5, <1>9 DEF R!Promote, RegistryInv, NewestInv
    <2>2. /\ current' = [current EXCEPT ![s] = local[c].body]
          /\ pc' = [pc EXCEPT ![c] = "idle"] /\ UNCHANGED <<policies, crashes, ordered>>
      BY <1>9, <2>1 DEF R!Promote
    <2>3. current'[s] = local[c].body /\ current'[s] # None
      BY <1>1, <2>1, <2>2
    <2>4. \A d \in Callers : pc'[d] = "idle"
      BY <1>1, <1>6, <2>2
    <2>5. R!VersionsDiffer'
      BY <1>5, <2>2 DEF NewestInv, R!VersionsDiffer
    <2> QED BY <2>1, <2>2, <2>3, <2>4, <2>5 DEF NewestInv, UpTo
  <1> QED BY <1>4, <1>7, <1>8, <1>9

\* "a change is always a new version": of one scope, no two policies have the same version
\* while the callers take turns and none dies (policy.py: publish counts on from the
\* policy its pointer names, and puts the record before the pointer).
THEOREM VersionsAreNew ==
  ASSUME R!RegistryAssumption, NEW s, Scopes = {s}
  PROVE  R!Spec => []R!VersionsDiffer
  <1>1. R!Init => RegistryInv /\ PutsAreNew /\ NewestInv(s)
    BY RegistryInit, NewestInit
  <1>2. RegistryInv /\ PutsAreNew /\ NewestInv(s) /\ [R!Next]_(R!vars)
          => (RegistryInv /\ PutsAreNew /\ NewestInv(s))'
    BY RegistryStep, PutsAreNewStep, NewestStep
  <1>3. NewestInv(s) => R!VersionsDiffer
    BY DEF NewestInv, R!VersionsDiffer
  <1> QED BY <1>1, <1>2, <1>3, PTL DEF R!Spec

\* "current resolves to the latest active version": when nobody is publishing, the pointer
\* of one scope names a policy than which none is newer, while the callers take turns and
\* none dies (policy.py: publish and latest).
THEOREM PointerIsNewest ==
  ASSUME R!RegistryAssumption, NEW s, Scopes = {s}
  PROVE  R!Spec => []R!CurrentIsNewest
  <1>1. R!Init => RegistryInv /\ PutsAreNew /\ NewestInv(s)
    BY RegistryInit, NewestInit
  <1>2. RegistryInv /\ PutsAreNew /\ NewestInv(s) /\ [R!Next]_(R!vars)
          => (RegistryInv /\ PutsAreNew /\ NewestInv(s))'
    BY RegistryStep, PutsAreNewStep, NewestStep
  <1>3. RegistryInv /\ NewestInv(s) => R!CurrentIsNewest
    <2> SUFFICES ASSUME RegistryInv, NewestInv(s), R!Undisturbed, NEW b \in PolicyBodies,
                        \A c \in Callers : pc[c] = "idle", policies[b] # R!NoRecord
                 PROVE  /\ current[policies[b].scope] # None
                        /\ policies[current[policies[b].scope]].scope = policies[b].scope
                        /\ policies[current[policies[b].scope]].version >= policies[b].version
      BY DEF R!CurrentIsNewest
    <2>1. policies[b].scope = s /\ policies[b].version \in Nat
      BY OneScope
    <2>2. current[s] # None /\ UpTo(policies[current[s]].version)
      BY DEF NewestInv
    <2>3. current[s] \in PolicyBodies /\ policies[current[s]] # R!NoRecord
      BY <2>2 DEF RegistryInv, R!CurrentResolves
    <2>4. policies[current[s]].scope = s /\ policies[current[s]].version \in Nat
      BY <2>3, OneScope
    <2>5. policies[b].version <= policies[current[s]].version
      BY <2>2 DEF UpTo
    <2> QED BY <2>1, <2>2, <2>4, <2>5
  <1> QED BY <1>1, <1>2, <1>3, PTL DEF R!Spec

\* "the version bodies themselves are never edited or deleted": of one scope, a stored
\* policy stays what it is while the callers take turns, whoever dies (policy.py: publish
\* answers a body the scope has from the store).  With a second scope it does not.
THEOREM PoliciesStay ==
  ASSUME R!RegistryAssumption, NEW s, Scopes = {s}
  PROVE  R!Spec => R!PoliciesAreKept
  <1>1. R!Init => RegistryInv /\ PutsAreNew
    BY RegistryInit, NewestInit
  <1>2. RegistryInv /\ PutsAreNew /\ [R!Next]_(R!vars) => (RegistryInv /\ PutsAreNew)'
    BY RegistryStep, PutsAreNewStep
  <1>3. RegistryInv /\ PutsAreNew /\ [R!Next]_(R!vars) =>
          [ordered => \A b \in PolicyBodies :
             policies[b] # R!NoRecord => policies'[b] = policies[b]]_(R!vars)
    <2> SUFFICES ASSUME RegistryInv, PutsAreNew, R!Next, ordered, NEW b \in PolicyBodies,
                        policies[b] # R!NoRecord
                 PROVE  policies'[b] = policies[b]
      OBVIOUS
    <2>1. UNCHANGED policies \/ \E c \in Callers : R!PutPolicy(c)
      BY DEF R!Next, R!Publish, R!Promote, R!Crash
    <2>2. ASSUME NEW c \in Callers, R!PutPolicy(c) PROVE policies'[b] = policies[b]
      <3>1. local[c].body # b
        BY <2>2 DEF R!PutPolicy, PutsAreNew
      <3> QED BY <2>2, <3>1 DEF R!PutPolicy, RegistryInv
    <2> QED BY <2>1, <2>2
  <1> QED BY <1>1, <1>2, <1>3, PTL DEF R!Spec, R!PoliciesAreKept

-----------------------------------------------------------------------------
(***************************************************************************)
(* Schedules.                                                              *)
(***************************************************************************)
\* A record of the table schedules, whatever its times are.
IsRecord(x) ==
  /\ x = [cron |-> x.cron, enabled |-> x.enabled, next_run |-> x.next_run, last_run |-> x.last_run]
  /\ x.cron \in S!Crons /\ x.enabled \in BOOLEAN

\* Where there is a record, and what a runner and a command hold of it.
ScheduleShape ==
  /\ schedAt \in [Runners -> {"idle", "mark", "put"}]
  /\ DOMAIN schedHeld = Runners
  /\ sched # None => IsRecord(sched)
  /\ DOMAIN copies = Editors
  /\ \A e \in Editors : copies[e] # None => IsRecord(copies[e])
  /\ \A r \in Runners :
       /\ schedAt[r] # "idle" => sched # None
       /\ schedAt[r] = "put" => IsRecord(schedHeld[r])

\* Unless a command came in between, a runner about to put a mark holds what the last
\* command wanted.
OffInv ==
  /\ ScheduleShape
  /\ crossed \in BOOLEAN /\ wanted \in BOOLEAN
  /\ ~crossed =>
       /\ sched # None => sched.enabled = wanted
       /\ \A r \in Runners : schedAt[r] = "put" => schedHeld[r].enabled = wanted

\* No schedule is not a schedule.
NoneIsNoRecord == \A x : IsRecord(x) => x # None

Switched(x, on, t) == [x EXCEPT !.enabled = on, !.next_run = t]
Marked(x, u, t) == [x EXCEPT !.last_run = u, !.next_run = t]

\* A record switched, or with other times, is a record.
LEMMA SwitchedIsRecord ==
  ASSUME NEW x, IsRecord(x), NEW on \in BOOLEAN, NEW t
  PROVE  /\ IsRecord(Switched(x, on, t)) /\ Switched(x, on, t).next_run = t
         /\ Switched(x, on, t).last_run = x.last_run
  <1> PICK y : y = Switched(x, on, t)
    OBVIOUS
  <1>1. PICK c, e, n, l : x = [cron |-> c, enabled |-> e, next_run |-> n, last_run |-> l]
    BY DEF IsRecord
  <1>2. y.enabled = on /\ y.next_run = t /\ y.cron = c /\ y.last_run = l
    BY <1>1 DEF Switched
  <1>3. y = [cron |-> y.cron, enabled |-> y.enabled, next_run |-> y.next_run,
             last_run |-> y.last_run]
    BY <1>1 DEF Switched
  <1>4. c \in S!Crons /\ x.last_run = l
    BY <1>1 DEF IsRecord
  <1>5. IsRecord(y)
    BY <1>2, <1>3, <1>4 DEF IsRecord
  <1> HIDE DEF IsRecord
  <1> QED BY <1>2, <1>4, <1>5

LEMMA MarkedIsRecord ==
  ASSUME NEW x, IsRecord(x), NEW t, NEW u
  PROVE  /\ IsRecord(Marked(x, u, t)) /\ Marked(x, u, t).enabled = x.enabled
         /\ Marked(x, u, t).next_run = t /\ Marked(x, u, t).last_run = u
  <1> PICK y : y = Marked(x, u, t)
    OBVIOUS
  <1>1. PICK c, e, n, l : x = [cron |-> c, enabled |-> e, next_run |-> n, last_run |-> l]
    BY DEF IsRecord
  <1>2. y.enabled = e /\ y.next_run = t /\ y.cron = c /\ y.last_run = u
    BY <1>1 DEF Marked
  <1>3. y = [cron |-> y.cron, enabled |-> y.enabled, next_run |-> y.next_run,
             last_run |-> y.last_run]
    BY <1>1 DEF Marked
  <1>4. c \in S!Crons /\ e \in BOOLEAN /\ x.enabled = e
    BY <1>1 DEF IsRecord
  <1>5. IsRecord(y)
    BY <1>2, <1>3, <1>4 DEF IsRecord
  <1> HIDE DEF IsRecord
  <1> QED BY <1>2, <1>4, <1>5

\* What a command has read and is about to put, whichever command it is.
LEMMA ChangeIsSwitch ==
  ASSUME NEW e \in Editors, DOMAIN copies = Editors, sched # None => IsRecord(sched),
         S!SetEnabled(e, TRUE) \/ S!SetEnabled(e, FALSE) \/ S!Remove(e)
  PROVE  /\ sched # None /\ copies[e] = None
         /\ UNCHANGED <<sched, now, schedAt, schedHeld, wanted, crossed, undone, fires, schedDeaths>>
         /\ DOMAIN copies' = Editors
         /\ \A d \in Editors : d # e => copies'[d] = copies[d]
         /\ IsRecord(copies'[e]) /\ copies'[e].last_run = sched.last_run
         /\ copies'[e].next_run \in {S!NextFire(sched.cron, now), sched.next_run, 0}
  <1>1. ASSUME NEW on \in BOOLEAN, NEW t, S!Change(e, on, t)
        PROVE  /\ sched # None /\ copies[e] = None
               /\ UNCHANGED <<sched, now, schedAt, schedHeld, wanted, crossed, undone, fires,
                              schedDeaths>>
               /\ DOMAIN copies' = Editors
               /\ \A d \in Editors : d # e => copies'[d] = copies[d]
               /\ IsRecord(copies'[e]) /\ copies'[e].last_run = sched.last_run
               /\ copies'[e].next_run = t
    <2>1. PICK y : y = Switched(sched, on, t)
      OBVIOUS
    <2>2. /\ sched # None /\ copies[e] = None
          /\ UNCHANGED <<sched, now, schedAt, schedHeld, wanted, crossed, undone, fires,
                         schedDeaths>>
          /\ copies' = [copies EXCEPT ![e] = y]
      BY <1>1, <2>1 DEF S!Change, Switched
    <2>3. IsRecord(y) /\ y.last_run = sched.last_run /\ y.next_run = t
      BY <2>1, <2>2, SwitchedIsRecord
    <2>4. copies'[e] = y
      BY <2>2
    <2>5. IsRecord(copies'[e])
      BY <2>3, <2>4
    <2> HIDE DEF IsRecord
    <2> QED BY <2>2, <2>3, <2>4, <2>5
  <1>2. ASSUME NEW on \in BOOLEAN, S!SetEnabled(e, on)
        PROVE  \E t \in {S!NextFire(sched.cron, now), sched.next_run} : S!Change(e, on, t)
    <2>1. CASE on
      BY <1>2, <2>1 DEF S!SetEnabled
    <2>2. CASE ~on
      BY <1>2, <2>2 DEF S!SetEnabled
    <2> QED BY <2>1, <2>2
  <1>3. S!Remove(e) => S!Change(e, FALSE, 0)
    BY DEF S!Remove
  <1>4. PICK on \in BOOLEAN, t \in {S!NextFire(sched.cron, now), sched.next_run, 0} :
          S!Change(e, on, t)
    <2>1. CASE S!Remove(e)
      BY <1>3, <2>1
    <2>2. ASSUME NEW on \in BOOLEAN, S!SetEnabled(e, on)
          PROVE  \E t \in {S!NextFire(sched.cron, now), sched.next_run, 0} : S!Change(e, on, t)
      BY <1>2, <2>2
    <2> QED BY <2>1, <2>2
  <1> HIDE DEF IsRecord
  <1> QED BY <1>1, <1>4

LEMMA OffInit ==
  ASSUME S!SchedInit
  PROVE  OffInv
  BY DEF S!SchedInit, OffInv, ScheduleShape

LEMMA OffStep ==
  ASSUME NoneIsNoRecord, OffInv, [S!SchedNext]_(S!schedVars)
  PROVE  OffInv'
  <1>1. /\ schedAt \in [Runners -> {"idle", "mark", "put"}] /\ DOMAIN schedHeld = Runners
        /\ sched # None => IsRecord(sched)
        /\ DOMAIN copies = Editors /\ \A e \in Editors : copies[e] # None => IsRecord(copies[e])
        /\ \A r \in Runners : /\ schedAt[r] # "idle" => sched # None
                              /\ schedAt[r] = "put" => IsRecord(schedHeld[r])
        /\ crossed \in BOOLEAN /\ wanted \in BOOLEAN
        /\ ~crossed => /\ sched # None => sched.enabled = wanted
                       /\ \A r \in Runners : schedAt[r] = "put" => schedHeld[r].enabled = wanted
    BY DEF OffInv, ScheduleShape
  <1>2. CASE UNCHANGED S!schedVars \/ S!Tick
    <2>1. UNCHANGED <<sched, schedAt, schedHeld, copies, wanted, crossed>>
      BY <1>2 DEF S!schedVars, S!Tick
    <2> QED BY <1>1, <2>1 DEF OffInv, ScheduleShape, IsRecord
  <1>3. ASSUME UNCHANGED <<sched, schedAt, schedHeld, wanted, crossed>>, DOMAIN copies' = Editors,
               NEW e \in Editors, IsRecord(copies'[e]),
               \A d \in Editors : d # e => copies'[d] = copies[d]
        PROVE  OffInv'
    <2>1. \A d \in Editors : copies'[d] # None => IsRecord(copies'[d])
      BY <1>1, <1>3
    <2> QED BY <1>1, <1>3, <2>1 DEF OffInv, ScheduleShape, IsRecord
  <1>4. ASSUME NEW e \in Editors, NEW c \in S!Crons, S!Add(e, c) PROVE OffInv'
    <2>1. PICK x : x = [cron |-> c, enabled |-> TRUE, next_run |-> S!NextFire(c, now),
                        last_run |-> -1]
      OBVIOUS
    <2>2. /\ UNCHANGED <<sched, schedAt, schedHeld, wanted, crossed>>
          /\ copies' = [copies EXCEPT ![e] = x]
      BY <1>4, <2>1 DEF S!Add
    <2>3. IsRecord(x) /\ copies'[e] = x
      BY <1>1, <2>1, <2>2 DEF IsRecord
    <2>4. IsRecord(copies'[e])
      BY <2>3
    <2>5. DOMAIN copies' = Editors /\ \A d \in Editors : d # e => copies'[d] = copies[d]
      BY <1>1, <2>2
    <2> HIDE DEF IsRecord
    <2> QED BY <1>3, <2>2, <2>4, <2>5
  <1>5. ASSUME NEW e \in Editors, S!SetEnabled(e, TRUE) \/ S!SetEnabled(e, FALSE) \/ S!Remove(e)
        PROVE OffInv'
    BY <1>1, <1>3, <1>5, ChangeIsSwitch
  <1>6. ASSUME NEW e \in Editors, S!PutChange(e) PROVE OffInv'
    <2>1. /\ copies[e] # None /\ sched' = copies[e] /\ wanted' = copies[e].enabled
          /\ copies' = [copies EXCEPT ![e] = None]
          /\ crossed' = (crossed \/ S!Marking) /\ UNCHANGED <<schedAt, schedHeld>>
      BY <1>6 DEF S!PutChange
    <2>2. IsRecord(sched)' /\ sched'.enabled = wanted' /\ wanted' \in BOOLEAN
      BY <1>1, <2>1 DEF IsRecord
    <2>3. sched' # None
      BY <1>1, <2>1
    <2>4. ~crossed' => \A r \in Runners : schedAt'[r] # "put"
      BY <2>1 DEF S!Marking
    <2>5. crossed' \in BOOLEAN
      BY <1>1, <2>1
    <2>6. DOMAIN copies' = Editors /\ \A d \in Editors : copies'[d] # None => copies'[d] = copies[d]
      BY <1>1, <2>1
    <2>7. (\A d \in Editors : copies[d] # None => IsRecord(copies[d]))'
      BY <1>1, <2>6 DEF IsRecord
    <2> QED BY <1>1, <2>1, <2>2, <2>3, <2>4, <2>5, <2>6, <2>7 DEF OffInv, ScheduleShape
  <1>7. ASSUME NEW r \in Runners, S!Fire(r) PROVE OffInv'
    <2>1. /\ schedAt[r] = "idle" /\ sched # None /\ UNCHANGED <<sched, copies, wanted, crossed>>
          /\ schedAt' = [schedAt EXCEPT ![r] = "mark"]
          /\ schedHeld' = [schedHeld EXCEPT ![r] = sched]
      BY <1>7 DEF S!Fire, S!Due
    <2>2. \A q \in Runners : schedAt'[q] = "put"
               => schedAt[q] = "put" /\ schedHeld'[q] = schedHeld[q]
      BY <1>1, <2>1
    <2>3. schedAt' \in [Runners -> {"idle", "mark", "put"}] /\ DOMAIN schedHeld' = Runners
      BY <1>1, <2>1
    <2> QED BY <1>1, <2>1, <2>2, <2>3 DEF OffInv, ScheduleShape, IsRecord
  <1>8. ASSUME NEW r \in Runners, S!Mark(r) PROVE OffInv'
    <2>1. PICK t, u : t = S!NextFire(sched.cron, now) /\ u = now
      OBVIOUS
    <2>2. PICK x : x = Marked(sched, u, t)
      OBVIOUS
    <2>3. /\ schedAt[r] = "mark" /\ UNCHANGED <<sched, copies, wanted, crossed>>
          /\ schedAt' = [schedAt EXCEPT ![r] = "put"] /\ schedHeld' = [schedHeld EXCEPT ![r] = x]
      BY <1>8, <2>1, <2>2 DEF S!Mark, S!MarkReads, Marked
    <2>4. sched # None /\ IsRecord(x) /\ x.enabled = sched.enabled
      <3>1. sched # None /\ IsRecord(sched)
        BY <1>1, <2>3
      <3> QED BY <2>2, <3>1, MarkedIsRecord
    <2>5. schedAt' \in [Runners -> {"idle", "mark", "put"}] /\ DOMAIN schedHeld' = Runners
      BY <1>1, <2>3
    <2>6. /\ schedHeld'[r] = x /\ schedAt'[r] = "put"
          /\ \A q \in Runners : q # r => schedAt'[q] = schedAt[q] /\ schedHeld'[q] = schedHeld[q]
      BY <1>1, <2>3
    <2> HIDE DEF IsRecord
    <2>7. ScheduleShape'
      BY <1>1, <2>3, <2>4, <2>5, <2>6 DEF ScheduleShape, IsRecord
    <2> QED BY <1>1, <2>3, <2>4, <2>6, <2>7 DEF OffInv
  <1>9. ASSUME NEW r \in Runners, S!PutMark(r) PROVE OffInv'
    <2>1. /\ schedAt[r] = "put" /\ sched' = schedHeld[r] /\ UNCHANGED <<copies, wanted, crossed>>
          /\ schedAt' = [schedAt EXCEPT ![r] = "idle"]
          /\ schedHeld' = [schedHeld EXCEPT ![r] = None]
      BY <1>9 DEF S!PutMark
    <2>2. IsRecord(sched)' /\ sched' # None
      BY <1>1, <2>1 DEF NoneIsNoRecord, IsRecord
    <2>3. \A q \in Runners : schedAt'[q] # "idle"
               => schedAt'[q] = schedAt[q] /\ schedHeld'[q] = schedHeld[q]
      BY <1>1, <2>1
    <2>4. schedAt' \in [Runners -> {"idle", "mark", "put"}] /\ DOMAIN schedHeld' = Runners
      BY <1>1, <2>1
    <2> QED BY <1>1, <2>1, <2>2, <2>3, <2>4 DEF OffInv, ScheduleShape, IsRecord
  <1>10. ASSUME NEW r \in Runners, S!Die(r) PROVE OffInv'
    <2>1. /\ UNCHANGED <<sched, copies, wanted, crossed>>
          /\ schedAt' = [schedAt EXCEPT ![r] = "idle"]
          /\ schedHeld' = [schedHeld EXCEPT ![r] = None]
      BY <1>10 DEF S!Die
    <2>2. \A q \in Runners : schedAt'[q] # "idle"
               => schedAt'[q] = schedAt[q] /\ schedHeld'[q] = schedHeld[q]
      BY <1>1, <2>1
    <2>3. schedAt' \in [Runners -> {"idle", "mark", "put"}] /\ DOMAIN schedHeld' = Runners
      BY <1>1, <2>1
    <2> QED BY <1>1, <2>1, <2>2, <2>3 DEF OffInv, ScheduleShape, IsRecord
  <1> QED BY <1>2, <1>4, <1>5, <1>6, <1>7, <1>8, <1>9, <1>10 DEF S!SchedNext, S!CmdSched

\* A schedule is on exactly if the last command wanted it so, unless a command came between
\* the reading and the putting of a mark (scheduler.py: set_enabled, remove_schedule and
\* mark_fired, which puts the record it read whole), for any runners and deaths.
THEOREM OffStays ==
  ASSUME NoneIsNoRecord
  PROVE  S!SchedSpec => []S!OffIsKept
  <1>1. OffInv => S!OffIsKept
    BY DEF OffInv, S!OffIsKept
  <1> QED BY <1>1, OffInit, OffStep, PTL DEF S!SchedSpec

-----------------------------------------------------------------------------
\* The search finds a day: every expression is met within it, as a month and a week of
\* coprime lengths make sure.
EveryCronMeets ==
  \A c \in S!Crons, n \in 0 .. MaxClock :
    \E t \in n + 1 .. n + MonthDays * WeekDays : S!DomOk(c, t) /\ S!DowOk(c, t)

LEMMA NextFireIsLater ==
  ASSUME S!SchedulesAssumption, EveryCronMeets, NEW c \in S!Crons, NEW n \in 0 .. MaxClock
  PROVE  S!NextFire(c, n) \in Nat /\ S!NextFire(c, n) > n
  <1> DEFINE days == {t \in n + 1 .. n + MonthDays * WeekDays : S!DomOk(c, t) /\ S!DowOk(c, t)}
  <1>1. n \in Nat /\ \A t \in days : t \in Nat /\ t > n
    BY DEF S!SchedulesAssumption
  <1>2. days # {}
    BY DEF EveryCronMeets
  <1>3. S!NextFire(c, n) = S!Min(days)
    BY DEF S!NextFire
  <1> HIDE DEF days
  <1>4. PICK least \in days : \A y \in days : least <= y
    BY <1>1, <1>2, LeastNumber
  <1>5. S!Min(days) \in days
    BY <1>4 DEF S!Min
  <1> QED BY <1>1, <1>3, <1>5

\* A time that was not run yet.
Fresh(t) == t \in Nat /\ (t \in 1 .. MaxClock => fires[t] = 0)

\* The times of a record: it was last marked before its next run.
GoodTimes(x) ==
  /\ x.next_run \in Nat /\ x.last_run \in Int /\ -1 <= x.last_run /\ x.last_run <= now
  /\ x.next_run = 0 \/ x.last_run < x.next_run

TimesInv ==
  /\ sched # None => GoodTimes(sched)
  /\ \A e \in Editors : copies[e] # None => GoodTimes(copies[e])
  /\ \A r \in Runners : schedAt[r] = "put" => GoodTimes(schedHeld[r])

\* No command is ahead of the record, and a mark under way is: what a command has read
\* before a mark can be told from what it read after.
MarksGrow(r) ==
  /\ \A e \in Editors : copies[e] # None =>
       copies[e].last_run <= (IF sched = None THEN -1 ELSE sched.last_run)
  /\ schedAt[r] = "mark" => sched.last_run < now
  /\ schedAt[r] = "put" => sched.last_run < schedHeld[r].last_run

\* The record a command may put without undoing a mark.
UpToDate(e) ==
  copies[e] # None /\ (sched = None \/ sched.last_run = copies[e].last_run)

\* What is still to come was not run, and neither was the time the one runner r goes for
\* next, or a command or itself is about to put: it was later than now when it was
\* computed, and no mark has passed it by.
OnceInv(r) ==
  /\ OffInv /\ TimesInv
  /\ now \in 0 .. MaxClock /\ schedDeaths \in Nat /\ undone \in BOOLEAN
  /\ fires \in [0 .. MaxClock -> Nat]
  /\ schedDeaths = 0 /\ ~undone =>
       /\ MarksGrow(r)
       /\ \A t \in 0 .. MaxClock : fires[t] <= 1 /\ (t > now => fires[t] = 0)
       /\ schedAt[r] = "idle" =>
            /\ sched # None => Fresh(sched.next_run)
            /\ \A e \in Editors : UpToDate(e) => Fresh(copies[e].next_run)
       /\ schedAt[r] = "put" => Fresh(schedHeld[r].next_run)

LEMMA OnceInit ==
  ASSUME S!SchedulesAssumption, S!SchedInit, NEW r \in Runners
  PROVE  OnceInv(r)
  <1>1. MaxClock \in Nat
    BY DEF S!SchedulesAssumption
  <1>2. /\ sched = None /\ now = 0 /\ schedDeaths = 0 /\ undone = FALSE
        /\ \A q \in Runners : schedAt[q] = "idle"
        /\ \A e \in Editors : copies[e] = None
        /\ fires = [t \in 0 .. MaxClock |-> 0] /\ OffInv
    BY OffInit DEF S!SchedInit
  <1> HIDE DEF OffInv
  <1>3. TimesInv /\ MarksGrow(r) /\ \A e \in Editors : ~UpToDate(e)
    BY <1>2 DEF TimesInv, MarksGrow, UpToDate
  <1>4. fires \in [0 .. MaxClock -> Nat] /\ \A t \in 0 .. MaxClock : fires[t] = 0
    BY <1>2
  <1>5. now \in 0 .. MaxClock /\ schedDeaths \in Nat
    BY <1>1, <1>2
  <1>6. undone \in BOOLEAN
    BY DEF S!SchedInit
  <1>7. \A t \in 0 .. MaxClock : fires[t] <= 1 /\ (t > now => fires[t] = 0)
    BY <1>4
  <1> HIDE DEF TimesInv, MarksGrow, UpToDate
  <1> QED BY <1>2, <1>3, <1>4, <1>5, <1>7, <1>6 DEF OnceInv

\* A step other than a run leaves fresh what was fresh.
LEMMA FreshStays == ASSUME NEW t, Fresh(t), UNCHANGED fires PROVE Fresh(t)'
  BY DEF Fresh

LEMMA OnceStep ==
  ASSUME S!SchedulesAssumption, EveryCronMeets, NoneIsNoRecord, NEW r, Runners = {r},
         OnceInv(r), [S!SchedNext]_(S!schedVars)
  PROVE  OnceInv(r)'
  <1>1. /\ OffInv' /\ OffInv /\ MaxClock \in Nat
        /\ now \in 0 .. MaxClock /\ schedDeaths \in Nat /\ undone \in BOOLEAN
        /\ fires \in [0 .. MaxClock -> Nat]
        /\ schedAt \in [Runners -> {"idle", "mark", "put"}] /\ DOMAIN schedHeld = Runners
        /\ sched # None => IsRecord(sched)
        /\ DOMAIN copies = Editors /\ \A e \in Editors : copies[e] # None => IsRecord(copies[e])
        /\ schedAt[r] # "idle" => sched # None
    BY OffStep DEF OnceInv, OffInv, ScheduleShape, S!SchedulesAssumption
  <1>2. /\ sched # None => GoodTimes(sched)
        /\ \A e \in Editors : copies[e] # None => GoodTimes(copies[e])
        /\ schedAt[r] = "put" => GoodTimes(schedHeld[r])
    BY DEF OnceInv, TimesInv
  <1>3. ASSUME schedDeaths = 0, ~undone
        PROVE  /\ MarksGrow(r)
               /\ \A t \in 0 .. MaxClock : fires[t] <= 1 /\ (t > now => fires[t] = 0)
               /\ schedAt[r] = "idle" =>
                    /\ sched # None => Fresh(sched.next_run)
                    /\ \A e \in Editors : UpToDate(e) => Fresh(copies[e].next_run)
               /\ schedAt[r] = "put" => Fresh(schedHeld[r].next_run)
    BY <1>3 DEF OnceInv
  <1>4. ASSUME NEW c \in S!Crons
        PROVE  /\ S!NextFire(c, now) \in Nat /\ S!NextFire(c, now) > now
               /\ schedDeaths = 0 /\ ~undone => Fresh(S!NextFire(c, now))
    <2>1. S!NextFire(c, now) \in Nat /\ S!NextFire(c, now) > now
      BY <1>1, NextFireIsLater
    <2> QED BY <1>1, <1>3, <2>1 DEF Fresh
  <1>5. CASE UNCHANGED S!schedVars
    BY <1>1, <1>2, <1>5 DEF S!schedVars, OnceInv, Fresh, TimesInv, GoodTimes, MarksGrow, UpToDate
  <1>6. CASE S!Tick
    <2>1. /\ now' = now + 1 /\ now < MaxClock
          /\ UNCHANGED <<sched, schedAt, schedHeld, copies, undone, fires, schedDeaths>>
      BY <1>6 DEF S!Tick
    <2>2. now' \in 0 .. MaxClock /\ \A t \in 0 .. MaxClock : t > now' => t > now
      BY <1>1, <2>1
    <2>3. TimesInv'
      <3>1. \A x : GoodTimes(x) => GoodTimes(x)'
        BY <1>1, <2>1 DEF GoodTimes
      <3> QED BY <1>1, <1>2, <2>1, <3>1 DEF TimesInv, GoodTimes
    <2>4. MarksGrow(r) => MarksGrow(r)'
      <3>1. schedAt[r] = "mark" => sched.last_run \in Int
        BY <1>1, <1>2 DEF GoodTimes
      <3> QED BY <1>1, <2>1, <3>1 DEF MarksGrow
    <2> QED BY <1>1, <1>3, <2>1, <2>2, <2>3, <2>4 DEF OnceInv, Fresh, UpToDate
  <1>7. ASSUME NEW e \in Editors, copies[e] = None, DOMAIN copies' = Editors,
               \A d \in Editors : d # e => copies'[d] = copies[d],
               UNCHANGED <<sched, now, schedAt, schedHeld, undone, fires, schedDeaths>>,
               GoodTimes(copies'[e]),
               copies'[e].last_run = IF sched = None THEN -1 ELSE sched.last_run,
               schedDeaths = 0 /\ ~undone /\ schedAt[r] = "idle" => Fresh(copies'[e].next_run)
        PROVE  OnceInv(r)'
    <2>1. TimesInv'
      <3>1. \A x : GoodTimes(x) => GoodTimes(x)'
        BY <1>7 DEF GoodTimes
      <3>2. \A d \in Editors : copies'[d] # None => GoodTimes(copies'[d])
        BY <1>2, <1>7
      <3> QED BY <1>1, <1>2, <1>7, <3>1, <3>2 DEF TimesInv, GoodTimes
    <2>2. MarksGrow(r) => MarksGrow(r)'
      <3>1. (IF sched = None THEN -1 ELSE sched.last_run) \in Int
        BY <1>2 DEF GoodTimes
      <3> QED BY <1>1, <1>7, <3>1 DEF MarksGrow
    <2> QED BY <1>1, <1>3, <1>7, <2>1, <2>2 DEF OnceInv, Fresh, UpToDate
  <1>8. ASSUME NEW e \in Editors, NEW c \in S!Crons, S!Add(e, c) PROVE OnceInv(r)'
    <2>1. PICK t : t = S!NextFire(c, now)
      OBVIOUS
    <2>2. PICK x : x = [cron |-> c, enabled |-> TRUE, next_run |-> t, last_run |-> -1]
      OBVIOUS
    <2>3. /\ sched = None /\ copies[e] = None /\ copies' = [copies EXCEPT ![e] = x]
          /\ UNCHANGED <<sched, now, schedAt, schedHeld, undone, fires, schedDeaths>>
      BY <1>8, <2>1, <2>2 DEF S!Add
    <2>4. t \in Nat /\ t > now /\ (schedDeaths = 0 /\ ~undone => Fresh(t))
      BY <1>4, <2>1
    <2>5. x.next_run = t /\ x.last_run = -1
      BY <2>2
    <2>6. GoodTimes(x)
      BY <1>1, <2>4, <2>5 DEF GoodTimes
    <2>7. copies'[e] = x /\ DOMAIN copies' = Editors /\ \A d \in Editors : d # e => copies'[d] = copies[d]
      BY <1>1, <2>3
    <2> QED BY <1>7, <2>3, <2>4, <2>5, <2>6, <2>7
  <1>9. ASSUME NEW e \in Editors, S!SetEnabled(e, TRUE) \/ S!SetEnabled(e, FALSE) \/ S!Remove(e)
        PROVE OnceInv(r)'
    <2>1. /\ sched # None /\ copies[e] = None
          /\ UNCHANGED <<sched, now, schedAt, schedHeld, undone, fires, schedDeaths>>
          /\ DOMAIN copies' = Editors
          /\ \A d \in Editors : d # e => copies'[d] = copies[d]
          /\ copies'[e].last_run = sched.last_run
          /\ copies'[e].next_run \in {S!NextFire(sched.cron, now), sched.next_run, 0}
      BY <1>1, <1>9, ChangeIsSwitch
    <2>2. PICK t : t = S!NextFire(sched.cron, now)
      OBVIOUS
    <2>3. t \in Nat /\ t > now /\ (schedDeaths = 0 /\ ~undone => Fresh(t))
      BY <1>1, <1>4, <2>1, <2>2 DEF IsRecord
    <2>4. GoodTimes(sched)
      BY <1>2, <2>1
    <2>5. GoodTimes(copies'[e])
      BY <1>1, <2>1, <2>2, <2>3, <2>4 DEF GoodTimes
    <2>6. ASSUME schedDeaths = 0, ~undone, schedAt[r] = "idle" PROVE Fresh(copies'[e].next_run)
      <3>1. Fresh(sched.next_run) /\ Fresh(0)
        BY <1>3, <2>1, <2>6 DEF Fresh
      <3> QED BY <2>1, <2>2, <2>3, <2>6, <3>1
    <2> QED BY <1>7, <2>1, <2>5, <2>6
  <1>10. ASSUME NEW e \in Editors, S!PutChange(e) PROVE OnceInv(r)'
    <2>1. /\ copies[e] # None /\ sched' = copies[e] /\ copies' = [copies EXCEPT ![e] = None]
          /\ undone' = (undone \/ (sched # None /\ sched.last_run # copies[e].last_run))
          /\ UNCHANGED <<now, schedAt, schedHeld, fires, schedDeaths>>
      BY <1>10 DEF S!PutChange
    <2>2. DOMAIN copies' = Editors /\ \A d \in Editors : copies'[d] # None => copies'[d] = copies[d]
      BY <1>1, <2>1
    <2>3. undone' \in BOOLEAN
      BY <1>1, <2>1
    <2>4. TimesInv'
      <3>1. \A x : GoodTimes(x) => GoodTimes(x)'
        BY <2>1 DEF GoodTimes
      <3>2. GoodTimes(sched')
        BY <1>2, <2>1
      <3>3. \A d \in Editors : copies'[d] # None => GoodTimes(copies'[d])
        BY <1>2, <2>2
      <3> QED BY <1>1, <1>2, <2>1, <3>1, <3>2, <3>3 DEF TimesInv, GoodTimes
    <2>5. ASSUME schedDeaths = 0, ~undone' PROVE
               /\ ~undone /\ UpToDate(e) /\ sched' # None
               /\ schedAt[r] # "idle" => sched'.last_run = sched.last_run
      BY <1>1, <2>1, <2>5, NoneIsNoRecord DEF UpToDate, NoneIsNoRecord
    <2>6. ASSUME schedDeaths = 0, ~undone' PROVE MarksGrow(r)'
      <3>1. ASSUME NEW d \in Editors, copies'[d] # None
            PROVE  copies'[d].last_run <= sched'.last_run
        <4>1. CASE sched # None
          BY <1>3, <2>1, <2>2, <2>5, <2>6, <3>1, <4>1 DEF MarksGrow, UpToDate
        <4>2. CASE sched = None
          <5>1. copies[d].last_run <= -1 /\ copies[d].last_run \in Int
            BY <1>2, <1>3, <2>2, <2>5, <2>6, <3>1, <4>2 DEF MarksGrow, GoodTimes
          <5> QED BY <1>2, <2>1, <2>2, <3>1, <5>1 DEF GoodTimes
        <4> QED BY <4>1, <4>2
      <3> QED BY <1>1, <1>3, <2>1, <2>5, <2>6, <3>1 DEF MarksGrow
    <2>7. ASSUME schedDeaths = 0, ~undone', schedAt[r] = "idle", NEW d \in Editors, UpToDate(d)'
          PROVE  Fresh(copies'[d].next_run)
      <3>1. UpToDate(d)
        BY <2>1, <2>2, <2>5, <2>7 DEF UpToDate
      <3> QED BY <1>3, <2>2, <2>5, <2>7, <3>1 DEF UpToDate
    <2>8. ASSUME schedDeaths = 0, ~undone', schedAt[r] = "idle" PROVE Fresh(sched'.next_run)
      BY <1>3, <2>1, <2>5, <2>8
    <2> QED BY <1>1, <1>3, <2>1, <2>3, <2>4, <2>5, <2>6, <2>7, <2>8 DEF OnceInv, Fresh
  <1>11. CASE S!Fire(r)
    <2>1. PICK n : n = sched.next_run
      OBVIOUS
    <2>2. /\ schedAt[r] = "idle" /\ sched # None /\ n # 0 /\ n <= now
          /\ fires' = [fires EXCEPT ![n] = @ + 1]
          /\ UNCHANGED <<sched, now, copies, undone, schedDeaths>>
          /\ schedAt' = [schedAt EXCEPT ![r] = "mark"]
      BY <1>11, <2>1 DEF S!Fire, S!Due
    <2>3. schedAt'[r] = "mark"
      BY <1>1, <2>2
    <2>4. fires' \in [0 .. MaxClock -> Nat]
      <3>1. n \in 0 .. MaxClock => fires[n] + 1 \in Nat
        BY <1>1
      <3> QED BY <1>1, <2>2, <3>1
    <2>5. ASSUME schedDeaths = 0, ~undone, NEW t \in 0 .. MaxClock
          PROVE  fires'[t] <= 1 /\ (t > now => fires'[t] = 0)
      <3>1. n \in Nat /\ (n \in 1 .. MaxClock => fires[n] = 0)
        BY <1>3, <2>1, <2>2, <2>5 DEF Fresh
      <3>2. n \in 1 .. MaxClock /\ fires[n] = 0
        BY <1>1, <2>2, <3>1
      <3>3. fires'[n] = 1 /\ (t # n => fires'[t] = fires[t])
        BY <1>1, <2>2, <3>2
      <3>4. fires[t] <= 1 /\ (t > now => fires[t] = 0)
        BY <1>3, <2>5
      <3> QED BY <1>1, <2>2, <3>2, <3>3, <3>4
    <2>6. sched.last_run \in Int /\ sched.last_run < now
      BY <1>1, <1>2, <2>1, <2>2 DEF GoodTimes
    <2>7. TimesInv'
      <3>1. \A x : GoodTimes(x) => GoodTimes(x)'
        BY <2>2 DEF GoodTimes
      <3> QED BY <1>1, <1>2, <2>2, <2>3, <3>1 DEF TimesInv, GoodTimes
    <2>8. MarksGrow(r) => MarksGrow(r)'
      BY <1>1, <2>2, <2>3, <2>6 DEF MarksGrow
    <2> QED BY <1>1, <1>3, <2>2, <2>3, <2>4, <2>5, <2>7, <2>8 DEF OnceInv
  <1>12. CASE S!Mark(r)
    <2>1. PICK t, x : t = S!NextFire(sched.cron, now) /\ x = Marked(sched, now, t)
      OBVIOUS
    <2>2. /\ schedAt[r] = "mark"
          /\ UNCHANGED <<sched, now, copies, undone, fires, schedDeaths>>
          /\ schedAt' = [schedAt EXCEPT ![r] = "put"] /\ schedHeld' = [schedHeld EXCEPT ![r] = x]
      BY <1>12, <2>1 DEF S!Mark, S!MarkReads, Marked
    <2>3. sched # None
      BY <1>1, <2>2
    <2>4. x.next_run = t /\ x.last_run = now
      BY <1>1, <2>1, <2>3, MarkedIsRecord
    <2>5. schedHeld'[r] = x /\ schedAt'[r] = "put"
      BY <1>1, <2>2
    <2>6. t \in Nat /\ t > now /\ (schedDeaths = 0 /\ ~undone => Fresh(t))
      BY <1>1, <1>4, <2>1, <2>3 DEF IsRecord
    <2>7. TimesInv'
      <3>1. \A y : GoodTimes(y) => GoodTimes(y)'
        BY <2>2 DEF GoodTimes
      <3>2. GoodTimes(x)
        BY <1>1, <2>4, <2>6 DEF GoodTimes
      <3> QED BY <1>1, <1>2, <2>2, <2>5, <3>1, <3>2 DEF TimesInv, GoodTimes
    <2>8. MarksGrow(r) => MarksGrow(r)'
      BY <1>1, <2>2, <2>4, <2>5 DEF MarksGrow
    <2> QED BY <1>1, <1>3, <2>2, <2>4, <2>5, <2>6, <2>7, <2>8 DEF OnceInv, Fresh
  <1>13. CASE S!PutMark(r)
    <2>1. /\ schedAt[r] = "put" /\ sched' = schedHeld[r]
          /\ UNCHANGED <<now, copies, undone, fires, schedDeaths>>
          /\ schedAt' = [schedAt EXCEPT ![r] = "idle"]
      BY <1>13 DEF S!PutMark
    <2>2. schedAt'[r] = "idle"
      BY <1>1, <2>1
    <2>3. GoodTimes(schedHeld[r]) /\ sched # None /\ GoodTimes(sched)
      BY <1>1, <1>2, <2>1
    <2>4. sched' # None
      BY <2>1 DEF OnceInv, OffInv, ScheduleShape, NoneIsNoRecord
    <2>5. TimesInv'
      <3>1. \A y : GoodTimes(y) => GoodTimes(y)'
        BY <2>1 DEF GoodTimes
      <3> QED BY <1>1, <1>2, <2>1, <2>2, <2>3, <3>1 DEF TimesInv, GoodTimes
    <2>6. ASSUME schedDeaths = 0, ~undone, NEW e \in Editors, copies[e] # None
          PROVE  copies[e].last_run < sched'.last_run
      BY <1>2, <1>3, <2>1, <2>3, <2>6 DEF MarksGrow, GoodTimes
    <2>7. ASSUME schedDeaths = 0, ~undone
          PROVE  MarksGrow(r)' /\ \A e \in Editors : ~UpToDate(e)'
      <3>1. sched'.last_run \in Int /\ \A e \in Editors : copies[e] # None => copies[e].last_run \in Int
        BY <1>2, <2>1, <2>3 DEF GoodTimes
      <3> QED BY <2>1, <2>2, <2>4, <2>6, <2>7, <3>1 DEF MarksGrow, UpToDate
    <2> QED BY <1>1, <1>3, <2>1, <2>2, <2>5, <2>7 DEF OnceInv, Fresh
  <1>14. CASE S!Die(r)
    <2>1. /\ schedDeaths' = schedDeaths + 1 /\ UNCHANGED <<sched, copies, now, undone, fires>>
          /\ schedAt' = [schedAt EXCEPT ![r] = "idle"]
      BY <1>14 DEF S!Die
    <2>2. schedDeaths' \in Nat /\ schedDeaths' # 0 /\ schedAt'[r] = "idle"
      BY <1>1, <2>1
    <2>3. TimesInv'
      <3>1. \A y : GoodTimes(y) => GoodTimes(y)'
        BY <2>1 DEF GoodTimes
      <3> QED BY <1>1, <1>2, <2>1, <2>2, <3>1 DEF TimesInv, GoodTimes
    <2> QED BY <1>1, <2>1, <2>2, <2>3 DEF OnceInv
  <1> QED BY <1>5, <1>6, <1>8, <1>9, <1>10, <1>11, <1>12, <1>13, <1>14
          DEF S!SchedNext, S!CmdSched

\* "we never double-run": one runner that does not die runs no due time twice, whatever
\* commands switch off, on and remove in between and however late they put what they
\* computed, until one puts back a record it had read before a mark (scheduler.py: due and
\* mark_fired; set_enabled and remove_schedule, which put the record whole; next_fire
\* looks strictly after now).
THEOREM TimesRunOnce ==
  ASSUME S!SchedulesAssumption, EveryCronMeets, NoneIsNoRecord, NEW r, Runners = {r}
  PROVE  S!SchedSpec => []S!OncePerTime
  <1>1. S!SchedInit => OnceInv(r)
    BY OnceInit
  <1>2. OnceInv(r) /\ [S!SchedNext]_(S!schedVars) => OnceInv(r)'
    BY OnceStep
  <1>3. OnceInv(r) => S!OncePerTime
    BY DEF OnceInv, S!OncePerTime
  <1> QED BY <1>1, <1>2, <1>3, PTL DEF S!SchedSpec



-----------------------------------------------------------------------------
(***************************************************************************)
(* Packages.                                                               *)
(***************************************************************************)
\* Where nobody else has written since a restore began, the members that are behind it
\* agree already.
RestoreInv ==
  /\ workers \in [Files -> Nat] /\ pkg \in [Files -> Nat]
  /\ job \in {"none", "pack", "unpack"} /\ left \subseteq Files /\ agree \in BOOLEAN
  /\ agree => job # "pack"
  /\ job = "none" => left = {}
  /\ agree => \A f \in Files \ left : pkg[f] # 0 => workers[f] = pkg[f]

LEMMA RestoreInit == K!PackInit => RestoreInv
  <1> SUFFICES ASSUME K!PackInit PROVE RestoreInv
    OBVIOUS
  <1>1. workers \in [Files -> Nat] /\ pkg \in [Files -> Nat]
    BY DEF K!PackInit, K!NoFiles
  <1>2. job = "none" /\ left = {} /\ ~agree /\ agree \in BOOLEAN
    BY DEF K!PackInit
  <1> QED BY <1>1, <1>2 DEF RestoreInv

LEMMA RestoreStep == RestoreInv /\ [K!PackNext]_(K!packVars) => RestoreInv'
  <1> SUFFICES ASSUME RestoreInv, [K!PackNext]_(K!packVars) PROVE RestoreInv'
    OBVIOUS
  <1> USE DEF RestoreInv
  <1>1. CASE UNCHANGED K!packVars \/ K!Run
    <2>1. UNCHANGED <<workers, pkg, job, left, agree>>
      BY <1>1 DEF K!packVars, K!Run
    <2> QED BY <2>1
  <1>2. ASSUME NEW f \in Files, K!Change(f) PROVE RestoreInv'
    <2>1. /\ workers' = [workers EXCEPT ![f] = @ + 1] /\ ~agree' /\ agree' \in BOOLEAN
          /\ UNCHANGED <<pkg, job, left>>
      BY <1>2 DEF K!Change
    <2>2. workers' \in [Files -> Nat]
      BY <2>1
    <2> QED BY <2>1, <2>2
  <1>3. CASE K!Lose
    BY <1>3 DEF K!Lose, K!NoFiles
  <1>4. CASE K!Export
    BY <1>4 DEF K!Export, K!NoFiles
  <1>5. ASSUME NEW f \in Files, K!Pack(f) PROVE RestoreInv'
    BY <1>5 DEF K!Pack
  <1>6. ASSUME NEW force \in BOOLEAN, K!Import(force) PROVE RestoreInv'
    BY <1>6 DEF K!Import
  <1>7. ASSUME NEW f \in Files, K!Unpack(f) PROVE RestoreInv'
    BY <1>7 DEF K!Unpack
  <1>8. CASE K!Done
    BY <1>8 DEF K!Done
  <1>9. CASE K!Die
    <2>1. /\ job' = "none" /\ left' = {} /\ agree' = FALSE /\ UNCHANGED workers
          /\ pkg' = IF job = "pack" THEN K!NoFiles ELSE pkg
      BY <1>9 DEF K!Die
    <2> QED BY <2>1 DEF K!NoFiles
  <1> QED BY <1>1, <1>2, <1>3, <1>4, <1>5, <1>6, <1>7, <1>8, <1>9
          DEF K!PackNext, K!CmdPackage, K!CmdBackup, K!Backup, K!Restore

\* A restore that went through its members, nobody else writing, gives back every worker of
\* the package (package.py: import_package replaces what is there), whatever an earlier
\* restore that died or an older workspace left.
THEOREM RestoresAgree == K!PackSpec => []K!RestoredWorkersAgree
  <1>1. RestoreInv => K!RestoredWorkersAgree
    BY DEF RestoreInv, K!RestoredWorkersAgree
  <1> QED BY <1>1, RestoreInit, RestoreStep, PTL DEF K!PackSpec

-----------------------------------------------------------------------------
(***************************************************************************)
(* Worker files.                                                           *)
(***************************************************************************)
Steps == {"idle", "snapshot", "empty", "fill", "move"}

\* What is in the file of n, if there is anything, is among its versions.
KeptVersion(n) == file[n] = W!NoFile \/ file[n] \in history[n]

\* While the commands take turns one is under way at a time.  From its snapshot on the
\* file it is for is kept, unless it forces a template, and a file it has emptied is torn.
KeptInv ==
  /\ fileAt \in [Commands -> Steps] /\ DOMAIN fileJob = Commands
  /\ DOMAIN file = Names /\ DOMAIN history = Names
  /\ \A c \in Commands : fileAt[c] # "idle" => fileJob[c].name \in Names
  /\ fileTurns =>
       /\ \A c, d \in Commands : fileAt[c] # "idle" /\ fileAt[d] # "idle" => c = d
       /\ \A c \in Commands :
            /\ fileAt[c] = "empty" => KeptVersion(fileJob[c].name)
                                      \/ fileJob[c].content = W!Template
            /\ fileAt[c] = "fill" => file[fileJob[c].name] = W!Torn
            /\ fileAt[c] = "move" => KeptVersion(fileJob[c].name)

LEMMA KeptInit == W!FilesInit => KeptInv
  <1> SUFFICES ASSUME W!FilesInit PROVE KeptInv
    OBVIOUS
  <1>1. /\ fileAt = [c \in Commands |-> "idle"] /\ fileJob = [c \in Commands |-> W!NoJob]
        /\ DOMAIN file = Names /\ history = [n \in Names |-> {}]
    BY DEF W!FilesInit
  <1> QED BY <1>1 DEF KeptInv, Steps

\* How a command goes from one step to the next, or ends.
Goes(c, step) ==
  /\ fileAt' = [fileAt EXCEPT ![c] = step] /\ fileTurns' = fileTurns

\* What a command is to put where.
Takes(c, n, content, kind) ==
  fileJob' = [fileJob EXCEPT ![c] = [name |-> n, content |-> content, kind |-> kind]]

\* A command that begins is the only one, in turns, and its job is for a worker of the
\* workspace; it takes a snapshot first, or writes a template.
Starts(c) ==
  /\ fileAt[c] = "idle" /\ UNCHANGED <<file, history>>
  /\ fileTurns => \A d \in Commands : fileAt[d] = "idle"
  /\ \E n \in Names : \E content, kind :
       /\ Takes(c, n, content, kind)
       /\ Goes(c, "snapshot") \/ (content = W!Template /\ Goes(c, "empty"))

Copies == UNCHANGED <<file, history, fileAt, fileJob, fileTurns>>

LEMMA CommandsStart ==
  ASSUME NEW c \in Commands, NEW n \in Names, NEW flag \in BOOLEAN,
         W!CmdWorkerLifecycle(c, n, flag) \/ W!CmdTemplate(c, n, flag)
  PROVE  Starts(c) \/ Copies
  <1>1. ASSUME NEW m \in Names, NEW kind, NEW content, W!Begin(c, "snapshot", kind, m, content)
        PROVE  Starts(c)
    <2>1. /\ fileAt[c] = "idle" /\ UNCHANGED <<file, history>>
          /\ fileTurns => \A d \in Commands : fileAt[d] = "idle"
      BY <1>1 DEF W!Begin, W!Ready
    <2>2. Takes(c, m, content, kind)
      BY <1>1 DEF W!Begin, Takes
    <2>3. Goes(c, "snapshot")
      BY <1>1 DEF W!Begin, Goes
    <2> QED BY <2>1, <2>2, <2>3 DEF Starts
  <1>2. CASE W!SetEnabled(c, n, flag)
    BY <1>1, <1>2 DEF W!SetEnabled
  <1>3. ASSUME NEW m \in Names, W!Clone(c, n, m, flag) PROVE Starts(c)
    BY <1>1, <1>3 DEF W!Clone
  <1>4. CASE W!Archive(c, n)
    BY <1>1, <1>4 DEF W!Archive
  <1>5. CASE W!ImportParcel(c, n, flag) \/ W!ImportFromMarket(c, n, flag)
    BY <1>1, <1>5 DEF W!ImportParcel, W!ImportFromMarket, W!Import
  <1>6. CASE W!CreateFromTemplate(c, n, flag)
    <2>1. W!Begin(c, "empty", "write", n, W!Template)
      BY <1>6 DEF W!CreateFromTemplate
    <2>2. /\ fileAt[c] = "idle" /\ UNCHANGED <<file, history>>
          /\ fileTurns => \A d \in Commands : fileAt[d] = "idle"
      BY <2>1 DEF W!Begin, W!Ready
    <2>3. Takes(c, n, W!Template, "write") /\ Goes(c, "empty")
      BY <2>1 DEF W!Begin, Takes, Goes
    <2> QED BY <2>2, <2>3 DEF Starts
  <1>7. CASE W!Export(c, n) \/ W!PublishToMarket(c, n)
    BY <1>7 DEF W!Export, W!PublishToMarket, Copies
  <1> QED BY <1>2, <1>3, <1>4, <1>5, <1>6, <1>7 DEF W!CmdWorkerLifecycle, W!CmdTemplate

\* In turns nobody but the command under way is under way, before and after its step.
LEMMA OthersAreIdle ==
  ASSUME KeptInv, NEW c \in Commands, NEW step \in Steps, Goes(c, step), fileTurns,
         fileAt[c] # "idle" \/ \A d \in Commands : fileAt[d] = "idle"
  PROVE  /\ fileAt'[c] = step
         /\ \A d \in Commands : d # c => fileAt[d] = "idle" /\ fileAt'[d] = "idle"
  BY DEF KeptInv, Goes

LEMMA KeptStep == KeptInv /\ [W!FilesNext]_(W!fileVars) => KeptInv'
  <1> SUFFICES ASSUME KeptInv, [W!FilesNext]_(W!fileVars) PROVE KeptInv'
    OBVIOUS
  <1>1. /\ fileAt \in [Commands -> Steps] /\ DOMAIN fileJob = Commands
        /\ DOMAIN file = Names /\ DOMAIN history = Names
        /\ \A c \in Commands : fileAt[c] # "idle" => fileJob[c].name \in Names
    BY DEF KeptInv
  <1>2. CASE UNCHANGED W!fileVars \/ Copies
    <2>1. UNCHANGED <<file, history, fileAt, fileJob, fileTurns>>
      BY <1>2 DEF W!fileVars, Copies
    <2> QED BY <2>1 DEF KeptInv, KeptVersion
  <1>3. ASSUME NEW c \in Commands, Starts(c) PROVE KeptInv'
    <2>1. PICK n \in Names : \E content, kind :
            /\ Takes(c, n, content, kind)
            /\ Goes(c, "snapshot") \/ (content = W!Template /\ Goes(c, "empty"))
      BY <1>3 DEF Starts
    <2>2. PICK content, kind :
            /\ Takes(c, n, content, kind)
            /\ Goes(c, "snapshot") \/ (content = W!Template /\ Goes(c, "empty"))
      BY <2>1
    <2>3. fileJob'[c].name = n /\ fileJob'[c].content = content
      BY <1>1, <2>2 DEF Takes
    <2>4. PICK step \in {"snapshot", "empty"} :
               Goes(c, step) /\ (step = "empty" => content = W!Template)
      BY <2>2
    <2>5. /\ fileAt' \in [Commands -> Steps] /\ DOMAIN fileJob' = Commands
          /\ \A d \in Commands : fileAt'[d] # "idle" => fileJob'[d].name \in Names
      BY <1>1, <2>2, <2>3, <2>4 DEF Goes, Steps, Takes
    <2>6. fileTurns => /\ fileAt'[c] = step
                       /\ \A d \in Commands : d # c => fileAt'[d] = "idle"
      BY <1>3, <2>4, OthersAreIdle DEF Starts, Steps
    <2> QED BY <1>1, <1>3, <2>3, <2>4, <2>5, <2>6 DEF KeptInv, Starts, Goes
  <1>4. ASSUME NEW c \in Commands, W!Snapshot(c) PROVE KeptInv'
    <2>1. PICK n, step : n = fileJob[c].name
                         /\ step = IF fileJob[c].kind = "move" THEN "move" ELSE "empty"
      OBVIOUS
    <2>2. /\ fileAt[c] = "snapshot" /\ Goes(c, step) /\ UNCHANGED <<file, fileJob>>
          /\ history' = IF file[n] = W!NoFile THEN history
                        ELSE [history EXCEPT ![n] = @ \cup {file[n]}]
      BY <1>4, <2>1 DEF W!Snapshot, Goes
    <2>3. step \in {"move", "empty"} /\ step \in Steps /\ n \in Names
      BY <1>1, <2>1, <2>2 DEF Steps
    <2>4. KeptVersion(n)' /\ DOMAIN history' = Names
      BY <1>1, <2>2, <2>3 DEF KeptVersion, W!NoFile, W!Template
    <2>5. fileTurns => /\ fileAt'[c] = step
                       /\ \A d \in Commands : d # c => fileAt'[d] = "idle"
      BY <2>2, <2>3, OthersAreIdle
    <2>6. /\ fileAt' \in [Commands -> Steps]
          /\ \A d \in Commands : fileAt'[d] # "idle" => fileAt[d] # "idle"
      BY <1>1, <2>2, <2>3 DEF Goes
    <2> QED BY <1>1, <2>1, <2>2, <2>3, <2>4, <2>5, <2>6 DEF KeptInv, Goes
  <1>5. ASSUME NEW c \in Commands, W!Empty(c) PROVE KeptInv'
    <2>1. /\ fileAt[c] = "empty" /\ Goes(c, "fill") /\ UNCHANGED <<history, fileJob>>
          /\ file' = [file EXCEPT ![fileJob[c].name] = W!Torn]
      BY <1>5 DEF W!Empty, Goes
    <2>2. fileTurns => /\ fileAt'[c] = "fill"
                       /\ \A d \in Commands : d # c => fileAt'[d] = "idle"
      BY <2>1, OthersAreIdle DEF Steps
    <2>3. /\ fileAt' \in [Commands -> Steps]
          /\ \A d \in Commands : fileAt'[d] # "idle" => fileAt[d] # "idle"
      BY <1>1, <2>1 DEF Goes, Steps
    <2>4. file'[fileJob[c].name] = W!Torn /\ DOMAIN file' = Names
      BY <1>1, <2>1
    <2> QED BY <1>1, <2>1, <2>2, <2>3, <2>4 DEF KeptInv, Goes
  <1>6. ASSUME NEW c \in Commands, W!Fill(c) \/ W!Move(c) \/ W!Die(c) PROVE KeptInv'
    <2>1. /\ fileAt[c] # "idle" /\ Goes(c, "idle") /\ UNCHANGED history
          /\ fileJob' = [fileJob EXCEPT ![c] = W!NoJob]
      BY <1>6 DEF W!Fill, W!Move, W!Die, Goes
    <2>2. DOMAIN file' = Names
      BY <1>1, <1>6 DEF W!Fill, W!Move, W!Die
    <2>3. fileTurns => \A d \in Commands : fileAt'[d] = "idle"
      BY <2>1, OthersAreIdle DEF Steps
    <2>4. /\ fileAt' \in [Commands -> Steps] /\ DOMAIN fileJob' = Commands
          /\ \A d \in Commands : fileAt'[d] # "idle"
                  => fileAt[d] # "idle" /\ fileJob'[d] = fileJob[d]
      BY <1>1, <2>1 DEF Goes, Steps
    <2> QED BY <1>1, <2>1, <2>2, <2>3, <2>4 DEF KeptInv, Goes
  <1> QED BY <1>2, <1>3, <1>4, <1>5, <1>6, CommandsStart DEF W!FilesNext

\* "records each mutation so lifecycle changes are auditable and reversible": in turns,
\* what a lifecycle command takes away from a worker's file is among its versions, also
\* when it dies halfway (lifecycle.py: _snapshot before the file is opened for writing or
\* moved).
THEOREM ReplacedKept == W!FilesSpec => [][W!ReplacedStays]_(W!fileVars)
  <1>1. KeptInv /\ [W!FilesNext]_(W!fileVars) => [W!ReplacedStays]_(W!fileVars)
    <2> SUFFICES ASSUME KeptInv, [W!FilesNext]_(W!fileVars), fileTurns, NEW n \in Names,
                        W!Loadable(n), file'[n] # file[n]
                 PROVE  \/ file[n] \in history[n]
                        \/ \E c \in Commands : fileJob[c].name = n
                                               /\ fileJob[c].content = W!Template
      BY DEF W!ReplacedStays
    <2>1. PICK c \in Commands : W!Empty(c) \/ W!Fill(c) \/ W!Move(c)
      BY CommandsStart DEF W!FilesNext, W!fileVars, W!Snapshot, W!Die, Starts, Copies
    <2>2. DOMAIN file = Names
      BY DEF KeptInv
    <2>3. CASE W!Empty(c)
      <3>1. fileJob[c].name = n
        BY <2>2, <2>3 DEF W!Empty
      <3> QED BY <2>3, <3>1 DEF W!Empty, KeptInv, KeptVersion, W!Loadable
    <2>4. CASE W!Fill(c)
      <3>1. fileJob[c].name = n
        BY <2>2, <2>4 DEF W!Fill
      <3> QED BY <2>4, <3>1 DEF W!Fill, KeptInv, W!Loadable
    <2>5. CASE W!Move(c)
      <3>1. fileJob[c].name = n
        BY <2>2, <2>5 DEF W!Move
      <3> QED BY <2>5, <3>1 DEF W!Move, KeptInv, KeptVersion, W!Loadable
    <2> QED BY <2>1, <2>3, <2>4, <2>5
  <1> QED BY <1>1, KeptInit, KeptStep, PTL DEF W!FilesSpec
-----------------------------------------------------------------------------
(***************************************************************************)
(* Migrations.                                                             *)
(***************************************************************************)
Walks == [left : SUBSET Registered, made : {0, 1, 2}]

\* The ranges; and that whoever walks, a version below one of those left to it is left
\* too or was done, and so was the one whose marker or line is to be written.
MarkerInv ==
  /\ marker \in Int /\ done \in [Registered -> Nat] /\ todo \in [Migrators -> Walks]
  /\ lines \in [Registered -> Nat] /\ migDeaths \in Nat /\ migTurns \in BOOLEAN
  /\ M!MarkerIsEarned
  /\ \A m \in Migrators :
       /\ \A v \in Registered, w \in todo[m].left : v < w => v \in todo[m].left \/ done[v] > 0
       /\ todo[m].left # {} /\ todo[m].made > 0 => done[M!Version(m)] > 0

\* Each version up to the marker was done once and has its line, but for version v.
RecordedBut(v) ==
  \A x \in Registered : x # v =>
    /\ lines[x] = done[x]
    /\ done[x] = IF x <= marker THEN 1 ELSE 0

\* How far migrator m has come with the version it is at, and what is left beyond it.
Underway(m) ==
  /\ RecordedBut(M!Version(m))
  /\ lines[M!Version(m)] = 0
  /\ done[M!Version(m)] = IF todo[m].made = 0 THEN 0 ELSE 1
  /\ IF todo[m].made = 2 THEN marker = M!Version(m) ELSE marker < M!Version(m)
  /\ \A x \in Registered, w \in todo[m].left : marker < x /\ x < w => x \in todo[m].left

\* In turns, nobody having died: one migrator walks, or every version is recorded.
RecordInv ==
  migTurns /\ migDeaths = 0 =>
    /\ \A m, n \in Migrators : todo[m].left # {} /\ todo[n].left # {} => m = n
    /\ \A m \in Migrators : todo[m].left # {} => Underway(m)
    /\ (\A m \in Migrators : todo[m].left = {}) =>
         \A x \in Registered : lines[x] = done[x] /\ done[x] = IF x <= marker THEN 1 ELSE 0

\* The version a migrator is at is the least left to it.
LEMMA VersionIsLeast ==
  ASSUME M!MigrationsAssumption, MarkerInv, NEW m \in Migrators, todo[m].left # {}
  PROVE  /\ M!Version(m) \in todo[m].left /\ M!Version(m) \in Registered
         /\ M!Version(m) \in Nat /\ M!Version(m) > 0
         /\ \A w \in todo[m].left : M!Version(m) <= w
  <1>1. todo[m].left \in SUBSET Registered /\ todo[m].left \in SUBSET Nat
    BY DEF MarkerInv, Walks, M!MigrationsAssumption
  <1>2. PICK x \in todo[m].left : \A y \in todo[m].left : x <= y
    BY <1>1, LeastNumber
  <1>3. M!Version(m) \in todo[m].left /\ \A w \in todo[m].left : M!Version(m) <= w
    BY <1>2 DEF M!Version, M!Min
  <1> QED BY <1>1, <1>3 DEF M!MigrationsAssumption

LEMMA MigInitHolds == M!MigrationsAssumption /\ M!MigInit => MarkerInv /\ RecordInv
  <1> SUFFICES ASSUME M!MigrationsAssumption, M!MigInit PROVE MarkerInv /\ RecordInv
    OBVIOUS
  <1>1. /\ marker \in {-1, 0} /\ done = [v \in Registered |-> 0] /\ lines = [v \in Registered |-> 0]
        /\ todo = [m \in Migrators |-> M!NoWalk] /\ migDeaths = 0 /\ migTurns \in BOOLEAN
    BY DEF M!MigInit
  <1>2. \A v \in Registered : v \in Nat /\ v > 0
    BY DEF M!MigrationsAssumption
  <1>3. M!NoWalk \in Walks /\ M!NoWalk.left = {}
    BY DEF M!NoWalk, Walks
  <1>4. todo \in [Migrators -> Walks] /\ \A m \in Migrators : todo[m].left = {}
    BY <1>1, <1>3
  <1>5. M!MarkerIsEarned
    BY <1>1, <1>2 DEF M!MarkerIsEarned
  <1>6. MarkerInv
    BY <1>1, <1>4, <1>5 DEF MarkerInv
  <1>7. \A x \in Registered : lines[x] = done[x] /\ done[x] = IF x <= marker THEN 1 ELSE 0
    BY <1>1, <1>2
  <1> QED BY <1>4, <1>6, <1>7 DEF RecordInv

\* What a migrator that writes is at before and after.
Writes(m, k) ==
  /\ todo[m].left # {} /\ todo[m].made = k
  /\ todo' = [todo EXCEPT ![m] =
               IF k < 2 THEN [left |-> todo[m].left, made |-> k + 1]
               ELSE [left |-> todo[m].left \ {M!Version(m)}, made |-> 0]]

LEMMA WritesInOrder ==
  ASSUME MarkerInv, NEW m \in Migrators
  PROVE  /\ M!Does(m, "step") => Writes(m, 0)
         /\ M!Does(m, "mark") => Writes(m, 1)
         /\ M!Does(m, "log") => Writes(m, 2)
  <1>1. todo[m].made \in {0, 1, 2}
    BY DEF MarkerInv, Walks
  <1>2. CASE todo[m].made = 0
    BY <1>2 DEF M!Does, M!Order, Writes
  <1>3. CASE todo[m].made = 1
    BY <1>3 DEF M!Does, M!Order, Writes
  <1>4. CASE todo[m].made = 2
    BY <1>4 DEF M!Does, M!Order, Writes
  <1> QED BY <1>1, <1>2, <1>3, <1>4

\* A step in one of these ways.
SetsOut(m, target) ==
  /\ todo[m].left = {} /\ marker >= 0
  /\ migTurns => \A n \in Migrators : todo[n].left = {}
  /\ todo' = [todo EXCEPT ![m] = [left |-> M!Pending(target), made |-> 0]]
  /\ UNCHANGED <<marker, done, lines, migDeaths, migTurns>>
DoesStep(m) ==
  /\ Writes(m, 0) /\ done' = [done EXCEPT ![M!Version(m)] = @ + 1]
  /\ UNCHANGED <<marker, lines, migDeaths, migTurns>>
MovesMarker(m) ==
  /\ Writes(m, 1) /\ marker' = M!Version(m)
  /\ UNCHANGED <<done, lines, migDeaths, migTurns>>
AddsLine(m) ==
  /\ Writes(m, 2) /\ lines' = [lines EXCEPT ![M!Version(m)] = @ + 1]
  /\ UNCHANGED <<marker, done, migDeaths, migTurns>>
GivesUp(m) ==
  /\ todo' = [todo EXCEPT ![m] = M!NoWalk] /\ migDeaths' = migDeaths + 1
  /\ UNCHANGED <<marker, done, lines, migTurns>>

LEMMA EveryWrite ==
  ASSUME M!MigrationsAssumption, MarkerInv, [M!MigNext]_(M!migVars)
  PROVE  \/ UNCHANGED <<marker, done, lines, todo, migDeaths, migTurns>>
         \/ \E m \in Migrators :
              \/ DoesStep(m) \/ MovesMarker(m) \/ AddsLine(m) \/ GivesUp(m)
              \/ \E target \in Nat : SetsOut(m, target)
  <1>1. CASE UNCHANGED M!migVars
    BY <1>1 DEF M!migVars
  <1>2. ASSUME NEW m \in Migrators, M!CmdMigrate(m)
        PROVE  \E target \in Nat : SetsOut(m, target)
    <2>1. PICK target \in 0 .. DataVersion + 1 : M!Migrate(m, target)
      BY <1>2 DEF M!CmdMigrate
    <2>2. SetsOut(m, target)
      BY <2>1 DEF M!Migrate, SetsOut
    <2>3. DataVersion + 1 \in Nat
      BY DEF M!MigrationsAssumption
    <2> QED BY <2>2, <2>3
  <1>3. ASSUME NEW m \in Migrators, M!Step(m) PROVE DoesStep(m)
    BY <1>3, WritesInOrder DEF M!Step, DoesStep
  <1>4. ASSUME NEW m \in Migrators, M!Mark(m) PROVE MovesMarker(m)
    BY <1>4, WritesInOrder DEF M!Mark, MovesMarker
  <1>5. ASSUME NEW m \in Migrators, M!Log(m) PROVE AddsLine(m)
    BY <1>5, WritesInOrder DEF M!Log, AddsLine
  <1>6. ASSUME NEW m \in Migrators, M!Die(m) PROVE GivesUp(m)
    BY <1>6 DEF M!Die, GivesUp
  <1> QED BY <1>1, <1>2, <1>3, <1>4, <1>5, <1>6 DEF M!MigNext

\* What each write does, with v for the version it is about.
LEMMA WriteEffects ==
  ASSUME NEW m \in Migrators, NEW v, v = M!Version(m)
  PROVE  /\ DoesStep(m) =>
              /\ todo[m].left # {} /\ todo[m].made = 0
              /\ todo' = [todo EXCEPT ![m] = [left |-> todo[m].left, made |-> 1]]
              /\ done' = [done EXCEPT ![v] = @ + 1]
              /\ UNCHANGED <<marker, lines, migDeaths, migTurns>>
         /\ MovesMarker(m) =>
              /\ todo[m].left # {} /\ todo[m].made = 1
              /\ todo' = [todo EXCEPT ![m] = [left |-> todo[m].left, made |-> 2]]
              /\ marker' = v /\ UNCHANGED <<done, lines, migDeaths, migTurns>>
         /\ AddsLine(m) =>
              /\ todo[m].left # {} /\ todo[m].made = 2
              /\ todo' = [todo EXCEPT ![m] = [left |-> todo[m].left \ {v}, made |-> 0]]
              /\ lines' = [lines EXCEPT ![v] = @ + 1]
              /\ UNCHANGED <<marker, done, migDeaths, migTurns>>
  BY DEF DoesStep, MovesMarker, AddsLine, Writes

\* Whatever is written, the marker stays earned and what the migrators carry stays so.
LEMMA MarkerStep ==
  M!MigrationsAssumption /\ MarkerInv /\ [M!MigNext]_(M!migVars) => MarkerInv'
  <1> SUFFICES ASSUME M!MigrationsAssumption, MarkerInv, [M!MigNext]_(M!migVars)
               PROVE  MarkerInv'
    OBVIOUS
  <1> DEFINE Carried(m) ==
        /\ \A v \in Registered, w \in todo[m].left : v < w => v \in todo[m].left \/ done[v] > 0
        /\ todo[m].left # {} /\ todo[m].made > 0 => done[M!Version(m)] > 0
        After == /\ marker' \in Int /\ done' \in [Registered -> Nat]
                 /\ todo' \in [Migrators -> Walks] /\ lines' \in [Registered -> Nat]
                 /\ migDeaths' \in Nat /\ migTurns' \in BOOLEAN
                 /\ \A v \in Registered : v <= marker' => done'[v] > 0
                 /\ \A m \in Migrators : Carried(m)'
  <1>1. /\ marker \in Int /\ done \in [Registered -> Nat] /\ todo \in [Migrators -> Walks]
        /\ lines \in [Registered -> Nat] /\ migDeaths \in Nat /\ migTurns \in BOOLEAN
        /\ \A v \in Registered : v <= marker => done[v] > 0
    BY DEF MarkerInv, M!MarkerIsEarned
  <1>2. \A m \in Migrators : Carried(m)
    BY DEF MarkerInv
  <1>3. Registered \subseteq Nat
    BY DEF M!MigrationsAssumption
  <1>4. \A m, n \in Migrators : todo'[n] = todo[n] => M!Version(n)' = M!Version(n)
    BY DEF M!Version
  <1>5. CASE UNCHANGED <<marker, done, lines, todo, migDeaths, migTurns>>
    BY <1>1, <1>2, <1>5 DEF M!Version, MarkerInv, M!MarkerIsEarned
  <1>6. ASSUME NEW m \in Migrators, NEW target \in Nat, SetsOut(m, target) PROVE After
    <2>1. /\ todo' = [todo EXCEPT ![m] = [left |-> M!Pending(target), made |-> 0]]
          /\ UNCHANGED <<marker, done, lines, migDeaths, migTurns>>
      BY <1>6 DEF SetsOut
    <2>2. M!Pending(target) \in SUBSET Registered
      BY DEF M!Pending
    <2>3. todo' \in [Migrators -> Walks]
      BY <1>1, <2>1, <2>2 DEF Walks
    <2>4. todo'[m].left = M!Pending(target) /\ todo'[m].made = 0
      BY <1>1, <2>1
    <2>5. \A v \in Registered, w \in M!Pending(target) :
             v < w => v \in M!Pending(target) \/ done[v] > 0
      BY <1>1, <1>3 DEF M!Pending
    <2>6. Carried(m)'
      BY <2>1, <2>4, <2>5
    <2>7. ASSUME NEW n \in Migrators, n # m PROVE Carried(n)'
      <3>1. todo'[n] = todo[n] /\ M!Version(n)' = M!Version(n) /\ done' = done
        BY <1>1, <1>4, <2>1, <2>7
      <3> QED BY <1>2, <3>1
    <2> QED BY <1>1, <2>1, <2>3, <2>6, <2>7
  <1>7. ASSUME NEW m \in Migrators, DoesStep(m) PROVE After
    <2>1. PICK v : v = M!Version(m)
      OBVIOUS
    <2>2. /\ todo[m].left # {} /\ todo[m].made = 0
          /\ todo' = [todo EXCEPT ![m] = [left |-> todo[m].left, made |-> 1]]
          /\ done' = [done EXCEPT ![v] = @ + 1] /\ UNCHANGED <<marker, lines, migDeaths, migTurns>>
      BY <1>7, <2>1, WriteEffects
    <2>3. v \in Registered
      BY <2>1, <2>2, VersionIsLeast
    <2>4. /\ done' \in [Registered -> Nat] /\ done'[v] > 0
          /\ \A x \in Registered : done[x] > 0 => done'[x] > 0
      BY <1>1, <2>2, <2>3
    <2>5. /\ todo' \in [Migrators -> Walks]
          /\ \A n \in Migrators : todo'[n].left = todo[n].left
          /\ \A n \in Migrators : n # m => todo'[n] = todo[n]
      BY <1>1, <2>2 DEF Walks
    <2>6. M!Version(m)' = v
      BY <2>1, <2>5 DEF M!Version
    <2>7. \A n \in Migrators : n # m => Carried(n)'
      BY <1>1, <1>2, <1>4, <2>4, <2>5, VersionIsLeast
    <2>8. Carried(m)'
      BY <1>2, <2>4, <2>5, <2>6
    <2> QED BY <1>1, <2>2, <2>4, <2>5, <2>7, <2>8
  <1>8. ASSUME NEW m \in Migrators, MovesMarker(m) PROVE After
    <2>1. PICK v : v = M!Version(m)
      OBVIOUS
    <2>2. /\ todo[m].left # {} /\ todo[m].made = 1
          /\ todo' = [todo EXCEPT ![m] = [left |-> todo[m].left, made |-> 2]]
          /\ marker' = v /\ UNCHANGED <<done, lines, migDeaths, migTurns>>
      BY <1>8, <2>1, WriteEffects
    <2>3. v \in Nat /\ v \in todo[m].left /\ \A w \in todo[m].left : v <= w
      BY <2>1, <2>2, VersionIsLeast
    <2>4. done[v] > 0
      BY <1>2, <2>1, <2>2
    <2>5. \A x \in Registered : x <= v => done[x] > 0
      <3> SUFFICES ASSUME NEW x \in Registered, x <= v PROVE done[x] > 0
        OBVIOUS
      <3>1. x = v \/ x < v
        BY <1>3, <2>3
      <3>2. CASE x < v
        <4>1. x \notin todo[m].left
          BY <1>3, <2>3, <3>2
        <4> QED BY <1>2, <2>3, <3>2, <4>1
      <3> QED BY <2>4, <3>1, <3>2
    <2>6. /\ todo' \in [Migrators -> Walks]
          /\ \A n \in Migrators : todo'[n].left = todo[n].left
      BY <1>1, <2>2 DEF Walks
    <2>7. \A n \in Migrators : n # m => todo'[n] = todo[n]
      BY <1>1, <2>2
    <2>8. \A n \in Migrators : M!Version(n)' = M!Version(n)
      BY <2>6 DEF M!Version
    <2>9. \A n \in Migrators : Carried(n)'
      BY <1>2, <2>1, <2>2, <2>4, <2>6, <2>7, <2>8
    <2> QED BY <1>1, <2>2, <2>3, <2>5, <2>6, <2>9
  <1>9. ASSUME NEW m \in Migrators, AddsLine(m) PROVE After
    <2>1. PICK v : v = M!Version(m)
      OBVIOUS
    <2>2. /\ todo[m].left # {} /\ todo[m].made = 2
          /\ todo' = [todo EXCEPT ![m] = [left |-> todo[m].left \ {v}, made |-> 0]]
          /\ lines' = [lines EXCEPT ![v] = @ + 1] /\ UNCHANGED <<marker, done, migDeaths, migTurns>>
      BY <1>9, <2>1, WriteEffects
    <2>3. /\ todo' \in [Migrators -> Walks] /\ todo'[m].left = todo[m].left \ {v}
          /\ todo'[m].made = 0
      BY <1>1, <2>2 DEF Walks
    <2>4. done[v] > 0
      BY <1>2, <2>1, <2>2
    <2>5. Carried(m)'
      BY <1>2, <2>2, <2>3, <2>4
    <2>6. ASSUME NEW n \in Migrators, n # m PROVE Carried(n)'
      <3>1. todo'[n] = todo[n] /\ M!Version(n)' = M!Version(n) /\ done' = done
        BY <1>1, <1>4, <2>2, <2>6
      <3> QED BY <1>2, <3>1
    <2>7. lines' \in [Registered -> Nat]
      BY <1>1, <2>1, <2>2, VersionIsLeast
    <2> QED BY <1>1, <2>2, <2>3, <2>5, <2>6, <2>7
  <1>10. ASSUME NEW m \in Migrators, GivesUp(m) PROVE After
    <2>1. /\ todo' = [todo EXCEPT ![m] = M!NoWalk] /\ migDeaths' = migDeaths + 1
          /\ UNCHANGED <<marker, done, lines, migTurns>>
      BY <1>10 DEF GivesUp
    <2>2. todo' \in [Migrators -> Walks] /\ todo'[m].left = {}
      BY <1>1, <2>1 DEF Walks, M!NoWalk
    <2>3. Carried(m)'
      BY <2>2
    <2>4. ASSUME NEW n \in Migrators, n # m PROVE Carried(n)'
      <3>1. todo'[n] = todo[n] /\ M!Version(n)' = M!Version(n) /\ done' = done
        BY <1>1, <1>4, <2>1, <2>4
      <3> QED BY <1>2, <3>1
    <2> QED BY <1>1, <2>1, <2>2, <2>3, <2>4
  <1>11. After => MarkerInv'
    BY DEF MarkerInv, M!MarkerIsEarned
  <1> HIDE DEF After
  <1> QED BY <1>5, <1>6, <1>7, <1>8, <1>9, <1>10, <1>11, EveryWrite

\* What one migrator leaves while the others rest.
LEMMA OneWalks ==
  ASSUME NEW m \in Migrators, \A n \in Migrators : n # m => todo'[n].left = {},
         todo'[m].left # {} => Underway(m)',
         todo'[m].left = {} => (\A x \in Registered :
                                  lines[x] = done[x] /\ done[x] = IF x <= marker THEN 1 ELSE 0)'
  PROVE  RecordInv'
  BY DEF RecordInv

\* In turns, nobody having died, one version at a time is taken to its line.
LEMMA RecordStep ==
  M!MigrationsAssumption /\ MarkerInv /\ RecordInv /\ [M!MigNext]_(M!migVars) => RecordInv'
  <1> SUFFICES ASSUME M!MigrationsAssumption, MarkerInv, RecordInv, [M!MigNext]_(M!migVars),
                      migTurns', migDeaths' = 0
               PROVE  RecordInv'
    BY DEF RecordInv
  <1>1. /\ marker \in Int /\ done \in [Registered -> Nat] /\ todo \in [Migrators -> Walks]
        /\ lines \in [Registered -> Nat] /\ migDeaths \in Nat
        /\ Registered \subseteq Nat
    BY DEF MarkerInv, M!MigrationsAssumption
  <1>2. CASE UNCHANGED <<marker, done, lines, todo, migDeaths, migTurns>>
    BY <1>2 DEF RecordInv, Underway, RecordedBut, M!Version
  <1>3. ASSUME NEW m \in Migrators, migDeaths' = migDeaths, migTurns' = migTurns,
               todo[m].left # {}
        PROVE  /\ Underway(m) /\ \A n \in Migrators : n # m => todo[n].left = {}
    BY <1>3 DEF RecordInv
  <1>4. ASSUME NEW m \in Migrators, NEW target \in Nat, SetsOut(m, target) PROVE RecordInv'
    <2>1. /\ todo' = [todo EXCEPT ![m] = [left |-> M!Pending(target), made |-> 0]]
          /\ UNCHANGED <<marker, done, lines, migDeaths, migTurns>>
          /\ \A n \in Migrators : todo[n].left = {}
      BY <1>4 DEF SetsOut
    <2>2. \A x \in Registered : lines[x] = done[x] /\ done[x] = IF x <= marker THEN 1 ELSE 0
      BY <2>1 DEF RecordInv
    <2>3. /\ todo'[m].left = M!Pending(target) /\ todo'[m].made = 0
          /\ \A n \in Migrators : n # m => todo'[n].left = {}
      BY <1>1, <2>1
    <2>4. ASSUME todo'[m].left # {} PROVE Underway(m)'
      <3>1. MarkerInv'
        BY MarkerStep
      <3>2. M!Version(m)' \in M!Pending(target) /\ M!Version(m)' \in Nat
        <4>1. todo'[m].left \in SUBSET Nat
          BY <1>1, <2>3 DEF M!Pending
        <4>2. PICK x \in todo'[m].left : \A y \in todo'[m].left : x <= y
          BY <2>4, <4>1, LeastNumber
        <4>3. M!Version(m)' \in todo'[m].left
          BY <4>2 DEF M!Version, M!Min
        <4> QED BY <2>3, <4>1, <4>3
      <3>3. PICK v : v = M!Version(m)'
        OBVIOUS
      <3>4. v \in Registered /\ marker < v
        BY <3>2, <3>3 DEF M!Pending
      <3>5. RecordedBut(M!Version(m))'
        BY <2>1, <2>2 DEF RecordedBut
      <3>6. lines'[v] = 0 /\ done'[v] = 0 /\ marker' < v
        BY <1>1, <2>1, <2>2, <3>4
      <3>7. \A x \in Registered, w \in M!Pending(target) :
               marker < x /\ x < w => x \in M!Pending(target)
        BY <1>1 DEF M!Pending
      <3> QED BY <2>1, <2>3, <3>3, <3>5, <3>6, <3>7 DEF Underway
    <2> QED BY <2>1, <2>2, <2>3, <2>4, OneWalks
  <1>5. ASSUME NEW m \in Migrators, DoesStep(m) \/ MovesMarker(m) PROVE RecordInv'
    <2>1. PICK v : v = M!Version(m)
      OBVIOUS
    <2>2. /\ todo[m].left # {} /\ lines' = lines
          /\ migDeaths' = migDeaths /\ migTurns' = migTurns
          /\ \/ /\ todo[m].made = 0 /\ marker' = marker
                /\ todo' = [todo EXCEPT ![m] = [left |-> todo[m].left, made |-> 1]]
                /\ done' = [done EXCEPT ![v] = @ + 1]
             \/ /\ todo[m].made = 1 /\ marker' = v /\ done' = done
                /\ todo' = [todo EXCEPT ![m] = [left |-> todo[m].left, made |-> 2]]
      <3>1. CASE DoesStep(m)
        BY <2>1, <3>1, WriteEffects
      <3>2. CASE MovesMarker(m)
        BY <2>1, <3>2, WriteEffects
      <3> QED BY <1>5, <3>1, <3>2
    <2>3. /\ v \in Registered /\ v \in Nat /\ v \in todo[m].left
          /\ \A w \in todo[m].left : v <= w
      BY <2>1, <2>2, VersionIsLeast
    <2>4. Underway(m) /\ \A n \in Migrators : n # m => todo[n].left = {}
      BY <1>3, <2>2
    <2>5. /\ todo'[m].left = todo[m].left
          /\ todo'[m].made = IF todo[m].made = 0 THEN 1 ELSE 2
          /\ \A n \in Migrators : n # m => todo'[n].left = {}
      BY <1>1, <2>2, <2>4
    <2>6. M!Version(m)' = v
      BY <2>1, <2>5 DEF M!Version
    <2>7. /\ \A x \in Registered : x # v =>
                lines[x] = done[x] /\ done[x] = IF x <= marker THEN 1 ELSE 0
          /\ lines[v] = 0 /\ done[v] = IF todo[m].made = 0 THEN 0 ELSE 1
          /\ marker < v
          /\ \A x \in Registered, w \in todo[m].left : marker < x /\ x < w => x \in todo[m].left
      BY <2>1, <2>2, <2>4 DEF Underway, RecordedBut
    <2>8. /\ done'[v] = 1 /\ \A x \in Registered : x # v => done'[x] = done[x]
      BY <1>1, <2>2, <2>3, <2>7
    <2>9. /\ \A x \in Registered : x # v => (x <= marker' <=> x <= marker)
          /\ IF todo'[m].made = 2 THEN marker' = v ELSE marker' < v
          /\ marker <= marker' /\ marker' \in Int
      <3>1. ASSUME NEW x \in Registered, x < v PROVE x <= marker
        <4>1. x \notin todo[m].left
          BY <1>1, <2>3, <3>1
        <4>2. ~(marker < x)
          BY <2>3, <2>7, <3>1, <4>1
        <4> QED BY <1>1, <4>2
      <3> QED BY <1>1, <2>2, <2>3, <2>5, <2>7, <3>1
    <2>10. RecordedBut(v)'
      BY <2>2, <2>7, <2>8, <2>9 DEF RecordedBut
    <2>11. \A x \in Registered, w \in todo'[m].left : marker' < x /\ x < w => x \in todo'[m].left
      BY <1>1, <2>3, <2>5, <2>7, <2>9
    <2>12. lines'[v] = 0 /\ todo'[m].made # 0
      BY <2>2, <2>5, <2>7
    <2>13. Underway(m)'
      BY <2>6, <2>8, <2>9, <2>10, <2>11, <2>12 DEF Underway, RecordedBut
    <2> QED BY <2>2, <2>5, <2>13, OneWalks
  <1>6. ASSUME NEW m \in Migrators, AddsLine(m) PROVE RecordInv'
    <2>1. PICK v : v = M!Version(m)
      OBVIOUS
    <2>2. /\ todo[m].left # {} /\ todo[m].made = 2
          /\ todo' = [todo EXCEPT ![m] = [left |-> todo[m].left \ {v}, made |-> 0]]
          /\ lines' = [lines EXCEPT ![v] = @ + 1] /\ UNCHANGED <<marker, done, migDeaths, migTurns>>
      BY <1>6, <2>1, WriteEffects
    <2>3. /\ v \in Registered /\ v \in Nat /\ v \in todo[m].left
          /\ \A w \in todo[m].left : v <= w
      BY <2>1, <2>2, VersionIsLeast
    <2>4. Underway(m) /\ \A n \in Migrators : n # m => todo[n].left = {}
      BY <1>3, <2>2
    <2>5. /\ todo'[m].left = todo[m].left \ {v} /\ todo'[m].made = 0
          /\ \A n \in Migrators : n # m => todo'[n].left = {}
      BY <1>1, <2>2, <2>4
    <2>6. /\ \A x \in Registered : x # v =>
                lines[x] = done[x] /\ done[x] = IF x <= marker THEN 1 ELSE 0
          /\ lines[v] = 0 /\ done[v] = 1 /\ marker = v
          /\ \A x \in Registered, w \in todo[m].left : marker < x /\ x < w => x \in todo[m].left
      BY <2>1, <2>2, <2>4 DEF Underway, RecordedBut
    <2>7. lines'[v] = 1 /\ \A x \in Registered : x # v => lines'[x] = lines[x]
      BY <1>1, <2>2, <2>3, <2>6
    <2>8. \A x \in Registered : lines'[x] = done'[x] /\ done'[x] = IF x <= marker' THEN 1 ELSE 0
      BY <2>2, <2>3, <2>6, <2>7
    <2>9. ASSUME todo'[m].left # {} PROVE Underway(m)'
      <3>1. PICK u : u = M!Version(m)'
        OBVIOUS
      <3>2. u \in todo'[m].left
        <4>1. todo'[m].left \in SUBSET Nat
          BY <1>1, <2>5 DEF Walks
        <4>2. PICK x \in todo'[m].left : \A y \in todo'[m].left : x <= y
          BY <2>9, <4>1, LeastNumber
        <4> QED BY <3>1, <4>2 DEF M!Version, M!Min
      <3>3. u \in Registered /\ u \in Nat /\ marker' < u
        BY <1>1, <2>2, <2>3, <2>5, <2>6, <3>2 DEF Walks
      <3>4. RecordedBut(u)'
        BY <2>8 DEF RecordedBut
      <3>5. done'[u] = 0 /\ lines'[u] = 0
        BY <1>1, <2>2, <2>8, <3>3
      <3>6. \A x \in Registered, w \in todo'[m].left : marker' < x /\ x < w => x \in todo'[m].left
        BY <1>1, <2>2, <2>3, <2>5, <2>6
      <3> QED BY <2>5, <3>1, <3>3, <3>4, <3>5, <3>6 DEF Underway, RecordedBut
    <2> QED BY <2>5, <2>8, <2>9, OneWalks
  <1>7. ASSUME NEW m \in Migrators, GivesUp(m) PROVE RecordInv'
    BY <1>1, <1>7 DEF GivesUp
  <1> QED BY <1>2, <1>4, <1>5, <1>6, <1>7, EveryWrite

\* The marker never promises a step that was not done, however migrators race and wherever
\* they die (migrations.py: migrate writes the marker after the step, and walks the
\* versions in ascending order from the marker it read).
THEOREM MarkerEarned ==
  ASSUME M!MigrationsAssumption
  PROVE  M!MigSpec => []M!MarkerIsEarned
  <1>1. M!MigInit => MarkerInv
    BY MigInitHolds
  <1>2. MarkerInv /\ [M!MigNext]_(M!migVars) => MarkerInv'
    BY MarkerStep
  <1>3. MarkerInv => M!MarkerIsEarned
    BY DEF MarkerInv
  <1> QED BY <1>1, <1>2, <1>3, PTL DEF M!MigSpec

\* "Every applied step is recorded both in the meta table (so re-running is a no-op) and in
\* the append-only audit log": in turns, nobody dying, each version up to the marker was
\* done once and has one line, the others none (migrations.py: migrate).
THEOREM StepsRecorded ==
  ASSUME M!MigrationsAssumption
  PROVE  M!MigSpec => []M!StepsAreRecorded
  <1>1. M!MigInit => MarkerInv /\ RecordInv
    BY MigInitHolds
  <1>2. MarkerInv /\ RecordInv /\ [M!MigNext]_(M!migVars) => (MarkerInv /\ RecordInv)'
    BY MarkerStep, RecordStep
  <1>3. RecordInv => M!StepsAreRecorded
    BY DEF RecordInv, M!StepsAreRecorded
  <1> QED BY <1>1, <1>2, <1>3, PTL DEF M!MigSpec
-----------------------------------------------------------------------------
(***************************************************************************)
(* The parts together.                                                     *)
(***************************************************************************)
LEMMA PartBegins ==
  Init => /\ focus = "procedures" => P!ProcInit
          /\ focus = "files" => W!FilesInit
          /\ focus = "package" => K!PackInit
          /\ focus = "accounts" => A!AcctInit
          /\ focus = "incidents" => I!IncInit
          /\ focus = "schedules" => S!SchedInit
          /\ focus = "migrations" => M!MigInit
          /\ focus = "registry" => R!Init
          /\ focus = "audit" => L!Init
  BY DEF Init

\* What the workspace does is a step of the part in focus.
LEMMA PartSteps ==
  [Next]_vars =>
    /\ focus' = focus
    /\ focus = "procedures" => [P!ProcNext]_(P!procVars)
    /\ focus = "files" => [W!FilesNext]_(W!fileVars)
    /\ focus = "package" => [K!PackNext]_(K!packVars)
    /\ focus = "accounts" => [A!AcctNext]_(A!acctVars)
    /\ focus = "incidents" => [I!IncNext]_(I!incVars)
    /\ focus = "schedules" => [S!SchedNext]_(S!schedVars)
    /\ focus = "migrations" => [M!MigNext]_(M!migVars)
    /\ focus = "registry" => [R!Next]_(R!vars)
    /\ focus = "audit" => [L!Next]_(L!vars)
  <1>1. CASE Next
    BY <1>1 DEF Next, Only
  <1>2. CASE UNCHANGED vars
    <2>1. UNCHANGED <<focus, procedures, files, package, accounts, incidents, schedules, migrations,
                      registry, audit>>
      BY <1>2 DEF vars
    <2>2. UNCHANGED P!procVars
      BY <2>1 DEF procedures, P!procVars
    <2>3. UNCHANGED W!fileVars
      BY <2>1 DEF files, W!fileVars
    <2>4. UNCHANGED K!packVars
      BY <2>1 DEF package, K!packVars
    <2>5. UNCHANGED A!acctVars
      BY <2>1 DEF accounts, A!acctVars, A!fixed
    <2>6. UNCHANGED I!incVars
      BY <2>1 DEF incidents, I!incVars
    <2>7. UNCHANGED S!schedVars
      BY <2>1 DEF schedules, S!schedVars
    <2>8. UNCHANGED M!migVars
      BY <2>1 DEF migrations, M!migVars
    <2>9. UNCHANGED R!vars
      BY <2>1 DEF registry, R!vars
    <2>10. UNCHANGED L!vars
      BY <2>1 DEF audit, L!vars
    <2> QED BY <2>1, <2>2, <2>3, <2>4, <2>5, <2>6, <2>7, <2>8, <2>9, <2>10
  <1> QED BY <1>1, <1>2

\* A part that stays as it is stays so with everything else.
LEMMA WholeSteps ==
  ASSUME [Next]_vars
  PROVE  /\ focus = "procedures" /\ UNCHANGED P!procVars => UNCHANGED vars
         /\ focus = "accounts" /\ UNCHANGED A!acctVars => UNCHANGED vars
         /\ focus = "files" /\ UNCHANGED W!fileVars => UNCHANGED vars
  <1>1. CASE Next
    <2>1. /\ focus = "procedures" => Only("procedures")
          /\ focus = "accounts" => Only("accounts")
          /\ focus = "files" => Only("files")
      BY <1>1 DEF Next, Only
    <2>2. focus = "procedures" /\ UNCHANGED P!procVars => UNCHANGED vars
      BY <2>1 DEF Only, P!procVars, procedures, vars
    <2>3. focus = "accounts" /\ UNCHANGED A!acctVars => UNCHANGED vars
      BY <2>1 DEF Only, A!acctVars, A!fixed, accounts, vars
    <2>4. focus = "files" /\ UNCHANGED W!fileVars => UNCHANGED vars
      BY <2>1 DEF Only, W!fileVars, files, vars
    <2> QED BY <2>2, <2>3, <2>4
  <1> QED BY <1>1

\* The active version of a procedure can be read, and a rollback goes back by one
\* (procedures.py: publish_procedure, rollback_procedure).
THEOREM ProceduresInWorkspace ==
  ASSUME WorkspaceAssumption
  PROVE  Spec => []ProceduresHold
  <1> DEFINE InFocus == focus = "procedures"
  <1>1. Init /\ InFocus => P!ProcInit
    BY PartBegins
  <1>2. [Next]_vars => (InFocus' <=> InFocus) /\ (InFocus => [P!ProcNext]_(P!procVars))
    BY PartSteps
  <1>3. P!ProcSpec => []P!ActiveIsThere /\ []P!RollbackGoesBack
    BY ActiveResolves, RollbackFound DEF WorkspaceAssumption
  <1>4. (InFocus => P!ActiveIsThere /\ P!RollbackGoesBack) => ProceduresHold
    BY DEF ProceduresHold
  <1> HIDE DEF InFocus
  <1> QED BY <1>1, <1>2, <1>3, <1>4, PTL DEF Spec, P!ProcSpec

\* A finished restore that nobody wrote into leaves the workers of the package
\* (package.py: restore).
THEOREM PackagesInWorkspace ==
  ASSUME WorkspaceAssumption
  PROVE  Spec => []RestoredWorkersAgree
  <1> DEFINE InFocus == focus = "package"
  <1>1. Init /\ InFocus => K!PackInit
    BY PartBegins
  <1>2. [Next]_vars => (InFocus' <=> InFocus) /\ (InFocus => [K!PackNext]_(K!packVars))
    BY PartSteps
  <1>3. K!PackSpec => []K!RestoredWorkersAgree
    BY RestoresAgree
  <1>4. (InFocus => K!RestoredWorkersAgree) => RestoredWorkersAgree
    BY DEF RestoredWorkersAgree
  <1> HIDE DEF InFocus
  <1> QED BY <1>1, <1>2, <1>3, <1>4, PTL DEF Spec, K!PackSpec

\* A disabled account fades within the life of a session, and whose vote counts may vote
\* (auth.py: validate_session; web.py: _gate_mutate, _decide).
THEOREM AccountsInWorkspace ==
  ASSUME WorkspaceAssumption
  PROVE  Spec => []AccountsHold
  <1> DEFINE InFocus == focus = "accounts"
  <1>1. Init /\ InFocus => A!AcctInit
    BY PartBegins
  <1>2. [Next]_vars => (InFocus' <=> InFocus) /\ (InFocus => [A!AcctNext]_(A!acctVars))
    BY PartSteps
  <1>3. A!AcctSpec => []A!DisabledUsersFade /\ []A!VotersMayDecide
    BY UsersFade, VotersCount DEF WorkspaceAssumption
  <1>4. (InFocus => A!DisabledUsersFade /\ A!VotersMayDecide) => AccountsHold
    BY DEF AccountsHold
  <1> HIDE DEF InFocus
  <1> QED BY <1>1, <1>2, <1>3, <1>4, PTL DEF Spec, A!AcctSpec

\* An incident freezes the workspace until somebody lowers safe mode, and its timeline
\* tells how often it was opened and closed (incident.py: open, close; safemode.py: set_level).
THEOREM IncidentsInWorkspace ==
  ASSUME WorkspaceAssumption
  PROVE  Spec => []IncidentsHold
  <1> DEFINE InFocus == focus = "incidents"
  <1>1. Init /\ InFocus => I!IncInit
    BY PartBegins
  <1>2. [Next]_vars => (InFocus' <=> InFocus) /\ (InFocus => [I!IncNext]_(I!incVars))
    BY PartSteps
  <1>3. I!IncSpec => []I!FrozenUntilStoodDown /\ []I!TimelineAlternates
    BY FreezeHolds, TimelineTells DEF WorkspaceAssumption
  <1>4. (InFocus => I!FrozenUntilStoodDown /\ I!TimelineAlternates) => IncidentsHold
    BY DEF IncidentsHold
  <1> HIDE DEF InFocus
  <1> QED BY <1>1, <1>2, <1>3, <1>4, PTL DEF Spec, I!IncSpec

\* With one runner a due time is run once, and a schedule switched off stays off
\* (scheduler.py: due, mark_fired, set_enabled).
THEOREM SchedulesInWorkspace ==
  ASSUME WorkspaceAssumption, EveryCronMeets, NoneIsNoRecord, NEW r, Runners = {r}
  PROVE  Spec => []SchedulesHold
  <1> DEFINE InFocus == focus = "schedules"
  <1>1. Init /\ InFocus => S!SchedInit
    BY PartBegins
  <1>2. [Next]_vars => (InFocus' <=> InFocus) /\ (InFocus => [S!SchedNext]_(S!schedVars))
    BY PartSteps
  <1>3. S!SchedSpec => []S!OncePerTime /\ []S!OffIsKept
    BY OffStays, TimesRunOnce DEF WorkspaceAssumption
  <1>4. (InFocus => S!OncePerTime /\ S!OffIsKept) => SchedulesHold
    BY DEF SchedulesHold
  <1> HIDE DEF InFocus
  <1> QED BY <1>1, <1>2, <1>3, <1>4, PTL DEF Spec, S!SchedSpec

\* The data version is only ever ahead of steps that were done, each recorded once
\* (migrations.py: migrate).
THEOREM MigrationsInWorkspace ==
  ASSUME WorkspaceAssumption
  PROVE  Spec => []MigrationsHold
  <1> DEFINE InFocus == focus = "migrations"
  <1>1. Init /\ InFocus => M!MigInit
    BY PartBegins
  <1>2. [Next]_vars => (InFocus' <=> InFocus) /\ (InFocus => [M!MigNext]_(M!migVars))
    BY PartSteps
  <1>3. M!MigSpec => []M!MarkerIsEarned /\ []M!StepsAreRecorded
    BY MarkerEarned, StepsRecorded DEF WorkspaceAssumption
  <1>4. (InFocus => M!MarkerIsEarned /\ M!StepsAreRecorded) => MigrationsHold
    BY DEF MigrationsHold
  <1> HIDE DEF InFocus
  <1> QED BY <1>1, <1>2, <1>3, <1>4, PTL DEF Spec, M!MigSpec

\* With one scope, versions differ and the pointer names the newest policy, which is there
\* (policy.py: publish, _set_current).
THEOREM PoliciesInWorkspace ==
  ASSUME WorkspaceAssumption, NEW s, Scopes = {s}
  PROVE  Spec => []PoliciesHold
  <1> DEFINE InFocus == focus = "registry"
  <1>1. Init /\ InFocus => R!Init
    BY PartBegins
  <1>2. [Next]_vars => (InFocus' <=> InFocus) /\ (InFocus => [R!Next]_(R!vars))
    BY PartSteps
  <1>3. R!Spec => []R!TypeOK /\ []R!VersionsDiffer /\ []R!CurrentIsNewest /\ []R!CurrentResolves
    BY PolicyTypes, VersionsAreNew, PointerIsNewest, PointersResolve
       DEF WorkspaceAssumption
  <1>4. (InFocus => /\ R!TypeOK
                    /\ R!VersionsDiffer
                    /\ R!CurrentIsNewest
                    /\ R!CurrentResolves)
        => PoliciesHold
    BY DEF PoliciesHold
  <1> HIDE DEF InFocus
  <1> QED BY <1>1, <1>2, <1>3, <1>4, PTL DEF Spec, R!Spec

\* The audit chain verifies until somebody edits it, then no longer, and tells the rows
\* (store.py: put, delete, audit, verify_audit_chain).
THEOREM AuditInWorkspace ==
  ASSUME WorkspaceAssumption
  PROVE  Spec => []AuditHolds
  <1> DEFINE InFocus == focus = "audit"
  <1>1. Init /\ InFocus => L!Init
    BY PartBegins
  <1>2. [Next]_vars => (InFocus' <=> InFocus) /\ (InFocus => [L!Next]_(L!vars))
    BY PartSteps
  <1>3. L!Spec =>
          /\ []L!TypeOK
          /\ []L!ChainVerifies
          /\ []L!EditsShow
          /\ []L!LogRebuildsRows
          /\ []L!LinksLeadBack
    BY AuditTypes, ChainHolds, EditsAlwaysShow, LogTellsRows, LinksHold DEF WorkspaceAssumption
  <1>4. (InFocus => /\ L!TypeOK
                    /\ L!ChainVerifies
                    /\ L!EditsShow
                    /\ L!LogRebuildsRows
                    /\ L!LinksLeadBack)
        => AuditHolds
    BY DEF AuditHolds
  <1> HIDE DEF InFocus
  <1> QED BY <1>1, <1>2, <1>3, <1>4, PTL DEF Spec, L!Spec

\* What a lifecycle command takes away from a worker's file is among its versions
\* (lifecycle.py: _snapshot before what is written over).
THEOREM FilesInWorkspace == Spec => ReplacedIsRecorded
  <1> DEFINE InFocus == focus = "files"
  <1>1. Init /\ InFocus => W!FilesInit
    BY PartBegins
  <1>2. [Next]_vars => (InFocus' <=> InFocus) /\ (InFocus => [W!FilesNext]_(W!fileVars))
    BY PartSteps
  <1>3. W!FilesSpec => [][W!ReplacedStays]_(W!fileVars)
    BY ReplacedKept
  <1>4. [Next]_vars /\ (InFocus => [W!ReplacedStays]_(W!fileVars))
          => [focus = "files" => W!ReplacedStays]_vars
    BY WholeSteps
  <1> HIDE DEF InFocus
  <1> QED BY <1>1, <1>2, <1>3, <1>4, PTL DEF Spec, W!FilesSpec, ReplacedIsRecorded

\* A published version of a procedure, in turns, and the role of an account stay as they
\* were made (procedures.py: publish_procedure; auth.py: create_user).
THEOREM RecordsInWorkspace ==
  ASSUME WorkspaceAssumption
  PROVE  Spec => NothingIsRewritten
  <1> DEFINE Proc == focus = "procedures"
             Acct == focus = "accounts"
  <1>1. Init => (Proc => P!ProcInit) /\ (Acct => A!AcctInit)
    BY PartBegins
  <1>2. [Next]_vars =>
          /\ (Proc' <=> Proc) /\ (Proc => [P!ProcNext]_(P!procVars))
          /\ (Acct' <=> Acct) /\ (Acct => [A!AcctNext]_(A!acctVars))
    BY PartSteps
  <1>3. P!ProcSpec => [][P!PublishedStays]_(P!procVars)
    BY PublishedKept DEF WorkspaceAssumption
  <1>4. A!AcctSpec => [][A!RoleStays]_(A!acctVars)
    BY RolesStay DEF WorkspaceAssumption
  <1>5. /\ [Next]_vars
        /\ Proc => [P!PublishedStays]_(P!procVars)
        /\ Acct => [A!RoleStays]_(A!acctVars)
        => [/\ focus = "procedures" => P!PublishedStays
            /\ focus = "accounts" => A!RoleStays]_vars
    BY WholeSteps
  <1> HIDE DEF Proc, Acct
  <1> QED BY <1>1, <1>2, <1>3, <1>4, <1>5, PTL DEF Spec, P!ProcSpec, A!AcctSpec, NothingIsRewritten
=============================================================================
