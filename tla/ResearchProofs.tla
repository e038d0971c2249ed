--------------------------- MODULE ResearchProofs ---------------------------
(***************************************************************************)
(* Proofs about Research and Scoring, the part R of what a worker does,    *)
(* for any roster, any documents, any page and any number of commands and  *)
(* deaths.                                                                 *)
(*                                                                         *)
(*   ScoresAreDeserved  unless a lead was researched by its name, none     *)
(*                      scores more than its documents ever told           *)
(*   PainGetsFound      a whole pass over a ledger of one page, with no    *)
(*                      document written since it began, leaves no lead    *)
(*                      unresearched whose documents tell of pain          *)
(*                                                                         *)
(* A score is computed from rows that were written long before, by         *)
(* commands that may have died between any two of them.  The invariant     *)
(* ResearchInv follows the rows from the document to the table: what is to *)
(* be written, and what is stored, was told by a document in the scope of  *)
(* its lead, or is where the lead is from; a lead is from one place; no    *)
(* pain point is stored twice or will be (ResearchIsTrue).  Then an        *)
(* evaluation counts no more sources and no more pain points than the      *)
(* documents told, and the rubric, whose every part grows with what it     *)
(* counts (WeighedGrows), gives no more than they deserve.  A document may *)
(* be written over at any time, also between its reading and the rows from *)
(* it; what was told stays told (DocumentWritten).                         *)
(*                                                                         *)
(* For the other theorem it says of each lead with pain in its documents   *)
(* that it has pain points, is still on the list, or has one coming, and   *)
(* that no lead is entered after the list was made (ResearchGoesOn).       *)
(***************************************************************************)
EXTENDS Work, Sequences, FiniteSetTheorems, WellFoundedInduction, TLAPS

-----------------------------------------------------------------------------
(***************************************************************************)
(* Lists, and one sequence after another.                                  *)
(***************************************************************************)
\* A set of numbers has a least one: induction, in the form of the library's WFMin.
LEMMA LeastNumber ==
  ASSUME NEW N \in SUBSET Nat, N # {}
  PROVE  \E least \in N : \A y \in N : least <= y
  <1>1. PICK x \in N : \A y \in N : <<y, x>> \notin OpToRel(<, Nat)
    BY NatLessThanWellFounded, WFMin
  <1>2. x \in Nat /\ \A y \in N : y \in Nat /\ ~(y < x)
    BY <1>1 DEF OpToRel
  <1>3. \A y \in N : x <= y
    BY <1>2
  <1> QED BY <1>3

\* The sizes that Research counts are those of FiniteSets.
LEMMA ResearchCounts ==
  ASSUME NEW S
  PROVE  /\ R!Cardinality(S) = Cardinality(S)
         /\ R!IsFiniteSet(S) <=> IsFiniteSet(S)
  <1>1. R!Cardinality(S) = Cardinality(S)
    BY DEF R!Cardinality, Cardinality
  <1>2. R!IsFiniteSet(S) <=> IsFiniteSet(S)
    BY DEF R!IsFiniteSet, IsFiniteSet
  <1> QED BY <1>1, <1>2

\* s goes through the members of S, each once.
Enumerates(s, S) ==
  /\ s \in [1 .. Cardinality(S) -> S]
  /\ \A i, j \in DOMAIN s : s[i] = s[j] => i = j
  /\ \A x \in S : \E i \in DOMAIN s : s[i] = x

\* What is before each member of S, in a strict order of all of them.
Orders(before, S) ==
  /\ \A x \in S : before[x] \in SUBSET (S \ {x})
  /\ \A x, y \in S : x \in before[y] => before[x] \in SUBSET before[y]
  /\ \A x, y \in S : x # y => x \in before[y] \/ y \in before[x]

\* As many as there are before it: the place of a member, no two have the same.
LEMMA ListedEnumerates ==
  ASSUME NEW S, IsFiniteSet(S), NEW before, Orders(before, S)
  PROVE  Enumerates(R!Listed(S, before), S)
  <1> DEFINE n == Cardinality(S)
             rank == [x \in S |-> Cardinality(before[x])]
             s == R!Listed(S, before)
  <1>1. n \in Nat
    BY FS_CardinalityType
  <1>2. ASSUME NEW x \in S
        PROVE  IsFiniteSet(before[x]) /\ rank[x] \in 0 .. n - 1
    <2>1. before[x] \in SUBSET (S \ {x})
      BY DEF Orders
    <2>2. IsFiniteSet(S \ {x}) /\ Cardinality(S \ {x}) = n - 1
      BY FS_RemoveElement
    <2>3. IsFiniteSet(before[x]) /\ Cardinality(before[x]) <= n - 1
      BY <2>1, <2>2, FS_Subset
    <2>4. Cardinality(before[x]) \in Nat
      BY <2>3, FS_CardinalityType
    <2> QED BY <1>1, <2>3, <2>4
  <1>3. ASSUME NEW x \in S, NEW y \in S, x \in before[y]
        PROVE  rank[x] < rank[y]
    <2>1. before[x] \in SUBSET before[y] /\ x \notin before[x]
      BY <1>3 DEF Orders
    <2>2. Cardinality(before[x]) <= Cardinality(before[y])
      BY <1>2, <2>1, FS_Subset
    <2>3. Cardinality(before[x]) # Cardinality(before[y])
      <3>1. before[x] # before[y]
        BY <1>3, <2>1
      <3>2. Cardinality(before[y]) = Cardinality(before[x]) => before[y] = before[x]
        BY <1>2, <2>1, FS_Subset
      <3> QED BY <3>1, <3>2
    <2>4. rank[x] \in Int /\ rank[y] \in Int
      BY <1>2, <1>1
    <2> QED BY <2>2, <2>3, <2>4
  <1>4. ASSUME NEW x \in S, NEW y \in S, rank[x] = rank[y]
        PROVE  x = y
    <2>1. rank[x] \in Int /\ rank[y] \in Int
      BY <1>2, <1>1
    <2>2. ~(rank[x] < rank[y]) /\ ~(rank[y] < rank[x])
      BY <1>4, <2>1
    <2>3. x \notin before[y] /\ y \notin before[x]
      BY <1>3, <2>2
    <2> QED BY <2>3 DEF Orders
  <1>5. \A i \in 1 .. n : \E x \in S : rank[x] = i - 1
    <2>1. rank \in [S -> 0 .. n - 1]
      BY <1>2
    <2>2. rank \in Injection(S, 0 .. n - 1)
      BY <1>4, <2>1 DEF Injection, IsInjective
    <2>3. IsFiniteSet(0 .. n - 1) /\ Cardinality(0 .. n - 1) = n
      <3>1. n - 1 \in Int /\ (n - 1) - 0 + 1 = n /\ (0 > n - 1 => n = 0)
        BY <1>1
      <3> HIDE DEF n
      <3> QED BY <3>1, FS_Interval
    <2>4. rank \in Surjection(S, 0 .. n - 1)
      BY <2>2, <2>3, FS_Injection
    <2>5. \A k \in 0 .. n - 1 : \E x \in S : rank[x] = k
      BY <2>4 DEF Surjection
    <2>6. \A i \in 1 .. n : i - 1 \in 0 .. n - 1
      BY <1>1
    <2> QED BY <2>5, <2>6
  <1>6. s = [i \in 1 .. n |-> CHOOSE x \in S : Cardinality(before[x]) = i - 1]
    BY ResearchCounts DEF R!Listed
  <1>7. ASSUME NEW i \in 1 .. n
        PROVE  s[i] \in S /\ rank[s[i]] = i - 1
    <2>1. \E x \in S : Cardinality(before[x]) = i - 1
      BY <1>5
    <2>2. s[i] = CHOOSE x \in S : Cardinality(before[x]) = i - 1
      BY <1>6
    <2>3. s[i] \in S /\ Cardinality(before[s[i]]) = i - 1
      BY <2>1, <2>2
    <2> QED BY <2>3
  <1>8. s \in [1 .. n -> S]
    BY <1>6, <1>7
  <1>9. \A i, j \in 1 .. n : s[i] = s[j] => i = j
    <2>1. ASSUME NEW i \in 1 .. n, NEW j \in 1 .. n, s[i] = s[j] PROVE i = j
      <3>1. i - 1 = j - 1
        BY <1>7, <2>1
      <3> QED BY <3>1, <1>1
    <2> QED BY <2>1
  <1>10. \A x \in S : \E i \in 1 .. n : s[i] = x
    <2>1. ASSUME NEW x \in S PROVE \E i \in 1 .. n : s[i] = x
      <3>1. rank[x] + 1 \in 1 .. n /\ (rank[x] + 1) - 1 = rank[x]
        BY <1>1, <1>2
      <3>2. s[rank[x] + 1] \in S /\ rank[s[rank[x] + 1]] = rank[x]
        BY <1>7, <3>1
      <3> HIDE DEF rank, s
      <3>3. s[rank[x] + 1] = x
        BY <1>4, <3>2
      <3> QED BY <3>1, <3>3
    <2> QED BY <2>1
  <1>11. DOMAIN s = 1 .. n
    BY <1>8
  <1> HIDE DEF s
  <1> QED BY <1>8, <1>9, <1>10, <1>11 DEF Enumerates, s

\* A list of a finite set.
LEMMA SetToSeqEnumerates ==
  ASSUME NEW S, IsFiniteSet(S)
  PROVE  Enumerates(R!SetToSeq(S), S)
  <1>1. Cardinality(S) \in Nat /\ ExistsBijection(1 .. Cardinality(S), S)
    BY FS_CardinalityType
  <1>2. PICK f \in [1 .. Cardinality(S) -> S] : \A a, b \in DOMAIN f : f[a] = f[b] => a = b
    BY <1>1 DEF ExistsBijection, Bijection, Injection, IsInjective
  <1>3. R!IsInjective(f)
    BY <1>2 DEF R!IsInjective
  <1> DEFINE s == R!SetToSeq(S)
             n == Cardinality(S)
  <1>4. s \in [1 .. n -> S] /\ R!IsInjective(s)
    BY <1>3, ResearchCounts DEF R!SetToSeq
  <1>5. \A i, j \in 1 .. n : s[i] = s[j] => i = j
    BY <1>4 DEF R!IsInjective
  <1> HIDE DEF s
  <1>6. s \in Injection(1 .. n, S)
    BY <1>4, <1>5 DEF Injection, IsInjective
  <1>7. Cardinality(1 .. n) = n
    BY <1>1, FS_Interval
  <1>8. s \in Surjection(1 .. n, S)
    BY <1>6, <1>7, FS_Injection
  <1>9. \A x \in S : \E i \in 1 .. n : s[i] = x
    BY <1>8 DEF Surjection
  <1> QED BY <1>4, <1>5, <1>9 DEF Enumerates, s

\* The documents of a lead and the rows of a roster, the shared document last.
LEMMA InOrderEnumerates ==
  ASSUME NEW S \in SUBSET Nat, IsFiniteSet(S)
  PROVE  Enumerates(R!InOrder(S), S)
  <1> DEFINE before == [b \in S |-> {a \in S \ {0} : b = 0 \/ a < b}]
  <1>5. R!InOrder(S) = R!Listed(S, before)
    BY DEF R!InOrder
  <1>6. ASSUME NEW x \in S
        PROVE  \A a : a \in before[x] <=> a \in S /\ a # 0 /\ (x = 0 \/ a < x)
    OBVIOUS
  <1> HIDE DEF before
  <1>7. \A x \in S : x \in Nat
    OBVIOUS
  <1>1. \A x \in S : before[x] \in SUBSET (S \ {x})
    <2>1. ASSUME NEW x \in S PROVE \A a \in before[x] : a \in S /\ a # x
      BY <1>6, <1>7
    <2> QED BY <2>1
  <1>2. \A x, y \in S : x \in before[y] => before[x] \in SUBSET before[y]
    <2>1. ASSUME NEW x \in S, NEW y \in S, x \in before[y]
          PROVE  \A a \in before[x] : a \in before[y]
      <3>1. x # 0 /\ (y = 0 \/ x < y) /\ x \in Nat /\ y \in Nat
        BY <1>6, <1>7, <2>1
      <3>2. ASSUME NEW a \in before[x] PROVE a \in before[y]
        <4>1. a \in S /\ a # 0 /\ a < x /\ a \in Nat
          BY <1>6, <1>7, <3>1
        <4>2. y = 0 \/ a < y
          BY <3>1, <4>1
        <4> QED BY <1>6, <4>1, <4>2
      <3> QED BY <3>2
    <2> QED BY <2>1
  <1>3. \A x, y \in S : x # y => x \in before[y] \/ y \in before[x]
    <2>1. ASSUME NEW x \in S, NEW y \in S, x # y
          PROVE  x \in before[y] \/ y \in before[x]
      <3>1. x \in Nat /\ y \in Nat
        BY <1>7
      <3>2. CASE x # 0 /\ (y = 0 \/ x < y)
        BY <3>2, <1>6
      <3>3. CASE y # 0 /\ (x = 0 \/ y < x)
        BY <3>3, <1>6
      <3> QED BY <2>1, <3>1, <3>2, <3>3
    <2> QED BY <2>1
  <1>4. Orders(before, S)
    BY <1>1, <1>2, <1>3 DEF Orders
  <1> QED BY <1>4, <1>5, ListedEnumerates

\* A page of the leads, by score and age: leads, and all of them if the page is long enough.
LEMMA PageOfLeads ==
  ASSUME leads \in SUBSET Nat, IsFiniteSet(leads), Page \in Nat,
         \A l \in leads : scores[l] \in Seq(Int)
  PROVE  /\ R!search_leads \in Seq(leads)
         /\ Cardinality(leads) <= Page =>
              \A l \in leads : \E i \in DOMAIN R!search_leads : R!search_leads[i] = l
  <1> DEFINE before == [l \in leads |-> {k \in leads :
               R!LeadScore(k) > R!LeadScore(l) \/ (R!LeadScore(k) = R!LeadScore(l) /\ k < l)}]
             all == R!Listed(leads, before)
             n == Cardinality(leads)
             m == R!Capped(n, Page)
  <1>1. \A l \in leads : R!LeadScore(l) \in Int
    <2>1. ASSUME NEW l \in leads PROVE R!LeadScore(l) \in Int
      <3>1. CASE scores[l] = <<>>
        BY <3>1 DEF R!LeadScore
      <3>2. CASE scores[l] # <<>>
        <4>1. Len(scores[l]) \in DOMAIN scores[l]
          <5>1. scores[l] \in Seq(Int)
            OBVIOUS
          <5> QED BY <5>1, <3>2
        <4>2. scores[l][Len(scores[l])] \in Int
          BY <4>1
        <4> QED BY <3>2, <4>2 DEF R!LeadScore, R!Last
      <3> QED BY <3>1, <3>2
    <2> QED BY <2>1
  <1>3. R!search_leads = SubSeq(all, 1, m)
    BY ResearchCounts DEF R!search_leads
  <1>11. ASSUME NEW x \in leads
         PROVE  \A k : k \in before[x] <=>
                  /\ k \in leads
                  /\ \/ R!LeadScore(k) > R!LeadScore(x)
                     \/ R!LeadScore(k) = R!LeadScore(x) /\ k < x
    OBVIOUS
  <1>12. \A l \in leads : l \in Nat
    OBVIOUS
  <1> HIDE DEF before
  <1>2. Orders(before, leads)
    <2>1. ASSUME NEW x \in leads
          PROVE  before[x] \in SUBSET (leads \ {x})
      <3>1. \A k \in before[x] : k \in leads /\ k # x
        BY <1>1, <1>11, <1>12
      <3> QED BY <3>1
    <2>2. ASSUME NEW x \in leads, NEW y \in leads, x \in before[y]
          PROVE  before[x] \in SUBSET before[y]
      <3>1. \A k \in before[x] : k \in before[y]
        BY <1>1, <1>11, <1>12, <2>2
      <3> QED BY <3>1
    <2>3. ASSUME NEW x \in leads, NEW y \in leads, x # y
          PROVE  x \in before[y] \/ y \in before[x]
      <3> DEFINE a == R!LeadScore(x)
                 b == R!LeadScore(y)
      <3>1. x \in Nat /\ y \in Nat /\ a \in Int /\ b \in Int
        BY <1>1, <1>12
      <3>2. (a > b \/ (a = b /\ x < y)) => x \in before[y]
        BY <1>11
      <3>3. (b > a \/ (b = a /\ y < x)) => y \in before[x]
        BY <1>11
      <3> HIDE DEF a, b
      <3>4. x < y \/ y < x
        BY <2>3, <3>1
      <3>5. a > b \/ b > a \/ a = b
        BY <3>1
      <3> QED BY <3>2, <3>3, <3>4, <3>5
    <2> QED BY <2>1, <2>2, <2>3 DEF Orders
  <1>4. Enumerates(all, leads)
    BY <1>2, ListedEnumerates
  <1> HIDE DEF all
  <1>5. n \in Nat
    BY FS_CardinalityType
  <1>6. all \in [1 .. n -> leads] /\ DOMAIN all = 1 .. n
    BY <1>4 DEF Enumerates
  <1> HIDE DEF n
  <1>7. m \in 0 .. n /\ (n <= Page => m = n)
    BY <1>5 DEF R!Capped
  <1>8. all \in Seq(leads) /\ Len(all) = n
    BY <1>5, <1>6
  <1> HIDE DEF m
  <1>9. R!search_leads \in Seq(leads) /\ DOMAIN R!search_leads = 1 .. m
           /\ \A i \in 1 .. m : R!search_leads[i] = all[i]
    <2>1. SubSeq(all, 1, m) \in Seq(leads)
      BY <1>5, <1>7, <1>8
    <2>2. Len(SubSeq(all, 1, m)) = m
      BY <1>5, <1>7, <1>8
    <2>3. \A i \in 1 .. m : SubSeq(all, 1, m)[i] = all[i]
      BY <1>5, <1>7, <1>8
    <2> QED BY <1>3, <2>1, <2>2, <2>3, <1>7
  <1>10. ASSUME n <= Page, NEW l \in leads
         PROVE  \E i \in DOMAIN R!search_leads : R!search_leads[i] = l
    <2>1. PICK i \in 1 .. n : all[i] = l
      BY <1>4, <1>6 DEF Enumerates
    <2> QED BY <2>1, <1>7, <1>9, <1>10
  <1> QED BY <1>9, <1>10 DEF n

\* One sequence after another.
LEMMA Concatenated ==
  ASSUME NEW X, NEW s \in Seq(X), NEW t \in Seq(X)
  PROVE  /\ s \o t \in Seq(X)
         /\ \A i \in DOMAIN s : i \in DOMAIN (s \o t) /\ (s \o t)[i] = s[i]
         /\ \A r \in DOMAIN t : Len(s) + r \in DOMAIN (s \o t) /\ (s \o t)[Len(s) + r] = t[r]
         /\ \A i \in DOMAIN (s \o t) : i \in DOMAIN s \/ \E r \in DOMAIN t : i = Len(s) + r
  <1>1. s \o t \in Seq(X) /\ Len(s \o t) = Len(s) + Len(t) /\ Len(s) \in Nat /\ Len(t) \in Nat
    OBVIOUS
  <1>2. \A i \in 1 .. Len(s) + Len(t) : (s \o t)[i] = IF i <= Len(s) THEN s[i] ELSE t[i - Len(s)]
    OBVIOUS
  <1>3. DOMAIN s = 1 .. Len(s) /\ DOMAIN t = 1 .. Len(t) /\ DOMAIN (s \o t) = 1 .. Len(s) + Len(t)
    BY <1>1
  <1>4. \A i \in DOMAIN s : i \in DOMAIN (s \o t) /\ (s \o t)[i] = s[i]
    BY <1>1, <1>2, <1>3
  <1>5. \A r \in DOMAIN t : Len(s) + r \in DOMAIN (s \o t) /\ (s \o t)[Len(s) + r] = t[r]
    BY <1>1, <1>2, <1>3
  <1>6. ASSUME NEW i \in DOMAIN (s \o t), i \notin DOMAIN s
        PROVE  \E r \in DOMAIN t : i = Len(s) + r
    <2>1. i - Len(s) \in DOMAIN t /\ i = Len(s) + (i - Len(s))
      BY <1>1, <1>3, <1>6
    <2> QED BY <2>1
  <1> QED BY <1>1, <1>4, <1>5, <1>6

\* A sequence without its first; and with one more.
LEMMA TailOf ==
  ASSUME NEW X, NEW s \in Seq(X), s # <<>>
  PROVE  /\ 1 \in DOMAIN s /\ Head(s) = s[1] /\ Head(s) \in X /\ Tail(s) \in Seq(X)
         /\ \A i \in DOMAIN Tail(s) : i \in Nat /\ i + 1 \in DOMAIN s /\ Tail(s)[i] = s[i + 1]
         /\ \A i \in DOMAIN s : i \in Nat /\ (i = 1 \/ (i - 1 \in DOMAIN Tail(s) /\ Tail(s)[i - 1] = s[i]))
  <1>1. Len(s) \in Nat \ {0} /\ DOMAIN s = 1 .. Len(s)
    OBVIOUS
  <1>2. Tail(s) \in Seq(X) /\ Len(Tail(s)) = Len(s) - 1 /\ Head(s) = s[1]
    OBVIOUS
  <1>3. DOMAIN Tail(s) = 1 .. Len(s) - 1
    BY <1>1, <1>2
  <1>4. \A i \in 1 .. Len(s) - 1 : Tail(s)[i] = s[i + 1]
    BY <1>1
  <1>5. 1 \in DOMAIN s /\ s[1] \in X
    BY <1>1
  <1>6. ASSUME NEW i \in DOMAIN Tail(s)
        PROVE  i \in Nat /\ i + 1 \in DOMAIN s /\ Tail(s)[i] = s[i + 1]
    BY <1>1, <1>3, <1>4
  <1>7. ASSUME NEW i \in DOMAIN s, i # 1
        PROVE  i \in Nat /\ i - 1 \in DOMAIN Tail(s) /\ Tail(s)[i - 1] = s[i]
    <2>1. i \in Nat /\ i - 1 \in 1 .. Len(s) - 1
      BY <1>1, <1>7
    <2>2. Tail(s)[i - 1] = s[(i - 1) + 1] /\ (i - 1) + 1 = i
      BY <1>4, <2>1
    <2> QED BY <2>1, <2>2, <1>3
  <1> QED BY <1>2, <1>5, <1>6, <1>7

\* A sequence with one more at its end.
LEMMA AppendOf ==
  ASSUME NEW X, NEW s \in Seq(X), NEW e \in X
  PROVE  /\ Append(s, e) \in Seq(X) /\ Append(s, e) # <<>>
         /\ \A i \in DOMAIN s : i \in DOMAIN Append(s, e) /\ Append(s, e)[i] = s[i] /\ i # Len(s) + 1
         /\ Len(s) + 1 \in DOMAIN Append(s, e) /\ Append(s, e)[Len(s) + 1] = e
         /\ \A i \in DOMAIN Append(s, e) : i \in DOMAIN s \/ i = Len(s) + 1
  <1>1. Len(s) \in Nat /\ DOMAIN s = 1 .. Len(s)
    OBVIOUS
  <1>2. Append(s, e) \in Seq(X) /\ Len(Append(s, e)) = Len(s) + 1
    OBVIOUS
  <1>3. DOMAIN Append(s, e) = 1 .. Len(s) + 1
    BY <1>1, <1>2
  <1>4. \A i \in 1 .. Len(s) : Append(s, e)[i] = s[i]
    BY <1>1
  <1>5. Append(s, e)[Len(s) + 1] = e
    BY <1>1
  <1>6. Append(s, e) # <<>>
    BY <1>1, <1>2
  <1> QED BY <1>1, <1>2, <1>3, <1>4, <1>5, <1>6

\* A sequence whose members are all of Y.
LEMMA AllOf ==
  ASSUME NEW X, NEW Y, NEW s \in Seq(X), \A i \in DOMAIN s : s[i] \in Y
  PROVE  s \in Seq(Y)
  OBVIOUS

\* The blocks of a flat sequence: off[j] is how much comes before the j-th.
BlocksOf(flat, seqs, off, m) ==
  /\ \A j \in 1 .. m : \A r \in DOMAIN seqs[j] :
       off[j] + r \in DOMAIN flat /\ flat[off[j] + r] = seqs[j][r]
  /\ \A i \in DOMAIN flat : \E j \in 1 .. m : \E r \in DOMAIN seqs[j] : i = off[j] + r

\* One block after the other: g says what the ones before come to.
Joined(seqs, m, g) == [i \in 1 .. m |-> IF i = 1 THEN seqs[i] ELSE g[i - 1] \o seqs[i]]

\* However many blocks there are.
LEMMA JoinedExists ==
  ASSUME NEW seqs, NEW n \in Nat
  PROVE  \E g : g = Joined(seqs, n, g)
  <1> DEFINE Has(m) == \E g : g = Joined(seqs, m, g)
             N == {m \in Nat : ~Has(m)}
  <1> SUFFICES ASSUME N # {} PROVE FALSE
    OBVIOUS
  <1>1. PICK m \in N : \A k \in N : m <= k
    BY LeastNumber
  <1>2. CASE m = 0
    <2>1. Joined(seqs, 0, <<>>) = Joined(seqs, 0, Joined(seqs, 0, <<>>))
      BY DEF Joined
    <2> QED BY <1>1, <1>2, <2>1
  <1>3. CASE m > 0
    <2>1. m - 1 \in Nat /\ m - 1 \notin N
      BY <1>1, <1>3
    <2>2. PICK g : g = Joined(seqs, m - 1, g)
      BY <2>1
    <2> DEFINE h == Joined(seqs, m, g)
    <2>3. ASSUME NEW i \in 1 .. m, i # 1
          PROVE  h[i - 1] = g[i - 1]
      <3>1. i - 1 \in 1 .. m - 1 /\ i - 1 \in 1 .. m
        BY <2>3, <2>1
      <3>2. g[i - 1] = Joined(seqs, m - 1, g)[i - 1]
        BY <2>2
      <3> QED BY <3>1, <3>2 DEF Joined
    <2>4. h = [i \in 1 .. m |-> IF i = 1 THEN seqs[i] ELSE g[i - 1] \o seqs[i]]
      BY DEF Joined
    <2> HIDE DEF h
    <2>5. \A i \in 1 .. m : (IF i = 1 THEN seqs[i] ELSE g[i - 1] \o seqs[i])
                              = (IF i = 1 THEN seqs[i] ELSE h[i - 1] \o seqs[i])
      BY <2>3
    <2>6. h = [i \in 1 .. m |-> IF i = 1 THEN seqs[i] ELSE h[i - 1] \o seqs[i]]
      BY <2>4, <2>5
    <2>7. h = Joined(seqs, m, h)
      BY <2>6 DEF Joined
    <2> QED BY <2>7, <1>1
  <1>4. m \in Nat
    BY <1>1
  <1> QED BY <1>2, <1>3, <1>4

\* What a flat sequence consists of: its blocks, one after the other.
LEMMA FlattenBlocks ==
  ASSUME NEW X, NEW seqs \in Seq(Seq(X))
  PROVE  /\ R!FlattenSeq(seqs) \in Seq(X)
         /\ \E off \in [1 .. Len(seqs) -> Nat] : BlocksOf(R!FlattenSeq(seqs), seqs, off, Len(seqs))
  <1> DEFINE n == Len(seqs)
  <1>1. n \in Nat /\ \A j \in 1 .. n : seqs[j] \in Seq(X)
    OBVIOUS
  <1>2. CASE n = 0
    <2>1. R!FlattenSeq(seqs) = <<>>
      BY <1>2 DEF R!FlattenSeq
    <2>2. BlocksOf(<<>>, seqs, [j \in 1 .. n |-> 0], n)
      BY <1>2 DEF BlocksOf
    <2>3. [j \in 1 .. n |-> 0] \in [1 .. n -> Nat]
      OBVIOUS
    <2>4. <<>> \in Seq(X)
      OBVIOUS
    <2> QED BY <2>1, <2>2, <2>3, <2>4
  <1>3. CASE n > 0
    <2> DEFINE g == CHOOSE g : g = Joined(seqs, n, g)
    <2>1. g = Joined(seqs, n, g)
      <3>1. \E h : h = Joined(seqs, n, h)
        BY <1>1, JoinedExists
      <3> QED BY <3>1
    <2>9. g = CHOOSE f : f = [i \in 1 .. Len(seqs) |->
                                IF i = 1 THEN seqs[i] ELSE f[i - 1] \o seqs[i]]
      BY DEF Joined
    <2> HIDE DEF g
    <2>2. R!FlattenSeq(seqs) = g[n]
      <3>1. R!FlattenSeq(seqs) =
              IF Len(seqs) = 0 THEN seqs
              ELSE (CHOOSE f : f = [i \in 1 .. Len(seqs) |->
                                      IF i = 1 THEN seqs[i] ELSE f[i - 1] \o seqs[i]])[Len(seqs)]
        BY DEF R!FlattenSeq
      <3> QED BY <1>3, <3>1, <2>9
    <2> DEFINE off == [j \in 1 .. n |-> IF j = 1 THEN 0 ELSE Len(g[j - 1])]
               Fine(m) == g[m] \in Seq(X) /\ BlocksOf(g[m], seqs, off, m)
               N == {m \in 1 .. n : ~Fine(m)}
    <2>3. \A m \in 1 .. n : g[m] = IF m = 1 THEN seqs[m] ELSE g[m - 1] \o seqs[m]
      BY <2>1 DEF Joined
    <2>4. Fine(1)
      <3>1. g[1] = seqs[1] /\ off[1] = 0
        BY <2>3, <1>1, <1>3
      <3>2. DOMAIN seqs[1] \subseteq Nat
        BY <1>1, <1>3
      <3> HIDE DEF off, g
      <3>3. BlocksOf(g[1], seqs, off, 1)
        BY <3>1, <3>2 DEF BlocksOf
      <3> QED BY <3>1, <3>3, <1>1, <1>3
    <2>5. ASSUME NEW m \in 1 .. n, m # 1, Fine(m - 1)
          PROVE  Fine(m)
      <3> DEFINE p == g[m - 1]
                 s == seqs[m]
      <3>1. g[m] = p \o s /\ off[m] = Len(p) /\ m - 1 \in 1 .. n
        <4>1. g[m] = p \o s
          BY <2>3, <2>5
        <4>2. off[m] = Len(p)
          BY <2>5
        <4>3. m - 1 \in 1 .. n
          BY <2>5, <1>1
        <4> QED BY <4>1, <4>2, <4>3
      <3>2. p \in Seq(X) /\ s \in Seq(X) /\ BlocksOf(p, seqs, off, m - 1)
        BY <2>5, <1>1
      <3>3. \A j \in 1 .. m : j = m \/ j \in 1 .. m - 1
        BY <1>1
      <3>4. 1 .. m - 1 \subseteq 1 .. m
        BY <1>1
      <3> HIDE DEF off, p, s
      <3>5. /\ p \o s \in Seq(X)
            /\ \A i \in DOMAIN p : i \in DOMAIN (p \o s) /\ (p \o s)[i] = p[i]
            /\ \A r \in DOMAIN s : Len(p) + r \in DOMAIN (p \o s) /\ (p \o s)[Len(p) + r] = s[r]
            /\ \A i \in DOMAIN (p \o s) : i \in DOMAIN p \/ \E r \in DOMAIN s : i = Len(p) + r
        BY <3>2, Concatenated
      <3> DEFINE f == p \o s
      <3> HIDE DEF f
      <3>6. ASSUME NEW j \in 1 .. m, NEW r \in DOMAIN seqs[j]
            PROVE  off[j] + r \in DOMAIN f /\ f[off[j] + r] = seqs[j][r]
        <4>1. CASE j = m
          BY <4>1, <3>1, <3>5, <3>6 DEF f, s
        <4>2. CASE j \in 1 .. m - 1
          <5>1. off[j] + r \in DOMAIN p /\ p[off[j] + r] = seqs[j][r]
            BY <4>2, <3>2, <3>6 DEF BlocksOf
          <5> QED BY <5>1, <3>5 DEF f
        <4> QED BY <3>3, <4>1, <4>2
      <3>7. ASSUME NEW i \in DOMAIN f
            PROVE  \E j \in 1 .. m : \E r \in DOMAIN seqs[j] : i = off[j] + r
        <4>1. CASE i \in DOMAIN p
          <5>1. PICK j \in 1 .. m - 1 : \E r \in DOMAIN seqs[j] : i = off[j] + r
            BY <4>1, <3>2 DEF BlocksOf
          <5> QED BY <5>1, <3>4
        <4>2. CASE \E r \in DOMAIN s : i = Len(p) + r
          <5>1. m \in 1 .. m
            BY <1>1
          <5> QED BY <4>2, <3>1, <5>1 DEF s
        <4> QED BY <4>1, <4>2, <3>5, <3>7 DEF f
      <3>8. BlocksOf(f, seqs, off, m)
        BY <3>6, <3>7 DEF BlocksOf
      <3>9. g[m] = f /\ f \in Seq(X)
        BY <3>1, <3>5 DEF f
      <3> QED BY <3>8, <3>9
    <2> HIDE DEF Fine
    <2>6. N = {}
      <3> SUFFICES ASSUME N # {} PROVE FALSE
        OBVIOUS
      <3>1. N \in SUBSET Nat
        BY <1>1
      <3>2. PICK m \in N : \A k \in N : m <= k
        BY <3>1, LeastNumber
      <3>3. m # 1 /\ m \in 1 .. n /\ ~Fine(m)
        BY <2>4, <3>2
      <3>4. m - 1 \in 1 .. n /\ ~(m <= m - 1)
        BY <3>3, <1>1
      <3>5. Fine(m - 1)
        BY <3>2, <3>4
      <3> QED BY <3>3, <3>5, <2>5
    <2>7. Fine(n)
      <3>1. n \in 1 .. n
        BY <1>1, <1>3
      <3> QED BY <2>6, <3>1
    <2>8. off \in [1 .. n -> Nat]
      <3>1. ASSUME NEW j \in 1 .. n, j # 1 PROVE Len(g[j - 1]) \in Nat
        <4>1. j - 1 \in 1 .. n
          BY <1>1, <3>1
        <4>2. g[j - 1] \in Seq(X)
          BY <2>6, <4>1 DEF Fine
        <4> QED BY <4>2
      <3> QED BY <3>1
    <2> QED BY <2>2, <2>7, <2>8 DEF Fine
  <1> QED BY <1>1, <1>2, <1>3

-----------------------------------------------------------------------------
(***************************************************************************)
(* What research finds.                                                    *)
(***************************************************************************)
\* What the patterns find.
Finds == R!SIGNALS \cup R!Pains

\* The rows that may be written.
RowKinds == {"lead", "provenance"} \cup Finds

RowSources == Candidates \cup {0, R!Roster, R!Manual}

ResearchRows == [lead : Candidates, type : RowKinds, source : RowSources, pain : BOOLEAN]

\* What researching l in the documents of S comes to: what is in them, each pain point once.
Finding(s, l, S) ==
  /\ s \in Seq(ResearchRows)
  /\ \A i \in DOMAIN s : /\ s[i].lead = l /\ s[i].source \in S
                         /\ s[i].type \in R!Text(s[i].source) \cap Finds
                         /\ s[i].pain => s[i].type \in R!Pains
  /\ \A i, j \in DOMAIN s : s[i].pain /\ s[i] = s[j] => i = j
  /\ \A d \in S : \A p \in R!Text(d) \cap R!Pains :
       \E i \in DOMAIN s : s[i].pain /\ s[i].source = d /\ s[i].type = p

\* They are few.
LEMMA FindsAreFinite ==
  /\ R!Pains = {"entry", "knowledge"} /\ IsFiniteSet(R!Pains)
  /\ R!SIGNALS = {"hiring_signal", "budget_signal", "contact_info"} /\ IsFiniteSet(R!SIGNALS)
  /\ IsFiniteSet(Finds)
  <1>1. R!Pains = {"entry", "knowledge"}
    BY DEF R!Pains, R!PAIN_PATTERNS
  <1>2. R!SIGNALS = {"hiring_signal", "budget_signal", "contact_info"}
    BY DEF R!SIGNALS
  <1>3. IsFiniteSet({"entry"} \cup {"knowledge"})
    BY FS_Singleton, FS_AddElement
  <1>4. IsFiniteSet(({"hiring_signal"} \cup {"budget_signal"}) \cup {"contact_info"})
    BY FS_Singleton, FS_AddElement
  <1>5. {"entry", "knowledge"} = {"entry"} \cup {"knowledge"}
    OBVIOUS
  <1>6. {"hiring_signal", "budget_signal", "contact_info"}
          = ({"hiring_signal"} \cup {"budget_signal"}) \cup {"contact_info"}
    OBVIOUS
  <1>7. IsFiniteSet(R!Pains) /\ IsFiniteSet(R!SIGNALS)
    BY <1>1, <1>2, <1>3, <1>4, <1>5, <1>6
  <1>8. IsFiniteSet(Finds)
    BY <1>7, FS_Union DEF Finds
  <1> QED BY <1>1, <1>2, <1>7, <1>8

\* The signals of a document.
LEMMA SignalRows ==
  ASSUME NEW l \in Candidates, NEW d \in Candidates \cup {0}
  PROVE  /\ R!extract_signals(l, d) \in Seq(ResearchRows)
         /\ \A i \in DOMAIN R!extract_signals(l, d) :
              LET r == R!extract_signals(l, d)[i]
              IN  r.lead = l /\ r.source = d /\ r.type \in R!Text(d) \cap R!SIGNALS /\ ~r.pain
  <1> DEFINE S == R!Text(d) \cap R!SIGNALS
             hits == R!SetToSeq(S)
             n == Cardinality(S)
             s == R!extract_signals(l, d)
  <1>1. IsFiniteSet(S)
    BY FindsAreFinite, FS_Intersection
  <1>2. n \in Nat
    BY <1>1, FS_CardinalityType
  <1>3. hits \in [1 .. n -> S]
    BY <1>1, SetToSeqEnumerates DEF Enumerates
  <1>4. s = [i \in 1 .. n |-> R!Row(l, hits[i], d)]
    BY <1>3 DEF R!extract_signals
  <1> HIDE DEF hits, s, n
  <1>5. ASSUME NEW i \in 1 .. n
        PROVE  /\ s[i] \in ResearchRows
               /\ s[i].lead = l /\ s[i].source = d /\ s[i].type \in S /\ ~s[i].pain
    <2>1. hits[i] \in S
      BY <1>3
    <2>2. s[i] = [lead |-> l, type |-> hits[i], source |-> d, pain |-> FALSE]
      BY <1>4 DEF R!Row
    <2>3. hits[i] \in RowKinds /\ d \in RowSources
      BY <2>1 DEF RowKinds, RowSources, Finds
    <2>4. s[i] \in ResearchRows
      BY <2>2, <2>3 DEF ResearchRows
    <2>5. s[i].lead = l /\ s[i].source = d /\ s[i].type = hits[i] /\ ~s[i].pain
      BY <2>2
    <2> QED BY <2>1, <2>4, <2>5
  <1>6. DOMAIN s = 1 .. n
    BY <1>4
  <1>7. s \in [1 .. n -> ResearchRows]
    BY <1>4, <1>5, <1>6
  <1> QED BY <1>2, <1>5, <1>6, <1>7 DEF s

\* The pain points of a document, each with its claim before it.
PainBlock(l, p, d) == <<R!Row(l, p, d), [R!Row(l, p, d) EXCEPT !.pain = TRUE]>>

\* The two rows of a match, the claim and the pain point.
LEMMA PainBlockRows ==
  ASSUME NEW l \in Candidates, NEW d \in Candidates \cup {0}, NEW p \in R!Pains
  PROVE  LET b == PainBlock(l, p, d) IN
         /\ b \in Seq(ResearchRows) /\ DOMAIN b = {1, 2}
         /\ \A r \in {1, 2} : b[r].lead = l /\ b[r].source = d /\ b[r].type = p
         /\ ~b[1].pain /\ b[2].pain
  <1> DEFINE claim == R!Row(l, p, d)
             point == [claim EXCEPT !.pain = TRUE]
             b == PainBlock(l, p, d)
  <1>1. claim = [lead |-> l, type |-> p, source |-> d, pain |-> FALSE]
    BY DEF R!Row
  <1>2. p \in RowKinds /\ d \in RowSources
    BY DEF RowKinds, RowSources, Finds
  <1>3. claim \in ResearchRows
    BY <1>1, <1>2 DEF ResearchRows
  <1>4. claim.lead = l /\ claim.source = d /\ claim.type = p /\ ~claim.pain
    BY <1>1
  <1>5. b = <<claim, point>>
    BY DEF PainBlock
  <1> HIDE DEF claim, b
  <1>6. point \in ResearchRows
    BY <1>3 DEF ResearchRows
  <1>7. point.lead = l /\ point.source = d /\ point.type = p /\ point.pain
    BY <1>3, <1>4 DEF ResearchRows
  <1> HIDE DEF point
  <1>8. b \in Seq(ResearchRows) /\ DOMAIN b = {1, 2} /\ b[1] = claim /\ b[2] = point
    BY <1>3, <1>5, <1>6
  <1>9. b[1].lead = l /\ b[1].source = d /\ b[1].type = p /\ ~b[1].pain
    BY <1>4, <1>8
  <1>10. b[2].lead = l /\ b[2].source = d /\ b[2].type = p /\ b[2].pain
    BY <1>7, <1>8
  <1>11. \A r \in {1, 2} : b[r].lead = l /\ b[r].source = d /\ b[r].type = p
    BY <1>9, <1>10
  <1> QED BY <1>8, <1>9, <1>10, <1>11 DEF b

\* The pain points of a document (research.py: detect_pain).
LEMMA PainRows ==
  ASSUME NEW l \in Candidates, NEW d \in Candidates \cup {0}
  PROVE  Finding(R!detect_pain(l, d), l, {d})
  <1> DEFINE S == R!Text(d) \cap R!Pains
             n == Cardinality(S)
             hits == R!SetToSeq(S)
             blocks == [i \in 1 .. n |-> PainBlock(l, hits[i], d)]
             s == R!FlattenSeq(blocks)
  <1>1. IsFiniteSet(S)
    BY FindsAreFinite, FS_Intersection
  <1>2. n \in Nat
    BY <1>1, FS_CardinalityType
  <1>3. /\ hits \in [1 .. n -> S]
        /\ \A i, j \in 1 .. n : hits[i] = hits[j] => i = j
        /\ \A p \in S : \E i \in 1 .. n : hits[i] = p
    <2>1. Enumerates(hits, S)
      BY <1>1, SetToSeqEnumerates
    <2> HIDE DEF hits
    <2>2. hits \in [1 .. n -> S] /\ DOMAIN hits = 1 .. n
      BY <2>1 DEF Enumerates
    <2> QED BY <2>1, <2>2 DEF Enumerates
  <1>4. R!detect_pain(l, d) = s
    BY ResearchCounts DEF R!detect_pain, PainBlock
  <1> HIDE DEF hits, n
  <1>5. ASSUME NEW i \in 1 .. n
        PROVE  /\ hits[i] \in S /\ blocks[i] = PainBlock(l, hits[i], d)
               /\ blocks[i] \in Seq(ResearchRows) /\ DOMAIN blocks[i] = {1, 2}
               /\ \A r \in {1, 2} : /\ blocks[i][r].lead = l /\ blocks[i][r].source = d
                                    /\ blocks[i][r].type = hits[i]
               /\ ~blocks[i][1].pain /\ blocks[i][2].pain
    <2>1. hits[i] \in S /\ hits[i] \in R!Pains /\ blocks[i] = PainBlock(l, hits[i], d)
      BY <1>3
    <2> DEFINE b == PainBlock(l, hits[i], d)
    <2>2. /\ b \in Seq(ResearchRows) /\ DOMAIN b = {1, 2}
          /\ \A r \in {1, 2} : b[r].lead = l /\ b[r].source = d /\ b[r].type = hits[i]
          /\ ~b[1].pain /\ b[2].pain
      BY <2>1, PainBlockRows
    <2> QED BY <2>1, <2>2
  <1>6. blocks \in Seq(Seq(ResearchRows)) /\ Len(blocks) = n
    <2>1. \A i \in 1 .. n : blocks[i] \in Seq(ResearchRows)
      BY <1>5
    <2> QED BY <1>2, <2>1
  <1> HIDE DEF blocks
  <1>7. PICK off \in [1 .. n -> Nat] : s \in Seq(ResearchRows) /\ BlocksOf(s, blocks, off, n)
    BY <1>6, FlattenBlocks
  <1> HIDE DEF s
  <1>9. ASSUME NEW i \in DOMAIN s
        PROVE  /\ s[i].lead = l /\ s[i].source = d
               /\ s[i].type \in S
               /\ s[i].pain => \E j \in 1 .. n : i = off[j] + 2 /\ s[i].type = hits[j]
    <2>1. PICK j \in 1 .. n : \E r \in DOMAIN blocks[j] : i = off[j] + r
      BY <1>7 DEF BlocksOf
    <2>2. PICK r \in DOMAIN blocks[j] : i = off[j] + r
      BY <2>1
    <2>3. s[i] = blocks[j][r] /\ r \in {1, 2}
      BY <1>5, <1>7, <2>2 DEF BlocksOf
    <2>4. s[i].lead = l /\ s[i].source = d /\ s[i].type = hits[j] /\ (s[i].pain => r = 2)
      BY <1>5, <2>3
    <2> QED BY <1>5, <2>2, <2>4
  <1>10. ASSUME NEW i \in DOMAIN s, NEW k \in DOMAIN s, s[i].pain, s[i] = s[k]
         PROVE  i = k
    <2>1. PICK j \in 1 .. n : i = off[j] + 2 /\ s[i].type = hits[j]
      BY <1>9, <1>10
    <2>2. PICK m \in 1 .. n : k = off[m] + 2 /\ s[k].type = hits[m]
      BY <1>9, <1>10
    <2>3. j = m
      BY <1>3, <1>10, <2>1, <2>2
    <2> QED BY <2>1, <2>2, <2>3
  <1>11. ASSUME NEW p \in S
         PROVE  \E i \in DOMAIN s : s[i].pain /\ s[i].source = d /\ s[i].type = p
    <2>1. PICK j \in 1 .. n : hits[j] = p
      BY <1>3
    <2>2. 2 \in DOMAIN blocks[j] /\ blocks[j][2].pain /\ blocks[j][2].source = d /\ blocks[j][2].type = p
      BY <1>5, <2>1
    <2>3. off[j] + 2 \in DOMAIN s /\ s[off[j] + 2] = blocks[j][2]
      BY <1>7, <2>2 DEF BlocksOf
    <2> QED BY <2>2, <2>3
  <1>12. Finding(s, l, {d})
    <2>1. \A i \in DOMAIN s : /\ s[i].lead = l /\ s[i].source \in {d}
                              /\ s[i].type \in R!Text(s[i].source) \cap Finds
                              /\ s[i].pain => s[i].type \in R!Pains
      BY <1>9 DEF Finds
    <2>2. \A e \in {d} : \A p \in R!Text(e) \cap R!Pains :
            \E i \in DOMAIN s : s[i].pain /\ s[i].source = e /\ s[i].type = p
      BY <1>11
    <2> QED BY <1>7, <1>10, <2>1, <2>2 DEF Finding
  <1> QED BY <1>4, <1>12

\* A document's signals and then its pain points.
LEMMA DocumentRows ==
  ASSUME NEW l \in Candidates, NEW d \in Candidates \cup {0}
  PROVE  Finding(R!extract_signals(l, d) \o R!detect_pain(l, d), l, {d})
  <1> DEFINE s == R!extract_signals(l, d)
             t == R!detect_pain(l, d)
             f == s \o t
  <1>1. /\ s \in Seq(ResearchRows)
        /\ \A i \in DOMAIN s : /\ s[i].lead = l /\ s[i].source = d
                               /\ s[i].type \in R!Text(d) \cap R!SIGNALS /\ ~s[i].pain
    BY SignalRows
  <1>2. Finding(t, l, {d})
    BY PainRows
  <1> HIDE DEF s, t
  <1>3. /\ f \in Seq(ResearchRows)
        /\ \A i \in DOMAIN s : i \in DOMAIN f /\ f[i] = s[i]
        /\ \A r \in DOMAIN t : Len(s) + r \in DOMAIN f /\ f[Len(s) + r] = t[r]
        /\ \A i \in DOMAIN f : i \in DOMAIN s \/ \E r \in DOMAIN t : i = Len(s) + r
    BY <1>1, <1>2, Concatenated DEF Finding
  <1> HIDE DEF f
  <1>4. ASSUME NEW i \in DOMAIN f
        PROVE  /\ f[i].lead = l /\ f[i].source \in {d}
               /\ f[i].type \in R!Text(f[i].source) \cap Finds
               /\ f[i].pain => f[i].type \in R!Pains
               /\ f[i].pain => \E r \in DOMAIN t : i = Len(s) + r /\ t[r] = f[i]
    <2>1. CASE i \in DOMAIN s
      BY <2>1, <1>1, <1>3 DEF Finds
    <2>2. CASE \E r \in DOMAIN t : i = Len(s) + r
      <3>1. PICK r \in DOMAIN t : i = Len(s) + r
        BY <2>2
      <3>2. f[i] = t[r]
        BY <1>3, <3>1
      <3>3. /\ t[r].lead = l /\ t[r].source \in {d}
            /\ t[r].type \in R!Text(t[r].source) \cap Finds
            /\ t[r].pain => t[r].type \in R!Pains
        BY <1>2 DEF Finding
      <3> QED BY <3>1, <3>2, <3>3
    <2> QED BY <1>3, <2>1, <2>2
  <1>5. ASSUME NEW i \in DOMAIN f, NEW j \in DOMAIN f, f[i].pain, f[i] = f[j]
        PROVE  i = j
    <2>1. PICK r \in DOMAIN t : i = Len(s) + r /\ t[r] = f[i]
      BY <1>4, <1>5
    <2>2. PICK q \in DOMAIN t : j = Len(s) + q /\ t[q] = f[j]
      BY <1>4, <1>5
    <2>3. r = q
      BY <1>2, <1>5, <2>1, <2>2 DEF Finding
    <2> QED BY <2>1, <2>2, <2>3
  <1>6. ASSUME NEW e \in {d}, NEW p \in R!Text(e) \cap R!Pains
        PROVE  \E i \in DOMAIN f : f[i].pain /\ f[i].source = e /\ f[i].type = p
    <2>1. PICK r \in DOMAIN t : t[r].pain /\ t[r].source = e /\ t[r].type = p
      BY <1>2 DEF Finding
    <2>2. Len(s) + r \in DOMAIN f /\ f[Len(s) + r] = t[r]
      BY <1>3
    <2> QED BY <2>1, <2>2
  <1>7. \A i \in DOMAIN f : /\ f[i].lead = l /\ f[i].source \in {d}
                            /\ f[i].type \in R!Text(f[i].source) \cap Finds
                            /\ f[i].pain => f[i].type \in R!Pains
    BY <1>4
  <1> QED BY <1>3, <1>5, <1>6, <1>7 DEF Finding, f, s, t

\* Research of a lead in a set of documents.
LEMMA ResearchFinds ==
  ASSUME NEW l \in Candidates, NEW S \in SUBSET (Candidates \cup {0}), R!ResearchAssumption
  PROVE  Finding(R!research_lead(l, S), l, S)
  <1> DEFINE files == R!InOrder(S)
             n == Cardinality(S)
             block(i) == R!extract_signals(l, files[i]) \o R!detect_pain(l, files[i])
             blocks == [i \in 1 .. n |-> block(i)]
             f == R!FlattenSeq(blocks)
  <1>1. S \in SUBSET Nat /\ IsFiniteSet(S)
    <2>1. Candidates \in SUBSET Nat /\ IsFiniteSet(Candidates)
      BY ResearchCounts DEF R!ResearchAssumption
    <2>2. IsFiniteSet(Candidates \cup {0})
      BY <2>1, FS_AddElement
    <2>3. IsFiniteSet(S)
      BY <2>2, FS_Subset
    <2> QED BY <2>1, <2>3
  <1>2. n \in Nat
    BY <1>1, FS_CardinalityType
  <1>3. Enumerates(files, S)
    BY <1>1, InOrderEnumerates
  <1>4. R!research_lead(l, S) = R!FlattenSeq([i \in DOMAIN files |-> block(i)])
    BY DEF R!research_lead
  <1> HIDE DEF files
  <1>5. files \in [1 .. n -> S] /\ DOMAIN files = 1 .. n
    BY <1>3 DEF Enumerates
  <1>6. R!research_lead(l, S) = f
    BY <1>4, <1>5
  <1>7. ASSUME NEW i \in 1 .. n
        PROVE  blocks[i] = block(i) /\ files[i] \in S /\ Finding(blocks[i], l, {files[i]})
    <2>1. files[i] \in S /\ files[i] \in Candidates \cup {0}
      BY <1>5
    <2>2. Finding(block(i), l, {files[i]})
      BY <2>1, DocumentRows
    <2>3. blocks[i] = block(i)
      OBVIOUS
    <2> HIDE DEF block
    <2> QED BY <2>1, <2>2, <2>3
  <1> HIDE DEF block
  <1>8. blocks \in Seq(Seq(ResearchRows)) /\ Len(blocks) = n
    <2>1. \A i \in 1 .. n : block(i) \in Seq(ResearchRows)
      BY <1>7 DEF Finding
    <2> QED BY <1>2, <2>1
  <1> HIDE DEF blocks, n
  <1>9. PICK off \in [1 .. n -> Nat] : f \in Seq(ResearchRows) /\ BlocksOf(f, blocks, off, n)
    BY <1>8, FlattenBlocks
  <1> HIDE DEF f
  <1>10. ASSUME NEW i \in DOMAIN f
         PROVE  \E j \in 1 .. n : \E r \in DOMAIN blocks[j] :
                  i = off[j] + r /\ f[i] = blocks[j][r] /\ f[i].source = files[j]
    <2>1. PICK j \in 1 .. n : \E r \in DOMAIN blocks[j] : i = off[j] + r
      BY <1>9 DEF BlocksOf
    <2>2. PICK r \in DOMAIN blocks[j] : i = off[j] + r
      BY <2>1
    <2>3. f[i] = blocks[j][r]
      BY <1>9, <2>2 DEF BlocksOf
    <2>4. blocks[j][r].source \in {files[j]}
      BY <1>7 DEF Finding
    <2> QED BY <2>2, <2>3, <2>4
  <1>11. ASSUME NEW i \in DOMAIN f
         PROVE  /\ f[i].lead = l /\ f[i].source \in S
                /\ f[i].type \in R!Text(f[i].source) \cap Finds
                /\ f[i].pain => f[i].type \in R!Pains
    <2>1. PICK j \in 1 .. n : \E r \in DOMAIN blocks[j] : f[i] = blocks[j][r] /\ f[i].source = files[j]
      BY <1>10
    <2>2. PICK r \in DOMAIN blocks[j] : f[i] = blocks[j][r]
      BY <2>1
    <2> DEFINE b == blocks[j][r]
    <2>3. /\ b.lead = l /\ b.source \in {files[j]}
          /\ b.type \in R!Text(b.source) \cap Finds
          /\ b.pain => b.type \in R!Pains
      BY <1>7 DEF Finding
    <2> HIDE DEF b
    <2>4. f[i] = b /\ files[j] \in S
      BY <2>2, <1>7 DEF b
    <2> QED BY <2>3, <2>4
  <1>12. ASSUME NEW i \in DOMAIN f, NEW k \in DOMAIN f, f[i].pain, f[i] = f[k]
         PROVE  i = k
    <2>1. PICK j \in 1 .. n : \E r \in DOMAIN blocks[j] :
                  i = off[j] + r /\ f[i] = blocks[j][r] /\ f[i].source = files[j]
      BY <1>10
    <2>2. PICK r \in DOMAIN blocks[j] : i = off[j] + r /\ f[i] = blocks[j][r]
      BY <2>1
    <2>3. PICK m \in 1 .. n : \E q \in DOMAIN blocks[m] :
                  k = off[m] + q /\ f[k] = blocks[m][q] /\ f[k].source = files[m]
      BY <1>10
    <2>4. PICK q \in DOMAIN blocks[m] : k = off[m] + q /\ f[k] = blocks[m][q]
      BY <2>3
    <2>5. j = m
      BY <1>3, <1>5, <1>12, <2>1, <2>3 DEF Enumerates
    <2>6. r = q
      BY <1>7, <1>12, <2>2, <2>4, <2>5 DEF Finding
    <2> QED BY <2>2, <2>4, <2>5, <2>6
  <1>13. ASSUME NEW d \in S, NEW p \in R!Text(d) \cap R!Pains
         PROVE  \E i \in DOMAIN f : f[i].pain /\ f[i].source = d /\ f[i].type = p
    <2>1. PICK j \in 1 .. n : files[j] = d
      BY <1>3, <1>5 DEF Enumerates
    <2>2. d \in {files[j]} /\ Finding(blocks[j], l, {files[j]})
      BY <2>1, <1>7
    <2>3. PICK r \in DOMAIN blocks[j] :
                  blocks[j][r].pain /\ blocks[j][r].source = d /\ blocks[j][r].type = p
      BY <2>2 DEF Finding
    <2>4. off[j] + r \in DOMAIN f /\ f[off[j] + r] = blocks[j][r]
      BY <1>9 DEF BlocksOf
    <2> QED BY <2>3, <2>4
  <1> QED BY <1>6, <1>9, <1>11, <1>12, <1>13 DEF Finding

\* How a lead begins: its row and the claims of where it is from.
LEMMA BirthRows ==
  ASSUME NEW l \in Candidates, NEW src \in {R!Roster, R!Manual}
  PROVE  LET b == R!Birth(l, src) IN
         /\ b \in Seq(ResearchRows) /\ DOMAIN b = 1 .. 3
         /\ b[1].type = "lead"
         /\ \A r \in 1 .. 3 : /\ b[r].lead = l /\ b[r].source = src /\ ~b[r].pain
                              /\ b[r].type \in {"lead", "provenance", "contact_info"}
  <1> DEFINE b == R!Birth(l, src)
             row(t) == [lead |-> l, type |-> t, source |-> src, pain |-> FALSE]
  <1>1. b = <<row("lead"), row("provenance"), row("contact_info")>>
    BY DEF R!Birth, R!Row
  <1>2. ASSUME NEW t \in {"lead", "provenance", "contact_info"}
        PROVE  row(t) \in ResearchRows
    <2>1. t \in RowKinds /\ src \in RowSources
      BY DEF RowKinds, RowSources, Finds, R!SIGNALS
    <2> QED BY <2>1 DEF ResearchRows
  <1>3. \A t : row(t).lead = l /\ row(t).type = t /\ row(t).source = src /\ ~row(t).pain
    OBVIOUS
  <1> HIDE DEF row, b
  <1>4. b \in Seq(ResearchRows) /\ DOMAIN b = 1 .. 3
    BY <1>1, <1>2
  <1>5. b[1] = row("lead") /\ b[2] = row("provenance") /\ b[3] = row("contact_info")
    BY <1>1
  <1>6. \A r \in 1 .. 3 : r = 1 \/ r = 2 \/ r = 3
    OBVIOUS
  <1>7. \A r \in 1 .. 3 : \E t \in {"lead", "provenance", "contact_info"} : b[r] = row(t)
    BY <1>5, <1>6
  <1>8. \A r \in 1 .. 3 : /\ b[r].lead = l /\ b[r].source = src /\ ~b[r].pain
                          /\ b[r].type \in {"lead", "provenance", "contact_info"}
    BY <1>3, <1>7
  <1>9. b[1].type = "lead"
    BY <1>3, <1>5
  <1> QED BY <1>4, <1>8, <1>9 DEF b

-----------------------------------------------------------------------------
(***************************************************************************)
(* What a score comes to.                                                  *)
(***************************************************************************)
\* The greatest of a set of numbers.
LEMMA GreatestIs ==
  ASSUME NEW S \in SUBSET Int, NEW m \in S, \A x \in S : x <= m
  PROVE  R!Max(S) = m
  <1>1. \A x \in S : (\A y \in S : x >= y) <=> x = m
    OBVIOUS
  <1>2. R!Max(S) = CHOOSE x \in S : \A y \in S : x >= y
    BY DEF R!Max
  <1> QED BY <1>1, <1>2

\* What n sources of observed evidence are worth.
Heard(n) == IF n = 0 THEN 0 ELSE 100 * (70 + R!Capped(10 * (n - 1), 30))

\* What n pain points are worth, with one about manual entry among them or without.
Hurt(n, entry) ==
  IF n = 0 THEN 0
  ELSE R!Capped((IF entry THEN 2400 ELSE 1365) + R!Capped(500 * (n - 1), 2000), 10000)

\* The more sources tell of something, the more it is worth; and so with pain points.
LEMMA MoreIsWorthMore ==
  ASSUME NEW m \in Nat, NEW n \in Nat, m <= n
  PROVE  /\ Heard(m) \in Int /\ Heard(n) \in Int /\ Heard(m) <= Heard(n)
         /\ \A d \in BOOLEAN, e \in BOOLEAN : (d => e) =>
              /\ Hurt(m, d) \in Int /\ Hurt(n, e) \in Int /\ Hurt(m, d) <= Hurt(n, e)
  <1>1. Heard(m) \in Int /\ Heard(n) \in Int /\ Heard(m) <= Heard(n)
    <2> DEFINE few(k) == IF 10 * (k - 1) > 30 THEN 30 ELSE 10 * (k - 1)
    <2>1. \A k \in Nat : Heard(k) = IF k = 0 THEN 0 ELSE 100 * (70 + few(k))
      BY DEF Heard, R!Capped
    <2>2. \A k \in Nat \ {0} : few(k) \in Int /\ few(k) >= 0
      OBVIOUS
    <2>3. m # 0 => few(m) <= few(n)
      OBVIOUS
    <2> HIDE DEF few
    <2>4. ASSUME NEW k \in Nat PROVE Heard(k) \in Int /\ Heard(k) >= 0
      <3>1. CASE k = 0
        BY <2>1, <3>1
      <3>2. CASE k # 0
        <4>1. few(k) \in Int /\ few(k) >= 0
          BY <2>2, <3>2
        <4> QED BY <2>1, <3>2, <4>1
      <3> QED BY <3>1, <3>2
    <2>5. CASE m = 0
      <3>1. Heard(m) = 0
        BY <2>1, <2>5
      <3> QED BY <2>4, <3>1
    <2>6. CASE m # 0
      <3>1. n # 0 /\ few(m) \in Int /\ few(n) \in Int /\ few(m) <= few(n)
        BY <2>2, <2>3, <2>6
      <3>2. Heard(m) = 100 * (70 + few(m)) /\ Heard(n) = 100 * (70 + few(n))
        BY <2>1, <2>6, <3>1
      <3> QED BY <2>4, <3>1, <3>2
    <2> QED BY <2>5, <2>6
  <1>2. ASSUME NEW d \in BOOLEAN, NEW e \in BOOLEAN, d => e
        PROVE  Hurt(m, d) \in Int /\ Hurt(n, e) \in Int /\ Hurt(m, d) <= Hurt(n, e)
    BY <1>2 DEF Hurt, R!Capped
  <1> QED BY <1>1, <1>2

\* The sources of the rows of some types.
SourcesOf(rows, types) == {rows[i].source : i \in {k \in DOMAIN rows : rows[k].type \in types}}

\* The score of a family of signals depends on how many sources tell of it
\* (qualification.py: _signal_score).
LEMMA SignalWorth ==
  ASSUME NEW rows, NEW types, \A i \in DOMAIN rows : rows[i].tier = "OBSERVED",
         IsFiniteSet(SourcesOf(rows, types))
  PROVE  R!SignalScore(rows, types) = Heard(Cardinality(SourcesOf(rows, types)))
  <1> DEFINE hits == {r \in R!ToSet(rows) : r.type \in types}
             sources == {r.source : r \in hits}
             tiers == {R!TIER_CONFIDENCE[r.tier] : r \in hits}
             n == Cardinality(SourcesOf(rows, types))
  <1>1. R!ToSet(rows) = {rows[i] : i \in DOMAIN rows}
    BY DEF R!ToSet
  <1>2. sources = SourcesOf(rows, types)
    BY <1>1 DEF SourcesOf
  <1>3. \A r \in hits : r.tier = "OBSERVED"
    BY <1>1
  <1>4. R!TIER_CONFIDENCE["OBSERVED"] = 70
    BY DEF R!TIER_CONFIDENCE
  <1>5. R!SignalScore(rows, types)
          = IF hits = {} THEN 0
            ELSE R!Capped(100 * (R!Max(tiers) + R!Capped(10 * (R!Cardinality(sources) - 1), 30)), 10000)
    BY DEF R!SignalScore
  <1>6. n \in Nat /\ R!Cardinality(sources) = n
    BY <1>2, ResearchCounts, FS_CardinalityType
  <1>7. hits = {} <=> sources = {}
    OBVIOUS
  <1>8. n = 0 <=> hits = {}
    BY <1>2, <1>7, FS_EmptySet
  <1>9. CASE hits = {}
    BY <1>5, <1>8, <1>9 DEF Heard
  <1>10. CASE hits # {}
    <2>1. tiers = {70}
      BY <1>3, <1>4, <1>10
    <2>3. R!Max({70}) = 70
      BY GreatestIs
    <2> HIDE DEF hits, sources, tiers, n
    <2>2. R!Max(tiers) = 70
      BY <2>1, <2>3
    <2> DEFINE more == R!Capped(10 * (n - 1), 30)
    <2>4. more \in Int /\ more <= 30
      BY <1>6 DEF R!Capped
    <2>5. R!SignalScore(rows, types) = R!Capped(100 * (70 + more), 10000)
      BY <1>5, <1>6, <1>10, <2>2
    <2>6. Heard(n) = 100 * (70 + more)
      BY <1>6, <1>8, <1>10 DEF Heard
    <2> HIDE DEF more
    <2>7. R!Capped(100 * (70 + more), 10000) = 100 * (70 + more)
      BY <2>4 DEF R!Capped
    <2>8. R!SignalScore(rows, types) = Heard(n)
      BY <2>5, <2>6, <2>7
    <2> QED BY <2>8 DEF n
  <1> QED BY <1>9, <1>10

\* The two pain points, by the rubric.
LEMMA OpportunityScores ==
  /\ R!opportunity_score(R!PAIN_PATTERNS["entry"]) = 2400
  /\ R!opportunity_score(R!PAIN_PATTERNS["knowledge"]) = 1365
  <1> DEFINE e == R!PAIN_PATTERNS["entry"]
             k == R!PAIN_PATTERNS["knowledge"]
  <1>1. /\ e.severity = 4 /\ e.frequency = 5 /\ e.revenue_impact = 3
        /\ e.automation_potential = 5 /\ e.implementation_difficulty = 2
    BY DEF R!PAIN_PATTERNS
  <1>2. /\ k.severity = 4 /\ k.frequency = 4 /\ k.revenue_impact = 4
        /\ k.automation_potential = 4 /\ k.implementation_difficulty = 3
    BY DEF R!PAIN_PATTERNS
  <1> HIDE DEF e, k
  <1>3. R!Max({1, 2}) = 2 /\ R!Max({1, 3}) = 3
    BY GreatestIs
  <1>4. (4 * 5 * 3 * 5 * 10000) \div (625 * 2) = 2400
    OBVIOUS
  <1>5. (4 * 4 * 4 * 4 * 10000) \div (625 * 3) = 1365
    OBVIOUS
  <1>6. R!opportunity_score(e) = R!Capped((4 * 5 * 3 * 5 * 10000) \div (625 * R!Max({1, 2})), 10000)
    BY <1>1 DEF R!opportunity_score
  <1>7. R!opportunity_score(k) = R!Capped((4 * 4 * 4 * 4 * 10000) \div (625 * R!Max({1, 3})), 10000)
    BY <1>2 DEF R!opportunity_score
  <1>8. R!opportunity_score(e) = 2400 /\ R!opportunity_score(k) = 1365
    BY <1>3, <1>4, <1>5, <1>6, <1>7 DEF R!Capped
  <1> QED BY <1>8 DEF e, k

\* The score of the pain points, on how many there are and whether one is about manual entry
\* (qualification.py: score_pain).
LEMMA PainWorth ==
  ASSUME NEW n \in Nat, NEW types \in [1 .. n -> R!Pains]
  PROVE  R!score_pain([i \in 1 .. n |-> R!PAIN_PATTERNS[types[i]]])
           = Hurt(n, \E i \in 1 .. n : types[i] = "entry")
  <1> DEFINE points == [i \in 1 .. n |-> R!PAIN_PATTERNS[types[i]]]
             worth == {R!opportunity_score(p) : p \in R!ToSet(points)}
             entry == \E i \in 1 .. n : types[i] = "entry"
  <1>1. Len(points) = n /\ DOMAIN points = 1 .. n
    OBVIOUS
  <1>2. R!ToSet(points) = {R!PAIN_PATTERNS[types[i]] : i \in 1 .. n}
    BY DEF R!ToSet
  <1>3. \A i \in 1 .. n : types[i] = "entry" \/ types[i] = "knowledge"
    BY FindsAreFinite
  <1>4. worth = {R!opportunity_score(R!PAIN_PATTERNS[types[i]]) : i \in 1 .. n}
    BY <1>2
  <1>5. R!score_pain(points) =
          IF points = <<>> THEN 0
          ELSE R!Capped(R!Max(worth) + R!Capped(500 * (Len(points) - 1), 2000), 10000)
    BY DEF R!score_pain
  <1>6. CASE n = 0
    <2>1. points = <<>>
      BY <1>6
    <2> QED BY <1>5, <1>6, <2>1 DEF Hurt
  <1>7. CASE n # 0
    <2>1. points # <<>> /\ 1 \in 1 .. n
      BY <1>1, <1>7
    <2>2. \A i \in 1 .. n : R!opportunity_score(R!PAIN_PATTERNS[types[i]])
                              = IF types[i] = "entry" THEN 2400 ELSE 1365
      BY <1>3, OpportunityScores
    <2> DEFINE value(i) == R!opportunity_score(R!PAIN_PATTERNS[types[i]])
    <2>6. worth = {value(i) : i \in 1 .. n}
      BY <1>4
    <2>7. \A i \in 1 .. n : value(i) = IF types[i] = "entry" THEN 2400 ELSE 1365
      BY <2>2
    <2> HIDE DEF worth, points, value
    <2>3. worth \in SUBSET {2400, 1365} /\ (entry => 2400 \in worth)
      <3>1. \A x \in worth : x \in {2400, 1365}
        BY <2>6, <2>7
      <3>2. entry => 2400 \in worth
        BY <2>6, <2>7
      <3> QED BY <3>1, <3>2
    <2>4. ~entry => worth = {1365}
      <3>1. value(1) \in worth
        BY <2>1, <2>6
      <3>2. ~entry => \A x \in worth : x = 1365
        BY <2>6, <2>7
      <3> QED BY <3>1, <3>2
    <2> HIDE DEF entry
    <2>5. R!Max(worth) = IF entry THEN 2400 ELSE 1365
      <3>1. CASE entry
        <4>1. worth \in SUBSET Int /\ 2400 \in worth /\ \A x \in worth : x <= 2400
          BY <2>3, <3>1
        <4> QED BY <3>1, <4>1, GreatestIs
      <3>2. CASE ~entry
        <4>1. R!Max({1365}) = 1365
          BY GreatestIs
        <4>2. worth = {1365}
          BY <2>4, <3>2
        <4> QED BY <3>2, <4>1, <4>2
      <3> QED BY <3>1, <3>2
    <2>8. R!score_pain(points)
            = R!Capped((IF entry THEN 2400 ELSE 1365) + R!Capped(500 * (n - 1), 2000), 10000)
      BY <1>1, <1>5, <2>1, <2>5
    <2> QED BY <1>7, <2>8 DEF Hurt, entry, points
  <1> QED BY <1>6, <1>7

\* The tier of observed evidence.
LEMMA TierWorth ==
  ASSUME NEW rows, \A i \in DOMAIN rows : rows[i].tier = "OBSERVED"
  PROVE  R!TIER_CONFIDENCE[R!corroborated_tier(rows)] = IF DOMAIN rows = {} THEN 15 ELSE 70
  <1> DEFINE Rank(r) == CHOOSE i \in 1 .. 5 : R!CLAIM_TIER_ORDER[i] = r.tier
             ranks == {1} \cup {Rank(r) : r \in R!ToSet(rows)}
             best == R!CLAIM_TIER_ORDER[R!Max(ranks)]
  <1>1. R!ToSet(rows) = {rows[i] : i \in DOMAIN rows}
    BY DEF R!ToSet
  <1>2. \A i \in 1 .. 5 : R!CLAIM_TIER_ORDER[i] = "OBSERVED" <=> i = 3
    BY DEF R!CLAIM_TIER_ORDER
  <1>3. \A r \in R!ToSet(rows) : Rank(r) = 3
    BY <1>1, <1>2
  <1>4. R!CLAIM_TIER_ORDER[1] = "CLAIM" /\ R!CLAIM_TIER_ORDER[3] = "OBSERVED"
    BY DEF R!CLAIM_TIER_ORDER
  <1>5. best # "CLIENT_VERIFIED" => R!corroborated_tier(rows) = best
    BY DEF R!corroborated_tier
  <1>6. CASE DOMAIN rows = {}
    <2>1. ranks = {1}
      BY <1>1, <1>6
    <2>4. R!Max({1}) = 1
      BY GreatestIs
    <2> HIDE DEF ranks
    <2>2. R!Max(ranks) = 1
      BY <2>1, <2>4
    <2>3. best = "CLAIM"
      BY <1>4, <2>2
    <2> QED BY <1>5, <1>6, <2>3 DEF R!TIER_CONFIDENCE
  <1>7. CASE DOMAIN rows # {}
    <2> HIDE DEF Rank
    <2>1. ranks = {1, 3}
      <3>1. R!ToSet(rows) # {}
        BY <1>1, <1>7
      <3>2. {Rank(r) : r \in R!ToSet(rows)} = {3}
        BY <1>3, <3>1
      <3> QED BY <3>2
    <2>4. R!Max({1, 3}) = 3
      BY GreatestIs
    <2> HIDE DEF ranks
    <2>2. R!Max(ranks) = 3
      BY <2>1, <2>4
    <2>3. best = "OBSERVED"
      BY <1>4, <2>2
    <2> QED BY <1>5, <1>7, <2>3 DEF R!TIER_CONFIDENCE
  <1> QED BY <1>6, <1>7

\* What the company is worth by its profile, whatever was found.
Fit == R!score_icp_fit(R!Company, R!ICPs)

\* Whatever the fit is, it is the same for all: the company and the profiles do not change.
LEMMA FitIsNumber == Fit \in Int
  <1> DEFINE c == R!Company
             icp == [industry |-> "brokerage", min_team_size |-> 20, geography |-> "Austin", rank |-> 2]
  <1>1. c.industry = "brokerage" /\ c.team_size = 12 /\ c.geography = ""
    BY DEF R!Company
  <1>2. /\ icp.industry = "brokerage" /\ icp.min_team_size = 20
        /\ icp.geography = "Austin" /\ icp.rank = 2
    OBVIOUS
  <1>3. R!ICPs = {icp}
    BY DEF R!ICPs
  <1> HIDE DEF c, icp
  <1>4. R!Max({0, 2 - 1}) = 1
    BY GreatestIs
  <1>5. (2500 * 12) \div 20 = 1500 /\ ((5500 + 1500 + 1000) * (100 - 5)) \div 100 = 7600
    OBVIOUS
  <1>6. R!Capped(5 * 1, 30) = 5
    BY DEF R!Capped
  <1> DEFINE Team(i) == IF i.min_team_size > 0
                 THEN IF c.team_size >= i.min_team_size THEN 2500
                      ELSE (2500 * c.team_size) \div i.min_team_size
                 ELSE IF c.team_size > 0 THEN 1250 ELSE 0
             Place(i) == IF "" \in {i.geography, c.geography} THEN 1000
                  ELSE IF i.geography = c.geography THEN 2000 ELSE 0
             Suits(i) == (IF i.industry = c.industry THEN 5500 ELSE 0) + Team(i) + Place(i)
             Less(i) == (Suits(i) * (100 - R!Capped(5 * R!Max({0, i.rank - 1}), 30))) \div 100
  <1>7. Fit = R!Capped(R!Max({0} \cup {Less(i) : i \in R!ICPs}), 10000)
    BY DEF Fit, R!score_icp_fit, c
  <1>8. Team(icp) = 1500 /\ Place(icp) = 1000
    <2>1. Team(icp) = (2500 * 12) \div 20
      <3>3. icp.min_team_size = 20
        BY <1>2
      <3>4. c.team_size = 12
        BY <1>1
      <3>1. icp.min_team_size > 0 /\ ~(c.team_size >= icp.min_team_size)
        BY <3>3, <3>4
      <3>2. Team(icp) = (2500 * c.team_size) \div icp.min_team_size
        BY <3>1
      <3> HIDE DEF Team
      <3> QED BY <3>2, <3>3, <3>4
    <2>2. "" \in {icp.geography, c.geography}
      BY <1>1
    <2>3. Place(icp) = 1000
      BY <2>2
    <2> HIDE DEF Team, Place
    <2> QED BY <2>1, <2>3, <1>5
  <1>13. icp.industry = c.industry
    BY <1>1, <1>2
  <1>14. Suits(icp) = (IF icp.industry = c.industry THEN 5500 ELSE 0) + Team(icp) + Place(icp)
    OBVIOUS
  <1> HIDE DEF Team, Place, Suits
  <1>9. Suits(icp) = 8000
    BY <1>8, <1>13, <1>14
  <1>10. Less(icp) = 7600
    <2>1. Less(icp) = (Suits(icp) * (100 - R!Capped(5 * R!Max({0, icp.rank - 1}), 30))) \div 100
      OBVIOUS
    <2>2. R!Max({0, icp.rank - 1}) = 1
      BY <1>2, <1>4
    <2>3. Less(icp) = (8000 * (100 - 5)) \div 100
      BY <1>6, <1>9, <2>1, <2>2
    <2>4. (8000 * (100 - 5)) \div 100 = 7600
      OBVIOUS
    <2> QED BY <2>3, <2>4
  <1> HIDE DEF Less
  <1>11. {0} \cup {Less(i) : i \in R!ICPs} = {0, 7600}
    BY <1>3, <1>10
  <1>12. R!Max({0, 7600}) = 7600
    BY GreatestIs
  <1> QED BY <1>7, <1>11, <1>12 DEF R!Capped

\* What each of the six comes to, but for the profile.
Marks(pain, urgency, budget, reach, tier) ==
  [pain |-> pain, urgency |-> urgency, budget |-> budget, reach |-> reach, tier |-> tier]

\* No mark of v is above that of w.
Below(v, w) ==
  \A k \in {"pain", "urgency", "budget", "reach", "tier"} :
    v[k] \in Int /\ w[k] \in Int /\ v[k] <= w[k]

\* The weighted sum of the marks.
Weighed(w) ==
  (25 * Fit + 25 * w.pain + 15 * w.urgency + 15 * w.budget
     + 10 * R!Capped(w.reach + 2500, 10000) + 10 * 100 * w.tier) \div 100

\* No mark lower, no score lower.
LEMMA WeighedGrows ==
  ASSUME NEW v, NEW w, Below(v, w)
  PROVE  Weighed(v) \in Int /\ Weighed(v) <= Weighed(w)
  <1> DEFINE c(x) == R!Capped(x.reach + 2500, 10000)
             s(x) == 25 * Fit + 25 * x.pain + 15 * x.urgency + 15 * x.budget + 10 * c(x)
                       + 10 * 100 * x.tier
  <1>1. /\ v.pain \in Int /\ w.pain \in Int /\ v.pain <= w.pain
        /\ v.urgency \in Int /\ w.urgency \in Int /\ v.urgency <= w.urgency
        /\ v.budget \in Int /\ w.budget \in Int /\ v.budget <= w.budget
        /\ v.reach \in Int /\ w.reach \in Int /\ v.reach <= w.reach
        /\ v.tier \in Int /\ w.tier \in Int /\ v.tier <= w.tier
    BY DEF Below
  <1>2. c(v) \in Int /\ c(w) \in Int /\ c(v) <= c(w)
    BY <1>1 DEF R!Capped
  <1> HIDE DEF c
  <1>3. s(v) \in Int /\ s(w) \in Int /\ s(v) <= s(w)
    BY <1>1, <1>2, FitIsNumber
  <1>4. Weighed(v) = s(v) \div 100 /\ Weighed(w) = s(w) \div 100
    BY DEF Weighed, c
  <1> HIDE DEF s
  <1>5. s(v) \div 100 \in Int /\ s(v) \div 100 <= s(w) \div 100
    BY <1>3
  <1> QED BY <1>4, <1>5

-----------------------------------------------------------------------------
(***************************************************************************)
(* What a lead deserves.                                                   *)
(***************************************************************************)
\* What may be found, in any document.
Findings == [type : Finds, source : Candidates \cup {0}, tier : {"OBSERVED"}]

\* There are finitely many.
LEMMA FindingsAreFinite ==
  ASSUME R!ResearchAssumption
  PROVE  /\ Candidates \in SUBSET (Nat \ {0}) /\ IsFiniteSet(Candidates)
         /\ IsFiniteSet(RowSources) /\ IsFiniteSet(Findings)
  <1>1. Candidates \in SUBSET (Nat \ {0}) /\ IsFiniteSet(Candidates)
    BY ResearchCounts DEF R!ResearchAssumption
  <1>2. IsFiniteSet(Candidates \cup {0})
    BY <1>1, FS_AddElement
  <1>3. IsFiniteSet(((Candidates \cup {0}) \cup {R!Roster}) \cup {R!Manual})
    BY <1>2, FS_AddElement
  <1>4. RowSources = ((Candidates \cup {0}) \cup {R!Roster}) \cup {R!Manual}
    BY DEF RowSources
  <1> DEFINE P == Finds \X (Candidates \cup {0})
             f == [r \in Findings |-> <<r.type, r.source>>]
  <1>5. IsFiniteSet(P)
    BY <1>2, FindsAreFinite, FS_Product
  <1>6. f \in [Findings -> P]
    BY DEF Findings
  <1>7. \A a, b \in Findings : f[a] = f[b] => a = b
    BY DEF Findings
  <1>8. f \in Injection(Findings, P)
    BY <1>6, <1>7 DEF Injection, IsInjective
  <1>9. IsFiniteSet(Findings)
    BY <1>5, <1>8, FS_Injection
  <1> QED BY <1>1, <1>3, <1>4, <1>9

\* What the roster says of how to reach a lead.
RosterRow == [type |-> "contact_info", source |-> R!Roster, tier |-> "OBSERVED"]

\* Who tells of some types, in what was found; and the pain points of it.
Tell(H, types) == {r.source : r \in {x \in H : x.type \in types \cap R!SIGNALS}}

\* The pain points of what was found.
Ache(H) == {r \in H : r.type \in R!Pains}

\* What a lead is worth of which H was found.
Worth(H) ==
  R!Score(R!Company, R!ICPs, R!SetToSeq({r \in H : r.type \in R!SIGNALS} \cup {RosterRow}),
          [i \in DOMAIN R!SetToSeq(Ache(H)) |-> R!PAIN_PATTERNS[R!SetToSeq(Ache(H))[i].type]], TRUE)

\* The families of signals.
Urgency == {"urgency_signal", "hiring_signal"}
Budget == {"budget_signal", "size_signal"}
Contact == {"contact_info"}

\* A score is the weighted sum of the marks (qualification.py: evaluate).
LEMMA ScoreIsWeighed ==
  ASSUME NEW rows, NEW points
  PROVE  R!Score(R!Company, R!ICPs, rows, points, TRUE)
           = Weighed(Marks(R!score_pain(points), R!SignalScore(rows, Urgency), R!SignalScore(rows, Budget),
                     R!SignalScore(rows, Contact), R!TIER_CONFIDENCE[R!corroborated_tier(rows)]))
  BY DEF R!Score, Weighed, Marks, Fit, Urgency, Budget, Contact

\* The sources of the rows listed from a set.
LEMMA ListedSources ==
  ASSUME NEW A, IsFiniteSet(A), NEW types
  PROVE  SourcesOf(R!SetToSeq(A), types) = {r.source : r \in {x \in A : x.type \in types}}
  <1> DEFINE s == R!SetToSeq(A)
  <1>1. Enumerates(s, A)
    BY SetToSeqEnumerates
  <1> HIDE DEF s
  <1>2. /\ \A i \in DOMAIN s : s[i] \in A
        /\ \A x \in A : \E i \in DOMAIN s : s[i] = x
    BY <1>1 DEF Enumerates
  <1>3. \A y \in SourcesOf(s, types) : y \in {r.source : r \in {x \in A : x.type \in types}}
    BY <1>2 DEF SourcesOf
  <1>4. \A y \in {r.source : r \in {x \in A : x.type \in types}} : y \in SourcesOf(s, types)
    BY <1>2 DEF SourcesOf
  <1> QED BY <1>3, <1>4 DEF s

\* Who tells of something, and what was found, are finite sets of theirs.
LEMMA TellIsFinite ==
  ASSUME R!ResearchAssumption, NEW H \in SUBSET Findings, NEW types
  PROVE  /\ Tell(H, types) \in SUBSET (Candidates \cup {0}) /\ IsFiniteSet(Tell(H, types))
         /\ IsFiniteSet(Ache(H)) /\ IsFiniteSet(H)
  <1>1. IsFiniteSet(Candidates \cup {0})
    BY FindingsAreFinite, FS_AddElement
  <1>2. Tell(H, types) \in SUBSET (Candidates \cup {0})
    BY DEF Tell, Findings
  <1>3. Ache(H) \in SUBSET Findings
    BY DEF Ache
  <1> QED BY <1>1, <1>2, <1>3, FindingsAreFinite, FS_Subset

\* The worth, counted.
LEMMA WorthIs ==
  ASSUME R!ResearchAssumption, NEW H \in SUBSET Findings
  PROVE  Worth(H) = Weighed(Marks(Hurt(Cardinality(Ache(H)), \E r \in H : r.type = "entry"),
                            Heard(Cardinality(Tell(H, Urgency))),
                            Heard(Cardinality(Tell(H, Budget))),
                            Heard(Cardinality(Tell(H, Contact) \cup {R!Roster})), 70))
  <1> DEFINE A == {r \in H : r.type \in R!SIGNALS} \cup {RosterRow}
             rows == R!SetToSeq(A)
             pains == R!SetToSeq(Ache(H))
             n == Cardinality(Ache(H))
             points == [i \in DOMAIN pains |-> R!PAIN_PATTERNS[pains[i].type]]
             types == [i \in 1 .. n |-> pains[i].type]
  <1>1. IsFiniteSet(H) /\ IsFiniteSet(Ache(H)) /\ n \in Nat
    BY TellIsFinite, FS_CardinalityType
  <1>2. IsFiniteSet(A)
    <2>1. {r \in H : r.type \in R!SIGNALS} \in SUBSET H
      OBVIOUS
    <2>2. IsFiniteSet({r \in H : r.type \in R!SIGNALS})
      BY <1>1, <2>1, FS_Subset
    <2> QED BY <2>2, FS_AddElement
  <1>3. Enumerates(rows, A) /\ Enumerates(pains, Ache(H))
    BY <1>1, <1>2, SetToSeqEnumerates
  <1>4. Worth(H) = R!Score(R!Company, R!ICPs, rows, points, TRUE)
    BY DEF Worth
  <1>5. \A kinds : SourcesOf(rows, kinds) = {r.source : r \in {x \in A : x.type \in kinds}}
    BY <1>2, ListedSources
  <1> HIDE DEF rows, pains
  <1>6. /\ RosterRow.type = "contact_info" /\ RosterRow.source = R!Roster
        /\ RosterRow.tier = "OBSERVED"
    BY DEF RosterRow
  <1>7. \A i \in DOMAIN rows : rows[i].tier = "OBSERVED"
    <2>1. \A x \in A : x.tier = "OBSERVED"
      BY <1>6 DEF Findings
    <2> HIDE DEF A
    <2> QED BY <1>3, <2>1 DEF Enumerates
  <1>8. DOMAIN rows # {}
    BY <1>3 DEF Enumerates
  <1>9. SourcesOf(rows, Urgency) = Tell(H, Urgency)
    BY <1>5, <1>6 DEF Tell, Urgency
  <1>10. SourcesOf(rows, Budget) = Tell(H, Budget)
    BY <1>5, <1>6 DEF Tell, Budget
  <1>11. SourcesOf(rows, Contact) = Tell(H, Contact) \cup {R!Roster}
    <2> DEFINE heard == {r.source : r \in {x \in A : x.type \in Contact}}
    <2>1. \A y \in heard : y \in Tell(H, Contact) \cup {R!Roster}
      BY <1>6 DEF Tell, Contact
    <2>2. \A y \in Tell(H, Contact) \cup {R!Roster} : y \in heard
      BY <1>6 DEF Tell, Contact
    <2> HIDE DEF heard
    <2>3. heard = Tell(H, Contact) \cup {R!Roster}
      BY <2>1, <2>2
    <2> QED BY <1>5, <2>3 DEF heard
  <1>12. /\ IsFiniteSet(Tell(H, Urgency)) /\ IsFiniteSet(Tell(H, Budget))
         /\ IsFiniteSet(Tell(H, Contact) \cup {R!Roster})
    BY TellIsFinite, FS_AddElement
  <1>13. /\ R!SignalScore(rows, Urgency) = Heard(Cardinality(Tell(H, Urgency)))
         /\ R!SignalScore(rows, Budget) = Heard(Cardinality(Tell(H, Budget)))
         /\ R!SignalScore(rows, Contact) = Heard(Cardinality(Tell(H, Contact) \cup {R!Roster}))
    BY <1>7, <1>9, <1>10, <1>11, <1>12, SignalWorth
  <1>14. R!TIER_CONFIDENCE[R!corroborated_tier(rows)] = 70
    BY <1>7, <1>8, TierWorth
  <1>15. DOMAIN pains = 1 .. n /\ \A i \in 1 .. n : pains[i] \in Ache(H)
    BY <1>3 DEF Enumerates
  <1>16. types \in [1 .. n -> R!Pains]
    BY <1>15 DEF Ache
  <1>17. points = [i \in 1 .. n |-> R!PAIN_PATTERNS[types[i]]]
    BY <1>15
  <1>18. (\E i \in 1 .. n : types[i] = "entry") <=> (\E r \in H : r.type = "entry")
    <2>1. ASSUME NEW i \in 1 .. n, types[i] = "entry" PROVE \E r \in H : r.type = "entry"
      BY <1>15, <2>1 DEF Ache
    <2>2. ASSUME NEW r \in H, r.type = "entry" PROVE \E i \in 1 .. n : types[i] = "entry"
      <3>1. r \in Ache(H)
        BY <2>2, FindsAreFinite DEF Ache
      <3>2. PICK i \in 1 .. n : pains[i] = r
        BY <1>3, <1>15, <3>1 DEF Enumerates
      <3> QED BY <2>2, <3>2
    <2> QED BY <2>1, <2>2
  <1> HIDE DEF types, points, n
  <1>19. R!score_pain([i \in 1 .. n |-> R!PAIN_PATTERNS[types[i]]])
           = Hurt(n, \E i \in 1 .. n : types[i] = "entry")
    BY <1>1, <1>16, PainWorth
  <1>20. R!score_pain(points) = Hurt(n, \E r \in H : r.type = "entry")
    BY <1>17, <1>18, <1>19
  <1>21. R!Score(R!Company, R!ICPs, rows, points, TRUE)
           = Weighed(Marks(R!score_pain(points), R!SignalScore(rows, Urgency), R!SignalScore(rows, Budget),
                     R!SignalScore(rows, Contact), R!TIER_CONFIDENCE[R!corroborated_tier(rows)]))
    BY ScoreIsWeighed
  <1> QED BY <1>4, <1>13, <1>14, <1>20, <1>21 DEF n

\* The more is found, the more a lead is worth.
LEMMA WorthGrows ==
  ASSUME R!ResearchAssumption, NEW H1 \in SUBSET Findings, NEW H2 \in SUBSET Findings, H1 \subseteq H2
  PROVE  Worth(H1) \in Int /\ Worth(H1) <= Worth(H2)
  <1> DEFINE p(H) == Cardinality(Ache(H))
             e(H) == \E r \in H : r.type = "entry"
             u(H) == Cardinality(Tell(H, Urgency))
             b(H) == Cardinality(Tell(H, Budget))
             c(H) == Cardinality(Tell(H, Contact) \cup {R!Roster})
  <1>1. ASSUME NEW A, NEW B, IsFiniteSet(B), A \subseteq B
        PROVE  Cardinality(A) \in Nat /\ Cardinality(B) \in Nat /\ Cardinality(A) <= Cardinality(B)
    <2>1. IsFiniteSet(A) /\ Cardinality(A) <= Cardinality(B)
      BY <1>1, FS_Subset
    <2> QED BY <1>1, <2>1, FS_CardinalityType
  <1>2. p(H1) \in Nat /\ p(H2) \in Nat /\ p(H1) <= p(H2)
    <2>1. Ache(H1) \subseteq Ache(H2)
      BY DEF Ache
    <2> QED BY <1>1, <2>1, TellIsFinite
  <1>3. ASSUME NEW types
        PROVE  Tell(H1, types) \subseteq Tell(H2, types) /\ IsFiniteSet(Tell(H2, types))
    BY TellIsFinite DEF Tell
  <1>4. u(H1) \in Nat /\ u(H2) \in Nat /\ u(H1) <= u(H2)
    BY <1>1, <1>3
  <1>5. b(H1) \in Nat /\ b(H2) \in Nat /\ b(H1) <= b(H2)
    BY <1>1, <1>3
  <1>6. c(H1) \in Nat /\ c(H2) \in Nat /\ c(H1) <= c(H2)
    <2>1. IsFiniteSet(Tell(H2, Contact) \cup {R!Roster})
      BY <1>3, FS_AddElement
    <2>2. (Tell(H1, Contact) \cup {R!Roster}) \subseteq (Tell(H2, Contact) \cup {R!Roster})
      BY <1>3
    <2> QED BY <1>1, <2>1, <2>2
  <1>7. e(H1) \in BOOLEAN /\ e(H2) \in BOOLEAN /\ (e(H1) => e(H2))
    OBVIOUS
  <1>8. /\ Worth(H1) = Weighed(Marks(Hurt(p(H1), e(H1)), Heard(u(H1)), Heard(b(H1)), Heard(c(H1)), 70))
        /\ Worth(H2) = Weighed(Marks(Hurt(p(H2), e(H2)), Heard(u(H2)), Heard(b(H2)), Heard(c(H2)), 70))
    BY WorthIs
  <1> HIDE DEF p, e, u, b, c
  <1>9. Hurt(p(H1), e(H1)) \in Int /\ Hurt(p(H2), e(H2)) \in Int
          /\ Hurt(p(H1), e(H1)) <= Hurt(p(H2), e(H2))
    BY <1>2, <1>7, MoreIsWorthMore
  <1>10. Heard(u(H1)) \in Int /\ Heard(u(H2)) \in Int /\ Heard(u(H1)) <= Heard(u(H2))
    BY <1>4, MoreIsWorthMore
  <1>11. Heard(b(H1)) \in Int /\ Heard(b(H2)) \in Int /\ Heard(b(H1)) <= Heard(b(H2))
    BY <1>5, MoreIsWorthMore
  <1>12. Heard(c(H1)) \in Int /\ Heard(c(H2)) \in Int /\ Heard(c(H1)) <= Heard(c(H2))
    BY <1>6, MoreIsWorthMore
  <1>13. 70 \in Int /\ 70 <= 70
    OBVIOUS
  <1> DEFINE w1 == Marks(Hurt(p(H1), e(H1)), Heard(u(H1)), Heard(b(H1)), Heard(c(H1)), 70)
             w2 == Marks(Hurt(p(H2), e(H2)), Heard(u(H2)), Heard(b(H2)), Heard(c(H2)), 70)
  <1>14. Below(w1, w2)
    BY <1>9, <1>10, <1>11, <1>12, <1>13 DEF Below, Marks
  <1> HIDE DEF w1, w2
  <1>15. Weighed(w1) \in Int /\ Weighed(w1) <= Weighed(w2)
    BY <1>14, WeighedGrows
  <1> QED BY <1>8, <1>15 DEF w1, w2

\* What a lead is researched from (research.py: _scoped_sources_for_lead).
LEMMA ScopedSources ==
  ASSUME R!ResearchAssumption, NEW l \in Candidates
  PROVE  /\ R!_scoped_sources_for_lead(l) \in SUBSET (Candidates \cup {0})
         /\ R!_scoped_sources_for_lead(l) =
              LET scoped == {d \in {l, 0} : R!Text(d) # R!Absent}
              IN  IF scoped = {} THEN R!AllDocuments ELSE scoped
  <1>1. l # 0
    BY FindingsAreFinite
  <1>2. R!Text(l) = own[l] /\ R!Text(0) = shared
    BY <1>1 DEF R!Text
  <1> DEFINE s == {d \in {l, 0} : R!Text(d) # R!Absent}
             t == (R!AllDocuments \cap {l}) \cup (IF shared # R!Absent THEN {0} ELSE {})
  <1>3. \A d \in s : d \in t
    BY <1>2 DEF R!AllDocuments
  <1>4. \A d \in t : d \in s
    BY <1>2 DEF R!AllDocuments
  <1>5. R!AllDocuments \in SUBSET Candidates
    BY DEF R!AllDocuments
  <1>6. s \in SUBSET (Candidates \cup {0})
    OBVIOUS
  <1> HIDE DEF s
  <1>7. s = t
    BY <1>3, <1>4
  <1>8. R!_scoped_sources_for_lead(l) = IF t = {} THEN R!AllDocuments ELSE t
    BY DEF R!_scoped_sources_for_lead
  <1> HIDE DEF t
  <1> QED BY <1>5, <1>6, <1>7, <1>8 DEF s

\* What a lead deserves is the worth of what its documents ever told.
LEMMA DeservedIs ==
  ASSUME NEW l
  PROVE  R!Deserved(l) = Worth(ever[l])
  BY DEF R!Deserved, Worth, Ache, RosterRow

\* What the documents in the scope of a lead tell now are findings: those of the documents
\* it is researched from.
LEMMA InScopeIs ==
  ASSUME R!ResearchAssumption, NEW l \in Candidates
  PROVE  /\ R!InScope(l) \in SUBSET Findings
         /\ \A t \in Finds : \A d \in R!_scoped_sources_for_lead(l) :
              t \in R!Text(d) => [type |-> t, source |-> d, tier |-> "OBSERVED"] \in R!InScope(l)
  <1> DEFINE scoped == {d \in {l, 0} : R!Text(d) # R!Absent}
             sources == IF scoped = {} THEN R!AllDocuments ELSE scoped
  <1>1. sources = R!_scoped_sources_for_lead(l) /\ sources \in SUBSET (Candidates \cup {0})
    BY ScopedSources
  <1>2. R!InScope(l) = {r \in [type : R!SIGNALS \cup R!Pains, source : sources, tier : {"OBSERVED"}] :
                          r.type \in R!Text(r.source)}
    BY DEF R!InScope
  <1> HIDE DEF sources
  <1>3. ASSUME NEW r \in R!InScope(l) PROVE r \in Findings
    BY <1>1, <1>2 DEF Findings, Finds
  <1>4. ASSUME NEW t \in Finds, NEW d \in sources, t \in R!Text(d)
        PROVE  [type |-> t, source |-> d, tier |-> "OBSERVED"] \in R!InScope(l)
    <2> DEFINE r == [type |-> t, source |-> d, tier |-> "OBSERVED"]
    <2>1. r \in [type : R!SIGNALS \cup R!Pains, source : sources, tier : {"OBSERVED"}]
      BY DEF Finds
    <2>2. r.type = t /\ r.source = d
      OBVIOUS
    <2> HIDE DEF r
    <2>3. r \in R!InScope(l)
      BY <1>2, <1>4, <2>1, <2>2
    <2> QED BY <2>3 DEF r
  <1> QED BY <1>1, <1>3, <1>4

\* What the documents tell now is among what they ever told.
Heeded == \A l \in Candidates : ever[l] \in SUBSET Findings /\ R!InScope(l) \subseteq ever[l]

\* A row tells what a document in the scope of its lead told, or where the lead is from.
Allowed(r) ==
  /\ r.pain => r.type \in R!Pains /\ r.source >= 0
  /\ r.source >= 0 => /\ r.type \in Finds
                      /\ [type |-> r.type, source |-> r.source, tier |-> "OBSERVED"] \in ever[r.lead]
  /\ r.source < 0 => r.type \in {"lead", "provenance", "contact_info"}

\* What is stored of a lead is allowed, it is from one place, and a pain point is there once.
StoredWell(l) ==
  /\ ever[l] \in SUBSET Findings
  /\ evidence[l] \in Seq(ResearchRows) /\ pain_points[l] \in Seq(ResearchRows)
  /\ \A i \in DOMAIN evidence[l] : Allowed(evidence[l][i]) /\ evidence[l][i].lead = l
  /\ \A i \in DOMAIN pain_points[l] :
       Allowed(pain_points[l][i]) /\ pain_points[l][i].lead = l /\ pain_points[l][i].pain
  /\ \A i, j \in DOMAIN evidence[l] :
       evidence[l][i].source < 0 /\ evidence[l][j].source < 0
         => evidence[l][i].source = evidence[l][j].source
  /\ \A i, j \in DOMAIN pain_points[l] : pain_points[l][i] = pain_points[l][j] => i = j

\* The documents are numbered from 0; where a lead is from is below.
LEMMA SourceNumbers ==
  ASSUME R!ResearchAssumption, NEW s \in RowSources
  PROVE  s \in Int /\ (s >= 0 <=> s \in Candidates \cup {0})
  BY FindingsAreFinite DEF RowSources, R!Roster, R!Manual

\* The pain points stored are among those found.
LEMMA PainIsCounted ==
  ASSUME R!ResearchAssumption, NEW l \in Candidates, StoredWell(l)
  PROVE  Len(pain_points[l]) <= Cardinality(Ache(ever[l]))
  <1> DEFINE pp == pain_points[l]
             n == Len(pp)
             A == Ache(ever[l])
             f == [i \in 1 .. n |-> [type |-> pp[i].type, source |-> pp[i].source, tier |-> "OBSERVED"]]
  <1>1. n \in Nat /\ DOMAIN pp = 1 .. n
    BY DEF StoredWell
  <1>2. ASSUME NEW i \in 1 .. n
        PROVE  /\ pp[i] \in ResearchRows /\ pp[i].lead = l /\ pp[i].pain
               /\ f[i] \in A
    <2>1. pp[i] \in ResearchRows /\ Allowed(pp[i]) /\ pp[i].lead = l /\ pp[i].pain
      BY <1>1 DEF StoredWell
    <2>2. pp[i].source \in RowSources
      BY <2>1 DEF ResearchRows
    <2>3. pp[i].source \in Candidates \cup {0} /\ pp[i].source >= 0 /\ pp[i].type \in R!Pains
      BY <2>1, <2>2, SourceNumbers DEF Allowed
    <2>4. [type |-> pp[i].type, source |-> pp[i].source, tier |-> "OBSERVED"] \in ever[l]
      BY <2>1, <2>3 DEF Allowed
    <2>5. /\ f[i].type = pp[i].type /\ f[i].source = pp[i].source
          /\ f[i] = [type |-> pp[i].type, source |-> pp[i].source, tier |-> "OBSERVED"]
      OBVIOUS
    <2> HIDE DEF f
    <2> QED BY <2>1, <2>3, <2>4, <2>5 DEF Ache
  <1>3. ASSUME NEW i \in 1 .. n, NEW j \in 1 .. n, f[i] = f[j] PROVE i = j
    <2>1. pp[i].type = pp[j].type /\ pp[i].source = pp[j].source
      <3>1. f[i].type = f[j].type /\ f[i].source = f[j].source
        BY <1>3
      <3> QED BY <3>1
    <2>2. pp[i].lead = pp[j].lead /\ pp[i].pain = TRUE /\ pp[j].pain = TRUE
      BY <1>2 DEF ResearchRows
    <2>3. pp[i] \in ResearchRows /\ pp[j] \in ResearchRows
      BY <1>2
    <2> HIDE DEF pp
    <2>4. pp[i] = pp[j]
      BY <2>1, <2>2, <2>3 DEF ResearchRows
    <2> QED BY <1>1, <2>4 DEF StoredWell, pp
  <1>4. f \in Injection(1 .. n, A)
    <2>1. f \in [1 .. n -> A]
      BY <1>2
    <2> HIDE DEF f
    <2> QED BY <1>3, <2>1 DEF Injection, IsInjective
  <1>5. IsFiniteSet(A)
    <2>1. ever[l] \in SUBSET Findings
      BY DEF StoredWell
    <2> QED BY <2>1, TellIsFinite
  <1>6. Cardinality(1 .. n) <= Cardinality(A)
    BY <1>4, <1>5, FS_Injection
  <1> HIDE DEF n
  <1>7. Cardinality(1 .. n) = n
    BY <1>1, FS_Interval
  <1> QED BY <1>6, <1>7 DEF n

\* The sources of what is stored are no more than those of what is found and where the
\* lead is from.
LEMMA SourcesAreCounted ==
  ASSUME R!ResearchAssumption, NEW l \in Candidates, StoredWell(l),
         NEW types \in {Urgency, Budget, Contact}
  PROVE  LET stored == {evidence[l][i].source :
                          i \in {k \in DOMAIN evidence[l] : evidence[l][k].type \in types}}
             heard == Tell(ever[l], types) \cup (IF types = Contact THEN {R!Roster} ELSE {})
         IN  /\ IsFiniteSet(stored) /\ IsFiniteSet(heard)
             /\ Cardinality(stored) <= Cardinality(heard)
  <1> DEFINE ev == evidence[l]
             stored == {ev[i].source : i \in {k \in DOMAIN ev : ev[k].type \in types}}
             tell == Tell(ever[l], types)
             heard == tell \cup (IF types = Contact THEN {R!Roster} ELSE {})
  <1>1. \A i \in DOMAIN ev : ev[i] \in ResearchRows /\ Allowed(ev[i]) /\ ev[i].lead = l
    BY DEF StoredWell
  <1>2. \A i \in DOMAIN ev : ev[i].source \in RowSources
    BY <1>1 DEF ResearchRows
  <1>3. IsFiniteSet(tell) /\ tell \in SUBSET (Candidates \cup {0})
    <2>1. ever[l] \in SUBSET Findings
      BY DEF StoredWell
    <2> QED BY <2>1, TellIsFinite
  <1>4. R!Roster = -1 /\ R!Manual = -2 /\ R!Roster \notin tell /\ R!Manual \notin tell
    BY <1>3, FindingsAreFinite DEF R!Roster, R!Manual
  <1>5. IsFiniteSet(heard)
    <2>1. IsFiniteSet(tell \cup {R!Roster}) /\ tell \cup {} = tell
      BY <1>3, FS_AddElement
    <2> QED BY <1>3, <2>1
  <1>6. IsFiniteSet(stored)
    <2>1. stored \in SUBSET RowSources
      BY <1>2
    <2> QED BY <2>1, FindingsAreFinite, FS_Subset
  <1>7. ASSUME NEW i \in DOMAIN ev, ev[i].type \in types, ev[i].source >= 0
        PROVE  ev[i].source \in tell
    <2> DEFINE r == [type |-> ev[i].type, source |-> ev[i].source, tier |-> "OBSERVED"]
    <2>1. r \in ever[l] /\ ev[i].type \in Finds
      BY <1>1, <1>7 DEF Allowed
    <2>4. r.type = ev[i].type /\ r.source = ev[i].source
      OBVIOUS
    <2> HIDE DEF r
    <2>6. r.type \in R!SIGNALS
      BY <1>7, <2>1, <2>4, FindsAreFinite DEF Finds, Urgency, Budget, Contact
    <2> QED BY <1>7, <2>1, <2>4, <2>6 DEF Tell
  <1>8. ASSUME NEW i \in DOMAIN ev, ev[i].type \in types, ~(ev[i].source >= 0)
        PROVE  types = Contact /\ ev[i].source < 0 /\ ev[i].source \notin tell
    <2>1. ev[i].source < 0 /\ ev[i].source \notin Candidates \cup {0}
      BY <1>2, <1>8, SourceNumbers
    <2>2. ev[i].type \in {"lead", "provenance", "contact_info"}
      BY <1>1, <2>1 DEF Allowed
    <2> QED BY <1>3, <1>8, <2>1, <2>2 DEF Urgency, Budget, Contact
  <1>9. CASE \A i \in DOMAIN ev : ev[i].type \in types => ev[i].source >= 0
    <2>1. stored \in SUBSET heard
      BY <1>7, <1>9
    <2> QED BY <1>5, <1>6, <2>1, FS_Subset
  <1>10. CASE \E i \in DOMAIN ev : ev[i].type \in types /\ ~(ev[i].source >= 0)
    <2>1. PICK i \in DOMAIN ev : ev[i].type \in types /\ ~(ev[i].source >= 0)
      BY <1>10
    <2> DEFINE x == ev[i].source
    <2>2. types = Contact /\ x < 0 /\ x \notin tell
      BY <1>8, <2>1
    <2>3. \A k \in DOMAIN ev : ev[k].type \in types => ev[k].source \in tell \cup {x}
      <3>1. ASSUME NEW k \in DOMAIN ev, ev[k].type \in types PROVE ev[k].source \in tell \cup {x}
        <4>1. CASE ev[k].source >= 0
          BY <1>7, <3>1, <4>1
        <4>2. CASE ~(ev[k].source >= 0)
          <5>1. ev[k].source < 0
            BY <1>8, <3>1, <4>2
          <5>2. ev[k].source = x
            BY <2>2, <5>1 DEF StoredWell
          <5> QED BY <5>2
        <4> QED BY <4>1, <4>2
      <3> QED BY <3>1
    <2>4. stored \in SUBSET (tell \cup {x})
      BY <2>3
    <2>5. IsFiniteSet(tell \cup {x}) /\ Cardinality(tell \cup {x}) = Cardinality(tell) + 1
      BY <1>3, <2>2, FS_AddElement
    <2>6. heard = tell \cup {R!Roster} /\ Cardinality(tell \cup {R!Roster}) = Cardinality(tell) + 1
      BY <1>3, <1>4, <2>2, FS_AddElement
    <2>7. Cardinality(stored) <= Cardinality(tell \cup {x})
      BY <2>4, <2>5, FS_Subset
    <2> QED BY <1>5, <1>6, <2>5, <2>6, <2>7
  <1> QED BY <1>9, <1>10

\* A score that is computed is no more than the lead deserves.
LEMMA EvaluateIsDeserved ==
  ASSUME R!ResearchAssumption, NEW l \in Candidates, StoredWell(l)
  PROVE  R!evaluate(l) \in Int /\ R!evaluate(l) <= R!Deserved(l)
  <1> DEFINE ev == evidence[l]
             pp == pain_points[l]
             n == Len(pp)
             H == ever[l]
             rows == [i \in DOMAIN ev |-> [type |-> ev[i].type, tier |-> "OBSERVED",
                                           source |-> ev[i].source]]
             types == [i \in 1 .. n |-> pp[i].type]
             points == [i \in 1 .. n |-> R!PAIN_PATTERNS[types[i]]]
  <1>1. n \in Nat /\ DOMAIN pp = 1 .. n
    BY DEF StoredWell
  <1>2. R!evaluate(l) = R!Score(R!Company, R!ICPs, rows, points, TRUE)
    <2>1. [i \in DOMAIN pp |-> R!PAIN_PATTERNS[pp[i].type]] = points
      BY <1>1
    <2>2. R!evaluate(l) = R!Score(R!Company, R!ICPs, rows,
                                  [i \in DOMAIN pp |-> R!PAIN_PATTERNS[pp[i].type]], TRUE)
      BY DEF R!evaluate
    <2> QED BY <2>1, <2>2
  <1>3. R!Score(R!Company, R!ICPs, rows, points, TRUE)
           = Weighed(Marks(R!score_pain(points), R!SignalScore(rows, Urgency),
                           R!SignalScore(rows, Budget), R!SignalScore(rows, Contact),
                           R!TIER_CONFIDENCE[R!corroborated_tier(rows)]))
    BY ScoreIsWeighed
  <1>4. H \in SUBSET Findings
    BY DEF StoredWell
  <1>5. R!Deserved(l) = Worth(H)
    BY DeservedIs
  <1> DEFINE aches == Cardinality(Ache(H))
             entry == \E r \in H : r.type = "entry"
  <1>6. Worth(H) = Weighed(Marks(Hurt(aches, entry), Heard(Cardinality(Tell(H, Urgency))),
                                 Heard(Cardinality(Tell(H, Budget))),
                                 Heard(Cardinality(Tell(H, Contact) \cup {R!Roster})), 70))
    BY <1>4, WorthIs
  <1>7. types \in [1 .. n -> R!Pains]
        /\ ((\E i \in 1 .. n : types[i] = "entry") => entry)
    <2>1. ASSUME NEW i \in 1 .. n
          PROVE  /\ types[i] = pp[i].type /\ pp[i].type \in R!Pains
                 /\ \E r \in H : r.type = pp[i].type
      <3>1. Allowed(pp[i]) /\ pp[i].pain /\ pp[i].lead = l /\ pp[i] \in ResearchRows
        BY <1>1 DEF StoredWell
      <3> DEFINE r == [type |-> pp[i].type, source |-> pp[i].source, tier |-> "OBSERVED"]
      <3>2. pp[i].type \in R!Pains /\ r \in H
        BY <3>1 DEF Allowed
      <3>3. r.type = pp[i].type
        OBVIOUS
      <3> HIDE DEF r, H
      <3> QED BY <3>2, <3>3
    <2> HIDE DEF H
    <2>2. \A i \in 1 .. n : types[i] = "entry" => entry
      BY <2>1
    <2>3. types \in [1 .. n -> R!Pains]
      BY <2>1
    <2> QED BY <2>2, <2>3
  <1> HIDE DEF types, entry, H, rows
  <1>8. R!score_pain(points) = Hurt(n, \E i \in 1 .. n : types[i] = "entry")
    BY <1>1, <1>7, PainWorth
  <1>9. aches \in Nat /\ n <= aches
    <2>1. IsFiniteSet(Ache(H))
      BY <1>4, TellIsFinite
    <2> QED BY <2>1, FS_CardinalityType, PainIsCounted DEF H
  <1> DEFINE some == \E i \in 1 .. n : types[i] = "entry"
  <1>10. some \in BOOLEAN /\ entry \in BOOLEAN /\ (some => entry)
    BY <1>7 DEF entry
  <1>11. R!score_pain(points) = Hurt(n, some)
    BY <1>8
  <1> HIDE DEF some, points, n, aches
  <1>12. Hurt(n, some) \in Int /\ Hurt(aches, entry) \in Int /\ Hurt(n, some) <= Hurt(aches, entry)
    BY <1>1, <1>9, <1>10, MoreIsWorthMore
  <1>13. rows = [i \in DOMAIN ev |-> [type |-> ev[i].type, tier |-> "OBSERVED",
                                      source |-> ev[i].source]]
    BY DEF rows
  <1>14. ASSUME NEW kinds \in {Urgency, Budget, Contact}
         PROVE  LET heard == Tell(H, kinds) \cup (IF kinds = Contact THEN {R!Roster} ELSE {})
                IN  /\ R!SignalScore(rows, kinds) \in Int /\ Heard(Cardinality(heard)) \in Int
                    /\ R!SignalScore(rows, kinds) <= Heard(Cardinality(heard))
    <2> DEFINE stored == {ev[i].source : i \in {k \in DOMAIN ev : ev[k].type \in kinds}}
               heard == Tell(H, kinds) \cup (IF kinds = Contact THEN {R!Roster} ELSE {})
    <2>1. IsFiniteSet(stored) /\ IsFiniteSet(heard) /\ Cardinality(stored) <= Cardinality(heard)
      BY SourcesAreCounted DEF H
    <2>2. Cardinality(stored) \in Nat /\ Cardinality(heard) \in Nat
      BY <2>1, FS_CardinalityType
    <2>3. /\ DOMAIN rows = DOMAIN ev
          /\ \A i \in DOMAIN ev : /\ rows[i].type = ev[i].type /\ rows[i].source = ev[i].source
                                  /\ rows[i].tier = "OBSERVED"
      BY <1>13
    <2>4. SourcesOf(rows, kinds) = stored
      <3>1. \A y \in SourcesOf(rows, kinds) : y \in stored
        BY <2>3 DEF SourcesOf
      <3>2. \A y \in stored : y \in SourcesOf(rows, kinds)
        BY <2>3 DEF SourcesOf
      <3> QED BY <3>1, <3>2
    <2>5. R!SignalScore(rows, kinds) = Heard(Cardinality(SourcesOf(rows, kinds)))
      BY <2>1, <2>3, <2>4, SignalWorth
    <2> HIDE DEF stored, heard
    <2>6. /\ Heard(Cardinality(stored)) \in Int /\ Heard(Cardinality(heard)) \in Int
          /\ Heard(Cardinality(stored)) <= Heard(Cardinality(heard))
      BY <2>1, <2>2, MoreIsWorthMore
    <2>7. /\ R!SignalScore(rows, kinds) \in Int /\ Heard(Cardinality(heard)) \in Int
          /\ R!SignalScore(rows, kinds) <= Heard(Cardinality(heard))
      BY <2>4, <2>5, <2>6
    <2> QED BY <2>7 DEF heard
  <1>15. Urgency # Contact /\ Budget # Contact
    BY DEF Urgency, Budget, Contact
  <1> DEFINE hu == Heard(Cardinality(Tell(H, Urgency)))
             hb == Heard(Cardinality(Tell(H, Budget)))
             hc == Heard(Cardinality(Tell(H, Contact) \cup {R!Roster}))
             su == R!SignalScore(rows, Urgency)
             sb == R!SignalScore(rows, Budget)
             sc == R!SignalScore(rows, Contact)
             tier == R!TIER_CONFIDENCE[R!corroborated_tier(rows)]
  <1>16. su \in Int /\ hu \in Int /\ su <= hu
    <2>1. Tell(H, Urgency) \cup (IF Urgency = Contact THEN {R!Roster} ELSE {}) = Tell(H, Urgency)
      BY <1>15
    <2> QED BY <1>14, <2>1
  <1>17. sb \in Int /\ hb \in Int /\ sb <= hb
    <2>1. Tell(H, Budget) \cup (IF Budget = Contact THEN {R!Roster} ELSE {}) = Tell(H, Budget)
      BY <1>15
    <2> QED BY <1>14, <2>1
  <1>18. sc \in Int /\ hc \in Int /\ sc <= hc
    <2>1. Tell(H, Contact) \cup (IF Contact = Contact THEN {R!Roster} ELSE {})
            = Tell(H, Contact) \cup {R!Roster}
      OBVIOUS
    <2> QED BY <1>14, <2>1
  <1>19. tier \in Int /\ tier <= 70
    <2>1. \A i \in DOMAIN rows : rows[i].tier = "OBSERVED"
      BY <1>13
    <2> QED BY <2>1, TierWorth
  <1> HIDE DEF hu, hb, hc, su, sb, sc, tier
  <1> DEFINE w1 == Marks(Hurt(n, some), su, sb, sc, tier)
             w2 == Marks(Hurt(aches, entry), hu, hb, hc, 70)
  <1>20. Below(w1, w2)
    BY <1>12, <1>16, <1>17, <1>18, <1>19 DEF Below, Marks
  <1>21. R!evaluate(l) = Weighed(w1)
    BY <1>2, <1>3, <1>11 DEF su, sb, sc, tier
  <1>22. R!Deserved(l) = Weighed(w2)
    BY <1>5, <1>6 DEF hu, hb, hc
  <1> HIDE DEF w1, w2
  <1> QED BY <1>20, <1>21, <1>22, WeighedGrows

-----------------------------------------------------------------------------
(***************************************************************************)
(* The invariant.                                                          *)
(***************************************************************************)
\* The rows that tell the truth about their lead.
AllowedRows == {r \in ResearchRows : Allowed(r)}

\* Who has a document that tells of pain.
Hurting == {l \in Candidates : R!HasPain(l)}

\* What each lead deserves.
Worths == [l \in Candidates |-> Worth(ever[l])]

\* What is stored is with its lead, and pain points are of known types.
Filed(ev, pp, rows) ==
  /\ \A l \in Candidates : \A i \in DOMAIN ev[l] : ev[l][i].lead = l
  /\ \A l \in Candidates : \A i \in DOMAIN pp[l] :
       pp[l][i].lead = l /\ pp[l][i].pain /\ pp[l][i].type \in R!Pains
  /\ \A i \in DOMAIN rows : rows[i].pain => rows[i].type \in R!Pains

\* Nothing is stored of who is no lead yet.
Unborn(L, ev, pp, sc) ==
  \A l \in Candidates \ L : ev[l] = <<>> /\ pp[l] = <<>> /\ sc[l] = <<>>

\* The row of a lead comes before what is said of it.
Announced(rows, L) ==
  \A i \in DOMAIN rows :
    \/ rows[i].lead \in L
    \/ \E j \in 1 .. i : rows[j].type = "lead" /\ rows[j].lead = rows[i].lead

\* A lead the command has still to look at is one, or will be.
Expected(q, rows, L) ==
  \A i \in DOMAIN q :
    \/ q[i] \in L
    \/ \E j \in DOMAIN rows : rows[j].type = "lead" /\ rows[j].lead = q[i]

\* No lead is to be entered.
NoLead(rows) == \A i \in DOMAIN rows : rows[i].type # "lead"

\* Each of L has pain points, will be looked at, or has them coming.
Covered(L, pp, q, rows) ==
  \A l \in L : \/ pp[l] # <<>>
               \/ \E i \in DOMAIN q : q[i] = l
               \/ \E i \in DOMAIN rows : rows[i].pain /\ rows[i].lead = l

\* A lead is from one place only.
FromOnePlace(rows, ev) ==
  \A l \in Candidates : \E o \in {R!Roster, R!Manual} :
    /\ \A i \in DOMAIN rows : rows[i].lead = l /\ rows[i].source < 0 => rows[i].source = o
    /\ \A i \in DOMAIN ev[l] : ev[l][i].source < 0 => ev[l][i].source = o

\* No pain point is stored twice, nor will be.
PainOnce(rows, pp) ==
  /\ \A l \in Candidates : \A i, j \in DOMAIN pp[l] : pp[l][i] = pp[l][j] => i = j
  /\ \A i, j \in DOMAIN rows : rows[i].pain /\ rows[i] = rows[j] => i = j
  /\ \A i \in DOMAIN rows : rows[i].pain =>
       \A j \in DOMAIN pp[rows[i].lead] : pp[rows[i].lead][j] # rows[i]

\* No score is more than the lead deserves.
BelowWorth(sc, worths) == \A l \in Candidates : \A i \in DOMAIN sc[l] : sc[l][i] <= worths[l]

\* The ranges.
ResearchTyped ==
  /\ own = [l \in Candidates |-> own[l]]
  /\ Heeded
  /\ leads \in SUBSET Candidates
  /\ evidence \in [Candidates -> Seq(ResearchRows)]
  /\ pain_points \in [Candidates -> Seq(ResearchRows)]
  /\ scores \in [Candidates -> Seq(Int)]
  /\ resWrites \in Seq(ResearchRows)
  /\ queue \in Seq(Candidates)
  /\ Filed(evidence, pain_points, resWrites)

\* How far a command has got; what a whole pass has found and what one still will.
ResearchGoesOn ==
  /\ command = "none" => resWrites = <<>> /\ queue = <<>>
  /\ Unborn(leads, evidence, pain_points, scores)
  /\ Announced(resWrites, leads)
  /\ Expected(queue, resWrites, leads)
  /\ command = "research" \/ passed = "yes" => NoLead(resWrites)
  /\ passed = "yes" /\ Cardinality(leads) <= Page => Covered(leads \cap Hurting, pain_points, <<>>, <<>>)
  /\ command = "research" /\ passed = "begun" /\ Cardinality(leads) <= Page =>
       Covered(leads \cap Hurting, pain_points, queue, resWrites)

\* What is stored, and what will be, is what the documents tell, once.
ResearchIsTrue ==
  ~named => /\ resWrites \in Seq(AllowedRows)
            /\ \A l \in Candidates :
                 evidence[l] \in Seq(AllowedRows) /\ pain_points[l] \in Seq(AllowedRows)
            /\ FromOnePlace(resWrites, evidence)
            /\ PainOnce(resWrites, pain_points)
            /\ BelowWorth(scores, Worths)

\* The inductive invariant.
ResearchInv == ResearchTyped /\ ResearchGoesOn /\ ResearchIsTrue

-----------------------------------------------------------------------------
(***************************************************************************)
(* What research gathers, and what a lead comes with.                      *)
(***************************************************************************)
\* What gathering the findings of a lead comes to.
Gathered(s, l) ==
  /\ s \in Seq(ResearchRows)
  /\ \A i \in DOMAIN s : /\ s[i].lead = l /\ s[i].source >= 0 /\ s[i].type # "lead"
                         /\ s[i].pain => s[i].type \in R!Pains
  /\ \A i, j \in DOMAIN s : s[i].pain /\ s[i] = s[j] => i = j

\* Research gathers so, whatever the documents it is given.
LEMMA GatheredRows ==
  R!ResearchAssumption =>
    \A l \in Candidates : \A S \in SUBSET (Candidates \cup {0}) : Gathered(R!research_lead(l, S), l)
  <1> SUFFICES ASSUME R!ResearchAssumption, NEW l \in Candidates, NEW S \in SUBSET (Candidates \cup {0})
               PROVE  Gathered(R!research_lead(l, S), l)
    OBVIOUS
  <1> DEFINE s == R!research_lead(l, S)
  <1>1. Finding(s, l, S)
    BY ResearchFinds
  <1> HIDE DEF s
  <1>2. ASSUME NEW i \in DOMAIN s
        PROVE  /\ s[i].lead = l /\ s[i].source >= 0 /\ s[i].type # "lead"
               /\ s[i].pain => s[i].type \in R!Pains
    <2>1. /\ s[i].lead = l /\ s[i].source \in S /\ s[i].type \in Finds
          /\ s[i].pain => s[i].type \in R!Pains
      BY <1>1 DEF Finding
    <2>2. s[i].source \in Candidates \cup {0} /\ s[i].source \in RowSources
      BY <2>1 DEF RowSources
    <2> QED BY <2>1, <2>2, SourceNumbers, FindsAreFinite DEF Finds
  <1> QED BY <1>1, <1>2 DEF Finding, Gathered, s

\* Of documents in scope it gathers what is true.
LEMMA AllowedGathered ==
  R!ResearchAssumption /\ Heeded =>
    \A l \in Candidates : \A S \in SUBSET R!_scoped_sources_for_lead(l) :
      R!research_lead(l, S) \in Seq(AllowedRows)
  <1> SUFFICES ASSUME R!ResearchAssumption, Heeded, NEW l \in Candidates,
                      NEW S \in SUBSET R!_scoped_sources_for_lead(l)
               PROVE  R!research_lead(l, S) \in Seq(AllowedRows)
    OBVIOUS
  <1> DEFINE s == R!research_lead(l, S)
  <1>1. S \in SUBSET (Candidates \cup {0})
    BY ScopedSources
  <1>2. Finding(s, l, S)
    BY <1>1, ResearchFinds
  <1> HIDE DEF s
  <1>3. ASSUME NEW i \in DOMAIN s
        PROVE  s[i] \in AllowedRows
    <2>1. s[i] \in ResearchRows
      BY <1>2 DEF Finding
    <2>2. /\ s[i].lead = l /\ s[i].source \in S /\ s[i].type \in R!Text(s[i].source) \cap Finds
          /\ s[i].pain => s[i].type \in R!Pains
      BY <1>2 DEF Finding
    <2>3. s[i].source \in Candidates \cup {0} /\ s[i].source \in RowSources
      BY <1>1, <2>2 DEF RowSources
    <2>4. s[i].source \in Int /\ s[i].source >= 0
      BY <2>3, SourceNumbers
    <2>5. [type |-> s[i].type, source |-> s[i].source, tier |-> "OBSERVED"] \in ever[s[i].lead]
      BY <2>2, InScopeIs DEF Heeded
    <2> QED BY <2>1, <2>2, <2>4, <2>5 DEF AllowedRows, Allowed
  <1>4. s \in Seq(ResearchRows)
    BY <1>2 DEF Finding
  <1>5. s \in Seq(AllowedRows)
    BY <1>3, <1>4
  <1> QED BY <1>5 DEF s

\* Of a lead with pain in its documents it finds some.
LEMMA PainGathered ==
  R!ResearchAssumption =>
    \A l \in Hurting : \E i \in DOMAIN R!research_lead(l, R!_scoped_sources_for_lead(l)) :
      R!research_lead(l, R!_scoped_sources_for_lead(l))[i].pain
  <1> SUFFICES ASSUME R!ResearchAssumption, NEW l \in Hurting
               PROVE  \E i \in DOMAIN R!research_lead(l, R!_scoped_sources_for_lead(l)) :
                        R!research_lead(l, R!_scoped_sources_for_lead(l))[i].pain
    OBVIOUS
  <1> DEFINE S == R!_scoped_sources_for_lead(l)
             s == R!research_lead(l, S)
  <1>1. l \in Candidates
    BY DEF Hurting
  <1>2. S \in SUBSET (Candidates \cup {0})
    BY <1>1, ScopedSources
  <1>3. Finding(s, l, S)
    BY <1>1, <1>2, ResearchFinds
  <1>4. PICK d \in S : R!Text(d) \cap R!Pains # {}
    BY DEF Hurting, R!HasPain
  <1>5. PICK p \in R!Text(d) \cap R!Pains : TRUE
    BY <1>4
  <1> HIDE DEF s, S
  <1>6. \E i \in DOMAIN s : s[i].pain
    BY <1>3, <1>4, <1>5 DEF Finding
  <1> QED BY <1>6 DEF s, S

\* What is said of leads of S when they are entered: the row of each comes first.
FirstRows(s, S, src) ==
  /\ s \in Seq(ResearchRows)
  /\ \A i \in DOMAIN s : /\ s[i].lead \in S /\ s[i].source = src /\ ~s[i].pain
                         /\ s[i].type \in {"lead", "provenance", "contact_info"}
                         /\ \E j \in 1 .. i : s[j].type = "lead" /\ s[j].lead = s[i].lead

\* The rows of a discovery (discovery.py: discover_from_markdown).
LEMMA DiscoveredRows ==
  ASSUME R!ResearchAssumption, NEW S \in SUBSET Candidates
  PROVE  FirstRows(R!FlattenSeq([i \in DOMAIN R!InOrder(S) |-> R!Birth(R!InOrder(S)[i], R!Roster)]),
                   S, R!Roster)
  <1> DEFINE f == R!InOrder(S)
             seqs == [i \in DOMAIN f |-> R!Birth(f[i], R!Roster)]
             s == R!FlattenSeq(seqs)
  <1>1. S \in SUBSET Nat /\ IsFiniteSet(S)
    BY FindingsAreFinite, FS_Subset
  <1>2. Enumerates(f, S)
    BY <1>1, InOrderEnumerates
  <1>3. Cardinality(S) \in Nat
    BY <1>1, FS_CardinalityType
  <1> HIDE DEF f
  <1>4. DOMAIN f = 1 .. Cardinality(S) /\ \A i \in DOMAIN f : f[i] \in S
    BY <1>2 DEF Enumerates
  <1>5. \A i \in DOMAIN f :
          /\ seqs[i] \in Seq(ResearchRows) /\ DOMAIN seqs[i] = 1 .. 3
          /\ seqs[i][1].type = "lead"
          /\ \A r \in 1 .. 3 : /\ seqs[i][r].lead = f[i] /\ seqs[i][r].source = R!Roster
                               /\ ~seqs[i][r].pain
                               /\ seqs[i][r].type \in {"lead", "provenance", "contact_info"}
    <2>1. ASSUME NEW i \in DOMAIN f
          PROVE  LET b == R!Birth(f[i], R!Roster) IN
                 /\ b \in Seq(ResearchRows) /\ DOMAIN b = 1 .. 3
                 /\ b[1].type = "lead"
                 /\ \A r \in 1 .. 3 : /\ b[r].lead = f[i] /\ b[r].source = R!Roster /\ ~b[r].pain
                                      /\ b[r].type \in {"lead", "provenance", "contact_info"}
      <3>1. f[i] \in Candidates
        BY <1>4
      <3> QED BY <3>1, BirthRows
    <2> QED BY <2>1
  <1>6. seqs \in Seq(Seq(ResearchRows)) /\ Len(seqs) = Cardinality(S)
    <2>1. seqs = [i \in 1 .. Cardinality(S) |-> R!Birth(f[i], R!Roster)]
      BY <1>4
    <2>2. \A i \in 1 .. Cardinality(S) : R!Birth(f[i], R!Roster) \in Seq(ResearchRows)
      BY <1>4, <1>5
    <2> HIDE DEF seqs
    <2> QED BY <2>1, <2>2, <1>3
  <1> HIDE DEF seqs
  <1>7. s \in Seq(ResearchRows)
    BY <1>6, FlattenBlocks
  <1>8. PICK off \in [1 .. Len(seqs) -> Nat] : BlocksOf(s, seqs, off, Len(seqs))
    BY <1>6, FlattenBlocks
  <1> HIDE DEF s
  <1>9. ASSUME NEW i \in DOMAIN s
        PROVE  /\ s[i].lead \in S /\ s[i].source = R!Roster /\ ~s[i].pain
               /\ s[i].type \in {"lead", "provenance", "contact_info"}
               /\ \E j \in 1 .. i : s[j].type = "lead" /\ s[j].lead = s[i].lead
    <2>1. PICK k \in 1 .. Len(seqs) : \E r \in DOMAIN seqs[k] : i = off[k] + r
      BY <1>8 DEF BlocksOf
    <2>2. PICK r \in DOMAIN seqs[k] : i = off[k] + r
      BY <2>1
    <2>3. k \in DOMAIN f /\ off[k] \in Nat
      BY <1>4, <1>6
    <2>4. DOMAIN seqs[k] = 1 .. 3 /\ r \in 1 .. 3 /\ 1 \in DOMAIN seqs[k]
      BY <1>5, <2>2, <2>3
    <2>5. s[i] = seqs[k][r] /\ s[off[k] + 1] = seqs[k][1]
      BY <1>8, <2>2, <2>4 DEF BlocksOf
    <2>6. off[k] + 1 \in 1 .. i
      BY <2>2, <2>3, <2>4
    <2>7. s[off[k] + 1].type = "lead" /\ s[off[k] + 1].lead = f[k] /\ s[i].lead = f[k]
      BY <1>5, <2>3, <2>4, <2>5
    <2>8. \E j \in 1 .. i : s[j].type = "lead" /\ s[j].lead = s[i].lead
      BY <2>6, <2>7
    <2> QED BY <1>4, <1>5, <2>3, <2>4, <2>5, <2>7, <2>8
  <1>10. FirstRows(s, S, R!Roster)
    BY <1>7, <1>9 DEF FirstRows
  <1> QED BY <1>10 DEF s, seqs, f

\* The rows of a lead added by hand: the first ones, and then what t finds.
AddedRows(s, l, t) ==
  /\ s \in Seq(ResearchRows) /\ 1 \in DOMAIN s /\ s[1].type = "lead" /\ s[1].lead = l
  /\ \A i \in DOMAIN s :
       /\ i \in Nat /\ i >= 1 /\ s[i].lead = l
       /\ \/ s[i].source = R!Manual /\ ~s[i].pain /\ s[i].type \in {"lead", "provenance", "contact_info"}
          \/ \E r \in DOMAIN t : s[i] = t[r]
  /\ \A i, j \in DOMAIN s : s[i].pain /\ s[i] = s[j] => i = j

\* Those of a lead that was added by hand.
LEMMA AddedByHand ==
  ASSUME NEW l \in Candidates, NEW t, Gathered(t, l)
  PROVE  AddedRows(R!Birth(l, R!Manual) \o t, l, t)
  <1> DEFINE b == R!Birth(l, R!Manual)
             s == b \o t
  <1>1. /\ b \in Seq(ResearchRows) /\ DOMAIN b = 1 .. 3
        /\ b[1].type = "lead"
        /\ \A r \in 1 .. 3 : /\ b[r].lead = l /\ b[r].source = R!Manual /\ ~b[r].pain
                             /\ b[r].type \in {"lead", "provenance", "contact_info"}
    <2>1. LET c == R!Birth(l, R!Manual) IN
          /\ c \in Seq(ResearchRows) /\ DOMAIN c = 1 .. 3
          /\ c[1].type = "lead"
          /\ \A r \in 1 .. 3 : /\ c[r].lead = l /\ c[r].source = R!Manual /\ ~c[r].pain
                               /\ c[r].type \in {"lead", "provenance", "contact_info"}
      BY BirthRows
    <2> QED BY <2>1
  <1> HIDE DEF b
  <1>2. t \in Seq(ResearchRows) /\ Len(b) = 3
    <2>0. b \in Seq(ResearchRows)
      BY <1>1
    <2>1. Len(b) \in Nat /\ DOMAIN b = 1 .. Len(b)
      BY <2>0
    <2> QED BY <1>1, <2>1 DEF Gathered
  <1>3. /\ s \in Seq(ResearchRows)
        /\ \A i \in DOMAIN b : i \in DOMAIN s /\ s[i] = b[i]
        /\ \A r \in DOMAIN t : 3 + r \in DOMAIN s /\ s[3 + r] = t[r]
        /\ \A i \in DOMAIN s : i \in DOMAIN b \/ \E r \in DOMAIN t : i = 3 + r
    <2>1. /\ s \in Seq(ResearchRows)
          /\ \A i \in DOMAIN b : i \in DOMAIN s /\ s[i] = b[i]
          /\ \A r \in DOMAIN t : Len(b) + r \in DOMAIN s /\ s[Len(b) + r] = t[r]
          /\ \A i \in DOMAIN s : i \in DOMAIN b \/ \E r \in DOMAIN t : i = Len(b) + r
      BY <1>1, <1>2, Concatenated
    <2> QED BY <1>2, <2>1
  <1> HIDE DEF s
  <1>4. 1 \in DOMAIN s /\ s[1] = b[1]
    BY <1>1, <1>3
  <1>5. DOMAIN s \in SUBSET (Nat \ {0}) /\ DOMAIN t \in SUBSET (Nat \ {0})
    BY <1>2, <1>3
  <1>6. ASSUME NEW i \in DOMAIN s
        PROVE  /\ i \in Nat /\ i >= 1 /\ s[i].lead = l
               /\ \/ /\ s[i].source = R!Manual /\ ~s[i].pain
                     /\ s[i].type \in {"lead", "provenance", "contact_info"}
                  \/ \E r \in DOMAIN t : i = 3 + r /\ s[i] = t[r]
    <2>1. CASE i \in DOMAIN b
      BY <1>1, <1>3, <1>5, <2>1
    <2>2. CASE \E r \in DOMAIN t : i = 3 + r
      <3>1. PICK r \in DOMAIN t : i = 3 + r
        BY <2>2
      <3>2. s[i] = t[r]
        BY <1>3, <3>1
      <3>3. t[r].lead = l
        BY DEF Gathered
      <3> QED BY <1>5, <3>1, <3>2, <3>3
    <2> QED BY <1>3, <2>1, <2>2
  <1>7. ASSUME NEW i \in DOMAIN s, NEW j \in DOMAIN s, s[i].pain, s[i] = s[j] PROVE i = j
    <2>1. PICK r \in DOMAIN t : i = 3 + r /\ s[i] = t[r]
      BY <1>6, <1>7
    <2>2. PICK q \in DOMAIN t : j = 3 + q /\ s[j] = t[q]
      BY <1>6, <1>7
    <2>3. r = q
      BY <1>7, <2>1, <2>2 DEF Gathered
    <2> QED BY <2>1, <2>2, <2>3
  <1>8. s[1].type = "lead" /\ s[1].lead = l
    BY <1>1, <1>4, <1>6
  <1>9. AddedRows(s, l, t)
    BY <1>3, <1>4, <1>6, <1>7, <1>8 DEF AddedRows
  <1> QED BY <1>9 DEF s, b

-----------------------------------------------------------------------------
(***************************************************************************)
(* Scores, and documents that stay and are written.                        *)
(***************************************************************************)
\* Whatever is stored of a lead, its score is a number.
LEMMA EvaluateIsNumber ==
  ASSUME R!ResearchAssumption, NEW l \in Candidates,
         evidence[l] \in Seq(ResearchRows), pain_points[l] \in Seq(ResearchRows),
         \A i \in DOMAIN pain_points[l] : pain_points[l][i].type \in R!Pains
  PROVE  R!evaluate(l) \in Int
  <1> DEFINE ev == evidence[l]
             pp == pain_points[l]
             n == Len(pp)
             rows == [i \in DOMAIN ev |-> [type |-> ev[i].type, tier |-> "OBSERVED",
                                           source |-> ev[i].source]]
             types == [i \in 1 .. n |-> pp[i].type]
             points == [i \in 1 .. n |-> R!PAIN_PATTERNS[types[i]]]
  <1>1. n \in Nat /\ DOMAIN pp = 1 .. n
    OBVIOUS
  <1>2. R!evaluate(l) = R!Score(R!Company, R!ICPs, rows, points, TRUE)
    <2>1. [i \in DOMAIN pp |-> R!PAIN_PATTERNS[pp[i].type]] = points
      BY <1>1
    <2>2. R!evaluate(l) = R!Score(R!Company, R!ICPs, rows,
                                  [i \in DOMAIN pp |-> R!PAIN_PATTERNS[pp[i].type]], TRUE)
      BY DEF R!evaluate
    <2> QED BY <2>1, <2>2
  <1>3. R!Score(R!Company, R!ICPs, rows, points, TRUE)
           = Weighed(Marks(R!score_pain(points), R!SignalScore(rows, Urgency),
                           R!SignalScore(rows, Budget), R!SignalScore(rows, Contact),
                           R!TIER_CONFIDENCE[R!corroborated_tier(rows)]))
    BY ScoreIsWeighed
  <1>4. types \in [1 .. n -> R!Pains]
    BY <1>1
  <1>5. rows = [i \in DOMAIN ev |-> [type |-> ev[i].type, tier |-> "OBSERVED",
                                     source |-> ev[i].source]]
    OBVIOUS
  <1>6. \A i \in DOMAIN ev : ev[i].source \in RowSources
    <2>1. \A i \in DOMAIN ev : ev[i] \in ResearchRows
      OBVIOUS
    <2> QED BY <2>1 DEF ResearchRows
  <1> DEFINE some == \E i \in 1 .. n : types[i] = "entry"
  <1> HIDE DEF types, rows
  <1>7. R!score_pain(points) = Hurt(n, some)
    BY <1>1, <1>4, PainWorth
  <1>8. some \in BOOLEAN
    OBVIOUS
  <1> HIDE DEF some, points, n
  <1>9. R!score_pain(points) \in Int
    <2>1. n <= n
      BY <1>1
    <2>2. Hurt(n, some) \in Int
      BY <1>1, <1>8, <2>1, MoreIsWorthMore
    <2> QED BY <1>7, <2>2
  <1>10. \A i \in DOMAIN rows : rows[i].tier = "OBSERVED"
    BY <1>5
  <1>11. ASSUME NEW kinds
         PROVE  R!SignalScore(rows, kinds) \in Int
    <2> DEFINE S == SourcesOf(rows, kinds)
    <2>1. S \in SUBSET RowSources
      <3>1. DOMAIN rows = DOMAIN ev /\ \A i \in DOMAIN ev : rows[i].source = ev[i].source
        BY <1>5
      <3> QED BY <3>1, <1>6 DEF SourcesOf
    <2>2. IsFiniteSet(S)
      BY <2>1, FindingsAreFinite, FS_Subset
    <2>3. R!SignalScore(rows, kinds) = Heard(Cardinality(S))
      BY <1>10, <2>2, SignalWorth
    <2> HIDE DEF S
    <2>4. Cardinality(S) \in Nat
      BY <2>2, FS_CardinalityType
    <2>5. Cardinality(S) <= Cardinality(S)
      BY <2>4
    <2>6. Heard(Cardinality(S)) \in Int
      BY <2>4, <2>5, MoreIsWorthMore
    <2> QED BY <2>3, <2>6
  <1>12. R!TIER_CONFIDENCE[R!corroborated_tier(rows)] \in Int
    BY <1>10, TierWorth
  <1> DEFINE w == Marks(R!score_pain(points), R!SignalScore(rows, Urgency),
                        R!SignalScore(rows, Budget), R!SignalScore(rows, Contact),
                        R!TIER_CONFIDENCE[R!corroborated_tier(rows)])
  <1>13. Below(w, w)
    BY <1>9, <1>11, <1>12 DEF Below, Marks
  <1>14. R!evaluate(l) = Weighed(w)
    BY <1>2, <1>3
  <1> HIDE DEF w
  <1> QED BY <1>13, <1>14, WeighedGrows

\* What depends on the documents only.
LEMMA DocumentsStay ==
  UNCHANGED <<own, shared, ever>> =>
    AllowedRows' = AllowedRows /\ Hurting' = Hurting /\ Worths' = Worths /\ Heeded' = Heeded
  <1> SUFFICES ASSUME UNCHANGED <<own, shared, ever>>
               PROVE  /\ AllowedRows' = AllowedRows /\ Hurting' = Hurting /\ Worths' = Worths
                      /\ Heeded' = Heeded
    OBVIOUS
  <1>1. own' = own /\ shared' = shared /\ ever' = ever
    OBVIOUS
  <1>2. AllowedRows' = AllowedRows
    BY <1>1 DEF AllowedRows, Allowed
  <1>3. Hurting' = Hurting
    BY <1>1 DEF Hurting, R!HasPain, R!_scoped_sources_for_lead, R!AllDocuments, R!Text
  <1>4. Worths' = Worths
    BY <1>1 DEF Worths
  <1>5. Heeded' = Heeded
    BY <1>1 DEF Heeded, R!InScope, R!AllDocuments, R!Text
  <1> QED BY <1>2, <1>3, <1>4, <1>5

\* What the documents tell after a step are findings too.
LEMMA InScopeThen ==
  R!ResearchAssumption => \A l \in Candidates : R!InScope(l)' \in SUBSET Findings
  <1>1. R!ResearchAssumption => \A l \in Candidates : R!InScope(l) \in SUBSET Findings
    BY InScopeIs
  <1>2. (R!ResearchAssumption => \A l \in Candidates : R!InScope(l) \in SUBSET Findings)'
    BY <1>1, PTL
  <1> QED BY <1>2 DEF R!ResearchAssumption

\* A document that is written takes nothing from what was told, whatever it held before.
LEMMA DocumentWritten ==
  ASSUME R!ResearchAssumption, Heeded, R!Written
  PROVE  /\ Heeded'
         /\ AllowedRows \subseteq AllowedRows'
         /\ \A l \in Candidates :
              Worths[l] \in Int /\ Worths'[l] \in Int /\ Worths[l] <= Worths'[l]
  <1>2. \A l \in Candidates : R!InScope(l)' \in SUBSET Findings
    BY InScopeThen
  <1>3. \A l \in Candidates : /\ ever'[l] = ever[l] \cup R!InScope(l)'
                              /\ ever[l] \in SUBSET Findings
    BY DEF R!Written, Heeded
  <1>4. Heeded'
    BY <1>2, <1>3 DEF Heeded
  <1>5. AllowedRows \subseteq AllowedRows'
    <2>1. ASSUME NEW r \in AllowedRows PROVE Allowed(r)'
      <3>1. r.lead \in Candidates /\ Allowed(r)
        BY DEF AllowedRows, ResearchRows
      <3>2. ever[r.lead] \subseteq ever'[r.lead]
        BY <1>3, <3>1
      <3> QED BY <3>1, <3>2 DEF Allowed
    <2> QED BY <2>1 DEF AllowedRows
  <1>6. ASSUME NEW l \in Candidates
        PROVE  Worths[l] \in Int /\ Worths'[l] \in Int /\ Worths[l] <= Worths'[l]
    <2>1. /\ ever[l] \in SUBSET Findings /\ ever'[l] \in SUBSET Findings
          /\ ever[l] \subseteq ever'[l]
      BY <1>2, <1>3
    <2>2. /\ Worth(ever[l]) \in Int /\ Worth(ever[l]) <= Worth(ever'[l])
          /\ Worth(ever'[l]) \in Int
      BY <2>1, WorthGrows
    <2> QED BY <2>2 DEF Worths
  <1> QED BY <1>4, <1>5, <1>6

\* Scores that were no more than the leads deserved are no more than they deserve now.
LEMMA RisingWorth ==
  ASSUME scores \in [Candidates -> Seq(Int)], BelowWorth(scores, Worths),
         \A l \in Candidates : Worths[l] \in Int /\ Worths'[l] \in Int /\ Worths[l] <= Worths'[l]
  PROVE  BelowWorth(scores, Worths')
  <1>1. ASSUME NEW l \in Candidates, NEW i \in DOMAIN scores[l] PROVE scores[l][i] <= Worths'[l]
    <2>1. scores[l] \in Seq(Int)
      OBVIOUS
    <2>2. scores[l][i] \in Int
      BY <2>1, <1>1
    <2>3. scores[l][i] <= Worths[l]
      BY <1>1 DEF BelowWorth
    <2> QED BY <2>2, <2>3
  <1> QED BY <1>1 DEF BelowWorth

-----------------------------------------------------------------------------
(***************************************************************************)
(* A row is written.                                                       *)
(***************************************************************************)
\* f with w at the end of the rows of its lead, if so.
With(f, g, w, so) ==
  \A l \in Candidates :
    /\ \A i \in DOMAIN f[l] : i \in DOMAIN g[l] /\ g[l][i] = f[l][i]
    /\ \A i \in DOMAIN g[l] : \/ i \in DOMAIN f[l] /\ g[l][i] = f[l][i]
                              \/ so /\ w.lead = l /\ i = Len(f[l]) + 1 /\ g[l][i] = w
    /\ f[l] # <<>> => g[l] # <<>>
    /\ so /\ w.lead = l => g[l] # <<>>
    /\ ~(so /\ w.lead = l) => g[l] = f[l]

\* A row put to those of its lead, and to no others.
LEMMA AppendedTo ==
  ASSUME NEW X, NEW f \in [Candidates -> Seq(X)], NEW w \in X, w.lead \in Candidates
  PROVE  /\ [f EXCEPT ![w.lead] = Append(@, w)] \in [Candidates -> Seq(X)]
         /\ With(f, [f EXCEPT ![w.lead] = Append(@, w)], w, TRUE)
  <1> DEFINE g == [f EXCEPT ![w.lead] = Append(@, w)]
             a == Append(f[w.lead], w)
  <1>1. f[w.lead] \in Seq(X)
    OBVIOUS
  <1>2. /\ a \in Seq(X) /\ a # <<>>
        /\ \A i \in DOMAIN f[w.lead] : i \in DOMAIN a /\ a[i] = f[w.lead][i] /\ i # Len(f[w.lead]) + 1
        /\ Len(f[w.lead]) + 1 \in DOMAIN a /\ a[Len(f[w.lead]) + 1] = w
        /\ \A i \in DOMAIN a : i \in DOMAIN f[w.lead] \/ i = Len(f[w.lead]) + 1
    BY <1>1, AppendOf
  <1> HIDE DEF a
  <1>3. g[w.lead] = a /\ \A l \in Candidates \ {w.lead} : g[l] = f[l]
    BY DEF a
  <1>4. g \in [Candidates -> Seq(X)]
    BY <1>2 DEF a
  <1> HIDE DEF g
  <1>5. With(f, g, w, TRUE)
    <2> SUFFICES ASSUME NEW l \in Candidates
                 PROVE  /\ \A i \in DOMAIN f[l] : i \in DOMAIN g[l] /\ g[l][i] = f[l][i]
                        /\ \A i \in DOMAIN g[l] :
                             \/ i \in DOMAIN f[l] /\ g[l][i] = f[l][i]
                             \/ w.lead = l /\ i = Len(f[l]) + 1 /\ g[l][i] = w
                        /\ f[l] # <<>> => g[l] # <<>>
                        /\ w.lead = l => g[l] # <<>>
                        /\ w.lead # l => g[l] = f[l]
      BY DEF With
    <2>1. CASE l = w.lead
      BY <1>2, <1>3, <2>1
    <2>2. CASE l # w.lead
      BY <1>3, <2>2
    <2> QED BY <2>1, <2>2
  <1> QED BY <1>4, <1>5 DEF g

\* What writing the row w comes to.
Wrote(w) ==
  /\ w \in ResearchRows /\ 1 \in DOMAIN resWrites /\ w = resWrites[1]
  /\ resWrites' \in Seq(ResearchRows)
  /\ \A i \in DOMAIN resWrites' :
       i \in Nat /\ i + 1 \in DOMAIN resWrites /\ resWrites'[i] = resWrites[i + 1]
  /\ \A i \in DOMAIN resWrites :
       i \in Nat /\ (i = 1 \/ (i - 1 \in DOMAIN resWrites' /\ resWrites'[i - 1] = resWrites[i]))
  /\ leads' = IF w.type = "lead" THEN leads \cup {w.lead} ELSE leads
  /\ evidence' \in [Candidates -> Seq(ResearchRows)]
  /\ With(evidence, evidence', w, w.type # "lead" /\ ~w.pain)
  /\ pain_points' \in [Candidates -> Seq(ResearchRows)]
  /\ With(pain_points, pain_points', w, w.pain)
  /\ UNCHANGED <<own, shared, ever, scores, command, queue, passed, named>>

\* A write is of the first row to come.
LEMMA WriteEffect ==
  ASSUME ResearchTyped, R!Write
  PROVE  \E w : Wrote(w)
  <1> DEFINE w == Head(resWrites)
  <1>1. resWrites # <<>> /\ resWrites \in Seq(ResearchRows) /\ resWrites' = Tail(resWrites)
    BY DEF R!Write, ResearchTyped
  <1>2. /\ 1 \in DOMAIN resWrites /\ w = resWrites[1] /\ w \in ResearchRows
        /\ resWrites' \in Seq(ResearchRows)
        /\ \A i \in DOMAIN resWrites' :
             i \in Nat /\ i + 1 \in DOMAIN resWrites /\ resWrites'[i] = resWrites[i + 1]
        /\ \A i \in DOMAIN resWrites :
             i \in Nat /\ (i = 1 \/ (i - 1 \in DOMAIN resWrites' /\ resWrites'[i - 1] = resWrites[i]))
    BY <1>1, TailOf
  <1>3. /\ leads' = IF w.type = "lead" THEN leads \cup {w.lead} ELSE leads
        /\ evidence' = IF w.type = "lead" \/ w.pain THEN evidence
                       ELSE [evidence EXCEPT ![w.lead] = Append(@, w)]
        /\ pain_points' = IF w.pain THEN [pain_points EXCEPT ![w.lead] = Append(@, w)] ELSE pain_points
        /\ UNCHANGED <<own, shared, ever, scores, command, queue, passed, named>>
    BY DEF R!Write, R!documents
  <1> HIDE DEF w
  <1>4. w.lead \in Candidates
    BY <1>2 DEF ResearchRows
  <1>5. evidence \in [Candidates -> Seq(ResearchRows)] /\ pain_points \in [Candidates -> Seq(ResearchRows)]
    BY DEF ResearchTyped
  <1>6. \A f : With(f, f, w, FALSE)
    BY DEF With
  <1>7. /\ evidence' \in [Candidates -> Seq(ResearchRows)]
        /\ With(evidence, evidence', w, w.type # "lead" /\ ~w.pain)
    <2>1. CASE w.type = "lead" \/ w.pain
      <3>1. evidence' = evidence
        BY <1>3, <2>1
      <3> QED BY <1>5, <2>1, <3>1 DEF With
    <2>2. CASE ~(w.type = "lead" \/ w.pain)
      <3>1. evidence' = [evidence EXCEPT ![w.lead] = Append(@, w)]
        BY <1>3, <2>2
      <3>2. evidence' \in [Candidates -> Seq(ResearchRows)] /\ With(evidence, evidence', w, TRUE)
        BY <1>2, <1>4, <1>5, <3>1, AppendedTo
      <3> QED BY <2>2, <3>2 DEF With
    <2> QED BY <2>1, <2>2
  <1>8. /\ pain_points' \in [Candidates -> Seq(ResearchRows)]
        /\ With(pain_points, pain_points', w, w.pain)
    <2>1. CASE ~w.pain
      <3>1. pain_points' = pain_points
        BY <1>3, <2>1
      <3> QED BY <1>5, <2>1, <3>1 DEF With
    <2>2. CASE w.pain
      <3>1. pain_points' = [pain_points EXCEPT ![w.lead] = Append(@, w)]
        BY <1>3, <2>2
      <3>2. pain_points' \in [Candidates -> Seq(ResearchRows)] /\ With(pain_points, pain_points', w, TRUE)
        BY <1>2, <1>4, <1>5, <3>1, AppendedTo
      <3> QED BY <2>2, <3>2 DEF With
    <2> QED BY <2>1, <2>2
  <1>9. Wrote(w)
    BY <1>2, <1>3, <1>7, <1>8 DEF Wrote
  <1> QED BY <1>9

\* The rows that are written, one at a time, keep to what was said of them when they were gathered.
LEMMA WriteTyped == ResearchTyped /\ R!Write => ResearchTyped'
  <1> SUFFICES ASSUME ResearchTyped, R!Write PROVE ResearchTyped'
    OBVIOUS
  <1>1. PICK w : Wrote(w)
    BY WriteEffect
  <1>2. w \in ResearchRows /\ w.lead \in Candidates /\ w = resWrites[1] /\ 1 \in DOMAIN resWrites
    BY <1>1 DEF Wrote, ResearchRows
  <1>3. w.pain => w.type \in R!Pains
    BY <1>2 DEF ResearchTyped, Filed
  <1>4. \A l \in Candidates : \A i \in DOMAIN evidence'[l] : evidence'[l][i].lead = l
    <2>1. ASSUME NEW l \in Candidates, NEW i \in DOMAIN evidence'[l]
          PROVE  evidence'[l][i].lead = l
      <3>1. (i \in DOMAIN evidence[l] /\ evidence'[l][i] = evidence[l][i])
            \/ (w.lead = l /\ evidence'[l][i] = w)
        BY <1>1, <2>1 DEF Wrote, With
      <3> QED BY <3>1 DEF ResearchTyped, Filed
    <2> QED BY <2>1
  <1>5. \A l \in Candidates : \A i \in DOMAIN pain_points'[l] :
          /\ pain_points'[l][i].lead = l /\ pain_points'[l][i].pain
          /\ pain_points'[l][i].type \in R!Pains
    <2>1. ASSUME NEW l \in Candidates, NEW i \in DOMAIN pain_points'[l]
          PROVE  /\ pain_points'[l][i].lead = l /\ pain_points'[l][i].pain
                 /\ pain_points'[l][i].type \in R!Pains
      <3>1. (i \in DOMAIN pain_points[l] /\ pain_points'[l][i] = pain_points[l][i])
            \/ (w.pain /\ w.lead = l /\ pain_points'[l][i] = w)
        BY <1>1, <2>1 DEF Wrote, With
      <3>2. CASE i \in DOMAIN pain_points[l] /\ pain_points'[l][i] = pain_points[l][i]
        <4>1. /\ pain_points[l][i].lead = l /\ pain_points[l][i].pain
              /\ pain_points[l][i].type \in R!Pains
          BY <3>2 DEF ResearchTyped, Filed
        <4> QED BY <3>2, <4>1
      <3>3. CASE w.pain /\ w.lead = l /\ pain_points'[l][i] = w
        BY <1>3, <3>3
      <3> QED BY <3>1, <3>2, <3>3
    <2> QED BY <2>1
  <1>6. \A i \in DOMAIN resWrites' : resWrites'[i].pain => resWrites'[i].type \in R!Pains
    BY <1>1 DEF Wrote, ResearchTyped, Filed
  <1>7. Filed(evidence, pain_points, resWrites)'
    BY <1>4, <1>5, <1>6 DEF Filed
  <1>8. /\ own' = [l \in Candidates |-> own'[l]] /\ leads' \in SUBSET Candidates
        /\ scores' \in [Candidates -> Seq(Int)] /\ queue' \in Seq(Candidates)
    BY <1>1, <1>2 DEF Wrote, ResearchTyped
  <1>9. Heeded'
    BY <1>1, DocumentsStay DEF Wrote, ResearchTyped
  <1> QED BY <1>1, <1>7, <1>8, <1>9 DEF Wrote, ResearchTyped

LEMMA WriteGoesOn == ResearchTyped /\ ResearchGoesOn /\ R!Write => ResearchGoesOn'
  <1> SUFFICES ASSUME ResearchTyped, ResearchGoesOn, R!Write PROVE ResearchGoesOn'
    OBVIOUS
  <1>1. PICK w : Wrote(w)
    BY WriteEffect
  <1>2. w \in ResearchRows /\ w.lead \in Candidates /\ w = resWrites[1] /\ 1 \in DOMAIN resWrites
    BY <1>1 DEF Wrote, ResearchRows
  <1>3. resWrites # <<>>
    BY <1>2
  <1>4. command # "none" /\ command' = command /\ passed' = passed /\ queue' = queue /\ scores' = scores
    BY <1>1, <1>3 DEF ResearchGoesOn, Wrote
  <1>5. Hurting' = Hurting
    BY <1>1, DocumentsStay DEF Wrote
  <1>6. leads \subseteq leads' /\ w.lead \in leads' /\ (w.type = "lead" \/ leads' = leads)
    <2>1. w.lead \in leads \/ \E j \in 1 .. 1 : resWrites[j].type = "lead" /\ resWrites[j].lead = w.lead
      BY <1>2 DEF ResearchGoesOn, Announced
    <2>2. w.lead \in leads \/ w.type = "lead"
      BY <2>1, <1>2
    <2> QED BY <2>2, <1>1 DEF Wrote
  <1>7. Unborn(leads, evidence, pain_points, scores)'
    <2>1. ASSUME NEW l \in Candidates \ leads'
          PROVE  evidence'[l] = <<>> /\ pain_points'[l] = <<>> /\ scores'[l] = <<>>
      <3>1. l \notin leads /\ w.lead # l
        BY <1>6, <2>1
      <3>2. evidence'[l] = evidence[l] /\ pain_points'[l] = pain_points[l]
        BY <3>1, <1>1 DEF Wrote, With
      <3> QED BY <1>4, <3>1, <3>2 DEF ResearchGoesOn, Unborn
    <2> QED BY <2>1 DEF Unborn
  <1>8. Announced(resWrites, leads)'
    <2>1. ASSUME NEW i \in DOMAIN resWrites', resWrites'[i].lead \notin leads'
          PROVE  \E j \in 1 .. i : resWrites'[j].type = "lead" /\ resWrites'[j].lead = resWrites'[i].lead
      <3>1. i \in Nat /\ i + 1 \in DOMAIN resWrites /\ resWrites'[i] = resWrites[i + 1]
        BY <1>1 DEF Wrote
      <3>2. PICK j \in 1 .. i + 1 : resWrites[j].type = "lead" /\ resWrites[j].lead = resWrites[i + 1].lead
        BY <1>6, <2>1, <3>1 DEF ResearchGoesOn, Announced
      <3>3. j # 1
        BY <1>2, <1>6, <2>1, <3>1, <3>2
      <3>4. j \in DOMAIN resWrites
        BY <3>1, <3>2 DEF ResearchTyped
      <3>5. j - 1 \in DOMAIN resWrites' /\ resWrites'[j - 1] = resWrites[j]
        BY <1>1, <3>3, <3>4 DEF Wrote
      <3>6. j - 1 \in 1 .. i
        BY <3>1, <3>2, <3>3
      <3> QED BY <3>1, <3>2, <3>5, <3>6
    <2> QED BY <2>1 DEF Announced
  <1>9. Expected(queue, resWrites, leads)'
    <2>1. ASSUME NEW i \in DOMAIN queue, queue[i] \notin leads'
          PROVE  \E j \in DOMAIN resWrites' : resWrites'[j].type = "lead" /\ resWrites'[j].lead = queue[i]
      <3>1. PICK j \in DOMAIN resWrites : resWrites[j].type = "lead" /\ resWrites[j].lead = queue[i]
        BY <1>6, <2>1 DEF ResearchGoesOn, Expected
      <3>2. j # 1
        BY <1>2, <1>6, <2>1, <3>1
      <3>3. j - 1 \in DOMAIN resWrites' /\ resWrites'[j - 1] = resWrites[j]
        BY <1>1, <3>1, <3>2 DEF Wrote
      <3> QED BY <3>1, <3>3
    <2> QED BY <1>4, <2>1 DEF Expected
  <1>10. (command = "research" \/ passed = "yes")' =>
           NoLead(resWrites)' /\ leads' = leads
    <2> SUFFICES ASSUME command = "research" \/ passed = "yes" PROVE NoLead(resWrites)' /\ leads' = leads
      BY <1>4
    <2>1. NoLead(resWrites)
      BY DEF ResearchGoesOn
    <2>2. w.type # "lead"
      BY <1>2, <2>1 DEF NoLead
    <2>3. NoLead(resWrites)'
      BY <1>1, <2>1 DEF Wrote, NoLead
    <2> QED BY <1>6, <2>2, <2>3
  <1>11. ASSUME passed' = "yes", Cardinality(leads') <= Page
         PROVE  Covered(leads \cap Hurting, pain_points, <<>>, <<>>)'
    <2>1. leads' = leads /\ Covered(leads \cap Hurting, pain_points, <<>>, <<>>)
      BY <1>4, <1>10, <1>11 DEF ResearchGoesOn
    <2>2. ASSUME NEW l \in leads \cap Hurting PROVE pain_points'[l] # <<>>
      <3>1. pain_points[l] # <<>> /\ l \in Candidates
        BY <2>1 DEF Covered, ResearchTyped
      <3> QED BY <1>1, <3>1 DEF Wrote, With
    <2> QED BY <1>5, <2>1, <2>2 DEF Covered
  <1>12. ASSUME command' = "research", passed' = "begun", Cardinality(leads') <= Page
         PROVE  Covered(leads \cap Hurting, pain_points, queue, resWrites)'
    <2>1. leads' = leads /\ Covered(leads \cap Hurting, pain_points, queue, resWrites)
      BY <1>4, <1>10, <1>12 DEF ResearchGoesOn
    <2>2. ASSUME NEW l \in leads \cap Hurting
          PROVE  \/ pain_points'[l] # <<>> \/ \E i \in DOMAIN queue : queue[i] = l
                 \/ \E i \in DOMAIN resWrites' : resWrites'[i].pain /\ resWrites'[i].lead = l
      <3>1. l \in Candidates
        BY DEF ResearchTyped
      <3>2. CASE pain_points[l] # <<>>
        BY <1>1, <3>1, <3>2 DEF Wrote, With
      <3>3. CASE \E i \in DOMAIN queue : queue[i] = l
        BY <3>3
      <3>4. CASE \E i \in DOMAIN resWrites : resWrites[i].pain /\ resWrites[i].lead = l
        <4>1. PICK i \in DOMAIN resWrites : resWrites[i].pain /\ resWrites[i].lead = l
          BY <3>4
        <4>2. CASE i = 1
          BY <1>1, <1>2, <3>1, <4>1, <4>2 DEF Wrote, With
        <4>3. CASE i # 1
          <5>1. i - 1 \in DOMAIN resWrites' /\ resWrites'[i - 1] = resWrites[i]
            BY <1>1, <4>1, <4>3 DEF Wrote
          <5> QED BY <4>1, <5>1
        <4> QED BY <4>2, <4>3
      <3> QED BY <2>1, <3>2, <3>3, <3>4 DEF Covered
    <2> QED BY <1>4, <1>5, <2>1, <2>2 DEF Covered
  <1> QED BY <1>4, <1>7, <1>8, <1>9, <1>10, <1>11, <1>12 DEF ResearchGoesOn

LEMMA WriteTrue == ResearchTyped /\ ResearchIsTrue /\ R!Write => ResearchIsTrue'
  <1> SUFFICES ASSUME ResearchTyped, ResearchIsTrue, R!Write, ~named' PROVE ResearchIsTrue'
    BY DEF ResearchIsTrue
  <1>1. PICK w : Wrote(w)
    BY WriteEffect
  <1>2. w \in ResearchRows /\ w.lead \in Candidates /\ w = resWrites[1] /\ 1 \in DOMAIN resWrites
    BY <1>1 DEF Wrote, ResearchRows
  <1>3. ~named /\ scores' = scores
    BY <1>1 DEF Wrote
  <1>4. AllowedRows' = AllowedRows /\ Worths' = Worths
    BY <1>1, DocumentsStay DEF Wrote
  <1>5. /\ resWrites \in Seq(AllowedRows)
        /\ \A l \in Candidates : evidence[l] \in Seq(AllowedRows) /\ pain_points[l] \in Seq(AllowedRows)
        /\ FromOnePlace(resWrites, evidence) /\ PainOnce(resWrites, pain_points)
        /\ BelowWorth(scores, Worths)
    BY <1>3 DEF ResearchIsTrue
  <1>6. \A i \in DOMAIN resWrites : resWrites[i] \in AllowedRows
    BY <1>5
  <1>7. w \in AllowedRows
    BY <1>2, <1>6
  <1>8. resWrites' \in Seq(AllowedRows)
    <2>1. \A i \in DOMAIN resWrites' : resWrites'[i] \in AllowedRows
      BY <1>1, <1>6 DEF Wrote
    <2>2. resWrites' \in Seq(ResearchRows)
      BY <1>1 DEF Wrote
    <2> QED BY <2>1, <2>2, AllOf
  <1>9. ASSUME NEW l \in Candidates
        PROVE  evidence'[l] \in Seq(AllowedRows) /\ pain_points'[l] \in Seq(AllowedRows)
    <2>1. evidence'[l] \in Seq(ResearchRows) /\ pain_points'[l] \in Seq(ResearchRows)
      BY <1>1 DEF Wrote
    <2>2. \A i \in DOMAIN evidence[l] : evidence[l][i] \in AllowedRows
      BY <1>5
    <2>3. \A i \in DOMAIN pain_points[l] : pain_points[l][i] \in AllowedRows
      BY <1>5
    <2>4. \A i \in DOMAIN evidence'[l] : evidence'[l][i] \in AllowedRows
      BY <1>1, <1>7, <2>2 DEF Wrote, With
    <2>5. \A i \in DOMAIN pain_points'[l] : pain_points'[l][i] \in AllowedRows
      BY <1>1, <1>7, <2>3 DEF Wrote, With
    <2> QED BY <2>1, <2>4, <2>5, AllOf
  <1>10. FromOnePlace(resWrites, evidence)'
    <2>1. ASSUME NEW l \in Candidates
          PROVE  \E o \in {R!Roster, R!Manual} :
                   /\ \A i \in DOMAIN resWrites' :
                        resWrites'[i].lead = l /\ resWrites'[i].source < 0 => resWrites'[i].source = o
                   /\ \A i \in DOMAIN evidence'[l] :
                        evidence'[l][i].source < 0 => evidence'[l][i].source = o
      <3>1. PICK o \in {R!Roster, R!Manual} :
              /\ \A i \in DOMAIN resWrites :
                   resWrites[i].lead = l /\ resWrites[i].source < 0 => resWrites[i].source = o
              /\ \A i \in DOMAIN evidence[l] :
                   evidence[l][i].source < 0 => evidence[l][i].source = o
        BY <1>5 DEF FromOnePlace
      <3>2. \A i \in DOMAIN resWrites' :
              resWrites'[i].lead = l /\ resWrites'[i].source < 0 => resWrites'[i].source = o
        BY <1>1, <3>1 DEF Wrote
      <3>3. \A i \in DOMAIN evidence'[l] :
              \/ i \in DOMAIN evidence[l] /\ evidence'[l][i] = evidence[l][i]
              \/ w.lead = l /\ evidence'[l][i] = w
        BY <1>1 DEF Wrote, With
      <3>4. w.lead = l /\ w.source < 0 => w.source = o
        BY <1>2, <3>1
      <3>5. \A i \in DOMAIN evidence'[l] : evidence'[l][i].source < 0 => evidence'[l][i].source = o
        BY <3>1, <3>3, <3>4
      <3> QED BY <3>2, <3>5
    <2> QED BY <2>1 DEF FromOnePlace
  <1>11. PainOnce(resWrites, pain_points)'
    <2>1. /\ \A l \in Candidates : \A i, j \in DOMAIN pain_points[l] :
               pain_points[l][i] = pain_points[l][j] => i = j
          /\ \A i, j \in DOMAIN resWrites : resWrites[i].pain /\ resWrites[i] = resWrites[j] => i = j
          /\ \A i \in DOMAIN resWrites : resWrites[i].pain =>
               \A j \in DOMAIN pain_points[resWrites[i].lead] :
                 pain_points[resWrites[i].lead][j] # resWrites[i]
      BY <1>5 DEF PainOnce
    <2>2. \A l \in Candidates : \A i \in DOMAIN pain_points'[l] :
            \/ i \in DOMAIN pain_points[l] /\ pain_points'[l][i] = pain_points[l][i]
            \/ /\ w.pain /\ w.lead = l /\ i = Len(pain_points[l]) + 1 /\ pain_points'[l][i] = w
      BY <1>1 DEF Wrote, With
    <2>3. w.pain => \A j \in DOMAIN pain_points[w.lead] : pain_points[w.lead][j] # w
      BY <1>2, <2>1
    <2>4. ASSUME NEW l \in Candidates, NEW i \in DOMAIN pain_points'[l], NEW j \in DOMAIN pain_points'[l],
                 pain_points'[l][i] = pain_points'[l][j]
          PROVE  i = j
      BY <2>1, <2>2, <2>3, <2>4
    <2>5. ASSUME NEW i \in DOMAIN resWrites', NEW j \in DOMAIN resWrites',
                 resWrites'[i].pain, resWrites'[i] = resWrites'[j]
          PROVE  i = j
      <3>1. /\ i \in Nat /\ i + 1 \in DOMAIN resWrites /\ resWrites'[i] = resWrites[i + 1]
            /\ j \in Nat /\ j + 1 \in DOMAIN resWrites /\ resWrites'[j] = resWrites[j + 1]
        BY <1>1 DEF Wrote
      <3>2. i + 1 = j + 1
        BY <2>1, <2>5, <3>1
      <3> QED BY <3>1, <3>2
    <2>6. ASSUME NEW i \in DOMAIN resWrites', resWrites'[i].pain,
                 NEW j \in DOMAIN pain_points'[resWrites'[i].lead]
          PROVE  pain_points'[resWrites'[i].lead][j] # resWrites'[i]
      <3>1. i \in Nat /\ i + 1 \in DOMAIN resWrites /\ resWrites'[i] = resWrites[i + 1]
        BY <1>1 DEF Wrote
      <3>2. resWrites[i + 1] \in ResearchRows
        BY <3>1 DEF ResearchTyped
      <3>3. resWrites[i + 1].lead \in Candidates
        BY <3>2 DEF ResearchRows
      <3>4. w # resWrites[i + 1]
        <4>1. resWrites[1] = resWrites[i + 1] => 1 = i + 1
          BY <1>2, <2>1, <2>6, <3>1
        <4> QED BY <1>2, <3>1, <4>1, <2>6, <1>1 DEF Wrote, ResearchTyped
      <3> QED BY <2>1, <2>2, <2>6, <3>1, <3>3, <3>4
    <2> QED BY <2>4, <2>5, <2>6 DEF PainOnce
  <1>12. BelowWorth(scores, Worths)'
    BY <1>3, <1>4, <1>5 DEF BelowWorth
  <1> QED BY <1>4, <1>8, <1>9, <1>10, <1>11, <1>12 DEF ResearchIsTrue

-----------------------------------------------------------------------------
(***************************************************************************)
(* The commands.                                                           *)
(***************************************************************************)
\* What a command that begins leaves alone, and that nothing was under way.
Starts(c) ==
  /\ command = "none" /\ command' = c
  /\ UNCHANGED <<leads, evidence, pain_points, scores>>

\* A command begins when none runs.
LEMMA StartsFrom ==
  ASSUME NEW c, R!Begins(c), ResearchInv
  PROVE  Starts(c) /\ resWrites = <<>> /\ queue = <<>>
  BY DEF R!Begins, R!ledger, Starts, ResearchInv, ResearchGoesOn

\* A discovery enters only who is no lead yet (tools/base.py: SalesDiscoverTool).
LEMMA DiscoverStep ==
  ASSUME R!ResearchAssumption, ResearchInv, NEW limit \in Candidates, R!Discover(limit)
  PROVE  ResearchInv'
  <1> DEFINE S == {l \in Candidates : l <= limit} \ leads
             s == resWrites'
  <1>1. Starts("discover") /\ resWrites = <<>> /\ queue = <<>>
    BY StartsFrom DEF R!Discover
  <1>2. /\ passed' = "no" /\ UNCHANGED <<own, shared, ever, queue, named>>
        /\ s = R!FlattenSeq([i \in DOMAIN R!InOrder(S) |-> R!Birth(R!InOrder(S)[i], R!Roster)])
    BY DEF R!Discover, R!documents
  <1>3. S \in SUBSET Candidates /\ S \cap leads = {}
    OBVIOUS
  <1> HIDE DEF S
  <1>4. FirstRows(s, S, R!Roster)
    BY <1>2, <1>3, DiscoveredRows
  <1>5. UNCHANGED <<leads, evidence, pain_points, scores>> /\ command' = "discover"
    BY <1>1 DEF Starts
  <1>6. AllowedRows' = AllowedRows /\ Worths' = Worths /\ Heeded' = Heeded
    BY <1>2, DocumentsStay
  <1>7. \A i \in DOMAIN s : /\ s[i] \in ResearchRows /\ s[i].lead \in S /\ s[i].source = R!Roster
                            /\ ~s[i].pain /\ s[i].type \in {"lead", "provenance", "contact_info"}
    BY <1>4 DEF FirstRows
  <1>8. ResearchTyped'
    <2>1. Filed(evidence, pain_points, resWrites)'
      BY <1>5, <1>7 DEF Filed, ResearchInv, ResearchTyped
    <2> QED BY <1>2, <1>4, <1>5, <1>6, <2>1 DEF ResearchInv, ResearchTyped, FirstRows
  <1>9. ResearchGoesOn'
    <2>1. Announced(resWrites, leads)'
      BY <1>4 DEF Announced, FirstRows
    <2>2. Expected(queue, resWrites, leads)'
      BY <1>1, <1>2 DEF Expected
    <2>3. Unborn(leads, evidence, pain_points, scores)'
      BY <1>5 DEF ResearchInv, ResearchGoesOn, Unborn
    <2> QED BY <1>2, <1>5, <2>1, <2>2, <2>3 DEF ResearchGoesOn
  <1>10. ASSUME ~named' PROVE ResearchIsTrue'
    <2>1. /\ \A l \in Candidates : evidence[l] \in Seq(AllowedRows) /\ pain_points[l] \in Seq(AllowedRows)
          /\ FromOnePlace(resWrites, evidence) /\ PainOnce(resWrites, pain_points)
          /\ BelowWorth(scores, Worths)
      BY <1>2, <1>10 DEF ResearchInv, ResearchIsTrue
    <2>2. R!Roster < 0 /\ R!Roster \in Int
      BY DEF R!Roster
    <2>3. s \in Seq(AllowedRows)
      <3>1. \A i \in DOMAIN s : s[i] \in AllowedRows
        BY <1>7, <2>2 DEF AllowedRows, Allowed
      <3>2. s \in Seq(ResearchRows)
        BY <1>4 DEF FirstRows
      <3> QED BY <3>1, <3>2, AllOf
    <2>4. FromOnePlace(s, evidence)
      <3>1. ASSUME NEW l \in Candidates
            PROVE  \E o \in {R!Roster, R!Manual} :
                     /\ \A i \in DOMAIN s : s[i].lead = l /\ s[i].source < 0 => s[i].source = o
                     /\ \A i \in DOMAIN evidence[l] :
                          evidence[l][i].source < 0 => evidence[l][i].source = o
        <4>1. CASE l \in S
          <5>1. evidence[l] = <<>>
            BY <1>3, <4>1 DEF ResearchInv, ResearchGoesOn, Unborn
          <5> QED BY <1>7, <5>1
        <4>2. CASE l \notin S
          <5>1. \A i \in DOMAIN s : s[i].lead # l
            BY <1>7, <4>2
          <5>2. PICK o \in {R!Roster, R!Manual} :
                  \A i \in DOMAIN evidence[l] : evidence[l][i].source < 0 => evidence[l][i].source = o
            BY <2>1 DEF FromOnePlace
          <5> QED BY <5>1, <5>2
        <4> QED BY <4>1, <4>2
      <3> QED BY <3>1 DEF FromOnePlace
    <2>5. PainOnce(s, pain_points)
      BY <1>7, <2>1 DEF PainOnce
    <2> QED BY <1>5, <1>6, <2>1, <2>3, <2>4, <2>5 DEF ResearchIsTrue
  <1>11. ResearchIsTrue'
    BY <1>10 DEF ResearchIsTrue
  <1> QED BY <1>8, <1>9, <1>11 DEF ResearchInv

\* What is researched from the document that is just being written.
LEMMA GatheredThen ==
  R!ResearchAssumption =>
    \A l \in Candidates : /\ Gathered(R!research_lead(l, {l})', l)
                          /\ Heeded' /\ l \in R!_scoped_sources_for_lead(l)'
                               => R!research_lead(l, {l})' \in Seq(AllowedRows')
  <1>1. (R!ResearchAssumption =>
           \A l \in Candidates : \A S \in SUBSET (Candidates \cup {0}) : Gathered(R!research_lead(l, S), l))'
    BY GatheredRows, PTL
  <1>2. (R!ResearchAssumption /\ Heeded =>
           \A l \in Candidates : \A S \in SUBSET R!_scoped_sources_for_lead(l) :
             R!research_lead(l, S) \in Seq(AllowedRows))'
    BY AllowedGathered, PTL
  <1> SUFFICES ASSUME R!ResearchAssumption, NEW l \in Candidates
               PROVE  /\ Gathered(R!research_lead(l, {l})', l)
                      /\ Heeded' /\ l \in R!_scoped_sources_for_lead(l)'
                           => R!research_lead(l, {l})' \in Seq(AllowedRows')
    OBVIOUS
  <1>3. Gathered(R!research_lead(l, {l})', l)
    BY <1>1 DEF R!ResearchAssumption
  <1>4. ASSUME Heeded', l \in R!_scoped_sources_for_lead(l)'
        PROVE  R!research_lead(l, {l})' \in Seq(AllowedRows')
    BY <1>2, <1>4 DEF R!ResearchAssumption
  <1> QED BY <1>3, <1>4

\* Somebody writes a document, or gives one for a lead there is: no row comes of it.
LEMMA DocumentStep ==
  ASSUME R!ResearchAssumption, ResearchInv, R!Written, own' = [l \in Candidates |-> own'[l]],
         UNCHANGED <<leads, evidence, pain_points, scores, queue, resWrites, named>>,
         \/ command' = command
         \/ command = "none" /\ command' = "score"
  PROVE  ResearchInv'
  <1>1. /\ Heeded' /\ AllowedRows \subseteq AllowedRows'
        /\ \A l \in Candidates :
             Worths[l] \in Int /\ Worths'[l] \in Int /\ Worths[l] <= Worths'[l]
    BY DocumentWritten DEF ResearchInv, ResearchTyped
  <1>2. passed' = "no"
    BY DEF R!Written
  <1>3. ResearchTyped'
    BY <1>1 DEF ResearchInv, ResearchTyped, Filed
  <1>4. ResearchGoesOn'
    BY <1>2 DEF ResearchInv, ResearchGoesOn, Unborn, Announced, Expected, NoLead
  <1>5. ASSUME ~named' PROVE ResearchIsTrue'
    <2>1. /\ resWrites \in Seq(AllowedRows)
          /\ \A l \in Candidates : evidence[l] \in Seq(AllowedRows) /\ pain_points[l] \in Seq(AllowedRows)
          /\ FromOnePlace(resWrites, evidence) /\ PainOnce(resWrites, pain_points)
          /\ BelowWorth(scores, Worths)
      BY <1>5 DEF ResearchInv, ResearchIsTrue
    <2>2. \A s \in Seq(AllowedRows) : s \in Seq(AllowedRows')
      BY <1>1
    <2>3. BelowWorth(scores, Worths')
      BY <1>1, <2>1, RisingWorth DEF ResearchInv, ResearchTyped
    <2> QED BY <2>1, <2>2, <2>3 DEF ResearchIsTrue, FromOnePlace, PainOnce, BelowWorth
  <1> QED BY <1>3, <1>4, <1>5 DEF ResearchInv, ResearchIsTrue

\* What becomes of the documents when a lead is added.
LEMMA AddWrites ==
  ASSUME R!ResearchAssumption, ResearchInv, NEW k \in Candidates, NEW text, NEW atOnce \in BOOLEAN,
         R!Add(k, text, atOnce)
  PROVE  /\ own' = [l \in Candidates |-> own'[l]]
         /\ k \in R!_scoped_sources_for_lead(k)'
         /\ R!Written
  <1>1. own = [l \in Candidates |-> own[l]]
    BY DEF ResearchInv, ResearchTyped
  <1>2. R!_write_skeleton_doc # R!Absent
    <2>1. "entry" \in R!_write_skeleton_doc /\ "entry" \notin R!Absent
      BY DEF R!_write_skeleton_doc, R!Absent
    <2> QED BY <2>1
  <1>3. own' = [own EXCEPT ![k] = IF text = R!Absent /\ own[k] = R!Absent THEN R!_write_skeleton_doc
                                  ELSE IF text # R!Absent THEN text ELSE @]
    BY DEF R!Add
  <1>4. own'[k] # R!Absent /\ own' = [l \in Candidates |-> own'[l]]
    BY <1>1, <1>2, <1>3
  <1>5. k \in R!AllDocuments'
    BY <1>4 DEF R!AllDocuments
  <1> QED BY <1>4, <1>5 DEF R!_scoped_sources_for_lead, R!Add

\* Of a lead that is new: the first rows, and what its document tells.
LEMMA NewStep ==
  ASSUME R!ResearchAssumption, ResearchInv, NEW k \in Candidates, NEW text, NEW atOnce \in BOOLEAN,
         R!Add(k, text, atOnce), k \notin leads
  PROVE  ResearchInv'
  <1> DEFINE s == resWrites'
             t == IF atOnce THEN R!research_lead(k, {k})' ELSE <<>>
  <1>1. Starts("score") /\ resWrites = <<>> /\ queue = <<>>
    BY StartsFrom DEF R!Add
  <1>2. /\ passed' = "no" /\ UNCHANGED named
        /\ s = R!Birth(k, R!Manual) \o t
        /\ queue' = IF atOnce THEN <<k>> ELSE <<>>
    BY DEF R!Add, R!Written
  <1>3. UNCHANGED <<leads, evidence, pain_points, scores>> /\ command' = "score"
    BY <1>1 DEF Starts
  <1>4. /\ own' = [l \in Candidates |-> own'[l]]
        /\ k \in R!_scoped_sources_for_lead(k)'
        /\ R!Written
    BY AddWrites
  <1>5. /\ Heeded' /\ AllowedRows \subseteq AllowedRows'
        /\ \A l \in Candidates :
             Worths[l] \in Int /\ Worths'[l] \in Int /\ Worths[l] <= Worths'[l]
    BY <1>4, DocumentWritten DEF ResearchInv, ResearchTyped
  <1>6. Gathered(t, k) /\ t \in Seq(AllowedRows')
    <2>1. Gathered(<<>>, k) /\ <<>> \in Seq(AllowedRows')
      BY DEF Gathered
    <2> QED BY <1>4, <1>5, <2>1, GatheredThen
  <1> HIDE DEF t
  <1>7. AddedRows(s, k, t)
    BY <1>2, <1>6, AddedByHand
  <1>8. \A i \in DOMAIN s : /\ s[i] \in ResearchRows /\ i \in Nat /\ i >= 1 /\ s[i].lead = k
                            /\ \/ /\ s[i].source = R!Manual /\ ~s[i].pain
                                  /\ s[i].type \in {"lead", "provenance", "contact_info"}
                               \/ \E r \in DOMAIN t : s[i] = t[r]
    BY <1>7 DEF AddedRows
  <1>9. evidence[k] = <<>> /\ pain_points[k] = <<>> /\ scores[k] = <<>>
    BY <1>2 DEF ResearchInv, ResearchGoesOn, Unborn
  <1>10. ResearchTyped'
    <2>1. \A i \in DOMAIN s : s[i].pain => s[i].type \in R!Pains
      <3>1. ASSUME NEW i \in DOMAIN s, s[i].pain PROVE s[i].type \in R!Pains
        <4>1. PICK r \in DOMAIN t : s[i] = t[r]
          BY <1>8, <3>1
        <4> QED BY <1>6, <3>1, <4>1 DEF Gathered
      <3> QED BY <3>1
    <2>2. Filed(evidence, pain_points, resWrites)'
      BY <1>3, <2>1 DEF Filed, ResearchInv, ResearchTyped
    <2>4. queue' \in Seq(Candidates)
      BY <1>2
    <2> QED BY <1>3, <1>4, <1>5, <1>7, <2>2, <2>4 DEF ResearchInv, ResearchTyped, AddedRows
  <1>11. ResearchGoesOn'
    <2>1. Announced(resWrites, leads)'
      <3>1. \A i \in DOMAIN s : 1 \in 1 .. i /\ s[1].type = "lead" /\ s[1].lead = s[i].lead
        BY <1>7, <1>8 DEF AddedRows
      <3> QED BY <3>1 DEF Announced
    <2>2. Expected(queue, resWrites, leads)'
      <3>1. \A i \in DOMAIN queue' : queue'[i] = k
        BY <1>2
      <3> QED BY <1>7, <3>1 DEF Expected, AddedRows
    <2>3. Unborn(leads, evidence, pain_points, scores)'
      BY <1>3 DEF ResearchInv, ResearchGoesOn, Unborn
    <2> QED BY <1>2, <1>3, <2>1, <2>2, <2>3 DEF ResearchGoesOn
  <1>12. ASSUME ~named' PROVE ResearchIsTrue'
    <2>1. /\ \A l \in Candidates : evidence[l] \in Seq(AllowedRows) /\ pain_points[l] \in Seq(AllowedRows)
          /\ FromOnePlace(resWrites, evidence) /\ PainOnce(resWrites, pain_points)
          /\ BelowWorth(scores, Worths)
      BY <1>2, <1>12 DEF ResearchInv, ResearchIsTrue
    <2>2. R!Manual < 0 /\ R!Manual \in Int
      BY DEF R!Manual
    <2>3. s \in Seq(AllowedRows)'
      <3>1. ASSUME NEW i \in DOMAIN s PROVE s[i] \in AllowedRows'
        <4>1. CASE \E r \in DOMAIN t : s[i] = t[r]
          BY <1>6, <4>1
        <4>2. CASE /\ s[i].source = R!Manual /\ ~s[i].pain
                   /\ s[i].type \in {"lead", "provenance", "contact_info"}
          <5>1. s[i] \in ResearchRows
            BY <1>8
          <5> QED BY <2>2, <4>2, <5>1 DEF AllowedRows, Allowed
        <4> QED BY <1>8, <4>1, <4>2
      <3>2. s \in Seq(ResearchRows)
        BY <1>7 DEF AddedRows
      <3>3. s \in Seq(AllowedRows')
        BY <3>1, <3>2, AllOf
      <3> QED BY <3>3
    <2>4. ASSUME NEW l \in Candidates
          PROVE  evidence[l] \in Seq(AllowedRows') /\ pain_points[l] \in Seq(AllowedRows')
      BY <1>5, <2>1
    <2>5. FromOnePlace(s, evidence)
      <3>1. ASSUME NEW l \in Candidates
            PROVE  \E o \in {R!Roster, R!Manual} :
                     /\ \A i \in DOMAIN s : s[i].lead = l /\ s[i].source < 0 => s[i].source = o
                     /\ \A i \in DOMAIN evidence[l] :
                          evidence[l][i].source < 0 => evidence[l][i].source = o
        <4>1. CASE l = k
          <5>1. ASSUME NEW i \in DOMAIN s, s[i].source < 0 PROVE s[i].source = R!Manual
            <6>1. ASSUME NEW r \in DOMAIN t PROVE ~(t[r].source < 0)
              <7>1. t[r] \in ResearchRows /\ t[r].source >= 0
                BY <1>6 DEF Gathered
              <7>2. t[r].source \in Int
                BY <7>1, SourceNumbers DEF ResearchRows
              <7> QED BY <7>1, <7>2
            <6> QED BY <1>8, <5>1, <6>1
          <5> QED BY <1>9, <4>1, <5>1
        <4>2. CASE l # k
          <5>1. \A i \in DOMAIN s : s[i].lead # l
            BY <1>8, <4>2
          <5>2. PICK o \in {R!Roster, R!Manual} :
                  \A i \in DOMAIN evidence[l] : evidence[l][i].source < 0 => evidence[l][i].source = o
            BY <2>1 DEF FromOnePlace
          <5> QED BY <5>1, <5>2
        <4> QED BY <4>1, <4>2
      <3> QED BY <3>1 DEF FromOnePlace
    <2>6. PainOnce(s, pain_points)
      <3>1. \A i, j \in DOMAIN s : s[i].pain /\ s[i] = s[j] => i = j
        BY <1>7 DEF AddedRows
      <3>2. \A i \in DOMAIN s : pain_points[s[i].lead] = <<>>
        BY <1>8, <1>9
      <3> QED BY <2>1, <3>1, <3>2 DEF PainOnce
    <2>7. BelowWorth(scores, Worths')
      BY <1>5, <2>1, RisingWorth DEF ResearchInv, ResearchTyped
    <2> QED BY <1>3, <2>3, <2>4, <2>5, <2>6, <2>7 DEF ResearchIsTrue
  <1>13. ResearchIsTrue'
    BY <1>12 DEF ResearchIsTrue
  <1> QED BY <1>10, <1>11, <1>13 DEF ResearchInv

\* A lead added by hand is new, or its document alone is; a document takes nothing from
\* any lead (sales/cli.py: cmd_add).
LEMMA AddStep ==
  ASSUME R!ResearchAssumption, ResearchInv, NEW k \in Candidates, NEW text, NEW atOnce \in BOOLEAN,
         R!Add(k, text, atOnce)
  PROVE  ResearchInv'
  <1>0. CASE k \in leads
    <2>1. Starts("score") /\ resWrites = <<>> /\ queue = <<>>
      BY StartsFrom DEF R!Add
    <2>2. resWrites' = <<>> /\ queue' = <<>> /\ named' = named
      BY <1>0 DEF R!Add
    <2> QED BY <2>1, <2>2, AddWrites, DocumentStep DEF Starts
  <1>1. CASE k \notin leads
    BY <1>1, NewStep
  <1> QED BY <1>0, <1>1

\* What no row changes stays, whether the rows to come do or are dropped.
LEMMA StoredStays ==
  ASSUME UNCHANGED <<own, shared, ever, leads, evidence, pain_points, scores>>,
         resWrites' = <<>> \/ resWrites' = resWrites
  PROVE  /\ ResearchTyped /\ queue' \in Seq(Candidates) => ResearchTyped'
         /\ ResearchIsTrue /\ named' = named => ResearchIsTrue'
  <1>1. \A X : <<>> \in Seq(X)
    OBVIOUS
  <1>2. ASSUME ResearchTyped, queue' \in Seq(Candidates)
        PROVE  ResearchTyped'
    <2>1. Filed(evidence, pain_points, resWrites)'
      BY <1>2 DEF ResearchTyped, Filed
    <2> QED BY <1>1, <1>2, <2>1, DocumentsStay DEF ResearchTyped
  <1>3. ASSUME ResearchIsTrue, named' = named, ~named
        PROVE  ResearchIsTrue'
    <2>1. AllowedRows' = AllowedRows /\ Worths' = Worths
      BY DocumentsStay
    <2>2. /\ resWrites \in Seq(AllowedRows)
          /\ \A l \in Candidates : evidence[l] \in Seq(AllowedRows) /\ pain_points[l] \in Seq(AllowedRows)
          /\ FromOnePlace(resWrites, evidence) /\ PainOnce(resWrites, pain_points)
          /\ BelowWorth(scores, Worths)
      BY <1>3 DEF ResearchIsTrue
    <2>3. resWrites' \in Seq(AllowedRows)
      BY <1>1, <2>2
    <2>4. FromOnePlace(resWrites', evidence)
      BY <2>2 DEF FromOnePlace
    <2>5. PainOnce(resWrites', pain_points)
      <3>1. CASE resWrites' = <<>>
        <4>1. PainOnce(<<>>, pain_points)
          BY <2>2 DEF PainOnce
        <4> QED BY <3>1, <4>1
      <3>2. CASE resWrites' = resWrites
        BY <2>2, <3>2
      <3> QED BY <3>1, <3>2
    <2> QED BY <2>1, <2>2, <2>3, <2>4, <2>5 DEF ResearchIsTrue
  <1>4. ASSUME named, named' = named
        PROVE  ResearchIsTrue'
    BY <1>4 DEF ResearchIsTrue
  <1> QED BY <1>2, <1>3, <1>4

\* The leads are listed: of a ledger of one page, all of them.
LEMMA AllStep ==
  ASSUME R!ResearchAssumption, ResearchInv, NEW c, R!All(c)
  PROVE  ResearchInv'
  <1>1. Starts(c) /\ c \in {"research", "qualify"} /\ resWrites = <<>> /\ queue = <<>>
    BY StartsFrom DEF R!All
  <1>2. /\ UNCHANGED <<own, shared, ever, resWrites, named>> /\ queue' = R!search_leads
        /\ passed' = "yes" => passed = "yes"
    BY DEF R!All, R!documents
  <1>3. UNCHANGED <<leads, evidence, pain_points, scores>> /\ command' = c
    BY <1>1 DEF Starts
  <1>4. /\ queue' \in Seq(leads)
        /\ Cardinality(leads) <= Page => \A l \in leads : \E i \in DOMAIN queue' : queue'[i] = l
    <2>1. leads \in SUBSET Nat /\ IsFiniteSet(leads) /\ Page \in Nat
      BY FindingsAreFinite, FS_Subset DEF ResearchInv, ResearchTyped, R!ResearchAssumption
    <2>2. \A l \in leads : scores[l] \in Seq(Int)
      BY DEF ResearchInv, ResearchTyped
    <2> QED BY <1>2, <2>1, <2>2, PageOfLeads
  <1>5. queue' \in Seq(Candidates)
    BY <1>4 DEF ResearchInv, ResearchTyped
  <1>6. Hurting' = Hurting
    BY <1>2, DocumentsStay
  <1>7. ResearchGoesOn'
    <2>1. Announced(resWrites, leads)' /\ Expected(queue, resWrites, leads)' /\ NoLead(resWrites)'
      BY <1>1, <1>2, <1>3, <1>4 DEF Announced, Expected, NoLead
    <2>2. Unborn(leads, evidence, pain_points, scores)'
      BY <1>3 DEF ResearchInv, ResearchGoesOn, Unborn
    <2>3. ASSUME passed' = "yes", Cardinality(leads') <= Page
          PROVE  Covered(leads \cap Hurting, pain_points, <<>>, <<>>)'
      BY <1>2, <1>3, <1>6, <2>3 DEF ResearchInv, ResearchGoesOn
    <2>4. ASSUME Cardinality(leads') <= Page
          PROVE  Covered(leads \cap Hurting, pain_points, queue, resWrites)'
      BY <1>3, <1>4, <2>4 DEF Covered
    <2>5. command' # "none"
      BY <1>1, <1>3
    <2> QED BY <2>1, <2>2, <2>3, <2>4, <2>5 DEF ResearchGoesOn
  <1> QED BY <1>2, <1>3, <1>5, <1>7, StoredStays DEF ResearchInv

\* A lead by its name is one.
LEMMA QualifyNamedStep ==
  ASSUME ResearchInv, NEW l, R!QualifyNamed(l)
  PROVE  ResearchInv'
  <1>1. Starts("score") /\ resWrites = <<>> /\ queue = <<>>
    BY StartsFrom DEF R!QualifyNamed
  <1>2. UNCHANGED <<own, shared, ever, resWrites, passed, named>> /\ queue' = <<l>> /\ l \in leads
    BY DEF R!QualifyNamed, R!documents
  <1>3. UNCHANGED <<leads, evidence, pain_points, scores>> /\ command' = "score"
    BY <1>1 DEF Starts
  <1>4. queue' \in Seq(Candidates) /\ \A i \in DOMAIN queue' : queue'[i] \in leads
    BY <1>2 DEF ResearchInv, ResearchTyped
  <1>5. Hurting' = Hurting
    BY <1>2, DocumentsStay
  <1>6. ResearchGoesOn'
    <2>1. Announced(resWrites, leads)' /\ Expected(queue, resWrites, leads)' /\ NoLead(resWrites)'
      BY <1>1, <1>2, <1>3, <1>4 DEF Announced, Expected, NoLead
    <2>2. Unborn(leads, evidence, pain_points, scores)'
      BY <1>3 DEF ResearchInv, ResearchGoesOn, Unborn
    <2>3. ASSUME passed' = "yes", Cardinality(leads') <= Page
          PROVE  Covered(leads \cap Hurting, pain_points, <<>>, <<>>)'
      BY <1>2, <1>3, <1>5, <2>3 DEF ResearchInv, ResearchGoesOn
    <2> QED BY <1>3, <2>1, <2>2, <2>3 DEF ResearchGoesOn
  <1> QED BY <1>2, <1>3, <1>4, <1>6, StoredStays DEF ResearchInv

\* Research by name tells of a lead, though maybe again.
LEMMA ResearchNamedStep ==
  ASSUME R!ResearchAssumption, ResearchInv, NEW l, NEW S \in SUBSET (Candidates \cup {0}),
         R!ResearchNamed(l, S)
  PROVE  ResearchInv'
  <1> DEFINE s == resWrites'
  <1>1. Starts("name") /\ queue = <<>>
    BY StartsFrom DEF R!ResearchNamed
  <1>2. /\ UNCHANGED <<own, shared, ever, queue, passed>> /\ named' = TRUE
        /\ s = R!research_lead(l, S) /\ l \in leads
    BY DEF R!ResearchNamed, R!documents
  <1>3. UNCHANGED <<leads, evidence, pain_points, scores>> /\ command' = "name"
    BY <1>1 DEF Starts
  <1>4. Gathered(s, l)
    BY <1>2, GatheredRows DEF ResearchInv, ResearchTyped
  <1>5. \A i \in DOMAIN s : /\ s[i].lead = l /\ s[i].type # "lead"
                            /\ s[i].pain => s[i].type \in R!Pains
    BY <1>4 DEF Gathered
  <1>6. Hurting' = Hurting /\ Heeded' = Heeded
    BY <1>2, DocumentsStay
  <1>7. ResearchTyped'
    <2>1. Filed(evidence, pain_points, resWrites)'
      BY <1>3, <1>5 DEF ResearchInv, ResearchTyped, Filed
    <2> QED BY <1>2, <1>3, <1>4, <1>6, <2>1 DEF ResearchInv, ResearchTyped, Gathered
  <1>8. ResearchGoesOn'
    <2>1. Announced(resWrites, leads)' /\ Expected(queue, resWrites, leads)' /\ NoLead(resWrites)'
      BY <1>1, <1>2, <1>3, <1>5 DEF Announced, Expected, NoLead
    <2>2. Unborn(leads, evidence, pain_points, scores)'
      BY <1>3 DEF ResearchInv, ResearchGoesOn, Unborn
    <2>3. ASSUME passed' = "yes", Cardinality(leads') <= Page
          PROVE  Covered(leads \cap Hurting, pain_points, <<>>, <<>>)'
      BY <1>2, <1>3, <1>6, <2>3 DEF ResearchInv, ResearchGoesOn
    <2> QED BY <1>3, <2>1, <2>2, <2>3 DEF ResearchGoesOn
  <1>9. ResearchIsTrue'
    BY <1>2 DEF ResearchIsTrue
  <1> QED BY <1>7, <1>8, <1>9 DEF ResearchInv

\* The next of the list is a lead, and the others are still on it.
LEMMA QueueGoesOn ==
  ASSUME ResearchInv, queue # <<>>, resWrites = <<>>
  PROVE  /\ Head(queue) \in leads /\ Head(queue) \in Candidates /\ Tail(queue) \in Seq(Candidates)
         /\ \A i \in DOMAIN Tail(queue) : Tail(queue)[i] \in leads
         /\ \A i \in DOMAIN queue : \/ queue[i] = Head(queue)
                                    \/ \E j \in DOMAIN Tail(queue) : Tail(queue)[j] = queue[i]
  <1>1. queue \in Seq(Candidates) /\ leads \in SUBSET Candidates
    BY DEF ResearchInv, ResearchTyped
  <1>2. \A i \in DOMAIN queue : queue[i] \in leads
    BY DEF ResearchInv, ResearchGoesOn, Expected
  <1>3. /\ 1 \in DOMAIN queue /\ Head(queue) = queue[1] /\ Tail(queue) \in Seq(Candidates)
        /\ \A i \in DOMAIN Tail(queue) : i + 1 \in DOMAIN queue /\ Tail(queue)[i] = queue[i + 1]
        /\ \A i \in DOMAIN queue : i = 1 \/ (i - 1 \in DOMAIN Tail(queue) /\ Tail(queue)[i - 1] = queue[i])
    BY <1>1, TailOf
  <1> QED BY <1>1, <1>2, <1>3

\* A lead without pain points gets those of its documents; one with some is passed over.
LEMMA ResearchNextStep ==
  ASSUME R!ResearchAssumption, ResearchInv, R!ResearchNext
  PROVE  ResearchInv'
  <1> DEFINE l == Head(queue)
             q == queue'
             s == resWrites'
  <1>1. /\ command = "research" /\ queue # <<>> /\ resWrites = <<>> /\ q = Tail(queue)
        /\ s = IF R!Researched(l) THEN <<>> ELSE R!research_lead(l, R!_scoped_sources_for_lead(l))
    BY DEF R!ResearchNext
  <1>2. UNCHANGED <<own, shared, ever, leads, evidence, pain_points, scores, command, passed, named>>
    BY DEF R!ResearchNext, R!documents, R!ledger
  <1>3. /\ l \in leads /\ l \in Candidates /\ q \in Seq(Candidates)
        /\ \A i \in DOMAIN q : q[i] \in leads
        /\ \A i \in DOMAIN queue : queue[i] = l \/ \E j \in DOMAIN q : q[j] = queue[i]
    BY <1>1, QueueGoesOn
  <1>4. AllowedRows' = AllowedRows /\ Hurting' = Hurting /\ Worths' = Worths /\ Heeded' = Heeded
    BY <1>2, DocumentsStay
  <1> HIDE DEF l, q
  <1>5. Gathered(s, l) /\ s \in Seq(AllowedRows)
    <2>1. Gathered(<<>>, l) /\ <<>> \in Seq(AllowedRows)
      BY DEF Gathered
    <2>2. R!_scoped_sources_for_lead(l) \in SUBSET (Candidates \cup {0})
      BY <1>3, ScopedSources
    <2>3. Gathered(R!research_lead(l, R!_scoped_sources_for_lead(l)), l)
      BY <1>3, <2>2, GatheredRows
    <2>4. R!research_lead(l, R!_scoped_sources_for_lead(l)) \in Seq(AllowedRows)
      BY <1>3, AllowedGathered DEF ResearchInv, ResearchTyped
    <2> QED BY <1>1, <2>1, <2>3, <2>4
  <1>6. \A i \in DOMAIN s : /\ s[i].lead = l /\ s[i].type # "lead" /\ s[i].source >= 0
                            /\ s[i].pain => s[i].type \in R!Pains
    BY <1>5 DEF Gathered
  <1>7. pain_points[l] # <<>> \/ (l \in Hurting => \E i \in DOMAIN s : s[i].pain)
    BY <1>1, PainGathered DEF R!Researched
  <1>8. (\E i \in DOMAIN s : s[i].pain) => pain_points[l] = <<>>
    BY <1>1 DEF R!Researched
  <1> HIDE DEF s
  <1>9. s = resWrites' /\ q = queue'
    BY DEF s, q
  <1>10. ResearchTyped'
    <2>1. Filed(evidence, pain_points, resWrites)'
      BY <1>2, <1>6, <1>9 DEF ResearchInv, ResearchTyped, Filed
    <2> QED BY <1>2, <1>3, <1>4, <1>5, <1>9, <2>1 DEF ResearchInv, ResearchTyped, Gathered
  <1>11. ResearchGoesOn'
    <2>1. Announced(resWrites, leads)' /\ Expected(queue, resWrites, leads)' /\ NoLead(resWrites)'
      BY <1>2, <1>3, <1>6, <1>9 DEF Announced, Expected, NoLead
    <2>2. Unborn(leads, evidence, pain_points, scores)'
      BY <1>2 DEF ResearchInv, ResearchGoesOn, Unborn
    <2>3. ASSUME passed' = "yes", Cardinality(leads') <= Page
          PROVE  Covered(leads \cap Hurting, pain_points, <<>>, <<>>)'
      BY <1>2, <1>4, <2>3 DEF ResearchInv, ResearchGoesOn
    <2>4. ASSUME passed' = "begun", Cardinality(leads') <= Page
          PROVE  Covered(leads \cap Hurting, pain_points, queue, resWrites)'
      <3>1. Covered(leads \cap Hurting, pain_points, queue, <<>>)
        BY <1>1, <1>2, <2>4 DEF ResearchInv, ResearchGoesOn
      <3>2. ASSUME NEW k \in leads \cap Hurting
            PROVE  \/ pain_points[k] # <<>> \/ \E i \in DOMAIN q : q[i] = k
                   \/ \E i \in DOMAIN s : s[i].pain /\ s[i].lead = k
        <4>1. CASE pain_points[k] # <<>>
          BY <4>1
        <4>2. CASE \E i \in DOMAIN queue : queue[i] = k
          BY <1>3, <1>6, <1>7, <4>2
        <4> QED BY <3>1, <4>1, <4>2 DEF Covered
      <3> QED BY <1>2, <1>4, <1>9, <3>2 DEF Covered
    <2>5. command' # "none"
      BY <1>1, <1>2
    <2> QED BY <2>1, <2>2, <2>3, <2>4, <2>5 DEF ResearchGoesOn
  <1>12. ASSUME ~named' PROVE ResearchIsTrue'
    <2>1. /\ \A k \in Candidates : evidence[k] \in Seq(AllowedRows) /\ pain_points[k] \in Seq(AllowedRows)
          /\ FromOnePlace(resWrites, evidence) /\ PainOnce(resWrites, pain_points)
          /\ BelowWorth(scores, Worths)
      BY <1>2, <1>12 DEF ResearchInv, ResearchIsTrue
    <2>2. FromOnePlace(s, evidence)
      <3>1. \A i \in DOMAIN s : ~(s[i].source < 0)
        <4>1. ASSUME NEW i \in DOMAIN s PROVE ~(s[i].source < 0)
          <5>1. s[i] \in ResearchRows
            BY <1>5 DEF Gathered
          <5>2. s[i].source \in Int
            BY <5>1, SourceNumbers DEF ResearchRows
          <5> QED BY <1>6, <5>2
        <4> QED BY <4>1
      <3> QED BY <2>1, <3>1 DEF FromOnePlace
    <2>3. PainOnce(s, pain_points)
      <3>1. \A i, j \in DOMAIN s : s[i].pain /\ s[i] = s[j] => i = j
        BY <1>5 DEF Gathered
      <3>2. \A i \in DOMAIN s : s[i].pain => pain_points[s[i].lead] = <<>>
        BY <1>6, <1>8
      <3> QED BY <2>1, <3>1, <3>2 DEF PainOnce
    <2> QED BY <1>2, <1>4, <1>5, <1>9, <2>1, <2>2, <2>3 DEF ResearchIsTrue
  <1>13. ResearchIsTrue'
    BY <1>12 DEF ResearchIsTrue
  <1> QED BY <1>10, <1>11, <1>13 DEF ResearchInv

\* What is stored of a lead, as evaluate() finds it.
LEMMA TrueIsStoredWell ==
  ASSUME ResearchInv, ~named, NEW l \in Candidates
  PROVE  StoredWell(l)
  <1>1. /\ evidence[l] \in Seq(AllowedRows) /\ pain_points[l] \in Seq(AllowedRows)
        /\ FromOnePlace(resWrites, evidence) /\ PainOnce(resWrites, pain_points)
    BY DEF ResearchInv, ResearchIsTrue
  <1>2. /\ evidence[l] \in Seq(ResearchRows) /\ pain_points[l] \in Seq(ResearchRows)
        /\ ever[l] \in SUBSET Findings
    BY DEF ResearchInv, ResearchTyped, Heeded
  <1>3. /\ \A i \in DOMAIN evidence[l] : evidence[l][i] \in AllowedRows
        /\ \A i \in DOMAIN pain_points[l] : pain_points[l][i] \in AllowedRows
    BY <1>1
  <1>4. /\ \A i \in DOMAIN evidence[l] : Allowed(evidence[l][i]) /\ evidence[l][i].lead = l
        /\ \A i \in DOMAIN pain_points[l] :
             Allowed(pain_points[l][i]) /\ pain_points[l][i].lead = l /\ pain_points[l][i].pain
    BY <1>3 DEF AllowedRows, ResearchInv, ResearchTyped, Filed
  <1>5. PICK o : \A i \in DOMAIN evidence[l] : evidence[l][i].source < 0 => evidence[l][i].source = o
    BY <1>1 DEF FromOnePlace
  <1>6. \A i, j \in DOMAIN pain_points[l] : pain_points[l][i] = pain_points[l][j] => i = j
    BY <1>1 DEF PainOnce
  <1> QED BY <1>2, <1>4, <1>5, <1>6 DEF StoredWell

\* What is stored is true and there once, so its score is deserved.
LEMMA QualifyNextStep ==
  ASSUME R!ResearchAssumption, ResearchInv, R!QualifyNext
  PROVE  ResearchInv'
  <1> DEFINE l == Head(queue)
             q == queue'
             e == R!evaluate(l)
  <1>1. /\ command \in {"qualify", "score"} /\ queue # <<>> /\ resWrites = <<>> /\ q = Tail(queue)
        /\ \/ scores' = scores
           \/ scores' = [scores EXCEPT ![l] = Append(@, e)]
    BY DEF R!QualifyNext
  <1>2. UNCHANGED <<own, shared, ever, leads, evidence, pain_points, command, resWrites, passed, named>>
    BY DEF R!QualifyNext, R!documents
  <1>3. /\ l \in leads /\ l \in Candidates /\ q \in Seq(Candidates)
        /\ \A i \in DOMAIN q : q[i] \in leads
    BY <1>1, QueueGoesOn
  <1>4. AllowedRows' = AllowedRows /\ Hurting' = Hurting /\ Worths' = Worths /\ Heeded' = Heeded
    BY <1>2, DocumentsStay
  <1>5. e \in Int
    <2>1. /\ evidence[l] \in Seq(ResearchRows) /\ pain_points[l] \in Seq(ResearchRows)
          /\ \A i \in DOMAIN pain_points[l] : pain_points[l][i].type \in R!Pains
      BY <1>3 DEF ResearchInv, ResearchTyped, Filed
    <2> QED BY <1>3, <2>1, EvaluateIsNumber
  <1>6. ~named => e <= Worths[l]
    BY <1>3, TrueIsStoredWell, EvaluateIsDeserved, DeservedIs DEF Worths
  <1> HIDE DEF l, q, e
  <1>7. scores \in [Candidates -> Seq(Int)]
    BY DEF ResearchInv, ResearchTyped
  <1>8. /\ scores' \in [Candidates -> Seq(Int)]
        /\ \A k \in Candidates :
             /\ k # l => scores'[k] = scores[k]
             /\ \A i \in DOMAIN scores'[k] : \/ i \in DOMAIN scores[k] /\ scores'[k][i] = scores[k][i]
                                             \/ k = l /\ scores'[k][i] = e
    <2>1. CASE scores' = scores
      BY <1>7, <2>1
    <2>2. CASE scores' = [scores EXCEPT ![l] = Append(@, e)]
      <3>1. /\ Append(scores[l], e) \in Seq(Int)
            /\ \A i \in DOMAIN scores[l] : i \in DOMAIN Append(scores[l], e)
                                           /\ Append(scores[l], e)[i] = scores[l][i]
            /\ Append(scores[l], e)[Len(scores[l]) + 1] = e
            /\ \A i \in DOMAIN Append(scores[l], e) : i \in DOMAIN scores[l] \/ i = Len(scores[l]) + 1
        <4>1. scores[l] \in Seq(Int)
          BY <1>3, <1>7
        <4> QED BY <1>5, <4>1, AppendOf
      <3>2. scores'[l] = Append(scores[l], e) /\ \A k \in Candidates \ {l} : scores'[k] = scores[k]
        BY <1>3, <1>7, <2>2
      <3>3. scores' \in [Candidates -> Seq(Int)]
        BY <1>3, <1>7, <2>2, <3>1
      <3> QED BY <3>1, <3>2, <3>3
    <2> QED BY <1>1, <2>1, <2>2
  <1>9. q = queue' /\ resWrites' = <<>>
    BY <1>1, <1>2 DEF q
  <1>10. ResearchTyped'
    BY <1>2, <1>3, <1>4, <1>8, <1>9 DEF ResearchInv, ResearchTyped, Filed
  <1>11. ResearchGoesOn'
    <2>1. Announced(resWrites, leads)' /\ Expected(queue, resWrites, leads)' /\ NoLead(resWrites)'
      BY <1>2, <1>3, <1>9 DEF Announced, Expected, NoLead
    <2>2. Unborn(leads, evidence, pain_points, scores)'
      BY <1>2, <1>3, <1>8 DEF ResearchInv, ResearchGoesOn, Unborn
    <2>3. ASSUME passed' = "yes", Cardinality(leads') <= Page
          PROVE  Covered(leads \cap Hurting, pain_points, <<>>, <<>>)'
      BY <1>2, <1>4, <2>3 DEF ResearchInv, ResearchGoesOn
    <2>4. command' # "none" /\ command' # "research"
      BY <1>1, <1>2
    <2> QED BY <2>1, <2>2, <2>3, <2>4 DEF ResearchGoesOn
  <1>12. ASSUME ~named' PROVE ResearchIsTrue'
    <2>1. /\ resWrites \in Seq(AllowedRows)
          /\ \A k \in Candidates : evidence[k] \in Seq(AllowedRows) /\ pain_points[k] \in Seq(AllowedRows)
          /\ FromOnePlace(resWrites, evidence) /\ PainOnce(resWrites, pain_points)
          /\ BelowWorth(scores, Worths)
      BY <1>2, <1>12 DEF ResearchInv, ResearchIsTrue
    <2>2. BelowWorth(scores', Worths)
      BY <1>2, <1>6, <1>8, <1>12, <2>1 DEF BelowWorth
    <2> QED BY <1>2, <1>4, <2>1, <2>2 DEF ResearchIsTrue
  <1>13. ResearchIsTrue'
    BY <1>12 DEF ResearchIsTrue
  <1> QED BY <1>10, <1>11, <1>13 DEF ResearchInv

\* A command ends or dies, or nothing happens: what was to come is dropped, what is stored stays.
LEMMA EndStep ==
  ASSUME ResearchInv, R!End \/ R!Die \/ UNCHANGED R!resVars
  PROVE  ResearchInv'
  <1>1. /\ UNCHANGED <<own, shared, ever, leads, evidence, pain_points, scores, named>>
        /\ \/ UNCHANGED <<command, queue, resWrites, passed>>
           \/ command' = "none" /\ queue' = <<>> /\ resWrites' = <<>> /\ passed' = passed
           \/ /\ command' = "none" /\ queue = <<>> /\ resWrites = <<>> /\ queue' = <<>>
              /\ resWrites' = <<>>
              /\ passed' = IF command = "research" /\ passed = "begun" THEN "yes" ELSE passed
    BY DEF R!End, R!Die, R!resVars, R!documents, R!ledger
  <1>2. queue' \in Seq(Candidates) /\ (resWrites' = <<>> \/ resWrites' = resWrites)
    <2>1. queue \in Seq(Candidates) /\ <<>> \in Seq(Candidates)
      BY DEF ResearchInv, ResearchTyped
    <2>2. (queue' = queue \/ queue' = <<>>) /\ (resWrites' = <<>> \/ resWrites' = resWrites)
      BY <1>1
    <2> QED BY <2>1, <2>2
  <1>3. ResearchTyped' /\ ResearchIsTrue'
    BY <1>1, <1>2, StoredStays DEF ResearchInv
  <1>4. Hurting' = Hurting
    BY <1>1, DocumentsStay
  <1>5. Unborn(leads, evidence, pain_points, scores)'
    BY <1>1 DEF ResearchInv, ResearchGoesOn, Unborn
  <1>6. ResearchGoesOn'
    <2>1. CASE UNCHANGED <<command, queue, resWrites, passed>>
      BY <1>1, <1>4, <2>1 DEF ResearchInv, ResearchGoesOn, Unborn
    <2>2. CASE command' = "none" /\ queue' = <<>> /\ resWrites' = <<>>
      <3>1. Announced(resWrites, leads)' /\ Expected(queue, resWrites, leads)' /\ NoLead(resWrites)'
        BY <2>2 DEF Announced, Expected, NoLead
      <3>2. ASSUME passed' = "yes", Cardinality(leads') <= Page
            PROVE  Covered(leads \cap Hurting, pain_points, <<>>, <<>>)'
        <4>1. Covered(leads \cap Hurting, pain_points, <<>>, <<>>)
          BY <1>1, <2>2, <3>2 DEF ResearchInv, ResearchGoesOn
        <4> QED BY <1>1, <1>4, <4>1
      <3> QED BY <2>2, <1>5, <3>1, <3>2 DEF ResearchGoesOn
    <2> QED BY <1>1, <2>1, <2>2
  <1> QED BY <1>3, <1>6 DEF ResearchInv

-----------------------------------------------------------------------------
(***************************************************************************)
(* The theorems.                                                           *)
(***************************************************************************)
\* The invariant holds at first, every step keeps it, and it says what is to be shown.
LEMMA ResearchInit == R!ResearchAssumption /\ R!Init => ResearchInv
  <1> SUFFICES ASSUME R!ResearchAssumption, R!Init PROVE ResearchInv
    OBVIOUS
  <1>1. /\ own = [l \in Candidates |-> own[l]] /\ leads = {} /\ queue = <<>> /\ resWrites = <<>>
        /\ evidence = [l \in Candidates |-> <<>>] /\ pain_points = [l \in Candidates |-> <<>>]
        /\ scores = [l \in Candidates |-> <<>>] /\ command = "none" /\ passed = "no"
        /\ \A l \in Candidates : ever[l] = R!InScope(l)
    BY DEF R!Init
  <1>2. \A X : <<>> \in Seq(X)
    OBVIOUS
  <1>3. \A l \in Candidates : evidence[l] = <<>> /\ pain_points[l] = <<>> /\ scores[l] = <<>>
    BY <1>1
  <1>4. ResearchTyped
    <2>1. Filed(evidence, pain_points, resWrites)
      BY <1>1, <1>3 DEF Filed
    <2>2. Heeded
      BY <1>1, InScopeIs DEF Heeded
    <2> QED BY <1>1, <1>2, <2>1, <2>2 DEF ResearchTyped
  <1>5. ResearchGoesOn
    BY <1>1, <1>3 DEF ResearchGoesOn, Unborn, Announced, Expected, NoLead
  <1>6. ResearchIsTrue
    <2>1. FromOnePlace(resWrites, evidence) /\ PainOnce(resWrites, pain_points)
          /\ BelowWorth(scores, Worths)
      BY <1>1, <1>3 DEF FromOnePlace, PainOnce, BelowWorth
    <2> QED BY <1>1, <1>2, <1>3, <2>1 DEF ResearchIsTrue
  <1> QED BY <1>4, <1>5, <1>6 DEF ResearchInv

LEMMA ResearchStep ==
  R!ResearchAssumption /\ ResearchInv /\ [R!Next]_(R!resVars) => ResearchInv'
  <1> SUFFICES ASSUME R!ResearchAssumption, ResearchInv, [R!Next]_(R!resVars) PROVE ResearchInv'
    OBVIOUS
  <1>1. leads \in SUBSET Candidates
    BY DEF ResearchInv, ResearchTyped
  <1>2. CASE R!SalesDiscoverTool \/ R!cmd_lead_discover
    BY <1>2, DiscoverStep DEF R!SalesDiscoverTool, R!cmd_lead_discover
  <1>3. CASE R!SalesResearchTool
    <2>1. \A l \in leads : R!_scoped_sources_for_lead(l) \in SUBSET (Candidates \cup {0})
      BY <1>1, ScopedSources
    <2> QED BY <1>3, <2>1, AllStep, ResearchNamedStep DEF R!SalesResearchTool
  <1>4. CASE R!SalesQualifyTool \/ R!cmd_lead_qualify
    BY <1>4, AllStep, QualifyNamedStep DEF R!SalesQualifyTool, R!cmd_lead_qualify
  <1>5. CASE R!cmd_lead_research
    <2>1. \A S \in {{}} \cup {{d} : d \in R!AllDocuments} : S \in SUBSET (Candidates \cup {0})
      BY DEF R!AllDocuments
    <2> QED BY <1>5, <2>1, ResearchNamedStep DEF R!cmd_lead_research
  <1>6. CASE R!cmd_add \/ R!Edits
    <2>1. CASE R!cmd_add
      BY <2>1, AddStep DEF R!cmd_add
    <2>2. CASE R!Edits
      <3>1. PICK d, text : R!FillIn(d, text)
        BY <2>2 DEF R!Edits
      <3>2. own = [l \in Candidates |-> own[l]]
        BY DEF ResearchInv, ResearchTyped
      <3>3. /\ own' = own \/ own' = [own EXCEPT ![d] = text]
            /\ R!Written /\ UNCHANGED <<leads, evidence, pain_points, scores, command, queue, resWrites, named>>
        BY <3>1 DEF R!FillIn, R!ledger
      <3>4. own' = [l \in Candidates |-> own'[l]]
        BY <3>2, <3>3
      <3> QED BY <3>3, <3>4, DocumentStep
    <2> QED BY <1>6, <2>1, <2>2
  <1>7. CASE R!Write
    BY <1>7, WriteTyped, WriteGoesOn, WriteTrue DEF ResearchInv
  <1>8. CASE R!ResearchNext \/ R!QualifyNext \/ R!End \/ R!Die \/ UNCHANGED R!resVars
    BY <1>8, ResearchNextStep, QualifyNextStep, EndStep
  <1> QED BY <1>2, <1>3, <1>4, <1>5, <1>6, <1>7, <1>8 DEF R!Next

LEMMA ResearchHeld == R!ResearchAssumption /\ ResearchInv => R!ScoreIsDeserved /\ R!PainIsFound
  <1> SUFFICES ASSUME R!ResearchAssumption, ResearchInv PROVE R!ScoreIsDeserved /\ R!PainIsFound
    OBVIOUS
  <1>1. leads \in SUBSET Candidates
    BY DEF ResearchInv, ResearchTyped
  <1>2. R!ScoreIsDeserved
    BY <1>1, DeservedIs DEF R!ScoreIsDeserved, ResearchInv, ResearchIsTrue, BelowWorth, Worths
  <1>3. R!PainIsFound
    <2>1. R!Cardinality(leads) = Cardinality(leads)
      BY ResearchCounts
    <2>2. ASSUME passed = "yes", Cardinality(leads) <= Page, NEW l \in leads, R!HasPain(l)
          PROVE  pain_points[l] # <<>>
      <3>1. l \in leads \cap Hurting
        BY <1>1, <2>2 DEF Hurting
      <3>2. Covered(leads \cap Hurting, pain_points, <<>>, <<>>)
        BY <2>2 DEF ResearchInv, ResearchGoesOn
      <3> QED BY <3>1, <3>2 DEF Covered
    <2> QED BY <2>1, <2>2 DEF R!PainIsFound
  <1> QED BY <1>2, <1>3

\* No lead scores more than the documents in its scope ever told, however often a run died
\* and was done again or a document was written over, unless somebody researched it by name
\* (research.py: research_lead; qualification.py: evaluate).
THEOREM ScoresAreDeserved ==
  ASSUME R!ResearchAssumption
  PROVE  R!ResearchSpec => []R!ScoreIsDeserved
  <1> QED BY ResearchInit, ResearchStep, ResearchHeld, PTL DEF R!ResearchSpec

\* After a whole pass over a ledger of one page, and until a document is written, a lead whose
\* documents tell of pain has pain points (tools/base.py: SalesResearchTool).
THEOREM PainGetsFound ==
  ASSUME R!ResearchAssumption
  PROVE  R!ResearchSpec => []R!PainIsFound
  <1> QED BY ResearchInit, ResearchStep, ResearchHeld, PTL DEF R!ResearchSpec
=============================================================================
