---------------------------- MODULE AuditProofs -----------------------------
(***************************************************************************)
(* Proofs about AuditLog, the part L of a workspace, for any writers, keys *)
(* and values, any length of the file and any number of deaths.            *)
(*                                                                         *)
(*   LinksHold        however writers race, each line names one before it *)
(*   ChainHolds       a file written in turns, uncut, unedited, verifies   *)
(*   EditsAlwaysShow  one that was edited never verifies again             *)
(*   LogTellsRows     the last line about each key is its row              *)
(*   AuditTypes       everything stays in range, whatever is edited        *)
(*                                                                         *)
(* A line is linked to what its writer read some steps ago.  The invariant *)
(* LinkInv adds that what was read is still there, LinesInv that with      *)
(* writers taking turns it is still the last, and it puts the chain in the *)
(* form in which a line only looks at the one before it.                   *)
(*                                                                         *)
(* That a cut chain never closes again needs an order: with turns, hashes  *)
(* rise along the file and no link is older than the line before it, edits *)
(* included (Rising), so the link over a missing line stays too new.  That *)
(* the log tells the rows is stated per key: the file tells the row, or    *)
(* the one writer under way is about to (RowsInv).                         *)
(***************************************************************************)
EXTENDS Workspace, SequenceTheorems, TLAPS

LinkCopies == [key : Keys \cup {None}, val : L!Contents, prev : Nat]

\* The ranges.
LogRanges ==
  /\ row \in [Keys -> L!Contents]
  /\ log \in Seq(L!Lines)
  /\ torn \in BOOLEAN
  /\ audPc \in [Writers -> {"idle", "link", "append"}]
  /\ audLocal \in [Writers -> LinkCopies]
  /\ stamp \in Nat

\* A line without a hash of its own counts as the beginning; after half a line there
\* is one that does not parse.
BareLines ==
  /\ \A i \in DOMAIN log : log[i].kind # "hashed" => log[i].hash = L!Genesis
  /\ torn => log # <<>> /\ log[Len(log)].kind = "garbled"

\* A link that is the beginning or some line's hash.
Known(link) == link = L!Genesis \/ \E j \in DOMAIN log : log[j].hash = link

\* What each writer has read and each line says, while nobody edits.
LinksKnown ==
  /\ \A w \in Writers : audPc[w] = "append" => Known(audLocal[w].prev)
  /\ \A i \in DOMAIN log : log[i].kind = "hashed" =>
       log[i].prev = L!Genesis \/ \E j \in 1 .. i - 1 : log[j].hash = log[i].prev

LinkInv == audEdits \in Nat /\ (audEdits = 0 => LogRanges /\ BareLines /\ LinksKnown)

\* Every line can be read.
Readable == \A i \in DOMAIN log : log[i].kind # "garbled"

\* The hash of the line before, which a line that can be read should link to.
Expected(i) == IF i = 1 THEN L!Genesis ELSE log[i - 1].hash

\* The chain, line by line.
Chained ==
  \A i \in DOMAIN log : log[i].kind = "hashed" =>
    log[i].whole /\ log[i].prev = Expected(i)

\* With writers taking turns: one at a time, and what it has read is the last.
LinesInv ==
  audEdits = 0 /\ audOrdered =>
    /\ \A v, w \in Writers : audPc[v] # "idle" /\ audPc[w] # "idle" => v = w
    /\ \A w \in Writers : audPc[w] = "append" => audLocal[w].prev = L!PreviousHash
    /\ Readable => Chained

\* With writers taking turns, at most one is under way, and what it has read is the
\* last hash: an edit leaves the last line where it is.
OneWrites ==
  /\ \A v, w \in Writers : audPc[v] # "idle" /\ audPc[w] # "idle" => v = w
  /\ \A w \in Writers : audPc[w] = "append" => audLocal[w].prev = L!PreviousHash

\* The hashes rise along the file, and no line links to one from before its neighbour.
Rising ==
  \A i \in DOMAIN log : log[i].kind = "hashed" =>
    Expected(i) < log[i].hash /\ Expected(i) <= log[i].prev

\* A line that does not verify.
Shown ==
  \E i \in DOMAIN log :
    log[i].kind = "hashed" /\ (~log[i].whole \/ log[i].prev # Expected(i))

FileInv ==
  /\ L!TypeOK /\ BareLines
  /\ audOrdered =>
       /\ OneWrites
       /\ Readable => Rising /\ (audEdits > 0 => Shown)

\* The lines about a key, and what they say of it: the value of the last of them.
About(k) == {i \in DOMAIN log : log[i].kind = "hashed" /\ log[i].key = k}

Tells(k, v) ==
  \/ About(k) = {} /\ v = None
  \/ \E i \in About(k) : log[i].val = v /\ \A j \in About(k) : j <= i

\* A row is what the file says of it, or what its writer is about to say.
RowsInv ==
  audOrdered /\ audEdits = 0 /\ audCrashes = 0 =>
    /\ Readable /\ ~torn
    /\ \A k \in Keys :
         \/ Tells(k, row[k]) /\ \A w \in Writers : audPc[w] # "idle" => audLocal[w].key # k
         \/ \E w \in Writers : audPc[w] # "idle" /\ audLocal[w].key = k /\ audLocal[w].val = row[k]

-----------------------------------------------------------------------------
\* The file after one more line.
LEMMA AfterAppend ==
  ASSUME LogRanges, NEW line \in L!Lines, log' = Append(log, line)
  PROVE  /\ log' \in Seq(L!Lines) /\ log' # <<>>
         /\ Len(log) \in Nat /\ DOMAIN log = 1 .. Len(log)
         /\ Len(log') = Len(log) + 1 /\ DOMAIN log' = 1 .. Len(log) + 1
         /\ \A i \in DOMAIN log : log'[i] = log[i]
         /\ log'[Len(log) + 1] = line
  BY AppendProperties DEF LogRanges

\* What it takes for the lines to say what they said.
LEMMA BareAfterAppend ==
  ASSUME LogRanges, BareLines, LinksKnown, NEW line \in L!Lines, log' = Append(log, line),
         line.kind # "hashed" => line.hash = L!Genesis,
         line.kind = "hashed" => Known(line.prev),
         torn' => line.kind = "garbled"
  PROVE  /\ BareLines'
         /\ \A link : Known(link) => Known(link)'
         /\ (\A i \in DOMAIN log : log[i].kind = "hashed" =>
               log[i].prev = L!Genesis \/ \E j \in 1 .. i - 1 : log[j].hash = log[i].prev)'
  <1> USE AfterAppend
  <1>1. BareLines'
    BY DEF BareLines
  <1>2. \A link : Known(link) => Known(link)'
    BY DEF Known
  <1>3. ASSUME NEW i \in DOMAIN log', log'[i].kind = "hashed"
        PROVE  log'[i].prev = L!Genesis \/ \E j \in 1 .. i - 1 : log'[j].hash = log'[i].prev
    <2>1. CASE i \in DOMAIN log
      <3>1. log'[i] = log[i] /\ \A j \in 1 .. i - 1 : log'[j] = log[j]
        BY <2>1
      <3> QED BY <1>3, <2>1, <3>1 DEF LinksKnown
    <2>2. CASE i = Len(log) + 1
      <3>1. log'[i] = line /\ i - 1 = Len(log)
        BY <2>2
      <3>2. Known(line.prev)
        BY <1>3, <3>1
      <3>3. CASE line.prev = L!Genesis
        BY <3>1, <3>3
      <3>4. CASE \E j \in DOMAIN log : log[j].hash = line.prev
        BY <3>1, <3>4
      <3> QED BY <3>2, <3>3, <3>4 DEF Known
    <2> QED BY <2>1, <2>2
  <1> QED BY <1>1, <1>2, <1>3

\* The last hash of the file is a number, and known.
LEMMA PreviousIsKnown ==
  ASSUME LogRanges
  PROVE  L!PreviousHash \in Nat /\ Known(L!PreviousHash)
  <1>1. CASE log = <<>>
    BY <1>1 DEF L!PreviousHash, Known, L!Genesis
  <1>2. CASE log # <<>>
    <2>1. Len(log) \in DOMAIN log /\ log[Len(log)] \in L!Lines
      BY <1>2 DEF LogRanges
    <2> QED BY <2>1 DEF L!PreviousHash, Known, L!Genesis, L!Lines
  <1> QED BY <1>1, <1>2

\* The greatest of the lines before another.
LEMMA MaxOfInterval ==
  ASSUME NEW k \in Nat \ {0}
  PROVE  L!Max(1 .. k) = k
  BY DEF L!Max

\* In a file that can be read, what a line should link to is the line before it.
LEMMA ExpectedIsPrevious ==
  ASSUME LogRanges, Readable, NEW i \in DOMAIN log
  PROVE  L!ExpectedPrev(i) = Expected(i)
  <1>1. i \in Nat \ {0} /\ DOMAIN log = 1 .. Len(log) /\ Len(log) \in Nat
    BY DEF LogRanges
  <1>2. {j \in 1 .. i - 1 : log[j].kind # "garbled"} = 1 .. i - 1
    BY <1>1 DEF Readable
  <1>3. CASE i = 1
    BY <1>2, <1>3 DEF L!ExpectedPrev, Expected
  <1>4. CASE i # 1
    <2>1. i - 1 \in Nat \ {0} /\ 1 .. i - 1 # {}
      BY <1>1, <1>4
    <2>2. L!Max(1 .. i - 1) = i - 1
      BY <2>1, MaxOfInterval
    <2> QED BY <1>2, <1>4, <2>1, <2>2 DEF L!ExpectedPrev, Expected
  <1> QED BY <1>3, <1>4

LEMMA ChainedVerifies ==
  ASSUME LogRanges, Readable, Chained
  PROVE  L!Verifies
  BY ExpectedIsPrevious DEF L!Verifies, L!LineVerifies, Readable, Chained

-----------------------------------------------------------------------------
LEMMA LinesRange == L!Legacy \in L!Lines /\ L!Garbled \in L!Lines /\ L!NoWrite \in LinkCopies
  BY DEF L!Legacy, L!Garbled, L!NoWrite, L!Lines, LinkCopies, L!Contents, L!Genesis

LEMMA LinkInit == L!AuditAssumption /\ L!Init => LinkInv /\ LinesInv
  <1> SUFFICES ASSUME L!AuditAssumption, L!Init PROVE LinkInv /\ LinesInv
    OBVIOUS
  <1>1. History \in Nat
    BY DEF L!AuditAssumption
  <1>2. /\ log \in Seq(L!Lines) /\ DOMAIN log = 1 .. History
        /\ \A i \in DOMAIN log : log[i] = L!Legacy
    BY <1>1, LinesRange DEF L!Init
  <1>3. L!Legacy.kind = "legacy" /\ L!Legacy.hash = L!Genesis
    BY DEF L!Legacy
  <1>4. LogRanges
    BY <1>2, LinesRange DEF L!Init, LogRanges, L!Contents, L!Genesis
  <1>5. BareLines /\ LinksKnown /\ Chained
    BY <1>2, <1>3 DEF L!Init, BareLines, LinksKnown, Chained
  <1> QED BY <1>4, <1>5 DEF L!Init, LinkInv, LinesInv

\* A step that leaves the file alone keeps it readable and chained as it was.
LEMMA FileStays ==
  ASSUME UNCHANGED log
  PROVE  /\ LinksKnown => (\A i \in DOMAIN log : log[i].kind = "hashed" =>
                             \/ log[i].prev = L!Genesis
                             \/ \E j \in 1 .. i - 1 : log[j].hash = log[i].prev)'
         /\ Readable' = Readable /\ Chained' = Chained /\ L!PreviousHash' = L!PreviousHash
         /\ \A link : Known(link)' = Known(link)
  BY DEF LinksKnown, Readable, Chained, Expected, L!PreviousHash, Known

\* A write begins: nothing has been read.
LEMMA BeginKeeps ==
  ASSUME LinkInv, LinesInv, audEdits = 0, NEW w \in Writers, L!MayStart(w),
         NEW key \in Keys \cup {None}, NEW val \in L!Contents, L!Begins(w, key, val),
         row' \in [Keys -> L!Contents], UNCHANGED <<log, torn, stamp, audEdits, audOrdered>>
  PROVE  LinkInv' /\ LinesInv'
  <1> DEFINE copy == [L!NoWrite EXCEPT !.key = key, !.val = val]
  <1>1. LogRanges /\ BareLines /\ LinksKnown
    BY DEF LinkInv
  <1>2. copy \in LinkCopies
    BY DEF L!NoWrite, LinkCopies, L!Genesis
  <1>3. /\ audPc' = [audPc EXCEPT ![w] = "link"] /\ audLocal' = [audLocal EXCEPT ![w] = copy]
        /\ audPc[w] = "idle" /\ (audOrdered => \A v \in Writers : audPc[v] = "idle")
    BY DEF L!Begins, L!MayStart
  <1> HIDE DEF copy
  <1>4. LogRanges'
    BY <1>1, <1>2, <1>3 DEF LogRanges
  <1>5. BareLines'
    BY <1>1 DEF BareLines
  <1>6. \A v \in Writers : audPc'[v] = "append" => audPc[v] = "append" /\ audLocal'[v] = audLocal[v]
    BY <1>1, <1>3 DEF LogRanges
  <1>7. LinksKnown'
    BY <1>1, <1>6, FileStays DEF LinksKnown
  <1>8. LinesInv'
    BY <1>1, <1>3, <1>6, FileStays DEF LinesInv, LogRanges
  <1> QED BY <1>4, <1>5, <1>7, <1>8 DEF LinkInv

\* The link is read.
LEMMA ReadKeeps ==
  ASSUME LinkInv, LinesInv, audEdits = 0, NEW w \in Writers, L!ReadLink(w)
  PROVE  LinkInv' /\ LinesInv'
  <1>1. LogRanges /\ BareLines /\ LinksKnown
    BY DEF LinkInv
  <1>2. /\ audPc[w] = "link" /\ audPc' = [audPc EXCEPT ![w] = "append"]
        /\ audLocal' = [audLocal EXCEPT ![w].prev = L!PreviousHash]
        /\ UNCHANGED <<row, log, torn, stamp, audEdits, audOrdered>>
    BY DEF L!ReadLink
  <1>3. L!PreviousHash \in Nat /\ Known(L!PreviousHash)
    BY <1>1, PreviousIsKnown
  <1>4. /\ audLocal' \in [Writers -> LinkCopies] /\ audLocal'[w].prev = L!PreviousHash
        /\ \A v \in Writers : v # w => audLocal'[v] = audLocal[v]
    BY <1>1, <1>2, <1>3 DEF LogRanges, LinkCopies
  <1>5. LogRanges' /\ BareLines'
    BY <1>1, <1>2, <1>4 DEF LogRanges, BareLines
  <1>6. LinksKnown'
    BY <1>1, <1>2, <1>3, <1>4, FileStays DEF LinksKnown, LogRanges
  <1>7. LinesInv'
    BY <1>1, <1>2, <1>4, FileStays DEF LinesInv, LogRanges
  <1> QED BY <1>2, <1>5, <1>6, <1>7 DEF LinkInv

\* A writer ends, and the file is as it was.
LEMMA EndKeeps ==
  ASSUME LinkInv, LinesInv, audEdits = 0, NEW w \in Writers, audPc[w] # "idle",
         audPc' = [audPc EXCEPT ![w] = "idle"], audLocal' = [audLocal EXCEPT ![w] = L!NoWrite],
         stamp' \in Nat, (torn' = torn) \/ (torn' = FALSE),
         UNCHANGED <<row, log, audEdits, audOrdered>>
  PROVE  LinkInv' /\ LinesInv'
  <1>1. LogRanges /\ BareLines /\ LinksKnown
    BY DEF LinkInv
  <1>2. LogRanges' /\ BareLines'
    <2>1. torn \in BOOLEAN
      BY <1>1 DEF LogRanges
    <2>2. CASE torn' = torn
      BY <1>1, <2>1, <2>2, LinesRange DEF LogRanges, BareLines
    <2>3. CASE torn' = FALSE
      BY <1>1, <2>3, LinesRange DEF LogRanges, BareLines
    <2> QED BY <2>2, <2>3
  <1>3. \A v \in Writers : audPc'[v] # "idle" => audPc'[v] = audPc[v] /\ audLocal'[v] = audLocal[v]
    BY <1>1 DEF LogRanges
  <1>4. LinksKnown'
    BY <1>1, <1>3, FileStays DEF LinksKnown
  <1>5. LinesInv'
    BY <1>3, FileStays DEF LinesInv
  <1> QED BY <1>2, <1>4, <1>5 DEF LinkInv

\* A writer ends, and the file has one more line: the one it had computed, or the
\* half of one.
LEMMA AppendKeeps ==
  ASSUME LinkInv, LinesInv, audEdits = 0, NEW w \in Writers, audPc[w] = "append",
         NEW line \in L!Lines, log' = Append(log, line),
         line = L!Garbled \/ (line = L!Written(w) /\ ~torn'),
         audPc' = [audPc EXCEPT ![w] = "idle"], audLocal' = [audLocal EXCEPT ![w] = L!NoWrite],
         stamp' \in Nat, torn' \in BOOLEAN, UNCHANGED <<row, audEdits, audOrdered>>
  PROVE  LinkInv' /\ LinesInv'
  <1>1. LogRanges /\ BareLines /\ LinksKnown
    BY DEF LinkInv
  <1>2. /\ line = L!Garbled => line.kind = "garbled" /\ line.hash = L!Genesis
        /\ line = L!Written(w) => line.kind = "hashed" /\ line.prev = audLocal[w].prev /\ line.whole
    BY DEF L!Garbled, L!Legacy, L!Written
  <1>3. Known(audLocal[w].prev)
    BY <1>1 DEF LinksKnown
  <1>4. /\ BareLines'
        /\ \A link : Known(link) => Known(link)'
        /\ (\A i \in DOMAIN log : log[i].kind = "hashed" =>
              log[i].prev = L!Genesis \/ \E j \in 1 .. i - 1 : log[j].hash = log[i].prev)'
    BY <1>1, <1>2, <1>3, BareAfterAppend
  <1>5. \A v \in Writers : audPc'[v] # "idle" =>
          v # w /\ audPc'[v] = audPc[v] /\ audLocal'[v] = audLocal[v]
    BY <1>1 DEF LogRanges
  <1>6. LinksKnown'
    BY <1>1, <1>4, <1>5 DEF LinksKnown
  <1>7. LogRanges'
    BY <1>1, AfterAppend, LinesRange DEF LogRanges
  <1>8. LinesInv'
    <2> SUFFICES ASSUME audOrdered
                 PROVE  /\ \A v \in Writers : audPc'[v] = "idle"
                        /\ Readable' => Chained'
      BY DEF LinesInv
    <2>1. \A v \in Writers : audPc'[v] = "idle"
      BY <1>1, <1>5 DEF LinesInv, LogRanges
    <2>2. ASSUME Readable', NEW i \in DOMAIN log', log'[i].kind = "hashed"
          PROVE  log'[i].whole /\ log'[i].prev = Expected(i)'
      <3>1. Readable /\ line # L!Garbled
        BY <1>1, <1>2, <2>2, AfterAppend DEF Readable
      <3>2. Chained /\ audLocal[w].prev = L!PreviousHash
        BY <3>1 DEF LinesInv
      <3>3. CASE i \in DOMAIN log
        BY <1>1, <2>2, <3>2, <3>3, AfterAppend DEF Chained, Expected
      <3>4. CASE i = Len(log) + 1
        <4>1. log'[i] = line /\ line.whole /\ line.prev = L!PreviousHash
          BY <1>1, <1>2, <3>1, <3>2, <3>4, AfterAppend
        <4>2. CASE log = <<>>
          BY <3>4, <4>1, <4>2 DEF L!PreviousHash, Expected
        <4>3. CASE log # <<>>
          <5>1. Len(log) \in DOMAIN log /\ i # 1 /\ i - 1 = Len(log)
            BY <1>1, <3>4, <4>3, AfterAppend
          <5>2. log'[i - 1].hash = log[Len(log)].hash
            BY <1>1, <5>1, AfterAppend
          <5>3. L!PreviousHash = log[Len(log)].hash
            BY <1>1, <4>3, <5>1 DEF L!PreviousHash, BareLines
          <5> QED BY <4>1, <5>1, <5>2, <5>3 DEF Expected
        <4> QED BY <4>2, <4>3
      <3> QED BY <1>1, <2>2, <3>3, <3>4, AfterAppend
    <2> QED BY <2>1, <2>2 DEF Chained
  <1> QED BY <1>4, <1>6, <1>7, <1>8 DEF LinkInv

\* Edits are counted.
LEMMA EditsCount ==
  /\ [L!Next]_(L!vars) => audEdits' \in {audEdits, audEdits + 1}
  /\ \A i \in DOMAIN log :
       L!Remove(i) \/ (\E v \in Values : L!Alter(i, v)) => audEdits' = audEdits + 1
  <1>1. \A i \in DOMAIN log :
          L!Remove(i) \/ (\E v \in Values : L!Alter(i, v)) => audEdits' = audEdits + 1
    BY Zenon DEF L!Remove, L!Alter
  <1>2. ASSUME NEW w \in Writers,
               \/ \E k \in Keys : L!Delete(w, k) \/ \E v \in Values : L!Put(w, k, v)
               \/ L!Note(w) \/ L!Write(w) \/ L!Crash(w)
        PROVE  audEdits' = audEdits
    BY <1>2, Zenon DEF L!Put, L!Delete, L!Note, L!Write, L!ReadLink, L!AppendLine, L!Crash
  <1>3. CASE UNCHANGED L!vars
    BY <1>3, <1>1 DEF L!vars
  <1> QED BY <1>1, <1>2, <1>3, Zenon DEF L!Next

LEMMA LinkStep ==
  L!AuditAssumption /\ LinkInv /\ LinesInv /\ [L!Next]_(L!vars) => LinkInv' /\ LinesInv'
  <1> SUFFICES ASSUME L!AuditAssumption, LinkInv, LinesInv, [L!Next]_(L!vars)
               PROVE  LinkInv' /\ LinesInv'
    OBVIOUS
  <1>1. CASE UNCHANGED L!vars
    <2>1. LinkInv'
      BY <1>1 DEF L!vars, LinkInv, LogRanges, BareLines, LinksKnown, Known
    <2>2. LinesInv'
      BY <1>1 DEF L!vars, LinesInv, L!PreviousHash, Readable, Chained, Expected
    <2> QED BY <2>1, <2>2
  <1>2. CASE audEdits # 0
    <2>1. audEdits \in Nat /\ audEdits' \in {audEdits, audEdits + 1}
      BY EditsCount DEF LinkInv
    <2>2. audEdits' \in Nat /\ audEdits' # 0
      BY <1>2, <2>1
    <2> QED BY <2>2 DEF LinkInv, LinesInv
  <1>3. ASSUME audEdits = 0, NEW i \in DOMAIN log, L!Remove(i) \/ \E v \in Values : L!Alter(i, v)
        PROVE  LinkInv' /\ LinesInv'
    <2>1. audEdits' = 1
      BY <1>3, EditsCount
    <2>2. audEdits' \in Nat /\ audEdits' # 0
      BY <2>1
    <2> QED BY <2>2 DEF LinkInv, LinesInv
  <1>4. ASSUME audEdits = 0, NEW w \in Writers, NEW k \in Keys, L!Delete(w, k)
        PROVE  LinkInv' /\ LinesInv'
    <2>1. row' \in [Keys -> L!Contents] /\ None \in L!Contents
      BY <1>4 DEF L!Delete, LinkInv, LogRanges, L!Contents
    <2> QED BY <1>4, <2>1, BeginKeeps DEF L!Delete
  <1>5. ASSUME audEdits = 0, NEW w \in Writers, NEW k \in Keys, NEW v \in Values, L!Put(w, k, v)
        PROVE  LinkInv' /\ LinesInv'
    <2>1. row' \in [Keys -> L!Contents] /\ v \in L!Contents
      BY <1>5 DEF L!Put, LinkInv, LogRanges, L!Contents
    <2> QED BY <1>5, <2>1, BeginKeeps DEF L!Put
  <1>6. ASSUME audEdits = 0, NEW w \in Writers, L!Note(w) PROVE LinkInv' /\ LinesInv'
    <2>1. row' \in [Keys -> L!Contents] /\ None \in L!Contents
      BY <1>6 DEF L!Note, LinkInv, LogRanges, L!Contents
    <2> QED BY <1>6, <2>1, BeginKeeps DEF L!Note
  <1>7. ASSUME audEdits = 0, NEW w \in Writers, L!ReadLink(w) PROVE LinkInv' /\ LinesInv'
    BY <1>7, ReadKeeps
  <1>8. ASSUME audEdits = 0, NEW w \in Writers, L!AppendLine(w) PROVE LinkInv' /\ LinesInv'
    <2>1. /\ audPc[w] = "append" /\ torn' = FALSE
          /\ log' = IF torn THEN log ELSE Append(log, L!Written(w))
          /\ audPc' = [audPc EXCEPT ![w] = "idle"] /\ audLocal' = [audLocal EXCEPT ![w] = L!NoWrite]
          /\ stamp' = stamp + 1 /\ UNCHANGED <<row, audEdits, audOrdered>>
      BY <1>8 DEF L!AppendLine
    <2>2. stamp' \in Nat /\ L!Written(w) \in L!Lines
      <3>1. audLocal[w] \in LinkCopies /\ stamp \in Nat
        BY <1>8 DEF LinkInv, LogRanges
      <3> QED BY <2>1, <3>1 DEF L!Written, L!Lines, LinkCopies
    <2>3. CASE torn
      BY <1>8, <2>1, <2>2, <2>3, EndKeeps
    <2>4. CASE ~torn
      BY <1>8, <2>1, <2>2, <2>4, AppendKeeps
    <2> QED BY <2>3, <2>4
  <1>9. ASSUME audEdits = 0, NEW w \in Writers, L!Crash(w) PROVE LinkInv' /\ LinesInv'
    <2>1. /\ audPc[w] # "idle" /\ stamp' \in Nat
          /\ audPc' = [audPc EXCEPT ![w] = "idle"] /\ audLocal' = [audLocal EXCEPT ![w] = L!NoWrite]
          /\ UNCHANGED <<row, audEdits, audOrdered>>
      BY <1>9 DEF L!Crash, LinkInv, LogRanges
    <2>2. CASE UNCHANGED <<log, torn>>
      BY <1>9, <2>1, <2>2, EndKeeps
    <2>3. CASE audPc[w] = "append" /\ log' = Append(log, L!Garbled) /\ torn' = TRUE
      BY <1>9, <2>1, <2>3, AppendKeeps, LinesRange
    <2> QED BY <1>9, <2>2, <2>3 DEF L!Crash
  <1> QED BY <1>1, <1>2, <1>3, <1>4, <1>5, <1>6, <1>7, <1>8, <1>9 DEF L!Next, L!Write

-----------------------------------------------------------------------------
\* The type invariant is the ranges, hashes of the past and the counts.
LEMMA TypesRange ==
  L!TypeOK <=> /\ LogRanges
               /\ \A i \in DOMAIN log : log[i].hash <= stamp
               /\ audCrashes \in Nat /\ audEdits \in Nat /\ audOrdered \in BOOLEAN
  BY DEF L!TypeOK, LogRanges, LinkCopies

\* The file without one of its lines.
LEMMA AfterRemove ==
  ASSUME LogRanges, NEW i \in DOMAIN log, L!Remove(i)
  PROVE  /\ log' \in Seq(L!Lines)
         /\ Len(log) \in Nat /\ DOMAIN log = 1 .. Len(log) /\ i \in Nat \ {0}
         /\ Len(log') = Len(log) - 1 /\ DOMAIN log' = 1 .. Len(log) - 1
         /\ \A j \in 1 .. i - 1 : log'[j] = log[j]
         /\ \A j \in i .. Len(log) - 1 : log'[j] = log[j + 1]
  <1> DEFINE front == SubSeq(log, 1, i - 1)
             back == SubSeq(log, i + 1, Len(log))
  <1>1. /\ log \in Seq(L!Lines) /\ Len(log) \in Nat /\ DOMAIN log = 1 .. Len(log)
        /\ i \in Nat \ {0} /\ i < Len(log) /\ \A j \in 1 .. Len(log) : log[j] \in L!Lines
    BY DEF LogRanges, L!Remove
  <1>2. /\ front \in Seq(L!Lines) /\ Len(front) = i - 1
        /\ \A j \in 1 .. i - 1 : front[j] = log[j]
    <2>1. /\ 1 \in Int /\ i - 1 \in Int /\ \A j \in 1 .. i - 1 : log[j] \in L!Lines
      BY <1>1
    <2>2. /\ front \in Seq(L!Lines) /\ Len(front) = (IF 1 <= i - 1 THEN i - 1 - 1 + 1 ELSE 0)
          /\ \A j \in 1 .. i - 1 - 1 + 1 : front[j] = log[1 + j - 1]
      BY <2>1, SubSeqProperties
    <2> HIDE DEF front
    <2> QED BY <1>1, <2>2
  <1>3. /\ back \in Seq(L!Lines) /\ Len(back) = Len(log) - i
        /\ \A j \in 1 .. Len(log) - i : back[j] = log[i + j]
    <2>1. /\ i + 1 \in Int /\ Len(log) \in Int
          /\ \A j \in i + 1 .. Len(log) : log[j] \in L!Lines
      BY <1>1
    <2>2. /\ back \in Seq(L!Lines)
          /\ Len(back) = (IF i + 1 <= Len(log) THEN Len(log) - (i + 1) + 1 ELSE 0)
          /\ \A j \in 1 .. Len(log) - (i + 1) + 1 : back[j] = log[i + 1 + j - 1]
      BY <2>1, SubSeqProperties
    <2> HIDE DEF back
    <2>3. /\ Len(log) - (i + 1) + 1 = Len(log) - i /\ i + 1 <= Len(log)
          /\ \A j \in 1 .. Len(log) - i : i + 1 + j - 1 = i + j
      BY <1>1
    <2> QED BY <2>2, <2>3
  <1>4. log' = front \o back
    BY DEF L!Remove
  <1> HIDE DEF front, back
  <1>5. /\ log' \in Seq(L!Lines) /\ Len(log') = Len(front) + Len(back)
        /\ \A j \in 1 .. Len(front) + Len(back) :
             log'[j] = IF j <= Len(front) THEN front[j] ELSE back[j - Len(front)]
    <2>1. /\ front \o back \in Seq(L!Lines) /\ Len(front \o back) = Len(front) + Len(back)
          /\ \A j \in 1 .. Len(front) + Len(back) :
               (front \o back)[j] = IF j <= Len(front) THEN front[j] ELSE back[j - Len(front)]
      BY <1>2, <1>3, ConcatProperties
    <2> QED BY <1>4, <2>1, Zenon
  <1>6. Len(log') = Len(log) - 1 /\ DOMAIN log' = 1 .. Len(log) - 1
    BY <1>1, <1>2, <1>3, <1>5
  <1>7. ASSUME NEW j \in 1 .. i - 1 PROVE log'[j] = log[j]
    BY <1>1, <1>2, <1>3, <1>5, <1>7
  <1>8. ASSUME NEW j \in i .. Len(log) - 1 PROVE log'[j] = log[j + 1]
    <2>1. /\ j - (i - 1) \in 1 .. Len(log) - i /\ i + (j - (i - 1)) = j + 1
          /\ ~(j <= i - 1) /\ j \in 1 .. (i - 1) + (Len(log) - i)
      BY <1>1
    <2>2. log'[j] = back[j - (i - 1)]
      BY <1>2, <1>3, <1>5, <2>1
    <2>3. back[j - (i - 1)] = log[i + (j - (i - 1))]
      BY <1>3, <2>1
    <2> QED BY <2>1, <2>2, <2>3
  <1> QED BY <1>1, <1>5, <1>6, <1>7, <1>8

\* The file with another content in one of its lines.
LEMMA AfterAlter ==
  ASSUME LogRanges, NEW i \in DOMAIN log, NEW v \in Values, L!Alter(i, v)
  PROVE  /\ log' \in Seq(L!Lines) /\ Len(log') = Len(log) /\ DOMAIN log' = DOMAIN log
         /\ \A j \in DOMAIN log :
              /\ log'[j].kind = log[j].kind /\ log'[j].hash = log[j].hash
              /\ log'[j].prev = log[j].prev
              /\ j # i => log'[j] = log[j]
         /\ ~log'[i].whole
  <1> DEFINE line == [log[i] EXCEPT !.val = v, !.whole = FALSE]
  <1>1. log \in Seq(L!Lines) /\ DOMAIN log = 1 .. Len(log) /\ log[i] \in L!Lines
    BY DEF LogRanges
  <1>2. /\ line \in L!Lines /\ line.kind = log[i].kind /\ line.hash = log[i].hash
        /\ line.prev = log[i].prev /\ ~line.whole
    BY <1>1 DEF L!Lines, L!Contents
  <1>3. log' = [log EXCEPT ![i] = line]
    BY <1>1 DEF L!Alter
  <1> HIDE DEF line
  <1>4. /\ log' \in Seq(L!Lines) /\ Len(log') = Len(log)
        /\ \A j \in 1 .. Len(log) : log'[j] = IF j = i THEN line ELSE log[j]
    <2>1. /\ [log EXCEPT ![i] = line] \in Seq(L!Lines) /\ Len([log EXCEPT ![i] = line]) = Len(log)
          /\ \A j \in 1 .. Len(log) :
               [log EXCEPT ![i] = line][j] = IF j = i THEN line ELSE log[j]
      BY <1>1, <1>2, ExceptSeq
    <2> QED BY <1>3, <2>1, Zenon
  <1> QED BY <1>1, <1>2, <1>4

-----------------------------------------------------------------------------
\* A step that leaves the file alone breaks nothing that is said of its lines.
LEMMA LinesStay ==
  ASSUME UNCHANGED log
  PROVE  /\ Readable' = Readable /\ Rising' = Rising /\ Shown' = Shown
         /\ L!PreviousHash' = L!PreviousHash
         /\ \A k, v : Tells(k, v)' = Tells(k, v)
  BY DEF Readable, Rising, Shown, Expected, L!PreviousHash, Tells, About

LEMMA FileInit == L!AuditAssumption /\ L!Init => FileInv
  <1> SUFFICES ASSUME L!AuditAssumption, L!Init PROVE FileInv
    OBVIOUS
  <1>1. /\ LinkInv /\ audEdits = 0 /\ audCrashes = 0 /\ stamp = L!Genesis
        /\ audOrdered \in BOOLEAN
    BY LinkInit DEF L!Init
  <1>2. LogRanges /\ BareLines
    BY <1>1 DEF LinkInv
  <1>3. \A i \in DOMAIN log : log[i].kind = "legacy" /\ log[i].hash = L!Genesis
    BY <1>2 DEF L!Init, L!AuditAssumption, L!Legacy
  <1>4. L!TypeOK
    BY <1>1, <1>2, <1>3, TypesRange DEF L!Genesis
  <1>5. OneWrites /\ Rising
    BY <1>3 DEF L!Init, OneWrites, Rising
  <1> QED BY <1>1, <1>2, <1>4, <1>5 DEF FileInv

\* A write begins: nothing has been read.
LEMMA BeginFile ==
  ASSUME FileInv, NEW w \in Writers, L!MayStart(w),
         NEW key \in Keys \cup {None}, NEW val \in L!Contents, L!Begins(w, key, val),
         row' \in [Keys -> L!Contents],
         UNCHANGED <<log, torn, stamp, audCrashes, audEdits, audOrdered>>
  PROVE  FileInv'
  <1> DEFINE copy == [L!NoWrite EXCEPT !.key = key, !.val = val]
  <1>1. /\ LogRanges /\ BareLines /\ \A i \in DOMAIN log : log[i].hash <= stamp
        /\ audCrashes \in Nat /\ audEdits \in Nat /\ audOrdered \in BOOLEAN
    BY TypesRange DEF FileInv
  <1>2. copy \in LinkCopies
    BY DEF L!NoWrite, LinkCopies, L!Genesis
  <1>3. /\ audPc' = [audPc EXCEPT ![w] = "link"] /\ audLocal' = [audLocal EXCEPT ![w] = copy]
        /\ audPc[w] = "idle" /\ (audOrdered => \A v \in Writers : audPc[v] = "idle")
    BY DEF L!Begins, L!MayStart
  <1> HIDE DEF copy
  <1>4. LogRanges'
    BY <1>1, <1>2, <1>3 DEF LogRanges
  <1>5. L!TypeOK' /\ BareLines'
    BY <1>1, <1>4, TypesRange DEF L!TypeOK, LogRanges, LinkCopies, BareLines
  <1>6. audOrdered => OneWrites'
    BY <1>1, <1>3 DEF OneWrites, LogRanges
  <1> QED BY <1>5, <1>6, LinesStay DEF FileInv

\* The link is read.
LEMMA ReadFile ==
  ASSUME FileInv, NEW w \in Writers, L!ReadLink(w)
  PROVE  FileInv'
  <1>1. /\ LogRanges /\ BareLines /\ \A i \in DOMAIN log : log[i].hash <= stamp
        /\ audCrashes \in Nat /\ audEdits \in Nat /\ audOrdered \in BOOLEAN
    BY TypesRange DEF FileInv
  <1>2. /\ audPc[w] = "link" /\ audPc' = [audPc EXCEPT ![w] = "append"]
        /\ audLocal' = [audLocal EXCEPT ![w].prev = L!PreviousHash]
        /\ UNCHANGED <<row, log, torn, stamp, audCrashes, audEdits, audOrdered>>
    BY DEF L!ReadLink
  <1>3. L!PreviousHash \in Nat
    BY <1>1, PreviousIsKnown
  <1>4. /\ audLocal' \in [Writers -> LinkCopies] /\ audLocal'[w].prev = L!PreviousHash
        /\ \A v \in Writers : v # w => audLocal'[v] = audLocal[v]
    BY <1>1, <1>2, <1>3 DEF LogRanges, LinkCopies
  <1>5. LogRanges'
    BY <1>1, <1>2, <1>4 DEF LogRanges
  <1>6. L!TypeOK' /\ BareLines'
    BY <1>1, <1>2, <1>5 DEF L!TypeOK, LogRanges, LinkCopies, BareLines
  <1>7. audOrdered => OneWrites'
    BY <1>1, <1>2, <1>4, LinesStay DEF FileInv, OneWrites, LogRanges
  <1> QED BY <1>2, <1>6, <1>7, LinesStay DEF FileInv

\* A writer ends, and the file is as it was.
LEMMA EndFile ==
  ASSUME FileInv, NEW w \in Writers, audPc[w] # "idle",
         audPc' = [audPc EXCEPT ![w] = "idle"], audLocal' = [audLocal EXCEPT ![w] = L!NoWrite],
         stamp' \in {stamp, stamp + 1}, audCrashes' \in Nat, (torn' = torn) \/ (torn' = FALSE),
         UNCHANGED <<row, log, audEdits, audOrdered>>
  PROVE  FileInv'
  <1>1. /\ LogRanges /\ BareLines /\ \A i \in DOMAIN log : log[i].hash <= stamp
        /\ audCrashes \in Nat /\ audEdits \in Nat /\ audOrdered \in BOOLEAN
    BY TypesRange DEF FileInv
  <1>2. /\ stamp \in Nat /\ torn \in BOOLEAN /\ \A i \in DOMAIN log : log[i] \in L!Lines
    BY <1>1 DEF LogRanges
  <1>3. stamp' \in Nat /\ \A i \in DOMAIN log : log[i].hash <= stamp'
    BY <1>1, <1>2 DEF L!Lines
  <1>4. torn' \in BOOLEAN /\ (torn' => torn)
    <2>1. CASE torn' = torn
      BY <1>2, <2>1, Zenon
    <2>2. CASE torn' = FALSE
      BY <2>2, Zenon
    <2> QED BY <2>1, <2>2
  <1>5. LogRanges'
    BY <1>1, <1>3, <1>4, LinesRange DEF LogRanges
  <1>6. BareLines'
    BY <1>1, <1>4 DEF BareLines
  <1>7. L!TypeOK'
    BY <1>1, <1>3, <1>5 DEF L!TypeOK, LogRanges, LinkCopies
  <1>8. \A v \in Writers : audPc'[v] # "idle" => audPc'[v] = audPc[v] /\ audLocal'[v] = audLocal[v]
    BY <1>1 DEF LogRanges
  <1>9. audOrdered => OneWrites'
    BY <1>8, LinesStay DEF FileInv, OneWrites
  <1> QED BY <1>6, <1>7, <1>9, LinesStay DEF FileInv

\* A writer ends, and the file has one more line: the one it had computed, or the
\* half of one.
LEMMA AppendFile ==
  ASSUME FileInv, NEW w \in Writers, audPc[w] = "append",
         NEW line \in L!Lines, log' = Append(log, line),
         line = L!Garbled \/ (line = L!Written(w) /\ ~torn' /\ stamp' = stamp + 1),
         audPc' = [audPc EXCEPT ![w] = "idle"], audLocal' = [audLocal EXCEPT ![w] = L!NoWrite],
         stamp' \in {stamp, stamp + 1}, audCrashes' \in Nat, torn' \in BOOLEAN,
         UNCHANGED <<row, audEdits, audOrdered>>
  PROVE  FileInv'
  <1>1. /\ LogRanges /\ BareLines /\ \A i \in DOMAIN log : log[i].hash <= stamp
        /\ audCrashes \in Nat /\ audEdits \in Nat /\ audOrdered \in BOOLEAN
    BY TypesRange DEF FileInv
  <1>2. /\ line = L!Garbled => line.kind = "garbled" /\ line.hash = L!Genesis
        /\ line = L!Written(w) =>
             /\ line.kind = "hashed" /\ line.hash = stamp + 1
             /\ line.prev = audLocal[w].prev /\ line.whole
    BY DEF L!Garbled, L!Legacy, L!Written
  <1>3. /\ stamp \in Nat /\ stamp' \in Nat /\ stamp <= stamp'
        /\ \A i \in DOMAIN log : log[i].hash \in Nat
    <2>1. stamp \in Nat /\ \A i \in DOMAIN log : log[i] \in L!Lines
      BY <1>1 DEF LogRanges
    <2>2. \A i \in DOMAIN log : log[i].hash \in Nat
      BY <2>1 DEF L!Lines
    <2> QED BY <2>1, <2>2
  <1>4. LogRanges'
    BY <1>1, <1>3, AfterAppend, LinesRange DEF LogRanges
  <1>5. BareLines'
    BY <1>1, <1>2, AfterAppend DEF BareLines
  <1>6. L!TypeOK'
    <2>1. line.hash <= stamp'
      BY <1>2, <1>3 DEF L!Genesis
    <2>2. \A i \in DOMAIN log' : log'[i].hash <= stamp'
      BY <1>1, <1>3, <2>1, AfterAppend
    <2> QED BY <1>1, <1>4, <2>2 DEF L!TypeOK, LogRanges, LinkCopies
  <1>7. \A v \in Writers : audPc'[v] # "idle" => v # w /\ audPc'[v] = audPc[v]
    BY <1>1 DEF LogRanges
  <1>8. audOrdered => OneWrites'
    <2>1. audOrdered => \A v \in Writers : audPc'[v] = "idle"
      BY <1>1, <1>7 DEF FileInv, OneWrites, LogRanges
    <2> QED BY <2>1 DEF OneWrites
  <1>9. ASSUME audOrdered, Readable' PROVE Rising' /\ (audEdits' > 0 => Shown')
    <2>1. Readable /\ line = L!Written(w)
      BY <1>1, <1>2, <1>9, AfterAppend DEF Readable
    <2>2. Rising /\ (audEdits > 0 => Shown) /\ audLocal[w].prev = L!PreviousHash
      BY <1>9, <2>1 DEF FileInv, OneWrites
    <2>3. \A i \in DOMAIN log : log'[i] = log[i] /\ Expected(i)' = Expected(i)
      BY <1>1, AfterAppend DEF Expected
    <2>4. PICK last \in Nat : last = Len(log) + 1
      BY <1>1, AfterAppend
    <2>5. /\ log'[last] = line /\ Expected(last)' = L!PreviousHash
          /\ L!PreviousHash \in Nat /\ L!PreviousHash <= stamp
      <3>1. CASE log = <<>>
        <4>1. last = 1
          BY <2>4, <3>1
        <4> QED BY <1>1, <1>3, <2>4, <3>1, <4>1, AfterAppend DEF L!PreviousHash, Expected, L!Genesis
      <3>2. CASE log # <<>>
        <4>1. Len(log) \in DOMAIN log /\ last # 1 /\ last - 1 = Len(log)
          BY <1>1, <2>4, <3>2, AfterAppend
        <4>2. Expected(last)' = log[Len(log)].hash
          BY <1>1, <4>1, AfterAppend DEF Expected
        <4>3. L!PreviousHash = log[Len(log)].hash
          BY <1>1, <3>2, <4>1 DEF L!PreviousHash, BareLines
        <4> QED BY <1>1, <1>3, <2>4, <4>1, <4>2, <4>3, AfterAppend
      <3> QED BY <3>1, <3>2
    <2>6. Rising'
      <3>1. Expected(last)' < log'[last].hash /\ Expected(last)' <= log'[last].prev
        <4>1. line.hash = stamp + 1 /\ line.prev = L!PreviousHash
          BY <1>2, <2>1, <2>2
        <4>2. L!PreviousHash < stamp + 1 /\ L!PreviousHash <= L!PreviousHash
          BY <1>3, <2>5
        <4>3. log'[last].hash = stamp + 1 /\ log'[last].prev = L!PreviousHash
          BY <2>5, <4>1, Zenon
        <4>4. Expected(last)' = L!PreviousHash
          BY <2>5
        <4> QED BY <4>2, <4>3, <4>4
      <3>2. ASSUME NEW i \in DOMAIN log', log'[i].kind = "hashed"
            PROVE  Expected(i)' < log'[i].hash /\ Expected(i)' <= log'[i].prev
        <4>1. CASE i \in DOMAIN log
          BY <2>2, <2>3, <3>2, <4>1 DEF Rising
        <4>2. CASE i = last
          BY <3>1, <4>2
        <4> QED BY <1>1, <2>4, <4>1, <4>2, AfterAppend
      <3> QED BY <3>2 DEF Rising
    <2>7. ASSUME audEdits' > 0 PROVE Shown'
      <3>1. PICK i \in DOMAIN log :
              log[i].kind = "hashed" /\ (~log[i].whole \/ log[i].prev # Expected(i))
        BY <2>2, <2>7 DEF Shown
      <3>2. i \in DOMAIN log' /\ log'[i] = log[i] /\ Expected(i)' = Expected(i)
        BY <1>1, <2>3, AfterAppend
      <3> QED BY <3>1, <3>2 DEF Shown
    <2> QED BY <2>6, <2>7
  <1> QED BY <1>5, <1>6, <1>8, <1>9 DEF FileInv

\* Somebody changes a line: it is not what was hashed from now on.
LEMMA AlterFile ==
  ASSUME FileInv, NEW i \in DOMAIN log, NEW v \in Values, L!Alter(i, v)
  PROVE  FileInv'
  <1>1. /\ LogRanges /\ BareLines /\ \A j \in DOMAIN log : log[j].hash <= stamp
        /\ audCrashes \in Nat /\ audEdits \in Nat /\ audOrdered \in BOOLEAN
    BY TypesRange DEF FileInv
  <1>2. /\ audEdits' = audEdits + 1 /\ log[i].kind = "hashed"
        /\ UNCHANGED <<row, torn, audPc, audLocal, stamp, audCrashes, audOrdered>>
    BY DEF L!Alter
  <1>3. /\ log' \in Seq(L!Lines) /\ Len(log') = Len(log) /\ DOMAIN log' = DOMAIN log
        /\ \A j \in DOMAIN log :
             log'[j].kind = log[j].kind /\ log'[j].hash = log[j].hash /\ log'[j].prev = log[j].prev
        /\ ~log'[i].whole
    BY <1>1, AfterAlter
  <1>4. Len(log) \in Nat /\ DOMAIN log = 1 .. Len(log) /\ (log' = <<>> <=> log = <<>>)
    <2>1. log \in Seq(L!Lines) /\ DOMAIN log = 1 .. Len(log) /\ Len(log) \in Nat
      BY <1>1 DEF LogRanges
    <2>2. log = <<>> <=> Len(log) = 0
      BY <2>1
    <2>3. log' = <<>> <=> Len(log') = 0
      BY <1>3
    <2> QED BY <1>3, <2>1, <2>2, <2>3
  <1>5. L!TypeOK'
    BY <1>1, <1>2, <1>3 DEF L!TypeOK, LogRanges, LinkCopies
  <1>6. BareLines'
    BY <1>1, <1>2, <1>3, <1>4 DEF BareLines
  <1>7. L!PreviousHash' = L!PreviousHash
    BY <1>1, <1>3, <1>4 DEF L!PreviousHash
  <1>8. audOrdered => OneWrites'
    BY <1>2, <1>7 DEF FileInv, OneWrites
  <1>9. \A j \in DOMAIN log : Expected(j)' = Expected(j)
    BY <1>3, <1>4 DEF Expected
  <1>10. Readable' => Readable
    BY <1>3 DEF Readable
  <1>11. audOrdered /\ Readable => Rising'
    BY <1>3, <1>9 DEF FileInv, Rising
  <1>12. Shown'
    BY <1>2, <1>3 DEF Shown
  <1> QED BY <1>2, <1>5, <1>6, <1>8, <1>10, <1>11, <1>12 DEF FileInv

\* Somebody takes a line out: the next one links to what is no longer before it.
LEMMA RemoveFile ==
  ASSUME FileInv, NEW i \in DOMAIN log, L!Remove(i)
  PROVE  FileInv'
  <1>1. /\ LogRanges /\ BareLines /\ \A j \in DOMAIN log : log[j].hash <= stamp
        /\ audCrashes \in Nat /\ audEdits \in Nat /\ audOrdered \in BOOLEAN
    BY TypesRange DEF FileInv
  <1>2. /\ audEdits' = audEdits + 1 /\ log[i].kind = "hashed" /\ log[i + 1].kind = "hashed"
        /\ i < Len(log) /\ UNCHANGED <<row, torn, audPc, audLocal, stamp, audCrashes, audOrdered>>
    BY DEF L!Remove
  <1>3. /\ log' \in Seq(L!Lines)
        /\ Len(log) \in Nat /\ DOMAIN log = 1 .. Len(log) /\ i \in Nat \ {0}
        /\ Len(log') = Len(log) - 1 /\ DOMAIN log' = 1 .. Len(log) - 1
        /\ \A j \in 1 .. i - 1 : log'[j] = log[j]
        /\ \A j \in i .. Len(log) - 1 : log'[j] = log[j + 1]
    BY <1>1, AfterRemove
  <1>4. \A j \in DOMAIN log : log[j].hash \in Nat /\ log[j].prev \in Nat
    <2>1. \A j \in DOMAIN log : log[j] \in L!Lines
      BY <1>1 DEF LogRanges
    <2> QED BY <2>1 DEF L!Lines
  \* Each line that is left is one that was there, and the last is the last.
  <1>5. \A j \in DOMAIN log' : \E k \in DOMAIN log : log'[j] = log[k]
    <2> SUFFICES ASSUME NEW j \in DOMAIN log' PROVE \E k \in DOMAIN log : log'[j] = log[k]
      OBVIOUS
    <2>1. CASE j \in 1 .. i - 1
      BY <1>2, <1>3, <2>1
    <2>2. CASE j \in i .. Len(log) - 1
      <3>1. j + 1 \in DOMAIN log /\ log'[j] = log[j + 1]
        BY <1>3, <2>2
      <3> QED BY <3>1
    <2> QED BY <1>2, <1>3, <2>1, <2>2
  <1>6. log # <<>> /\ log' # <<>> /\ log'[Len(log')] = log[Len(log)]
    <2>1. Len(log) > 1 /\ Len(log') > 0 /\ Len(log) - 1 \in i .. Len(log) - 1
      BY <1>2, <1>3
    <2>2. log'[Len(log) - 1] = log[Len(log) - 1 + 1] /\ Len(log) - 1 + 1 = Len(log)
      BY <1>3, <2>1
    <2> QED BY <1>3, <2>1, <2>2
  <1>7. L!TypeOK'
    <2>1. \A j \in DOMAIN log' : log'[j].hash <= stamp'
      BY <1>1, <1>2, <1>5
    <2> QED BY <1>1, <1>2, <1>3, <2>1 DEF L!TypeOK, LogRanges, LinkCopies
  <1>8. BareLines'
    BY <1>1, <1>2, <1>5, <1>6 DEF BareLines
  <1>9. audOrdered => OneWrites'
    BY <1>2, <1>6 DEF FileInv, OneWrites, L!PreviousHash
  <1>10. ASSUME audOrdered, Readable' PROVE Rising' /\ Shown'
    <2>1. Readable
      <3> SUFFICES ASSUME NEW k \in DOMAIN log PROVE log[k].kind # "garbled"
        BY DEF Readable
      <3>1. CASE k < i
        BY <1>2, <1>3, <1>10, <3>1 DEF Readable
      <3>2. CASE k = i
        BY <1>2, <3>2
      <3>3. CASE k > i
        <4>1. k - 1 \in i .. Len(log) - 1 /\ k - 1 + 1 = k /\ k - 1 \in DOMAIN log'
          BY <1>3, <3>3
        <4>2. log'[k - 1] = log[k]
          BY <1>3, <4>1
        <4> QED BY <1>10, <4>1, <4>2 DEF Readable
      <3> QED BY <1>3, <3>1, <3>2, <3>3
    <2>2. Rising
      BY <1>10, <2>1 DEF FileInv
    <2>3. \A j \in 1 .. i - 1 : Expected(j)' = Expected(j)
      <3> SUFFICES ASSUME NEW j \in 1 .. i - 1 PROVE Expected(j)' = Expected(j)
        OBVIOUS
      <3>1. j = 1 \/ (j # 1 /\ j - 1 \in 1 .. i - 1)
        BY <1>3
      <3> QED BY <1>3, <3>1 DEF Expected
    <2>4. Expected(i)' = Expected(i)
      <3>1. i = 1 \/ i - 1 \in 1 .. i - 1
        BY <1>3
      <3> QED BY <1>3, <3>1 DEF Expected
    <2>5. \A j \in i + 1 .. Len(log) - 1 : Expected(j)' = Expected(j + 1)
      <3> SUFFICES ASSUME NEW j \in i + 1 .. Len(log) - 1 PROVE Expected(j)' = Expected(j + 1)
        OBVIOUS
      <3>1. /\ j # 1 /\ j + 1 # 1 /\ j + 1 - 1 = j
            /\ j - 1 \in i .. Len(log) - 1 /\ j - 1 + 1 = j
        BY <1>3
      <3>2. log'[j - 1] = log[j]
        BY <1>3, <3>1
      <3> QED BY <3>1, <3>2 DEF Expected
    <2>6. /\ log'[i] = log[i + 1] /\ i \in DOMAIN log' /\ i + 1 \in DOMAIN log
          /\ Expected(i) < log[i].hash /\ Expected(i + 1) = log[i].hash
          /\ Expected(i + 1) < log[i + 1].hash /\ Expected(i + 1) <= log[i + 1].prev
          /\ Expected(i) \in Nat
      <3>1. i + 1 \in DOMAIN log /\ i \in DOMAIN log' /\ i \in i .. Len(log) - 1
            /\ i + 1 # 1 /\ i + 1 - 1 = i
        BY <1>2, <1>3
      <3>2. Expected(i + 1) = log[i].hash
        BY <3>1 DEF Expected
      <3>3. Expected(i) \in Nat
        <4>1. i = 1 \/ i - 1 \in DOMAIN log
          BY <1>3
        <4> QED BY <1>4, <4>1 DEF Expected, L!Genesis
      <3> QED BY <1>2, <1>3, <2>2, <3>1, <3>2, <3>3 DEF Rising
    <2>7. /\ Expected(i)' <= log'[i].prev /\ Expected(i)' # log'[i].prev
          /\ Expected(i)' < log'[i].hash
      BY <1>4, <2>4, <2>6
    <2>8. Rising'
      <3> SUFFICES ASSUME NEW j \in DOMAIN log', log'[j].kind = "hashed"
                   PROVE  Expected(j)' < log'[j].hash /\ Expected(j)' <= log'[j].prev
        BY DEF Rising
      <3>1. CASE j < i
        <4>1. j \in 1 .. i - 1 /\ j \in DOMAIN log
          BY <1>2, <1>3, <3>1
        <4> QED BY <1>3, <2>2, <2>3, <4>1 DEF Rising
      <3>2. CASE j = i
        BY <2>7, <3>2
      <3>3. CASE j > i
        <4>1. /\ j \in i + 1 .. Len(log) - 1 /\ j \in i .. Len(log) - 1 /\ j + 1 \in DOMAIN log
          BY <1>3, <3>3
        <4>2. log'[j] = log[j + 1] /\ Expected(j)' = Expected(j + 1)
          BY <1>3, <2>5, <4>1
        <4> QED BY <2>2, <4>1, <4>2 DEF Rising
      <3> QED BY <1>3, <3>1, <3>2, <3>3
    <2>9. Shown'
      <3>1. Expected(i)' # log'[i].prev /\ log'[i].kind = "hashed" /\ i \in DOMAIN log'
        BY <1>2, <2>6, <2>7
      <3> QED BY <3>1 DEF Shown
    <2> QED BY <2>8, <2>9
  <1> QED BY <1>2, <1>7, <1>8, <1>9, <1>10 DEF FileInv

LEMMA FileStep == FileInv /\ [L!Next]_(L!vars) => FileInv'
  <1> SUFFICES ASSUME FileInv, [L!Next]_(L!vars) PROVE FileInv'
    OBVIOUS
  <1>1. LogRanges /\ audCrashes \in Nat
    BY TypesRange DEF FileInv
  <1>2. CASE UNCHANGED L!vars
    BY <1>2, LinesStay DEF L!vars, FileInv, L!TypeOK, BareLines, OneWrites
  <1>3. ASSUME NEW w \in Writers, NEW k \in Keys, L!Delete(w, k) PROVE FileInv'
    <2>1. row' \in [Keys -> L!Contents] /\ None \in L!Contents
      BY <1>1, <1>3 DEF L!Delete, LogRanges, L!Contents
    <2> QED BY <1>3, <2>1, BeginFile DEF L!Delete
  <1>4. ASSUME NEW w \in Writers, NEW k \in Keys, NEW v \in Values, L!Put(w, k, v) PROVE FileInv'
    <2>1. row' \in [Keys -> L!Contents] /\ v \in L!Contents
      BY <1>1, <1>4 DEF L!Put, LogRanges, L!Contents
    <2> QED BY <1>4, <2>1, BeginFile DEF L!Put
  <1>5. ASSUME NEW w \in Writers, L!Note(w) PROVE FileInv'
    <2>1. row' \in [Keys -> L!Contents] /\ None \in L!Contents
      BY <1>1, <1>5 DEF L!Note, LogRanges, L!Contents
    <2> QED BY <1>5, <2>1, BeginFile DEF L!Note
  <1>6. ASSUME NEW w \in Writers, L!ReadLink(w) PROVE FileInv'
    BY <1>6, ReadFile
  <1>7. ASSUME NEW w \in Writers, L!AppendLine(w) PROVE FileInv'
    <2>1. /\ audPc[w] = "append" /\ torn' = FALSE
          /\ log' = IF torn THEN log ELSE Append(log, L!Written(w))
          /\ audPc' = [audPc EXCEPT ![w] = "idle"] /\ audLocal' = [audLocal EXCEPT ![w] = L!NoWrite]
          /\ stamp' = stamp + 1 /\ UNCHANGED <<row, audCrashes, audEdits, audOrdered>>
      BY <1>7 DEF L!AppendLine
    <2>2. L!Written(w) \in L!Lines
      <3>1. audLocal[w] \in LinkCopies /\ stamp \in Nat
        BY <1>1 DEF LogRanges
      <3> QED BY <3>1 DEF L!Written, L!Lines, LinkCopies
    <2>3. CASE torn
      BY <1>1, <1>7, <2>1, <2>3, EndFile
    <2>4. CASE ~torn
      BY <1>1, <1>7, <2>1, <2>2, <2>4, AppendFile
    <2> QED BY <2>3, <2>4
  <1>8. ASSUME NEW w \in Writers, L!Crash(w) PROVE FileInv'
    <2>1. /\ audPc[w] # "idle" /\ audCrashes' \in Nat /\ stamp' = stamp
          /\ audPc' = [audPc EXCEPT ![w] = "idle"] /\ audLocal' = [audLocal EXCEPT ![w] = L!NoWrite]
          /\ UNCHANGED <<row, audEdits, audOrdered>>
      BY <1>1, <1>8 DEF L!Crash
    <2>2. CASE UNCHANGED <<log, torn>>
      BY <1>8, <2>1, <2>2, EndFile
    <2>3. CASE audPc[w] = "append" /\ log' = Append(log, L!Garbled) /\ torn' = TRUE
      BY <1>8, <2>1, <2>3, AppendFile, LinesRange
    <2> QED BY <1>8, <2>2, <2>3 DEF L!Crash
  <1>9. ASSUME NEW i \in DOMAIN log, L!Remove(i) \/ \E v \in Values : L!Alter(i, v)
        PROVE  FileInv'
    BY <1>9, RemoveFile, AlterFile
  <1> QED BY <1>2, <1>3, <1>4, <1>5, <1>6, <1>7, <1>8, <1>9 DEF L!Next, L!Write

-----------------------------------------------------------------------------
\* What a line at the end of the file makes the file say of the key it is about, and
\* of another one.
LEMMA TellsAfterAppend ==
  ASSUME LogRanges, NEW line \in L!Lines, log' = Append(log, line), NEW k
  PROVE  /\ line.kind = "hashed" /\ line.key = k => Tells(k, line.val)'
         /\ \A v : line.key # k /\ Tells(k, v) => Tells(k, v)'
  <1>1. /\ Len(log) \in Nat /\ DOMAIN log = 1 .. Len(log) /\ DOMAIN log' = 1 .. Len(log) + 1
        /\ \A i \in DOMAIN log : log'[i] = log[i]
        /\ log'[Len(log) + 1] = line
    BY AfterAppend
  <1>2. ASSUME line.kind = "hashed", line.key = k PROVE Tells(k, line.val)'
    <2>1. PICK last \in Nat : last = Len(log) + 1
      BY <1>1
    <2>2. last \in About(k)' /\ log'[last].val = line.val
      BY <1>1, <1>2, <2>1 DEF About
    <2>3. \A j \in About(k)' : j <= last
      BY <1>1, <2>1 DEF About
    <2> QED BY <2>2, <2>3 DEF Tells
  <1>3. ASSUME NEW v, line.key # k, Tells(k, v) PROVE Tells(k, v)'
    <2>1. About(k)' = About(k)
      BY <1>1, <1>3 DEF About
    <2>2. \A i \in About(k) : log'[i] = log[i]
      BY <1>1 DEF About
    <2> QED BY <1>3, <2>1, <2>2 DEF Tells
  <1> QED BY <1>2, <1>3

\* What the file says of a key is what is read from it.
LEMMA LoggedTells ==
  ASSUME LogRanges, NEW k, NEW v, Tells(k, v)
  PROVE  L!Logged(k) = v
  <1>1. CASE About(k) = {} /\ v = None
    BY <1>1 DEF L!Logged, About
  <1>2. ASSUME NEW i \in About(k), log[i].val = v, \A j \in About(k) : j <= i
        PROVE  L!Logged(k) = v
    <2>1. About(k) \subseteq Nat
      BY DEF LogRanges, About
    <2>2. L!Max(About(k)) = i
      BY <1>2, <2>1 DEF L!Max
    <2>3. L!Logged(k) = IF About(k) = {} THEN None ELSE log[L!Max(About(k))].val
      BY DEF L!Logged, About
    <2> QED BY <1>2, <2>2, <2>3
  <1> QED BY <1>1, <1>2 DEF Tells

\* A row that is what the file tells.
LEMMA TellsRow ==
  ASSUME NEW k, NEW v, Tells(k, v)', row'[k] = v
  PROVE  Tells(k, row[k])'
  BY DEF Tells, About

LEMMA RowsInit == L!AuditAssumption /\ L!Init => RowsInv
  <1> SUFFICES ASSUME L!AuditAssumption, L!Init PROVE RowsInv
    OBVIOUS
  <1>1. /\ \A i \in DOMAIN log : log[i].kind = "legacy"
        /\ \A w \in Writers : audPc[w] = "idle"
        /\ \A k \in Keys : row[k] = None
        /\ ~torn
    BY DEF L!Init, L!AuditAssumption, L!Legacy
  <1>2. \A k \in Keys : Tells(k, row[k])
    BY <1>1 DEF Tells, About
  <1> QED BY <1>1, <1>2 DEF RowsInv, Readable

\* A write begins, with the row committed already.
LEMMA BeginRows ==
  ASSUME L!AuditAssumption, FileInv, RowsInv, audOrdered, NEW w \in Writers, L!MayStart(w),
         NEW key \in Keys \cup {None}, NEW val \in L!Contents, L!Begins(w, key, val),
         row' = [k \in Keys |-> IF k = key THEN val ELSE row[k]],
         UNCHANGED <<log, torn, stamp, audCrashes, audEdits, audOrdered>>
  PROVE  RowsInv'
  <1> SUFFICES ASSUME audEdits = 0, audCrashes = 0
               PROVE  /\ Readable' /\ ~torn'
                      /\ \A k \in Keys :
                           \/ /\ Tells(k, row[k])'
                              /\ \A v \in Writers : audPc'[v] # "idle" => audLocal'[v].key # k
                           \/ \E v \in Writers :
                                /\ audPc'[v] # "idle" /\ audLocal'[v].key = k
                                /\ audLocal'[v].val = row'[k]
    BY DEF RowsInv
  <1>1. LogRanges /\ Readable /\ ~torn
    BY TypesRange DEF FileInv, RowsInv
  <1>2. /\ \A v \in Writers : audPc[v] = "idle"
        /\ \A v \in Writers : audPc'[v] # "idle" => v = w
        /\ audPc'[w] # "idle" /\ audLocal'[w].key = key /\ audLocal'[w].val = val
    BY <1>1 DEF L!MayStart, L!Begins, LogRanges, L!NoWrite
  <1>3. ASSUME NEW k \in Keys, k # key PROVE Tells(k, row[k])' /\ audLocal'[w].key # k
    <2>1. Tells(k, row[k]) /\ row'[k] = row[k]
      BY <1>2, <1>3 DEF RowsInv
    <2>2. PICK v : v = row[k]
      OBVIOUS
    <2>3. Tells(k, v)' /\ row'[k] = v
      BY <2>1, <2>2, LinesStay
    <2> QED BY <1>2, <1>3, <2>3, TellsRow
  <1>4. ASSUME NEW k \in Keys, k = key PROVE audLocal'[w].key = k /\ audLocal'[w].val = row'[k]
    BY <1>2, <1>4
  <1> QED BY <1>1, <1>2, <1>3, <1>4, LinesStay

\* Writers go on, and none has written its line yet.
LEMMA ReadRows ==
  ASSUME FileInv, RowsInv, NEW w \in Writers, L!ReadLink(w)
  PROVE  RowsInv'
  <1>1. LogRanges
    BY TypesRange DEF FileInv
  <1>2. /\ audPc[w] # "idle" /\ audPc' = [audPc EXCEPT ![w] = "append"]
        /\ audLocal' = [audLocal EXCEPT ![w].prev = L!PreviousHash]
        /\ UNCHANGED <<row, log, torn, stamp, audCrashes, audEdits, audOrdered>>
    BY DEF L!ReadLink
  <1>3. \A v \in Writers :
          /\ audPc'[v] # "idle" <=> audPc[v] # "idle"
          /\ audLocal'[v].key = audLocal[v].key /\ audLocal'[v].val = audLocal[v].val
    BY <1>1, <1>2 DEF LogRanges, LinkCopies
  <1>4. \A k \in Keys : Tells(k, row[k]) => Tells(k, row[k])'
    BY <1>2 DEF Tells, About
  <1> QED BY <1>2, <1>3, <1>4, LinesStay DEF RowsInv

\* The line says what the row was set to.
LEMMA AppendRows ==
  ASSUME FileInv, RowsInv, audOrdered, audEdits = 0, audCrashes = 0,
         NEW w \in Writers, L!AppendLine(w)
  PROVE  RowsInv'
  <1>1. LogRanges /\ OneWrites /\ Readable /\ ~torn
    BY TypesRange DEF FileInv, RowsInv
  <1>2. /\ audPc[w] = "append" /\ torn' = FALSE /\ log' = Append(log, L!Written(w))
        /\ audPc' = [audPc EXCEPT ![w] = "idle"]
        /\ UNCHANGED <<row, audCrashes, audEdits, audOrdered>>
    BY <1>1 DEF L!AppendLine
  <1>3. /\ L!Written(w) \in L!Lines /\ L!Written(w).kind = "hashed"
        /\ L!Written(w).key = audLocal[w].key /\ L!Written(w).val = audLocal[w].val
    <2>1. audLocal[w] \in LinkCopies /\ stamp \in Nat
      BY <1>1 DEF LogRanges
    <2> QED BY <2>1 DEF L!Written, L!Lines, LinkCopies
  <1>4. \A v \in Writers : audPc[v] # "idle" => v = w
    BY <1>1, <1>2 DEF OneWrites
  <1>5. \A v \in Writers : audPc'[v] = "idle"
    BY <1>1, <1>2, <1>4 DEF LogRanges
  <1>6. Readable'
    BY <1>1, <1>2, <1>3, AfterAppend DEF Readable
  <1>7. ASSUME NEW k \in Keys PROVE Tells(k, row[k])'
    <2>1. PICK v : v = row[k]
      OBVIOUS
    <2>2. row'[k] = v
      BY <1>2, <2>1
    <2>3. CASE audLocal[w].key = k
      <3>1. audLocal[w].val = v
        BY <1>2, <1>4, <2>1, <2>3 DEF RowsInv
      <3>2. PICK line \in L!Lines : line = L!Written(w)
        BY <1>3
      <3>3. Tells(k, line.val)' /\ line.val = v
        BY <1>1, <1>2, <1>3, <2>3, <3>1, <3>2, TellsAfterAppend
      <3> QED BY <2>2, <3>3, TellsRow
    <2>4. CASE audLocal[w].key # k
      <3>1. Tells(k, v)
        BY <1>4, <2>1, <2>4 DEF RowsInv
      <3>2. Tells(k, v)'
        BY <1>1, <1>2, <1>3, <2>4, <3>1, TellsAfterAppend
      <3> QED BY <2>2, <3>2, TellsRow
    <2> QED BY <2>3, <2>4
  <1> QED BY <1>2, <1>5, <1>6, <1>7 DEF RowsInv

LEMMA RowsStep == L!AuditAssumption /\ FileInv /\ RowsInv /\ [L!Next]_(L!vars) => RowsInv'
  <1> SUFFICES ASSUME L!AuditAssumption, FileInv, RowsInv, [L!Next]_(L!vars),
                      audOrdered', audEdits' = 0, audCrashes' = 0
               PROVE  RowsInv'
    BY DEF RowsInv
  <1>1. LogRanges /\ audEdits \in Nat /\ audCrashes \in Nat
    BY TypesRange DEF FileInv
  <1>2. CASE UNCHANGED L!vars
    BY <1>2, LinesStay DEF L!vars, RowsInv, Tells, About
  <1>3. ASSUME NEW i \in DOMAIN log, L!Remove(i) \/ \E v \in Values : L!Alter(i, v)
        PROVE  FALSE
    <2>1. audEdits' = audEdits + 1
      BY <1>3, EditsCount
    <2> QED BY <1>1, <2>1
  <1>4. ASSUME NEW w \in Writers, L!Crash(w) PROVE FALSE
    <2>1. audCrashes' = audCrashes + 1
      BY <1>4 DEF L!Crash
    <2> QED BY <1>1, <2>1
  <1>5. ASSUME NEW w \in Writers, NEW k \in Keys, L!Delete(w, k) PROVE RowsInv'
    <2>1. /\ row' = [j \in Keys |-> IF j = k THEN None ELSE row[j]] /\ None \in L!Contents
          /\ L!MayStart(w) /\ L!Begins(w, k, None)
          /\ UNCHANGED <<log, torn, stamp, audCrashes, audEdits, audOrdered>>
      BY <1>1, <1>5 DEF L!Delete, LogRanges, L!Contents
    <2> QED BY <2>1, BeginRows
  <1>6. ASSUME NEW w \in Writers, NEW k \in Keys, NEW v \in Values, L!Put(w, k, v)
        PROVE  RowsInv'
    <2>1. /\ row' = [j \in Keys |-> IF j = k THEN v ELSE row[j]] /\ v \in L!Contents
          /\ L!MayStart(w) /\ L!Begins(w, k, v)
          /\ UNCHANGED <<log, torn, stamp, audCrashes, audEdits, audOrdered>>
      BY <1>1, <1>6 DEF L!Put, LogRanges, L!Contents
    <2> QED BY <2>1, BeginRows
  <1>7. ASSUME NEW w \in Writers, L!Note(w) PROVE RowsInv'
    <2>1. /\ row' = [j \in Keys |-> IF j = None THEN None ELSE row[j]] /\ None \in L!Contents
          /\ L!MayStart(w) /\ L!Begins(w, None, None)
          /\ UNCHANGED <<log, torn, stamp, audCrashes, audEdits, audOrdered>>
      BY <1>1, <1>7 DEF L!Note, LogRanges, L!Contents, L!AuditAssumption
    <2> QED BY <2>1, BeginRows
  <1>8. ASSUME NEW w \in Writers, L!ReadLink(w) PROVE RowsInv'
    BY <1>8, ReadRows
  <1>9. ASSUME NEW w \in Writers, L!AppendLine(w) PROVE RowsInv'
    <2>1. audOrdered /\ audEdits = 0 /\ audCrashes = 0
      BY <1>9 DEF L!AppendLine
    <2> QED BY <1>9, <2>1, AppendRows
  <1> QED BY <1>2, <1>3, <1>4, <1>5, <1>6, <1>7, <1>8, <1>9 DEF L!Next, L!Write

-----------------------------------------------------------------------------
\* Whoever interleaves or dies, a line names one that is there before it, or the
\* beginning (store.py: audit reads the last hash of the file and appends).
THEOREM LinksHold ==
  ASSUME L!AuditAssumption
  PROVE  L!Spec => []L!LinksLeadBack
  <1>1. LinkInv => L!LinksLeadBack
    BY DEF LinkInv, LinksKnown, L!LinksLeadBack
  <1>2. L!Init => LinkInv /\ LinesInv
    BY LinkInit
  <1>3. LinkInv /\ LinesInv /\ [L!Next]_(L!vars) => (LinkInv /\ LinesInv)'
    BY LinkStep
  <1> QED BY <1>1, <1>2, <1>3, PTL DEF L!Spec

\* A file whose writers took turns, that nobody edited and no death cut, verifies,
\* whatever mixture of old and new lines it has (store.py: verify_audit_chain).
THEOREM ChainHolds ==
  ASSUME L!AuditAssumption
  PROVE  L!Spec => []L!ChainVerifies
  <1>1. LinkInv /\ LinesInv => L!ChainVerifies
    BY ChainedVerifies DEF LinkInv, LinesInv, L!ChainVerifies, Readable
  <1>2. L!Init => LinkInv /\ LinesInv
    BY LinkInit
  <1>3. LinkInv /\ LinesInv /\ [L!Next]_(L!vars) => (LinkInv /\ LinesInv)'
    BY LinkStep
  <1> QED BY <1>1, <1>2, <1>3, PTL DEF L!Spec

\* Rows, lines and what writers have read stay in range, whatever is edited, and no
\* line has a hash from the future (store.py: put, delete, audit).
THEOREM AuditTypes ==
  ASSUME L!AuditAssumption
  PROVE  L!Spec => []L!TypeOK
  <1>1. FileInv => L!TypeOK
    BY DEF FileInv
  <1>2. L!Init => FileInv
    BY FileInit
  <1>3. FileInv /\ [L!Next]_(L!vars) => FileInv'
    BY FileStep
  <1> QED BY <1>1, <1>2, <1>3, PTL DEF L!Spec

\* "Rewriting any past record breaks verification": a file from which a line was taken
\* out, or in which one was changed, never verifies again, whatever is written, cut or
\* edited later (store.py: verify_audit_chain).
THEOREM EditsAlwaysShow ==
  ASSUME L!AuditAssumption
  PROVE  L!Spec => []L!EditsShow
  <1>1. FileInv => L!EditsShow
    <2> SUFFICES ASSUME FileInv, audOrdered, audEdits > 0 PROVE ~L!Verifies
      BY DEF L!EditsShow
    <2>1. LogRanges
      BY TypesRange DEF FileInv
    <2>2. CASE Readable
      <3>1. PICK i \in DOMAIN log :
              log[i].kind = "hashed" /\ (~log[i].whole \/ log[i].prev # Expected(i))
        BY <2>2 DEF FileInv, Shown
      <3>2. ~L!LineVerifies(i)
        BY <2>1, <2>2, <3>1, ExpectedIsPrevious DEF L!LineVerifies
      <3> QED BY <3>2 DEF L!Verifies
    <2>3. CASE ~Readable
      BY <2>3 DEF Readable, L!Verifies, L!LineVerifies
    <2> QED BY <2>2, <2>3
  <1>2. L!Init => FileInv
    BY FileInit
  <1>3. FileInv /\ [L!Next]_(L!vars) => FileInv'
    BY FileStep
  <1> QED BY <1>1, <1>2, <1>3, PTL DEF L!Spec

\* "a Run can be reconstructed even if the database is deleted": when writers took
\* turns, none died and none is under way, the file can be read to its end and its
\* last line about each key says what the row is (store.py: put, delete).
THEOREM LogTellsRows ==
  ASSUME L!AuditAssumption
  PROVE  L!Spec => []L!LogRebuildsRows
  <1>1. FileInv /\ RowsInv => L!LogRebuildsRows
    <2> SUFFICES ASSUME FileInv, RowsInv, audOrdered, audEdits = 0, audCrashes = 0,
                        \A w \in Writers : audPc[w] = "idle"
                 PROVE  /\ \A i \in DOMAIN log : log[i].kind # "garbled"
                        /\ \A k \in Keys : row[k] = L!Logged(k)
      BY DEF L!LogRebuildsRows
    <2>1. LogRanges /\ Readable /\ \A k \in Keys : Tells(k, row[k])
      BY TypesRange DEF FileInv, RowsInv
    <2> QED BY <2>1, LoggedTells DEF Readable
  <1>2. L!Init => FileInv /\ RowsInv
    BY FileInit, RowsInit
  <1>3. FileInv /\ RowsInv /\ [L!Next]_(L!vars) => (FileInv /\ RowsInv)'
    BY FileStep, RowsStep
  <1> QED BY <1>1, <1>2, <1>3, PTL DEF L!Spec
=============================================================================
