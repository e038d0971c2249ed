------------------------------- MODULE Checks -------------------------------
(***************************************************************************)
(* The deterministic checks of sworker/verify.py as operators on what they  *)
(* read.  A table is a sequence of rows, each with a key and a number       *)
(* (NoNum where the cell is no number, Blank where it is empty); a filter   *)
(* asks for a key, for a number above a bound, for both or neither, or for  *)
(* something of a column the table lacks; a document is a sequence of       *)
(* lines, each a heading of some level (0 for body text) and a word; a      *)
(* report is the set of the amounts whose text occurs in it.  Instead of    *)
(* any of them a path may be Missing, or Outside: it leads out of the       *)
(* workspace.  Wild stands in a filter or a check for what it does not ask. *)
(* Numbers are in units of a fifth of a hundredth, so that a number lies    *)
(* between two of the amounts a report is searched for.                     *)
(***************************************************************************)
EXTENDS Integers, Sequences, FiniteSetsExt

CONSTANTS Missing, Outside, NoNum, Blank, Wild

Abs(n) == IF n < 0 THEN -n ELSE n

Cent == 5
One == 100 * Cent

\* round(x, 2), and what int() leaves of a number.
ToCents(n) == IF n < 0 THEN -((Cent \div 2 - n) \div Cent) ELSE (n + Cent \div 2) \div Cent
ToOnes(n) == IF n < 0 THEN -((-n) \div One) ELSE n \div One

\* The texts of an amount, with two decimals and with none.
InCents(c) == [of |-> Cent, count |-> c]
InOnes(w) == [of |-> One, count |-> w]

\* Python's isclose with the larger of the tolerance and a thousandth.
Slack(expect, tolerance) == IF Abs(expect) \div 1000 > tolerance THEN Abs(expect) \div 1000 ELSE tolerance
Close(actual, expect, tolerance) == Abs(actual - expect) <= Slack(expect, tolerance)

\* A condition on a number fails for a cell that is none, one on a column that is not
\* there for every row.
Matches(row, where) ==
    /\ ~where.lacking
    /\ where.key \in {Wild, row.key}
    /\ where.above # Wild => row.num \notin {NoNum, Blank} /\ row.num > where.above

Selected(table, where) == {i \in DOMAIN table : Matches(table[i], where)}
Numbered(table, rows) == {i \in rows : table[i].num \notin {NoNum, Blank}}
SumRows(table, rows) == MapThenSumSet(LAMBDA i : table[i].num, Numbered(table, rows))
SumOf(table, where) == SumRows(table, Selected(table, where))

Outcome(ok) == IF ok THEN "PASS" ELSE "FAIL"

-----------------------------------------------------------------------------
(* run_check: a check that raises, on a path _resolve() refuses or a source  *)
(* that is gone for one, and a check nobody registered are unverifiable.     *)

Unreadable == {Missing, Outside}

RecomputeSum(table, where, expect) ==
    IF table \in Unreadable \/ expect = NoNum THEN "UNVERIFIABLE"
    ELSE Outcome(Close(SumOf(table, where), expect, Cent))

\* The percentage is compared with a tolerance of half a point.
RecomputeDelta(table, current, previous, expect) ==
    IF table \in Unreadable THEN "UNVERIFIABLE"
    ELSE LET cur == SumOf(table, current)
             prev == SumOf(table, previous)
         IN IF prev = 0 \/ expect = NoNum THEN "UNVERIFIABLE"
            ELSE Outcome(2 * Abs((cur - prev) * 100 - expect * prev) <= Abs(prev))

RowCount(table, where, expect) ==
    IF table \in Unreadable \/ expect = NoNum THEN "UNVERIFIABLE"
    ELSE Outcome(Cardinality(Selected(table, where)) = expect)

\* Sizes count lines here.
FileExists(document, least) ==
    IF document = Outside THEN "UNVERIFIABLE"
    ELSE Outcome(document # Missing /\ Len(document) >= least)

Words(document) == {document[i].word : i \in DOMAIN document}

ContainsEvidence(document, markers, least) ==
    IF document = Outside THEN "UNVERIFIABLE"
    ELSE Outcome(document # Missing /\ Cardinality(markers \cap Words(document)) >= least)

Cites(report, texts) == report # Missing /\ texts \cap report # {}

\* The sum to two decimals, or without any; with no report named only the first half is
\* asked for.
ProvenanceChain(table, where, expect, named, report) ==
    IF table \in Unreadable \/ expect = NoNum \/ (named /\ report = Outside) THEN "UNVERIFIABLE"
    ELSE LET sum == SumOf(table, where)
         IN Outcome(/\ Close(sum, expect, Cent)
                    /\ named => Cites(report, {InCents(ToCents(sum)), InOnes(ToOnes(sum))}))

\* The sum is rounded to two decimals before any text of it is looked for.
TotalsMatchSource(table, where, report) ==
    IF table \in Unreadable \/ report = Outside THEN "UNVERIFIABLE"
    ELSE LET cents == ToCents(SumOf(table, where))
         IN Outcome(Cites(report, {InCents(cents), InOnes(ToOnes(cents * Cent))}))

\* Types and non-nullness are asked only of the columns the file has; an
\* empty cell has every type, and a key is no number.
Schema(table, columns, required, nonNull, numeric) ==
    IF table \in Unreadable THEN "UNVERIFIABLE"
    ELSE Outcome(/\ table # << >>
                 /\ required \subseteq columns
                 /\ "num" \in nonNull \cap columns => \A i \in DOMAIN table : table[i].num # Blank
                 /\ "num" \in numeric \cap columns => \A i \in DOMAIN table : table[i].num # NoNum
                 /\ "key" \notin numeric \cap columns)

SetEquality(table, hasColumn, expected) ==
    IF table \in Unreadable THEN "UNVERIFIABLE"
    ELSE IF table # << >> /\ ~hasColumn THEN "FAIL"
    ELSE IF expected = {} THEN "UNVERIFIABLE"
    ELSE Outcome({table[i].key : i \in DOMAIN table} = expected)

Regex(document, word, wanted) ==
    IF document \in Unreadable THEN "UNVERIFIABLE"
    ELSE Outcome((word \in Words(document)) = wanted)

\* The body of a section runs from its heading to the next heading of its
\* level or above that is another one.
Starts(document, heading) == {i \in DOMAIN document : document[i] = heading}
Ends(document, heading, from) ==
    {i \in DOMAIN document : i > from /\ document[i].level \in 1..heading.level /\ document[i] # heading}
Section(document, heading) ==
    LET from == Min(Starts(document, heading))
        ends == Ends(document, heading, from)
    IN SubSeq(document, from + 1, IF ends = {} THEN Len(document) ELSE Min(ends) - 1)

DocSection(document, heading, word) ==
    IF document \in Unreadable THEN "UNVERIFIABLE"
    ELSE IF heading = Wild
         THEN IF word = Wild THEN "UNVERIFIABLE" ELSE Outcome(word \in Words(document))
    ELSE Outcome(/\ Starts(document, heading) # {}
                 /\ word # Wild => word \in Words(Section(document, heading)))
=============================================================================
