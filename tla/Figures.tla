------------------------------ MODULE Figures ------------------------------
(***************************************************************************)
(* The figures of a run: data.query computes them from a source table       *)
(* (sworker/tools/data.py), the engine derives checks from them, runs them  *)
(* and writes the figures into the report (sworker/engine.py), while others *)
(* edit the source.                                                         *)
(***************************************************************************)
EXTENDS Checks

CONSTANTS Keys, Nums,   \* keys and numbers of the rows
          Mentions,     \* amounts a report may say of its own accord
          MaxRows,      \* bound on the rows of the source
          MaxQueries,   \* bound on the queries of the run
          MaxEdits      \* bound on the edits of the source

VARIABLES source,   \* the table the queries read
          report,   \* the fallback report
          computed, \* the figures of this pass
          checked,  \* <<figure, outcome>> pairs stored as verifications
          reread,   \* history: the source as the checks found it
          done,     \* how far the pass is: "querying", "verified", "filled"
          edits

figVars == <<source, report, computed, checked, reread, done, edits>>

Rows == [key : Keys, num : Nums \cup {NoNum, Blank}]
Tables == UNION {[1..n -> Rows] : n \in 0..MaxRows}
Wheres == {w \in [key : {Wild} \cup Keys, above : {Wild, 0}, lacking : {FALSE}] :
             Wild \in {w.key, w.above}}
Aggs == {"sum", "mean", "min", "max", "count"}

\* A query names the column it groups by, or none; nobody looks whether the table has it.
Queries == [agg : Aggs, where : Wheres, group_by : {"", "key", "lacking"}]

\* A cell that is no number is none, a file that is gone or elsewhere is no table, and a
\* key is not what a filter on nothing says.
FiguresAssumption ==
    /\ Nums \subseteq Int /\ NoNum \notin Int
    /\ Unreadable \cap Tables = {}
    /\ Wild \notin Keys

-----------------------------------------------------------------------------
\* No numbers give 0, except that count counts the numbers; a mean is rounded
\* to a whole unit.
Reduce(agg, table, rows) ==
    LET numbered == Numbered(table, rows)
        values == {table[i].num : i \in numbered}
    IN IF agg = "count" THEN Cardinality(numbered)
       ELSE IF numbered = {} THEN 0
       ELSE CASE agg = "sum" -> SumRows(table, rows)
              [] agg = "mean" -> SumRows(table, rows) \div Cardinality(numbered)
              [] agg = "min" -> Min(values)
              [] agg = "max" -> Max(values)

\* The groups of the selected rows.  In a column that is not there every row has "".
Bucket(table, where, k) == {i \in Selected(table, where) : table[i].key = k}
Groups(table, where) == {table[i].key : i \in Selected(table, where)}

\* A figure, the filter its check is to use, and what was queried.
Figure(q, rows, where) ==
    [agg |-> q.agg, value |-> Reduce(q.agg, source, rows), where |-> where, of |-> source]

\* Mutant of GroupWhere: a group's figure keeps the filter of the whole query.
GroupWhereOfQuery(where, k) == where

\* The filter of a group: its key replaces what the filter said of the grouping column.
GroupWhere(where, k) == [where EXCEPT !.key = k]

\* CsvQuery.run: one figure, or one per group met among the selected rows, each with the
\* filter that _derive_verifications makes of it.
QueryFigures(q) ==
    LET selected == Selected(source, q.where)
    IN CASE q.group_by = "" -> {Figure(q, selected, q.where)}
         [] q.group_by = "key" ->
              {Figure(q, Bucket(source, q.where, k), GroupWhere(q.where, k)) :
                 k \in Groups(source, q.where)}
         [] q.group_by = "lacking" ->
              IF selected = {} THEN {}
              ELSE {Figure(q, selected, [q.where EXCEPT !.lacking = TRUE])}

\* _derive_verifications: every figure but a count is to be summed again.
Derived(figures) == {f \in figures : f.agg # "count"}

\* The texts a figure's line is found by: Python writes it with the decimals it has and
\* without commas, so two decimals occur only where it has them, and no decimals only
\* below a thousand.
Texts(value) ==
    LET n == Abs(value)
        cents == n % Cent \in {1, 2} \/ (n % Cent = 0 /\ n % (10 * Cent) # 0)
    IN {InCents(c) : c \in IF cents THEN {ToCents(value)} ELSE {}}
         \cup {InOnes(w) : w \in IF n < 1000 * One THEN {ToOnes(value)} ELSE {}}

-----------------------------------------------------------------------------
Init ==
    /\ source \in Tables
    /\ report \in Unreadable \cup SUBSET Mentions
    /\ computed = {} /\ checked = {} /\ reread = Missing /\ done = "querying" /\ edits = 0

\* A data.query step of the pass; a file that cannot be read fails the step.
Query(q) ==
    /\ done = "querying" /\ source \notin Unreadable
    /\ Cardinality(computed) < MaxQueries
    /\ computed' = computed \cup QueryFigures(q)
    /\ UNCHANGED <<source, report, checked, reread, done, edits>>

\* The end of the pass: derive the checks and run them against the source as
\* it is now.
Verify ==
    /\ done = "querying"
    /\ checked' = {<<f, RecomputeSum(source, f.where, f.value)>> : f \in Derived(computed)}
    /\ reread' = source
    /\ done' = "verified"
    /\ UNCHANGED <<source, report, computed, edits>>

\* The report that was written before any figure was known gets them now.
Backfill ==
    /\ done = "verified"
    /\ report' = IF report \in Unreadable THEN report
                  ELSE report \cup UNION {Texts(f.value) : f \in computed}
    /\ done' = "filled"
    /\ UNCHANGED <<source, computed, checked, reread, edits>>

\* Someone adds a row, moves the file away or puts a link in its place.
EditSource ==
    /\ edits < MaxEdits /\ source \notin Unreadable /\ done # "filled"
    /\ edits' = edits + 1
    /\ source' \in Unreadable \cup {Append(source, r) : r \in Rows}
    /\ UNCHANGED <<report, computed, checked, reread, done>>

Next == (\E q \in Queries : Query(q)) \/ Verify \/ Backfill \/ EditSource

FigSpec == Init /\ [][Next]_figVars

-----------------------------------------------------------------------------
\* SumsVerify: a sum a run states, filtered, grouped by a column the table has or both,
\* is refuted exactly if what its filter selects has moved by more than the slack between
\* the query and the check, and unverifiable exactly if the file went away in between
\* (data.py:141-227 against engine.py:879-926 and verify.py:82-131).
SumsVerify ==
    \A p \in checked :
        LET f == p[1]
        IN f.agg = "sum" /\ ~f.where.lacking =>
             p[2] = IF reread \in Unreadable THEN "UNVERIFIABLE"
                    ELSE Outcome(Close(SumOf(reread, f.where), SumOf(f.of, f.where), Cent))

\* ChecksAgree: a figure's whole chain is proved exactly if its re-summation passes and
\* so does the comparison of totals, unless the sum rounds up to the next whole number;
\* and no check passes on what cannot be read or without an expected value
\* (verify.py:96-131, 261-318, 322-357).
FailClosed(where) ==
    /\ RecomputeSum(source, where, NoNum) # "PASS"
    /\ source \in Unreadable => /\ RecomputeSum(source, where, 0) # "PASS"
                                /\ TotalsMatchSource(source, where, report) # "PASS"
                                /\ RowCount(source, where, 0) # "PASS"
                                /\ Schema(source, {}, {}, {}, {}) # "PASS"
                                /\ SetEquality(source, FALSE, {}) # "PASS"
                                /\ RecomputeDelta(source, where, where, 0) # "PASS"
    /\ report \in Unreadable => /\ TotalsMatchSource(source, where, report) # "PASS"
                                /\ FileExists(report, 0) # "PASS"
                                /\ ContainsEvidence(report, {}, 0) # "PASS"
                                /\ Regex(report, Wild, FALSE) # "PASS"
                                /\ DocSection(report, Wild, Wild) # "PASS"

RoundsUp(n) == ToOnes(ToCents(n) * Cent) # ToOnes(n)

ChecksAgree ==
    \A w \in Wheres :
        /\ FailClosed(w)
        /\ \A f \in computed : source \notin Unreadable /\ ~RoundsUp(SumOf(source, w)) =>
             (ProvenanceChain(source, w, f.value, TRUE, report) = "PASS" <=>
                 /\ RecomputeSum(source, w, f.value) = "PASS"
                 /\ TotalsMatchSource(source, w, report) = "PASS")

\* HonestFiguresVerify: what engine.py:882 promises, "every number the run
\* states comes from a data.query result" and is checked against the same
\* source rows: a figure the tool computed from an untouched source is never
\* refuted.  A mean, a minimum or a maximum is compared with a sum, and a figure
\* grouped by a column that is not there with the sum of no rows.
HonestFiguresVerify ==
    edits = 0 => \A p \in checked : p[2] = "PASS"

=============================================================================
