--------------------------- MODULE ResultAssertion ---------------------------
(***************************************************************************)
(* The Then steps that compare a result with a table, steps/                *)
(* step_result_assert.py over result/comparator.py.  The result of the      *)
(* query stays, a scenario may hold several of them against it, and the     *)
(* first that fails ends it.  Values and cells are compared by their        *)
(* comparable form, the functions Actual and Expected; a table also says    *)
(* which values its author wrote, for the properties.                       *)
(***************************************************************************)
EXTENDS Naturals, Sequences, FiniteSets, Functions

CONSTANTS
  Keys,         \* names of columns
  Values,       \* values the driver returns
  Cells,        \* texts of cells
  Blank,        \* the text of a missing cell
  Comparables,  \* comparable forms
  Actual,       \* of a value: converted and normalised
  Expected,     \* of a cell: parsed and normalised
  TextAt,       \* of a comparable form: the place of its text among all texts
  KeyAt,        \* of a key: its place among all keys
  Results,      \* results of queries
  Tables,       \* tables of Then steps
  Same,         \* <<v, w>>: the value v is the one that an author wrote as w
  Alike,        \* <<v, w>>: it is, up to the order of the elements of lists
  Readable,     \* <<c, w>>: the parser reads c as w
  Sortable,     \* values whose lists have one comparable form in every order
  None

RowsOf(header) == [Range(header) -> Comparables]
ResultType(r) == /\ r.keys \in Seq(Keys) /\ IsInjective(r.keys)
                 /\ r.records \in Seq([Range(r.keys) -> Values])
TableType(t) == /\ t.header \in Seq(Keys)
                /\ t.rows \in Seq(Seq(Cells))
                /\ t.written \in Seq([1..Len(t.header) -> Values])
                /\ Len(t.rows) = Len(t.written)

ASSUME ResultAssumption ==
  /\ Blank \in Cells
  /\ Actual \in [Values -> Comparables] /\ Expected \in [Cells -> Comparables]
  /\ TextAt \in [Comparables -> Nat] /\ IsInjective(TextAt)
  /\ KeyAt \in [Keys -> Nat] /\ IsInjective(KeyAt)
  /\ \A r \in Results : ResultType(r)
  /\ \A t \in Tables : TableType(t)
  /\ None \notin Tables

Kinds == {"in order", "any order", "ignoring list order", "contains", "empty"}

VARIABLES
  result,   \* what the query returned: keys and records
  status,   \* "running" or "failed"
  last      \* the last Then step: its kind, its table and whether it passed
vars == <<result, status, last>>

Init == result \in Results /\ status = "running" /\ last = None

-----------------------------------------------------------------------------
HeadersMatch(t) == t.header = <<>> \/ result.keys = t.header

\* A missing cell reads as the empty text, cells past the header are dropped.
Cell(row, i) == IF i <= Len(row) THEN row[i] ELSE Blank
\* A column the record does not have is None, which is what Blank reads as.
NormalizeActual(t) ==
  [n \in 1..Len(result.records) |->
     [k \in Range(t.header) |->
        IF k \in DOMAIN result.records[n] THEN Actual[result.records[n][k]] ELSE Expected[Blank]]]
NormalizeExpected(t) ==
  [n \in 1..Len(t.rows) |->
     [k \in Range(t.header) |->
        Expected[Cell(t.rows[n], CHOOSE i \in 1..Len(t.header) : t.header[i] = k)]]]

\* The texts of two rows, with their keys sorted, part at the first key where
\* the rows do.
Earlier(x, y) == \E k \in DOMAIN x :
  TextAt[x[k]] < TextAt[y[k]] /\ \A j \in DOMAIN x : KeyAt[j] < KeyAt[k] => x[j] = y[j]
\* Where sorted() puts row i: behind the rows with an earlier text, and behind
\* those with its own text that came before it.
Position(rows, i) ==
  Cardinality({j \in 1..Len(rows) : \/ Earlier(rows[j], rows[i])
                                    \/ rows[j] = rows[i] /\ j <= i})
SortedRows(rows) ==
  [n \in 1..Len(rows) |-> rows[CHOOSE i \in 1..Len(rows) : Position(rows, i) = n]]
\* A mutation: rows are compared as sets.
CompareAsSets(actual, expected) == Len(actual) = Len(expected) /\ Range(actual) = Range(expected)
\* A mutation: only the rows of the table are sorted.
CompareHalfSorted(actual, expected) == Len(actual) = Len(expected) /\ actual = SortedRows(expected)
CompareAnyOrder(actual, expected) ==
  Len(actual) = Len(expected) /\ SortedRows(actual) = SortedRows(expected)
\* A mutation: zip without the check of the lengths.
CompareZipped(actual, expected) ==
  \A n \in (1..Len(actual)) \cap (1..Len(expected)) : actual[n] = expected[n]
CompareInOrder(actual, expected) ==
  /\ Len(actual) = Len(expected)
  /\ \A n \in 1..Len(actual) : actual[n] = expected[n]
CompareContains(actual, expected) ==
  \A n \in 1..Len(expected) : \E m \in 1..Len(actual) : actual[m] = expected[n]

Passes(kind, t) ==
  CASE kind = "empty" -> result.records = <<>>
    [] kind = "in order" ->
         HeadersMatch(t) /\ CompareInOrder(NormalizeActual(t), NormalizeExpected(t))
    [] kind \in {"any order", "ignoring list order"} ->
         HeadersMatch(t) /\ CompareAnyOrder(NormalizeActual(t), NormalizeExpected(t))
    [] kind = "contains" ->
         HeadersMatch(t) /\ CompareContains(NormalizeActual(t), NormalizeExpected(t))

\* A mutation: a step that fails on a table does not end the scenario.
ThenGoesOn(kind, t) ==
  /\ status = "running"
  /\ last' = [kind |-> kind, table |-> t, passed |-> Passes(kind, t)]
  /\ status' = IF kind = "empty" /\ ~Passes(kind, t) THEN "failed" ELSE "running"
  /\ UNCHANGED result
Then(kind, t) ==
  /\ status = "running"
  /\ last' = [kind |-> kind, table |-> t, passed |-> Passes(kind, t)]
  /\ status' = IF Passes(kind, t) THEN "running" ELSE "failed"
  /\ UNCHANGED result

Next == \E kind \in Kinds, t \in Tables : Then(kind, t)
Spec == Init /\ [][Next]_vars

-----------------------------------------------------------------------------
TypeOK ==
  /\ result \in Results
  /\ status \in {"running", "failed"}
  /\ last # None => /\ last.kind \in Kinds /\ TableType(last.table) /\ last.passed \in BOOLEAN
                    /\ status = (IF last.passed THEN "running" ELSE "failed")

\* What an author means by a table: the record's columns are those of the
\* header, in order, and hold the values that were written, in one of the two
\* senses of "the value that was written".
RowSame(sense, t, record, w) ==
  \A i \in 1..Len(t.header) : <<record[t.header[i]], w[i]>> \in sense
Pairings(n) == {p \in [1..n -> 1..n] : IsInjective(p)}
MeansIn(sense, kind, t) ==
  LET records == result.records
      n == Len(records)
      RowIs(i, j) == RowSame(sense, t, records[i], t.written[j])
  IN /\ t.header = <<>> \/ t.header = result.keys
     /\ CASE kind = "in order" -> n = Len(t.written) /\ \A i \in 1..n : RowIs(i, i)
          [] kind \in {"any order", "ignoring list order"} ->
               n = Len(t.written) /\ \E p \in Pairings(n) : \A i \in 1..n : RowIs(i, p[i])
          [] kind = "contains" -> \A j \in 1..Len(t.written) : \E i \in 1..n : RowIs(i, j)
Means(kind, t) == MeansIn(IF kind = "ignoring list order" THEN Alike ELSE Same, kind, t)

TableKinds == Kinds \ {"empty"}

\* No value is that of the table only up to the order of a list.
OrderFree(t) ==
  \A j \in 1..Len(t.written), i \in 1..Len(t.header), v \in Values :
    <<v, t.written[j][i]>> \in Alike => <<v, t.written[j][i]>> \in Same

\* A Then step with a table passes only on a result that is, up to the order
\* within lists, what the table says: in any order, row for row with none
\* counted twice.  For a table without lists it is exactly what the table says.
PassedRowsMatch ==
  last # None /\ last.passed /\ last.kind \in TableKinds =>
    /\ MeansIn(Alike, last.kind, last.table)
    /\ OrderFree(last.table) => Means(last.kind, last.table)

\* A step that does not say "ignoring element order for lists" passes only on
\* lists in the order that is written: what List11.feature:75 tests, and what
\* the step's own text and its docstring, which drop the order of rows only, say.
ListOrderKept ==
  last # None /\ last.passed /\ last.kind \in TableKinds => Means(last.kind, last.table)

\* A result that is what the table says is accepted, if the table's cells are
\* texts the parser reads; and, for the step that ignores the order within
\* lists, lists that the comparison can sort.
ReadableTable(kind, t) ==
  \A j \in 1..Len(t.written), i \in 1..Len(t.header) :
    /\ <<Cell(t.rows[j], i), t.written[j][i]>> \in Readable
    /\ kind = "ignoring list order" => t.written[j][i] \in Sortable
MatchingTableAccepted ==
  last # None /\ last.kind \in TableKinds /\ ReadableTable(last.kind, last.table)
    /\ Means(last.kind, last.table) => last.passed

\* The server may return the rows of a query in any order, and in another one
\* the next time: no verdict of a step that does not say "in order" depends
\* on it, also for values the parser does not read back.
Reordered(rows, p) == [n \in 1..Len(rows) |-> rows[p[n]]]
RowOrderIgnored ==
  last # None /\ last.kind \in TableKinds \ {"in order"} /\ HeadersMatch(last.table) =>
    \A p \in Pairings(Len(result.records)) :
      LET actual == Reordered(NormalizeActual(last.table), p)
          expected == NormalizeExpected(last.table)
      IN last.passed <=> IF last.kind = "contains" THEN CompareContains(actual, expected)
                         ELSE CompareAnyOrder(actual, expected)

\* A table that passes a Then step passes every weaker one.
Weaker == [k \in TableKinds |-> CASE k = "in order" -> TableKinds \ {k}
                                  [] k = "any order" -> {"ignoring list order", "contains"}
                                  [] OTHER -> {}]
StrongerImpliesWeaker ==
  last # None /\ last.passed /\ last.kind \in TableKinds =>
    \A k \in Weaker[last.kind] : Passes(k, last.table)

-----------------------------------------------------------------------------
\* What the verdicts ask of parser, converter and normalisation: comparable
\* forms are equal only for what an author means, and, for what the parser
\* reads and the comparison can sort, for all of it.
ComparableSound ==
  \A t \in Tables : \A n \in 1..Len(t.rows), i \in 1..Len(t.header), v \in Values :
    Actual[v] = Expected[Cell(t.rows[n], i)] => <<v, t.written[n][i]>> \in Alike
ComparableComplete ==
  \A c \in Cells, v, w \in Values :
    <<c, w>> \in Readable /\ (<<v, w>> \in Same \/ (w \in Sortable /\ <<v, w>> \in Alike)) =>
      Actual[v] = Expected[c]
=============================================================================
