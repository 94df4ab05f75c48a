--------------------------- MODULE MCResultAssertion ---------------------------
(* Results and tables over the kinds of values that TCK tables are written    *)
(* in.  Show is the notation a test's author uses, Equal what the author      *)
(* means by it: both are written without the code's parser, converter and     *)
(* comparator, which the run compares with them.                              *)
EXTENDS TckValues, ResultAssertion

k1(v) == [k |-> v]
MCValues ==
  { Null, Boolean(TRUE), Integer(1), Integer(2), Double("+", 1), Double("-", 0), Double("+", 0),
    Text(<<"a">>), Text(<<"1">>), Text(<<"'">>), Text(<<"a", "|", "b">>), Text(<<"a", ",", "b">>),
    List(<<>>), List(<<Integer(1), Integer(2)>>), List(<<Integer(2), Integer(1)>>),
    List(<<Integer(1), Integer(1)>>), List(<<Text(<<"a", ",", "b">>), Null>>),
    List(<<Text(<<"'">>), Integer(1)>>), List(<<Text(<<"a", "\"", ",", "b">>), Integer(1)>>),
    List(<<Text(<<"A">>)>>), List(<<Text(<<"\\", "LF">>), Map(k1(Text(<<"\"", ",">>)))>>),
    List(<<Integer(1), Boolean(TRUE)>>), List(<<Boolean(TRUE), Integer(1)>>),
    List(<<Integer(1), Map(k1(Null))>>), List(<<Map(k1(Null)), Integer(1)>>),
    List(<<List(<<Integer(1)>>), Map(k1(Null))>>), List(<<Map(k1(Null)), List(<<Integer(1)>>)>>),
    Map(k1(List(<<Integer(1), Integer(2)>>))), Map(k1(List(<<Integer(2), Integer(1)>>))),
    Node(<<"A">>, NoEntries), Node(<<"A", "B">>, k1(Integer(1))), Node(<<"B", "A">>, k1(Integer(1))),
    Rel("R", NoEntries), Rel("R", k1(Text(<<"a">>))),
    Path(<<Node(<<"A">>, NoEntries), Node(<<"B">>, NoEntries)>>, <<Rel("R", NoEntries)>>),
    Path(<<Node(<<"B">>, NoEntries), Node(<<"A">>, NoEntries)>>, <<Rel("R", NoEntries)>>),
    Temporal(<<"d">>, <<>>, 0, "none"), Temporal(<<"d">>, <<"c">>, 5, "0"),
    Temporal(<<>>, <<"c">>, 0, "+01:00"), Temporal(<<>>, <<"c">>, 0, "none") }

Literal(v) == CHOOSE n \in DOMAIN Numbers : Numbers[n] = v
\* Strings as Cypher writes them; or a list or a map as JSON writes it.
Escape(json, chars) == FlattenSeq([i \in DOMAIN chars |->
  CASE chars[i] = "LF" -> <<"\\", "n">>
    [] chars[i] = "\\" \/ chars[i] = (IF json THEN "\"" ELSE "'") -> <<"\\", chars[i]>>
    [] json /\ chars[i] = "A" -> <<"\\", "u0041">>
    [] OTHER -> <<chars[i]>>])
Quoted(json, chars) == LET q == IF json THEN "\"" ELSE "'"
                       IN <<q>> \o Escape(json, chars) \o <<q>>
Commas(texts) == FlattenSeq([i \in DOMAIN texts |-> IF i = 1 THEN texts[i] ELSE <<",">> \o texts[i]])
Iso(v) == v[2] \o (IF v[2] = <<>> \/ v[3] = <<>> THEN <<>> ELSE <<"T">>) \o v[3]
          \o (IF v[4] = 0 THEN <<>> ELSE <<".", ToString(v[4])>>)
          \o (CASE v[5] = "none" -> <<>> [] v[5] = "0" -> <<"Z">> [] OTHER -> <<v[5]>>)
RECURSIVE Show(_, _)
ShowMap(json, p) == <<"{">> \o (IF json THEN Quoted(json, <<"k">>) ELSE <<"k">>)
                    \o <<":">> \o Show(json, p.k) \o <<"}">>
ShowProps(p) == IF DOMAIN p = {} THEN <<>> ELSE ShowMap(FALSE, p)
ShowLabels(ls) == FlattenSeq([i \in DOMAIN ls |-> <<":", ls[i]>>])
Show(json, v) ==
  CASE Type(v) = "null" -> <<"null">>
    [] Type(v) = "bool" -> IF v[2] THEN <<"true">> ELSE <<"false">>
    [] Type(v) \in {"int", "float"} -> <<Literal(v)>>
    [] Type(v) = "str" -> Quoted(json, v[2])
    [] Type(v) = "temporal" -> <<"'">> \o Iso(v) \o <<"'">>
    [] Type(v) = "list" -> <<"[">> \o Commas([i \in DOMAIN v[2] |-> Show(json, v[2][i])]) \o <<"]">>
    [] Type(v) = "map" -> ShowMap(json, v[2])
    [] Type(v) = "node" -> <<"(">> \o ShowLabels(v[2]) \o ShowProps(v[3]) \o <<")">>
    [] Type(v) = "rel" -> <<"[", ":", v[2]>> \o ShowProps(v[3]) \o <<"]">>
    [] Type(v) = "path" ->
         <<"<">> \o Show(json, v[2][1]) \o FlattenSeq([i \in DOMAIN v[3] |->
                   <<"-">> \o Show(json, v[3][i]) \o <<"->">> \o Show(json, v[2][i + 1])]) \o <<">">>

\* Equal; lax: up to the order of the elements of lists, and of the nodes and
\* relationships of a path.
RECURSIVE Equal(_, _, _)
EqualLists(lax, s, t) ==
  /\ Len(s) = Len(t)
  /\ \E p \in IF lax THEN Pairings(Len(s)) ELSE {[i \in DOMAIN s |-> i]} :
       \A i \in DOMAIN s : Equal(lax, s[i], t[p[i]])
EqualMaps(lax, f, g) == DOMAIN f = DOMAIN g /\ \A k \in DOMAIN f : Equal(lax, f[k], g[k])
Equal(lax, v, w) ==
  IF Type(v) # Type(w) THEN FALSE
  ELSE CASE Type(v) = "list" -> EqualLists(lax, v[2], w[2])
         [] Type(v) = "map" -> EqualMaps(lax, v[2], w[2])
         [] Type(v) = "node" -> Range(v[2]) = Range(w[2]) /\ EqualMaps(lax, v[3], w[3])
         [] Type(v) = "rel" -> v[2] = w[2] /\ EqualMaps(lax, v[3], w[3])
         [] Type(v) = "path" -> EqualLists(lax, v[2], w[2]) /\ EqualLists(lax, v[3], w[3])
         [] Type(v) = "float" -> v[3] = w[3] /\ (v[2] = w[2] \/ v[3] = 0)
         [] OTHER -> v = w
MCSame == {p \in MCValues \X MCValues : Equal(FALSE, p[1], p[2])}
MCAlike == {p \in MCValues \X MCValues : Equal(TRUE, p[1], p[2])}

\* The parser does not read back a bar in a string, nor, unless the list is
\* JSON, a quote in a string of a list.
JsonAble == {v \in MCValues : Type(v) \in {"list", "map"}}
MCReadable ==
  {<<Show(FALSE, v), v>> : v \in MCValues \ {Text(<<"a", "|", "b">>), List(<<Text(<<"'">>), Integer(1)>>)}}
  \cup {<<Show(TRUE, v), v>> : v \in JsonAble}
\* The comparison does not sort a list that has scalars and maps or lists, and
\* sorts numbers that are equal but of different types in the order they have.
MCSortable ==
  MCValues \ {v \in MCValues : Type(v) = "list" /\ \E i, j \in DOMAIN v[2] :
                \/ Structured(v[2][i]) # Structured(v[2][j])
                \/ {Type(v[2][i]), Type(v[2][j])} = {"int", "bool"}}

-----------------------------------------------------------------------------
Line(json, values) == FlattenSeq([i \in DOMAIN values |-> <<"|">> \o Show(json, values[i])]) \o <<"|">>
TableIn(json, header, rows) == [header |-> header, written |-> rows,
                                rows |-> [n \in DOMAIN rows |-> ParseRow(Line(json, rows[n]))]]
Table(header, rows) == TableIn(FALSE, header, rows)
Pairs == {Integer(1), Double("+", 1), List(<<Integer(1), Integer(2)>>), List(<<Integer(2), Integer(1)>>)}
OneColumn == {<<>>} \cup {<<<<v>>>> : v \in MCValues}
             \cup {<<<<v>>, <<w>>>> : v, w \in Pairs}
             \cup {<<<<v>>, <<w>>, <<v>>>> : v, w \in {Integer(1), Integer(2)}}
TwoColumns == {<<<<v, w>>>> : v \in {Integer(1), Text(<<"a", "|", "b">>)}, w \in {Null, Integer(1)}}
MCTables == {Table(<<"x">>, rows) : rows \in OneColumn}
            \cup {Table(h, rows) : h \in {<<"x", "y">>, <<"y", "x">>}, rows \in TwoColumns}
            \cup {TableIn(TRUE, <<"x">>, <<<<v>>>>) : v \in JsonAble}
            \cup {Table(<<>>, <<>>)}
Record(keys, values) == [k \in Range(keys) |-> values[CHOOSE i \in DOMAIN keys : keys[i] = k]]
Result(keys, rows) == [keys |-> keys, records |-> [n \in DOMAIN rows |-> Record(keys, rows[n])]]
MCResults == {Result(<<"x">>, rows) : rows \in OneColumn}
             \cup {Result(<<"x", "y">>, rows) : rows \in TwoColumns}

MCCells == {<<>>} \cup UNION {UNION {Range(t.rows[n]) : n \in DOMAIN t.rows} : t \in MCTables}
MCActual == [v \in MCValues |-> Normalize(Simplify(v))]
MCExpected == [c \in MCCells |-> Normalize(ParseTckValue(c))]
MCComparables == Range(MCActual) \cup Range(MCExpected)
MCKeys == {"x", "y"}
MCBlank == <<>>
RECURSIVE Listed(_)
Listed(S) == IF S = {} THEN <<>> ELSE LET x == CHOOSE x \in S : TRUE IN <<x>> \o Listed(S \ {x})
\* Some order of texts.
MCTextAt == LET list == Listed(MCComparables)
            IN [c \in MCComparables |-> CHOOSE i \in DOMAIN list : list[i] = c]
MCKeyAt == [x |-> 1, y |-> 2]

(* No value of these passes for another than the one written: the hypothesis  *)
(* under which PassMeansWhatIsWritten is proved.                              *)
ASSUME FormsAreSound == ComparableSound
=============================================================================
