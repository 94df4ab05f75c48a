------------------------------ MODULE TckValues ------------------------------
(***************************************************************************)
(* The values of src/gdm_tck/result: what the driver returns, the text of a *)
(* table's cell, and the comparable form both are brought to.  A value is a *)
(* tuple that starts with its type.  A text is a sequence of tokens: a      *)
(* bracket, a quote, a separator, a number or a word is one, and a string   *)
(* is as many as it has characters.  Blanks and NaN are left out.           *)
(***************************************************************************)
EXTENDS Integers, Sequences, SequencesExt, TLC

Null == <<"null">>
Boolean(b) == <<"bool", b>>
Integer(n) == <<"int", n>>
Double(sign, n) == <<"float", sign, n>>        \* n.0 with its sign
Text(chars) == <<"str", chars>>
List(items) == <<"list", items>>
Map(entries) == <<"map", entries>>
Node(labels, properties) == <<"node", labels, properties>>
Rel(type, properties) == <<"rel", type, properties>>
Path(nodes, rels) == <<"path", nodes, rels>>
Temporal(day, clock, ns, offset) == <<"temporal", day, clock, ns, offset>>
Point(srid, coords) == <<"point", srid, coords>>
Type(v) == v[1]

NoEntries == [k \in {} |-> Null]
Mapped(f(_), s) == [i \in DOMAIN s |-> f(s[i])]

-----------------------------------------------------------------------------
(* converter.py: driver objects to plain data. *)

NodeData(labels, properties) ==
  Map([_type |-> Text(<<"node">>), labels |-> List(labels), properties |-> Map(properties)])
RelData(type, properties) ==
  Map([_type |-> Text(<<"relationship">>), rel_type |-> Text(type), properties |-> Map(properties)])
PathData(nodes, rels) ==
  Map([_type |-> Text(<<"path">>), nodes |-> List(nodes), relationships |-> List(rels)])

\* Seconds east of UTC; "none" also stands for a zone that has no offset of
\* its own.  Odd seconds of an offset are dropped.
FormatOffset(offset) ==
  IF offset = "none" THEN <<>>
  ELSE IF offset = "0" THEN <<"Z">>
  ELSE <<offset>>
\* A fraction only when there is one; seconds always.
FormatTemporal(day, clock, ns, offset) ==
  day \o (IF day # <<>> /\ clock # <<>> THEN <<"T">> ELSE <<>>) \o clock
      \o (IF ns = 0 THEN <<>> ELSE <<".", ToString(ns)>>) \o FormatOffset(offset)

RECURSIVE Simplify(_)
Simplify(v) ==
  CASE Type(v) = "node" -> NodeData(Mapped(LAMBDA l : Text(<<l>>), v[2]), Mapped(Simplify, v[3]))
    [] Type(v) = "rel" -> RelData(<<v[2]>>, Mapped(Simplify, v[3]))
    [] Type(v) = "path" -> PathData(Mapped(Simplify, v[2]), Mapped(Simplify, v[3]))
    [] Type(v) = "list" -> List(Mapped(Simplify, v[2]))
    [] Type(v) = "map" -> Map(Mapped(Simplify, v[2]))
    [] Type(v) = "temporal" -> Text(FormatTemporal(v[2], v[3], v[4], v[5]))
    [] Type(v) = "point" -> Map([_type |-> Text(<<"point">>), srid |-> v[2]] @@ v[3])
    [] OTHER -> v

-----------------------------------------------------------------------------
(* parser.py: the text of a cell to the same plain data. *)

Numbers == ("1" :> Integer(1)) @@ ("2" :> Integer(2)) @@ ("1.0" :> Double("+", 1))
           @@ ("0.0" :> Double("+", 0)) @@ ("-0.0" :> Double("-", 0))
Words == Numbers @@ ("null" :> Null) @@ ("true" :> Boolean(TRUE)) @@ ("false" :> Boolean(FALSE))
IsWord(text) == Len(text) = 1 /\ text[1] \in DOMAIN Words
Quotes == {"'", "\""}
Control == [n |-> "LF", t |-> "TAB", r |-> "CR", b |-> "BS", f |-> "FF"]
TckEscapes == Control @@ [c \in Quotes \cup {"\\"} |-> c]
JsonEscapes == Control @@ [c \in {"\"", "\\"} |-> c] @@ [u0041 |-> "A"]

\* A backslash before a character that is none of the escapes stays.
Unescape(escapes, chars) ==
  LET Step(acc, ch) ==
        IF ~acc.escape
        THEN IF ch = "\\" THEN [acc EXCEPT !.escape = TRUE] ELSE [acc EXCEPT !.out = Append(@, ch)]
        ELSE [escape |-> FALSE,
              out |-> acc.out \o IF ch \in DOMAIN escapes THEN <<escapes[ch]>> ELSE <<"\\", ch>>]
      end == FoldLeft(Step, [escape |-> FALSE, out |-> <<>>], chars)
  IN IF end.escape THEN Append(end.out, "\\") ELSE end.out

\* The parts between commas outside of brackets and strings; with escapes, a
\* quote after a backslash does not end its string.
Split(text, quotes, escapes) ==
  LET Step(acc, ch) ==
        LET on == [acc EXCEPT !.parts[Len(acc.parts)] = Append(@, ch)]
        IN IF acc.escaped THEN [on EXCEPT !.escaped = FALSE]
           ELSE IF acc.quote # ""
           THEN [on EXCEPT !.escaped = escapes /\ ch = "\\", !.quote = IF ch = @ THEN "" ELSE @]
           ELSE IF ch = "," /\ acc.depth = 0 THEN [acc EXCEPT !.parts = Append(@, <<>>)]
           ELSE [on EXCEPT !.quote = IF ch \in quotes THEN ch ELSE @,
                           !.depth = @ + (IF ch \in {"(", "[", "{"} THEN 1
                                          ELSE IF ch \in {")", "]", "}"} THEN -1 ELSE 0)]
  IN FoldLeft(Step, [parts |-> <<<<>>>>, depth |-> 0, quote |-> "", escaped |-> FALSE], text).parts
\* A quote ends a string even where it is escaped; a last part of nothing is
\* left out.
SplitTopLevel(text) ==
  LET parts == Split(text, Quotes, FALSE)
  IN IF Last(parts) = <<>> THEN Front(parts) ELSE parts
JsonParts(text) == Split(text, {"\""}, TRUE)

Positions(text, tok) == {i \in DOMAIN text : text[i] = tok}
First(S) == CHOOSE i \in S : \A j \in S : i <= j
Last1(S) == CHOOSE i \in S : \A j \in S : j <= i
Within(text, open, close) ==
  Len(text) >= 1 /\ text[1] = open /\ text[Len(text)] = close
Inner(text) == SubSeq(text, 2, Len(text) - 1)
Before(text, tok) ==
  IF Positions(text, tok) = {} THEN text ELSE SubSeq(text, 1, First(Positions(text, tok)) - 1)
AfterColons(text) ==
  LET at == SelectSeq([i \in DOMAIN text |-> i], LAMBDA i : text[i] = ":" /\ i < Len(text))
  IN Mapped(LAMBDA i : text[i + 1], at)
\* What the regular expressions for the parts of a path find: from an opening
\* bracket to the next closing one, whatever is between.
Segments(text, open, close) ==
  LET Step(acc, ch) ==
        IF acc.cur = <<>> THEN IF ch = open THEN [acc EXCEPT !.cur = <<ch>>] ELSE acc
        ELSE IF ch = close THEN [found |-> Append(acc.found, Append(acc.cur, ch)), cur |-> <<>>]
        ELSE [acc EXCEPT !.cur = Append(@, ch)]
  IN FoldLeft(Step, [found |-> <<>>, cur |-> <<>>], text).found

\* json.loads: whether it takes a text, and as what.
IsJsonString(text) ==
  LET Step(acc, ch) ==
        IF acc.escape THEN [escape |-> FALSE, ok |-> acc.ok /\ ch \in DOMAIN JsonEscapes]
        ELSE [escape |-> ch = "\\", ok |-> acc.ok /\ ch # "\"" /\ ch \notin Range(Control)]
      end == FoldLeft(Step, [escape |-> FALSE, ok |-> TRUE], Inner(text))
  IN Len(text) >= 2 /\ Within(text, "\"", "\"") /\ end.ok /\ ~end.escape
JsonKey(pair) == Before(pair, ":")
AfterKey(pair) == SubSeq(pair, Len(Before(pair, ":")) + 2, Len(pair))
RECURSIVE IsJson(_)
IsJson(text) ==
  \/ IsWord(text) \/ IsJsonString(text)
  \/ /\ Len(text) >= 2 /\ Within(text, "[", "]")
     /\ Inner(text) = <<>> \/ \A i \in DOMAIN JsonParts(Inner(text)) : IsJson(JsonParts(Inner(text))[i])
  \/ /\ Len(text) >= 2 /\ Within(text, "{", "}")
     /\ \/ Inner(text) = <<>>
        \/ \A i \in DOMAIN JsonParts(Inner(text)) :
             LET pair == JsonParts(Inner(text))[i]
             IN IsJsonString(JsonKey(pair)) /\ IsJson(AfterKey(pair))
RECURSIVE JsonValue(_)
JsonEntries(text) ==
  LET Step(acc, pair) == (JsonKey(pair)[2] :> JsonValue(AfterKey(pair))) @@ acc
  IN IF Inner(text) = <<>> THEN NoEntries ELSE FoldLeft(Step, NoEntries, JsonParts(Inner(text)))
JsonValue(text) ==
  IF IsWord(text) THEN Words[text[1]]
  ELSE CASE text[1] = "\"" -> Text(Unescape(JsonEscapes, Inner(text)))
         [] text[1] = "[" ->
              List(IF Inner(text) = <<>> THEN <<>> ELSE Mapped(JsonValue, JsonParts(Inner(text))))
         [] text[1] = "{" -> Map(JsonEntries(text))

RECURSIVE ParseTckValue(_)
\* Also a mutation: no text is tried as JSON.
ListByHand(text) == List(Mapped(ParseTckValue, SplitTopLevel(Inner(text))))
ParseList(text) == IF IsJson(text) THEN JsonValue(text) ELSE ListByHand(text)
ParseEntries(text) ==
  LET Step(acc, pair) ==
        IF Positions(pair, ":") = {} THEN acc
        ELSE LET key == SelectSeq(Before(pair, ":"), LAMBDA c : c \notin Quotes)
             IN (key[1] :> ParseTckValue(AfterKey(pair))) @@ acc
  IN IF IsJson(text) THEN JsonEntries(text)
     ELSE FoldLeft(Step, NoEntries, SplitTopLevel(Inner(text)))
\* The properties of a node or a relationship: from the first { to the last }.
Properties(text) ==
  IF Positions(text, "{") = {} \/ Positions(text, "}") = {} THEN NoEntries
  ELSE ParseEntries(SubSeq(text, First(Positions(text, "{")), Last1(Positions(text, "}"))))
ParseNode(text) ==
  NodeData(Mapped(LAMBDA l : Text(<<l>>), AfterColons(Before(Inner(text), "{"))),
           Properties(Inner(text)))
ParseRel(text) ==
  LET types == AfterColons(Before(Inner(text), "{"))
  IN RelData(IF types = <<>> THEN <<>> ELSE <<types[1]>>, Properties(Inner(text)))
ParsePath(text) ==
  PathData(Mapped(ParseNode, Segments(text, "(", ")")), Mapped(ParseRel, Segments(text, "[", "]")))

ParseTckValue(text) ==
  CASE text = <<>> -> Null
    [] IsWord(text) -> Words[text[1]]
    [] OTHER ->
       IF \E q \in Quotes : Within(text, q, q) THEN Text(Unescape(TckEscapes, Inner(text)))
       ELSE IF Within(text, "[", "]") /\ Inner(text) # <<>> /\ text[2] = ":" THEN ParseRel(text)
       ELSE IF Within(text, "[", "]") THEN ParseList(text)
       ELSE IF Within(text, "{", "}") THEN Map(ParseEntries(text))
       ELSE IF Within(text, "(", ")") THEN ParseNode(text)
       ELSE IF Within(text, "<", ">") THEN ParsePath(text)
       ELSE Text(text)

\* The cells of a table's line: what is between its bars, wherever they are.
ParseRow(line) ==
  LET Step(acc, ch) == IF ch = "|" THEN Append(acc, <<>>)
                       ELSE [acc EXCEPT ![Len(acc)] = Append(@, ch)]
      cells == FoldLeft(Step, <<<<>>>>, line)
  IN SubSeq(cells, 2, Len(cells) - 1)

-----------------------------------------------------------------------------
(* comparator.py: the comparable form. *)

Structured(v) == Type(v) \in {"map", "list", "sorted"}
Number(v) == CASE Type(v) = "bool" -> IF v[2] THEN 1 ELSE 0
               [] Type(v) = "int" -> v[2]
               [] OTHER -> IF v[2] = "-" THEN -v[3] ELSE v[3]
SortKey(v) == IF Type(v) \in {"bool", "int", "float"} THEN <<"number", Number(v)>>
              ELSE <<"other", v>>
\* The keys of maps and lists are strings, the others tuples: sorted() raises
\* TypeError on a list that has both, and the list is left as it is.
CanSort(items) ==
  \/ \A i \in DOMAIN items : Structured(items[i])
  \/ \A i \in DOMAIN items : ~Structured(items[i])
\* A stable sort: which items have which key, in the order they came in.
Sorted(items) ==
  <<"sorted", [k \in {SortKey(items[i]) : i \in DOMAIN items} |->
                 SelectSeq(items, LAMBDA x : SortKey(x) = k)]>>

RECURSIVE Normalize(_)
Normalize(v) ==
  CASE Type(v) = "map" -> Map(Mapped(Normalize, v[2]))
    [] Type(v) = "list" -> LET items == Mapped(Normalize, v[2])
                           IN IF CanSort(items) THEN Sorted(items) ELSE List(items)
    [] Type(v) = "float" /\ v[3] = 0 -> Double("+", 0)
    [] OTHER -> v
=============================================================================
