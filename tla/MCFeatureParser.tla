--------------------------- MODULE MCFeatureParser ---------------------------
(* Files of up to MaxLines lines: every kind of line, and two indentations   *)
(* where the parser looks at them.                                           *)
EXTENDS FeatureParser
CONSTANTS n1, n2, ignore, other

MCNames == {n1, n2}
MCTags == {ignore, other}
MCSkip == {ignore}
Line(kinds, indents, texts) == [kind : kinds, indent : indents, text : texts]
MCLines ==
  Line({"feature", "background", "examples", "comment"}, {1}, {None})
  \cup Line({"scenario"}, {1}, {n1, n2}) \cup Line({"outline"}, {1}, {n1})
  \cup Line({"given"}, {1, 2}, {None}) \cup Line({"when", "then"}, {2}, {None})
  \cup Line({"and"}, {2}, {n2})
  \cup Line({"tag"}, {1}, {ignore, other}) \cup Line({"scenario"}, {2}, {n1})
  \cup Line({"row", "quotes", "blank", "text"}, {1, 2}, {None})
=============================================================================
