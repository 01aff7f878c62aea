----------------------------- MODULE Precedence ------------------------------
(***************************************************************************)
(* How tightly operators bind: the table of docs/lang/03-expressions.md.      *)
(***************************************************************************)
EXTENDS Parser

Levels == <<
    {"=", "+=", "-=", "*=", "/=", "%="}, {"|>"}, {"||"}, {"&&"}, {"|"}, {"^"}, {"&"},
    {"==", "!=", "===", "!=="}, {"<", "<=", ">", ">="}, {"..", "..="}, {"<<", ">>"},
    {"+", "-"}, {"*", "/", "%"}>>
LevelOfOp(op) == CHOOSE l \in DOMAIN Levels : op \in Levels[l]
LevelOf(n) ==
    CASE n.k \in {"assign", "binary", "range"} -> LevelOfOp(n.c[2].v)
      [] n.k = "pipeline" -> 2
      [] n.k = "unary" -> 14
      [] n.k \in {"call", "method", "field", "try", "cast"} -> 15
      [] OTHER -> 16
AtLeast(n, l) == LevelOf(n) >= l
ByTable(n) ==
    CASE n.k = "assign" -> AtLeast(n.c[1], 2) /\ AtLeast(n.c[3], 1)
      [] n.k = "range" -> \A i \in DOMAIN n.c \ {2} : AtLeast(n.c[i], 11)
      [] n.k = "binary" ->
            LET l == LevelOf(n) IN AtLeast(n.c[1], l) /\ AtLeast(n.c[3], l + 1)
      [] n.k = "pipeline" -> AtLeast(n.c[1], 2) /\ AtLeast(n.c[2], 3)
      [] n.k = "unary" -> AtLeast(n.c[2], 14)
      [] n.k \in {"call", "method", "field", "try", "cast"} -> AtLeast(n.c[1], 15)
      [] OTHER -> TRUE
=============================================================================
