------------------------------- MODULE Parser -------------------------------
(***************************************************************************)
(* The parser of valen-parser: what a step of Grammar.tla does to its        *)
(* position, its half-used `>>` and its diagnostics.                          *)
(***************************************************************************)
EXTENDS Grammar, Integers, FiniteSets
LOCAL INSTANCE SequencesExt

-----------------------------------------------------------------------------
(* The parser                                                              *)

\* `ok` is FALSE after a step that returned None.
NewParser(toks) == [toks |-> toks, pos |-> 1, gt |-> 0, errs |-> 0, ok |-> TRUE, out |-> <<>>]

lookahead(P, k) == IF P.pos + k <= Len(P.toks) THEN P.toks[P.pos + k] ELSE Eof
peek(P) == lookahead(P, 0)
at_eof(P) == peek(P) = Eof
bump(P) == [P EXCEPT !.pos = @ + 1]
Failed(P) == [P EXCEPT !.errs = @ + 1, !.ok = FALSE]
Keep(P, node) == [P EXCEPT !.out = Append(@, node)]

LeafOf(v) == [k |-> "tok", v |-> v, c |-> <<>>]
NodeOf(kind, c) == [k |-> kind, v |-> "", c |-> c]

expect(P, t) == IF peek(P) = t THEN bump(P) ELSE Failed(P)
expect_ident(P) == IF peek(P) \in NameTok THEN Keep(bump(P), LeafOf(peek(P))) ELSE Failed(P)

at_gt(P) == P.gt > 0 \/ peek(P) \in {">", ">>"}

\* Half of a `>>` is left for the next one who wants a `>`.
expect_gt(P) ==
    IF P.gt > 0 THEN [P EXCEPT !.gt = @ - 1]
    ELSE IF peek(P) = ">" THEN bump(P)
    ELSE IF peek(P) = ">>" THEN [bump(P) EXCEPT !.gt = 1]
    ELSE Failed(P)

\* From `<` over the tokens types are made of to the `>` that closes it.
TypeTok == IdentTok \cup {",", "?", ".", "fn", "(", ")", "->", "ref", "mut"}
RECURSIVE ClosedBeforeCall(_, _, _)
ClosedBeforeCall(P, i, depth) ==
    LET t == lookahead(P, i)
        d == depth + (IF t = "<" THEN 1 ELSE IF t = ">" THEN -1 ELSE IF t = ">>" THEN -2 ELSE 0)
    IN /\ t \in TypeTok \cup {"<", ">", ">>"}
       /\ IF (t = ">" /\ d = 0) \/ (t = ">>" /\ d <= 0)
          THEN lookahead(P, i + 1) = "("
          ELSE ClosedBeforeCall(P, i + 1, d)
looks_like_generic_args(P) == ClosedBeforeCall(P, 0, 0)

Holds(c, P) ==
    CASE c[1] = "at" -> peek(P) \in c[2]
      [] c[1] = "at2" -> peek(P) \in c[2] /\ lookahead(P, 1) \in c[3]
      [] c[1] = "at_gt" -> at_gt(P)
      [] c[1] = "inside" -> peek(P) # c[2] /\ ~at_eof(P)
      [] c[1] = "looks_like_generic_args" -> peek(P) = "<" /\ looks_like_generic_args(P)
      [] c[1] = "made" -> Last(P.out).k \in c[2]
      [] c[1] = "modified" -> LeafOf(c[2]) \in {Last(P.out).c[i] : i \in 1..Len(Last(P.out).c)}
      [] c[1] = "otherwise" -> TRUE

-----------------------------------------------------------------------------
(* Steps                                                                   *)

RECURSIVE RunFrom(_, _, _), Do(_, _), Descend(_, _, _), RepeatAlts(_, _), MoreOf(_, _)

\* The `?` of the code: what failed is what is returned.
AndThen(Q, f(_)) == IF Q.ok THEN f(Q) ELSE Q

\* From step i to the first that fails.
RunFrom(i, steps, P) ==
    IF i > Len(steps) THEN P
    ELSE AndThen(Do(steps[i], P), LAMBDA Q : RunFrom(i + 1, steps, Q))
Run(steps, P) == RunFrom(1, steps, P)

\* The first operand of the rungs from l on, then the operators from the last on.
Descend(m, l, P) ==
    IF m < l THEN P
    ELSE AndThen(Run(Ladder[m], P), LAMBDA Q : Descend(m - 1, l, Q))
Climb(l, P) == AndThen(Run(parse_unary, P), LAMBDA Q : Descend(Len(Ladder), l, Q))

\* The first alternative that applies, 0 when none does.
Choice(alts, P) ==
    LET S == {i \in 1..Len(alts) : Holds(alts[i][1], P)}
    IN IF S = {} THEN 0 ELSE CHOOSE i \in S : \A j \in S : i <= j

RepeatAlts(alts, P) ==
    LET i == Choice(alts, P)
        Q == Run(alts[i][2], P)
    IN IF ~P.ok \/ i = 0 THEN P ELSE RepeatAlts(alts, Q)

\* s is <<"list", close, trailing, stop, element>>.
Element(s, P) == IF peek(P) \in s[4] THEN Keep(bump(P), LeafOf(peek(P))) ELSE Run(s[5], P)
MoreOf(s, P) ==
    IF ~P.ok \/ Holds(s[2], P) \/ at_eof(P) \/ Last(P.out).v \in s[4] THEN P
    ELSE LET Q == expect(P, ",")
             R == Element(s, Q)
         IN IF Q.ok /\ ~(s[3] /\ Holds(s[2], Q)) THEN MoreOf(s, R) ELSE Q
ListOf(s, P) ==
    IF Holds(s[2], P) \/ at_eof(P) THEN P ELSE LET Q == Element(s, P) IN MoreOf(s, Q)

\* The order the printer writes modifiers in.
ModifierOrder == <<"unsafe", "abstract", "open", "override", "inline">>
RECURSIVE TakeModifiers(_, _, _)
TakeModifiers(set, P, taken) ==
    IF peek(P) \in set THEN TakeModifiers(set, bump(P), taken \cup {peek(P)})
    ELSE LET ms == SelectSeq(ModifierOrder, LAMBDA m : m \in taken)
         IN Keep(P, NodeOf("modifiers", [i \in DOMAIN ms |-> LeafOf(ms[i])]))

WithNode(P, kind, n, steps) ==
    LET kept == Len(P.out) - n
        Q == Run(steps, [P EXCEPT !.out = SubSeq(@, kept + 1, Len(@))])
    IN [Q EXCEPT !.out = Append(SubSeq(P.out, 1, kept), NodeOf(kind, @))]

\* The turbofish becomes the arguments of the last segment.
Attached(out) ==
    Append(SubSeq(out, 1, Len(out) - 2), [out[Len(out) - 1] EXCEPT !.c[2] = Last(out)])

Do(s, P) ==
    CASE s[1] = "expect" -> expect(P, s[2])
      [] s[1] = "ident" -> expect_ident(P)
      [] s[1] = "bump" -> bump(P)
      [] s[1] = "take" -> Keep(bump(P), LeafOf(peek(P)))
      [] s[1] = "leaf" -> Keep(P, LeafOf(s[2]))
      [] s[1] = "rule" -> Run(Rules[s[2]], P)
      [] s[1] = "rung" -> Climb(s[2], P)
      [] s[1] = "if" -> Run(IF Holds(s[2], P) THEN s[3] ELSE s[4], P)
      [] s[1] = "match" ->
            LET i == Choice(s[2], P) IN IF i = 0 THEN Failed(P) ELSE Run(s[2][i][2], P)
      [] s[1] = "repeat" -> RepeatAlts(s[2], P)
      [] s[1] = "list" -> ListOf(s, P)
      [] s[1] = "node" -> WithNode(P, s[2], s[3], s[4])
      [] s[1] = "modifiers" -> TakeModifiers(s[2], P, {})
      [] s[1] = "drop" -> [P EXCEPT !.out = SubSeq(@, 1, Len(@) - s[2])]
      [] s[1] = "drop annotations" -> [P EXCEPT !.out = <<Last(@)>>]
      [] s[1] = "attach" -> [P EXCEPT !.out = Attached(@)]
      [] s[1] = "gt" -> expect_gt(P)
      [] s[1] = "complain" -> [P EXCEPT !.errs = @ + 1]
      [] s[1] = "soft" ->
            LET Q == Run(s[2], P) IN IF Q.ok THEN Q ELSE [Q EXCEPT !.ok = TRUE, !.out = P.out]
      [] s[1] = "try" ->
            LET Q == Run(s[2], P) IN IF Q.ok THEN Q ELSE Run(s[3], [P EXCEPT !.gt = Q.gt])

-----------------------------------------------------------------------------
(* parse_file                                                              *)

\* Faulty: keeps the half `>>` of the item before.
Faulty_ItemParsed(P) == Run(parse_item, [P EXCEPT !.ok = TRUE, !.out = <<>>])
ItemParsed(P) == Run(parse_item, [P EXCEPT !.gt = 0, !.ok = TRUE, !.out = <<>>])

\* Faulty: stops at a brace, which no item begins with.
Faulty_BoundaryTok ==
    {"fn", "class", "data", "enum", "trait", "impl", "package", "import", "pub",
     "internal", "private", "open", "abstract", "sealed", "}"}
BoundaryTok == {"fn", "class", "data", "enum", "trait", "impl", "package", "import", "pub",
                "internal", "private", "open", "abstract", "sealed"}

RECURSIVE SkipToBoundary(_)
SkipToBoundary(P) ==
    IF at_eof(P) \/ peek(P) \in BoundaryTok THEN P ELSE SkipToBoundary(bump(P))
Recovered(P) == SkipToBoundary([P EXCEPT !.gt = 0, !.ok = TRUE])

\* What parse_file returns for a whole file; Q is after an item.
RECURSIVE ParseRest(_, _), Collect(_, _)
ParseRest(P, found) ==
    IF at_eof(P) THEN [items |-> found, errs |-> P.errs] ELSE Collect(ItemParsed(P), found)
Collect(Q, found) ==
    IF Q.ok THEN ParseRest(Q, Append(found, Q.out[1])) ELSE ParseRest(Recovered(Q), found)
parse_file(toks) == ParseRest(NewParser(toks), <<>>)

=============================================================================
