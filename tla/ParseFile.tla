----------------------------- MODULE ParseFile ------------------------------
(***************************************************************************)
(* parse_file: an item at a time, and after an error on from the next token  *)
(* an item may start with.                                                   *)
(*                                                                           *)
(* A file is given as chunks of tokens, so that properties can speak of what  *)
(* was written as one item.                                                  *)
(***************************************************************************)
EXTENDS Precedence
LOCAL INSTANCE SequencesExt

CONSTANT Files

VARIABLES
    file,           \* the chunks of the file
    pc,             \* "items", "done"
    parser,         \* the Parser of parser.rs
    items           \* what parse_file has collected

vars == <<file, pc, parser, items>>
text == FlattenSeq(file)

Init ==
    /\ file \in Files
    /\ pc = "items"
    /\ parser = NewParser(FlattenSeq(file))
    /\ items = <<>>

\* A turn of the loop: an item, or its errors and the tokens skipped after it.
Turn ==
    /\ pc = "items" /\ ~at_eof(parser)
    /\ \E P \in {ItemParsed(parser)} :
          /\ parser' = [IF P.ok THEN P ELSE Recovered(P) EXCEPT !.out = <<>>]
          /\ items' = IF P.ok THEN Append(items, P.out[1]) ELSE items
    /\ UNCHANGED <<file, pc>>

Return ==
    /\ pc = "items" /\ at_eof(parser)
    /\ pc' = "done"
    /\ UNCHANGED <<file, parser, items>>

Next == Turn \/ Return

Spec == Init /\ [][Next]_vars

-----------------------------------------------------------------------------
Accepted == pc = "done" /\ parser.errs = 0

TypeOK ==
    /\ pc \in {"items", "done"}
    /\ parser.pos \in 1..Len(text) + 1
    /\ parser.gt \in {0, 1}
    /\ parser.ok

(* The loop of parse_file ends on every file: no turn leaves the position where *)
(* it was, although an item may fail on its first token and recovery may stop  *)
(* at the first token it sees.                                               *)
EveryTurnMoves == [][pc = "items" /\ ~at_eof(parser) => parser'.pos > parser.pos]_vars

(* Brackets nest in a file that is accepted, although every function checks    *)
(* its own pair only and let-else parses the same tokens twice.              *)
Opening == <<"(", "[", "{">>
Closing == <<")", "]", "}">>
RECURSIVE Open(_)
\* The brackets open after the first n tokens.
Open(n) ==
    IF n = 0 THEN <<>>
    ELSE LET open == Open(n - 1)
             t == text[n]
         IN IF t \in ToSet(Opening) THEN Append(open, t)
            ELSE IF t \notin ToSet(Closing) THEN open
            ELSE IF open # <<>> /\ \E i \in 1..3 : Closing[i] = t /\ Opening[i] = Last(open)
                 THEN Front(open)
                 ELSE <<"wrong">>
BracketsNest == Accepted => Open(Len(text)) = <<>>

(* The tree of an accepted file holds the names and literals of the file, each *)
(* once and in their order: parsing ahead and starting over loses none and    *)
(* keeps none twice.  `data` and `derives` are keywords where they are, and a second     *)
(* turbofish replaces the first.                                             *)
Content == (NameTok \cup LiteralTok) \ {"data", "derives"}
RECURSIVE Leaves(_)
Leaves(n) ==
    IF n.k = "tok" THEN <<n.v>> ELSE FlattenSeq([i \in DOMAIN n.c |-> Leaves(n.c[i])])
OfContent(words) == SelectSeq(words, LAMBDA t : t \in Content)
TwoTurbofishes ==
    \E i, j \in 1..Len(text) - 1 : /\ i < j
                                   /\ \A k \in {i, j} : SubSeq(text, k, k + 1) = <<"::", "<">>
NothingLost ==
    Accepted /\ ~TwoTurbofishes =>
        OfContent(FlattenSeq([i \in DOMAIN items |-> Leaves(items[i])])) = OfContent(text)

-----------------------------------------------------------------------------
RECURSIVE Everywhere(_)
Everywhere(n) == ByTable(n) /\ \A i \in DOMAIN n.c : Everywhere(n.c[i])

(* Without parentheses to say otherwise, operands bind as the table of the     *)
(* language reference says, for every mixture of operators.                  *)
BindsAsDocumented ==
    Accepted /\ Cardinality({i \in DOMAIN text : text[i] = "("}) = 1 =>
        \A i \in DOMAIN items : Everywhere(items[i])

-----------------------------------------------------------------------------
(* An item that has no error of its own and begins with a word no member,      *)
(* statement or expression begins with is found, with the tree it has alone,   *)
(* whatever errors the items around it have: recovery does not skip it and    *)
(* nothing of a broken item, a half `>>` least of all, reaches it.           *)
Firm == {"class", "enum", "trait", "impl", "import", "package"}
ItemsSurvive ==
    pc = "done" =>
        \A i \in DOMAIN file :
            \A alone \in {parse_file(file[i])} :
                file[i][1] \in Firm /\ alone.errs = 0 => alone.items[1] \in ToSet(items)
=============================================================================
