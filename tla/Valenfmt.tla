------------------------------ MODULE Valenfmt -------------------------------
(***************************************************************************)
(* valenfmt: the main program of FormatFiles over the parser and the printer. *)
(*                                                                           *)
(* A text is its tokens and whether its white space is the printer's.        *)
(***************************************************************************)
EXTENDS Printer, Precedence, FormatFiles
LOCAL INSTANCE SequencesExt

\* format_source of a text, Nothing for None.
NoText == [toks |-> Unreadable, tidy |-> FALSE]
Output(toks) == [toks |-> toks, tidy |-> toks # Unreadable]
FormattedText(text) == Output(format_source(text.toks))
Parses(text) == parse_file(text.toks).errs = 0
TornText == [toks |-> <<"torn">>, tidy |-> FALSE]
EmptyText == [toks |-> <<>>, tidy |-> TRUE]

-----------------------------------------------------------------------------
(* Trees the printer writes texts for that are read as the same tree.        *)

\* Forms that go on to the end of the expression.
Greedy == {"return", "break", "lambda", "refmut", "unsafe"}
RECURSIVE Somewhere(_, _)
Somewhere(k, n) == n.k = k \/ \E i \in DOMAIN n.c : Somewhere(k, n.c[i])

\* Parentheses, which the tree does not show, are written for a binary in a binary
\* only, and a type takes what may belong to it.
Kept(n) ==
    /\ n.k \in {"assign", "range", "binary", "pipeline", "unary", "call", "cast", "method",
               "field", "try"} => \A i \in DOMAIN n.c : n.c[i].k \notin Greedy
    /\ n.k # "binary" => ByTable(n)
    /\ n.k = "binary" =>
          LET l == LevelOf(n)
              op == n.c[2].v
          IN /\ \A i \in {1, 3} : n.c[i].k = "binary" \/ AtLeast(n.c[i], IF i = 1 THEN l ELSE l + 1)
             /\ op = "<" => ~Somewhere("cast", n.c[1])
             /\ op \in {">", ">>"} /\ "<" \in ToSet(print(n.c[1])) =>
                   print_expr_with_prec(n.c[3], bin_precedence(op), TRUE)[1] # "("
    /\ n.k \in {"method", "field", "try"} => n.c[1].k # "cast"

\* No `;` is written after a statement that ends with a block.
Goes_on == {"-", "*", "(", "|", "||", "."}
Separate(n) ==
    n.k = "block" =>
        \A i \in DOMAIN n.c :
            n.c[i].k = "semi" /\ expr_ends_with_block(n.c[i].c[1]) =>
                /\ n.c[i].c[1].k # "unsafe"
                /\ i < Len(n.c) /\ print(n.c[i + 1])[1] \notin Goes_on

\* Not printed, or not as it is read.
Shows(n) ==
    /\ n.k = "derives" => n.c = <<>>
    /\ n.k = "modifiers" => LeafOf("unsafe") \notin ToSet(n.c)
    /\ n.k = "seg" => n.c[2].c = <<>>
    /\ n.k = "impl" => \A i \in DOMAIN n.c[3].c :
                          n.c[3].c[i].k = "fn" => n.c[3].c[i].c[2].v = "internal"

RECURSIVE Printable(_)
Printable(n) ==
    Kept(n) /\ Separate(n) /\ Shows(n) /\ \A i \in DOMAIN n.c : Printable(n.c[i])
PrintableText(toks) == \A n \in ToSet(parse_file(toks).items) : Printable(n)

-----------------------------------------------------------------------------
(* A file holds the program it held: what the formatter wrote parses to the     *)
(* tree of what the user wrote, with runs of imports sorted.  Trees the       *)
(* printer is known to write otherwise are left out (Printable).             *)
KeepsProgram ==
    pc \in {"exit 0", "error"} =>
      \A p \in Paths :
        LET old == command.files[p].toks
            new == disk[p].now.toks
        IN new # old /\ PrintableText(old) =>
              parse_file(new) = [items |-> sort_imports(parse_file(old).items), errs |-> 0]

(* A second run has nothing to do.                                           *)
SecondRunChangesNothing ==
    pc \in {"exit 0", "error"} =>
      \A p \in Paths :
        disk[p].now # command.files[p] /\ PrintableText(command.files[p].toks) =>
            Formatting(disk[p].now) = disk[p].now
=============================================================================
