------------------------------ MODULE Printer -------------------------------
(***************************************************************************)
(* The printer of valenfmt: the words it writes for the tree of a file.  A    *)
(* definition named print_x is that function of printer.rs; white space and  *)
(* comments are left out, except that two `>` of type arguments are written   *)
(* side by side and read as one token.                                       *)
(***************************************************************************)
EXTENDS Parser
LOCAL INSTANCE SequencesExt

RECURSIVE print(_)

Separated(nodes, sep) ==
    FlattenSeq([i \in DOMAIN nodes |-> (IF i = 1 THEN <<>> ELSE sep) \o print(nodes[i])])
Listed(n) == Separated(n.c, <<",">>)
In(open, words, close) == <<open>> \o words \o <<close>>
\* What is there only when the node has something in it.
IfAny(n, words) == IF n.c = <<>> THEN <<>> ELSE words
Opt(word, n) == IfAny(n, <<word>> \o print(n))
All(n) == Separated(n.c, <<>>)

\* A `>` that closes type arguments.
Close == "closing >"
Angled(n) == IfAny(n, In("<", Listed(n), Close))

-----------------------------------------------------------------------------
(* Shared helpers                                                          *)

print_visibility(v) == IF v.v \in {"pub", "private"} THEN <<v.v>> ELSE <<>>

print_annotations(n) == All(n)
print_annotation(n) ==
    LET args == [n EXCEPT !.c = Tail(@)]
    IN <<"@", n.c[1].v>> \o IfAny(args, In("(", Listed(args), ")"))

print_generics(n) == Angled(n)
print_generic(n) ==
    print(n.c[1]) \o print(n.c[2]) \o print(n.c[3])
      \o IfAny(n.c[4], <<":">> \o Separated(n.c[4].c, <<"+">>))

print_type_path(n) == Separated(n.c, <<".">>)
print_type(n) ==
    CASE n.k = "tpath" -> print_type_path(n)
      [] n.k = "tseg" -> <<n.c[1].v>> \o Angled(n.c[2])
      [] n.k = "nullable" -> print(n.c[1]) \o <<"?">>
      [] n.k = "tfn" ->
            <<"fn">> \o In("(", Listed(n.c[1]), ")") \o <<"->">> \o print(n.c[2])
      [] n.k = "tref" -> <<"ref", "mut">> \o print(n.c[1])
      [] n.k = "tassoc" -> <<"Self", "::", n.c[1].v>>

-----------------------------------------------------------------------------
(* Items                                                                   *)

print_package(n) == <<"package">> \o Separated(n.c, <<".">>) \o <<";">>
print_import(n) ==
    <<"import">> \o Separated(n.c[1].c, <<".">>) \o Opt("as", n.c[2]) \o <<";">>

\* Derives are not written, nor is `unsafe`.
Shown(n, hidden) ==
    LET ms == SelectSeq(n.c, LAMBDA m : m.v \notin hidden) IN [i \in DOMAIN ms |-> ms[i].v]

print_params(n) == Listed(n)
print_param(n) ==
    print(n.c[1]) \o <<n.c[2].v, ":">> \o print(n.c[3]) \o Opt("=", n.c[4])

print_fn_decl(n, ctx) ==
    print_annotations(n.c[1])
      \o (IF ctx \in {"top", "class"} THEN print_visibility(n.c[2]) ELSE <<>>)
      \o Shown(n.c[3], {"unsafe"} \cup IF ctx = "trait" THEN {"abstract"} ELSE {})
      \o <<"fn", n.c[4].v>> \o print_generics(n.c[5])
      \o In("(", print_params(n.c[6]), ")")
      \o Opt("->", n.c[7])
      \o (IF Len(n.c) = 8 THEN print(n.c[8]) ELSE <<";">>)

Member(n, ctx) == IF n.k = "fn" THEN print_fn_decl(n, ctx) ELSE print(n)
Members(n, ctx) == In("{", FlattenSeq([i \in DOMAIN n.c |-> Member(n.c[i], ctx)]), "}")

print_ctor_params(n) == Listed(n)
print_ctor_param(n) ==
    print_annotations(n.c[1]) \o print_visibility(n.c[2]) \o print(n.c[3])
      \o <<n.c[4].v, ":">> \o print(n.c[5]) \o Opt("=", n.c[6])

Supertypes(n) == IfAny(n, <<":">> \o Listed(n))

print_class(n) ==
    print_annotations(n.c[1]) \o print_visibility(n.c[2])
      \o (IF n.c[3].v = "final" THEN <<>> ELSE <<n.c[3].v>>)
      \o <<"class", n.c[4].v>> \o print_generics(n.c[5])
      \o IfAny(n.c[6], In("(", print_ctor_params(n.c[6]), ")"))
      \o Supertypes(n.c[7]) \o Members(n.c[9], "class")

print_data_class(n) ==
    print_annotations(n.c[1]) \o print_visibility(n.c[2])
      \o <<"data", "class", n.c[3].v>> \o print_generics(n.c[4])
      \o In("(", print_ctor_params(n.c[5]), ")") \o Supertypes(n.c[6]) \o <<";">>

print_enum_variant(n) ==
    <<n.c[1].v>> \o (IF n.c[2].k = "unit" THEN <<>> ELSE In("(", Listed(n.c[2]), ")")) \o <<",">>
print_enum(n) ==
    print_annotations(n.c[1]) \o print_visibility(n.c[2])
      \o <<"enum", n.c[3].v>> \o print_generics(n.c[4]) \o Members(n.c[6], "enum")

print_trait_item(n) ==
    <<"type", n.c[1].v>> \o Opt("=", n.c[2]) \o <<";">>
print_trait(n) ==
    print_annotations(n.c[1]) \o print_visibility(n.c[2])
      \o (IF n.c[3].v = "sealed" THEN <<"sealed">> ELSE <<>>)
      \o <<"trait", n.c[4].v>> \o print_generics(n.c[5]) \o Members(n.c[6], "trait")

print_impl_block(n) ==
    <<"impl">> \o print_generics(n.c[1]) \o Separated(n.c[2].c, <<"for">>)
      \o Members(n.c[3], "impl")

print_type_alias(n) ==
    print_visibility(n.c[1]) \o <<"typealias", n.c[2].v>> \o print_generics(n.c[3])
      \o <<"=">> \o print(n.c[4]) \o <<";">>
print_newtype(n) ==
    print_visibility(n.c[1]) \o <<"newtype", n.c[2].v, "=">> \o print(n.c[3]) \o <<";">>

print_annotation_class(n) ==
    print_annotations(n.c[1]) \o print_visibility(n.c[2])
      \o <<"annotation", "class", n.c[3].v>>
      \o IfAny(n.c[4], In("(", Listed(n.c[4]), ")"))

-----------------------------------------------------------------------------
(* Blocks and statements                                                   *)

print_block(n) == In("{", All(n), "}")

expr_ends_with_block(e) == e.k \in BlockLike \cup {"unsafe"}

print_stmt(n) ==
    CASE n.k = "let" ->
            <<"let">> \o print(n.c[1]) \o <<n.c[2].v>> \o Opt(":", n.c[3])
              \o <<"=">> \o print(n.c[4]) \o <<";">>
      [] n.k = "letelse" ->
            <<"let">> \o print(n.c[1]) \o Opt(":", n.c[2]) \o <<"=">> \o print(n.c[3])
              \o <<"else">> \o print(n.c[4]) \o <<";">>
      [] n.k = "tail" -> print(n.c[1])
      [] n.k = "semi" ->
            print(n.c[1]) \o (IF expr_ends_with_block(n.c[1]) THEN <<>> ELSE <<";">>)

-----------------------------------------------------------------------------
(* Expressions                                                             *)

bin_precedence(op) ==
    CASE op = "||" -> 1 [] op = "&&" -> 2 [] op = "|" -> 3 [] op = "^" -> 4 [] op = "&" -> 5
      [] op \in {"==", "!=", "===", "!=="} -> 6
      [] op \in {"<", "<=", ">", ">="} -> 7
      [] op \in {"<<", ">>"} -> 8
      [] op \in {"+", "-"} -> 9
      [] op \in {"*", "/", "%"} -> 10

\* Faulty: takes every operator for left and right associative.
Faulty_print_expr_with_prec(e, parent, rhs) ==
    IF e.k = "binary" /\ bin_precedence(e.c[2].v) < parent THEN In("(", print(e), ")")
    ELSE print(e)
\* Parentheses are written around a binary operand of a binary, and nowhere else.
print_expr_with_prec(e, parent, rhs) ==
    LET child == bin_precedence(e.c[2].v)
    IN IF e.k = "binary" /\ (child < parent \/ (child = parent /\ rhs))
       THEN In("(", print(e), ")")
       ELSE print(e)
print_binary(n) ==
    LET prec == bin_precedence(n.c[2].v)
    IN print_expr_with_prec(n.c[1], prec, FALSE) \o <<n.c[2].v>>
         \o print_expr_with_prec(n.c[3], prec, TRUE)

print_path(n) == Separated(n.c, <<"::">>)
print_call_args(n) == In("(", Listed(n), ")")
print_call(n) == print(n.c[1]) \o Angled(n.c[2]) \o print_call_args(n.c[3])
print_method_call(n) ==
    print(n.c[1]) \o <<".", n.c[2].v>> \o Angled(n.c[3]) \o print_call_args(n.c[4])
print_variant_shorthand_expr(n) ==
    <<".", n.c[1].v>> \o IfAny(n.c[2], print_call_args(n.c[2]))

print_if(n) == <<"if">> \o print(n.c[1]) \o print(n.c[2]) \o Opt("else", n.c[3])
print_if_let(n) ==
    <<"if", "let">> \o print(n.c[1]) \o <<"=">> \o print(n.c[2]) \o print(n.c[3])
      \o Opt("else", n.c[4])
print_while_let(n) ==
    <<"while", "let">> \o print(n.c[1]) \o <<"=">> \o print(n.c[2]) \o print(n.c[3])
print_match_arm(n) ==
    print(n.c[1]) \o Opt("if", n.c[2]) \o <<"=>">> \o print(n.c[3]) \o <<",">>
print_match(n) ==
    <<"match">> \o print(n.c[1]) \o In("{", Separated(Tail(n.c), <<>>), "}")
print_for(n) == <<"for", n.c[1].v, "in">> \o print(n.c[2]) \o print(n.c[3])

print_lambda(n) ==
    (IF n.c[1].c = <<>> THEN <<"||">> ELSE In("|", Listed(n.c[1]), "|"))
      \o Opt("->", n.c[2]) \o print(n.c[3])

print_expr(n) ==
    CASE n.k \in {"assign", "range"} -> All(n)
      [] n.k = "binary" -> print_binary(n)
      [] n.k = "pipeline" -> Separated(n.c, <<"|>">>)
      [] n.k = "unary" -> All(n)
      [] n.k = "call" -> print_call(n)
      [] n.k = "method" -> print_method_call(n)
      [] n.k = "field" -> print(n.c[1]) \o <<".", n.c[2].v>>
      [] n.k = "try" -> print(n.c[1]) \o <<"?">>
      [] n.k = "cast" -> print(n.c[1]) \o <<"as">> \o print(n.c[2])
      [] n.k = "path" -> print_path(n)
      [] n.k = "seg" -> <<n.c[1].v>> \o Angled(n.c[2])
      [] n.k = "arg" -> Separated(n.c, <<"=">>)
      [] n.k = "list" -> In("[", Listed(n), "]")
      [] n.k = "map" -> <<"#">> \o In("{", Listed(n), "}")
      [] n.k = "entry" -> Separated(n.c, <<":">>)
      [] n.k = "shorthand" -> print_variant_shorthand_expr(n)
      [] n.k = "if" -> print_if(n)
      [] n.k = "iflet" -> print_if_let(n)
      [] n.k = "whilelet" -> print_while_let(n)
      [] n.k = "match" -> print_match(n)
      [] n.k = "arm" -> print_match_arm(n)
      [] n.k = "for" -> print_for(n)
      [] n.k \in {"while", "loop", "safe", "unsafe", "return", "break", "continue"} ->
            <<n.k>> \o All(n)
      [] n.k = "refmut" -> <<"ref", "mut">> \o All(n)
      [] n.k = "lambda" -> print_lambda(n)
      [] n.k = "lparam" -> <<n.c[1].v>> \o Opt(":", n.c[2])

-----------------------------------------------------------------------------
(* Patterns                                                                *)

print_pattern(n) ==
    CASE n.k = "pmut" -> <<"mut">> \o All(n)
      [] n.k = "pat" -> Separated(n.c, <<"@">>)
      [] n.k = "por" -> Separated(n.c, <<"|">>)
      [] n.k = "prange" -> All(n)
      [] n.k = "pstruct" -> print(n.c[1]) \o In("(", Listed(n.c[2]), ")")
      [] n.k = "pfield" -> Separated(n.c, <<":">>)
      [] n.k = "pshorthand" ->
            <<".", n.c[1].v>> \o IfAny(n.c[2], In("(", Listed(n.c[2]), ")"))

-----------------------------------------------------------------------------
TypeKinds == {"tpath", "tseg", "nullable", "tfn", "tref", "tassoc"}
ItemKinds == {"package", "import", "fn", "class", "data", "enum", "trait", "impl", "alias",
              "newtype", "annotation_class"}
StmtKinds == {"let", "letelse", "tail", "semi"}
PatternKinds == {"pmut", "pat", "por", "prange", "pstruct", "pfield", "pshorthand"}
\* Nodes that only hold others.
Groups == {"annotations", "modifiers", "default", "ret", "ty", "as", "end", "else", "guard"}

print_item(n) ==
    CASE n.k = "package" -> print_package(n)
      [] n.k = "import" -> print_import(n)
      [] n.k = "fn" -> print_fn_decl(n, "top")
      [] n.k = "class" -> print_class(n)
      [] n.k = "data" -> print_data_class(n)
      [] n.k = "enum" -> print_enum(n)
      [] n.k = "trait" -> print_trait(n)
      [] n.k = "impl" -> print_impl_block(n)
      [] n.k = "alias" -> print_type_alias(n)
      [] n.k = "newtype" -> print_newtype(n)
      [] n.k = "annotation_class" -> print_annotation_class(n)

print(n) ==
    CASE n.k = "tok" -> (IF n.v = "()" THEN <<"(", ")">> ELSE IF n.v = "" THEN <<>> ELSE <<n.v>>)
      [] n.k \in Groups -> All(n)
      [] n.k \in TypeKinds -> print_type(n)
      [] n.k \in StmtKinds -> print_stmt(n)
      [] n.k \in PatternKinds -> print_pattern(n)
      [] n.k = "block" -> print_block(n)
      [] n.k = "annotation" -> print_annotation(n)
      [] n.k = "generic" -> print_generic(n)
      [] n.k = "self" -> print(n.c[1]) \o <<"self">>
      [] n.k = "param" -> print_param(n)
      [] n.k = "ctor_param" -> print_ctor_param(n)
      [] n.k = "annotation_param" ->
            print_visibility(n.c[1]) \o <<n.c[2].v, ":">> \o print(n.c[3])
      [] n.k = "enum_field" -> Separated(n.c, <<":">>)
      [] n.k = "variant" -> print_enum_variant(n)
      [] n.k = "assoc" -> print_trait_item(n)
      [] n.k \in ItemKinds -> print_item(n)
      [] OTHER -> print_expr(n)

-----------------------------------------------------------------------------
(* A file                                                                  *)

\* Consecutive imports by path, then alias, as their text compares.
NameOrder == <<"end", "as", ".", "Self", "X", "Y", "data", "derives", "new", "out", "x", "y">>
Place(t) == CHOOSE i \in DOMAIN NameOrder : NameOrder[i] = t
import_sort_key(n) == Append(Tail(Front(print(n))), "end")
Less(ka, kb) ==
    \E i \in DOMAIN ka \cap DOMAIN kb :
        Place(ka[i]) < Place(kb[i]) /\ \A j \in 1..i - 1 : ka[j] = kb[j]
Before(a, b) == Less(import_sort_key(a), import_sort_key(b))

RECURSIVE Insert(_, _), sort_imports(_)
\* Into the sorted imports an item list begins with.
Insert(n, rest) ==
    IF rest # <<>> /\ n.k = "import" /\ rest[1].k = "import" /\ Before(rest[1], n)
    THEN <<rest[1]>> \o Insert(n, Tail(rest))
    ELSE <<n>> \o rest
\* Faulty: one insertion.
Faulty_sort_imports(ns) == IF ns = <<>> THEN <<>> ELSE Insert(ns[1], Tail(ns))
sort_imports(ns) == IF ns = <<>> THEN <<>> ELSE Insert(ns[1], sort_imports(Tail(ns)))

\* Two adjacent `>` are one token when the text is read again.
RECURSIVE Relexed(_)
Relexed(words) ==
    IF words = <<>> THEN <<>>
    ELSE IF words[1] # Close THEN <<words[1]>> \o Relexed(Tail(words))
    ELSE IF Len(words) > 1 /\ words[2] = Close
         THEN <<">>">> \o Relexed(SubSeq(words, 3, Len(words)))
         ELSE <<">">> \o Relexed(Tail(words))

Words(ns) == FlattenSeq([i \in DOMAIN ns |-> print(ns[i])])
Printed(ns) == Relexed(Words(sort_imports(ns)))

\* format_source: nothing for a file with syntax errors.
Unreadable == <<"parse errors">>
Formatted(file) == IF file.errs > 0 THEN Unreadable ELSE Printed(file.items)
format_source(toks) == Formatted(parse_file(toks))
=============================================================================
