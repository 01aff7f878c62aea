------------------------------ MODULE Grammar -------------------------------
(***************************************************************************)
(* The grammar of Valen as parser.rs parses it.  A definition named parse_x  *)
(* is the body of that function: a sequence of steps, each a call of a       *)
(* helper of the parser or of another parse function, with the choices and   *)
(* loops of the code as steps that hold further steps.  Parser.tla says      *)
(* what a step does.                                                         *)
(*                                                                           *)
(* Tokens are their spellings; two identifiers, one of each case, and one    *)
(* literal of each kind stand for all.                                       *)
(***************************************************************************)
EXTENDS Sequences

-----------------------------------------------------------------------------
(* Tokens                                                                  *)

\* TokenKind::Ident.  `new`, `Self`, `derives` and `out` are identifiers too.
LowerIdent == {"x", "y", "new", "derives", "out"}
UpperIdent == {"X", "Y", "Self"}
IdentTok == LowerIdent \cup UpperIdent
\* What expect_ident takes.
NameTok == IdentTok \cup {"data"}

IntLit == {"1"}
LongLit == {"1L"}
OtherLit == {"1.0f", "1.0", "'c'", "\"s\"", "true"}
LiteralTok == IntLit \cup LongLit \cup OtherLit

Eof == "end of file"

-----------------------------------------------------------------------------
(* Steps                                                                   *)

Expect(t) == <<"expect", t>>
Ident == <<"ident">>                    \* expect_ident
Bump == <<"bump">>                      \* drop a token
Take == <<"take">>                      \* keep a token
Rule(name) == <<"rule", name>>
Rung(l) == <<"rung", l>>                \* an operand of the operators of level l - 1
If(c, then, else) == <<"if", c, then, else>>
When(c, then) == If(c, then, <<>>)
\* The first alternative whose condition holds; an error when none does.
Match(alts) == <<"match", alts>>
\* Alternatives tried again and again until none applies.
Repeat(alts) == <<"repeat", alts>>
\* `while !close && !at_eof()` with a comma before every element but the first;
\* `trailing`: close may follow a comma; an element in `stop` ends the loop.
List(close, trailing, stop, element) == <<"list", close, trailing, stop, element>>
\* The nodes made by the steps become one node; Left takes the n before too.
Left(kind, n, steps) == <<"node", kind, n, steps>>
Node(kind, steps) == Left(kind, 0, steps)
Make(kind) == Node(kind, <<>>)
Leaf(v) == <<"leaf", v>>
\* The modifiers that are there, in whatever order and number: of methods only.
Modifiers(set) == <<"modifiers", set>>
Drop(n) == <<"drop", n>>                \* parsed, and not kept in the tree
Attach == <<"attach">>                  \* last.generics = generics
ExpectGt == <<"gt">>
Complain == <<"complain">>              \* a diagnostic, and on
\* A failure of the steps ends them and nothing else.
Soft(steps) == <<"soft", steps>>
\* What the steps did to position and diagnostics is undone if they fail.
Try(steps, instead) == <<"try", steps, instead>>

\* Conditions.
At(set) == <<"at", set>>
At2(first, second) == <<"at2", first, second>>
AtGt == <<"at_gt">>
GenericArgs == <<"looks_like_generic_args">>
Made(kinds) == <<"made", kinds>>        \* the last node's kind
Modified(m) == <<"modified", m>>        \* the last node's modifiers have m
Otherwise == <<"otherwise">>

Alt(c, steps) == <<c, steps>>
Commas(close, element) == List(At({close}), TRUE, {}, element)
\* The modifier t, once or not at all (eat).
Optional(t) == Node("modifiers", <<When(At({t}), <<Take>>)>>)

-----------------------------------------------------------------------------
(* Types                                                                   *)

parse_type_path_segment ==
    <<If(At({"<"}),
         <<Node("generics", <<Bump, List(AtGt, FALSE, {}, <<Rule("type")>>), ExpectGt>>)>>,
         <<Make("generics")>>)>>

parse_type ==
    <<Match(<<
        Alt(At2({"ref"}, {"mut"}), <<Bump, Bump, Node("tref", <<Rule("type")>>)>>),
        Alt(At({"fn"}),
            <<Bump, Expect("("),
              Node("tfn", <<Node("params", <<List(At({")"}), FALSE, {}, <<Rule("type")>>)>>),
                            Expect(")"), Expect("->"), Rule("type")>>)>>),
        Alt(At2({"self"}, {"::"}), <<Bump, Bump, Node("tassoc", <<Ident>>)>>),
        Alt(Otherwise,
            <<Node("tpath",
                <<Node("tseg", <<If(At({"self"}), <<Bump, Leaf("Self")>>, <<Ident>>),
                                 Rule("type_path_segment")>>),
                  Repeat(<<Alt(At({"."}),
                      <<Bump, Node("tseg", <<Ident, Rule("type_path_segment")>>)>>)>>)>>),
              When(At({"?"}), <<Left("nullable", 1, <<Bump>>)>>)>>)>>)>>

parse_generic_params ==
    <<Node("generics",
        <<When(At({"<"}),
            <<Bump,
              List(AtGt, TRUE, {},
                <<Node("generic",
                    <<Optional("reified"),
                      If(At({"in", "out"}), <<Take>>, <<Leaf("")>>),
                      Ident,
                      Node("bounds", <<When(At({":"}),
                          <<Bump, Rule("type"),
                            Repeat(<<Alt(At({"+"}), <<Bump, Rule("type")>>)>>)>>)>>)>>)>>),
              ExpectGt>>)>>)>>

parse_turbofish_args ==
    <<Node("generics",
        <<Expect("<"), List(AtGt, TRUE, {}, <<Rule("type")>>), ExpectGt>>)>>

parse_generic_type_args ==
    <<Node("generics",
        <<Expect("<"),
          If(AtGt, <<Complain, ExpectGt>>,
                   <<List(AtGt, TRUE, {}, <<Rule("type")>>), ExpectGt>>)>>)>>

-----------------------------------------------------------------------------
(* Items                                                                   *)

parse_literal == <<Match(<<Alt(At(LiteralTok), <<Take>>)>>)>>

parse_annotation ==
    <<Node("annotation",
        <<Expect("@"), Ident,
          When(At({"("}),
            <<Bump,
              Commas(")", <<Node("arg",
                  <<When(At2(IdentTok, {"="}), <<Ident, Expect("=")>>),
                    Rule("literal")>>)>>),
              Expect(")")>>)>>)>>

parse_annotations ==
    <<Node("annotations", <<Repeat(<<Alt(At({"@"}), <<Soft(<<Rule("annotation")>>)>>)>>)>>)>>

parse_visibility ==
    <<If(At({"pub", "internal", "private"}), <<Take>>, <<Leaf("internal")>>)>>

parse_class_kind ==
    <<If(At({"open", "abstract", "sealed"}), <<Take>>, <<Leaf("final")>>)>>

Typed == <<Ident, Expect(":"), Rule("type")>>
Mut == Optional("mut")
Default == Node("default", <<When(At({"="}), <<Bump, Rule("expr")>>)>>)
ReturnType == Node("ret", <<When(At({"->"}), <<Bump, Rule("type")>>)>>)

parse_annotation_class_params ==
    <<Node("params",
        <<Expect("("), Commas(")", <<Node("annotation_param", <<Rule("visibility")>> \o Typed)>>),
          Expect(")")>>)>>

parse_annotation_class ==
    <<Left("annotation_class", 2,
        <<Expect("annotation"), Expect("class"), Ident,
          If(At({"("}), <<Rule("annotation_class_params")>>, <<Make("params")>>)>>)>>

\* After `self` the code goes on with the next parameter.
parse_param_list ==
    <<Node("params", <<Commas(")",
        <<If(At2({"mut"}, {"self"}), <<Node("self", <<Mut, Expect("self")>>)>>,
          <<If(At({"self"}), <<Node("self", <<Make("modifiers"), Expect("self")>>)>>,
            <<Node("param", <<Mut>> \o Typed \o <<Default>>)>>)>>)>>)>>)>>

\* On annotations, visibility and modifiers, already parsed.
FnDecl(body) ==
    <<Left("fn", 3,
        <<Expect("fn"), Ident, Rule("generic_params"), Expect("("), Rule("param_list"),
          Expect(")"), ReturnType>> \o body)>>
AbstractBody == <<If(At({"{"}), <<Rule("block")>>, <<Expect(";")>>)>>
parse_fn_decl == FnDecl(<<Rule("block")>>)

parse_ctor_params ==
    <<Node("params",
        <<Expect("("),
          Commas(")", <<Node("ctor_param",
              <<Rule("annotations"), Rule("visibility"), Mut>> \o Typed \o <<Default>>)>>),
          Expect(")")>>)>>

parse_supertypes ==
    <<Node("supertypes",
        <<When(At({":"}), <<Bump, Rule("type"),
                            Repeat(<<Alt(At({","}), <<Bump, Rule("type")>>)>>)>>)>>)>>

parse_derives ==
    <<Node("derives",
        <<When(At({"derives"}),
            <<Bump, When(At({"("}),
                <<Bump, Soft(<<Commas(")", <<Ident>>)>>), Soft(<<Expect(")")>>)>>)>>)>>)>>

MethodModifiers == {"unsafe", "open", "override", "abstract", "inline"}

parse_class_body ==
    <<Repeat(<<Alt(<<"inside", "}">>,
        <<Rule("annotations"), Rule("visibility"),
          Match(<<Alt(At(MethodModifiers \cup {"fn"}),
              <<Modifiers(MethodModifiers),
                If(Modified("abstract"), FnDecl(AbstractBody), parse_fn_decl)>>)>>)>>)>>)>>

parse_class ==
    <<Left("class", 3,
        <<Expect("class"), Ident, Rule("generic_params"),
          If(At({"("}), <<Rule("ctor_params")>>, <<Make("params")>>),
          Rule("supertypes"), Rule("derives"),
          Node("members",
            <<If(At({"{"}), <<Bump, Rule("class_body"), Expect("}")>>, <<Expect(";")>>)>>)>>)>>

parse_data_class ==
    <<Left("data", 2,
        <<Expect("data"), Expect("class"), Ident, Rule("generic_params"), Rule("ctor_params"),
          Rule("supertypes"), Rule("derives"), Expect(";")>>)>>

parse_enum_variant ==
    <<Node("variant",
        <<Ident,
          If(At({"("}),
             <<Bump, Node("named", <<Commas(")", <<Node("enum_field", Typed)>>)>>), Expect(")")>>,
             <<Make("unit")>>)>>)>>

parse_enum ==
    <<Left("enum", 2,
        <<Expect("enum"), Ident, Rule("generic_params"), Rule("derives"), Expect("{"),
          Node("members", <<Commas("}", <<Rule("enum_variant")>>)>>), Expect("}")>>)>>

AssocType(value) == Node("assoc", <<Bump, Ident>> \o value \o <<Expect(";")>>)

parse_trait ==
    <<Left("trait", 3,
        <<Expect("trait"), Ident, Rule("generic_params"), Expect("{"),
          Node("members", <<Repeat(<<Alt(<<"inside", "}">>,
            <<If(At({"type"}),
                 <<AssocType(<<Node("default", <<When(At({"="}), <<Bump, Rule("type")>>)>>)>>)>>,
                 <<Make("annotations"), Leaf("pub"), Make("modifiers")>>
                   \o FnDecl(AbstractBody))>>)>>)>>),
          Expect("}")>>)>>

parse_impl ==
    <<Node("impl",
        <<Expect("impl"), Rule("generic_params"), Rule("type"),
          If(At({"for"}), <<Left("for", 1, <<Bump, Rule("type")>>)>>, <<Left("on", 1, <<>>)>>),
          Expect("{"),
          Node("members", <<Repeat(<<Alt(<<"inside", "}">>,
            <<Rule("annotations"), Rule("visibility"),
              If(At({"type"}),
                 <<Drop(2), AssocType(<<Expect("="), Node("default", <<Rule("type")>>)>>)>>,
                 <<Optional("inline")>> \o parse_fn_decl)>>)>>)>>),
          Expect("}")>>)>>

parse_type_alias ==
    <<Left("alias", 1,
        <<Expect("typealias"), Ident, Rule("generic_params"), Expect("="), Rule("type"),
          Expect(";")>>)>>

parse_newtype ==
    <<Left("newtype", 1, <<Expect("newtype"), Ident, Expect("="), Rule("type"), Expect(";")>>)>>

Dotted == <<Ident, Repeat(<<Alt(At({"."}), <<Bump, Ident>>)>>)>>

parse_package == <<Node("package", <<Expect("package")>> \o Dotted \o <<Expect(";")>>)>>

parse_import ==
    <<Node("import",
        <<Expect("import"), Node("names", Dotted),
          Node("as", <<When(At({"as"}), <<Bump, Ident>>)>>), Expect(";")>>)>>

\* Annotations and visibility come first; what some items do with them is to
\* drop them.
Declared == Match(<<
    Alt(At({"annotation"}), <<Rule("annotation_class")>>),
    Alt(At({"inline"}), <<Node("modifiers", <<Take>>)>> \o parse_fn_decl),
    Alt(At2({"unsafe"}, {"inline"}), <<Node("modifiers", <<Take, Take>>)>> \o parse_fn_decl),
    Alt(At({"unsafe"}), <<Node("modifiers", <<Take>>)>> \o parse_fn_decl),
    Alt(At({"fn"}), <<Make("modifiers")>> \o parse_fn_decl),
    Alt(At2({"sealed"}, {"trait"}), <<Take, Rule("trait")>>),
    Alt(At({"class", "open", "abstract", "sealed"}), <<Rule("class_kind"), Rule("class")>>),
    Alt(At({"data"}), <<Rule("data_class")>>),
    Alt(At({"enum"}), <<Rule("enum")>>),
    Alt(At({"trait"}), <<Leaf("open"), Rule("trait")>>),
    Alt(At({"impl"}), <<Drop(2), Rule("impl")>>),
    Alt(At({"typealias"}), <<<<"drop annotations">>, Rule("type_alias")>>),
    Alt(At({"newtype"}), <<<<"drop annotations">>, Rule("newtype")>>)>>)

parse_item ==
    <<Match(<<
        Alt(At({"package"}), <<Rule("package")>>),
        Alt(At({"import"}), <<Rule("import")>>),
        Alt(Otherwise, <<Rule("annotations"), Rule("visibility"), Declared>>)>>)>>

-----------------------------------------------------------------------------
(* Blocks and statements                                                   *)

\* A statement of these kinds needs no `;`.
BlockLike == {"if", "iflet", "whilelet", "match", "block", "for", "while", "loop", "safe"}

OptType == Node("ty", <<When(At({":"}), <<Bump, Rule("type")>>)>>)

parse_block ==
    <<Node("block",
        <<Expect("{"),
          Repeat(<<
            Alt(At({"let"}), <<Rule("let_or_let_else")>>),
            Alt(<<"inside", "}">>,
              <<Rule("expr"),
                Match(<<Alt(At({";"}), <<Left("semi", 1, <<Bump>>)>>),
                        Alt(At({"}"}), <<Left("tail", 1, <<>>)>>),
                        Alt(Made(BlockLike), <<Left("semi", 1, <<>>)>>)>>)>>)>>),
          Expect("}")>>)>>

parse_let_or_let_else == <<Try(<<Rule("let_else")>>, <<Rule("let")>>)>>

parse_let_else ==
    <<Node("letelse",
        <<Expect("let"), Rule("pattern"), OptType, Expect("="), Rule("expr"),
          Expect("else"), Rule("block"), Expect(";")>>)>>

parse_let ==
    <<Node("let", <<Expect("let"), Mut, Ident, OptType, Expect("="), Rule("expr"), Expect(";")>>)>>

-----------------------------------------------------------------------------
(* Expressions                                                             *)

AssignOps == {"=", "+=", "-=", "*=", "/=", "%="}
parse_expr ==
    <<Rung(1), When(At(AssignOps), <<Left("assign", 1, <<Take, Rule("expr")>>)>>)>>

\* The functions from parse_pipeline to parse_mul are the rungs of a ladder: each
\* calls the next one for its first operand and does with its operators what
\* stands here.
Infix(ops, next) == <<Repeat(<<Alt(At(ops), <<Left("binary", 1, <<Take, Rung(next)>>)>>)>>)>>

parse_pipeline == <<Repeat(<<Alt(At({"|>"}), <<Left("pipeline", 1, <<Bump, Rung(2)>>)>>)>>)>>
parse_or == Infix({"||"}, 3)
parse_and == Infix({"&&"}, 4)
parse_bitor == Infix({"|"}, 5)
parse_bitxor == Infix({"^"}, 6)
parse_bitand == Infix({"&"}, 7)
\* Faulty: the operand on the right may be another comparison.
Faulty_parse_eq == Infix({"===", "!==", "==", "!="}, 7)
parse_eq == Infix({"===", "!==", "==", "!="}, 8)
parse_cmp == Infix({"<", "<=", ">", ">="}, 9)
parse_range ==
    <<When(At({"..", "..="}),
        <<Left("range", 1,
            <<Take, If(At({";", "}", ")", ",", Eof}), <<>>, <<Rung(10)>>)>>)>>)>>
parse_shift == Infix({"<<", ">>"}, 11)
parse_add == Infix({"+", "-"}, 12)
parse_mul == Infix({"*", "/", "%"}, 13)
Ladder == <<parse_pipeline, parse_or, parse_and, parse_bitor, parse_bitxor, parse_bitand,
            parse_eq, parse_cmp, parse_range, parse_shift, parse_add, parse_mul>>

parse_unary ==
    <<If(At({"*", "-", "!"}), <<Node("unary", <<Take, Rule("unary")>>)>>, <<Rule("postfix")>>)>>

parse_postfix ==
    <<Rule("primary"),
      Repeat(<<
        Alt(At({"("}), <<Left("call", 1, <<Make("generics"), Rule("call_args")>>)>>),
        Alt(GenericArgs, <<Left("call", 1, <<Rule("generic_type_args"), Rule("call_args")>>)>>),
        Alt(At({"."}),
          <<Bump, Ident,
            Match(<<
              Alt(GenericArgs,
                <<Left("method", 2, <<Rule("generic_type_args"), Rule("call_args")>>)>>),
              Alt(At({"("}), <<Left("method", 2, <<Make("generics"), Rule("call_args")>>)>>),
              Alt(Otherwise, <<Left("field", 2, <<>>)>>)>>)>>),
        Alt(At({"?"}), <<Left("try", 1, <<Bump>>)>>),
        Alt(At({"as"}), <<Left("cast", 1, <<Bump, Rule("type")>>)>>)>>)>>

parse_call_args ==
    <<Node("args",
        <<Expect("("),
          Commas(")", <<Node("arg",
              <<When(At2(IdentTok, {"="}), <<Ident, Bump>>), Rule("expr")>>)>>),
          Expect(")")>>)>>

\* Parentheses leave no node.
parse_primary ==
    <<Match(<<
        Alt(At(LiteralTok \cup {"null", "self"}), <<Take>>),
        Alt(At(NameTok), <<Rule("path_expr")>>),
        Alt(At2({"("}, {")"}), <<Bump, Bump, Leaf("()")>>),
        Alt(At({"("}), <<Bump, Rule("expr"), Expect(")")>>),
        Alt(At({"{"}), <<Rule("block")>>),
        Alt(At({"if"}), <<Rule("if_expr")>>),
        Alt(At({"match"}), <<Rule("match_expr")>>),
        Alt(At({"for"}), <<Rule("for_expr")>>),
        Alt(At({"while"}), <<Rule("while_expr")>>),
        Alt(At({"loop"}), <<Rule("loop_expr")>>),
        Alt(At({"break"}), <<Rule("break_expr")>>),
        Alt(At({"continue"}), <<Rule("continue_expr")>>),
        Alt(At({"return"}), <<Rule("return_expr")>>),
        Alt(At({"|", "||"}), <<Rule("lambda_expr")>>),
        Alt(At({"safe"}), <<Rule("safe_expr")>>),
        Alt(At({"unsafe"}), <<Rule("unsafe_expr")>>),
        Alt(At2({"ref"}, {"mut"}), <<Rule("ref_mut_expr")>>),
        Alt(At({"["}), <<Rule("list_literal")>>),
        Alt(At2({"#"}, {"{"}), <<Rule("map_literal")>>),
        Alt(At2({"."}, UpperIdent), <<Rule("variant_shorthand_expr")>>)>>)>>

parse_list_literal ==
    <<Node("list", <<Expect("["), Commas("]", <<Rule("expr")>>), Expect("]")>>)>>

parse_map_literal ==
    <<Node("map",
        <<Expect("#"), Expect("{"),
          Commas("}", <<Node("entry", <<Rule("expr"), Expect(":"), Rule("expr")>>)>>),
          Expect("}")>>)>>

parse_variant_shorthand_expr ==
    <<Node("shorthand",
        <<Expect("."), Ident, If(At({"("}), <<Rule("call_args")>>, <<Make("args")>>)>>)>>

Segment == Node("seg", <<Ident, Make("generics")>>)

\* Faulty: parses a turbofish and forgets it.
Faulty_parse_path_expr ==
    <<Node("path",
        <<Segment,
          Repeat(<<Alt(At({"::"}),
            <<Bump, If(At({"<", ">>"}), <<Rule("turbofish_args"), Drop(1)>>, <<Segment>>)>>)>>)>>)>>

parse_path_expr ==
    <<Node("path",
        <<Segment,
          Repeat(<<Alt(At({"::"}),
            <<Bump, If(At({"<", ">>"}), <<Rule("turbofish_args"), Attach>>, <<Segment>>)>>)>>)>>)>>

ElseBranch ==
    Node("else",
        <<When(At({"else"}), <<Bump, If(At({"if"}), <<Rule("if_expr")>>, <<Rule("block")>>)>>)>>)

parse_if_let_expr ==
    <<Node("iflet",
        <<Expect("let"), Rule("pattern"), Expect("="), Rule("expr"), Rule("block"), ElseBranch>>)>>

parse_if_expr ==
    <<Expect("if"),
      If(At({"let"}), <<Rule("if_let_expr")>>,
                      <<Node("if", <<Rule("expr"), Rule("block"), ElseBranch>>)>>)>>

parse_match_arm ==
    <<Node("arm",
        <<Rule("pattern"), Node("guard", <<When(At({"if"}), <<Bump, Rule("expr")>>)>>),
          Expect("=>"), Rule("expr")>>)>>

parse_match_expr ==
    <<Node("match",
        <<Expect("match"), Rule("expr"), Expect("{"), Commas("}", <<Rule("match_arm")>>),
          Expect("}")>>)>>

\* A value, unless a statement or block ends here.
OptValue == If(At({";", "}", Eof}), <<>>, <<Rule("expr")>>)
parse_return_expr == <<Node("return", <<Expect("return"), OptValue>>)>>
parse_break_expr == <<Node("break", <<Expect("break"), OptValue>>)>>
parse_continue_expr == <<Node("continue", <<Expect("continue")>>)>>

parse_for_expr ==
    <<Node("for", <<Expect("for"), Ident, Expect("in"), Rule("expr"), Rule("block")>>)>>

parse_while_expr ==
    <<Expect("while"),
      If(At({"let"}),
         <<Node("whilelet", <<Bump, Rule("pattern"), Expect("="), Rule("expr"), Rule("block")>>)>>,
         <<Node("while", <<Rule("expr"), Rule("block")>>)>>)>>

parse_loop_expr == <<Node("loop", <<Expect("loop"), Rule("block")>>)>>

\* `safe e` is `safe { e }` and `safe? e` is `safe { e }?`.
Wrapped == Node("safe", <<Node("block", <<Node("tail", <<Rule("expr")>>)>>)>>)
parse_safe_expr ==
    <<Expect("safe"),
      Match(<<Alt(At({"{"}), <<Node("safe", <<Rule("block")>>)>>),
              Alt(At({"?"}), <<Node("try", <<Bump, Wrapped>>)>>),
              Alt(Otherwise, <<Wrapped>>)>>)>>

parse_unsafe_expr ==
    <<Node("unsafe",
        <<Expect("unsafe"), If(At({"{"}), <<Rule("block")>>, <<Rule("expr")>>)>>)>>

parse_ref_mut_expr == <<Node("refmut", <<Expect("ref"), Expect("mut"), Rule("expr")>>)>>

parse_lambda_expr ==
    <<Node("lambda",
        <<If(At({"||"}), <<Bump, Make("params")>>,
            <<Expect("|"),
              Node("params",
                <<List(At({"|"}), FALSE, {}, <<Node("lparam", <<Ident, OptType>>)>>)>>),
              Expect("|")>>),
          ReturnType, Rule("expr")>>)>>

-----------------------------------------------------------------------------
(* Patterns                                                                *)

parse_pattern ==
    <<Rule("pattern_atom"),
      When(At({"|"}),
        <<Left("por", 1, <<Repeat(<<Alt(At({"|"}), <<Bump, Rule("pattern_atom")>>)>>)>>)>>)>>

\* The end of a range is an Int literal or nothing.
parse_range_pattern ==
    <<Node("prange", <<Take, Take, Node("end", <<When(At(IntLit), <<Take>>)>>)>>)>>

parse_pattern_atom ==
    <<Match(<<
        Alt(At({"_"}), <<Take>>),
        Alt(At2(IntLit \cup LongLit, {"..", "..="}), <<Rule("range_pattern")>>),
        Alt(At(LiteralTok), <<Take>>),
        Alt(At({"mut"}), <<Node("pmut", <<Bump, Ident>>)>>),
        Alt(At(NameTok), <<Rule("ident_pattern")>>),
        Alt(At2({"."}, UpperIdent), <<Rule("variant_shorthand_pattern")>>)>>)>>

\* Faulty: takes `..` for the end of the fields.
Faulty_PatternFields ==
    Node("fields",
        <<Expect("("),
          List(At({")"}), TRUE, {".."},
            <<Node("pfield", <<Ident, When(At({":"}), <<Bump, Rule("pattern")>>)>>)>>),
          When(At({")"}), <<Bump>>)>>)

PatternFields ==
    Node("fields",
        <<Expect("("),
          List(At({")"}), TRUE, {".."},
            <<Node("pfield", <<Ident, When(At({":"}), <<Bump, Rule("pattern")>>)>>)>>),
          Expect(")")>>)

parse_struct_pattern == <<Left("pstruct", 1, <<PatternFields>>)>>

parse_ident_pattern ==
    <<If(At2(NameTok, {"::"}),
        <<Node("path", <<Segment, Repeat(<<Alt(At({"::"}), <<Bump, Segment>>)>>)>>),
          When(At({"("}), <<Rule("struct_pattern")>>)>>,
        <<Ident,
          Match(<<Alt(At({"("}), <<Rule("struct_pattern")>>),
                  Alt(At({"@"}), <<Left("pat", 1, <<Bump, Rule("pattern_atom")>>)>>),
                  Alt(Otherwise, <<>>)>>)>>)>>

parse_variant_shorthand_pattern ==
    <<Node("pshorthand",
        <<Expect("."), Ident, If(At({"("}), <<PatternFields>>, <<Make("fields")>>)>>)>>

-----------------------------------------------------------------------------
Rules == [
    item |-> parse_item, package |-> parse_package, import |-> parse_import,
    annotations |-> parse_annotations, annotation |-> parse_annotation,
    literal |-> parse_literal, visibility |-> parse_visibility,
    class_kind |-> parse_class_kind, annotation_class |-> parse_annotation_class,
    annotation_class_params |-> parse_annotation_class_params,
    param_list |-> parse_param_list, ctor_params |-> parse_ctor_params,
    generic_params |-> parse_generic_params, supertypes |-> parse_supertypes,
    derives |-> parse_derives, class_body |-> parse_class_body, class |-> parse_class,
    data_class |-> parse_data_class, enum_variant |-> parse_enum_variant,
    enum |-> parse_enum, trait |-> parse_trait, impl |-> parse_impl,
    type_alias |-> parse_type_alias, newtype |-> parse_newtype,
    type |-> parse_type, type_path_segment |-> parse_type_path_segment,
    turbofish_args |-> parse_turbofish_args, generic_type_args |-> parse_generic_type_args,
    block |-> parse_block, let_or_let_else |-> parse_let_or_let_else,
    let_else |-> parse_let_else, let |-> parse_let, expr |-> parse_expr,
    unary |-> parse_unary,
    postfix |-> parse_postfix, primary |-> parse_primary, call_args |-> parse_call_args,
    path_expr |-> parse_path_expr, list_literal |-> parse_list_literal,
    map_literal |-> parse_map_literal,
    variant_shorthand_expr |-> parse_variant_shorthand_expr,
    if_expr |-> parse_if_expr, if_let_expr |-> parse_if_let_expr,
    match_expr |-> parse_match_expr, match_arm |-> parse_match_arm,
    for_expr |-> parse_for_expr, while_expr |-> parse_while_expr,
    loop_expr |-> parse_loop_expr, break_expr |-> parse_break_expr,
    continue_expr |-> parse_continue_expr, return_expr |-> parse_return_expr,
    lambda_expr |-> parse_lambda_expr, safe_expr |-> parse_safe_expr,
    unsafe_expr |-> parse_unsafe_expr, ref_mut_expr |-> parse_ref_mut_expr,
    pattern |-> parse_pattern, pattern_atom |-> parse_pattern_atom,
    ident_pattern |-> parse_ident_pattern, struct_pattern |-> parse_struct_pattern,
    range_pattern |-> parse_range_pattern,
    variant_shorthand_pattern |-> parse_variant_shorthand_pattern]
=============================================================================
