----------------------------- MODULE Exhaustive -----------------------------
(***************************************************************************)
(* The exhaustiveness pass of valen-hir: it finds the matches of a file    *)
(* in the syntax tree, guesses the type of what is matched from            *)
(* annotations, and decides whether the arms without guards cover it.      *)
(***************************************************************************)
EXTENDS Patterns

(* Items whose bodies are visited; the bodies of trait methods, of objects *)
(* and of extensions are not.                                              *)
check_items == {"fn", "class_method", "impl_fn"}

(* Expressions whose operands are visited; a match inside a cast, a `?`,   *)
(* an if-let, a while-let, a range, a list, a pipeline, an f-string, an    *)
(* unsafe block is passed over.                                            *)
check_expr == {"match", "if", "block", "call", "method_call", "binary", "unary", "assign",
               "return", "for", "while", "loop", "lambda", "field", "break", "safe", "short"}

(***************************************************************************)
(* The types of variables.  A declaration is [name, ty, annotated, inner]: *)
(* a let or parameter, whether its type is written as a single name, and   *)
(* whether it stands in a block that has ended before the match.           *)
(***************************************************************************)
check_block(decls) ==
    LET known == {i \in DOMAIN decls : decls[i].annotated}
    IN  [n \in {decls[i].name : i \in known} |->
            LET of == {i \in known : decls[i].name = n}
            IN  decls[CHOOSE i \in of : \A j \in of : j <= i].ty]

(* What is matched: a variable, a call of a name, or a method call, whose  *)
(* receiver's type is taken for its result.                                *)
RECURSIVE infer_scrutinee_type(_, _)
infer_scrutinee_type(e, locals) ==
    CASE e.k = "var"    -> IF e.name \in DOMAIN locals THEN locals[e.name] ELSE ""
      [] e.k = "call"   -> IF e.name \in EnumNames \cup DOMAIN Sealed \cup DOMAIN Closed
                           THEN e.name ELSE ""
      [] e.k = "method" -> infer_scrutinee_type(e.recv, locals)
      [] OTHER          -> ""

(***************************************************************************)
(* What patterns cover.                                                    *)
(***************************************************************************)
RECURSIVE pattern_is_catch_all_excluding(_, _)
pattern_is_catch_all_excluding(p, known) ==
    CASE p.k = "wild" -> TRUE
      [] p.k = "bind" -> p.name \notin known
      [] p.k = "at"   -> pattern_is_catch_all_excluding(p.pat, known)
      [] p.k = "or"   -> \E i \in DOMAIN p.alts : pattern_is_catch_all_excluding(p.alts[i], known)
      [] OTHER        -> FALSE

(* An arm counts although its guard may fail.                              *)
Faulty_has_wildcard_or_binding_excluding(arms, known) ==
    \E i \in DOMAIN arms : pattern_is_catch_all_excluding(arms[i].pat, known)
has_wildcard_or_binding_excluding(arms, known) ==
    \E i \in DOMAIN arms : ~arms[i].guarded /\ pattern_is_catch_all_excluding(arms[i].pat, known)
has_wildcard_or_binding(arms) == has_wildcard_or_binding_excluding(arms, {})

RECURSIVE collect_binding_as_type(_, _)
collect_binding_as_type(p, known) ==
    CASE p.k = "bind" -> {p.name} \cap known
      [] p.k = "or"   -> UNION {collect_binding_as_type(p.alts[i], known) : i \in DOMAIN p.alts}
      [] p.k = "at"   -> collect_binding_as_type(p.pat, known)
      [] OTHER        -> {}

extract_variant_name(segs, e) ==
    IF Len(segs) = 2 /\ segs[1] = e THEN {segs[2]}
    ELSE IF Len(segs) = 1 THEN {segs[1]} ELSE {}

(* The alternatives of an or-pattern are forgotten.                        *)
Faulty_collect_covered_variants(p, e) ==
    CASE p.k \in {"path", "struct"} -> extract_variant_name(p.segs, e)
      [] p.k = "short" -> {p.variant}
      [] OTHER         -> {}
RECURSIVE collect_covered_variants(_, _)
collect_covered_variants(p, e) ==
    CASE p.k \in {"path", "struct"} -> extract_variant_name(p.segs, e)
      [] p.k = "short" -> {p.variant}
      [] p.k = "or"    -> UNION {collect_covered_variants(p.alts[i], e) : i \in DOMAIN p.alts}
      [] p.k = "at"    -> collect_covered_variants(p.pat, e)
      [] OTHER         -> {}

RECURSIVE collect_covered_type_names(_)
collect_covered_type_names(p) ==
    CASE p.k \in {"path", "struct"} -> {Last(p.segs)}
      [] p.k = "short" -> {p.variant}
      [] p.k = "or"    -> UNION {collect_covered_type_names(p.alts[i]) : i \in DOMAIN p.alts}
      [] p.k = "at"    -> collect_covered_type_names(p.pat)
      [] OTHER         -> {}

RECURSIVE check_bool_pattern(_)
check_bool_pattern(p) ==
    CASE p.k = "lit" -> {p.is}
      [] p.k = "or"  -> UNION {check_bool_pattern(p.alts[i]) : i \in DOMAIN p.alts}
      [] p.k = "at"  -> check_bool_pattern(p.pat)
      [] OTHER       -> {}

(***************************************************************************)
(* The four kinds of types that are checked.                               *)
(***************************************************************************)
Unguarded(arms) == {i \in DOMAIN arms : ~arms[i].guarded}

check_enum_exhaustive(arms, e) ==
    LET all == VariantNames(e)
    IN  \/ has_wildcard_or_binding_excluding(arms, all)
        \/ all \subseteq UNION {collect_covered_variants(arms[i].pat, e) \cup
                                collect_binding_as_type(arms[i].pat, all) : i \in Unguarded(arms)}

CoversSubtypes(arms, subs) ==
    \/ subs = {}
    \/ has_wildcard_or_binding_excluding(arms, subs)
    \/ subs \subseteq UNION {collect_covered_type_names(arms[i].pat) \cup
                             collect_binding_as_type(arms[i].pat, subs) : i \in Unguarded(arms)}
check_sealed_exhaustive(arms, s) == CoversSubtypes(arms, Sealed[s])
check_sealed_trait_exhaustive(arms, t) == CoversSubtypes(arms, Closed[t])

check_bool_exhaustive(arms) ==
    \/ has_wildcard_or_binding(arms)
    \/ BOOLEAN \subseteq UNION {check_bool_pattern(arms[i].pat) : i \in Unguarded(arms)}

(* The verdict on a match: accepted, rejected, or not judged, which the    *)
(* compiler takes for accepted.                                            *)
check_match(arms, ty) ==
    IF ty \notin EnumNames \cup DOMAIN Sealed \cup DOMAIN Closed \cup {"Bool"} THEN "unjudged"
    ELSE IF \/ ty \in EnumNames /\ check_enum_exhaustive(arms, ty)
            \/ ty \in DOMAIN Sealed /\ check_sealed_exhaustive(arms, ty)
            \/ ty \in DOMAIN Closed /\ check_sealed_trait_exhaustive(arms, ty)
            \/ ty = "Bool" /\ check_bool_exhaustive(arms)
         THEN "accepted" ELSE "rejected"

check_exhaustiveness(f) ==
    IF f.place \notin check_items \/ f.within \notin check_expr THEN "unjudged"
    ELSE check_match(f.arms, infer_scrutinee_type(f.scrutinee, check_block(f.decls)))
=============================================================================
