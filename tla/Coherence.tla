----------------------------- MODULE Coherence -----------------------------
(***************************************************************************)
(* The coherence pass (crates/valen-hir, coherence.rs) over the impl       *)
(* blocks the resolver registered (resolve.rs): blanket impls, the orphan  *)
(* rule, conflicting impls, sealed traits, and whether an impl has the     *)
(* methods of its trait.                                                   *)
(*                                                                         *)
(* A program is what the parser hands over: declarations by name and impl  *)
(* blocks in source order.  A type is a head with type arguments that are  *)
(* plain names, or such a plain name made nullable.                        *)
(***************************************************************************)
EXTENDS Naturals, Sequences, FiniteSets

CONSTANTS Name,      \* names of types, traits and type parameters
          Prim,      \* the names of primitive types
          Letter,    \* names of one upper case letter
          Method,    \* names of methods
          SelfName,  \* the name Self
          None,      \* no trait (an inherent impl), no name, no return type
          Programs   \* the programs checked

ASSUME NamesAssumption ==
    /\ Prim \subseteq Name /\ Letter \subseteq Name
    /\ SelfName \in Name \ (Prim \cup Letter) /\ None \notin Name

-----------------------------------------------------------------------------
(* Programs                                                                *)

Type == {t \in [form : {"path", "nullable"}, head : Name, args : Seq(Name)] :
            t.form = "nullable" => t.args = <<>>}

ASSUME NoneAssumption == None \notin Type

\* A name is declared once: by the program, by the prelude or by an import.
Decl == [kind : {"class", "data", "enum", "trait", "sealed trait", "newtype", "typealias"},
         origin : {"local", "prelude"}]
        \cup [kind : {"unknown"}, origin : {"import", "none"}]

Fun == [name : Method, generics : SUBSET Name, params : Seq(Type),
        ret : Type \cup {None}, has_body : BOOLEAN]
Trait == [generics : Seq(Name), methods : Seq(Fun)]
Impl == [generics : SUBSET Name, trait_ref : Type \cup {None}, target : Type,
         stdlib : BOOLEAN, methods : Seq(Fun)]

\* `imports` is what check_coherence is handed: the keys of hir.imports by
\* valenc, nothing by the language server.
Program == [decl : [Name -> Decl], trait : [Name -> Trait],
            impls : Seq(Impl), imports : SUBSET Name]

ASSUME ProgramsAssumption == Programs \subseteq Program

VARIABLES
    program,  \* the program checked
    i,        \* the next impl block
    seen_pairs, \* trait and target of the impls examined so far
    diags     \* diagnostics: code and impl block

vars == <<program, i, seen_pairs, diags>>

-----------------------------------------------------------------------------
(* The resolver's lowering of types                                        *)

LowerName(n, type_params) ==
    [kind |-> IF n \in Prim THEN "Prim"
              ELSE IF n = SelfName THEN "SelfTy"
              ELSE IF n \in type_params THEN "Unresolved" ELSE "Named",
     name |-> n]

\* lower_type_ref_with_params: a head with arguments is looked up neither
\* among the type parameters nor as Self.
Lower(ty, type_params) ==
    LET atom == LowerName(ty.head, type_params)
    IN  IF ty.form = "nullable"
        THEN [kind |-> "Nullable", name |-> None, args |-> <<atom>>]
        ELSE IF atom.kind = "Prim" \/ ty.args = <<>>
        THEN [kind |-> atom.kind, name |-> atom.name, args |-> <<>>]
        ELSE [kind |-> "Generic", name |-> ty.head,
              args |-> [k \in DOMAIN ty.args |-> LowerName(ty.args[k], type_params)]]

NoType == [kind |-> "Error", name |-> None, args |-> <<>>]

LowerOpt(ty, type_params) == IF ty = None THEN NoType ELSE Lower(ty, type_params)

\* lower_fn_with_params, without the receiver, which no comparison looks at.
LowerFun(f, outer_params) ==
    LET all_params == outer_params \cup f.generics
    IN  [name |-> f.name, has_body |-> f.has_body,
         params |-> [k \in DOMAIN f.params |-> Lower(f.params[k], all_params)],
         return_ty |-> LowerOpt(f.ret, all_params)]

TraitRef(imp) == LowerOpt(imp.trait_ref, imp.generics)
Target(imp) == Lower(imp.target, imp.generics)

-----------------------------------------------------------------------------
(* Helpers of the checker                                                  *)

local_defs(p) ==
    {n \in Name : /\ p.decl[n].origin = "local"
                  /\ p.decl[n].kind \in {"class", "data", "enum", "trait", "sealed trait"}}

tyref_name(ty) == IF ty.kind \in {"Named", "Prim", "Generic"} THEN ty.name ELSE None

is_type_param(p, imp) ==
    LET ty == Target(imp)
    IN  /\ ty.kind = "Named"
        /\ \/ ty.name \in imp.generics
           \/ /\ ty.name \in Letter
              /\ p.decl[ty.name].origin \notin {"local", "prelude"}
              /\ ty.name \notin p.imports

\* A definition of the HIR, the prelude's included.
Defined(p, n, kinds) ==
    p.decl[n].origin \in {"local", "prelude"} /\ p.decl[n].kind \in kinds

is_trait(p, n) == Defined(p, n, {"trait", "sealed trait"})
is_sealed_trait(p, n) == Defined(p, n, {"sealed trait"})
is_enum_type(p, n) == Defined(p, n, {"enum"})

\* Faulty: pairs the parameters with the arguments from the other end.
Faulty_Subst(tdef, trait_ref) ==
    [n \in {tdef.generics[k] : k \in DOMAIN trait_ref.args \cap DOMAIN tdef.generics} |->
        LET k == CHOOSE k \in DOMAIN tdef.generics : tdef.generics[k] = n
        IN  trait_ref.args[Len(trait_ref.args) + 1 - k]]

\* The trait's type parameters zipped with the arguments of the impl; of two
\* parameters of one name the first counts.
Subst(tdef, trait_ref) ==
    [n \in {tdef.generics[k] : k \in DOMAIN trait_ref.args \cap DOMAIN tdef.generics} |->
        trait_ref.args[CHOOSE k \in DOMAIN tdef.generics :
            tdef.generics[k] = n /\ \A l \in 1..(k - 1) : tdef.generics[l] # n]]

substitute_atom(a, subst) ==
    IF a.kind \in {"Named", "Unresolved"} /\ a.name \in DOMAIN subst
    THEN subst[a.name] ELSE a

substitute_tyref(ty, subst) ==
    IF ty.kind \in {"Named", "Unresolved", "Generic"} /\ ty.name \in DOMAIN subst
    THEN [kind |-> subst[ty.name].kind, name |-> subst[ty.name].name, args |-> <<>>]
    ELSE [ty EXCEPT !.args = [k \in DOMAIN ty.args |-> substitute_atom(ty.args[k], subst)]]

substitute_fn_def(f, subst) ==
    [f EXCEPT !.params = [k \in DOMAIN f.params |-> substitute_tyref(f.params[k], subst)],
              !.return_ty = substitute_tyref(f.return_ty, subst)]

\* The first method of that name, if any.
find_impl_method(imp, name) ==
    {LowerFun(imp.methods[k], imp.generics) :
        k \in {k \in DOMAIN imp.methods :
                  /\ imp.methods[k].name = name
                  /\ \A l \in 1..(k - 1) : imp.methods[l].name # name}}

\* check_signature_match reports nothing.
SignatureMatches(required, actual) ==
    /\ Len(required.params) = Len(actual.params)
    /\ \A k \in DOMAIN required.params : required.params[k] = actual.params[k]
    /\ required.return_ty = actual.return_ty

\* check_trait_satisfaction: the codes it reports.
check_trait_satisfaction(p, imp) ==
    LET trait_ref == TraitRef(imp)
        tdef == p.trait[trait_ref.name]
        Required == {substitute_fn_def(LowerFun(tdef.methods[k],
                                                {tdef.generics[l] : l \in DOMAIN tdef.generics}),
                                       Subst(tdef, trait_ref)) : k \in DOMAIN tdef.methods}
    IN  IF ~ is_trait(p, trait_ref.name)
        THEN {"UNKNOWN_TRAIT" : n \in {trait_ref.name} \ p.imports}
        ELSE {"MISSING_TRAIT_METHOD" : f \in
                 {f \in Required : ~ f.has_body /\ find_impl_method(imp, f.name) = {}}}
             \cup
             {"TRAIT_METHOD_SIG_MISMATCH" : f \in
                 {f \in Required : \E g \in find_impl_method(imp, f.name) :
                                      ~ SignatureMatches(f, g)}}

-----------------------------------------------------------------------------
(* The pass                                                                *)

\* The resolver registers the impls in source order; the checker starts.
Init ==
    /\ program \in Programs
    /\ i = 1
    /\ seen_pairs = {}
    /\ diags = {}

imp == program.impls[i]
TraitName == tyref_name(TraitRef(imp))
TargetName == tyref_name(Target(imp))

Next_impl == i' = i + 1 /\ UNCHANGED program

Report(codes) == diags' = diags \cup {[code |-> c, impl |-> i] : c \in codes}

Remaining == i <= Len(program.impls)

\* An inherent impl, or a trait or target that is neither a name nor a
\* primitive nor generic: no check at all.
Skip ==
    /\ Remaining
    /\ TraitName = None \/ TargetName = None
    /\ Next_impl
    /\ UNCHANGED <<seen_pairs, diags>>

Blanket ==
    /\ Remaining
    /\ TraitName # None /\ TargetName # None
    /\ is_type_param(program, imp)
    /\ Report({"BLANKET_IMPL_NOT_ALLOWED"})
    /\ Next_impl
    /\ UNCHANGED seen_pairs

OrphanCodes ==
    {"ORPHAN_RULE_VIOLATION" : x \in
        {x \in {i} : TraitName \notin local_defs(program)
                     /\ TargetName \notin local_defs(program)
                     /\ ~ imp.stdlib}}

ConflictCodes ==
    {"IMPL_CONFLICT" : s \in {s \in seen_pairs : s.trait = TraitName /\ s.target = TargetName}}

SealedCodes ==
    {"SEALED_TRAIT_IMPL_BY_ENUM" : x \in
        {x \in {i} : is_sealed_trait(program, TraitName) /\ is_enum_type(program, TargetName)}}

\* Faulty: remembers the impl before only.
Faulty_Examine ==
    /\ Remaining
    /\ TraitName # None /\ TargetName # None
    /\ ~ is_type_param(program, imp)
    /\ Report(OrphanCodes \cup ConflictCodes \cup SealedCodes
                  \cup check_trait_satisfaction(program, imp))
    /\ seen_pairs' = {[trait |-> TraitName, target |-> TargetName, impl |-> i]}
    /\ Next_impl

Examine ==
    /\ Remaining
    /\ TraitName # None /\ TargetName # None
    /\ ~ is_type_param(program, imp)
    /\ Report(OrphanCodes \cup ConflictCodes \cup SealedCodes
                  \cup check_trait_satisfaction(program, imp))
    /\ seen_pairs' = seen_pairs \cup {[trait |-> TraitName, target |-> TargetName, impl |-> i]}
    /\ Next_impl

Next == Skip \/ Blanket \/ Examine

Spec == Init /\ [][Next]_vars

\* The resolver's index of the impls by trait and target, from which the later
\* passes find methods and the implementors of a sealed trait.
build_method_index(p) ==
    {[trait |-> tyref_name(TraitRef(m)), target |-> Target(m).name] :
        m \in {m \in {p.impls[k] : k \in DOMAIN p.impls} :
                  /\ TraitRef(m).kind \in {"Named", "Generic"}
                  /\ Target(m).kind \in {"Named", "Prim"}}}

-----------------------------------------------------------------------------
(* What a program means: the rules of docs/lang/07-traits.md, stated on    *)
(* the program as written.                                                 *)

Origin(n) == program.decl[n].origin
Block(k) == program.impls[k]
TraitOf(k) == Block(k).trait_ref.head
TypeOf(k) == Block(k).target.head

\* A type parameter of the impl, written without arguments.
IsParam(k, ty) == ty.args = <<>> /\ ty.head \in Block(k).generics \ Prim

\* An impl of a trait for a type, both written as names, with or without
\* arguments, neither being Self.  Not a type parameter of the impl, which is
\* BlanketImplRejected's case, and not a typealias or a newtype: the pass
\* neither expands the one nor counts the other as owned.
Plain(k) ==
    /\ Block(k).trait_ref # None
    /\ Block(k).trait_ref.form = "path" /\ Block(k).target.form = "path"
    /\ ~ IsParam(k, Block(k).trait_ref) /\ ~ IsParam(k, Block(k).target)
    /\ SelfName \notin {TraitOf(k), TypeOf(k)}
    /\ program.decl[TypeOf(k)].kind \notin {"typealias", "newtype"}
    /\ program.decl[TraitOf(k)].kind \notin {"typealias", "newtype"}

\* A letter that names no type stands for every type.
StandsForAll(k) == TypeOf(k) \in Letter \ Prim /\ Origin(TypeOf(k)) = "none"
                   /\ Block(k).target.args = <<>>

Owned(k) == "local" \in {Origin(TraitOf(k)), Origin(TypeOf(k))}

SamePair(k, l) == TraitOf(k) = TraitOf(l) /\ TypeOf(k) = TypeOf(l)

\* What a name means inside a function: one of its own type parameters, one
\* of the enclosing declaration, or the same type everywhere.
Mean(n, own, outer, tag) ==
    CASE n \in Prim -> <<"type", n>>
      [] n \notin Prim /\ n \in own -> <<"own", n>>
      [] n \notin Prim /\ n \notin own /\ n \in outer -> <<tag, n>>
      [] OTHER -> <<"type", n>>

MeanInImpl(k, f, n) == Mean(n, f.generics, Block(k).generics, "impl")

\* In the trait, a type parameter means the argument the impl gives for it.
MeanInTrait(k, f, n) ==
    LET tr == program.trait[TraitOf(k)]
        at == {l \in DOMAIN tr.generics : tr.generics[l] = n}
    IN  IF n \in f.generics \cup Prim \/ at = {}
        THEN Mean(n, f.generics, {}, "trait")
        ELSE LET l == CHOOSE l \in at : \A m \in at : l <= m
             IN  IF l \in DOMAIN Block(k).trait_ref.args
                 THEN Mean(Block(k).trait_ref.args[l], {}, Block(k).generics, "impl")
                 ELSE <<"trait", n>>

SameType(a, b, MeanA(_), MeanB(_)) ==
    IF None \in {a, b} THEN a = b
    ELSE /\ a.form = b.form
         /\ MeanA(a.head) = MeanB(b.head)
         /\ Len(a.args) = Len(b.args)
         /\ \A l \in DOMAIN a.args : MeanA(a.args[l]) = MeanB(b.args[l])

\* Method g of the impl has the signature of method f of the trait.
SameSignature(k, f, g) ==
    LET A(n) == MeanInTrait(k, f, n)
        B(n) == MeanInImpl(k, g, n)
    IN  /\ Len(f.params) = Len(g.params)
        /\ \A l \in DOMAIN f.params : SameType(f.params[l], g.params[l], A, B)
        /\ SameType(f.ret, g.ret, A, B)

MethodsOf(k) == {Block(k).methods[l] : l \in DOMAIN Block(k).methods}
TraitMethods(k) == LET m == program.trait[TraitOf(k)].methods IN {m[l] : l \in DOMAIN m}

HasTrait(k) == Origin(TraitOf(k)) \in {"local", "prelude"}
               /\ program.decl[TraitOf(k)].kind \in {"trait", "sealed trait"}

ImplCodes == {"BLANKET_IMPL_NOT_ALLOWED", "ORPHAN_RULE_VIOLATION", "IMPL_CONFLICT",
              "SEALED_TRAIT_IMPL_BY_ENUM", "UNKNOWN_TRAIT"}
MethodCodes == {"MISSING_TRAIT_METHOD", "TRAIT_METHOD_SIG_MISMATCH"}

\* Rule by rule, what is wrong with an impl.  The other rules say nothing of
\* an impl for every type.
BreaksImplRule(code, k) ==
    \/ code = "BLANKET_IMPL_NOT_ALLOWED" /\ StandsForAll(k)
    \/ /\ ~ StandsForAll(k)
       /\ \/ code = "ORPHAN_RULE_VIOLATION" /\ ~ Owned(k) /\ ~ Block(k).stdlib
          \/ /\ code = "IMPL_CONFLICT"
             /\ \E l \in 1..(k - 1) : Plain(l) /\ ~ StandsForAll(l) /\ SamePair(k, l)
          \/ /\ code = "SEALED_TRAIT_IMPL_BY_ENUM"
             /\ program.decl[TraitOf(k)].kind = "sealed trait"
             /\ program.decl[TypeOf(k)].kind = "enum"
          \/ /\ code = "UNKNOWN_TRAIT"
             /\ ~ HasTrait(k) /\ Origin(TraitOf(k)) \notin {"import", "prelude"}

BreaksMethodRule(code, k) ==
    /\ ~ StandsForAll(k) /\ HasTrait(k)
    /\ \E f \in TraitMethods(k) :
          \/ /\ code = "MISSING_TRAIT_METHOD"
             /\ ~ f.has_body /\ \A g \in MethodsOf(k) : g.name # f.name
          \/ /\ code = "TRAIT_METHOD_SIG_MISMATCH"
             /\ \E g \in MethodsOf(k) : f.name = g.name /\ ~ SameSignature(k, f, g)

DistinctMethods(k) ==
    \A l, m \in DOMAIN Block(k).methods :
        Block(k).methods[l].name = Block(k).methods[m].name => l = m

TraitParams(k) ==
    LET g == program.trait[TraitOf(k)].generics IN {g[l] : l \in DOMAIN g}

\* In the signature of f only a declared type has arguments, neither a
\* primitive type nor a type parameter.
ProperTypes(f, outer) ==
    \A ty \in {f.params[l] : l \in DOMAIN f.params} \cup ({f.ret} \ {None}) :
        ty.args # <<>> => ty.head \notin Prim \cup f.generics \cup outer

\* The checker compares type parameters by name: that is right as long as none
\* is called Self, which is no keyword, no function has one of its own with the
\* name of one of the trait or the impl, and the impl gives an argument for
\* each of the trait's, or shares no name with it.  It loses the arguments of
\* primitive types, of type parameters and of a trait called as a primitive.
Hygienic(k) ==
    HasTrait(k) =>
        /\ TraitOf(k) \notin Prim
        /\ \A f \in TraitMethods(k) \cup MethodsOf(k) :
              /\ f.generics \cap (TraitParams(k) \cup Block(k).generics) = {}
              /\ SelfName \notin f.generics \cup TraitParams(k) \cup Block(k).generics
        /\ \/ DOMAIN program.trait[TraitOf(k)].generics \subseteq DOMAIN Block(k).trait_ref.args
           \/ TraitParams(k) \cap Block(k).generics = {}
        /\ \A f \in TraitMethods(k) : ProperTypes(f, TraitParams(k))
        /\ \A f \in MethodsOf(k) : ProperTypes(f, Block(k).generics)

Checked == 1..(i - 1)
Reported(k) == {d.code : d \in {d \in diags : d.impl = k}}

-----------------------------------------------------------------------------
(* Properties                                                              *)

\* Every variable has its type; a conflict is reported only for an impl that
\* was examined.
TypeOK ==
    /\ program \in Program
    /\ i \in 1..(Len(program.impls) + 1)
    /\ diags \subseteq [code : ImplCodes \cup MethodCodes, impl : Checked]
    /\ \A s \in seen_pairs : s.impl \in Checked

\* Of the rules about impls the pass reports those an impl breaks, no fewer
\* and no more, whatever was examined or skipped before: it is owned, is no
\* blanket impl, is the first for its trait and type, no enum implements a
\* sealed trait, and its trait is a trait or a name of an import or of the
\* prelude, which counts as imported (CoherenceChecker::run).
ImplRulesExact ==
    \A k \in Checked : Plain(k) =>
        \A c \in ImplCodes : c \in Reported(k) <=> BreaksImplRule(c, k)

\* The pass reports a missing or a mismatching method exactly when the impl
\* lacks a method of its trait or has it with a signature that, with the
\* arguments of the impl for the trait's type parameters, means something
\* else (check_trait_satisfaction).
MethodRulesExact ==
    \A k \in Checked : Plain(k) /\ DistinctMethods(k) /\ Hygienic(k) =>
        \A c \in MethodCodes : c \in Reported(k) <=> BreaksMethodRule(c, k)

\* A blanket impl `impl<T> Tr for T` is an error
\* (docs/requirements/REQ-TRAIT.md:103).  The lowering makes the target
\* Unresolved, which has no name, and the pass skips the impl.
BlanketImplRejected ==
    \A k \in Checked :
        Block(k).trait_ref # None /\ Block(k).target.form = "path"
          /\ Block(k).target.args = <<>> /\ TypeOf(k) \in Block(k).generics \ Prim
        => Reported(k) # {}

\* An impl that is accepted is in the index: its methods can be called on
\* values of the type (docs/lang/07-traits.md:24).
AcceptedIsIndexed ==
    \A k \in Checked :
        Plain(k) /\ Reported(k) = {} =>
            [trait |-> TraitOf(k), target |-> TypeOf(k)] \in build_method_index(program)
=============================================================================
