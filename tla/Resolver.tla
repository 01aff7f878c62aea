------------------------------ MODULE Resolver ------------------------------
(***************************************************************************)
(* Name resolution (crates/valen-hir, resolve.rs): the items of all files  *)
(* of a program, one after the other, become definitions; methods are      *)
(* indexed by the type they belong to; the class hierarchy is validated.   *)
(*                                                                         *)
(* A type reference is <<"prim", p>>, <<"named", n>>, <<"generic", n>>,    *)
(* <<"nullable", t>>, <<"refmut", t>> or <<"fn">>.  A definition is known  *)
(* by its place in the sequence of all definitions; the methods of a class *)
(* come before the class.  The prelude is left out.                        *)
(***************************************************************************)
EXTENDS Naturals, Sequences, SequencesExt, FiniteSets, FiniteSetsExt, TLC

CONSTANTS Programs     \* the sequences of items that are compiled

VARIABLES
    items,             \* the items not yet registered
    imports,           \* imported name -> path
    package,           \* the package of the items that follow
    defs,              \* the definitions
    scope,             \* name -> the definition it names
    type_methods,      \* type name -> its methods, of its class body and of inherent impls
    trait_impls,       \* the impls of traits: [trait, target, methods]
    diags,             \* what was reported
    phase
resolver == <<items, imports, package, defs, scope, type_methods, trait_impls, diags, phase>>

NoType == <<>>         \* an absent trait, superclass or result

Report(what, id) == {[what |-> what, at |-> id]}

ImportsOf(its) ==
    FoldLeft(LAMBDA f, i : IF i.k = "import" THEN i.name :> i.path @@ f ELSE f, <<>>, its)

Init ==
    /\ items \in Programs
    /\ imports = ImportsOf(items)
    /\ package = <<>> /\ defs = <<>> /\ scope = <<>>
    /\ type_methods = <<>> /\ trait_impls = <<>>
    /\ diags = {} /\ phase = "registering"

(* The methods of a trait or an impl are public, those of a class as       *)
(* written.                                                                *)
MethodDefs(i) ==
    IF i.k \notin {"class", "trait", "impl"} THEN <<>>
    ELSE [m \in DOMAIN i.methods |->
            [i.methods[m] EXCEPT !.pkg = package,
                                 !.vis = IF i.k = "class" THEN @ ELSE "pub"]]

(* The first supertype of a class is its superclass, whatever it names.    *)
OwnDef(i) ==
    LET ids == [m \in DOMAIN MethodDefs(i) |-> Len(defs) + m]
        placed == [i EXCEPT !.pkg = package]
    IN  IF MethodDefs(i) = <<>> /\ i.k \notin {"class", "trait", "impl"} THEN placed
        ELSE [placed EXCEPT !.methods = ids]
superclass(c) == IF c.supers = <<>> THEN NoType ELSE c.supers[1]
header_traits(c) == IF c.supers = <<>> THEN <<>> ELSE Tail(c.supers)

(* A name that is taken is reported; from then on it names the later one.  *)
define_name(n, id) ==
    /\ diags' = diags \cup IF n \in DOMAIN scope THEN Report("duplicate", id) ELSE {}
    /\ scope' = n :> id @@ scope

register_item ==
    /\ phase = "registering" /\ items # <<>>
    /\ LET i == Head(items)
       IN  IF i.k \in {"package", "import"}
           THEN /\ package' = IF i.k = "package" THEN i.path ELSE package
                /\ UNCHANGED <<defs, scope, diags>>
           ELSE /\ defs' = Append(defs \o MethodDefs(i), OwnDef(i))
                /\ IF i.k = "impl" THEN UNCHANGED <<scope, diags>>
                   ELSE define_name(i.name, Len(defs'))
                /\ UNCHANGED package
    /\ items' = Tail(items)
    /\ UNCHANGED <<imports, type_methods, trait_impls, phase>>

(* An impl for anything but a plain name or a primitive is not indexed.    *)
AddMethods(index, n, ids) ==
    n :> (IF n \in DOMAIN index THEN index[n] ELSE <<>>) \o ids @@ index
Indexed(d) == d.k = "impl" /\ d.target[1] \in {"named", "prim"}
build_method_index ==
    /\ phase = "registering" /\ items = <<>>
    /\ type_methods' = FoldLeft(LAMBDA f, d :
            CASE d.k = "class" -> AddMethods(f, d.name, d.methods)
              [] Indexed(d) /\ d.trait = NoType -> AddMethods(f, d.target[2], d.methods)
              [] OTHER -> f, <<>>, defs)
    /\ trait_impls' = FoldLeft(LAMBDA s, d :
            IF Indexed(d) /\ d.trait # NoType
            THEN Append(s, [trait |-> d.trait[2], target |-> d.target[2], methods |-> d.methods])
            ELSE s, <<>>, defs)
    /\ phase' = "validating"
    /\ UNCHANGED <<items, imports, package, defs, scope, diags>>

(***************************************************************************)
(* The class hierarchy.                                                    *)
(***************************************************************************)
Classes == {d \in DOMAIN defs : defs[d].k = "class"}

(* A superclass may be written as any type; a name it has, with arguments  *)
(* or without, is all that is looked at.                                   *)
HasName(t) == t # NoType /\ t[1] \in {"named", "generic"}

(* The class of a name, provided the first definition of the name is one.  *)
ClassNamed(t) ==
    LET named == {d \in DOMAIN defs : HasName(t) /\ defs[d].name = t[2]}
    IN  IF named = {} THEN {} ELSE {Min(named)} \cap Classes

MethodShape(c, m) ==
       (IF defs[m].abstract /\ defs[m].body THEN Report("abstract with a body", m) ELSE {})
    \cup (IF ~defs[m].abstract /\ ~defs[m].body THEN Report("no body", m) ELSE {})
    \cup (IF defs[m].abstract /\ defs[c].kind = "final" THEN Report("abstract in final", m) ELSE {})

(* A method is compared, by its name, with the methods in the body of the  *)
(* superclass; neither further ancestors nor impls are looked at.          *)
Overrides(m, supers) ==
    LET parents == UNION {{defs[s].methods[i] : i \in DOMAIN defs[s].methods} : s \in supers}
        same == {p \in parents : defs[p].name = defs[m].name}
        parent == defs[Min(same)]
    IN  IF same = {} THEN IF defs[m].override THEN Report("overrides nothing", m) ELSE {}
        ELSE   (IF defs[m].override /\ ~parent.open /\ ~parent.abstract
                THEN Report("not open", m) ELSE {})
          \cup (IF ~defs[m].override THEN Report("override missing", m) ELSE {})

Inheritance(c) ==
    LET supers == ClassNamed(superclass(defs[c]))
    IN  IF ~HasName(superclass(defs[c])) THEN {}
        ELSE (IF \E s \in supers : defs[s].kind = "final" THEN Report("inherits final", c) ELSE {})
             \cup UNION {Overrides(m, supers) : m \in ToSet(defs[c].methods)}

validate_class_hierarchy ==
    /\ phase = "validating"
    /\ diags' = diags \cup UNION {UNION {MethodShape(c, m) : m \in ToSet(defs[c].methods)}
                                    \cup Inheritance(c) : c \in Classes}
    /\ phase' = IF diags' = {} THEN "resolved" ELSE "rejected"
    /\ UNCHANGED <<items, imports, package, defs, scope, type_methods, trait_impls>>

Resolve == register_item \/ build_method_index \/ validate_class_hierarchy
=============================================================================
