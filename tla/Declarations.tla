---------------------------- MODULE Declarations ----------------------------
(***************************************************************************)
(* The lowering of definitions to classes (crates/valen-codegen, lower.rs) *)
(* with the state of the Resolver that it reads.                           *)
(*                                                                         *)
(* A class is [name, super, interfaces, fields, methods, permits, access,  *)
(* synthetic, bootstrap]; a method of the source is marked by the          *)
(* definition it comes from.                                               *)
(***************************************************************************)
EXTENDS Resolver, LambdaCode, DataMethods

Type(t, d) == tyref_to_jvm(t, d.pkg, imports)
Internal(d) == class_internal_name(d.name, d.pkg)
Public(d) == IF d.vis = "pub" THEN {"public"} ELSE {}
Fn(id) == defs[id]

is_sealed_trait_def(n) == \E d \in ToSet(defs) : d.k = "trait" /\ d.name = n /\ d.sealed

(* A class without members of its own.                                     *)
Class(name, access) ==
    [name |-> name, super |-> JObject, interfaces |-> <<>>, fields |-> <<>>, methods |-> <<>>,
     permits |-> {}, access |-> access, synthetic |-> <<>>, bootstrap |-> <<>>]

(* A method is static if it has no self, abstract if it has no body.  Its  *)
(* types are resolved in the package of the class it is put into.          *)
lower_method(id, pkg) ==
    LET f == Fn(id)
        ty(t) == tyref_to_jvm(t, pkg, imports)
    IN  Method(f.name, [i \in DOMAIN f.params |-> ty(f.params[i])], ty(f.ret),
               (CASE f.vis = "pub" -> {"public"} [] f.vis = "private" -> {"private"} [] OTHER -> {})
                   \cup (IF f.self THEN {} ELSE {"static"}) \cup (IF f.body THEN {} ELSE {"abstract"}),
               [k |-> "user", fn |-> id, ops |-> lower_body(f.lambdas).ops])

(* The methods of a class with their lambdas and bootstrap methods, as     *)
(* they come.                                                              *)
AddSourceMethods(c, ids, pkg) ==
    [c EXCEPT !.methods = @ \o [i \in DOMAIN ids |-> lower_method(ids[i], pkg)],
              !.synthetic = @ \o FlattenSeq([i \in DOMAIN ids |-> lower_body(Fn(ids[i]).lambdas).synthetic]),
              !.bootstrap = @ \o FlattenSeq([i \in DOMAIN ids |-> lower_body(Fn(ids[i]).lambdas).bootstrap])]

ImplsFor(n) == SelectSeq(trait_impls, LAMBDA e : e.target = n)
ImplMethods(n) == FlattenSeq([i \in DOMAIN ImplsFor(n) |-> ImplsFor(n)[i].methods])
Inherent(n) == IF n \in DOMAIN type_methods THEN type_methods[n] ELSE <<>>
NewNames(ids, c) == SelectSeq(ids, LAMBDA m : \A old \in ToSet(c.methods) : old.name # Fn(m).name)

AddOnce(s, x) == IF x \in ToSet(s) THEN s ELSE Append(s, x)

lower_field(p, d) ==
    [name |-> p.name, ty |-> Type(p.ty, d),
     flags |-> (IF p.pub THEN {"public"} ELSE {"private"}) \cup (IF p.mut THEN {} ELSE {"final"})]

collect_permitted_subclasses(d) ==
    {class_internal_name(s.name, d.pkg) :
        s \in {c \in ToSet(defs) : c.k = "class" /\ HasName(superclass(c)) /\ superclass(c)[2] = d.name}}

class_access(d) ==
    Public(d) \cup (IF d.kind = "final" THEN {"final"} ELSE {})
              \cup (IF d.kind \in {"abstract", "sealed"} THEN {"abstract"} ELSE {})

(* The traits of impls are forgotten.                                      *)
Faulty_SealedInterfaces(d, had) == had

(* The interfaces of a class: those of its header after the first, then    *)
(* the sealed traits that are implemented for it.                          *)
SealedInterfaces(d, had) ==
    FoldLeft(LAMBDA s, e : IF is_sealed_trait_def(e.trait)
                           THEN AddOnce(s, class_internal_name(e.trait, d.pkg)) ELSE s,
             had, ImplsFor(d.name))

ObjectName(t) == Tail(t)
HeaderInterfaces(d) ==
    LET tys == [i \in DOMAIN header_traits(d) |-> Type(header_traits(d)[i], d)]
        objects == SelectSeq(tys, IsObject)
    IN  [i \in DOMAIN objects |-> ObjectName(objects[i])]

lower_class(d) ==
    LET fields == [i \in DOMAIN d.params |-> lower_field(d.params[i], d)]
        super == IF superclass(d) = NoType \/ ~IsObject(Type(superclass(d), d)) THEN JObject
                 ELSE ObjectName(Type(superclass(d), d))
        ids == d.methods \o ImplMethods(d.name)
                 \o SelectSeq(Inherent(d.name), LAMBDA m : m \notin ToSet(d.methods))
        base == [Class(Internal(d), class_access(d)) EXCEPT
                    !.super = super, !.fields = fields,
                    !.methods = <<generate_ctor(super, fields)>>,
                    !.interfaces = SealedInterfaces(d, HeaderInterfaces(d)),
                    !.permits = collect_permitted_subclasses(d)]
    IN  AddSourceMethods(base, ids, d.pkg)

lower_sealed_trait(d) ==
    [Class(Internal(d), Public(d) \cup {"abstract", "interface"}) EXCEPT
        !.permits = {class_internal_name(e.target, d.pkg) :
                        e \in {i \in ToSet(trait_impls) : i.trait = d.name}}]

lower_annotation_class(d) ==
    [Class(Internal(d), Public(d) \cup {"abstract", "interface", "annotation"}) EXCEPT
        !.interfaces = <<<<"java", "lang", "annotation", "Annotation">>>>,
        !.methods = [i \in DOMAIN d.params |->
            Method(d.params[i].name, <<>>, tyref_to_jvm(d.params[i].ty, d.pkg, <<>>),
                   {"public", "abstract"}, [k |-> "none"])]]

lower_newtype(d) ==
    LET value == [name |-> "value", ty |-> Type(d.inner, d), flags |-> {"private", "final"}]
    IN  [Class(Internal(d), Public(d) \cup {"final"}) EXCEPT
            !.fields = <<value>>,
            !.methods = <<generate_ctor(JObject, <<value>>), generate_getter(value)>>]

(* Interfaces of data classes and enums: imported traits, of which a data  *)
(* class may list one twice, and sealed ones.                              *)
ImplInterfaces(d) ==
    FoldLeft(LAMBDA s, e :
        CASE e.trait \in DOMAIN imports ->
                IF d.k = "data" THEN Append(s, imports[e.trait]) ELSE AddOnce(s, imports[e.trait])
          [] e.trait \notin DOMAIN imports /\ is_sealed_trait_def(e.trait) ->
                AddOnce(s, class_internal_name(e.trait, d.pkg))
          [] OTHER -> s, <<>>, ImplsFor(d.name))

(* A data class before the methods of its impls.                           *)
DataMembers(d) ==
    LET fields == [i \in DOMAIN d.params |-> lower_field(d.params[i], d)]
        base == [Class(Internal(d), Public(d) \cup {"final"}) EXCEPT
                    !.fields = fields,
                    !.interfaces = ImplInterfaces(d),
                    !.methods = <<generate_ctor(JObject, fields), generate_equals(fields),
                                  generate_hash_code(fields), generate_to_string(fields),
                                  generate_copy(Internal(d), fields)>>]
    IN  AddSourceMethods(base, ImplMethods(d.name), d.pkg)

(* Methods of inherent impls are added whatever their names are.           *)
Faulty_lower_data_class(d) == AddSourceMethods(DataMembers(d), Inherent(d.name), d.pkg)

(* They are left out when their name is taken.                             *)
lower_data_class(d) ==
    AddSourceMethods(DataMembers(d), NewNames(Inherent(d.name), DataMembers(d)), d.pkg)

VariantName(d, v) == Internal(d) \o <<"$", v.name>>

Derived(derive, name, fields) ==
    CASE derive = "Eq" -> <<generate_equals(fields)>>
      [] derive = "Hash" -> <<generate_hash_code(fields)>>
      [] derive = "Display" -> <<generate_to_string(fields)>>
      [] derive = "Clone" -> <<generate_copy(name, fields)>>
      [] OTHER -> <<>>

lower_record_variant(d, v) ==
    LET fields == [i \in DOMAIN v.fields |-> [name |-> v.fields[i].name, ty |-> Type(v.fields[i].ty, d),
                                              flags |-> {"private", "final"}]]
    IN  [Class(VariantName(d, v), {"public", "final"}) EXCEPT
            !.super = JRecord, !.interfaces = <<Internal(d)>>, !.fields = fields,
            !.methods = <<generate_ctor(JRecord, fields)>>
                \o [i \in DOMAIN fields |-> generate_getter(fields[i])]
                \o FlattenSeq([i \in DOMAIN d.derives |-> Derived(d.derives[i], VariantName(d, v), fields)])]

lower_unit_variant(d, v) ==
    [Class(VariantName(d, v), {"public", "final"}) EXCEPT
        !.interfaces = <<Internal(d)>>,
        !.fields = <<[name |-> "INSTANCE", ty |-> L(VariantName(d, v)), flags |-> {"public", "static", "final"}]>>,
        !.methods = <<Method("<init>", <<>>, Void, {"private"}, [k |-> "init", super |-> JObject, puts |-> <<>>]),
                      Method("<clinit>", <<>>, Void, {"static"}, [k |-> "none"])>>]

lower_enum(d) ==
    LET base == [Class(Internal(d), Public(d) \cup {"abstract", "interface"}) EXCEPT
                    !.interfaces = ImplInterfaces(d),
                    !.permits = {VariantName(d, v) : v \in ToSet(d.variants)}]
        implemented == AddSourceMethods(base, ImplMethods(d.name), d.pkg)
    IN  <<AddSourceMethods(implemented, NewNames(Inherent(d.name), implemented), d.pkg)>>
        \o [i \in DOMAIN d.variants |->
                IF d.variants[i].fields = <<>> THEN lower_unit_variant(d, d.variants[i])
                ELSE lower_record_variant(d, d.variants[i])]

(* The classes of one definition, none for those that have no class.       *)
ClassesOf(d) ==
    CASE d.k = "class" -> <<lower_class(d)>>
      [] d.k = "data" -> <<lower_data_class(d)>>
      [] d.k = "enum" -> lower_enum(d)
      [] d.k = "trait" /\ d.sealed -> <<lower_sealed_trait(d)>>
      [] d.k = "newtype" -> <<lower_newtype(d)>>
      [] d.k = "annotation" -> <<lower_annotation_class(d)>>
      [] OTHER -> <<>>

(* The impls of traits are forgotten.                                      *)
Faulty_IsMethod(id) ==
    \/ \E n \in DOMAIN type_methods : id \in ToSet(type_methods[n])
    \/ \E d \in ToSet(defs) : d.k \in {"trait", "class"} /\ id \in ToSet(d.methods)

(* A function that belongs to a type.                                      *)
IsMethod(id) ==
    \/ \E n \in DOMAIN type_methods : id \in ToSet(type_methods[n])
    \/ \E e \in ToSet(trait_impls) : id \in ToSet(e.methods)
    \/ \E d \in ToSet(defs) : d.k \in {"trait", "class"} /\ id \in ToSet(d.methods)

(* The functions of all packages become methods of the class Main of the   *)
(* last one; `main` without parameters gets an entry point beside it.      *)
lower_top_level_functions(ids) ==
    LET base == Class(class_internal_name("Main", package), {"public", "final"})
        all == AddSourceMethods(base, ids, package)
        static == [i \in DOMAIN all.methods |->
                      [all.methods[i] EXCEPT !.flags = {"public", "static"}]]
        entry == Method("main", <<<<"[">> \o L(Java("String"))>>, Void, {"public", "static"}, [k |-> "none"])
    IN  [all EXCEPT !.methods = static \o
            IF \E i \in DOMAIN static : static[i].name = "main" /\ static[i].params = <<>> /\ static[i].ret = Void
            THEN <<entry>> ELSE <<>>]

(***************************************************************************)
(* Classes every program is given.                                         *)
(***************************************************************************)
Core(n) == <<"valen", "core", n>>
Helper(name, field) ==
    [Class(name, {"public", "final"}) EXCEPT
        !.fields = <<field>>, !.methods = <<generate_ctor(JObject, <<field>>)>>]
Value(t) == [name |-> "value", ty |-> t, flags |-> {"public"}]

generate_ref_wrapper_classes ==
    <<Helper(Core("IntRef"), Value(<<"I">>)), Helper(Core("LongRef"), Value(<<"J">>)),
      Helper(Core("FloatRef"), Value(<<"F">>)), Helper(Core("DoubleRef"), Value(<<"D">>)),
      Helper(Core("BoolRef"), Value(<<"Z">>)), Helper(Core("Ref"), Value(L(JObject)))>>

generate_list_iterator_class ==
    LET list == [name |-> "list", ty |-> L(<<"java", "util", "List">>), flags |-> {"private", "final"}]
        index == [name |-> "index", ty |-> <<"I">>, flags |-> {"private"}]
    IN  [Class(Core("ListIterator"), {"public", "final"}) EXCEPT
            !.interfaces = <<Core("Iterator")>>,
            !.fields = <<list, index>>,
            !.methods = <<generate_ctor(JObject, <<list>>),
                          Method("next", <<>>, L(Core("Option")), {"public"}, [k |-> "none"])>>]

(* The arities of generated function interfaces that some call site makes. *)
collect_function_n_arities(cs) ==
    LET ops(c) == UNION ({ToSet(m.code.ops) : m \in {x \in ToSet(c.methods) : x.code.k = "user"}}
                         \cup {ToSet(m.ops) : m \in ToSet(c.synthetic)})
        made == UNION {{o.iface : o \in {p \in ops(c) : p.op = "indy"}} : c \in ToSet(cs)}
    IN  {n \in 3..MaxArity : lambda_functional_interface(n) \in made}

generate_function_n_interface(n) ==
    [Class(lambda_functional_interface(n), {"public", "abstract", "interface"}) EXCEPT
        !.methods = <<Method("apply", [i \in 1..n |-> L(JObject)], L(JObject), {"public", "abstract"},
                             [k |-> "none"])>>]
=============================================================================
