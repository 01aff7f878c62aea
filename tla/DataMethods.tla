----------------------------- MODULE DataMethods -----------------------------
(***************************************************************************)
(* JVM types and the members the compiler generates for classes, data      *)
(* classes and enum variants (crates/valen-codegen, descriptor.rs,         *)
(* data_class_methods.rs, and the constructors and getters of lower.rs).   *)
(*                                                                         *)
(* A JVM type is <<letter>> of a primitive or <<"L">> \o name, a name the  *)
(* sequence of its package and itself.  Of generated code the steps are    *)
(* kept that read or write a field or a slot.                              *)
(***************************************************************************)
EXTENDS Naturals, Sequences, SequencesExt

Java(n) == <<"java", "lang", n>>
JObject == Java("Object")
JRecord == Java("Record")
L(name) == <<"L">> \o name
Void == <<"V">>
IsObject(t) == t[1] = "L"

class_internal_name(n, pkg) == Append(pkg, n)

resolve_type_internal_name(n, pkg, imports) ==
    IF n \in DOMAIN imports THEN imports[n]
    ELSE CASE n \in {"Object", "Any"} -> JObject
           [] n = "String" -> Java("String")
           [] OTHER -> class_internal_name(n, pkg)

Letters == [Int |-> "I", Long |-> "J", Float |-> "F", Double |-> "D", Bool |-> "Z",
            Char |-> "C", Byte |-> "B", Short |-> "S", Unit |-> "V", Nothing |-> "V"]
prim_to_jvm(p) == IF p = "String" THEN L(Java("String")) ELSE <<Letters[p]>>

boxed_name(t) ==
    LET names == [I |-> "Integer", J |-> "Long", F |-> "Float", D |-> "Double", Z |-> "Boolean",
                  C |-> "Character", B |-> "Byte", S |-> "Short"]
    IN  IF t[1] \in DOMAIN names THEN Java(names[t[1]]) ELSE <<>>

RefClass(t) ==
    CASE t[1] = "prim" /\ t[2] \in {"Int", "Byte", "Short", "Char"} -> "IntRef"
      [] t[1] = "prim" /\ t[2] \in {"Long", "Float", "Double", "Bool"} -> t[2] \o "Ref"
      [] OTHER -> "Ref"

RECURSIVE tyref_to_jvm(_, _, _)
tyref_to_jvm(t, pkg, imports) ==
    CASE t = <<>> -> Void
      [] t # <<>> /\ t[1] = "prim" -> prim_to_jvm(t[2])
      [] t # <<>> /\ t[1] \in {"named", "generic"} -> L(resolve_type_internal_name(t[2], pkg, imports))
      [] t # <<>> /\ t[1] = "nullable" ->
            LET inner == tyref_to_jvm(t[2], pkg, imports)
            IN  IF boxed_name(inner) # <<>> THEN L(boxed_name(inner)) ELSE inner
      [] t # <<>> /\ t[1] = "refmut" -> L(<<"valen", "core", RefClass(t[2])>>)
      [] OTHER -> L(JObject)

slot_count(t) == IF t[1] \in {"J", "D"} THEN 2 ELSE IF t = Void THEN 0 ELSE 1
Slot(types, i) == FoldLeft(LAMBDA s, t : s + slot_count(t), 1, SubSeq(types, 1, i - 1))

Types(fields) == [i \in DOMAIN fields |-> fields[i].ty]
Method(n, params, ret, flags, code) ==
    [name |-> n, params |-> params, ret |-> ret, flags |-> flags, code |-> code]

(* The constructor calls the superclass's without arguments, then stores   *)
(* every argument into its field.                                          *)
generate_ctor(super, fields) ==
    Method("<init>", Types(fields), Void, {"public"},
           [k |-> "init", super |-> super,
            puts |-> [i \in DOMAIN fields |-> [field |-> fields[i].name, slot |-> Slot(Types(fields), i)]]])
generate_getter(f) == Method(f.name, <<>>, f.ty, {"public"}, [k |-> "get", field |-> f.name])

(* Floating point numbers are compared by the instruction of the JVM.      *)
Faulty_Comparison(t) ==
    CASE t[1] \in {"F", "D"} -> "cmpl"
      [] t[1] = "J" -> "compare"
      [] t[1] \in {"I", "B", "S", "C", "Z"} -> "if_icmpne"
      [] OTHER -> "Objects.equals"

(* How two values of a field are compared, and how one is hashed.          *)
Comparison(t) ==
    CASE t[1] \in {"F", "D", "J"} -> "compare"
      [] t[1] \in {"I", "B", "S", "C", "Z"} -> "if_icmpne"
      [] OTHER -> "Objects.equals"
generate_equals(fields) ==
    Method("equals", <<L(JObject)>>, <<"Z">>, {"public"},
           [k |-> "equals", steps |-> [i \in DOMAIN fields |->
                [field |-> fields[i].name, how |-> Comparison(fields[i].ty)]]])

HashOwner(t) == IF boxed_name(t) # <<>> THEN boxed_name(t) ELSE <<"java", "util", "Objects">>
generate_hash_code(fields) ==
    Method("hashCode", <<>>, <<"I">>, {"public"},
           [k |-> "hash", steps |-> [i \in DOMAIN fields |->
                [field |-> fields[i].name, how |-> HashOwner(fields[i].ty)]]])

sb_append_type(t) ==
    CASE t[1] \in {"I", "B", "S"} -> <<"I">>
      [] t[1] \in {"J", "F", "D", "C", "Z"} -> t
      [] OTHER -> L(JObject)
generate_to_string(fields) ==
    Method("toString", <<>>, L(Java("String")), {"public"},
           [k |-> "string", steps |-> [i \in DOMAIN fields |->
                [field |-> fields[i].name, how |-> sb_append_type(fields[i].ty)]]])

(* The slots of a copy are counted as if all values took one.              *)
Faulty_generate_copy(name, fields) ==
    Method("copy", Types(fields), L(name), {"public"},
           [k |-> "copy", loads |-> [i \in DOMAIN fields |-> i]])

generate_copy(name, fields) ==
    Method("copy", Types(fields), L(name), {"public"},
           [k |-> "copy", loads |-> [i \in DOMAIN fields |-> Slot(Types(fields), i)]])

(***************************************************************************)
(* Their execution.  A value is one of its type, canonical: two values     *)
(* the class of the type tells apart are different.                        *)
(***************************************************************************)
ValuesOfType(t) ==
    CASE t[1] \in {"F", "D"} -> {"0.0", "-0.0", "NaN"}
      [] t[1] = "L" -> {"null", "a", "b"}
      [] OTHER -> {"0", "1"}

(* The arguments of a call, as the slots the JVM puts them into.           *)
Slots(params, args) == [s \in {Slot(params, i) : i \in DOMAIN params} |->
                            args[CHOOSE i \in DOMAIN params : Slot(params, i) = s]]
Read(slots, s) == IF s \in DOMAIN slots THEN slots[s] ELSE "another half"
New(ctor, args) ==
    [f \in {p.field : p \in ToSet(ctor.code.puts)} |->
        Read(Slots(ctor.params, args), (CHOOSE p \in ToSet(ctor.code.puts) : p.field = f).slot)]
CallCopy(copy, ctor, args) ==
    New(ctor, [i \in DOMAIN copy.code.loads |-> Read(Slots(copy.params, args), copy.code.loads[i])])

Same(how, a, b) ==
    IF how = "cmpl" THEN "NaN" \notin {a, b} /\ (a = b \/ {a, b} = {"0.0", "-0.0"}) ELSE a = b
CallEquals(m, a, b) == \A s \in ToSet(m.code.steps) : Same(s.how, a[s.field], b[s.field])
CallHashCode(m, a) == [i \in DOMAIN m.code.steps |-> a[m.code.steps[i].field]]
=============================================================================
