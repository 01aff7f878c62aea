------------------------------ MODULE Patterns ------------------------------
(***************************************************************************)
(* Types, their values, and patterns: what a `match` is made of, and what  *)
(* a pattern means.  A class of the running program is named by the        *)
(* segments of its name (Shape$Circle is <<"Shape", "Circle">>, a class    *)
(* Dog is <<"Dog">>); a name of the source that resolves to no class is    *)
(* written the same way and has no instances.                              *)
(***************************************************************************)
EXTENDS Naturals, Sequences, FiniteSets, SequencesExt

CONSTANTS Enums,       \* the enums in the order of the definitions: a sequence of
                       \* [name, variants], a variant [name, fields], a field [name, ty]
          Sealed,      \* sealed class -> its direct subclasses
          Open,        \* open class that has subclasses -> its direct subclasses
          Closed       \* sealed trait -> the targets of its impls

EnumNames == {Enums[i].name : i \in DOMAIN Enums}

ASSUME DefinitionsDistinct ==
    /\ \A i, j \in DOMAIN Enums : i # j => Enums[i].name # Enums[j].name
    /\ \A x, y \in {DOMAIN Sealed, DOMAIN Open, DOMAIN Closed, EnumNames} :
            x # y => x \cap y = {}

(* A pattern: k is wild, lit, bind, path, struct, or, at or short.  A      *)
(* field of a struct or short pattern is [name, pat], where pat is         *)
(* Shorthand when the field's name is all there is.                        *)
Shorthand == [k |-> "none"]

EnumDef(n) == Enums[CHOOSE i \in DOMAIN Enums : Enums[i].name = n]
VariantNames(n) == {v.name : v \in ToSet(EnumDef(n).variants)}
Variant(n, v) == CHOOSE w \in ToSet(EnumDef(n).variants) : w.name = v
FieldNames(fields) == [i \in DOMAIN fields |-> fields[i].name]

(* The first enum, in the order of definition, with a variant of a name.   *)
find_enum_for_variant(v) ==
    LET has == {i \in DOMAIN Enums : v \in VariantNames(Enums[i].name)}
    IN  IF has = {} THEN "" ELSE Enums[CHOOSE i \in has : \A j \in has : i <= j].name

(* A variant's fields, an empty sequence if there is no such variant.      *)
resolve_variant_field_types(e, v) ==
    IF e \in EnumNames /\ v \in VariantNames(e) THEN Variant(e, v).fields ELSE <<>>

(***************************************************************************)
(* The hierarchy of classes.  The members of a type are what a match on it *)
(* has to name: the variants of an enum, the direct subclasses of a sealed *)
(* class, the targets of the impls of a sealed trait.  A sealed class is   *)
(* abstract; it may be a member of another one, as may an open class.      *)
(***************************************************************************)
MemberNames(ty) ==
    CASE ty \in EnumNames      -> VariantNames(ty)
      [] ty \in DOMAIN Sealed  -> Sealed[ty]
      [] ty \in DOMAIN Closed  -> Closed[ty]
      [] OTHER                 -> {}

RECURSIVE Below(_)
Below(c) ==
    LET direct == CASE c \in DOMAIN Sealed -> Sealed[c]
                    [] c \in DOMAIN Open   -> Open[c]
                    [] c \in DOMAIN Closed -> Closed[c]
                    [] OTHER               -> {}
    IN  direct \cup UNION {Below(d) : d \in direct}
Hierarchy == UNION {{c} \cup Below(c) : c \in DOMAIN Sealed \cup DOMAIN Open \cup DOMAIN Closed}

ClassExists(cls) ==
    \/ Len(cls) = 2 /\ cls[1] \in EnumNames /\ cls[2] \in VariantNames(cls[1])
    \/ Len(cls) = 1 /\ cls[1] \in EnumNames \cup Hierarchy

(* An object of class cls is an instance of class of.                      *)
InstanceOf(cls, of) ==
    \/ cls = of
    \/ Len(of) = 1 /\ of[1] \in EnumNames /\ cls[1] = of[1]
    \/ Len(of) = 1 /\ cls[1] \in Below(of[1])

(***************************************************************************)
(* Values, of a type that is built from others in finitely many steps.     *)
(***************************************************************************)
RECURSIVE ValuesOf(_), Payloads(_)
Payloads(fields) ==
    IF fields = <<>> THEN {<<>>}
    ELSE {<<v>> \o p : v \in ValuesOf(Head(fields).ty), p \in Payloads(Tail(fields))}
ValuesOf(ty) ==
    CASE ty = "Bool" -> {[cls |-> <<"Bool">>, is |-> b] : b \in BOOLEAN}
      [] ty \in EnumNames ->
            UNION {{[cls |-> <<ty, v.name>>, fields |-> FieldNames(v.fields), of |-> p] :
                        p \in Payloads(v.fields)} : v \in ToSet(EnumDef(ty).variants)}
      [] OTHER -> {[cls |-> <<c>>] : c \in Below(ty) \ DOMAIN Sealed}

HasField(v, f) == "fields" \in DOMAIN v /\ f \in ToSet(v.fields)
Field(v, f) == v.of[CHOOSE i \in DOMAIN v.fields : v.fields[i] = f]

(***************************************************************************)
(* The meaning of a pattern for a value of type ty: a bare name of a       *)
(* variant or of a subtype stands for it, a qualified one for the variant  *)
(* of that enum; the name of a class stands for its subclasses too; fields *)
(* are matched by name, or by position when only a name to bind is given.  *)
(***************************************************************************)
Names(segs, ty, cls) ==
    \/ InstanceOf(cls, segs)
    \/ Len(segs) = 1 /\ ty \in EnumNames /\ segs[1] \in VariantNames(ty) /\ cls = <<ty, segs[1]>>

RECURSIVE Matches(_, _, _), FieldsMatch(_, _)
FieldsMatch(fields, v) ==
    \A i \in DOMAIN fields :
        fields[i].pat = Shorthand \/
        \E j \in DOMAIN v.fields :
            /\ v.fields[j] = fields[i].name
            /\ Matches(fields[i].pat, v.of[j],
                       resolve_variant_field_types(v.cls[1], v.cls[2])[j].ty)
Matches(p, v, ty) ==
    CASE p.k = "wild"   -> TRUE
      [] p.k = "lit"    -> v = [cls |-> <<"Bool">>, is |-> p.is]
      [] p.k = "bind"   -> p.name \in MemberNames(ty) \cup Below(ty) => Names(<<p.name>>, ty, v.cls)
      [] p.k = "path"   -> Names(p.segs, ty, v.cls)
      [] p.k = "struct" -> Names(p.segs, ty, v.cls) /\ FieldsMatch(p.fields, v)
      [] p.k = "short"  -> Names(<<p.variant>>, ty, v.cls) /\ FieldsMatch(p.fields, v)
      [] p.k = "or"     -> \E i \in DOMAIN p.alts : Matches(p.alts[i], v, ty)
      [] p.k = "at"     -> Matches(p.pat, v, ty)
=============================================================================
