----------------------------- MODULE ClassFiles -----------------------------
(***************************************************************************)
(* From the items of a program to its class files: resolution, lowering    *)
(* of one definition after the other, the helper classes, and the writing  *)
(* of every class to the file of its name (valenc).  What the files have   *)
(* to satisfy is what the JVM asks of them when it links them, and what    *)
(* the rest of the compiler takes for granted about them.                  *)
(***************************************************************************)
EXTENDS Declarations

CONSTANT Platform      \* the classes that are there already: name -> access

VARIABLES
    next,              \* the definition to be lowered next, then the class to be written
    top_level_fns,     \* the functions that are no methods
    classes,           \* the classes made so far
    files              \* class name -> what was last written to its file
generator == <<next, top_level_fns, classes, files>>
vars == <<resolver, generator>>

CFInit == Init /\ next = 1 /\ top_level_fns = <<>> /\ classes = <<>> /\ files = <<>>

Resolving == Resolve /\ UNCHANGED generator

(***************************************************************************)
(* The passes between resolution and lowering that judge declarations:     *)
(* coherence, for the traits and targets that have names (Coherence.tla    *)
(* has the pass itself), and the search for the entry point.               *)
(***************************************************************************)
Reject(reports, then) ==
    /\ diags' = diags \cup reports
    /\ phase' = IF reports = {} THEN then ELSE "rejected"
    /\ UNCHANGED <<items, imports, package, defs, scope, type_methods, trait_impls, generator>>

TraitImpls == {d \in DOMAIN defs : defs[d].k = "impl" /\ defs[d].trait # NoType}
local_defs == {defs[d].name : d \in {e \in DOMAIN defs : defs[e].k \in {"class", "data", "enum", "trait"}}}

check_trait_satisfaction(impl, trait) ==
    LET given(r) == {m \in ToSet(defs[impl].methods) : defs[m].name = defs[r].name}
        first(r) == defs[Min(given(r))]
    IN  UNION {CASE given(r) = {} /\ ~defs[r].body -> Report("missing method", impl)
                 [] given(r) # {} /\ <<first(r).params, first(r).ret>> # <<defs[r].params, defs[r].ret>> ->
                        Report("signature", impl)
                 [] OTHER -> {} : r \in ToSet(defs[trait].methods)}

ImplReports(d) ==
    LET names(i) == <<defs[i].trait[2], defs[i].target[2]>>
        traits == {t \in DOMAIN defs : defs[t].k = "trait" /\ defs[t].name = names(d)[1]}
    IN     (IF ToSet(names(d)) \cap local_defs = {} THEN Report("orphan", d) ELSE {})
      \cup (IF \E e \in TraitImpls : e < d /\ names(e) = names(d) THEN Report("conflict", d) ELSE {})
      \cup (IF \E t \in traits, e \in ToSet(defs) :
                  defs[t].sealed /\ e.k = "enum" /\ e.name = names(d)[2]
            THEN Report("sealed trait of an enum", d) ELSE {})
      \cup (IF traits # {} THEN check_trait_satisfaction(d, Min(traits))
            ELSE IF names(d)[1] \notin DOMAIN imports THEN Report("unknown trait", d) ELSE {})

check_coherence ==
    /\ phase = "resolved"
    /\ Reject(UNION {ImplReports(d) : d \in TraitImpls}, "coherent")

(* The first definition with the name, be it a method.                     *)
validate_entry_point ==
    /\ phase = "coherent"
    /\ LET mains == {d \in DOMAIN defs : defs[d].name = "main"}
           m == defs[Min(mains)]
       IN  Reject(IF mains = {} \/ m.k # "fn" THEN Report("no entry point", 0)
                  ELSE IF m.params # <<>> \/ m.ret \notin {NoType, <<"prim", "Unit">>}
                  THEN Report("entry point", Min(mains)) ELSE {}, "accepted")

LowerDef ==
    /\ phase = "accepted" /\ next <= Len(defs)
    /\ classes' = classes \o ClassesOf(defs[next])
    /\ top_level_fns' = IF defs[next].k = "fn" /\ ~IsMethod(next) THEN Append(top_level_fns, next)
                        ELSE top_level_fns
    /\ next' = next + 1
    /\ UNCHANGED <<resolver, files>>

LowerRest ==
    /\ phase = "accepted" /\ next > Len(defs)
    /\ LET main == IF top_level_fns = <<>> THEN <<>> ELSE <<lower_top_level_functions(top_level_fns)>>
           all == classes \o main \o <<generate_list_iterator_class>> \o generate_ref_wrapper_classes
           arities == SetToSortSeq(collect_function_n_arities(all), <)
       IN  classes' = all \o [i \in DOMAIN arities |-> generate_function_n_interface(arities[i])]
    /\ phase' = "writing" /\ next' = 1
    /\ UNCHANGED <<items, imports, package, defs, scope, type_methods, trait_impls, diags,
                   top_level_fns, files>>

WriteClass ==
    /\ phase = "writing" /\ next <= Len(classes)
    /\ files' = classes[next].name :> classes[next] @@ files
    /\ next' = next + 1
    /\ phase' = IF next = Len(classes) THEN "written" ELSE phase
    /\ UNCHANGED <<items, imports, package, defs, scope, type_methods, trait_impls, diags,
                   top_level_fns, classes>>

Next == Resolving \/ check_coherence \/ validate_entry_point \/ LowerDef \/ LowerRest \/ WriteClass

Spec == CFInit /\ [][Next]_vars
-----------------------------------------------------------------------------
(***************************************************************************)
(* What programs the properties are stated for.  Each of these is a shape  *)
(* of source that is accepted although its classes cannot be right; the    *)
(* README lists them.                                                      *)
(***************************************************************************)
Items(k) == {d \in ToSet(defs) : d.k = k}
NamesOf(ds) == {d.name : d \in ds}
Traits == NamesOf(Items("trait"))
OpenTraits == NamesOf({d \in Items("trait") : ~d.sealed})
SupersOf(d) == {d.supers[i][2] : i \in {j \in DOMAIN d.supers : HasName(d.supers[j])}}

(* Traits that are not sealed have no class; a trait written first becomes *)
(* the superclass; one written later is not known to the sealed trait.     *)
ExtendsTrait == \E d \in Items("class") : SupersOf(d) \cap Traits # {}

(* Constructors call the superclass's without arguments.                   *)
ExtendsWithFields ==
    \E d \in Items("class"), s \in Items("class") : s.name \in SupersOf(d) /\ s.params # <<>>

(* A function from the body of a class, or implemented for it, has the     *)
(* name of another one, or of a generated one, or of a data class's.       *)
Duplicate(s) == \E i, j \in DOMAIN s : i # j /\ s[i] = s[j]
FnNames(ids) == [i \in DOMAIN ids |-> Fn(ids[i]).name]
Generated == {"equals", "hashCode", "toString", "copy"}
NamesTwice ==
    \/ \E d \in Items("class") :
          Duplicate(FnNames(ImplMethods(d.name) \o Inherent(d.name)))
    \/ \E d \in Items("data") \cup Items("enum") :
          \/ Duplicate(FnNames(ImplMethods(d.name))) \/ Duplicate(FnNames(Inherent(d.name)))
    \/ \E d \in Items("data") : ToSet(FnNames(ImplMethods(d.name))) \cap Generated # {}
DerivesTwice == \E d \in Items("enum") : Duplicate(d.derives)

(* A sealed trait is implemented for a type whose class gets no interfaces *)
(* (a newtype, an annotation) or for one that is not there.                *)
NoInterfaces ==
    \E e \in ToSet(trait_impls) :
        is_sealed_trait_def(e.trait)
        /\ e.target \notin NamesOf(Items("class") \cup Items("data") \cup Items("enum"))

(* A class has the name of one that is generated, of the functions' class  *)
(* or, in another package, of one that is referred to.                     *)
OwnPackages == {d.pkg : d \in ToSet(defs)}
NameTaken == \E d \in ToSet(defs) : d.k # "impl" /\ d.k # "fn" /\ d.name = "Main"
SeveralPackages == Cardinality(OwnPackages) > 1

(* An abstract method that no subclass could see.                          *)
PrivateAbstract == \E d \in ToSet(defs) : d.k = "fn" /\ d.abstract /\ d.vis = "private"
AbstractStatic == \E d \in ToSet(defs) : d.k = "fn" /\ d.abstract /\ ~d.self

(* A superclass that is not defined, not a class or not written as one.    *)
Dangling == \E d \in Items("class") : superclass(d) # NoType /\ ClassNamed(superclass(d)) = {}

(* A superclass written with arguments, `A<Int>`, or as `A?`: the class    *)
(* extends A, the sealed class permits it in the first case alone, and the *)
(* exhaustiveness pass counts neither.                                     *)
ExtendsByAnotherType ==
    \E d \in Items("class") : superclass(d) # NoType /\ superclass(d)[1] \in {"generic", "nullable"}

(* Lambdas of two bodies of a class share their names and the table.       *)
LambdaBodies(ids) == {i \in ToSet(ids) : Fn(i).lambdas # <<>>}
AllIds(n) == ToSet(ImplMethods(n)) \cup ToSet(Inherent(n))
LambdasTwice ==
    \/ \E d \in ToSet(defs) : d.k \in {"class", "data", "enum"} /\
          Cardinality(LambdaBodies(SetToSeq(AllIds(d.name)))) > 1
    \/ Cardinality(LambdaBodies(top_level_fns)) > 1
RECURSIVE NestedIn(_)
NestedIn(l) == {[name |-> i - 1, sig |-> l[i].sig, id |-> l[i].id] : i \in DOMAIN l}
               \cup UNION {NestedIn(l[i].inner) : i \in DOMAIN l}
SameLambdaName ==
    \E d \in ToSet(defs) : d.k = "fn" /\
        \E a, b \in NestedIn(d.lambdas) : a # b /\ a.name = b.name /\ a.sig = b.sig
DeeplyNested ==
    \E d \in ToSet(defs) : d.k = "fn" /\
        \E i \in DOMAIN d.lambdas : \E j \in DOMAIN d.lambdas[i].inner :
            d.lambdas[i].inner[j].inner # <<>>

-----------------------------------------------------------------------------
(***************************************************************************)
(* What the JVM asks of class files.                                       *)
(***************************************************************************)
Known(n) == n \in DOMAIN files \cup DOMAIN Platform
Access(n) == IF n \in DOMAIN files THEN files[n].access ELSE Platform[n]
Permits(n, sub) ==
    \/ n \notin DOMAIN files \/ files[n].permits = {}
    \/ sub \in files[n].permits

SuperclassLinks(c) ==
    /\ Known(c.super)
    /\ Access(c.super) \cap {"final", "interface"} = {}
    /\ Permits(c.super, c.name)
    /\ c.super \in DOMAIN files =>
          \E m \in ToSet(files[c.super].methods) : m.name = "<init>" /\ m.params = <<>>
InterfacesLink(c) ==
    /\ ~Duplicate(c.interfaces)
    /\ \A i \in ToSet(c.interfaces) : Known(i) /\ "interface" \in Access(i) /\ Permits(i, c.name)

Signature(m) == <<m.name, m.params, m.ret>>
MembersDistinct(c) ==
    /\ ~Duplicate([i \in DOMAIN c.methods |-> Signature(c.methods[i])])
    /\ ~Duplicate([i \in DOMAIN c.fields |-> c.fields[i].name])
    /\ ~Duplicate([i \in DOMAIN c.synthetic |-> <<c.synthetic[i].name, c.synthetic[i].sig>>])
FlagsAgree(c) ==
    /\ ~({"final", "abstract"} \subseteq c.access)
    /\ \A m \in ToSet(c.methods) :
          /\ "abstract" \in m.flags => m.flags \cap {"private", "static"} = {}
          /\ "interface" \in c.access => m.flags \cap {"public", "private"} # {}

Links(c) == SuperclassLinks(c) /\ InterfacesLink(c) /\ MembersDistinct(c) /\ FlagsAgree(c)

(* A call site names an entry of the table, the entry a method of the class.*)
Sites(c) == UNION ({ToSet(m.code.ops) : m \in {x \in ToSet(c.methods) : x.code.k = "user"}}
                   \cup {ToSet(m.ops) : m \in ToSet(c.synthetic)})
SiteReaches(c, site) ==
    /\ site.index < Len(c.bootstrap)
    /\ LET handle == c.bootstrap[site.index + 1]
           found == {m \in ToSet(c.synthetic) : m.name = handle.name /\ m.sig = handle.sig}
       IN  {m.id : m \in found} = {site.id}
    /\ site.iface[1] = "valen" => Known(site.iface)

-----------------------------------------------------------------------------
(***************************************************************************)
(* Properties.                                                             *)
(***************************************************************************)
Done == phase = "written"

(* Every class of an accepted program links: its superclass may be         *)
(* extended and lists it, its interfaces exist and list it, and no member  *)
(* is there twice, however the hierarchy, the impls and the generated      *)
(* members come together.                                                  *)
ClassesLink ==
    (Done /\ ~(\/ ExtendsTrait \/ ExtendsWithFields \/ NamesTwice
               \/ DerivesTwice \/ NameTaken \/ SeveralPackages \/ PrivateAbstract
               \/ AbstractStatic \/ Dangling \/ LambdasTwice \/ SameLambdaName)) =>
        \A n \in DOMAIN files : Links(files[n])

(* The subtypes a match on a sealed type has to cover (exhaustive.rs,      *)
(* find_sealed_subclasses and find_sealed_trait_implementors) are those    *)
(* whose classes extend or implement it, and those it permits.  (Where     *)
(* every class names its superclass plainly: otherwise the three differ,   *)
(* see ExtendsByAnotherType.)                                              *)
find_sealed_subclasses(n) ==
    {s.name : s \in {c \in Items("class") : superclass(c) = <<"named", n>>}}
find_sealed_trait_implementors(n) == {e.target : e \in {t \in ToSet(trait_impls) : t.trait = n}}
Subtypes(n) == {f \in DOMAIN files : n = files[f].super \/ n \in ToSet(files[f].interfaces)}
ClosedTypesAgree ==
    (Done /\ ~(ExtendsTrait \/ ExtendsByAnotherType \/ NoInterfaces \/ NameTaken \/ SeveralPackages)) =>
        \A d \in {x \in ToSet(defs) : \/ x.k = "class" /\ x.kind = "sealed"
                                      \/ x.k = "trait" /\ x.sealed} :
            LET covered == IF d.k = "class" THEN find_sealed_subclasses(d.name)
                           ELSE find_sealed_trait_implementors(d.name)
                internal == {class_internal_name(s, d.pkg) : s \in covered}
            IN  internal = files[Internal(d)].permits /\ internal = Subtypes(Internal(d))

(* Every function with a body ends up in exactly one class: that of its    *)
(* type, or the functions' class.  (Methods of newtypes, of primitives and *)
(* of generic types, default methods of traits and methods whose name is   *)
(* taken have no class to go to.)                                          *)
Owner(id) ==
    LET of == {d \in DOMAIN defs : defs[d].k \in {"class", "impl", "trait"} /\ id \in ToSet(defs[d].methods)}
        d == defs[CHOOSE x \in of : TRUE]
    IN  IF of = {} THEN "Main" ELSE IF d.k = "impl" THEN d.target[2] ELSE d.name
HasClass(n) == n \in {"Main"} \cup NamesOf(Items("class") \cup Items("data") \cup Items("enum"))
Placed(id) ==
    {<<f, m>> \in UNION {{f} \X DOMAIN files[f].methods : f \in DOMAIN files} :
        LET code == files[f].methods[m].code IN code.k = "user" /\ code.fn = id}
Shadowed(id) ==
    \E d \in Items("data") \cup Items("enum") :
        /\ id \in ToSet(Inherent(d.name))
        /\ Fn(id).name \in ToSet(FnNames(ImplMethods(d.name))) \cup IF d.k = "data" THEN Generated \cup {"<init>"} ELSE {}
EveryFunctionIsKept ==
    (Done /\ ~(NameTaken \/ SeveralPackages)) =>
        \A id \in DOMAIN defs :
            (defs[id].k = "fn" /\ defs[id].body /\ HasClass(Owner(id)) /\ ~Shadowed(id)
             /\ \A d \in Items("impl") : id \in ToSet(d.methods) => Indexed(d)) =>
                {p[1] : p \in Placed(id)} = {class_internal_name(Owner(id), package)}
                /\ Cardinality(Placed(id)) = 1

(* Every lambda's call site makes that lambda, through the table and the   *)
(* name, and the interface it makes exists.                                *)
CallSitesReach ==
    \A n \in DOMAIN files : \A s \in {x \in Sites(files[n]) : x.op = "indy"} : SiteReaches(files[n], s)
CallSitesReachTheirLambdas ==
    (Done /\ ~(LambdasTwice \/ SameLambdaName \/ DeeplyNested \/ NameTaken \/ SeveralPackages)) => CallSitesReach

(* The same for lambdas at any depth: the comment in lower_lambda has it   *)
(* that the indices of nested lambdas are offset by the size of the table. *)
(* (Still without two lambdas of one name or two bodies with lambdas.)     *)
NestedIndicesAreOffset ==
    (Done /\ ~(LambdasTwice \/ SameLambdaName \/ NameTaken \/ SeveralPackages)) => CallSitesReach

(* Objects with generated members keep the contract of Object: a copy made *)
(* of an object's fields is equal to it, an object is equal to itself, and *)
(* equal objects have equal hash codes, for NaN, the two zeros, null and   *)
(* values of two slots as well.                                            *)
Member(c, n) == {m \in ToSet(c.methods) : m.name = n /\ m.code.k # "user"}
ArgLists(types) == {a \in [DOMAIN types -> UNION {ValuesOfType(t) : t \in ToSet(types)}] :
                        \A i \in DOMAIN types : a[i] \in ValuesOfType(types[i])}
KeepsContract(c) ==
    \A ctor \in Member(c, "<init>") :
        LET object(args) == New(ctor, args)
        IN  \A x, y \in ArgLists(ctor.params) :
                /\ \A e \in Member(c, "equals"), h \in Member(c, "hashCode") :
                      CallEquals(e, object(x), object(y)) =>
                          CallHashCode(h, object(x)) = CallHashCode(h, object(y))
                /\ \A e \in Member(c, "equals") : CallEquals(e, object(x), object(y)) <=> x = y
                /\ \A p \in Member(c, "copy") : CallCopy(p, ctor, x) = object(x)
GeneratedMembersKeepContract ==
    Done => \A n \in DOMAIN files : Member(files[n], "equals") \cup Member(files[n], "copy") # {}
                                        => KeepsContract(files[n])
=============================================================================
