-------------------------- MODULE Coherence_proof --------------------------
(***************************************************************************)
(* Proofs about the coherence pass: the types of its variables, and that   *)
(* it reports exactly the impls that break a rule about impls, for every   *)
(* program and every number of impl blocks.                                *)
(***************************************************************************)
EXTENDS Coherence, TLAPS, WellFoundedInduction

\* What the pass is given by valenc: the imported names and the prelude's.
CliImports ==
    \A p \in Programs :
        p.imports = {n \in Name : p.decl[n].origin \in {"import", "prelude"}}

\* The codes of the rules about impls, as the checker decides them.
Condition(c, k) ==
    LET m == program.impls[k]
        tn == tyref_name(TraitRef(m))
        tgt == tyref_name(Target(m))
    IN  /\ tn # None /\ tgt # None
        /\ \/ c = "BLANKET_IMPL_NOT_ALLOWED" /\ is_type_param(program, m)
           \/ /\ ~ is_type_param(program, m)
              /\ \/ /\ c = "ORPHAN_RULE_VIOLATION" /\ ~ m.stdlib
                    /\ tn \notin local_defs(program) /\ tgt \notin local_defs(program)
                 \/ /\ c = "IMPL_CONFLICT"
                    /\ \E s \in seen_pairs : s.impl < k /\ s.trait = tn /\ s.target = tgt
                 \/ /\ c = "SEALED_TRAIT_IMPL_BY_ENUM"
                    /\ is_sealed_trait(program, tn) /\ is_enum_type(program, tgt)
                 \/ /\ c = "UNKNOWN_TRAIT"
                    /\ ~ is_trait(program, tn) /\ tn \notin program.imports

Examined(k) ==
    LET m == program.impls[k]
    IN  /\ tyref_name(TraitRef(m)) # None /\ tyref_name(Target(m)) # None
        /\ ~ is_type_param(program, m)

Pair(k) == [trait |-> tyref_name(TraitRef(program.impls[k])),
            target |-> tyref_name(Target(program.impls[k])), impl |-> k]

IndInv ==
    /\ program \in Programs
    /\ i \in 1..(Len(program.impls) + 1)
    /\ diags \subseteq [code : ImplCodes \cup MethodCodes, impl : Checked]
    /\ seen_pairs = {Pair(k) : k \in {k \in Checked : Examined(k)}}
    /\ \A k \in Checked : \A c \in ImplCodes :
          [code |-> c, impl |-> k] \in diags <=> Condition(c, k)

-----------------------------------------------------------------------------
(* Typing of a program                                                     *)

\* The parts of a program have the types Program states, and its impl blocks
\* too.
LEMMA ProgramType ==
    ASSUME program \in Programs
    PROVE  /\ program.decl \in [Name -> Decl]
           /\ program.impls \in Seq(Impl)
           /\ Len(program.impls) \in Nat
           /\ \A k \in 1..Len(program.impls) : program.impls[k] \in Impl
  BY ProgramsAssumption DEF Program

\* The codes check_trait_satisfaction reports, of which only one is about
\* impls: that the trait is unknown.
LEMMA SatisfactionCodes ==
    ASSUME NEW m
    PROVE  /\ check_trait_satisfaction(program, m) \subseteq ImplCodes \cup MethodCodes
           /\ \A c \in ImplCodes : c \in check_trait_satisfaction(program, m) <=>
                 /\ c = "UNKNOWN_TRAIT"
                 /\ ~ is_trait(program, TraitRef(m).name)
                 /\ TraitRef(m).name \notin program.imports
  <1> DEFINE Sat == check_trait_satisfaction(program, m)
             known == is_trait(program, TraitRef(m).name)
  <1>1. CASE ~ known
    <2>1. Sat = {"UNKNOWN_TRAIT" : n \in {TraitRef(m).name} \ program.imports}
      BY <1>1 DEF check_trait_satisfaction
    <2> QED  BY <2>1, <1>1 DEF ImplCodes
  <1>2. CASE known
    <2>1. Sat \subseteq MethodCodes
      BY <1>2 DEF check_trait_satisfaction, MethodCodes
    <2> QED  BY <2>1, <1>2 DEF MethodCodes, ImplCodes
  <1> QED  BY <1>1, <1>2

-----------------------------------------------------------------------------
(* The inductive invariant                                                 *)

LEMMA InitInv == Init => IndInv
  <1> SUFFICES ASSUME Init PROVE IndInv
    OBVIOUS
  <1>1. program \in Programs /\ i = 1 /\ seen_pairs = {} /\ diags = {}
    BY DEF Init
  <1>2. Checked = {}
    BY <1>1 DEF Checked
  <1> QED  BY <1>1, <1>2, ProgramType DEF IndInv

LEMMA StepInv == IndInv /\ [Next]_vars => IndInv'
  <1> SUFFICES ASSUME IndInv, [Next]_vars PROVE IndInv'
    OBVIOUS
  <1>p. /\ program \in Programs
        /\ i \in 1..(Len(program.impls) + 1)
        /\ diags \subseteq [code : ImplCodes \cup MethodCodes, impl : Checked]
        /\ seen_pairs = {Pair(k) : k \in {k \in Checked : Examined(k)}}
        /\ \A k \in Checked : \A c \in ImplCodes :
              [code |-> c, impl |-> k] \in diags <=> Condition(c, k)
    BY DEF IndInv
  <1>l. Len(program.impls) \in Nat /\ i \in Nat \ {0}
    BY <1>p, ProgramType
  <1>a. ASSUME Next PROVE IndInv'
    <2>1. program' = program /\ i' = i + 1 /\ i <= Len(program.impls)
      BY <1>a DEF Next, Skip, Blanket, Examine, Next_impl, Remaining
    <2>2. Checked = 1..(i - 1) /\ Checked' = 1..i /\ Checked' = Checked \cup {i}
          /\ i \notin Checked
      BY <1>l, <2>1 DEF Checked
    <2>3. \A k \in Checked' : (Examined(k) <=> Examined(k)') /\ Pair(k)' = Pair(k)
      BY <2>1 DEF Examined, Pair
    <2>4. seen_pairs' = {Pair(k)' : k \in {k \in Checked' : Examined(k)'}}
      <3>1. CASE Skip
        <4>1. ~ Examined(i) /\ seen_pairs' = seen_pairs
          BY <3>1 DEF Skip, Examined, TraitName, TargetName, imp
        <4> QED  BY <4>1, <2>2, <2>3, <1>p
      <3>2. CASE Blanket
        <4>1. ~ Examined(i) /\ seen_pairs' = seen_pairs
          BY <3>2 DEF Blanket, Examined, imp
        <4> QED  BY <4>1, <2>2, <2>3, <1>p
      <3>3. CASE Examine
        <4>1. Examined(i) /\ seen_pairs' = seen_pairs \cup {Pair(i)}
          BY <3>3 DEF Examine, Examined, TraitName, TargetName, imp, Pair
        <4> QED  BY <4>1, <2>2, <2>3, <1>p
      <3> QED  BY <1>a, <3>1, <3>2, <3>3 DEF Next
    \* A condition looks at the pairs of earlier impls only.
    <2>5. \A k \in Checked' : \A c \in ImplCodes : Condition(c, k)' <=> Condition(c, k)
      <3> SUFFICES ASSUME NEW k \in Checked', NEW c \in ImplCodes
                   PROVE  Condition(c, k)' <=> Condition(c, k)
        OBVIOUS
      <3> DEFINE tn == tyref_name(TraitRef(program.impls[k]))
                 tgt == tyref_name(Target(program.impls[k]))
                 Hit(S) == \E s \in S : s.impl < k /\ s.trait = tn /\ s.target = tgt
      <3>1. k \in 1..i
        BY <2>2
      <3>2. \A l : Pair(l).impl = l
        BY DEF Pair
      <3>3. \A s \in seen_pairs' \ seen_pairs : s.impl = i
        BY <2>4, <2>3, <2>2, <3>2, <1>p
      <3>4. seen_pairs \subseteq seen_pairs'
        BY <2>4, <2>3, <2>2, <1>p
      <3>5. Hit(seen_pairs') <=> Hit(seen_pairs)
        BY <3>1, <3>3, <3>4, <1>l
      <3> QED  BY <3>5, <2>1 DEF Condition
    <2>6. \E codes \in SUBSET (ImplCodes \cup MethodCodes) :
            /\ diags' = diags \cup {[code |-> c, impl |-> i] : c \in codes}
            /\ \A c \in ImplCodes : c \in codes <=> Condition(c, i)
      <3> DEFINE tn == tyref_name(TraitRef(program.impls[i]))
                 tgt == tyref_name(Target(program.impls[i]))
      <3>1. CASE Skip
        <4>1. diags' = diags /\ \A c \in ImplCodes : ~ Condition(c, i)
          BY <3>1 DEF Skip, Condition, TraitName, TargetName, imp
        <4> WITNESS {} \in SUBSET (ImplCodes \cup MethodCodes)
        <4> QED  BY <4>1
      <3>2. CASE Blanket
        <4>1. diags' = diags \cup {[code |-> c, impl |-> i] : c \in {"BLANKET_IMPL_NOT_ALLOWED"}}
          BY <3>2 DEF Blanket, Report
        <4>2. \A c \in ImplCodes : c \in {"BLANKET_IMPL_NOT_ALLOWED"} <=> Condition(c, i)
          BY <3>2 DEF Blanket, Condition, TraitName, TargetName, imp
        <4>3. {"BLANKET_IMPL_NOT_ALLOWED"} \in SUBSET (ImplCodes \cup MethodCodes)
          BY DEF ImplCodes
        <4> QED  BY <4>1, <4>2, <4>3
      <3>3. CASE Examine
        <4> DEFINE Sat == check_trait_satisfaction(program, imp)
                   codes == OrphanCodes \cup ConflictCodes \cup SealedCodes \cup Sat
        <4>1. diags' = diags \cup {[code |-> c, impl |-> i] : c \in codes}
          BY <3>3 DEF Examine, Report
        <4>2. tn # None /\ tgt # None /\ ~ is_type_param(program, program.impls[i])
          BY <3>3 DEF Examine, TraitName, TargetName, imp
        <4>3. TraitRef(program.impls[i]).name = tn
          BY <4>2 DEF tyref_name
        <4>4. \A c \in ImplCodes : c \in Sat <=>
                 c = "UNKNOWN_TRAIT" /\ ~ is_trait(program, tn) /\ tn \notin program.imports
          BY <4>3, SatisfactionCodes DEF imp
        <4>5. \A s \in seen_pairs : s.impl < i
          BY <1>p, <1>l, <2>2 DEF Pair
        <4>6. OrphanCodes \cup ConflictCodes \cup SealedCodes \subseteq ImplCodes
          BY DEF OrphanCodes, ConflictCodes, SealedCodes, ImplCodes
        <4>7. codes \in SUBSET (ImplCodes \cup MethodCodes)
          BY <4>6, SatisfactionCodes
        <4>8. /\ \A c : c \in OrphanCodes <=>
                    /\ c = "ORPHAN_RULE_VIOLATION" /\ ~ program.impls[i].stdlib
                    /\ tn \notin local_defs(program) /\ tgt \notin local_defs(program)
              /\ \A c : c \in SealedCodes <=>
                    /\ c = "SEALED_TRAIT_IMPL_BY_ENUM"
                    /\ is_sealed_trait(program, tn) /\ is_enum_type(program, tgt)
              /\ \A c : c \in ConflictCodes <=>
                    /\ c = "IMPL_CONFLICT"
                    /\ \E s \in seen_pairs : s.trait = tn /\ s.target = tgt
          BY DEF OrphanCodes, SealedCodes, ConflictCodes, TraitName, TargetName, imp
        <4>9. \A c \in ImplCodes : c \in codes <=> Condition(c, i)
          <5> HIDE DEF Sat
          <5> SUFFICES ASSUME NEW c \in ImplCodes
                       PROVE  c \in codes <=> Condition(c, i)
            OBVIOUS
          <5>1. c \in codes <=> c \in OrphanCodes \/ c \in ConflictCodes \/ c \in SealedCodes \/ c \in Sat
            OBVIOUS
          <5> QED  BY <5>1, <4>2, <4>4, <4>5, <4>8 DEF Condition, ImplCodes
        <4> HIDE DEF codes
        <4> QED  BY <4>1, <4>7, <4>9
      <3> QED  BY <1>a, <3>1, <3>2, <3>3 DEF Next
    <2>7. PICK codes \in SUBSET (ImplCodes \cup MethodCodes) :
            /\ diags' = diags \cup {[code |-> c, impl |-> i] : c \in codes}
            /\ \A c \in ImplCodes : c \in codes <=> Condition(c, i)
      BY <2>6
    <2>8. diags' \subseteq [code : ImplCodes \cup MethodCodes, impl : Checked']
      BY <2>7, <2>2, <1>p
    <2>9. \A k \in Checked' : \A c \in ImplCodes :
             [code |-> c, impl |-> k] \in diags' <=> Condition(c, k)
      <3> SUFFICES ASSUME NEW k \in Checked', NEW c \in ImplCodes
                   PROVE  [code |-> c, impl |-> k] \in diags' <=> Condition(c, k)
        OBVIOUS
      <3>1. CASE k \in Checked
        <4>1. k # i
          BY <3>1, <2>2
        <4> QED  BY <3>1, <4>1, <2>7, <1>p
      <3>2. CASE k = i
        <4>1. [code |-> c, impl |-> i] \notin diags
          BY <1>p, <2>2
        <4> QED  BY <3>2, <4>1, <2>7
      <3> QED  BY <3>1, <3>2, <2>2
    <2>10. i' \in 1..(Len(program'.impls) + 1)
      BY <2>1, <1>l
    <2> QED  BY <2>1, <2>4, <2>5, <2>8, <2>9, <2>10, <1>p DEF IndInv
  <1>b. CASE UNCHANGED vars
    BY <1>b, <1>p DEF vars, IndInv, Checked, Examined, Pair, Condition
  <1> QED  BY <1>a, <1>b

-----------------------------------------------------------------------------
(* From the checker's names to the program as written                      *)

\* For an impl written with plain names the checker's names are the names
\* written, and its rules are the rules.
LEMMA PlainMeaning ==
    ASSUME IndInv, CliImports, NEW k \in Checked, Plain(k)
    PROVE  /\ tyref_name(TraitRef(program.impls[k])) = TraitOf(k)
           /\ tyref_name(Target(program.impls[k])) = TypeOf(k)
           /\ TraitOf(k) # None /\ TypeOf(k) # None
           /\ TraitOf(k) \in Name /\ TypeOf(k) \in Name
           /\ is_type_param(program, program.impls[k]) <=> StandsForAll(k)
  <1> DEFINE m == program.impls[k]
  <1>1. program \in Programs /\ k \in 1..Len(program.impls)
    BY ProgramType DEF IndInv, Checked
  <1>2. m \in Impl /\ program.decl \in [Name -> Decl]
    BY <1>1, ProgramType
  <1>3. m.trait_ref \in Type /\ m.target \in Type
    BY <1>2 DEF Impl, Plain, Block
  <1>4. /\ m.trait_ref.form = "path" /\ m.target.form = "path"
        /\ m.trait_ref.args = <<>> => m.trait_ref.head \notin m.generics \ Prim
        /\ m.target.args = <<>> => m.target.head \notin m.generics \ Prim
        /\ m.trait_ref.head # SelfName /\ m.target.head # SelfName
        /\ m.trait_ref # None
    BY DEF Plain, Block, TraitOf, TypeOf, IsParam
  <1>5. m.trait_ref.head \in Name /\ m.target.head \in Name
    BY <1>3 DEF Type
  <1>6. m.trait_ref.head # None /\ m.target.head # None
    BY <1>5, NamesAssumption
  <1>7. ASSUME NEW ty \in {m.trait_ref, m.target}
        PROVE  tyref_name(Lower(ty, m.generics)) = ty.head
    <2>1. ty.form = "path" /\ ty.head # SelfName
          /\ (ty.args = <<>> => ty.head \notin m.generics \ Prim)
      BY <1>4
    <2>2. LowerName(ty.head, m.generics).name = ty.head
          /\ (ty.args = <<>> => LowerName(ty.head, m.generics).kind \in {"Prim", "Named"})
      BY <2>1 DEF LowerName
    <2>3. Lower(ty, m.generics).kind \in {"Prim", "Named", "Generic"}
          /\ Lower(ty, m.generics).name = ty.head
      BY <2>1, <2>2 DEF Lower
    <2> QED  BY <2>3 DEF tyref_name
  <1>8. TraitRef(m) = Lower(m.trait_ref, m.generics) /\ Target(m) = Lower(m.target, m.generics)
    BY <1>4 DEF TraitRef, LowerOpt, Target
  <1>9. is_type_param(program, m) <=> StandsForAll(k)
    <2> DEFINE n == m.target.head
    <2>b. /\ LowerName(n, m.generics).name = n
          /\ n \in Prim => LowerName(n, m.generics).kind = "Prim"
          /\ n \notin Prim /\ m.target.args = <<>> => LowerName(n, m.generics).kind = "Named"
          /\ n \notin Prim => LowerName(n, m.generics).kind # "Prim"
      BY <1>4 DEF LowerName
    <2>c. Target(m) = Lower(m.target, m.generics) /\ m.target.form # "nullable"
      BY <1>4, <1>8
    <2>1. Target(m).name = n
      BY <2>b, <2>c DEF Lower
    <2>2. Target(m).kind = "Named" <=> n \notin Prim /\ m.target.args = <<>>
      BY <2>b, <2>c DEF Lower
    <2>a. n \notin Prim /\ m.target.args = <<>> => n \notin m.generics
      BY <1>4
    <2>3. program.imports = {x \in Name : program.decl[x].origin \in {"import", "prelude"}}
      BY <1>1 DEF CliImports
    <2>4. program.decl[n].origin \in {"local", "prelude", "import", "none"}
      BY <1>2, <1>5 DEF Decl
    <2>5. program.decl[n].origin \notin {"local", "prelude"} /\ n \notin program.imports
            <=> program.decl[n].origin = "none"
      BY <2>3, <2>4, <1>5
    <2>6. StandsForAll(k) <=> /\ n \in Letter /\ n \notin Prim
                              /\ program.decl[n].origin = "none" /\ m.target.args = <<>>
      BY DEF StandsForAll, TypeOf, Block, Origin
    <2> QED  BY <2>1, <2>2, <2>a, <2>5, <2>6 DEF is_type_param
  <1> QED  BY <1>5, <1>6, <1>7, <1>8, <1>9 DEF TraitOf, TypeOf, Block

\* The declarations a local name can have are those that count as its owner's.
LEMMA LocalMeaning ==
    ASSUME program \in Programs, NEW n \in Name,
           program.decl[n].kind \notin {"typealias", "newtype"}
    PROVE  n \in local_defs(program) <=> Origin(n) = "local"
  BY ProgramType DEF local_defs, Origin, Decl


\* For the impls checked so far the pass's conditions are the rules.
LEMMA InvExact == IndInv /\ CliImports => ImplRulesExact
  <1> SUFFICES ASSUME IndInv, CliImports, NEW k \in Checked, Plain(k), NEW c \in ImplCodes
               PROVE  c \in Reported(k) <=> BreaksImplRule(c, k)
    BY DEF ImplRulesExact
  <1> DEFINE m == program.impls[k]
  <1>1. program \in Programs /\ i \in 1..(Len(program.impls) + 1) /\ Len(program.impls) \in Nat
    BY ProgramType DEF IndInv
  <1>2. k \in 1..(i - 1) /\ k \in Nat
    BY <1>1 DEF Checked
  <1>3. c \in Reported(k) <=> Condition(c, k)
    <2>1. \A d \in diags : d = [code |-> d.code, impl |-> d.impl]
      BY DEF IndInv
    <2>2. c \in Reported(k) <=> [code |-> c, impl |-> k] \in diags
      BY <2>1 DEF Reported
    <2> QED  BY <2>2 DEF IndInv
  <1>4. /\ tyref_name(TraitRef(m)) = TraitOf(k) /\ tyref_name(Target(m)) = TypeOf(k)
        /\ TraitOf(k) # None /\ TypeOf(k) # None
        /\ TraitOf(k) \in Name /\ TypeOf(k) \in Name
        /\ is_type_param(program, m) <=> StandsForAll(k)
    BY PlainMeaning
  <1>5. /\ TraitOf(k) \in local_defs(program) <=> Origin(TraitOf(k)) = "local"
        /\ TypeOf(k) \in local_defs(program) <=> Origin(TypeOf(k)) = "local"
    BY <1>1, <1>4, LocalMeaning DEF Plain
  <1>6. program.decl \in [Name -> Decl]
    BY <1>1, ProgramType
  <1>7. /\ is_sealed_trait(program, TraitOf(k)) <=> program.decl[TraitOf(k)].kind = "sealed trait"
        /\ is_enum_type(program, TypeOf(k)) <=> program.decl[TypeOf(k)].kind = "enum"
    BY <1>4, <1>6 DEF is_sealed_trait, is_enum_type, Defined, Decl
  <1>8. /\ is_trait(program, TraitOf(k)) <=> HasTrait(k)
        /\ ~ HasTrait(k) => (TraitOf(k) \notin program.imports
                              <=> Origin(TraitOf(k)) \notin {"import", "prelude"})
    <2>1. is_trait(program, TraitOf(k)) <=> HasTrait(k)
      BY DEF is_trait, Defined, HasTrait, Origin
    <2>2. program.imports = {n \in Name : program.decl[n].origin \in {"import", "prelude"}}
      BY <1>1 DEF CliImports
    <2> QED  BY <2>1, <2>2, <1>4 DEF Origin
  <1>9. (\E s \in seen_pairs : s.impl < k /\ s.trait = TraitOf(k) /\ s.target = TypeOf(k))
          <=> \E l \in 1..(k - 1) : Plain(l) /\ ~ StandsForAll(l) /\ SamePair(k, l)
    <2>1. seen_pairs = {Pair(l) : l \in {l \in Checked : Examined(l)}}
      BY DEF IndInv
    <2>2. 1..(k - 1) \subseteq Checked
      BY <1>1, <1>2 DEF Checked
    <2>3. ASSUME NEW l \in 1..(k - 1), Plain(l), ~ StandsForAll(l), SamePair(k, l)
          PROVE  \E s \in seen_pairs : s.impl < k /\ s.trait = TraitOf(k) /\ s.target = TypeOf(k)
      <3>1. /\ tyref_name(TraitRef(program.impls[l])) = TraitOf(l)
            /\ tyref_name(Target(program.impls[l])) = TypeOf(l)
            /\ TraitOf(l) # None /\ TypeOf(l) # None
            /\ ~ is_type_param(program, program.impls[l])
        BY <2>2, <2>3, PlainMeaning
      <3>2. Examined(l)
        BY <3>1 DEF Examined
      <3>3. Pair(l) \in seen_pairs
        BY <2>1, <2>2, <3>2
      <3>4. Pair(l).impl < k /\ Pair(l).trait = TraitOf(k) /\ Pair(l).target = TypeOf(k)
        BY <2>3, <3>1, <1>2 DEF Pair, SamePair
      <3> QED  BY <3>3, <3>4
    <2>4. ASSUME NEW s \in seen_pairs, s.impl < k, s.trait = TraitOf(k), s.target = TypeOf(k)
          PROVE  \E l \in 1..(k - 1) : Plain(l) /\ ~ StandsForAll(l) /\ SamePair(k, l)
      <3>1. PICK l \in Checked : Examined(l) /\ s = Pair(l)
        BY <2>1
      <3> DEFINE p == program.impls[l]
      <3>2. l \in 1..(k - 1) /\ l \in 1..Len(program.impls)
        BY <2>4, <3>1, <1>1, <1>2 DEF Pair, Checked
      <3>3. /\ tyref_name(TraitRef(p)) = TraitOf(k) /\ tyref_name(Target(p)) = TypeOf(k)
            /\ TraitRef(p).name = TraitOf(k) /\ Target(p).name = TypeOf(k)
            /\ TraitRef(p).kind \in {"Named", "Prim", "Generic"}
            /\ Target(p).kind \in {"Named", "Prim", "Generic"}
        BY <2>4, <3>1, <1>4 DEF Pair, tyref_name
      <3>4. p \in Impl
        BY <1>1, <3>2, ProgramType
      <3>5. p.trait_ref # None
        BY <3>3 DEF TraitRef, LowerOpt, NoType
      <3>6. p.trait_ref \in Type /\ p.target \in Type
        BY <3>4, <3>5 DEF Impl
      <3>7. TraitRef(p) = Lower(p.trait_ref, p.generics) /\ Target(p) = Lower(p.target, p.generics)
        BY <3>5 DEF TraitRef, LowerOpt, Target
      <3>8. ASSUME NEW ty \in {p.trait_ref, p.target}
            PROVE  /\ ty.form = "path" /\ Lower(ty, p.generics).name = ty.head
                   /\ ty.args = <<>> => ty.head \notin p.generics \ Prim
        <4>1. Lower(ty, p.generics).kind \in {"Named", "Prim", "Generic"}
          BY <3>3, <3>7
        <4>2. ty.form = "path"
          BY <3>6, <4>1 DEF Lower, Type
        <4>3. Lower(ty, p.generics).name = ty.head
          BY <4>2 DEF Lower, LowerName
        <4>4. ty.args = <<>> => LowerName(ty.head, p.generics).kind \in {"Named", "Prim", "Generic"}
          BY <4>1, <4>2 DEF Lower
        <4>5. ty.args = <<>> => ty.head \notin p.generics \ Prim
          <5>1. ty.head # SelfName
            BY <3>3, <3>7, <4>3 DEF Plain
          <5> QED  BY <4>4, <5>1 DEF LowerName
        <4> QED  BY <4>2, <4>3, <4>5
      <3>9. TraitOf(l) = TraitOf(k) /\ TypeOf(l) = TypeOf(k)
        <4>1. p.trait_ref.head = TraitOf(k) /\ p.target.head = TypeOf(k)
          BY <3>3, <3>7, <3>8
        <4> QED  BY <4>1 DEF TraitOf, TypeOf, Block
      <3>10. ~ IsParam(l, Block(l).trait_ref) /\ ~ IsParam(l, Block(l).target)
        BY <3>8 DEF IsParam, Block
      <3>11. Plain(l)
        <4>1. Block(l).trait_ref # None
              /\ Block(l).trait_ref.form = "path" /\ Block(l).target.form = "path"
          BY <3>5, <3>8 DEF Block
        <4>2. SelfName \notin {TraitOf(k), TypeOf(k)}
              /\ program.decl[TypeOf(k)].kind \notin {"typealias", "newtype"}
              /\ program.decl[TraitOf(k)].kind \notin {"typealias", "newtype"}
          BY DEF Plain
        <4>3. SelfName \notin {TraitOf(l), TypeOf(l)}
              /\ program.decl[TypeOf(l)].kind \notin {"typealias", "newtype"}
              /\ program.decl[TraitOf(l)].kind \notin {"typealias", "newtype"}
          BY <4>2, <3>9
        <4> QED  BY <4>1, <4>3, <3>10 DEF Plain
      <3>12. ~ StandsForAll(l)
        BY <3>1, <3>11, PlainMeaning DEF Examined
      <3> QED  BY <3>2, <3>9, <3>11, <3>12 DEF SamePair
    <2> QED  BY <2>3, <2>4
  <1> QED  BY <1>3, <1>4, <1>5, <1>7, <1>8, <1>9
           DEF Condition, BreaksImplRule, Owned, Block, ImplCodes

-----------------------------------------------------------------------------
(* Theorems                                                                *)

LEMMA SpecInv == Spec => []IndInv
  <1>1. Init => IndInv
    BY InitInv
  <1>2. IndInv /\ [Next]_vars => IndInv'
    BY StepInv
  <1> QED  BY <1>1, <1>2, PTL DEF Spec

\* For every set of programs: every variable keeps its type, and diagnostics
\* name impl blocks that were checked (CoherenceChecker::run).
THEOREM TypeCorrect == Spec => []TypeOK
  <1>1. IndInv => TypeOK
    <2> SUFFICES ASSUME IndInv PROVE TypeOK
      OBVIOUS
    <2>1. program \in Program
      BY ProgramsAssumption DEF IndInv
    <2>2. \A s \in seen_pairs : s.impl \in Checked
      BY DEF IndInv, Pair
    <2> QED  BY <2>1, <2>2 DEF IndInv, TypeOK
  <1> QED  BY <1>1, SpecInv, PTL

\* For all programs valenc hands over: of the rules about impls the pass
\* reports exactly those that are broken, whatever impls come before.
THEOREM ImplRulesCorrect ==
    ASSUME CliImports
    PROVE  Spec => []ImplRulesExact
  <1>1. IndInv => ImplRulesExact
    BY InvExact
  <1> QED  BY <1>1, SpecInv, PTL

-----------------------------------------------------------------------------
(* The methods of an impl.  The checker substitutes names in lowered types *)
(* and compares the results; the rule compares what the names written      *)
(* mean.  The argument goes from names to types to signatures to methods.  *)

\* Of the places of a sequence that hold one element one is the first.
LEMMA FirstPlace ==
    ASSUME NEW S, NEW s \in Seq(S), NEW x, NEW j \in DOMAIN s, s[j] = x
    PROVE  \E l \in DOMAIN s : s[l] = x /\ \A m \in DOMAIN s : s[m] = x => l <= m
  <1> DEFINE T == {l \in DOMAIN s : s[l] = x}
  <1>1. T \subseteq Nat /\ T # {}
    OBVIOUS
  <1>2. PICK l \in T : \A m \in T : ~ (<<m, l>> \in OpToRel(<, Nat))
    BY <1>1, NatLessThanWellFounded, WFMin
  <1>3. \A m \in T : ~ (m < l)
    BY <1>1, <1>2 DEF OpToRel
  <1> QED  BY <1>1, <1>3

-----------------------------------------------------------------------------
\* An impl whose methods the pass compares and the rules are about.
Comparable(k) ==
    /\ program \in Programs /\ k \in 1..Len(program.impls)
    /\ Plain(k) /\ HasTrait(k) /\ Hygienic(k)

\* The parts of such an impl and of its trait.
LEMMA ComparableTypes ==
    ASSUME NEW k, Comparable(k)
    PROVE  /\ Block(k) \in Impl
           /\ Block(k).trait_ref \in Type /\ Block(k).target \in Type
           /\ program.trait[TraitOf(k)] \in Trait
           /\ TraitMethods(k) \subseteq Fun /\ MethodsOf(k) \subseteq Fun
           /\ TraitParams(k) \subseteq Name /\ Block(k).generics \subseteq Name
           /\ TraitOf(k) \in Name
  <1>1. program \in Programs /\ k \in 1..Len(program.impls) /\ Plain(k)
    BY DEF Comparable
  <1>2. Block(k) \in Impl
    BY <1>1, ProgramType DEF Block
  <1>3. Block(k).trait_ref \in Type /\ Block(k).target \in Type
    BY <1>1, <1>2 DEF Impl, Plain
  <1>4. TraitOf(k) \in Name
    BY <1>3 DEF Type, TraitOf
  <1>5. program.trait[TraitOf(k)] \in Trait
    BY <1>1, <1>4, ProgramsAssumption DEF Program
  <1>6. TraitMethods(k) \subseteq Fun /\ MethodsOf(k) \subseteq Fun
    BY <1>2, <1>5 DEF TraitMethods, MethodsOf, Impl, Trait
  <1>7. TraitParams(k) \subseteq Name /\ Block(k).generics \subseteq Name
    BY <1>2, <1>5 DEF TraitParams, Impl, Trait
  <1> QED  BY <1>2, <1>3, <1>4, <1>5, <1>6, <1>7

Sub(k) == Subst(program.trait[TraitOf(k)], TraitRef(Block(k)))

\* The lowered trait of the impl keeps every argument.
LEMMA TraitArgs ==
    ASSUME NEW k, Comparable(k)
    PROVE  /\ TraitRef(Block(k)).name = TraitOf(k)
           /\ DOMAIN TraitRef(Block(k)).args = DOMAIN Block(k).trait_ref.args
           /\ \A l \in DOMAIN Block(k).trait_ref.args :
                 TraitRef(Block(k)).args[l]
                     = LowerName(Block(k).trait_ref.args[l], Block(k).generics)
  <1> DEFINE tr == Block(k).trait_ref
  <1>1. tr.form = "path" /\ tr # None /\ tr.head \notin Prim
    BY DEF Comparable, Plain, Hygienic, TraitOf
  <1>2. TraitRef(Block(k)) = Lower(tr, Block(k).generics)
    BY <1>1 DEF TraitRef, LowerOpt
  <1>3. LowerName(tr.head, Block(k).generics).kind # "Prim"
        /\ LowerName(tr.head, Block(k).generics).name = tr.head
    BY <1>1 DEF LowerName
  <1>4. CASE tr.args = <<>>
    <2>1. TraitRef(Block(k)).args = <<>> /\ TraitRef(Block(k)).name = tr.head
      BY <1>1, <1>2, <1>3, <1>4 DEF Lower
    <2> QED  BY <2>1, <1>4 DEF TraitOf
  <1>5. CASE tr.args # <<>>
    <2>1. /\ TraitRef(Block(k)).args
               = [l \in DOMAIN tr.args |-> LowerName(tr.args[l], Block(k).generics)]
          /\ TraitRef(Block(k)).name = tr.head
      BY <1>1, <1>2, <1>3, <1>5 DEF Lower
    <2> QED  BY <2>1 DEF TraitOf
  <1> QED  BY <1>4, <1>5

\* The first place of a type parameter of the trait.
Place(k, x) ==
    LET g == program.trait[TraitOf(k)].generics
    IN  CHOOSE l \in {l \in DOMAIN g : g[l] = x} : \A m \in {m \in DOMAIN g : g[m] = x} : l <= m

LEMMA PlaceFound ==
    ASSUME NEW k, Comparable(k), NEW x \in TraitParams(k)
    PROVE  LET g == program.trait[TraitOf(k)].generics
           IN  /\ Place(k, x) \in DOMAIN g /\ g[Place(k, x)] = x
               /\ \A m \in DOMAIN g : g[m] = x => Place(k, x) <= m
  <1> DEFINE g == program.trait[TraitOf(k)].generics
  <1>1. g \in Seq(Name)
    BY ComparableTypes DEF Trait
  <1>2. PICK j \in DOMAIN g : g[j] = x
    BY DEF TraitParams
  <1>3. PICK l \in DOMAIN g : g[l] = x /\ \A m \in DOMAIN g : g[m] = x => l <= m
    BY <1>1, <1>2, FirstPlace
  <1>4. \E q \in {q \in DOMAIN g : g[q] = x} : \A m \in {m \in DOMAIN g : g[m] = x} : q <= m
    BY <1>3
  <1> QED  BY <1>4 DEF Place

\* The substitution gives a type parameter of the trait the argument at its
\* first place, when there is one, and is defined for nothing else.
LEMMA SubMeaning ==
    ASSUME NEW k, Comparable(k)
    PROVE  /\ DOMAIN Sub(k) \subseteq TraitParams(k)
           /\ \A x \in TraitParams(k) :
                 /\ x \in DOMAIN Sub(k) <=> Place(k, x) \in DOMAIN Block(k).trait_ref.args
                 /\ x \in DOMAIN Sub(k) =>
                       Sub(k)[x] = LowerName(Block(k).trait_ref.args[Place(k, x)],
                                             Block(k).generics)
  <1> DEFINE g == program.trait[TraitOf(k)].generics
             a == Block(k).trait_ref.args
             b == TraitRef(Block(k)).args
             D == {g[l] : l \in DOMAIN b \cap DOMAIN g}
  <1>1. g \in Seq(Name) /\ a \in Seq(Name)
    BY ComparableTypes DEF Trait, Type
  <1>2. DOMAIN b = DOMAIN a
    BY TraitArgs
  <1>3. DOMAIN Sub(k) = D
    BY DEF Sub, Subst
  <1>4. D \subseteq TraitParams(k)
    BY DEF TraitParams
  <1>5. ASSUME NEW x \in TraitParams(k)
        PROVE  /\ x \in D <=> Place(k, x) \in DOMAIN a
               /\ x \in D => Sub(k)[x] = LowerName(a[Place(k, x)], Block(k).generics)
    <2> DEFINE l == Place(k, x)
    <2>1. l \in DOMAIN g /\ g[l] = x /\ \A m \in DOMAIN g : g[m] = x => l <= m
      BY PlaceFound
    <2> HIDE DEF l
    <2>2. x \in D <=> l \in DOMAIN a
      <3>1. ASSUME x \in D PROVE l \in DOMAIN a
        <4>1. PICK j \in DOMAIN a \cap DOMAIN g : g[j] = x
          BY <3>1, <1>2
        <4>2. l <= j /\ j \in 1..Len(a) /\ Len(a) \in Nat /\ l \in 1..Len(g) /\ Len(g) \in Nat
          <5>1. j \in DOMAIN a /\ j \in DOMAIN g /\ g[j] = x
            BY <4>1
          <5>2. l <= j /\ l \in DOMAIN g
            BY <5>1, <2>1
          <5>3. DOMAIN a = 1..Len(a) /\ Len(a) \in Nat /\ DOMAIN g = 1..Len(g) /\ Len(g) \in Nat
            BY <1>1
          <5> HIDE DEF a, g
          <5> QED  BY <5>1, <5>2, <5>3
        <4>3. l \in 1..Len(a)
          BY <4>2
        <4> QED  BY <4>3, <1>1
      <3> QED  BY <3>1, <2>1, <1>2
    <2>3. ASSUME x \in D PROVE Sub(k)[x] = LowerName(a[l], Block(k).generics)
      <3> DEFINE P(q) == q \in DOMAIN g /\ g[q] = x /\ \A m \in 1..(q - 1) : g[m] # x
                 c == CHOOSE q \in DOMAIN g : g[q] = x /\ \A m \in 1..(q - 1) : g[m] # x
      <3>0. DOMAIN g = 1..Len(g) /\ Len(g) \in Nat
        BY <1>1
      <3>1. l \in 1..Len(g)
        BY <2>1, <3>0
      <3>2. ASSUME NEW m \in 1..(l - 1) PROVE g[m] # x
        <4>1. m \in DOMAIN g /\ ~ (l <= m)
          BY <3>0, <3>1
        <4> QED  BY <4>1, <2>1
      <3>3. P(l)
        BY <2>1, <3>2
      <3>4. P(c)
        BY <3>3
      <3>5. c = l
        <4>1. c \in 1..Len(g) /\ l <= c
          BY <3>4, <2>1, <3>0
        <4>2. ~ (l \in 1..(c - 1))
          BY <3>4, <2>1
        <4> HIDE DEF c
        <4> QED  BY <4>1, <4>2, <3>1, <3>0
      <3>6. Sub(k)[x] = b[c]
        BY <2>3 DEF Sub, Subst
      <3> HIDE DEF c
      <3>7. l \in DOMAIN a
        BY <2>3, <2>2
      <3> QED  BY <3>5, <3>6, <3>7, TraitArgs
    <2> QED  BY <2>2, <2>3 DEF l
  <1> HIDE DEF D
  <1> QED  BY <1>3, <1>4, <1>5

-----------------------------------------------------------------------------
\* What a name of the trait, and one of the impl, means, case by case.
LEMMA TraitNames ==
    ASSUME NEW k, Comparable(k), NEW f \in TraitMethods(k), NEW x \in Name
    PROVE  LET a == substitute_atom(LowerName(x, TraitParams(k) \cup f.generics), Sub(k))
               mean == MeanInTrait(k, f, x)
               arg == Block(k).trait_ref.args[Place(k, x)]
           IN  \/ x \in Prim /\ a = [kind |-> "Prim", name |-> x] /\ mean = <<"type", x>>
               \/ x \notin Prim /\ x = SelfName /\ a = [kind |-> "SelfTy", name |-> x]
                    /\ mean = <<"type", x>>
               \/ x \notin Prim /\ x # SelfName /\ x \in f.generics
                    /\ a = [kind |-> "Unresolved", name |-> x] /\ mean = <<"own", x>>
               \/ /\ x \notin Prim /\ x # SelfName /\ x \in TraitParams(k)
                  /\ Place(k, x) \in DOMAIN Block(k).trait_ref.args
                  /\ a = LowerName(arg, Block(k).generics)
                  /\ mean = Mean(arg, {}, Block(k).generics, "impl")
               \/ /\ x \notin Prim /\ x # SelfName /\ x \in TraitParams(k)
                  /\ Place(k, x) \notin DOMAIN Block(k).trait_ref.args
                  /\ a = [kind |-> "Unresolved", name |-> x] /\ mean = <<"trait", x>>
               \/ x \notin Prim /\ x # SelfName /\ x \notin f.generics \cup TraitParams(k)
                    /\ a = [kind |-> "Named", name |-> x] /\ mean = <<"type", x>>
  <1> DEFINE P == TraitParams(k)
             a0 == LowerName(x, P \cup f.generics)
             a == substitute_atom(a0, Sub(k))
             g == program.trait[TraitOf(k)].generics
             at == {l \in DOMAIN g : g[l] = x}
  <1>1. f.generics \cap P = {} /\ SelfName \notin f.generics \cup P
    BY DEF Comparable, Hygienic
  <1>2. x \in P <=> at # {}
    BY DEF TraitParams
  <1>3. SelfName \notin Prim
    BY NamesAssumption
  <1>4. /\ DOMAIN Sub(k) \subseteq P
        /\ x \in P => /\ x \in DOMAIN Sub(k) <=> Place(k, x) \in DOMAIN Block(k).trait_ref.args
                      /\ x \in DOMAIN Sub(k) =>
                            Sub(k)[x] = LowerName(Block(k).trait_ref.args[Place(k, x)],
                                                  Block(k).generics)
    BY SubMeaning
  <1>5. x \in f.generics \cup Prim \/ x \notin P =>
            MeanInTrait(k, f, x) = Mean(x, f.generics, {}, "trait")
    BY <1>2 DEF MeanInTrait
  <1>6. x \notin f.generics \cup Prim /\ x \in P =>
            MeanInTrait(k, f, x) =
                IF Place(k, x) \in DOMAIN Block(k).trait_ref.args
                THEN Mean(Block(k).trait_ref.args[Place(k, x)], {}, Block(k).generics, "impl")
                ELSE <<"trait", x>>
    BY <1>2 DEF MeanInTrait, Place
  <1>7. CASE x \in Prim
    <2>1. a0 = [kind |-> "Prim", name |-> x]
      BY <1>7 DEF LowerName
    <2>2. a = [kind |-> "Prim", name |-> x]
      BY <2>1 DEF substitute_atom
    <2> QED  BY <1>7, <2>2, <1>5 DEF Mean
  <1>8. CASE x \notin Prim /\ x = SelfName
    <2>1. a0 = [kind |-> "SelfTy", name |-> x]
      BY <1>8 DEF LowerName
    <2>2. a = [kind |-> "SelfTy", name |-> x]
      BY <2>1 DEF substitute_atom
    <2> QED  BY <1>8, <2>2, <1>5, <1>1 DEF Mean
  <1>9. CASE x \notin Prim /\ x # SelfName /\ x \in f.generics
    <2>1. a0 = [kind |-> "Unresolved", name |-> x] /\ x \notin DOMAIN Sub(k)
      BY <1>9, <1>1, <1>4 DEF LowerName
    <2>2. a = [kind |-> "Unresolved", name |-> x]
      BY <2>1 DEF substitute_atom
    <2> QED  BY <1>9, <2>2, <1>5, <1>1 DEF Mean
  <1>10. CASE x \notin Prim /\ x # SelfName /\ x \notin f.generics /\ x \in P
    <2>1. a0 = [kind |-> "Unresolved", name |-> x]
      BY <1>10 DEF LowerName
    <2>2. a = IF x \in DOMAIN Sub(k) THEN Sub(k)[x] ELSE [kind |-> "Unresolved", name |-> x]
      BY <2>1 DEF substitute_atom
    <2> QED  BY <1>10, <2>2, <1>4, <1>6
  <1>11. CASE x \notin Prim /\ x # SelfName /\ x \notin f.generics \cup P
    <2>1. a0 = [kind |-> "Named", name |-> x] /\ x \notin DOMAIN Sub(k)
      BY <1>11, <1>4 DEF LowerName
    <2>2. a = [kind |-> "Named", name |-> x]
      BY <2>1 DEF substitute_atom
    <2> QED  BY <1>11, <2>2, <1>5 DEF Mean
  <1> QED  BY <1>7, <1>8, <1>9, <1>10, <1>11

LEMMA ImplNames ==
    ASSUME NEW k, Comparable(k), NEW own \in SUBSET Name, NEW y \in Name,
           own \cap Block(k).generics = {}, SelfName \notin own \cup Block(k).generics
    PROVE  LET b == LowerName(y, Block(k).generics \cup own)
               mean == Mean(y, own, Block(k).generics, "impl")
           IN  \/ y \in Prim /\ b = [kind |-> "Prim", name |-> y] /\ mean = <<"type", y>>
               \/ y \notin Prim /\ y = SelfName /\ b = [kind |-> "SelfTy", name |-> y]
                    /\ mean = <<"type", y>>
               \/ y \notin Prim /\ y # SelfName /\ y \in own
                    /\ b = [kind |-> "Unresolved", name |-> y] /\ mean = <<"own", y>>
               \/ y \notin Prim /\ y # SelfName /\ y \in Block(k).generics
                    /\ b = [kind |-> "Unresolved", name |-> y] /\ mean = <<"impl", y>>
               \/ y \notin Prim /\ y # SelfName /\ y \notin own \cup Block(k).generics
                    /\ b = [kind |-> "Named", name |-> y] /\ mean = <<"type", y>>
  <1>1. SelfName \notin Prim
    BY NamesAssumption
  <1>2. CASE y \in Prim
    BY <1>2 DEF LowerName, Mean
  <1>3. CASE y \notin Prim /\ y = SelfName
    BY <1>3 DEF LowerName, Mean
  <1>4. CASE y \notin Prim /\ y # SelfName /\ y \in own
    BY <1>4 DEF LowerName, Mean
  <1>5. CASE y \notin Prim /\ y # SelfName /\ y \in Block(k).generics
    <2>1. y \notin own
      BY <1>5
    <2> QED  BY <1>5, <2>1 DEF LowerName, Mean
  <1>6. CASE y \notin Prim /\ y # SelfName /\ y \notin own \cup Block(k).generics
    BY <1>6 DEF LowerName, Mean
  <1> QED  BY <1>2, <1>3, <1>4, <1>5, <1>6

\* A name of a method of the trait and one of a method of the impl are lowered
\* to the same atom exactly when they mean the same.
LEMMA AtomMeaning ==
    ASSUME NEW k, Comparable(k), NEW f \in TraitMethods(k), NEW g \in MethodsOf(k),
           NEW x \in Name, NEW y \in Name
    PROVE  substitute_atom(LowerName(x, TraitParams(k) \cup f.generics), Sub(k))
               = LowerName(y, Block(k).generics \cup g.generics)
             <=> MeanInTrait(k, f, x) = MeanInImpl(k, g, y)
  <1> DEFINE I == Block(k).generics
             P == TraitParams(k)
             a == substitute_atom(LowerName(x, P \cup f.generics), Sub(k))
             b == LowerName(y, I \cup g.generics)
             arg == Block(k).trait_ref.args[Place(k, x)]
  <1>1. /\ f.generics \cap (P \cup I) = {} /\ g.generics \cap (P \cup I) = {}
        /\ SelfName \notin f.generics \cup g.generics \cup P \cup I
        /\ g.generics \subseteq Name
    <2>1. g \in Fun
      BY ComparableTypes
    <2> QED  BY <2>1 DEF Comparable, Hygienic, Fun
  <1>2. MeanInImpl(k, g, y) = Mean(y, g.generics, I, "impl")
    BY DEF MeanInImpl
  <1>3. \/ y \in Prim /\ b = [kind |-> "Prim", name |-> y] /\ MeanInImpl(k, g, y) = <<"type", y>>
        \/ y \notin Prim /\ y = SelfName /\ b = [kind |-> "SelfTy", name |-> y]
             /\ MeanInImpl(k, g, y) = <<"type", y>>
        \/ y \notin Prim /\ y # SelfName /\ y \in g.generics
             /\ b = [kind |-> "Unresolved", name |-> y] /\ MeanInImpl(k, g, y) = <<"own", y>>
        \/ y \notin Prim /\ y # SelfName /\ y \in I
             /\ b = [kind |-> "Unresolved", name |-> y] /\ MeanInImpl(k, g, y) = <<"impl", y>>
        \/ y \notin Prim /\ y # SelfName /\ y \notin g.generics \cup I
             /\ b = [kind |-> "Named", name |-> y] /\ MeanInImpl(k, g, y) = <<"type", y>>
    <2> DEFINE own == g.generics
               mean == Mean(y, own, I, "impl")
    <2>1. /\ own \in SUBSET Name /\ own \cap Block(k).generics = {}
          /\ SelfName \notin own \cup Block(k).generics
      BY <1>1
    <2>2. /\ b = LowerName(y, Block(k).generics \cup own)
          /\ mean = Mean(y, own, Block(k).generics, "impl")
      OBVIOUS
    <2> HIDE DEF own, b, mean
    <2>3. \/ y \in Prim /\ b = [kind |-> "Prim", name |-> y] /\ mean = <<"type", y>>
          \/ y \notin Prim /\ y = SelfName /\ b = [kind |-> "SelfTy", name |-> y]
               /\ mean = <<"type", y>>
          \/ y \notin Prim /\ y # SelfName /\ y \in own
               /\ b = [kind |-> "Unresolved", name |-> y] /\ mean = <<"own", y>>
          \/ y \notin Prim /\ y # SelfName /\ y \in Block(k).generics
               /\ b = [kind |-> "Unresolved", name |-> y] /\ mean = <<"impl", y>>
          \/ y \notin Prim /\ y # SelfName /\ y \notin own \cup Block(k).generics
               /\ b = [kind |-> "Named", name |-> y] /\ mean = <<"type", y>>
      BY <2>1, <2>2, ImplNames
    <2>4. MeanInImpl(k, g, y) = mean
      BY <1>2 DEF mean, own
    <2> HIDE DEF I
    <2>5. I = Block(k).generics
      BY DEF I
    <2> QED  BY <2>3, <2>4, <2>5, Zenon DEF own
  <1> DEFINE Same == a = b <=> MeanInTrait(k, f, x) = MeanInImpl(k, g, y)
  <1>4. CASE x \in Prim /\ a = [kind |-> "Prim", name |-> x] /\ MeanInTrait(k, f, x) = <<"type", x>>
    BY <1>3, <1>4
  <1>5. CASE x \notin Prim /\ x = SelfName /\ a = [kind |-> "SelfTy", name |-> x]
             /\ MeanInTrait(k, f, x) = <<"type", x>>
    BY <1>3, <1>5
  <1>6. CASE x \notin Prim /\ x # SelfName /\ x \in f.generics
             /\ a = [kind |-> "Unresolved", name |-> x] /\ MeanInTrait(k, f, x) = <<"own", x>>
    BY <1>1, <1>3, <1>6
  <1>7. CASE /\ x \notin Prim /\ x # SelfName /\ x \in P
             /\ Place(k, x) \in DOMAIN Block(k).trait_ref.args
             /\ a = LowerName(arg, I) /\ MeanInTrait(k, f, x) = Mean(arg, {}, I, "impl")
    <2>1. arg \in Name
      BY <1>7, ComparableTypes DEF Type
    <2> DEFINE mean == Mean(arg, {}, I, "impl")
    <2>2. \/ arg \in Prim /\ a = [kind |-> "Prim", name |-> arg] /\ mean = <<"type", arg>>
          \/ arg \notin Prim /\ arg = SelfName /\ a = [kind |-> "SelfTy", name |-> arg]
               /\ mean = <<"type", arg>>
          \/ arg \notin Prim /\ arg # SelfName /\ arg \in I
               /\ a = [kind |-> "Unresolved", name |-> arg] /\ mean = <<"impl", arg>>
          \/ arg \notin Prim /\ arg # SelfName /\ arg \notin I
               /\ a = [kind |-> "Named", name |-> arg] /\ mean = <<"type", arg>>
      <3> HIDE DEF arg, a
      <3>1. {} \in SUBSET Name /\ {} \cap Block(k).generics = {}
            /\ SelfName \notin {} \cup Block(k).generics /\ Block(k).generics \cup {} = I
        BY <1>1
      <3> QED  BY <1>7, <2>1, <3>1, ImplNames
    <2>3. MeanInTrait(k, f, x) = mean
      BY <1>7
    <2> HIDE DEF a, b, arg, mean
    <2> QED  BY <1>1, <1>3, <2>2, <2>3 DEF a, b
  <1>8. CASE /\ x \notin Prim /\ x # SelfName /\ x \in P
             /\ Place(k, x) \notin DOMAIN Block(k).trait_ref.args
             /\ a = [kind |-> "Unresolved", name |-> x] /\ MeanInTrait(k, f, x) = <<"trait", x>>
    <2>1. x \notin I
      <3> DEFINE tg == program.trait[TraitOf(k)].generics
      <3>1. Place(k, x) \in DOMAIN tg
        BY <1>8, PlaceFound
      <3>2. P \cap I = {}
        BY <3>1, <1>8 DEF Comparable, Hygienic
      <3> QED  BY <3>2, <1>8
    <2> QED  BY <1>1, <1>3, <1>8, <2>1
  <1>9. CASE x \notin Prim /\ x # SelfName /\ x \notin f.generics \cup P
             /\ a = [kind |-> "Named", name |-> x] /\ MeanInTrait(k, f, x) = <<"type", x>>
    BY <1>3, <1>9
  <1> HIDE DEF a, b, arg
  <1> QED  BY <1>4, <1>5, <1>6, <1>7, <1>8, <1>9, TraitNames DEF a, arg, b

-----------------------------------------------------------------------------
\* From names to types.

Atoms == [kind : {"Prim", "SelfTy", "Unresolved", "Named"}, name : Name]

TraitAtom(k, f, n) == substitute_atom(LowerName(n, TraitParams(k) \cup f.generics), Sub(k))
TraitType(k, f, ty) == substitute_tyref(LowerOpt(ty, TraitParams(k) \cup f.generics), Sub(k))
ImplAtom(k, g, n) == LowerName(n, Block(k).generics \cup g.generics)
ImplType(k, g, ty) == LowerOpt(ty, Block(k).generics \cup g.generics)

Proper(ty, params) == ty.args # <<>> => ty.head \notin Prim \cup params

\* The types of the pass, from the names in them.
IsLowered(low, ty, Atom(_)) ==
    \/ ty = None /\ low = NoType
    \/ ty # None /\ ty.form = "nullable"
         /\ low = [kind |-> "Nullable", name |-> None, args |-> <<Atom(ty.head)>>]
    \/ ty # None /\ ty.form = "path" /\ ty.args = <<>>
         /\ low = [kind |-> Atom(ty.head).kind, name |-> Atom(ty.head).name, args |-> <<>>]
    \/ ty # None /\ ty.form = "path" /\ ty.args # <<>>
         /\ low = [kind |-> "Generic", name |-> ty.head,
                   args |-> [l \in DOMAIN ty.args |-> Atom(ty.args[l])]]

LEMMA LowerNameType ==
    ASSUME NEW n \in Name, NEW P
    PROVE  LowerName(n, P) \in Atoms
  BY DEF LowerName, Atoms

LEMMA TraitAtomType ==
    ASSUME NEW k, Comparable(k), NEW f \in TraitMethods(k), NEW n \in Name
    PROVE  TraitAtom(k, f, n) \in Atoms
  <1> DEFINE arg == Block(k).trait_ref.args[Place(k, n)]
  <1>1. n \in Name => [kind |-> "Unresolved", name |-> n] \in Atoms
          /\ [kind |-> "Named", name |-> n] \in Atoms /\ [kind |-> "Prim", name |-> n] \in Atoms
          /\ [kind |-> "SelfTy", name |-> n] \in Atoms
    BY DEF Atoms
  <1>2. Place(k, n) \in DOMAIN Block(k).trait_ref.args => LowerName(arg, Block(k).generics) \in Atoms
    <2>1. Place(k, n) \in DOMAIN Block(k).trait_ref.args => arg \in Name
      BY ComparableTypes DEF Type
    <2> HIDE DEF arg
    <2> QED  BY <2>1, LowerNameType
  <1> QED  BY <1>1, <1>2, TraitNames DEF TraitAtom

LEMMA ImplTypeLowered ==
    ASSUME NEW k, NEW g, NEW ty \in Type \cup {None},
           ty # None => Proper(ty, Block(k).generics \cup g.generics)
    PROVE  IsLowered(ImplType(k, g, ty), ty, LAMBDA n : ImplAtom(k, g, n))
  <1> DEFINE B(n) == ImplAtom(k, g, n)
             low == ImplType(k, g, ty)
             P == Block(k).generics \cup g.generics
  <1>1. CASE ty = None
    BY <1>1 DEF IsLowered, ImplType, LowerOpt
  <1>2. CASE ty # None
    <2>1. low = Lower(ty, P) /\ ty \in Type
      BY <1>2 DEF ImplType, LowerOpt
    <2>2. CASE ty.form = "nullable"
      BY <1>2, <2>1, <2>2 DEF IsLowered, Lower, ImplAtom
    <2>3. CASE ty.form = "path" /\ ty.args = <<>>
      BY <1>2, <2>1, <2>3 DEF IsLowered, Lower, ImplAtom
    <2>4. CASE ty.form = "path" /\ ty.args # <<>>
      <3>1. LowerName(ty.head, P).kind # "Prim"
        BY <1>2, <2>4 DEF LowerName, Proper
      <3>2. low = [kind |-> "Generic", name |-> ty.head,
                   args |-> [l \in DOMAIN ty.args |-> LowerName(ty.args[l], P)]]
        BY <2>1, <2>4, <3>1 DEF Lower
      <3> QED  BY <1>2, <2>4, <3>2 DEF IsLowered, ImplAtom
    <2> QED  BY <2>1, <2>2, <2>3, <2>4 DEF Type
  <1> QED  BY <1>1, <1>2

LEMMA MapNone ==
    ASSUME NEW S
    PROVE  [l \in DOMAIN <<>> |-> substitute_atom(<<>>[l], S)] = <<>>
  OBVIOUS

LEMMA MapOne ==
    ASSUME NEW S, NEW a
    PROVE  [l \in DOMAIN <<a>> |-> substitute_atom(<<a>>[l], S)] = <<substitute_atom(a, S)>>
  <1> DEFINE h == [l \in DOMAIN <<a>> |-> substitute_atom(<<a>>[l], S)]
             s == <<substitute_atom(a, S)>>
  <1>1. DOMAIN <<a>> = 1..1 /\ <<a>>[1] = a
    OBVIOUS
  <1>2. DOMAIN h = 1..1 /\ h[1] = substitute_atom(a, S)
    BY <1>1
  <1>3. h = [l \in 1..1 |-> h[l]] /\ s = [l \in 1..1 |-> s[l]]
    BY <1>2
  <1> QED  BY <1>2, <1>3

\* What the substitution does to a type it leaves its kind and its name.
LEMMA SubstituteKept ==
    ASSUME NEW S, NEW kind, NEW name, NEW args,
           ~ (kind \in {"Named", "Unresolved", "Generic"} /\ name \in DOMAIN S)
    PROVE  substitute_tyref([kind |-> kind, name |-> name, args |-> args], S)
             = [kind |-> kind, name |-> name,
                args |-> [l \in DOMAIN args |-> substitute_atom(args[l], S)]]
  <1> DEFINE ty == [kind |-> kind, name |-> name, args |-> args]
             h == [l \in DOMAIN args |-> substitute_atom(args[l], S)]
  <1>1. substitute_tyref(ty, S) = [ty EXCEPT !.args = [l \in DOMAIN ty.args |-> substitute_atom(ty.args[l], S)]]
    BY DEF substitute_tyref
  <1>2. ty.args = args
    OBVIOUS
  <1>3. substitute_tyref(ty, S) = [ty EXCEPT !.args = h]
    BY <1>1, <1>2
  <1> HIDE DEF h
  <1>4. [ty EXCEPT !.args = h] = [kind |-> kind, name |-> name, args |-> h]
    OBVIOUS
  <1> QED  BY <1>3, <1>4 DEF h

LEMMA SubstitutePlain ==
    ASSUME NEW S, NEW kind, NEW name,
           ~ (kind \in {"Named", "Unresolved", "Generic"} /\ name \in DOMAIN S)
    PROVE  substitute_tyref([kind |-> kind, name |-> name, args |-> <<>>], S)
             = [kind |-> kind, name |-> name, args |-> <<>>]
  <1> DEFINE h == [l \in DOMAIN <<>> |-> substitute_atom(<<>>[l], S)]
  <1>1. substitute_tyref([kind |-> kind, name |-> name, args |-> <<>>], S)
          = [kind |-> kind, name |-> name, args |-> h]
    BY SubstituteKept
  <1>2. h = <<>>
    BY MapNone
  <1> HIDE DEF h
  <1> QED  BY <1>1, <1>2

\* A plain name is replaced as in the list of arguments.
LEMMA SubstituteName ==
    ASSUME NEW S, NEW a, a.kind # "Generic"
    PROVE  substitute_tyref([kind |-> a.kind, name |-> a.name, args |-> <<>>], S)
             = [kind |-> substitute_atom(a, S).kind, name |-> substitute_atom(a, S).name,
                args |-> <<>>]
  <1> DEFINE ty == [kind |-> a.kind, name |-> a.name, args |-> <<>>]
  <1>1. CASE a.kind \in {"Named", "Unresolved"} /\ a.name \in DOMAIN S
    <2>1. ty.kind = a.kind /\ ty.name = a.name
      OBVIOUS
    <2>2. substitute_atom(a, S) = S[a.name]
      BY <1>1 DEF substitute_atom
    <2>3. substitute_tyref(ty, S)
            = [kind |-> S[ty.name].kind, name |-> S[ty.name].name, args |-> <<>>]
      BY <1>1, <2>1 DEF substitute_tyref
    <2> HIDE DEF ty
    <2> QED  BY <2>1, <2>2, <2>3 DEF ty
  <1>2. CASE ~ (a.kind \in {"Named", "Unresolved"} /\ a.name \in DOMAIN S)
    <2>1. substitute_atom(a, S) = a
      BY <1>2 DEF substitute_atom
    <2>2. substitute_tyref(ty, S) = ty
      BY <1>2, SubstitutePlain
    <2> QED  BY <2>1, <2>2
  <1> QED  BY <1>1, <1>2

LEMMA TraitTypeLowered ==
    ASSUME NEW k, Comparable(k), NEW f \in TraitMethods(k), NEW ty \in Type \cup {None},
           ty # None => Proper(ty, TraitParams(k) \cup f.generics)
    PROVE  IsLowered(TraitType(k, f, ty), ty, LAMBDA n : TraitAtom(k, f, n))
  <1> DEFINE P == TraitParams(k) \cup f.generics
             S == Sub(k)
             low == LowerOpt(ty, P)
  <1>0. TraitType(k, f, ty) = substitute_tyref(low, S) /\ DOMAIN S \subseteq TraitParams(k)
    BY SubMeaning DEF TraitType
  <1>1. CASE ty = None
    <2>1. low = NoType
      BY <1>1 DEF LowerOpt
    <2>2. substitute_tyref(low, S) = NoType
      BY <2>1, SubstitutePlain DEF NoType
    <2> QED  BY <1>0, <1>1, <2>2 DEF IsLowered
  <1>2. CASE ty # None
    <2>1. low = Lower(ty, P) /\ ty \in Type
      BY <1>2 DEF LowerOpt
    <2>2. CASE ty.form = "nullable"
      <3>1. low = [kind |-> "Nullable", name |-> None, args |-> <<LowerName(ty.head, P)>>]
        BY <2>1, <2>2 DEF Lower
      <3>2. substitute_tyref(low, S) = [kind |-> "Nullable", name |-> None,
                                        args |-> <<substitute_atom(LowerName(ty.head, P), S)>>]
        BY <3>1, SubstituteKept, MapOne
      <3> QED  BY <1>0, <1>2, <2>2, <3>2 DEF IsLowered, TraitAtom
    <2>3. CASE ty.form = "path" /\ ty.args = <<>>
      <3> DEFINE a == LowerName(ty.head, P)
      <3>1. low = [kind |-> a.kind, name |-> a.name, args |-> <<>>]
        BY <2>1, <2>3 DEF Lower
      <3>2. a.kind \in {"Prim", "SelfTy", "Unresolved", "Named"}
        BY DEF LowerName
      <3> HIDE DEF a
      <3>3. substitute_tyref(low, S) = [kind |-> substitute_atom(a, S).kind,
                                        name |-> substitute_atom(a, S).name, args |-> <<>>]
        <4>1. a.kind # "Generic"
          BY <3>2
        <4> QED  BY <3>1, <4>1, SubstituteName
      <3> QED  BY <1>0, <1>2, <2>3, <3>3 DEF IsLowered, TraitAtom, a
    <2>4. CASE ty.form = "path" /\ ty.args # <<>>
      <3>1. LowerName(ty.head, P).kind # "Prim" /\ ty.head \notin DOMAIN S
        BY <1>0, <1>2, <2>4 DEF LowerName, Proper
      <3>2. low = [kind |-> "Generic", name |-> ty.head,
                   args |-> [l \in DOMAIN ty.args |-> LowerName(ty.args[l], P)]]
        BY <2>1, <2>4, <3>1 DEF Lower
      <3>3. substitute_tyref(low, S)
              = [kind |-> "Generic", name |-> ty.head,
                 args |-> [l \in DOMAIN ty.args |-> substitute_atom(LowerName(ty.args[l], P), S)]]
        <4> DEFINE args == [l \in DOMAIN ty.args |-> LowerName(ty.args[l], P)]
        <4>1. [l \in DOMAIN args |-> substitute_atom(args[l], S)]
                = [l \in DOMAIN ty.args |-> substitute_atom(LowerName(ty.args[l], P), S)]
          OBVIOUS
        <4> HIDE DEF args
        <4>2. substitute_tyref([kind |-> "Generic", name |-> ty.head, args |-> args], S)
                = [kind |-> "Generic", name |-> ty.head,
                   args |-> [l \in DOMAIN args |-> substitute_atom(args[l], S)]]
          BY <3>1, SubstituteKept
        <4> QED  BY <3>2, <4>1, <4>2 DEF args
      <3> QED  BY <1>0, <1>2, <2>4, <3>3 DEF IsLowered, TraitAtom
    <2> QED  BY <2>1, <2>2, <2>3, <2>4 DEF Type
  <1> QED  BY <1>1, <1>2

\* A name that is no parameter stands for itself.
LEMMA DeclaredName ==
    ASSUME NEW k, Comparable(k), NEW f, NEW g, NEW n
    PROVE  /\ n \notin Prim \cup TraitParams(k) \cup f.generics
                 => TraitAtom(k, f, n) = LowerName(n, {})
           /\ n \notin Prim \cup Block(k).generics \cup g.generics
                 => ImplAtom(k, g, n) = LowerName(n, {})
  <1>1. ASSUME n \notin Prim \cup TraitParams(k) \cup f.generics
        PROVE  TraitAtom(k, f, n) = LowerName(n, {})
    <2>1. LowerName(n, TraitParams(k) \cup f.generics) = LowerName(n, {})
          /\ LowerName(n, {}).name = n
      BY <1>1 DEF LowerName
    <2>2. n \notin DOMAIN Sub(k)
      BY <1>1, SubMeaning
    <2> QED  BY <2>1, <2>2 DEF TraitAtom, substitute_atom
  <1>2. ASSUME n \notin Prim \cup Block(k).generics \cup g.generics
        PROVE  ImplAtom(k, g, n) = LowerName(n, {})
    BY <1>2 DEF ImplAtom, LowerName
  <1> QED  BY <1>1, <1>2

Same(k, f, g, a, b) ==
    SameType(a, b, LAMBDA n : MeanInTrait(k, f, n), LAMBDA n : MeanInImpl(k, g, n))

\* A type of the trait and one of the impl are lowered to the same type exactly
\* when they mean the same.
LEMMA TypeMeaning ==
    ASSUME NEW k, Comparable(k), NEW f \in TraitMethods(k), NEW g \in MethodsOf(k),
           NEW a \in Type \cup {None}, NEW b \in Type \cup {None},
           a # None => Proper(a, TraitParams(k) \cup f.generics),
           b # None => Proper(b, Block(k).generics \cup g.generics)
    PROVE  TraitType(k, f, a) = ImplType(k, g, b) <=> Same(k, f, g, a, b)
  <1> DEFINE A(n) == TraitAtom(k, f, n)
             B(n) == ImplAtom(k, g, n)
             l == TraitType(k, f, a)
             r == ImplType(k, g, b)
  <1>2. \A n \in Name : A(n) \in Atoms /\ B(n) \in Atoms
    BY TraitAtomType, LowerNameType DEF ImplAtom
  <1>3. \A n, m \in Name : A(n) = B(m) <=> MeanInTrait(k, f, n) = MeanInImpl(k, g, m)
    BY AtomMeaning DEF TraitAtom, ImplAtom
  <1>4. /\ a # None => a.head \in Name /\ a.args \in Seq(Name) /\ a.form \in {"path", "nullable"}
                       /\ (a.form = "nullable" => a.args = <<>>)
        /\ b # None => b.head \in Name /\ b.args \in Seq(Name) /\ b.form \in {"path", "nullable"}
                       /\ (b.form = "nullable" => b.args = <<>>)
    BY DEF Type
  <1>5. /\ a = None => l = NoType
        /\ a # None /\ a.form = "nullable" =>
              l = [kind |-> "Nullable", name |-> None, args |-> <<A(a.head)>>]
        /\ a # None /\ a.form = "path" /\ a.args = <<>> =>
              l = [kind |-> A(a.head).kind, name |-> A(a.head).name, args |-> <<>>]
        /\ a # None /\ a.form = "path" /\ a.args # <<>> =>
              l = [kind |-> "Generic", name |-> a.head,
                   args |-> [q \in DOMAIN a.args |-> A(a.args[q])]]
    BY TraitTypeLowered DEF IsLowered
  <1>6. /\ b = None => r = NoType
        /\ b # None /\ b.form = "nullable" =>
              r = [kind |-> "Nullable", name |-> None, args |-> <<B(b.head)>>]
        /\ b # None /\ b.form = "path" /\ b.args = <<>> =>
              r = [kind |-> B(b.head).kind, name |-> B(b.head).name, args |-> <<>>]
        /\ b # None /\ b.form = "path" /\ b.args # <<>> =>
              r = [kind |-> "Generic", name |-> b.head,
                   args |-> [q \in DOMAIN b.args |-> B(b.args[q])]]
    BY ImplTypeLowered DEF IsLowered
  <1>7. Same(k, f, g, a, b) <=>
            IF None \in {a, b} THEN a = b
            ELSE /\ a.form = b.form
                 /\ MeanInTrait(k, f, a.head) = MeanInImpl(k, g, b.head)
                 /\ Len(a.args) = Len(b.args)
                 /\ \A q \in DOMAIN a.args : MeanInTrait(k, f, a.args[q]) = MeanInImpl(k, g, b.args[q])
    BY DEF Same, SameType
  <1> HIDE DEF A, B, l, r
  <1>8. CASE a = None \/ b = None
    <2>1. l.kind = "Error" <=> a = None
      BY <1>2, <1>4, <1>5 DEF Atoms, NoType
    <2>2. r.kind = "Error" <=> b = None
      BY <1>2, <1>4, <1>6 DEF Atoms, NoType
    <2> QED  BY <1>5, <1>6, <1>7, <1>8, <2>1, <2>2 DEF l, r
  <1>9. CASE a # None /\ b # None
    <2>0. Same(k, f, g, a, b) <=>
             /\ a.form = b.form /\ A(a.head) = B(b.head) /\ Len(a.args) = Len(b.args)
             /\ \A q \in DOMAIN a.args : A(a.args[q]) = B(b.args[q])
      <3>1. ASSUME Len(a.args) = Len(b.args)
            PROVE  \A q \in DOMAIN a.args : a.args[q] \in Name /\ b.args[q] \in Name
        BY <1>4, <1>9, <3>1
      <3> QED  BY <1>3, <1>4, <1>7, <1>9, <3>1
    <2>1. /\ l.kind = "Nullable" <=> a.form = "nullable"
          /\ r.kind = "Nullable" <=> b.form = "nullable"
      BY <1>2, <1>4, <1>5, <1>6, <1>9 DEF Atoms
    <2>2. CASE a.form = "nullable" /\ b.form = "nullable"
      <3>1. a.args = <<>> /\ b.args = <<>>
        BY <1>4, <1>9, <2>2
      <3>2. l = r <=> A(a.head) = B(b.head)
        BY <1>5, <1>6, <1>9, <2>2
      <3> QED  BY <2>0, <2>2, <3>1, <3>2 DEF l, r
    <2>3. CASE a.form = "path" /\ b.form = "path"
      <3>1. l.args = <<>> <=> a.args = <<>>
        BY <1>4, <1>5, <1>9, <2>3
      <3>2. r.args = <<>> <=> b.args = <<>>
        BY <1>4, <1>6, <1>9, <2>3
      <3>3. CASE a.args = <<>> /\ b.args = <<>>
        <4>1. A(a.head) \in Atoms /\ B(b.head) \in Atoms
          BY <1>2, <1>4, <1>9
        <4>2. l = r <=> A(a.head) = B(b.head)
          BY <1>5, <1>6, <1>9, <2>3, <3>3, <4>1 DEF Atoms
        <4> QED  BY <2>0, <2>3, <3>3, <4>2 DEF l, r
      <3>4. CASE a.args # <<>> /\ b.args # <<>>
        <4> DEFINE x == [q \in DOMAIN a.args |-> A(a.args[q])]
                   y == [q \in DOMAIN b.args |-> B(b.args[q])]
        <4>1. l = [kind |-> "Generic", name |-> a.head, args |-> x]
              /\ r = [kind |-> "Generic", name |-> b.head, args |-> y]
          BY <1>5, <1>6, <1>9, <2>3, <3>4
        <4>2. x = y <=> Len(a.args) = Len(b.args) /\ \A q \in DOMAIN a.args : A(a.args[q]) = B(b.args[q])
          <5>1. DOMAIN a.args = 1..Len(a.args) /\ DOMAIN b.args = 1..Len(b.args)
                /\ Len(a.args) \in Nat /\ Len(b.args) \in Nat
            BY <1>4, <1>9
          <5>2. DOMAIN a.args = DOMAIN b.args <=> Len(a.args) = Len(b.args)
            BY <5>1
          <5>3. ASSUME x = y PROVE DOMAIN a.args = DOMAIN b.args /\ \A q \in DOMAIN a.args : A(a.args[q]) = B(b.args[q])
            <6>1. DOMAIN x = DOMAIN a.args /\ DOMAIN y = DOMAIN b.args
              OBVIOUS
            <6>2. (\A q \in DOMAIN a.args : x[q] = A(a.args[q])) /\ \A q \in DOMAIN b.args : y[q] = B(b.args[q])
              OBVIOUS
            <6> HIDE DEF x, y
            <6> QED  BY <5>3, <6>1, <6>2
          <5>4. ASSUME DOMAIN a.args = DOMAIN b.args, \A q \in DOMAIN a.args : A(a.args[q]) = B(b.args[q])
                PROVE  x = y
            BY <5>4
          <5> QED  BY <5>2, <5>3, <5>4
        <4>3. A(a.head) = B(b.head) <=> a.head = b.head
          <5>1. a.head \notin Prim \cup TraitParams(k) \cup f.generics
                /\ b.head \notin Prim \cup Block(k).generics \cup g.generics
            BY <1>9, <3>4 DEF Proper
          <5>2. A(a.head) = LowerName(a.head, {}) /\ B(b.head) = LowerName(b.head, {})
            BY <5>1, DeclaredName DEF A, B
          <5> QED  BY <5>2 DEF LowerName
        <4> HIDE DEF x, y
        <4> QED  BY <2>0, <2>3, <4>1, <4>2, <4>3 DEF l, r
      <3> QED  BY <2>0, <2>3, <3>1, <3>2, <3>3, <3>4, <1>4, <1>9 DEF l, r
    <2>4. CASE a.form # b.form
      BY <1>4, <1>9, <2>0, <2>1, <2>4 DEF l, r
    <2> QED  BY <1>4, <1>9, <2>2, <2>3, <2>4
  <1> QED  BY <1>8, <1>9

-----------------------------------------------------------------------------
\* From types to signatures and methods.

\* The trait's method as the checker compares it.
RequiredFun(k, f) == substitute_fn_def(LowerFun(f, TraitParams(k)), Sub(k))
ActualFun(k, g) == LowerFun(g, Block(k).generics)

LEMMA RequiredParts ==
    ASSUME NEW k, NEW f
    PROVE  /\ RequiredFun(k, f).name = f.name /\ RequiredFun(k, f).has_body = f.has_body
           /\ RequiredFun(k, f).params = [l \in DOMAIN f.params |-> TraitType(k, f, f.params[l])]
                \/ \E l \in DOMAIN f.params : f.params[l] = None
           /\ RequiredFun(k, f).return_ty = TraitType(k, f, f.ret)
  <1> DEFINE P == TraitParams(k) \cup f.generics
             low == [l \in DOMAIN f.params |-> Lower(f.params[l], P)]
             ps == [l \in DOMAIN low |-> substitute_tyref(low[l], Sub(k))]
             d == LowerFun(f, TraitParams(k))
  <1>1. d = [name |-> f.name, has_body |-> f.has_body, params |-> low,
             return_ty |-> LowerOpt(f.ret, P)]
    BY DEF LowerFun
  <1>2. /\ d.name = f.name /\ d.has_body = f.has_body /\ d.params = low
        /\ d.return_ty = LowerOpt(f.ret, P)
    BY <1>1
  <1>3. RequiredFun(k, f) = [d EXCEPT !.params = ps,
                                   !.return_ty = substitute_tyref(LowerOpt(f.ret, P), Sub(k))]
    BY <1>2 DEF RequiredFun, substitute_fn_def
  <1> HIDE DEF ps, low
  <1>4. /\ RequiredFun(k, f).name = f.name /\ RequiredFun(k, f).has_body = f.has_body
        /\ RequiredFun(k, f).params = ps
        /\ RequiredFun(k, f).return_ty = substitute_tyref(LowerOpt(f.ret, P), Sub(k))
    BY <1>1, <1>3
  <1>5. ASSUME \A l \in DOMAIN f.params : f.params[l] # None
        PROVE  ps = [l \in DOMAIN f.params |-> TraitType(k, f, f.params[l])]
    <2>1. \A l \in DOMAIN f.params : Lower(f.params[l], P) = LowerOpt(f.params[l], P)
      BY <1>5 DEF LowerOpt
    <2> QED  BY <2>1 DEF ps, low, TraitType
  <1> QED  BY <1>4, <1>5 DEF TraitType

LEMMA ActualParts ==
    ASSUME NEW k, NEW g
    PROVE  /\ ActualFun(k, g).name = g.name
           /\ ActualFun(k, g).params = [l \in DOMAIN g.params |-> ImplType(k, g, g.params[l])]
                \/ \E l \in DOMAIN g.params : g.params[l] = None
           /\ ActualFun(k, g).return_ty = ImplType(k, g, g.ret)
  <1> DEFINE P == Block(k).generics \cup g.generics
             low == [l \in DOMAIN g.params |-> Lower(g.params[l], P)]
  <1>1. ActualFun(k, g) = [name |-> g.name, has_body |-> g.has_body, params |-> low,
                        return_ty |-> LowerOpt(g.ret, P)]
    BY DEF LowerFun, ActualFun
  <1> HIDE DEF low
  <1>2. ActualFun(k, g).name = g.name /\ ActualFun(k, g).params = low
        /\ ActualFun(k, g).return_ty = LowerOpt(g.ret, P)
    BY <1>1
  <1>3. ASSUME \A l \in DOMAIN g.params : g.params[l] # None
        PROVE  low = [l \in DOMAIN g.params |-> ImplType(k, g, g.params[l])]
    <2>1. \A l \in DOMAIN g.params : Lower(g.params[l], P) = LowerOpt(g.params[l], P)
      BY <1>3 DEF LowerOpt
    <2> QED  BY <2>1 DEF low, ImplType
  <1> QED  BY <1>2, <1>3 DEF ImplType

LEMMA SignatureParts ==
    ASSUME NEW k, NEW f, NEW g
    PROVE  SameSignature(k, f, g) <=>
             /\ Len(f.params) = Len(g.params)
             /\ \A l \in DOMAIN f.params : Same(k, f, g, f.params[l], g.params[l])
             /\ Same(k, f, g, f.ret, g.ret)
  BY DEF SameSignature, Same

\* The checker finds two signatures the same exactly when they mean the same.
LEMMA SignatureMeaning ==
    ASSUME NEW k, Comparable(k), NEW f \in TraitMethods(k), NEW g \in MethodsOf(k)
    PROVE  SignatureMatches(RequiredFun(k, f), ActualFun(k, g)) <=> SameSignature(k, f, g)
  <1> DEFINE ps == RequiredFun(k, f).params
             qs == ActualFun(k, g).params
  <1>1. f \in Fun /\ g \in Fun
    BY ComparableTypes
  <1>2. /\ f.params \in Seq(Type) /\ g.params \in Seq(Type)
        /\ f.ret \in Type \cup {None} /\ g.ret \in Type \cup {None}
    BY <1>1 DEF Fun
  <1>3. /\ ps = [l \in DOMAIN f.params |-> TraitType(k, f, f.params[l])]
        /\ qs = [l \in DOMAIN g.params |-> ImplType(k, g, g.params[l])]
    <2>1. (\A l \in DOMAIN f.params : f.params[l] # None) /\ \A l \in DOMAIN g.params : g.params[l] # None
      BY <1>2, NoneAssumption
    <2> QED  BY <2>1, RequiredParts, ActualParts
  <1>4. ProperTypes(f, TraitParams(k)) /\ ProperTypes(g, Block(k).generics)
    BY DEF Comparable, Hygienic
  <1>5. ASSUME NEW l \in DOMAIN f.params, l \in DOMAIN g.params
        PROVE  TraitType(k, f, f.params[l]) = ImplType(k, g, g.params[l])
                 <=> Same(k, f, g, f.params[l], g.params[l])
    <2>1. f.params[l] \in Type /\ g.params[l] \in Type
      BY <1>2, <1>5
    <2>2. Proper(f.params[l], TraitParams(k) \cup f.generics)
          /\ Proper(g.params[l], Block(k).generics \cup g.generics)
      BY <1>4, <1>5 DEF ProperTypes, Proper
    <2> QED  BY <2>1, <2>2, TypeMeaning
  <1>6. TraitType(k, f, f.ret) = ImplType(k, g, g.ret) <=> Same(k, f, g, f.ret, g.ret)
    <2>1. /\ f.ret # None => Proper(f.ret, TraitParams(k) \cup f.generics)
          /\ g.ret # None => Proper(g.ret, Block(k).generics \cup g.generics)
      BY <1>4 DEF ProperTypes, Proper
    <2> QED  BY <1>2, <2>1, TypeMeaning
  <1>7. /\ DOMAIN ps = DOMAIN f.params /\ DOMAIN qs = DOMAIN g.params
        /\ Len(ps) = Len(f.params) /\ Len(qs) = Len(g.params)
        /\ \A l \in DOMAIN f.params : ps[l] = TraitType(k, f, f.params[l])
        /\ \A l \in DOMAIN g.params : qs[l] = ImplType(k, g, g.params[l])
        /\ DOMAIN f.params = 1..Len(f.params) /\ DOMAIN g.params = 1..Len(g.params)
    BY <1>2, <1>3
  <1>8. SameSignature(k, f, g) <=>
            /\ Len(f.params) = Len(g.params)
            /\ \A l \in DOMAIN f.params : Same(k, f, g, f.params[l], g.params[l])
            /\ Same(k, f, g, f.ret, g.ret)
    BY SignatureParts
  <1> HIDE DEF ps, qs
  <1>9. SignatureMatches(RequiredFun(k, f), ActualFun(k, g)) <=>
            /\ Len(ps) = Len(qs)
            /\ \A l \in DOMAIN ps : ps[l] = qs[l]
            /\ TraitType(k, f, f.ret) = ImplType(k, g, g.ret)
    <2>1. RequiredFun(k, f).return_ty = TraitType(k, f, f.ret)
          /\ ActualFun(k, g).return_ty = ImplType(k, g, g.ret)
      BY RequiredParts, ActualParts
    <2> QED  BY <2>1 DEF SignatureMatches, ps, qs
  <1>10. CASE Len(f.params) = Len(g.params)
    BY <1>5, <1>6, <1>7, <1>8, <1>9, <1>10
  <1>11. CASE Len(f.params) # Len(g.params)
    BY <1>7, <1>8, <1>9, <1>11
  <1> QED  BY <1>10, <1>11

\* Of an impl's methods with one name there is one.
LEMMA MethodFound ==
    ASSUME NEW k, Comparable(k), DistinctMethods(k), NEW name
    PROVE  find_impl_method(Block(k), name) = {ActualFun(k, g) : g \in {g \in MethodsOf(k) : g.name = name}}
  <1> DEFINE ms == Block(k).methods
             Firsts == {l \in DOMAIN ms : ms[l].name = name
                                          /\ \A q \in 1..(l - 1) : ms[q].name # name}
  <1>1. ms \in Seq(Fun)
    BY ComparableTypes DEF Impl
  <1>2. \A l \in DOMAIN ms : ms[l].name = name => l \in Firsts
    BY <1>1 DEF DistinctMethods
  <1>3. find_impl_method(Block(k), name) = {ActualFun(k, ms[l]) : l \in Firsts}
    BY DEF find_impl_method, ActualFun
  <1>4. {ms[l] : l \in Firsts} = {g \in MethodsOf(k) : g.name = name}
    BY <1>2 DEF MethodsOf
  <1> HIDE DEF Firsts
  <1> QED  BY <1>3, <1>4

\* What the checker finds wrong with the methods of an impl is what is wrong.
LEMMA MethodMeaning ==
    ASSUME NEW k, Comparable(k), DistinctMethods(k), ~ StandsForAll(k), NEW c \in MethodCodes
    PROVE  c \in check_trait_satisfaction(program, Block(k)) <=> BreaksMethodRule(c, k)
  <1> DEFINE tdef == program.trait[TraitOf(k)]
             R == {RequiredFun(k, f) : f \in TraitMethods(k)}
             Found(n) == find_impl_method(Block(k), n)
             Missing == {f \in R : ~ f.has_body /\ Found(f.name) = {}}
             Wrong == {f \in R : \E g \in Found(f.name) : ~ SignatureMatches(f, g)}
  <1>1. HasTrait(k) /\ is_trait(program, TraitOf(k))
    BY DEF Comparable, HasTrait, is_trait, Defined, Origin
  <1>2. TraitRef(Block(k)).name = TraitOf(k)
    BY TraitArgs
  <1> DEFINE tref == TraitRef(Block(k))
             td == program.trait[tref.name]
             R0 == {substitute_fn_def(LowerFun(td.methods[l],
                                               {td.generics[q] : q \in DOMAIN td.generics}),
                                      Subst(td, tref)) : l \in DOMAIN td.methods}
  <1>3. R0 = R
    <2>1. R = {RequiredFun(k, tdef.methods[l]) : l \in DOMAIN tdef.methods}
      BY DEF TraitMethods
    <2>2. td = tdef
      BY <1>2
    <2>3. {td.generics[q] : q \in DOMAIN td.generics} = TraitParams(k) /\ Subst(td, tref) = Sub(k)
      BY <2>2 DEF Sub, TraitParams
    <2>4. R0 = {RequiredFun(k, td.methods[l]) : l \in DOMAIN td.methods}
      <3> HIDE DEF td
      <3> QED  BY <2>3 DEF RequiredFun
    <2> HIDE DEF td, tdef, R, R0
    <2> QED  BY <2>1, <2>2, <2>4
  <1>a. check_trait_satisfaction(program, Block(k))
          = IF ~ is_trait(program, tref.name)
            THEN {"UNKNOWN_TRAIT" : n \in {tref.name} \ program.imports}
            ELSE {"MISSING_TRAIT_METHOD" : f \in
                     {f \in R0 : ~ f.has_body /\ Found(f.name) = {}}}
                 \cup {"TRAIT_METHOD_SIG_MISMATCH" : f \in
                     {f \in R0 : \E g \in Found(f.name) : ~ SignatureMatches(f, g)}}
    BY Zenon DEF check_trait_satisfaction
  <1>4. check_trait_satisfaction(program, Block(k))
          = {"MISSING_TRAIT_METHOD" : f \in Missing}
            \cup {"TRAIT_METHOD_SIG_MISMATCH" : f \in Wrong}
    <2> HIDE DEF R, R0, Found
    <2> QED  BY <1>1, <1>2, <1>3, <1>a
  <1>5. \A f : RequiredFun(k, f).name = f.name /\ RequiredFun(k, f).has_body = f.has_body
    BY RequiredParts
  <1>6. \A n : Found(n) = {ActualFun(k, g) : g \in {g \in MethodsOf(k) : g.name = n}}
    BY MethodFound
  <1> HIDE DEF Found, R0
  <1>7. Missing # {} <=> \E f \in TraitMethods(k) : ~ f.has_body /\ \A g \in MethodsOf(k) : g.name # f.name
    <2>1. \A n : Found(n) = {} <=> \A g \in MethodsOf(k) : g.name # n
      BY <1>6
    <2> QED  BY <1>5, <2>1
  <1>8. Wrong # {} <=> \E f \in TraitMethods(k) : \E g \in MethodsOf(k) :
                           f.name = g.name /\ ~ SameSignature(k, f, g)
    <2>1. ASSUME NEW f \in TraitMethods(k)
          PROVE  (\E d \in Found(f.name) : ~ SignatureMatches(RequiredFun(k, f), d))
                   <=> \E g \in MethodsOf(k) : f.name = g.name /\ ~ SameSignature(k, f, g)
      <3>1. \A g \in MethodsOf(k) :
               SignatureMatches(RequiredFun(k, f), ActualFun(k, g)) <=> SameSignature(k, f, g)
        BY SignatureMeaning
      <3> QED  BY <1>6, <3>1
    <2> QED  BY <1>5, <2>1
  <1> HIDE DEF Missing, Wrong
  <1>9. CASE c = "MISSING_TRAIT_METHOD"
    BY <1>1, <1>4, <1>7, <1>9 DEF BreaksMethodRule
  <1>10. CASE c = "TRAIT_METHOD_SIG_MISMATCH"
    BY <1>1, <1>4, <1>8, <1>10 DEF BreaksMethodRule
  <1> QED  BY <1>9, <1>10 DEF MethodCodes

-----------------------------------------------------------------------------
\* Of every impl examined the checker's findings about its methods are on
\* record, and nothing else about methods is.
MethodInv ==
    \A k \in Checked : \A c \in MethodCodes :
        [code |-> c, impl |-> k] \in diags
          <=> Examined(k) /\ c \in check_trait_satisfaction(program, program.impls[k])

LEMMA MethodStep == IndInv /\ MethodInv /\ [Next]_vars => MethodInv'
  <1> SUFFICES ASSUME IndInv, MethodInv, [Next]_vars,
                      NEW k \in Checked', NEW c \in MethodCodes
               PROVE  [code |-> c, impl |-> k] \in diags'
                        <=> Examined(k)' /\ c \in check_trait_satisfaction(program', program'.impls[k])
    BY DEF MethodInv
  <1> DEFINE d == [code |-> c, impl |-> k]
             Sat == check_trait_satisfaction(program, program.impls[k])
  <1>1. i \in Nat \ {0} /\ diags \subseteq [code : ImplCodes \cup MethodCodes, impl : Checked]
    BY ProgramType DEF IndInv
  <1>2. program' = program
    BY DEF Next, Skip, Blanket, Examine, Next_impl, vars
  <1>3. Examined(k)' <=> Examined(k)
    BY <1>2 DEF Examined
  <1>a. c \notin ImplCodes
    BY DEF ImplCodes, MethodCodes
  <1>4. CASE UNCHANGED vars
    <2>1. k \in Checked /\ diags' = diags
      BY <1>4 DEF vars, Checked
    <2> QED  BY <2>1, <1>2, <1>3 DEF MethodInv
  <1>5. CASE Next
    <2>1. i' = i + 1 /\ Checked' = Checked \cup {i} /\ i \notin Checked
      BY <1>1, <1>5 DEF Next, Skip, Blanket, Examine, Next_impl, Checked
    <2>2. CASE k # i
      <3>1. k \in Checked
        BY <2>1, <2>2
      <3>2. d \in diags' <=> d \in diags
        BY <1>5, <2>2 DEF Next, Skip, Blanket, Examine, Report
      <3> QED  BY <3>1, <3>2, <1>2, <1>3 DEF MethodInv
    <2>3. CASE k = i
      <3>1. d \notin diags
        BY <1>1, <2>1, <2>3
      <3>2. CASE Skip
        <4>1. ~ Examined(k) /\ diags' = diags
          BY <2>3, <3>2 DEF Skip, Examined, TraitName, TargetName, imp
        <4> QED  BY <3>1, <4>1, <1>3
      <3>3. CASE Blanket
        <4>1. ~ Examined(k) /\ diags' = diags \cup {[code |-> "BLANKET_IMPL_NOT_ALLOWED", impl |-> i]}
          BY <2>3, <3>3 DEF Blanket, Examined, imp, Report
        <4> QED  BY <3>1, <4>1, <1>3 DEF MethodCodes
      <3>4. CASE Examine
        <4>1. Examined(k)
          BY <2>3, <3>4 DEF Examine, Examined, TraitName, TargetName, imp
        <4>2. OrphanCodes \cup ConflictCodes \cup SealedCodes \subseteq ImplCodes
          BY DEF OrphanCodes, ConflictCodes, SealedCodes, ImplCodes
        <4>3. d \in diags' <=> c \in OrphanCodes \cup ConflictCodes \cup SealedCodes \cup Sat
          BY <3>1, <2>3, <3>4 DEF Examine, Report, imp
        <4>4. d \in diags' <=> c \in Sat
          BY <4>2, <4>3, <1>a
        <4> QED  BY <4>1, <4>4, <1>2, <1>3
      <3> QED  BY <1>5, <3>2, <3>3, <3>4 DEF Next
    <2> QED  BY <2>2, <2>3
  <1> QED  BY <1>4, <1>5

LEMMA MethodsExact == IndInv /\ MethodInv /\ CliImports => MethodRulesExact
  <1> SUFFICES ASSUME IndInv, MethodInv, CliImports, NEW k \in Checked,
                      Plain(k), DistinctMethods(k), Hygienic(k), NEW c \in MethodCodes
               PROVE  c \in Reported(k) <=> BreaksMethodRule(c, k)
    BY DEF MethodRulesExact
  <1>1. program \in Programs /\ k \in 1..Len(program.impls)
    BY ProgramType DEF IndInv, Checked
  <1>2. c \in Reported(k) <=> Examined(k) /\ c \in check_trait_satisfaction(program, Block(k))
    <2>1. \A d \in diags : d = [code |-> d.code, impl |-> d.impl]
      BY DEF IndInv
    <2>2. c \in Reported(k) <=> [code |-> c, impl |-> k] \in diags
      BY <2>1 DEF Reported
    <2> QED  BY <2>2 DEF MethodInv, Block
  <1>3. Examined(k) <=> ~ StandsForAll(k)
    BY PlainMeaning DEF Examined
  <1>4. CASE StandsForAll(k)
    BY <1>2, <1>3, <1>4 DEF BreaksMethodRule
  <1>5. CASE ~ StandsForAll(k) /\ HasTrait(k)
    BY <1>1, <1>2, <1>3, <1>5, MethodMeaning DEF Comparable
  <1>6. CASE ~ HasTrait(k)
    <2>1. TraitRef(Block(k)).name = TraitOf(k)
      BY PlainMeaning DEF tyref_name, Block
    <2>2. ~ is_trait(program, TraitRef(Block(k)).name)
      BY <1>6, <2>1 DEF HasTrait, is_trait, Defined, Origin
    <2>3. c \notin check_trait_satisfaction(program, Block(k))
      BY <2>2 DEF check_trait_satisfaction, MethodCodes
    <2> QED  BY <1>2, <1>6, <2>3 DEF BreaksMethodRule
  <1> QED  BY <1>4, <1>5, <1>6

\* For all programs valenc hands over: the pass reports a missing or a
\* mismatching method exactly when the impl lacks a method of its trait or has
\* it with a signature that means something else, for every trait, every
\* arguments given for its type parameters and every list of methods.
THEOREM MethodRulesCorrect ==
    ASSUME CliImports
    PROVE  Spec => []MethodRulesExact
  <1>1. Init => MethodInv
    BY DEF Init, MethodInv, Checked
  <1>2. IndInv /\ MethodInv /\ [Next]_vars => MethodInv'
    BY MethodStep
  <1>3. IndInv /\ MethodInv => MethodRulesExact
    BY MethodsExact
  <1> QED  BY <1>1, <1>2, <1>3, SpecInv, PTL DEF Spec
=============================================================================
