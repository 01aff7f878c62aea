------------------------------ MODULE Matching ------------------------------
(***************************************************************************)
(* The life of one match expression: it is judged by the type checker and  *)
(* the exhaustiveness pass, lowered if both accept it, and executed on     *)
(* values of the type that is matched.                                     *)
(*                                                                         *)
(* A program is [place, within, decls, scrutinee, ty, arms]: where the     *)
(* match stands, the declarations before it, what is matched and its real  *)
(* type, and the arms, each [pat, guarded].                                *)
(***************************************************************************)
EXTENDS Exhaustive, MatchCode, Integers

CONSTANTS Programs

VARIABLES prog, phase, verdict, bound, code, value, guards, pc, slots, result
vars == <<prog, phase, verdict, bound, code, value, guards, pc, slots, result>>

Unset == [cls |-> <<>>]

(* How a run ends that takes no arm.                                       *)
Missed == -1
NoSuchClass == -2
NoSuchMethod == -3

Init ==
    /\ prog \in Programs
    /\ phase = "parsed" /\ verdict = "" /\ bound = <<>> /\ code = <<>>
    /\ value = Unset /\ guards = <<>> /\ pc = 0 /\ slots = <<>> /\ result = 0

(* The type checker comes first; what it rejects is not judged further.    *)
Check ==
    /\ phase = "parsed"
    /\ bound' = synth_match(prog.arms, prog.ty)
    /\ verdict' = IF \A i \in DOMAIN bound' : bound'[i].ok THEN check_exhaustiveness(prog)
                  ELSE "ill-typed"
    /\ phase' = "checked"
    /\ UNCHANGED <<prog, code, value, guards, pc, slots, result>>

Lower ==
    /\ phase = "checked" /\ verdict \in {"accepted", "unjudged"}
    /\ code' = lower_match(prog.arms, prog.ty)
    /\ phase' = "lowered"
    /\ UNCHANGED <<prog, verdict, bound, value, guards, pc, slots, result>>

(* The program reaches the match with some value; the guards are what they *)
(* happen to be.                                                           *)
Enter ==
    /\ phase = "lowered"
    /\ \E v \in ValuesOf(prog.ty) :
       \E g \in SUBSET {i \in DOMAIN prog.arms : prog.arms[i].guarded} :
            /\ value' = v /\ guards' = g
            /\ slots' = (0 :> v)
    /\ pc' = 1
    /\ phase' = "running"
    /\ UNCHANGED <<prog, verdict, bound, code, result>>

Op == code[pc]
Running(op) == phase = "running" /\ pc \in DOMAIN code /\ Op.op = op
LabelAt(l) == CHOOSE i \in DOMAIN code : code[i].op = "label" /\ code[i].l = l
Goto(l) == pc' = LabelAt(l)
Step == pc' = pc + 1
Still == UNCHANGED <<prog, phase, verdict, bound, code, value, guards>>

Fails(why) == result' = why /\ Goto(1)

(* The class is looked up when the test is first executed.                 *)
TestClass == /\ Running("is")
             /\ IF ~ClassExists(Op.cls) THEN Fails(NoSuchClass)
                ELSE /\ IF InstanceOf(slots[Op.slot].cls, Op.cls) THEN Step ELSE Goto(Op.fail)
                     /\ UNCHANGED result
             /\ UNCHANGED slots /\ Still
TestLiteral == /\ Running("eq")
               /\ IF slots[Op.slot] = [cls |-> <<"Bool">>, is |-> Op.is] THEN Step ELSE Goto(Op.fail)
               /\ UNCHANGED <<slots, result>> /\ Still
TestGuard == /\ Running("guard")
             /\ IF Op.arm \in guards THEN Step ELSE Goto(Op.fail)
             /\ UNCHANGED <<slots, result>> /\ Still
Copy == /\ Running("move") \/ Running("cast")
        /\ slots' = (IF Op.op = "move" THEN Op.to :> slots[Op.from] ELSE Op.to :> slots[Op.slot]) @@ slots
        /\ Step
        /\ UNCHANGED result /\ Still
(* An accessor the class does not have ends the run with an error.         *)
CallAccessor ==
    /\ Running("get")
    /\ IF HasField(slots[Op.slot], Op.field)
       THEN /\ slots' = Op.to :> Field(slots[Op.slot], Op.field) @@ slots
            /\ Step /\ UNCHANGED result
       ELSE Fails(NoSuchMethod) /\ UNCHANGED slots
    /\ Still
Jump == /\ Running("goto") \/ Running("label")
        /\ IF Op.op = "goto" THEN Goto(Op.to) ELSE Step
        /\ UNCHANGED <<slots, result>> /\ Still
TakeArm == /\ Running("body")
           /\ result' = Op.arm
           /\ phase' = "in body"
           /\ UNCHANGED <<prog, verdict, bound, code, value, guards, pc, slots>>
(* The body runs and the match is left by the jump behind it.              *)
LeaveArm == /\ phase = "in body"
            /\ phase' = "running" /\ Step
            /\ UNCHANGED <<prog, verdict, bound, code, value, guards, slots, result>>
(* Past the end of the match: no arm has been taken if there is no result. *)
Finish == /\ phase = "running" /\ pc = Len(code) + 1
          /\ phase' = "done"
          /\ result' = IF result = 0 THEN Missed ELSE result
          /\ UNCHANGED <<prog, verdict, bound, code, value, guards, pc, slots>>

Next == \/ Check \/ Lower \/ Enter \/ TestClass \/ TestLiteral \/ TestGuard \/ Copy
        \/ CallAccessor \/ Jump \/ TakeArm \/ LeaveArm \/ Finish

Spec == Init /\ [][Next]_vars
-----------------------------------------------------------------------------
(***************************************************************************)
(* What the properties are stated for.                                     *)
(***************************************************************************)
RECURSIVE Resolved(_, _), Irrefutable(_, _), BindsInOr(_), BoundNames(_)

(* Every class is named in full, as the lowering does: an enum's variant   *)
(* with its enum or by a dot, a subtype by its own name and `(..)`, without*)
(* fields (`Card(number)`, as in guide 05, binds nothing in the checker    *)
(* and calls an accessor a class does not have); every field exists; and   *)
(* no name that is to be bound is that of a class.                         *)
FieldsResolved(fields, declared) ==
    \A i \in DOMAIN fields :
        IF fields[i].pat = Shorthand THEN i \in DOMAIN declared
        ELSE \E j \in DOMAIN declared : /\ declared[j].name = fields[i].name
                                        /\ Resolved(fields[i].pat, declared[j].ty)
VariantInFull(segs) ==
    Len(segs) = 2 /\ segs[1] \in EnumNames /\ segs[2] \in VariantNames(segs[1])
Resolved(p, ty) ==
    CASE p.k = "bind" -> p.name \notin MemberNames(ty) \cup Below(ty)
      [] p.k = "path" -> ty \in EnumNames /\ VariantInFull(p.segs)
      [] p.k = "struct" ->
            \/ /\ ty \in EnumNames /\ VariantInFull(p.segs)
               /\ FieldsResolved(p.fields, PathFields(p.segs))
            \/ Len(p.segs) = 1 /\ p.segs[1] \in Below(ty) /\ p.fields = <<>>
      [] p.k = "short" -> /\ ty \in EnumNames /\ p.variant \in VariantNames(ty)
                          /\ FieldsResolved(p.fields, resolve_variant_field_types(ty, p.variant))
      [] p.k = "or" -> \A i \in DOMAIN p.alts : Resolved(p.alts[i], ty)
      [] p.k = "at" -> Resolved(p.pat, ty)
      [] OTHER -> TRUE

(* The pattern tests nothing below the class of what is matched.           *)
Irrefutable(p, top) ==
    CASE p.k \in {"wild", "bind"} -> TRUE
      [] p.k \in {"struct", "short"} ->
            top /\ \A f \in ToSet(p.fields) : f.pat = Shorthand \/ Irrefutable(f.pat, FALSE)
      [] p.k = "or" -> \A i \in DOMAIN p.alts : Irrefutable(p.alts[i], top)
      [] p.k = "at" -> Irrefutable(p.pat, top)
      [] OTHER -> top

BoundNames(p) ==
    CASE p.k = "bind" -> <<p.name>>
      [] p.k = "at"   -> <<p.name>> \o BoundNames(p.pat)
      [] p.k \in {"struct", "short"} ->
            FlattenSeq([i \in DOMAIN p.fields |->
                IF p.fields[i].pat = Shorthand THEN <<p.fields[i].name>>
                ELSE BoundNames(p.fields[i].pat)])
      [] OTHER -> <<>>
BindsInOr(p) ==
    CASE p.k = "or" -> collect_pattern_names(p) # {}
      [] p.k = "at" -> BindsInOr(p.pat)
      [] p.k \in {"struct", "short"} ->
            \E f \in ToSet(p.fields) : f.pat # Shorthand /\ BindsInOr(f.pat)
      [] OTHER -> FALSE

(* An arm without a guard names a class that is not a member of the type,  *)
(* but above one, or below one that is itself a sealed class.              *)
RECURSIVE NamesBesideMembers(_)
NamesBesideMembers(p) ==
    CASE p.k = "struct" ->
            Last(p.segs) \notin MemberNames(prog.ty) /\ \E m \in MemberNames(prog.ty) :
                \/ InstanceOf(<<m>>, p.segs)
                \/ m \in DOMAIN Sealed /\ InstanceOf(p.segs, <<m>>)
      [] p.k = "or" -> \E i \in DOMAIN p.alts : NamesBesideMembers(p.alts[i])
      [] p.k = "at" -> NamesBesideMembers(p.pat)
      [] OTHER -> FALSE
CoversBesideMembers == \E i \in Unguarded(prog.arms) : NamesBesideMembers(prog.arms[i].pat)

AllResolved == \A i \in DOMAIN prog.arms : Resolved(prog.arms[i].pat, prog.ty)
TypeIsKnown ==
    infer_scrutinee_type(prog.scrutinee, check_block(prog.decls)) = prog.ty
Meets(v) == {i \in DOMAIN prog.arms : Matches(prog.arms[i].pat, v, prog.ty)}

(***************************************************************************)
(* Properties.                                                             *)
(***************************************************************************)

(* A match the pass accepts, knowing the type, has for every value an arm  *)
(* without a guard: an arm with a guard covers nothing, an or-pattern      *)
(* covers what its alternatives do, a variant of another enum nothing of   *)
(* this one.  (The pass looks at no field: fields that may not match are   *)
(* left out, as are names the lowering reads in another way.)              *)
AcceptedIsCovered ==
    (/\ verdict = "accepted" /\ phase = "checked" /\ TypeIsKnown /\ AllResolved
     /\ \A i \in DOMAIN prog.arms : Irrefutable(prog.arms[i].pat, TRUE)) =>
        \A v \in ValuesOf(prog.ty) : Meets(v) \cap Unguarded(prog.arms) # {}

(* A match the pass rejects, knowing the type, really leaves a value       *)
(* without an arm when the guards fail.  (The pass asks for the direct     *)
(* subclasses of a sealed class by name.  A match that names the class     *)
(* itself instead, or the subclasses of a subclass that is sealed too, may *)
(* cover everything and is rejected all the same: these are left out.)     *)
RejectedIsNotCovered ==
    (verdict = "rejected" /\ phase = "checked" /\ TypeIsKnown /\ ~CoversBesideMembers) =>
        \E v \in ValuesOf(prog.ty) : Meets(v) \cap Unguarded(prog.arms) = {}

(* The body of an arm finds under every name the checker gave it a slot    *)
(* this run has written, with a value of the type the checker gave it:     *)
(* both count the fields that are only named by position, the others by    *)
(* name, and both let names of a failed arm go.  (Not so for names bound   *)
(* in an or-pattern, whose alternatives are lowered to different slots, or *)
(* bound twice in a pattern, where the two disagree on which one counts,   *)
(* or for the fields of a subtype of a sealed class, see Resolved.)        *)
BodySeesWhatWasBound ==
    (phase = "in body" /\ AllResolved /\ ~BindsInOr(prog.arms[result].pat)
     /\ IsInjective(BoundNames(prog.arms[result].pat))) =>
        \A n \in DOMAIN bound[result].env :
            /\ n \in DOMAIN Op.locals /\ Op.locals[n] \in DOMAIN slots
            /\ slots[Op.locals[n]] \in ValuesOf(bound[result].env[n])

(* The code of a match does what a match promises: the first arm whose     *)
(* pattern means the value and whose guard holds is taken, and no other.   *)
Entered == phase \in {"running", "in body", "done"}
Abstract == INSTANCE FirstArm WITH
    applicable <- IF Entered THEN {i \in Meets(value) : prog.arms[i].guarded => i \in guards} ELSE {},
    taken <- IF AllResolved THEN result ELSE 0
TakesTheFirstArm == Abstract!FirstSpec

(* The guide writes the variants of Option bare, `Some(u)`, and the        *)
(* checker and the exhaustiveness pass read them so: of a match that is    *)
(* accepted, written in full or in that way, no test fails to find a class.*)
AsInTheGuide(p) ==
    \/ Resolved(p, prog.ty)
    \/ p.k = "struct" /\ Len(p.segs) = 1 /\ p.segs[1] \in MemberNames(prog.ty)
BareVariantsAreFound ==
    (verdict = "accepted" /\ \A i \in DOMAIN prog.arms : AsInTheGuide(prog.arms[i].pat)) =>
        result # NoSuchClass
=============================================================================
