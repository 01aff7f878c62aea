------------------------------- MODULE Lowering -------------------------------
(***************************************************************************)
(* The lowering of method bodies to JVM code (crates/valen-codegen,        *)
(* expr.rs, with the frame placement of emit.rs), run side by side with    *)
(* the two things its output must agree with:                              *)
(*                                                                         *)
(*   - the scopes of the type checker (TypeEnv, ty.rs), which decided what *)
(*     each name of the body means;                                        *)
(*   - the verifier of the JVM, which accepts a method only when every way *)
(*     into a label has the operand stack and the locals that the          *)
(*     StackMapTable frame of the label declares.                          *)
(*                                                                         *)
(* The body is any well-typed one of the forms of some menu.  `todo` is *)
(* the rest of the lowering: what is still to be lowered, instructions     *)
(* still to be emitted and changes still to be made to ExprLowering.  An   *)
(* expression is chosen when its turn comes.                               *)
(*                                                                         *)
(* Int stands for the types that are ints to the verifier, Long for longs  *)
(* and doubles, which take two slots (a float is like them but for that),  *)
(* Ref for the objects.                                                    *)
(***************************************************************************)
EXTENDS Integers, Sequences, SequencesExt, FiniteSets

CONSTANTS UserName,  \* names of the source's variables
          NoLabel,   \* no label at the end of the code
          Live,      \* a frame of the locals as they are
          Menus,     \* bound: forms a body is made of, and how many
          Avoid      \* shapes of source the body does not have, see Fragment

\* Slots bound to names no source can spell.
InternalName == {"__match_scrutinee", "__let_else_scrutinee", "__if_let_scrutinee",
                 "__while_let_scrutinee", "__java_iter"}
Name == UserName \cup InternalName
NoName == "unnamed"

FormName == {"block", "call", "assign", "comparison", "and", "if", "match",
             "iflet", "while", "whilelet", "try", "range", "java", "iterator",
             "let", "letelse", "expr", "drop"}

Shape == {"stacked", "deadCode", "sharedLabel", "lastArm", "nested", "leak",
          "letElse", "orBinding", "shadow", "unnamedSlot", "noLocals", "breakValue",
          "bodyValue", "wideTest"}

ASSUME NameAssumption == UserName \cap (InternalName \cup {NoName}) = {}
ASSUME LabelAssumption == NoLabel \notin Nat /\ Live \notin Nat
ASSUME BoundAssumption ==
    /\ Menus \subseteq [forms : SUBSET FormName, fuel : Nat]
    /\ Avoid \subseteq Shape

VARIABLES
    \* ExprLowering
    todo, locals, next_slot, next_label, scope_stack, loop_stack,
    temps,      \* Rust locals that hold a slot: temp_slot, iter_slot, ...
    saved,      \* Rust locals that hold a locals_snapshot
    return_ty,
    \* the type checker
    env,        \* TypeEnv.scopes, with the slot of each declaration
    \* the emitted code and its verifier
    flow,       \* the verifier's state at the end of the code so far
    position,   \* label whose frame is at the end of the code, or none
    frames,     \* label -> declared frame
    last_regs,  \* locals of the last frame
    alias,      \* label -> the label placed before it at the same position
    arrivals,   \* label -> states in which some jump goes there
    faults,     \* what the verifier rejects other than at a label
    menu        \* forms of the body still to come, and how many

loweringVars == <<todo, locals, next_slot, next_label, scope_stack, loop_stack,
                  temps, saved, return_ty>>
codeVars == <<flow, position, frames, last_regs, alias, arrivals, faults>>
vars == <<loweringVars, env, codeVars, menu>>

-----------------------------------------------------------------------------
(* Data                                                                    *)

Val == {"Int", "Long", "Ref"}
Ty == Val \cup {"Unit", "Nothing"}
Slot == Nat
Label == Nat

\* Faulty: longs and doubles counted as one slot.
Faulty_slot_count(ty) == 1

\* JvmType::slot_count
slot_count(ty) == IF ty = "Long" THEN 2 ELSE 1

Binding == [slot : Slot, ty : Val]
NoBinding == [slot |-> 0, ty |-> "Nothing"]

EmptyMap == [i \in {} |-> 0]
With(f, k, v) == [i \in DOMAIN f \cup {k} |-> IF i = k THEN v ELSE f[i]]
Without(f, k) == [i \in DOMAIN f \ {k} |-> f[i]]

\* Where an expression stands: what it is nested in, and what the lowering
\* emits right after it (a label, the end label of the if it is the else of, a
\* jump at the end of a scope, nothing at the end of the body, other code).
\* Other code follows one of type Unit only if it is a statement, or the tail of
\* a block that is one: there the type checker expects no type.
Context == {"loop", "operand", "cond", "letelse"}
After == {"label", "else", "end", "exit", "code"}

-----------------------------------------------------------------------------
(* The fragment                                                            *)

\* What Avoid keeps out of the body.  Each is a shape the type checker accepts
\* and whose code the verifier rejects.
\*   stacked      a form with labels while operands are on the stack: its
\*                frames declare an empty one
\*   deadCode     return, break, continue before other code of the lowering:
\*                what follows them has no frame
\*   sharedLabel  two labels at one position: only the first frame is kept
\*   lastArm      a value match whose last arm may fail: it fails to the end
\*                label without a value
\*   nested       a match in an arm of a match (if let in if let, ...): the inner
\*                temp takes the name of the outer one, whose slot gets lost
\*   leak         a temp allocated under a condition or a while let stays in
\*                the locals of code that did not run it; allocated again in
\*                the head of a loop, it drops a slot the head's frame has
\*   letElse      labels in an else block, which sees the pattern's bindings
\*   orBinding    bindings in an or-pattern: each alternative has a slot
\*   shadow       labels where a name of an enclosing scope is hidden: their
\*                frames lack the hidden slot, which frames further out have
\*   unnamedSlot  for over a range or an iterator: its slot has no name and is
\*                missing from the loop's own frames
\*   breakValue   break with a value, which stays on the stack
\*   bodyValue    a value at the end of the body of a loop, or of an if without
\*                an else that is a statement: it stays on the stack
\*   wideTest     a literal or a range as a pattern for a long, a float or a
\*                double, tested with a comparison of ints
\*   noLocals     no parameter: a frame of no locals is written as "the same
\*                locals as before"
Avoids(shape) == shape \in Avoid

-----------------------------------------------------------------------------
(* Steps of a lowering                                                     *)

E(ty, in, next) == [do |-> "expr", ty |-> ty, in |-> in, next |-> next]
Else(ty, in) == [do |-> "else", ty |-> ty, in |-> in, next |-> "else"]
Stmts(ty, in, next) == [do |-> "stmts", ty |-> ty, in |-> in, next |-> next]

Do(what) == [do |-> what]
PushScope == Do("push_scope")
PopScope == Do("pop_scope")
Enter == Do("enter")               \* TypeEnv::push_scope
Leave == Do("leave")               \* TypeEnv::pop_scope

Op(pop, push) == [do |-> "op", pop |-> pop, push |-> push]
Push(ty) == Op(<<>>, <<ty>>)
LoadTemp(k) == [do |-> "load", temp |-> k]
LoadName(n) == [do |-> "loadName", name |-> n]
AssignTo(n) == [do |-> "assign", name |-> n]
\* A new slot, bound to a name (alloc_local) or to none, and a store to it.
StoreNew(k, n, ty) == [do |-> "store", temp |-> k, name |-> n, ty |-> ty]
StoreTemp(k, ty) == StoreNew(k, NoName, ty)
Define(n, k) == [do |-> "define", name |-> n, temp |-> k]
Goto(l) == [do |-> "goto", label |-> l]
Branch(pop, l) == [do |-> "branch", pop |-> pop, label |-> l]
Return(ty) == [do |-> "return", ty |-> ty]
\* A label and the frame at it: emit_frame, or emit_frame_with_locals.
Place(l, from, stack) == [do |-> "place", label |-> l, from |-> from, stack |-> stack]
Snapshot(k) == [do |-> "snapshot", key |-> k]
PushLoop(brk, cont) == [do |-> "push_loop", brk |-> brk, cont |-> cont]
PopLoop == Do("pop_loop")

StackOf(ty) == IF ty \in Val THEN <<ty>> ELSE <<>>

\* lower_body with check_block's scope, which the end of the statements closes.
Body(ty, in, next) == <<PushScope, Enter, Stmts(ty, in, next)>>

-----------------------------------------------------------------------------
(* Patterns                                                                *)

Pat(kind, name, sub) == [kind |-> kind, name |-> name, sub |-> sub]
NoSub == "no pattern"
SimplePatterns(t) ==
    {Pat("wildcard", NoName, NoSub)}
    \cup {Pat("binding", n, NoSub) : n \in UserName}
    \cup (IF t = "Long" /\ Avoids("wideTest") THEN {}
          ELSE {Pat("literal", NoName, NoSub),
                Pat(IF t = "Ref" THEN "path" ELSE "range", NoName, NoSub)})

\* Alternatives bind the same names.
Patterns(t) ==
    SimplePatterns(t)
    \cup {Pat("at", n, p) : n \in UserName,
            p \in {q \in SimplePatterns(t) : q.kind \in {"literal", "path"}}}
    \cup {Pat("or", p.name, p) : p \in
            {q \in SimplePatterns(t) : q.kind \in {"literal", "path", "binding"}}}
    \cup (IF t = "Ref" THEN {Pat("struct", n, p) : n \in UserName,
                               p \in {q \in SimplePatterns("Int") : q.name = NoName}}
                       ELSE {})

Irrefutable(p) == p.kind \in {"wildcard", "binding"}
\* Guards are tried on arms that fail in no other way.
Guards(p) == IF Irrefutable(p) THEN BOOLEAN ELSE {FALSE}
Bound(p) == {p.name} \cap UserName

\* lower_pattern_check without its recursion: on the value of type t in
\* slot k, going to `fail`; a binding's slot is remembered under b.
lower_simple_pattern(p, k, t, fail, b) ==
    CASE p.kind = "wildcard" -> <<>>
      [] p.kind = "literal" /\ t # "Ref" ->
            <<LoadTemp(k), Push(t), Branch(<<"Int", "Int">>, fail)>>
      [] p.kind = "literal" /\ t = "Ref" ->
            <<LoadTemp(k), Push(t), Op(<<t, t>>, <<"Int">>), Branch(<<"Int">>, fail)>>
      [] p.kind = "binding" -> <<LoadTemp(k), StoreNew(b, p.name, t)>>
      [] p.kind = "path" ->
            <<LoadTemp(k), Op(<<t>>, <<"Int">>), Branch(<<"Int">>, fail)>>
      [] p.kind = "range" ->
            <<LoadTemp(k), Push(t), Branch(<<"Int", "Int">>, fail),
              LoadTemp(k), Push(t), Branch(<<"Int", "Int">>, fail)>>

\* A variant with a tested field and one bound by name: the test and the load
\* of both fields come first, the binding is published after all of them.
lower_struct_pattern(p, k, fail, b) ==
    <<LoadTemp(k), Op(<<"Ref">>, <<"Int">>), Branch(<<"Int">>, fail),
      LoadTemp(k), StoreTemp(b + 1, "Ref"),
      LoadTemp(b + 1), Op(<<"Ref">>, <<"Long">>), StoreTemp(b + 2, "Long"),
      LoadTemp(b + 1), Op(<<"Ref">>, <<"Int">>), StoreTemp(b + 3, "Int")>>
    \o lower_simple_pattern(p.sub, b + 3, "Int", fail, b)
    \o <<LoadTemp(b + 2), StoreNew(b, p.name, "Long")>>

\* Every alternative but the last falls to the next one.
lower_or_pattern(p, k, t, fail, b) ==
    LET success == b + 4  next_try == b + 5
    IN  lower_simple_pattern(p.sub, k, t, next_try, b)
        \o <<Goto(success), Place(next_try, Live, <<>>)>>
        \o lower_simple_pattern(p.sub, k, t, fail, b)
        \o <<Place(success, Live, <<>>)>>

lower_pattern_check(p, k, t, fail, b) ==
    CASE p.kind = "struct" -> lower_struct_pattern(p, k, fail, b)
      [] p.kind = "or" -> lower_or_pattern(p, k, t, fail, b)
      [] p.kind = "at" -> lower_simple_pattern(p.sub, k, t, fail, b)
                          \o <<LoadTemp(k), StoreNew(b, p.name, t)>>
      [] OTHER -> lower_simple_pattern(p, k, t, fail, b)

\* bind_pattern
bind_pattern(p, b) == IF Bound(p) = {} THEN <<>> ELSE <<Define(p.name, b)>>

PatternKeys == 6         \* keys and labels a pattern takes
-----------------------------------------------------------------------------
(* The body: well-typed forms, within the fragment                         *)

\* locals_snapshot: every named local counts as initialised; its length is
\* that of the whole local array.
locals_snapshot ==
    [len |-> next_slot,
     regs |-> [s \in {locals[n].slot : n \in DOMAIN locals} |->
                 (CHOOSE b \in {locals[n] : n \in DOMAIN locals} : b.slot = s).ty]]

\* The parameters and the outermost block count as one scope.
Hidden == \E i, j \in DOMAIN env : i < j /\ j > 2 /\ DOMAIN env[i] \cap DOMAIN env[j] # {}

MayPlace(e) == /\ Avoids("shadow") => ~ Hidden
               /\ Avoids("stacked") => "operand" \notin e.in
               /\ Avoids("sharedLabel") => e.next # "label"
               /\ Avoids("letElse") => "letelse" \notin e.in

\* A loop whose head is at a label that is there already.
MayLoop(e) ==
    /\ MayPlace(e)
    /\ Avoids("sharedLabel") =>
          \/ position = NoLabel
          \/ frames[position] = [stack |-> <<>>, regs |-> locals_snapshot.regs]

\* The temp of the same name is not of an enclosing scope.
MayHold(temp) ==
    Avoids("nested") =>
       \/ temp \notin DOMAIN locals
       \/ \E i \in DOMAIN Last(scope_stack) : Last(scope_stack)[i].name = temp
MayLeak(e) == Avoids("leak") => "cond" \notin e.in
MayDiverge(e) == Avoids("deadCode") => e.next \in {"label", "exit"}
MayMatch(p) == Avoids("orBinding") => p.kind # "or" \/ Bound(p) = {}

Visible == UNION {DOMAIN env[i] : i \in DOMAIN env}
Lookup(n) == env[Max({i \in DOMAIN env : n \in DOMAIN env[i]})][n]

\* Local variables, and literals of the types no variable has.
Atoms(e) ==
    LET readable == {n \in Visible : Lookup(n).ty = e.ty}
    IN  {<<LoadName(n)>> : n \in readable}
        \cup (IF e.ty \in Val /\ readable = {} THEN {<<Push(e.ty)>>} ELSE {})
        \cup (IF /\ e.ty = "Unit"
                 /\ Avoids("sharedLabel") /\ e.next = "label" => position = NoLabel
                THEN {<<>>} ELSE {})

Diverging(e) ==
    (IF MayDiverge(e)
       THEN (IF return_ty = "Unit" THEN {<<Return("Unit")>>}
             ELSE {<<E(return_ty, e.in, "code"), Return(return_ty)>>})
            \cup (IF "loop" \notin e.in THEN {}
                  ELSE {<<Do("break")>>, <<Do("continue")>>}
                       \cup (IF Avoids("breakValue") THEN {}
                             ELSE {<<E(t, e.in, "code"), Do("break")>> : t \in Val}))
       ELSE {})

\* Calls and arithmetic: the operands in order, then one instruction.  A
\* constructor or variant has the new object on the stack before them, twice;
\* print has System.out there.
lower_call(e) ==
    {<<E(t1, e.in, "code"), E(t2, e.in \cup {"operand"}, "code"),
       Op(<<t1, t2>>, StackOf(e.ty))>> : t1, t2 \in Val}
    \cup (IF e.ty # "Ref" THEN {}
          ELSE {<<Op(<<>>, <<"Ref", "Ref">>), E(t, e.in \cup {"operand"}, "code"),
                  Op(<<"Ref", t>>, <<>>)>> : t \in Val})
    \cup (IF e.ty # "Unit" THEN {}
          ELSE {<<Push("Ref"), E(t, e.in \cup {"operand"}, "code"),
                  Op(<<"Ref", t>>, <<>>)>> : t \in Val})

lower_assign(e) ==
    IF e.ty # "Unit" THEN {}
    ELSE {<<E(Lookup(n).ty, e.in, "code"), AssignTo(n)>> : n \in Visible}

lower_comparison(e, L) ==
    IF e.ty # "Int" \/ ~ MayPlace(e) THEN {}
    ELSE {<<E(t, e.in, "code"), E(t, e.in \cup {"operand"}, "code")>>
          \o (IF t = "Long" THEN <<Op(<<t, t>>, <<"Int">>), Branch(<<"Int">>, L)>>
                            ELSE <<Branch(<<t, t>>, L)>>)
          \o <<Push("Int"), Goto(L + 1), Place(L, Live, <<>>),
               Push("Int"), Place(L + 1, Live, <<"Int">>)>> : t \in Val}

\* Faulty: the frame at the end without the value.
Faulty_lower_short_circuit(e, L) ==
    IF e.ty # "Int" \/ ~ MayPlace(e) THEN {}
    ELSE {<<E("Int", e.in, "code"), Branch(<<"Int">>, L),
            E("Int", e.in \cup {"cond"}, "code"), Goto(L + 1),
            Place(L, Live, <<>>), Push("Int"), Place(L + 1, Live, <<>>)>>}

\* lower_short_circuit_and, lower_short_circuit_or
lower_short_circuit(e, L) ==
    IF e.ty # "Int" \/ ~ MayPlace(e) THEN {}
    ELSE {<<E("Int", e.in, "code"), Branch(<<"Int">>, L),
            E("Int", e.in \cup {"cond"}, "code"), Goto(L + 1),
            Place(L, Live, <<>>), Push("Int"), Place(L + 1, Live, <<"Int">>)>>}

\* The types a body may have of which no type is expected.
AnyBody == IF Avoids("bodyValue") THEN {"Unit"} ELSE {"Unit"} \cup Val

\* Without an else there is no end label, and a type is expected of the body only
\* if one is expected of the if.
lower_if(e, L) ==
    IF ~ MayPlace(e) THEN {}
    ELSE LET cond == E("Int", e.in \cup {"cond"}, "code")
             head == <<Snapshot(L), cond, Branch(<<"Int">>, L), PushScope>>
         IN  (IF e.ty # "Unit" THEN {}
              ELSE {head \o Body(t, e.in, "label") \o <<PopScope, Place(L, L, <<>>)>> :
                      t \in IF e.next = "code" THEN AnyBody ELSE {"Unit"}})
             \cup {head \o Body(e.ty, e.in, "end")
                   \o <<PopScope, Goto(L + 1), Place(L, L, <<>>),
                        PushScope, Else(e.ty, e.in), PopScope,
                        Place(L + 1, L, StackOf(e.ty))>>}

\* One arm: what fails goes to `next_arm`.
lower_arm(p, guarded, k, t, next_arm, b, e) ==
    <<PushScope, Enter>>
    \o lower_pattern_check(p, k, t, next_arm, b) \o bind_pattern(p, b)
    \o (IF guarded THEN <<E("Int", e.in, "code"), Branch(<<"Int">>, next_arm)>> ELSE <<>>)
    \o <<E(e.ty, e.in, e.next), Leave, PopScope>>

\* Two arms; the second fails to the end label.
lower_match(e, L) ==
    IF ~ (MayPlace(e) /\ MayHold("__match_scrutinee") /\ MayLeak(e)) THEN {}
    ELSE LET end == L + 1  next_arm == L + 2
             first == [e EXCEPT !.next = "end"]
             last == [e EXCEPT !.next = "label"]
             FirstArms(t) == UNION {{p} \X Guards(p) : p \in {x \in Patterns(t) : MayMatch(x)}}
             LastArms(t) == IF Avoids("lastArm") /\ e.ty \in Val
                              THEN {q \in SimplePatterns(t) : Irrefutable(q)} \X {FALSE}
                              ELSE UNION {{q} \X Guards(q) : q \in SimplePatterns(t)}
         IN  UNION {{<<E(t, e.in, "code"), StoreNew(L, "__match_scrutinee", t), Snapshot(L)>>
                     \o lower_arm(a[1], a[2], L, t, next_arm, L + 3, first)
                     \o <<Goto(end), Place(next_arm, L, <<>>)>>
                     \o lower_arm(q[1], q[2], L, t, end, L + 3 + PatternKeys, last)
                     \o <<Place(end, L, StackOf(e.ty))>> :
                       a \in FirstArms(t), q \in LastArms(t)} : t \in Val}

lower_if_let(e, L) ==
    IF \/ ~ (MayPlace(e) /\ MayHold("__if_let_scrutinee") /\ MayLeak(e))
       \/ Avoids("sharedLabel") /\ e.next = "else"
      THEN {}
    ELSE LET Scrutinised(t) ==
               <<E(t, e.in, "code"), StoreNew(L, "__if_let_scrutinee", t), Snapshot(L),
                 PushScope, Enter>>
             Matched(p, t) ==
               lower_pattern_check(p, L, t, L + 1, L + 3) \o bind_pattern(p, L + 3)
               \o Body(e.ty, e.in, "end")
               \o <<Leave, PopScope, Goto(L + 2), Place(L + 1, L, <<>>)>>
             Otherwise == {<<Else(e.ty, e.in)>>} \cup (IF e.ty = "Unit" THEN {<<>>} ELSE {})
         IN  UNION {{Scrutinised(t) \o Matched(p, t) \o s
                     \o <<Place(L + 2, L, StackOf(e.ty))>> :
                       s \in Otherwise, p \in {x \in Patterns(t) : MayMatch(x)}} :
                    t \in Val}

\* while and loop, whose frames take the locals as they are.  No type is expected
\* of the body of a loop.
lower_while(e, L) ==
    IF e.ty # "Unit" \/ ~ MayLoop(e) THEN {}
    ELSE LET Loop(cond, t) == <<Place(L, Live, <<>>)>> \o cond
                              \o <<PushLoop(L + 1, L), PushScope>>
                              \o Body(t, e.in \cup {"loop"}, "end")
                              \o <<PopScope, PopLoop, Goto(L), Place(L + 1, Live, <<>>)>>
             cond == <<E("Int", e.in \cup {"cond"}, "code"), Branch(<<"Int">>, L + 1)>>
         IN  {Loop(cond, "Unit")} \cup {Loop(<<>>, t) : t \in AnyBody}

\* The scrutinee's name is allocated outside of the loop's scope.
lower_while_let(e, L) ==
    IF e.ty # "Unit" \/ ~ (MayLoop(e) /\ MayHold("__while_let_scrutinee"))
       \/ (Avoids("leak") /\ e.next # "end") THEN {}
    ELSE UNION {{<<Snapshot(L), Place(L, L, <<>>), E(t, e.in \cup {"cond"}, "code"),
                   StoreNew(L + 2, "__while_let_scrutinee", t), PushScope, Enter>>
                 \o lower_pattern_check(p, L + 2, t, L + 1, L + 3)
                 \o bind_pattern(p, L + 3)
                 \o <<PushLoop(L + 1, L)>> \o Body("Unit", e.in \cup {"loop"}, "end")
                 \o <<PopLoop, Leave, PopScope, Goto(L), Place(L + 1, L, <<>>)>> :
                   p \in {x \in Patterns(t) : MayMatch(x)}} : t \in Val}

lower_for_range(e, L) ==
    IF e.ty # "Unit" \/ ~ MayPlace(e) \/ Avoids("unnamedSlot") THEN {}
    ELSE {<<PushScope, E(t, e.in, "code"), StoreNew(L, n, t),
            E(t, e.in, "code"), StoreTemp(L + 1, t), Goto(L + 2),
            Place(L, Live, <<>>), Enter, Define(n, L), PushLoop(L + 3, L + 1)>>
          \o Body("Unit", e.in \cup {"loop"}, "label")
          \o <<PopLoop, Leave, Place(L + 1, Live, <<>>),
               LoadTemp(L), Push(t), Op(<<t, t>>, <<t>>), AssignTo(n),
               Place(L + 2, Live, <<>>), LoadTemp(L), LoadTemp(L + 1)>>
          \o (IF t = "Long" THEN <<Op(<<t, t>>, <<"Int">>), Branch(<<"Int">>, L)>>
                            ELSE <<Branch(<<t, t>>, L)>>)
          \o <<Place(L + 3, Live, <<>>), PopScope>> :
            n \in UserName, t \in {"Int", "Long"}}

\* Faulty: the frame behind the loop takes the locals as they are in it.
Faulty_lower_for_java_iterator(e, L) ==
    IF e.ty # "Unit" \/ ~ (MayPlace(e) /\ MayHold("__java_iter")) THEN {}
    ELSE {<<PushScope, E("Ref", e.in, "code"), Op(<<"Ref">>, <<"Ref">>),
            StoreNew(L, "__java_iter", "Ref"), Snapshot(L), Place(L, L, <<>>),
            LoadTemp(L), Op(<<"Ref">>, <<"Int">>), Branch(<<"Int">>, L + 1),
            LoadTemp(L), Op(<<"Ref">>, <<"Ref">>), StoreNew(L + 2, n, "Ref"),
            Enter, Define(n, L + 2), PushLoop(L + 1, L)>>
          \o Body("Unit", e.in \cup {"loop"}, "end")
          \o <<PopLoop, Leave, Goto(L), Place(L + 1, Live, <<>>), PopScope>> :
            n \in UserName}

\* Over a Java collection; `continue` goes to the head of the loop.
lower_for_java_iterator(e, L) ==
    IF e.ty # "Unit" \/ ~ (MayPlace(e) /\ MayHold("__java_iter")) THEN {}
    ELSE {<<PushScope, E("Ref", e.in, "code"), Op(<<"Ref">>, <<"Ref">>),
            StoreNew(L, "__java_iter", "Ref"), Snapshot(L), Place(L, L, <<>>),
            LoadTemp(L), Op(<<"Ref">>, <<"Int">>), Branch(<<"Int">>, L + 1),
            LoadTemp(L), Op(<<"Ref">>, <<"Ref">>), StoreNew(L + 2, n, "Ref"),
            Enter, Define(n, L + 2), PushLoop(L + 1, L)>>
          \o Body("Unit", e.in \cup {"loop"}, "end")
          \o <<PopLoop, Leave, Goto(L), Place(L + 1, L, <<>>), PopScope>> :
            n \in UserName}

lower_for_iterator(e, L) ==
    IF e.ty # "Unit" \/ ~ MayPlace(e) \/ Avoids("unnamedSlot") THEN {}
    ELSE {<<PushScope, E("Ref", e.in, "code"), StoreTemp(L, "Ref"),
            Place(L, Live, <<>>), LoadTemp(L), Op(<<"Ref">>, <<"Ref">>),
            StoreTemp(L + 2, "Ref"), LoadTemp(L + 2), Op(<<"Ref">>, <<"Int">>),
            Branch(<<"Int">>, L + 1), LoadTemp(L + 2), Op(<<"Ref">>, <<t>>),
            StoreNew(L + 3, n, t), Enter, Define(n, L + 3), PushLoop(L + 1, L)>>
          \o Body("Unit", e.in \cup {"loop"}, "end")
          \o <<PopLoop, Leave, Goto(L), Place(L + 1, Live, <<>>), PopScope>> :
            n \in UserName, t \in Val}

\* Faulty: no label and frame after the early return.
Faulty_lower_try(e, L) ==
    IF e.ty \notin Val \/ return_ty # "Ref" \/ ~ MayPlace(e) THEN {}
    ELSE {<<E("Ref", e.in, "code"), Op(<<"Ref">>, <<"Ref", "Ref">>),
            Op(<<"Ref">>, <<"Int">>), Branch(<<"Int">>, L), Return("Ref"),
            Op(<<"Ref">>, <<e.ty>>)>>}

\* The `?` operator: returns the failure as it is.
lower_try(e, L) ==
    IF e.ty \notin Val \/ return_ty # "Ref" \/ ~ MayPlace(e) THEN {}
    ELSE {<<E("Ref", e.in, "code"), Op(<<"Ref">>, <<"Ref", "Ref">>),
            Op(<<"Ref">>, <<"Int">>), Branch(<<"Int">>, L), Return("Ref"),
            Place(L, Live, <<"Ref">>), Op(<<"Ref">>, <<e.ty>>)>>}

Form(e, L, name) ==
    CASE name = "block"      -> {Body(e.ty, e.in, e.next)}
      [] e.ty = "Nothing"    -> {}
      [] name = "call"       -> lower_call(e)
      [] name = "assign"     -> lower_assign(e)
      [] name = "comparison" -> lower_comparison(e, L)
      [] name = "and"        -> lower_short_circuit(e, L)
      [] name = "if"         -> lower_if(e, L)
      [] name = "match"      -> lower_match(e, L)
      [] name = "iflet"      -> lower_if_let(e, L)
      [] name = "while"      -> lower_while(e, L)
      [] name = "whilelet"   -> lower_while_let(e, L)
      [] name = "try"        -> lower_try(e, L)
      [] name = "range"      -> lower_for_range(e, L)
      [] name = "java"       -> lower_for_java_iterator(e, L)
      [] name = "iterator"   -> lower_for_iterator(e, L)
      [] OTHER               -> {}

\* Statements: let, let-else, an expression whose value is dropped.
lower_let_else(s, L) ==
    IF ~ (MayPlace([s EXCEPT !.next = "code"]) /\ MayHold("__let_else_scrutinee")) THEN {}
    ELSE UNION {{<<E(t, s.in, "code"), StoreNew(L, "__let_else_scrutinee", t), Snapshot(L)>>
                 \o lower_pattern_check(p, L, t, L + 1, L + 3)
                 \o <<Goto(L + 2), Place(L + 1, L, <<>>)>>
                 \o Body("Nothing", s.in \cup {"letelse"}, "label")
                 \o <<Place(L + 2, Live, <<>>)>> \o bind_pattern(p, L + 3) :
                   p \in {x \in Patterns(t) : /\ MayMatch(x)
                                              /\ Avoids("letElse") =>
                                                   Bound(x) \cap Visible = {}}} :
                t \in Val}

lower_stmt(s, L, name) ==
    CASE name = "let" ->
            {<<E(t, s.in, "code"), StoreNew(L, n, t), Define(n, L)>> :
               n \in UserName, t \in Val}
      [] name = "drop" ->
            {<<E(t, s.in, "code"), Op(<<t>>, <<>>)>> : t \in Val}
      [] name = "expr" -> {<<E("Unit", s.in, "code")>>}
      [] name = "letelse" -> lower_let_else(s, L)
      [] OTHER -> {}

FormKeys == 3 + 2 * PatternKeys       \* labels and keys of a form
-----------------------------------------------------------------------------
(* Choosing the body                                                       *)

Step == Head(todo)
Is(what) == todo # <<>> /\ Step.do = what
Then(steps) == todo' = steps \o Tail(todo)

Choose(names, Lowered(_)) ==
    /\ menu.fuel > 0
    /\ menu' = [menu EXCEPT !.fuel = @ - 1]
    /\ next_label' = next_label + FormKeys
    /\ \E name \in names \cap menu.forms : \E steps \in Lowered(name) : Then(steps)

\* lower_expr
LowerExpr ==
    /\ Is("expr")
    /\ \/ /\ \E steps \in Atoms(Step) \cup Diverging(Step) : Then(steps)
          /\ UNCHANGED <<next_label, menu>>
       \/ LET Lowered(name) == Form(Step, next_label, name) IN Choose(FormName, Lowered)
    /\ UNCHANGED <<locals, next_slot, scope_stack, loop_stack, temps, saved,
                   return_ty, env, codeVars>>

\* What follows an else: a block or another if.
LowerElse ==
    /\ Is("else")
    /\ \/ /\ Then(Body(Step.ty, Step.in, "label"))
          /\ UNCHANGED <<next_label, menu>>
       \/ LET Lowered(name) == Form(Step, next_label, name)
          IN  Choose({"if", "iflet"}, Lowered)
    /\ UNCHANGED <<locals, next_slot, scope_stack, loop_stack, temps, saved,
                   return_ty, env, codeVars>>

\* A block goes on with a statement or ends with its tail; none is the unit
\* literal, and a diverging one ends a block of any type.
LowerStmt ==
    /\ Is("stmts")
    /\ \/ /\ Then(<<E(Step.ty, Step.in, Step.next), Leave, PopScope>>)
          /\ UNCHANGED <<next_label, menu>>
       \/ LET Lowered(name) == {Append(steps, Step) :
                                  steps \in lower_stmt(Step, next_label, name)}
          IN  Choose(FormName, Lowered)
    /\ UNCHANGED <<locals, next_slot, scope_stack, loop_stack, temps, saved,
                   return_ty, env, codeVars>>

-----------------------------------------------------------------------------
(* Scopes                                                                  *)

push_scope ==
    /\ Is("push_scope")
    /\ scope_stack' = Append(scope_stack, <<>>)
    /\ Then(<<>>)
    /\ UNCHANGED <<locals, next_slot, next_label, loop_stack, temps, saved,
                   return_ty, env, codeVars, menu>>

Undo(map, entry) ==
    IF entry.prev = NoBinding THEN Without(map, entry.name)
                              ELSE With(map, entry.name, entry.prev)

\* Faulty: the earliest first.
Faulty_Undone(map, log) == FoldLeft(Undo, map, log)

\* Undoes the bindings of the scope, the latest first: undone[l] is the map
\* when those after the l-th are undone.
Undone(map, log) ==
    LET undone[l \in 0..Len(log)] ==
            IF l = Len(log) THEN map ELSE Undo(undone[l + 1], log[l + 1])
    IN  undone[0]

pop_scope ==
    /\ Is("pop_scope")
    /\ locals' = Undone(locals, Last(scope_stack))
    /\ scope_stack' = Front(scope_stack)
    /\ Then(<<>>)
    /\ UNCHANGED <<next_slot, next_label, loop_stack, temps, saved, return_ty,
                   env, codeVars, menu>>

\* TypeEnv::push_scope, pop_scope, define
CheckerScope ==
    /\ \/ Is("enter") /\ env' = Append(env, EmptyMap)
       \/ Is("leave") /\ env' = Front(env)
       \/ /\ Is("define")
          /\ env' = Append(Front(env), With(Last(env), Step.name, temps[Step.temp]))
    /\ Then(<<>>)
    /\ UNCHANGED <<locals, next_slot, next_label, scope_stack, loop_stack, temps,
                   saved, return_ty, codeVars, menu>>

LoopScope ==
    /\ \/ /\ Is("push_loop")
          /\ loop_stack' = Append(loop_stack, [brk |-> Step.brk, cont |-> Step.cont])
       \/ Is("pop_loop") /\ loop_stack' = Front(loop_stack)
    /\ Then(<<>>)
    /\ UNCHANGED <<locals, next_slot, next_label, scope_stack, temps, saved,
                   return_ty, env, codeVars, menu>>

-----------------------------------------------------------------------------
(* Instructions                                                            *)

IsLive == flow.status = "live"

\* What the verifier says of an instruction that takes `pop` off the stack:
\* code after a jump needs a frame, operands their types.
Rejected(pop) ==
    IF ~ IsLive THEN {"unframed"}
    ELSE IF IsSuffix(pop, flow.stack) THEN {} ELSE {"operand"}

StackAfter(pop, push) ==
    SubSeq(flow.stack, 1, Len(flow.stack) - Len(pop)) \o push

\* A read of a slot that does not hold b.ty.
RejectedRead(b) ==
    IF IsLive /\ ~ (b.slot \in DOMAIN flow.regs /\ flow.regs[b.slot] = b.ty)
      THEN {"local"} ELSE {}

\* The slots a value takes by the rules of the verifier.
VerifierWidth == [ty \in Val |-> IF ty = "Long" THEN 2 ELSE 1]

\* A store makes the slot before it unusable if that began a wide value.
RegsAfterStore(b) ==
    LET cut == {s \in DOMAIN flow.regs :
                  \/ s < b.slot /\ s + VerifierWidth[flow.regs[s]] > b.slot
                  \/ s > b.slot /\ b.slot + VerifierWidth[b.ty] > s}
    IN  With([s \in DOMAIN flow.regs \ cut |-> flow.regs[s]], b.slot, b.ty)

Operate ==
    /\ Is("op")
    /\ flow' = IF IsLive THEN [flow EXCEPT !.stack = StackAfter(Step.pop, Step.push)]
                         ELSE flow
    /\ faults' = faults \cup Rejected(Step.pop)
    /\ position' = NoLabel
    /\ Then(<<>>)
    /\ UNCHANGED <<locals, next_slot, next_label, scope_stack, loop_stack, temps,
                   saved, return_ty, env, frames, last_regs, alias, arrivals, menu>>

\* A name that is not bound any more loads nothing.
Load ==
    /\ Is("load") \/ Is("loadName")
    /\ IF Is("loadName") /\ Step.name \notin DOMAIN locals
         THEN UNCHANGED codeVars
         ELSE LET b == IF Is("load") THEN temps[Step.temp] ELSE locals[Step.name]
              IN  /\ flow' = IF IsLive THEN [flow EXCEPT !.stack = Append(@, b.ty)] ELSE flow
                  /\ faults' = faults \cup Rejected(<<>>) \cup RejectedRead(b)
                  /\ position' = NoLabel
                  /\ UNCHANGED <<frames, last_regs, alias, arrivals>>
    /\ Then(<<>>)
    /\ UNCHANGED <<locals, next_slot, next_label, scope_stack, loop_stack, temps,
                   saved, return_ty, env, menu>>

StoreTo(b) ==
    /\ flow' = IF IsLive THEN [flow EXCEPT !.stack = StackAfter(<<b.ty>>, <<>>),
                                           !.regs = RegsAfterStore(b)]
                         ELSE flow
    /\ faults' = faults \cup Rejected(<<b.ty>>)
    /\ position' = NoLabel
    /\ UNCHANGED <<frames, last_regs, alias, arrivals>>

\* alloc_local records what the name was bound to, then binds it.
AllocLocal(n, b) ==
    LET prev == IF n \in DOMAIN locals THEN locals[n] ELSE NoBinding
    IN  /\ locals' = With(locals, n, b)
        /\ scope_stack' = Append(Front(scope_stack),
                                 Append(Last(scope_stack), [name |-> n, prev |-> prev]))

Store ==
    /\ Is("store")
    /\ LET b == [slot |-> next_slot, ty |-> Step.ty]
       IN  /\ temps' = With(temps, Step.temp, b)
           /\ IF Step.name = NoName THEN UNCHANGED <<locals, scope_stack>>
                                    ELSE AllocLocal(Step.name, b)
           /\ StoreTo(b)
    /\ next_slot' = next_slot + slot_count(Step.ty)
    /\ Then(<<>>)
    /\ UNCHANGED <<next_label, loop_stack, saved, return_ty, env, menu>>

Assign ==
    /\ Is("assign")
    /\ IF Step.name \in DOMAIN locals THEN StoreTo(locals[Step.name])
                                     ELSE UNCHANGED codeVars
    /\ Then(<<>>)
    /\ UNCHANGED <<locals, next_slot, next_label, scope_stack, loop_stack, temps,
                   saved, return_ty, env, menu>>

-----------------------------------------------------------------------------
(* Labels and frames                                                       *)

Target(l) == IF l \in DOMAIN alias THEN alias[l] ELSE l
Arrived(l) == IF l \in DOMAIN arrivals THEN arrivals[l] ELSE {}
Arriving(l, stack) ==
    With(arrivals, Target(l),
         Arrived(Target(l))
         \cup (IF IsLive THEN {[stack |-> stack, regs |-> flow.regs]} ELSE {}))

Dead(how) == [status |-> how, stack |-> <<>>, regs |-> EmptyMap]

JumpTo(l) ==
    /\ arrivals' = Arriving(l, flow.stack)
    /\ flow' = Dead("jumped")
    /\ faults' = faults \cup Rejected(<<>>)

\* Goto, and the innermost loop's labels for break and continue.
Jump ==
    /\ \/ Is("goto") /\ JumpTo(Step.label)
       \/ Is("break") /\ JumpTo(Last(loop_stack).brk)
       \/ Is("continue") /\ JumpTo(Last(loop_stack).cont)
    /\ position' = NoLabel
    /\ Then(<<>>)
    /\ UNCHANGED <<locals, next_slot, next_label, scope_stack, loop_stack, temps,
                   saved, return_ty, env, frames, last_regs, alias, menu>>

CondJump ==
    /\ Is("branch")
    /\ LET stack == StackAfter(Step.pop, <<>>)
       IN  /\ arrivals' = Arriving(Step.label, stack)
           /\ flow' = IF IsLive THEN [flow EXCEPT !.stack = stack] ELSE flow
    /\ faults' = faults \cup Rejected(Step.pop)
    /\ position' = NoLabel
    /\ Then(<<>>)
    /\ UNCHANGED <<locals, next_slot, next_label, scope_stack, loop_stack, temps,
                   saved, return_ty, env, frames, last_regs, alias, menu>>

ReturnOp ==
    /\ Is("return")
    /\ faults' = faults \cup Rejected(StackOf(Step.ty))
    /\ flow' = Dead("returned")
    /\ position' = NoLabel
    /\ Then(<<>>)
    /\ UNCHANGED <<locals, next_slot, next_label, scope_stack, loop_stack, temps,
                   saved, return_ty, env, frames, last_regs, alias, arrivals, menu>>

TakeSnapshot ==
    /\ Is("snapshot")
    /\ saved' = With(saved, Step.key, locals_snapshot)
    /\ Then(<<>>)
    /\ UNCHANGED <<locals, next_slot, next_label, scope_stack, loop_stack, temps,
                   return_ty, env, codeVars, menu>>

\* A label and its frame.  Of the frames at one position emit_body keeps the
\* first; build_stack_frames writes one without locals and stack as "same".
PlaceLabel ==
    /\ Is("place")
    /\ LET l == Step.label
           snapshot == IF Step.from = Live THEN locals_snapshot ELSE saved[Step.from]
           regs == IF snapshot.len = 0 /\ Step.stack = <<>> THEN last_regs ELSE snapshot.regs
           frame == [stack |-> Step.stack, regs |-> regs]
       IN  IF position = NoLabel
             THEN /\ arrivals' = Arriving(l, flow.stack)
                  /\ frames' = With(frames, l, frame)
                  /\ flow' = [status |-> "live", stack |-> Step.stack, regs |-> regs]
                  /\ last_regs' = regs
                  /\ position' = l
                  /\ UNCHANGED alias
             ELSE /\ alias' = With(alias, l, position)
                  /\ arrivals' = With(arrivals, position, Arrived(position) \cup Arrived(l))
                  /\ UNCHANGED <<frames, flow, last_regs, position>>
    /\ Then(<<>>)
    /\ UNCHANGED <<locals, next_slot, next_label, scope_stack, loop_stack, temps,
                   saved, return_ty, env, faults, menu>>

\* lower_body (the function): a return unless the last instruction is one.
Finish ==
    /\ Is("finish")
    /\ Then(IF flow.status = "returned" THEN <<>> ELSE <<Return(return_ty)>>)
    /\ UNCHANGED <<locals, next_slot, next_label, scope_stack, loop_stack, temps,
                   saved, return_ty, env, codeVars, menu>>

-----------------------------------------------------------------------------

\* A function of one parameter, or none, whose type is return_ty.
Init ==
    /\ return_ty \in {"Unit", "Ref"}
    /\ \/ \E n \in UserName, t \in Val : locals = With(EmptyMap, n, [slot |-> 0, ty |-> t])
       \/ ~ Avoids("noLocals") /\ locals = EmptyMap
    /\ next_slot = IF locals = EmptyMap THEN 0
                   ELSE slot_count(locals[CHOOSE n \in DOMAIN locals : TRUE].ty)
    /\ env = <<locals>>
    /\ todo = Append(Body(return_ty, {}, "exit"), Do("finish"))
    /\ next_label = 0
    /\ scope_stack = <<>>
    /\ loop_stack = <<>>
    /\ temps = EmptyMap
    /\ saved = EmptyMap
    /\ flow = [status |-> "live", stack |-> <<>>, regs |-> locals_snapshot.regs]
    /\ position = NoLabel
    /\ frames = EmptyMap
    /\ last_regs = locals_snapshot.regs
    /\ alias = EmptyMap
    /\ arrivals = EmptyMap
    /\ faults = {}
    /\ menu \in Menus

Next == \/ LowerExpr \/ LowerElse \/ LowerStmt \/ push_scope \/ pop_scope \/ CheckerScope
        \/ LoopScope \/ Operate \/ Load \/ Store \/ Assign \/ Jump \/ CondJump
        \/ ReturnOp \/ TakeSnapshot \/ PlaceLabel \/ Finish

Spec == Init /\ [][Next]_vars

-----------------------------------------------------------------------------
(* Properties                                                              *)

\* The state of ExprLowering, of the type checker and of the verifier.
Regs == {flow.regs, last_regs} \cup {frames[l].regs : l \in DOMAIN frames}

TypeOK ==
    /\ Is("expr") => Step.ty \in Ty /\ Step.in \subseteq Context /\ Step.next \in After
    /\ DOMAIN locals \subseteq Name
    /\ \A n \in DOMAIN locals : locals[n] \in Binding
    /\ next_slot \in Slot /\ next_label \in Label
    /\ \A k \in DOMAIN temps : temps[k] \in Binding
    /\ \A i \in DOMAIN env : \A n \in DOMAIN env[i] : n \in UserName /\ env[i][n] \in Binding
    /\ \A i \in DOMAIN loop_stack : loop_stack[i] \in [brk : Label, cont : Label]
    /\ flow.status \in {"live", "jumped", "returned"} /\ flow.stack \in Seq(Val)
    /\ \A regs \in Regs : \A s \in DOMAIN regs : s \in Slot /\ regs[s] \in Val
    /\ position \in Label \cup {NoLabel}
    /\ faults \subseteq {"operand", "local", "unframed"}
    /\ \E m \in Menus : menu.forms = m.forms /\ menu.fuel \in 0 .. m.fuel

\* Whatever way control reaches a label, past however many forms, arms and
\* loops, it has the operand stack the frame there declares, and every
\* instruction finds its operands on the stack.
StacksAgree ==
    /\ "operand" \notin faults
    /\ \A l \in DOMAIN frames : \A s \in Arrived(l) : s.stack = frames[l].stack

\* Every local the frame declares holds a value of that type on every way to
\* the label ("prevents uninitialized locals from appearing in StackMapTable
\* frames", lower_pattern_check), and every load finds the slot still holding
\* what was stored, after the frames in between have forgotten the slots they
\* do not name.
LocalsAgree ==
    /\ "local" \notin faults
    /\ \A l \in DOMAIN frames : \A s \in Arrived(l) : \A r \in DOMAIN frames[l].regs :
          r \in DOMAIN s.regs /\ s.regs[r] = frames[l].regs[r]

\* No code follows a jump or a return without a frame of its own: the verifier
\* has no state for it.
EveryBlockFramed == "unframed" \notin faults

\* Where an expression is lowered, each name of the source is bound to the slot
\* of the declaration the type checker resolved it to, through shadowing in
\* one scope and in nested ones (alloc_local's undo log against TypeEnv).
NamesResolve ==
    Is("expr") => \A n \in Visible : n \in DOMAIN locals /\ locals[n] = Lookup(n)

\* Every jump of a finished body goes to a label that was placed, and no scope
\* or loop is left open (CodegenError::UnresolvedLabel never happens).
LabelsResolve ==
    todo = <<>> => /\ DOMAIN arrivals \subseteq DOMAIN frames \cup DOMAIN alias
                   /\ scope_stack = <<>>
                   /\ loop_stack = <<>>
                   /\ Len(env) = 1

=============================================================================
