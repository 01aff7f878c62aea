------------------------------ MODULE MatchCode ------------------------------
(***************************************************************************)
(* The other two readers of a pattern: the type checker, which binds its   *)
(* names, and the lowering, which turns a match into tests and moves       *)
(* between slots.  A slot holds one value (the model has no wide ones).    *)
(***************************************************************************)
EXTENDS Patterns, TLC

(***************************************************************************)
(* The type checker (bind_pattern).  st is [env, ok]: the names of the     *)
(* arm's scope with their types, and whether nothing was reported.         *)
(***************************************************************************)
ErrorTy == "<error>"
define(st, name, ty) == [st EXCEPT !.env = name :> ty @@ @]
Report(st) == [st EXCEPT !.ok = FALSE]

RECURSIVE collect_pattern_names(_)
FieldPatternNames(fields) ==
    UNION {IF f.pat = Shorthand THEN {f.name} ELSE collect_pattern_names(f.pat) :
              f \in ToSet(fields)}
collect_pattern_names(p) ==
    CASE p.k = "bind" -> {p.name}
      [] p.k = "at"   -> {p.name} \cup collect_pattern_names(p.pat)
      [] p.k = "or"   -> collect_pattern_names(p.alts[1])
      [] p.k \in {"struct", "short"} -> FieldPatternNames(p.fields)
      [] OTHER -> {}

RECURSIVE bind_pattern(_, _, _)

(* A field that is only named is looked up by that name.                   *)
Faulty_bind_variant_fields(p, e, v, st) ==
    LET declared == resolve_variant_field_types(e, v)
        typed(i) == LET named == {j \in DOMAIN declared : declared[j].name = p.fields[i].name}
                    IN  IF named # {} THEN declared[CHOOSE j \in named : TRUE].ty ELSE ErrorTy
    IN  IF ~p.rest /\ Len(p.fields) > Len(declared) THEN Report(st)
        ELSE FoldLeftDomain(LAMBDA s, i :
                IF p.fields[i].pat = Shorthand THEN define(s, p.fields[i].name, typed(i))
                ELSE bind_pattern(p.fields[i].pat, typed(i), s), st, p.fields)

(* Fields that are only named are typed by position, the others by name; a *)
(* field that does not exist has the error type and is not reported.       *)
bind_variant_fields(p, e, v, st) ==
    LET declared == resolve_variant_field_types(e, v)
        typed(i) ==
            LET named == {j \in DOMAIN declared : declared[j].name = p.fields[i].name}
            IN  IF p.fields[i].pat = Shorthand
                THEN IF i \in DOMAIN declared THEN declared[i].ty ELSE ErrorTy
                ELSE IF named # {} THEN declared[CHOOSE j \in named : TRUE].ty ELSE ErrorTy
    IN  IF ~p.rest /\ Len(p.fields) > Len(declared) THEN Report(st)
        ELSE FoldLeftDomain(LAMBDA s, i :
                IF p.fields[i].pat = Shorthand THEN define(s, p.fields[i].name, typed(i))
                ELSE bind_pattern(p.fields[i].pat, typed(i), s), st, p.fields)

bind_struct_pattern(p, st) ==
    LET e == find_enum_for_variant(p.segs[1])
    IN  CASE Len(p.segs) = 2 -> bind_variant_fields(p, p.segs[1], p.segs[2], st)
          [] Len(p.segs) = 1 /\ e # "" -> bind_variant_fields(p, e, p.segs[1], st)
          [] OTHER -> st

(* An enum that has no such variant is an error; anything else that is     *)
(* matched leaves the search to all enums.                                 *)
bind_variant_shorthand_pattern(p, ty, st) ==
    LET e == IF ty \in EnumNames THEN ty ELSE find_enum_for_variant(p.variant)
    IN  CASE e = "" -> st
          [] e # "" /\ p.variant \notin VariantNames(e) -> Report(st)
          [] OTHER -> bind_variant_fields(p, e, p.variant, st)

bind_pattern(p, ty, st) ==
    CASE p.k = "bind"   -> define(st, p.name, ty)
      [] p.k = "struct" -> bind_struct_pattern(p, st)
      [] p.k = "short"  -> bind_variant_shorthand_pattern(p, ty, st)
      [] p.k = "at"     -> bind_pattern(p.pat, ty, define(st, p.name, ty))
      [] p.k = "or"     ->
            LET first == bind_pattern(p.alts[1], ty, st)
            IN  IF \A i \in DOMAIN p.alts :
                      collect_pattern_names(p.alts[i]) = collect_pattern_names(p.alts[1])
                THEN first ELSE Report(first)
      [] OTHER -> st

(* Every arm has a scope of its own; its body sees what its pattern binds. *)
synth_match(arms, ty) ==
    [i \in DOMAIN arms |-> bind_pattern(arms[i].pat, ty, [env |-> <<>>, ok |-> TRUE])]

(***************************************************************************)
(* The lowering (lower_pattern_check).  st is [ops, next_slot, next_label, *)
(* locals]; the operations are                                             *)
(*   is    go to fail unless the slot holds an instance of cls             *)
(*   eq    go to fail unless the slot equals the literal                   *)
(*   cast  copy the slot, as cls                                           *)
(*   get   call the accessor of a field of the slot's cls                  *)
(*   move, goto, label, guard, body: as they say                           *)
(***************************************************************************)
Emit(st, op) == [st EXCEPT !.ops = Append(@, op)]
alloc_label(st) == [st EXCEPT !.next_label = @ + 1]
TakeSlot(st) == [st EXCEPT !.next_slot = @ + 1]
alloc_local(st, name) ==
    TakeSlot([st EXCEPT !.locals = name :> st.next_slot @@ @])
CopyTo(st, name, from) ==
    Emit(alloc_local(st, name), [op |-> "move", from |-> from, to |-> st.next_slot])

RECURSIVE lower_pattern_check(_, _, _, _, _)

(* The fields of a variant whose class has been tested: cast, call each    *)
(* accessor, test what it returns, and only then publish the names that    *)
(* stand for themselves.                                                   *)
lower_fields(fields, declared, cls, slot, fail, st) ==
    LET cast == st.next_slot
        accessor(i) == IF fields[i].pat = Shorthand /\ i \in DOMAIN declared
                       THEN declared[i].name ELSE fields[i].name
        tyOf(i) == LET named == {j \in DOMAIN declared : declared[j].name = accessor(i)}
                   IN  IF named = {} THEN "Object" ELSE declared[CHOOSE j \in named : TRUE].ty
        check(acc, i) ==
            LET got == acc.st.next_slot
                s == TakeSlot(Emit(acc.st, [op |-> "get", slot |-> cast, cls |-> cls,
                                            field |-> accessor(i), to |-> got]))
            IN  IF fields[i].pat = Shorthand
                THEN [st |-> s, deferred |-> Append(acc.deferred, [name |-> fields[i].name, from |-> got])]
                ELSE [st |-> lower_pattern_check(fields[i].pat, got, tyOf(i), fail, s),
                      deferred |-> acc.deferred]
        checked == FoldLeftDomain(check,
                     [st |-> TakeSlot(Emit(st, [op |-> "cast", slot |-> slot, cls |-> cls, to |-> cast])),
                      deferred |-> <<>>], fields)
    IN  FoldLeft(LAMBDA s, d : CopyTo(s, d.name, d.from), checked.st, checked.deferred)

Instanceof(slot, cls, fail, st) == Emit(st, [op |-> "is", slot |-> slot, cls |-> cls, fail |-> fail])

(* The class of `.V`: the enum that is matched if it has the variant, else *)
(* the first enum that has.                                                *)
Faulty_ShorthandClass(v, ty) == <<find_enum_for_variant(v), v>>
ShorthandClass(v, ty) ==
    <<IF ty \in EnumNames /\ v \in VariantNames(ty) THEN ty ELSE find_enum_for_variant(v), v>>

(* The fields a struct pattern's path names: of that enum, or of the first *)
(* enum with the variant.                                                  *)
PathFields(segs) ==
    CASE Len(segs) = 2 -> resolve_variant_field_types(segs[1], segs[2])
      [] Len(segs) = 1 -> resolve_variant_field_types(find_enum_for_variant(segs[1]), segs[1])
      [] OTHER -> <<>>

(* All alternatives but the last have a label of their own to fail to.     *)
lower_or_pattern(alts, slot, ty, fail, st) ==
    LET success == st.next_label
        try(s, i) ==
            IF i = Len(alts) THEN lower_pattern_check(alts[i], slot, ty, fail, s)
            ELSE LET tried == lower_pattern_check(alts[i], slot, ty, s.next_label, alloc_label(s))
                 IN  Emit(Emit(tried, [op |-> "goto", to |-> success]),
                          [op |-> "label", l |-> s.next_label])
    IN  Emit(FoldLeftDomain(try, alloc_label(st), alts), [op |-> "label", l |-> success])

lower_pattern_check(p, slot, ty, fail, st) ==
    CASE p.k = "wild" -> st
      [] p.k = "lit"  -> Emit(st, [op |-> "eq", slot |-> slot, is |-> p.is, fail |-> fail])
      [] p.k = "bind" -> CopyTo(st, p.name, slot)
      [] p.k = "path" -> Instanceof(slot, p.segs, fail, st)
      [] p.k = "struct" ->
            lower_fields(p.fields, PathFields(p.segs), p.segs, slot, fail,
                         Instanceof(slot, p.segs, fail, st))
      [] p.k = "or"   -> lower_or_pattern(p.alts, slot, ty, fail, st)
      [] p.k = "at"   -> CopyTo(lower_pattern_check(p.pat, slot, ty, fail, st), p.name, slot)
      [] p.k = "short" ->
            LET cls == ShorthandClass(p.variant, ty)
                tested == Instanceof(slot, cls, fail, st)
            IN  IF p.fields = <<>> THEN tested
                ELSE lower_fields(p.fields, resolve_variant_field_types(cls[1], cls[2]), cls,
                                  slot, fail, tested)

(* The arms in order; a failing arm goes on to the next, the last one to   *)
(* the end.  The slots in which a body finds the names are kept with it.   *)
lower_match(arms, ty) ==
    LET end == 1
        arm(st, i) ==
            LET last == i = Len(arms)
                next == IF last THEN end ELSE st.next_label
                tested == lower_pattern_check(arms[i].pat, 0, ty, next,
                                              IF last THEN st ELSE alloc_label(st))
                guarded == IF arms[i].guarded
                           THEN Emit(tested, [op |-> "guard", arm |-> i, fail |-> next]) ELSE tested
                done == [Emit(guarded, [op |-> "body", arm |-> i, locals |-> tested.locals])
                            EXCEPT !.locals = st.locals]
            IN  IF last THEN done
                ELSE Emit(Emit(done, [op |-> "goto", to |-> end]), [op |-> "label", l |-> next])
        st0 == [ops |-> <<>>, next_slot |-> 1, next_label |-> 2, locals |-> <<>>]
    IN  Emit(FoldLeftDomain(arm, st0, arms), [op |-> "label", l |-> end]).ops
=============================================================================
