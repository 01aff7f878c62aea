----------------------------- MODULE LambdaCode -----------------------------
(***************************************************************************)
(* Lambdas in a body (crates/valen-codegen, expr.rs): every lambda becomes *)
(* a method of the class, an entry in the table of bootstrap methods and,  *)
(* in the body, an invokedynamic that names the entry by its index.        *)
(*                                                                         *)
(* A lambda is [id, sig, inner]: which one it is, the types of its         *)
(* parameters and of its result as one value [arity, of], and the lambdas  *)
(* of its own body.  Of a body only its lambdas are kept.                  *)
(***************************************************************************)
EXTENDS Naturals, Sequences, SequencesExt, TLC

MaxArity == 22

(* The interface a lambda implements: one of java.util.function for up to  *)
(* two parameters, a generated one of valen.core beyond.                   *)
lambda_functional_interface(n) ==
    CASE n = 0 -> <<"java", "util", "function", "Supplier">>
      [] n = 1 -> <<"java", "util", "function", "Function">>
      [] n = 2 -> <<"java", "util", "function", "BiFunction">>
      [] OTHER -> <<"valen", "core", "Function" \o ToString(n)>>

(* What a body gives: ops, the synthetic methods and the bootstrap table.  *)
Nothing == [ops |-> <<>>, synthetic |-> <<>>, bootstrap |-> <<>>, counter |-> 0]

ShiftOps(ops, by) ==
    [i \in DOMAIN ops |-> IF ops[i].op = "indy" THEN [ops[i] EXCEPT !.index = @ + by] ELSE ops[i]]

RECURSIVE lower_body(_)

(* The offset of the table is forgotten.                                   *)
Faulty_lower_lambda(ctx, l) ==
    LET inner == lower_body(l.inner)
        table == ctx.bootstrap \o inner.bootstrap
        handle == [name |-> ctx.counter, sig |-> l.sig]
    IN  IF l.sig.arity > MaxArity THEN [ctx EXCEPT !.ops = Append(@, [op |-> "throw"])]
        ELSE [counter |-> ctx.counter + 1,
              synthetic |-> ctx.synthetic \o inner.synthetic \o
                  <<[name |-> ctx.counter, sig |-> l.sig, id |-> l.id, ops |-> inner.ops]>>,
              bootstrap |-> Append(table, handle),
              ops |-> Append(ctx.ops, [op |-> "indy", index |-> Len(table), id |-> l.id,
                                       iface |-> lambda_functional_interface(l.sig.arity)])]

(* The indices in the body of a lambda are relative to the table of that   *)
(* body, which is appended to the one built so far.                        *)
lower_lambda(ctx, l) ==
    LET inner == lower_body(l.inner)
        table == ctx.bootstrap \o inner.bootstrap
        handle == [name |-> ctx.counter, sig |-> l.sig]
    IN  IF l.sig.arity > MaxArity THEN [ctx EXCEPT !.ops = Append(@, [op |-> "throw"])]
        ELSE [counter |-> ctx.counter + 1,
              synthetic |-> ctx.synthetic \o inner.synthetic \o
                  <<[name |-> ctx.counter, sig |-> l.sig, id |-> l.id,
                     ops |-> ShiftOps(inner.ops, Len(ctx.bootstrap))]>>,
              bootstrap |-> Append(table, handle),
              ops |-> Append(ctx.ops, [op |-> "indy", index |-> Len(table), id |-> l.id,
                                       iface |-> lambda_functional_interface(l.sig.arity)])]

(* Every body counts its lambdas from zero.                                *)
lower_body(lambdas) == FoldLeft(lower_lambda, Nothing, lambdas)
=============================================================================
