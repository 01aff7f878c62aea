------------------------ MODULE LoweringStacks_proof ------------------------
(***************************************************************************)
(* Whatever the body, every instruction finds its operands on the stack,   *)
(* and every way to a label brings the stack its frame declares.  The      *)
(* invariant: the steps ahead are a path over the types on the stack and   *)
(* the open loops, alongside the path over the scopes of Lowering_proof,   *)
(* which says what type a name that is read or assigned has.               *)
(*                                                                         *)
(* Of the shapes in Avoid the proof needs eight kept out: stacked,         *)
(* deadCode and breakValue, which jump with operands left on the stack,    *)
(* bodyValue, whose body leaves its value there, lastArm, which comes to   *)
(* the end label without the value, wideTest, which compares longs as      *)
(* ints, and the two of Lowering_proof, without which a name may have      *)
(* another type.                                                           *)
(***************************************************************************)
EXTENDS Lowering_proof

-----------------------------------------------------------------------------
(* The stack ahead                                                         *)

\* The types on the stack, how many loops are open, and the temps that hold a
\* slot.
Point == [stack : Seq(Val), loops : Nat, held : SUBSET Nat]
At(stack, loops, held) == [stack |-> stack, loops |-> loops, held |-> held]

\* What the keys and labels below N were taken for: the types of the temps, and
\* the stack at each label.
Use(N) == [kind : [Param..(N - 1) -> Val], mark : [0..(N - 1) -> Seq(Val)], result : Ty]

\* Where a form may stand: under no operand if anything may jump out of it.
Stands(s, a) ==
    /\ s = [do |-> s.do, ty |-> s.ty, in |-> s.in, next |-> s.next]
    /\ "operand" \in s.in => s.next = "code"
    /\ "operand" \notin s.in => a.stack = <<>>
    /\ "loop" \in s.in => a.loops > 0
    /\ s.do = "else" => s.next = "else"

\* A step takes the stack from a to b.  After a jump anything may be there: what
\* follows is a label that says.  What a name stands for is not known here.
Shifts(s, a, b, g) ==
    /\ s.do \notin {"loadName", "assign"}
    /\ s.do \notin {"push_loop", "pop_loop"} => b.loops = a.loops
    /\ s.do # "store" => b.held \subseteq a.held
    /\ s.do = "op" => /\ s.pop \in Seq(Val) /\ s.push \in Seq(Val)
                      /\ \E z \in Seq(Val) : a.stack = z \o s.pop /\ b.stack = z \o s.push
    /\ s.do = "load" => /\ s.temp \in a.held \cap DOMAIN g.kind
                        /\ b.stack = a.stack \o <<g.kind[s.temp]>>
    /\ s.do = "store" => /\ s.temp \in DOMAIN g.kind /\ s.ty = g.kind[s.temp]
                         /\ a.stack = b.stack \o <<s.ty>>
                         /\ b.held \subseteq a.held \cup {s.temp}
    /\ s.do = "branch" => /\ s.pop \in Seq(Val) /\ s.label \in DOMAIN g.mark
                          /\ b.stack = g.mark[s.label] /\ a.stack = b.stack \o s.pop
    /\ s.do = "goto" => s.label \in DOMAIN g.mark /\ a.stack = g.mark[s.label]
    /\ s.do \in {"break", "continue"} => a.stack = <<>> /\ a.loops > 0
    /\ s.do = "return" => \E z \in Seq(Val) : a.stack = z \o StackOf(s.ty)
    /\ s.do = "finish" => a.stack = StackOf(g.result)
    /\ s.do = "place" => /\ s.label \in DOMAIN g.mark /\ s.stack = g.mark[s.label]
                         /\ a.stack = s.stack /\ b.stack = s.stack
    /\ s.do = "push_loop" => /\ {s.brk, s.cont} \subseteq DOMAIN g.mark
                             /\ g.mark[s.brk] = <<>> /\ g.mark[s.cont] = <<>>
                             /\ b.loops = a.loops + 1 /\ b.stack = a.stack
    /\ s.do = "pop_loop" => a.loops = b.loops + 1 /\ b.stack = a.stack
    /\ s.do \in {"expr", "else", "stmts"} => /\ Stands(s, a) /\ b.held = a.held
                                             /\ b.stack = a.stack \o StackOf(s.ty)
    /\ s.do \in {"push_scope", "pop_scope", "enter", "leave", "define", "snapshot"}
         => b.stack = a.stack

\* The steps lead from a to b.
Track(steps, a, b, g) ==
    /\ IsSeq(steps)
    /\ \E f : /\ f[1] = a /\ f[Len(steps) + 1] = b
              /\ \A i \in 1..(Len(steps) + 1) : f[i] \in Point
              /\ \A i \in 1..Len(steps) : Shifts(steps[i], f[i], f[i + 1], g)

\* The fields of a point.
LEMMA Points ==
    /\ \A z, n, H : At(z, n, H).stack = z /\ At(z, n, H).loops = n /\ At(z, n, H).held = H
    /\ \A z \in Seq(Val), n \in Nat, H \in SUBSET Nat : At(z, n, H) \in Point
    /\ \A a \in Point : /\ a = At(a.stack, a.loops, a.held)
                        /\ a.stack \in Seq(Val) /\ a.loops \in Nat /\ a.held \in SUBSET Nat
  BY DEF At, Point

\* No steps.
LEMMA TrackEmpty == ASSUME NEW g, NEW a \in Point PROVE Track(<<>>, a, a, g)
  <1> DEFINE f == [i \in 1..1 |-> a]
  <1>1. IsSeq(<<>>) /\ Len(<<>>) = 0 /\ f[1] = a /\ \A i \in 1..1 : f[i] \in Point
    BY Tuples
  <1> HIDE DEF f
  <1> QED  BY <1>1 DEF Track

\* Steps one by one.
LEMMA TrackBy ==
    ASSUME NEW g, NEW steps, IsSeq(steps), NEW f, NEW a, NEW b, NEW n, Len(steps) = n,
           f[1] = a, f[n + 1] = b, \A i \in 1..(n + 1) : f[i] \in Point,
           \A i \in 1..n : Shifts(steps[i], f[i], f[i + 1], g)
    PROVE  Track(steps, a, b, g)
  BY DEF Track

\* A single step.
LEMMA TrackOne ==
    ASSUME NEW g, NEW s, NEW a \in Point, NEW b \in Point, Shifts(s, a, b, g)
    PROVE  Track(<<s>>, a, b, g)
  <1> DEFINE f == <<a, b>>
  <1>1. IsSeq(<<s>>) /\ Len(<<s>>) = 1 /\ f[1] = a /\ f[1 + 1] = b
        /\ \A i \in 1..(1 + 1) : f[i] \in Point
    BY Tuples
  <1>2. \A i \in 1..1 : Shifts(<<s>>[i], f[i], f[i + 1], g)
    OBVIOUS
  <1> HIDE DEF f
  <1> QED  BY <1>1, <1>2, TrackBy

\* One path after another.
LEMMA TrackConcat ==
    ASSUME NEW g, NEW a, NEW b, NEW c, NEW s, NEW t, Track(s, a, b, g), Track(t, b, c, g)
    PROVE  Track(s \o t, a, c, g)
  <1>1. PICK f : /\ f[1] = a /\ f[Len(s) + 1] = b
                 /\ \A i \in 1..(Len(s) + 1) : f[i] \in Point
                 /\ \A i \in 1..Len(s) : Shifts(s[i], f[i], f[i + 1], g)
    BY DEF Track
  <1>2. PICK e : /\ e[1] = b /\ e[Len(t) + 1] = c
                 /\ \A i \in 1..(Len(t) + 1) : e[i] \in Point
                 /\ \A i \in 1..Len(t) : Shifts(t[i], e[i], e[i + 1], g)
    BY DEF Track
  <1>3. /\ IsSeq(s) /\ IsSeq(t) /\ Len(s) \in Nat /\ Len(t) \in Nat
        /\ IsSeq(s \o t) /\ Len(s \o t) = Len(s) + Len(t)
        /\ \A i \in 1..Len(s) : (s \o t)[i] = s[i]
        /\ \A i \in (Len(s) + 1)..(Len(s) + Len(t)) : (s \o t)[i] = t[i - Len(s)]
    BY SeqFacts, ConcatFacts DEF Track
  <1> DEFINE m == Len(s)
             n == Len(t)
             h == [i \in 1..(m + n + 1) |-> IF i <= m THEN f[i] ELSE e[i - m]]
  <1>4. h[1] = a
    <2>1. CASE m = 0
      BY <1>1, <1>2, <1>3, <2>1
    <2>2. CASE m > 0
      BY <1>1, <1>3, <2>2
    <2> QED  BY <2>1, <2>2, <1>3
  <1>5. h[m + n + 1] = c
    BY <1>2, <1>3
  <1>6. \A i \in 1..(m + n + 1) : h[i] \in Point
    BY <1>1, <1>2, <1>3
  <1>7. ASSUME NEW i \in 1..(m + n) PROVE Shifts((s \o t)[i], h[i], h[i + 1], g)
    <2>1. CASE i < m
      <3>1. h[i] = f[i] /\ h[i + 1] = f[i + 1] /\ (s \o t)[i] = s[i] /\ i \in 1..m
        BY <1>3, <2>1
      <3> QED  BY <3>1, <1>1
    <2>2. CASE i = m
      <3>1. h[i] = f[i] /\ h[i + 1] = e[1] /\ (s \o t)[i] = s[i] /\ i \in 1..m
        BY <1>3, <2>2
      <3> QED  BY <3>1, <1>1, <1>2, <2>2
    <2>3. CASE i > m
      <3>1. h[i] = e[i - m] /\ h[i + 1] = e[(i - m) + 1] /\ (s \o t)[i] = t[i - m] /\ i - m \in 1..n
        BY <1>3, <2>3
      <3> QED  BY <3>1, <1>2
    <2> QED  BY <2>1, <2>2, <2>3, <1>3
  <1> HIDE DEF h
  <1> QED  BY <1>3, <1>4, <1>5, <1>6, <1>7 DEF Track

\* Three and four paths, one after another.
LEMMA TrackConcat3 ==
    ASSUME NEW g, NEW a, NEW b, NEW c, NEW d, NEW s, NEW t, NEW r,
           Track(s, a, b, g), Track(t, b, c, g), Track(r, c, d, g)
    PROVE  Track(s \o t \o r, a, d, g)
  <1>1. Track(s \o t, a, c, g)
    BY TrackConcat
  <1> QED  BY <1>1, TrackConcat
LEMMA TrackConcat4 ==
    ASSUME NEW g, NEW a, NEW b, NEW c, NEW d, NEW e, NEW s, NEW t, NEW r, NEW q,
           Track(s, a, b, g), Track(t, b, c, g), Track(r, c, d, g), Track(q, d, e, g)
    PROVE  Track(s \o t \o r \o q, a, e, g)
  <1>1. Track(s \o t \o r, a, d, g)
    BY TrackConcat3
  <1> QED  BY <1>1, TrackConcat

\* A step behind a path.
LEMMA TrackAppend ==
    ASSUME NEW g, NEW a, NEW b \in Point, NEW c \in Point, NEW s, NEW x,
           Track(s, a, b, g), Shifts(x, b, c, g)
    PROVE  Track(Append(s, x), a, c, g)
  <1>1. Track(s \o <<x>>, a, c, g)
    BY TrackOne, TrackConcat
  <1>2. Append(s, x) = s \o <<x>>
    <2>1. PICK S : s \in Seq(S)
      BY DEF Track, IsSeq
    <2> QED  BY <2>1
  <1> QED  BY <1>1, <1>2

-----------------------------------------------------------------------------
(* What each kind of step does                                             *)

\* Where the form after may be.
Standing(in, next, z, n) == /\ "operand" \in in => next = "code"
                            /\ "operand" \notin in => z = <<>>
                            /\ "loop" \in in => n > 0

\* Stacks of a few values.
LEMMA Stacks ==
    /\ <<>> \in Seq(Val)
    /\ \A t \in Val : <<t>> \in Seq(Val) /\ StackOf(t) = <<t>>
    /\ \A t, u \in Val : <<t, u>> \in Seq(Val) /\ <<t>> \o <<u>> = <<t, u>>
    /\ \A ty : StackOf(ty) \in Seq(Val) /\ (ty \notin Val => StackOf(ty) = <<>>)
    /\ \A z \in Seq(Val) : z \o <<>> = z /\ <<>> \o z = z
    /\ \A z, y \in Seq(Val) : z \o y \in Seq(Val)
    /\ \A z, y, x \in Seq(Val) : z \o (y \o x) = (z \o y) \o x
  <1>1. \A t \in Val : <<t>> \in Seq(Val)
    OBVIOUS
  <1>2. \A t, u \in Val : <<t, u>> \in Seq(Val)
    OBVIOUS
  <1>3. \A t, u \in Val : <<t>> \o <<u>> = <<t, u>>
    BY PairConcat
  <1>4. <<>> \in Seq(Val)
    OBVIOUS
  <1>5. \A ty : StackOf(ty) \in Seq(Val) /\ (ty \notin Val => StackOf(ty) = <<>>)
    BY <1>1, <1>4 DEF StackOf
  <1>6. \A t \in Val : StackOf(t) = <<t>>
    BY DEF StackOf
  <1>7. \A z \in Seq(Val) : z \o <<>> = z /\ <<>> \o z = z
    OBVIOUS
  <1>8. \A z, y \in Seq(Val) : z \o y \in Seq(Val)
    OBVIOUS
  <1>9. \A z, y, x \in Seq(Val) : z \o (y \o x) = (z \o y) \o x
    OBVIOUS
  <1> QED  BY <1>1, <1>2, <1>3, <1>4, <1>5, <1>6, <1>7, <1>8, <1>9

\* Over any stack.
LEMMA ShiftKinds ==
    ASSUME NEW g, NEW z \in Seq(Val), NEW n, NEW H, NEW K, K \subseteq H
    PROVE  /\ \A pop, push \in Seq(Val) : Shifts(Op(pop, push), At(z \o pop, n, H), At(z \o push, n, K), g)
           /\ \A ty \in Val : Shifts(Push(ty), At(z, n, H), At(z \o <<ty>>, n, K), g)
           /\ \A k \in H \cap DOMAIN g.kind :
                 Shifts(LoadTemp(k), At(z, n, H), At(z \o <<g.kind[k]>>, n, K), g)
           /\ \A m, J : \A k \in DOMAIN g.kind : J \subseteq H \cup {k} =>
                 Shifts(StoreNew(k, m, g.kind[k]), At(z \o <<g.kind[k]>>, n, H), At(z, n, J), g)
           /\ \A pop \in Seq(Val), l \in DOMAIN g.mark : g.mark[l] = z =>
                 Shifts(Branch(pop, l), At(z \o pop, n, H), At(z, n, K), g)
           /\ \A y : \A l \in DOMAIN g.mark : g.mark[l] = z => Shifts(Goto(l), At(z, n, H), At(y, n, K), g)
           /\ \A from : \A l \in DOMAIN g.mark : g.mark[l] = z =>
                 Shifts(Place(l, from, z), At(z, n, H), At(z, n, K), g)
           /\ \A ty, y : Shifts(Return(ty), At(z \o StackOf(ty), n, H), At(y, n, K), g)
           /\ Shifts(PushScope, At(z, n, H), At(z, n, K), g) /\ Shifts(PopScope, At(z, n, H), At(z, n, K), g)
           /\ Shifts(Enter, At(z, n, H), At(z, n, K), g) /\ Shifts(Leave, At(z, n, H), At(z, n, K), g)
           /\ \A m, k : Shifts(Define(m, k), At(z, n, H), At(z, n, K), g)
           /\ \A k : Shifts(Snapshot(k), At(z, n, H), At(z, n, K), g)
           /\ \A l, m \in DOMAIN g.mark : g.mark[l] = <<>> /\ g.mark[m] = <<>> =>
                 Shifts(PushLoop(l, m), At(z, n, H), At(z, n + 1, K), g)
           /\ Shifts(PopLoop, At(z, n + 1, H), At(z, n, K), g)
           /\ \A ty, in, next : Standing(in, next, z, n) =>
                 /\ Shifts(E(ty, in, next), At(z, n, H), At(z \o StackOf(ty), n, H), g)
                 /\ Shifts(Stmts(ty, in, next), At(z, n, H), At(z \o StackOf(ty), n, H), g)
           /\ \A ty, in : Standing(in, "else", z, n) =>
                 Shifts(Else(ty, in), At(z, n, H), At(z \o StackOf(ty), n, H), g)
  <1> USE DEF Shifts, At
  <1>1. ASSUME NEW pop \in Seq(Val), NEW push \in Seq(Val)
        PROVE  Shifts(Op(pop, push), At(z \o pop, n, H), At(z \o push, n, K), g)
    <2>1. PICK x, y : x = z \o pop /\ y = z \o push
      OBVIOUS
    <2>2. \E v \in Seq(Val) : x = v \o pop /\ y = v \o push
      BY <2>1
    <2>3. Shifts(Op(pop, push), At(x, n, H), At(y, n, K), g)
      BY <2>2 DEF Op
    <2> HIDE DEF Shifts, At
    <2> QED  BY <2>1, <2>3
  <1>2. ASSUME NEW ty \in Val PROVE Shifts(Push(ty), At(z, n, H), At(z \o <<ty>>, n, K), g)
    <2>1. z \o <<>> = z /\ <<>> \in Seq(Val) /\ <<ty>> \in Seq(Val)
      BY Stacks
    <2>2. Shifts(Op(<<>>, <<ty>>), At(z \o <<>>, n, H), At(z \o <<ty>>, n, K), g)
      BY <2>1, <1>1
    <2> HIDE DEF Shifts, At
    <2> QED  BY <2>1, <2>2 DEF Push
  <1>3. \A k \in H \cap DOMAIN g.kind :
           Shifts(LoadTemp(k), At(z, n, H), At(z \o <<g.kind[k]>>, n, K), g)
    BY DEF LoadTemp
  <1>4. \A m, J : \A k \in DOMAIN g.kind : J \subseteq H \cup {k} =>
           Shifts(StoreNew(k, m, g.kind[k]), At(z \o <<g.kind[k]>>, n, H), At(z, n, J), g)
    BY DEF StoreNew
  <1>5. /\ \A pop \in Seq(Val), l \in DOMAIN g.mark : g.mark[l] = z =>
              Shifts(Branch(pop, l), At(z \o pop, n, H), At(z, n, K), g)
        /\ \A y : \A l \in DOMAIN g.mark : g.mark[l] = z => Shifts(Goto(l), At(z, n, H), At(y, n, K), g)
        /\ \A from : \A l \in DOMAIN g.mark : g.mark[l] = z =>
              Shifts(Place(l, from, z), At(z, n, H), At(z, n, K), g)
    BY DEF Branch, Goto, Place
  <1>6. \A ty, y : Shifts(Return(ty), At(z \o StackOf(ty), n, H), At(y, n, K), g)
    BY DEF Return
  <1>7. /\ Shifts(PushScope, At(z, n, H), At(z, n, K), g) /\ Shifts(PopScope, At(z, n, H), At(z, n, K), g)
        /\ Shifts(Enter, At(z, n, H), At(z, n, K), g) /\ Shifts(Leave, At(z, n, H), At(z, n, K), g)
        /\ \A m, k : Shifts(Define(m, k), At(z, n, H), At(z, n, K), g)
        /\ \A k : Shifts(Snapshot(k), At(z, n, H), At(z, n, K), g)
    BY DEF PushScope, PopScope, Enter, Leave, Define, Snapshot, Do
  <1>8. /\ \A l, m \in DOMAIN g.mark : g.mark[l] = <<>> /\ g.mark[m] = <<>> =>
              Shifts(PushLoop(l, m), At(z, n, H), At(z, n + 1, K), g)
        /\ Shifts(PopLoop, At(z, n + 1, H), At(z, n, K), g)
    BY DEF PushLoop, PopLoop, Do
  <1>9. \A ty, in, next : Standing(in, next, z, n) =>
           /\ Shifts(E(ty, in, next), At(z, n, H), At(z \o StackOf(ty), n, H), g)
           /\ Shifts(Stmts(ty, in, next), At(z, n, H), At(z \o StackOf(ty), n, H), g)
    BY DEF E, Stmts, Stands, Standing
  <1>10. \A ty, in : Standing(in, "else", z, n) =>
            Shifts(Else(ty, in), At(z, n, H), At(z \o StackOf(ty), n, H), g)
    BY DEF Else, Stands, Standing
  <1> HIDE DEF Shifts, At
  <1> QED  BY <1>1, <1>2, <1>3, <1>4, <1>5, <1>6, <1>7, <1>8, <1>9, <1>10

\* Where nothing else is on the stack.
LEMMA PlainKinds ==
    ASSUME NEW g, NEW n, NEW H
    PROVE  /\ \A t, u \in Val : /\ Shifts(Op(<<t>>, <<u>>), At(<<t>>, n, H), At(<<u>>, n, H), g)
                                /\ Shifts(Op(<<t, t>>, <<u>>), At(<<t, t>>, n, H), At(<<u>>, n, H), g)
                                /\ Shifts(Push(t), At(<<>>, n, H), At(<<t>>, n, H), g)
                                /\ Shifts(Push(t), At(<<u>>, n, H), At(<<u, t>>, n, H), g)
           /\ \A k \in H \cap DOMAIN g.kind : g.kind[k] \in Val =>
                 Shifts(LoadTemp(k), At(<<>>, n, H), At(<<g.kind[k]>>, n, H), g)
           /\ \A m, J : \A k \in DOMAIN g.kind : g.kind[k] \in Val /\ J \subseteq H \cup {k} =>
                 Shifts(StoreNew(k, m, g.kind[k]), At(<<g.kind[k]>>, n, H), At(<<>>, n, J), g)
           /\ \A l \in DOMAIN g.mark : g.mark[l] = <<>> => \A t, u \in Val :
                 /\ Shifts(Branch(<<t>>, l), At(<<t>>, n, H), At(<<>>, n, H), g)
                 /\ Shifts(Branch(<<t, u>>, l), At(<<t, u>>, n, H), At(<<>>, n, H), g)
           /\ \A y, J : \A l \in DOMAIN g.mark : J \subseteq H => 
                 Shifts(Goto(l), At(g.mark[l], n, H), At(y, n, J), g)
           /\ \A from, z, J : \A l \in DOMAIN g.mark : g.mark[l] = z /\ J \subseteq H =>
                 Shifts(Place(l, from, z), At(z, n, H), At(z, n, J), g)
           /\ \A z, J : J \subseteq H =>
                 /\ Shifts(PushScope, At(z, n, H), At(z, n, J), g) /\ Shifts(PopScope, At(z, n, H), At(z, n, J), g)
                 /\ Shifts(Enter, At(z, n, H), At(z, n, J), g) /\ Shifts(Leave, At(z, n, H), At(z, n, J), g)
                 /\ \A m, k : Shifts(Define(m, k), At(z, n, H), At(z, n, J), g)
                 /\ \A k : Shifts(Snapshot(k), At(z, n, H), At(z, n, J), g)
                 /\ \A l, m \in DOMAIN g.mark : g.mark[l] = <<>> /\ g.mark[m] = <<>> =>
                       Shifts(PushLoop(l, m), At(z, n, H), At(z, n + 1, J), g)
                 /\ Shifts(PopLoop, At(z, n + 1, H), At(z, n, J), g)
           /\ \A ty, in, next : "operand" \notin in /\ ("loop" \in in => n > 0) =>
                 /\ Shifts(E(ty, in, next), At(<<>>, n, H), At(StackOf(ty), n, H), g)
                 /\ Shifts(Stmts(ty, in, next), At(<<>>, n, H), At(StackOf(ty), n, H), g)
                 /\ Shifts(Else(ty, in), At(<<>>, n, H), At(StackOf(ty), n, H), g)
           /\ \A in : \A t, u \in Val : ("loop" \in in => n > 0) =>
                 Shifts(E(u, in \cup {"operand"}, "code"), At(<<t>>, n, H), At(<<t, u>>, n, H), g)
  <1>0. <<>> \in Seq(Val) /\ \A z \in Seq(Val) : z \o <<>> = z /\ <<>> \o z = z
    BY Stacks
  <1>1. ASSUME NEW t \in Val, NEW u \in Val
        PROVE  /\ Shifts(Op(<<t>>, <<u>>), At(<<t>>, n, H), At(<<u>>, n, H), g)
               /\ Shifts(Op(<<t, t>>, <<u>>), At(<<t, t>>, n, H), At(<<u>>, n, H), g)
               /\ Shifts(Push(t), At(<<>>, n, H), At(<<t>>, n, H), g)
               /\ Shifts(Push(t), At(<<u>>, n, H), At(<<u, t>>, n, H), g)
    <2>1. /\ <<t>> \in Seq(Val) /\ <<u>> \in Seq(Val) /\ <<t, t>> \in Seq(Val)
          /\ <<>> \o <<t>> = <<t>> /\ <<>> \o <<u>> = <<u>> /\ <<>> \o <<t, t>> = <<t, t>>
          /\ <<u>> \o <<t>> = <<u, t>>
      BY Stacks
    <2>2. \A pop, push \in Seq(Val) : Shifts(Op(pop, push), At(<<>> \o pop, n, H), At(<<>> \o push, n, H), g)
      BY <1>0, ShiftKinds
    <2>3. \A z \in Seq(Val) : Shifts(Push(t), At(z, n, H), At(z \o <<t>>, n, H), g)
      BY ShiftKinds
    <2>4. Shifts(Op(<<t>>, <<u>>), At(<<t>>, n, H), At(<<u>>, n, H), g)
      BY <2>1, <2>2
    <2>5. Shifts(Op(<<t, t>>, <<u>>), At(<<t, t>>, n, H), At(<<u>>, n, H), g)
      BY <2>1, <2>2
    <2>6. Shifts(Push(t), At(<<>>, n, H), At(<<>> \o <<t>>, n, H), g)
      BY <1>0, <2>3
    <2>7. Shifts(Push(t), At(<<u>>, n, H), At(<<u>> \o <<t>>, n, H), g)
      BY <2>1, <2>3
    <2> QED  BY <2>1, <2>4, <2>5, <2>6, <2>7
  <1>2. ASSUME NEW k \in H \cap DOMAIN g.kind, g.kind[k] \in Val
        PROVE  Shifts(LoadTemp(k), At(<<>>, n, H), At(<<g.kind[k]>>, n, H), g)
    <2>1. <<>> \o <<g.kind[k]>> = <<g.kind[k]>>
      BY <1>2, Stacks
    <2>2. Shifts(LoadTemp(k), At(<<>>, n, H), At(<<>> \o <<g.kind[k]>>, n, H), g)
      BY <1>0, ShiftKinds
    <2> QED  BY <2>1, <2>2
  <1>3. ASSUME NEW k \in DOMAIN g.kind, NEW m, NEW J, g.kind[k] \in Val, J \subseteq H \cup {k}
        PROVE  Shifts(StoreNew(k, m, g.kind[k]), At(<<g.kind[k]>>, n, H), At(<<>>, n, J), g)
    <2>1. <<>> \o <<g.kind[k]>> = <<g.kind[k]>>
      BY <1>3, Stacks
    <2>2. Shifts(StoreNew(k, m, g.kind[k]), At(<<>> \o <<g.kind[k]>>, n, H), At(<<>>, n, J), g)
      BY <1>0, <1>3, ShiftKinds
    <2> QED  BY <2>1, <2>2
  <1>4. ASSUME NEW l \in DOMAIN g.mark, g.mark[l] = <<>>, NEW t \in Val, NEW u \in Val
        PROVE  /\ Shifts(Branch(<<t>>, l), At(<<t>>, n, H), At(<<>>, n, H), g)
               /\ Shifts(Branch(<<t, u>>, l), At(<<t, u>>, n, H), At(<<>>, n, H), g)
    <2>1. /\ <<t>> \in Seq(Val) /\ <<t, u>> \in Seq(Val)
          /\ <<>> \o <<t>> = <<t>> /\ <<>> \o <<t, u>> = <<t, u>>
      BY Stacks
    <2>2. \A pop \in Seq(Val) : Shifts(Branch(pop, l), At(<<>> \o pop, n, H), At(<<>>, n, H), g)
      BY <1>0, <1>4, ShiftKinds
    <2>3. Shifts(Branch(<<t>>, l), At(<<t>>, n, H), At(<<>>, n, H), g)
      BY <2>1, <2>2
    <2>4. Shifts(Branch(<<t, u>>, l), At(<<t, u>>, n, H), At(<<>>, n, H), g)
      BY <2>1, <2>2
    <2> QED  BY <2>3, <2>4
  <1>5. /\ \A y, J : \A l \in DOMAIN g.mark : J \subseteq H => 
              Shifts(Goto(l), At(g.mark[l], n, H), At(y, n, J), g)
        /\ \A from, z, J : \A l \in DOMAIN g.mark : g.mark[l] = z /\ J \subseteq H =>
              Shifts(Place(l, from, z), At(z, n, H), At(z, n, J), g)
    BY DEF Shifts, At, Goto, Place
  <1>6. ASSUME NEW z, NEW J, J \subseteq H
        PROVE  /\ Shifts(PushScope, At(z, n, H), At(z, n, J), g) /\ Shifts(PopScope, At(z, n, H), At(z, n, J), g)
               /\ Shifts(Enter, At(z, n, H), At(z, n, J), g) /\ Shifts(Leave, At(z, n, H), At(z, n, J), g)
               /\ \A m, k : Shifts(Define(m, k), At(z, n, H), At(z, n, J), g)
               /\ \A k : Shifts(Snapshot(k), At(z, n, H), At(z, n, J), g)
               /\ \A l, m \in DOMAIN g.mark : g.mark[l] = <<>> /\ g.mark[m] = <<>> =>
                     Shifts(PushLoop(l, m), At(z, n, H), At(z, n + 1, J), g)
               /\ Shifts(PopLoop, At(z, n + 1, H), At(z, n, J), g)
    BY <1>6 DEF Shifts, At, PushScope, PopScope, Enter, Leave, Define, Snapshot, PushLoop, PopLoop, Do
  <1>7. ASSUME NEW ty, NEW in, NEW next, "operand" \notin in, "loop" \in in => n > 0
        PROVE  /\ Shifts(E(ty, in, next), At(<<>>, n, H), At(StackOf(ty), n, H), g)
               /\ Shifts(Stmts(ty, in, next), At(<<>>, n, H), At(StackOf(ty), n, H), g)
               /\ Shifts(Else(ty, in), At(<<>>, n, H), At(StackOf(ty), n, H), g)
    <2>1. Standing(in, next, <<>>, n) /\ Standing(in, "else", <<>>, n)
      BY <1>7 DEF Standing
    <2>2. <<>> \o StackOf(ty) = StackOf(ty)
      BY Stacks
    <2>3. /\ Shifts(E(ty, in, next), At(<<>>, n, H), At(<<>> \o StackOf(ty), n, H), g)
          /\ Shifts(Stmts(ty, in, next), At(<<>>, n, H), At(<<>> \o StackOf(ty), n, H), g)
          /\ Shifts(Else(ty, in), At(<<>>, n, H), At(<<>> \o StackOf(ty), n, H), g)
      BY <1>0, <2>1, ShiftKinds
    <2> QED  BY <2>2, <2>3
  <1>8. ASSUME NEW t \in Val, NEW u \in Val, NEW in, "loop" \in in => n > 0
        PROVE  Shifts(E(u, in \cup {"operand"}, "code"), At(<<t>>, n, H), At(<<t, u>>, n, H), g)
    <2>1. Standing(in \cup {"operand"}, "code", <<t>>, n)
      BY <1>8 DEF Standing
    <2>2. <<t>> \o StackOf(u) = <<t, u>> /\ <<t>> \in Seq(Val)
      <3>1. StackOf(u) = <<u>> /\ <<t>> \in Seq(Val)
        BY Stacks
      <3>2. <<t>> \o <<u>> = <<t, u>>
        BY Stacks
      <3> QED  BY <3>1, <3>2
    <2>3. Shifts(E(u, in \cup {"operand"}, "code"), At(<<t>>, n, H), At(<<t>> \o StackOf(u), n, H), g)
      BY <2>1, <2>2, ShiftKinds
    <2> QED  BY <2>2, <2>3
  <1> QED  BY <1>1, <1>2, <1>3, <1>4, <1>5, <1>6, <1>7, <1>8

-----------------------------------------------------------------------------
(* The code of patterns                                                    *)

\* A label that is come to with nothing on the stack.
Bare(l, g) == l \in DOMAIN g.mark /\ g.mark[l] = <<>>

\* What a pattern takes its keys and labels for.
Taken(p, t, b, g) ==
    /\ b \in DOMAIN g.kind /\ g.kind[b] = IF p.kind = "struct" THEN "Long" ELSE t
    /\ p.kind = "struct" => /\ {b + 1, b + 2, b + 3} \subseteq DOMAIN g.kind
                            /\ g.kind[b + 1] = "Ref" /\ g.kind[b + 2] = "Long" /\ g.kind[b + 3] = "Int"
    /\ p.kind = "or" => Bare(b + 4, g) /\ Bare(b + 5, g)

\* The types of values that are matched.
LEMMA Scrutinised == "Int" \in Val /\ "Ref" \in Val /\ "Long" \in Val
  BY DEF Val

\* Values are compared with literals by comparisons of ints.
LEMMA NarrowTests ==
    ASSUME "wideTest" \in Avoid, NEW t \in Val, NEW p \in SimplePatterns(t)
    PROVE  /\ p.kind = "literal" => t = "Int" \/ t = "Ref"
           /\ p.kind = "range" => t = "Int"
  BY SimpleKinds DEF SimplePatterns, Avoids, Pat, Val

\* A test of a value without a part, or a name for it.
LEMMA SimpleTrack ==
    ASSUME "wideTest" \in Avoid, NEW g, NEW n \in Nat,
           NEW H \in SUBSET Nat, NEW t \in Val, NEW p \in SimplePatterns(t),
           NEW k \in H \cap DOMAIN g.kind, g.kind[k] = t, NEW fail, NEW b,
           p.kind = "binding" => b \in DOMAIN g.kind /\ g.kind[b] = t,
           Irrefutable(p) \/ Bare(fail, g)
    PROVE  Track(lower_simple_pattern(p, k, t, fail, b), At(<<>>, n, H), At(<<>>, n, H), g)
  <1> DEFINE code == lower_simple_pattern(p, k, t, fail, b)
             O == At(<<>>, n, H)
             T == At(<<t>>, n, H)
             TT == At(<<t, t>>, n, H)
             I == At(<<"Int">>, n, H)
  <1>1. t \in Val /\ "Int" \in Val
    BY Scrutinised
  <1>2. O \in Point /\ T \in Point /\ TT \in Point /\ I \in Point
    BY <1>1, Stacks, Points
  <1>3. /\ Shifts(LoadTemp(k), O, T, g) /\ Shifts(Push(t), T, TT, g)
        /\ Shifts(Op(<<t, t>>, <<"Int">>), TT, I, g) /\ Shifts(Op(<<t>>, <<"Int">>), T, I, g)
    BY <1>1, PlainKinds
  <1>4. Bare(fail, g) => Shifts(Branch(<<t, t>>, fail), TT, O, g) /\ Shifts(Branch(<<"Int">>, fail), I, O, g)
    BY <1>1, PlainKinds DEF Bare
  <1>5. p.kind = "binding" => \A m : Shifts(StoreNew(b, m, t), T, O, g)
    BY <1>1, PlainKinds
  <1> HIDE DEF O, T, TT, I
  <1>6. CASE p.kind = "wildcard"
    <2>1. code = <<>>
      BY <1>6 DEF lower_simple_pattern
    <2> QED  BY <1>2, <2>1, TrackEmpty DEF O
  <1>7. CASE p.kind = "literal" /\ t = "Int"
    <2> DEFINE s == <<LoadTemp(k), Push(t), Branch(<<t, t>>, fail)>>
               f == <<O, T, TT, O>>
    <2>1. code = s /\ Bare(fail, g)
      BY <1>7 DEF lower_simple_pattern, Irrefutable
    <2>2. IsSeq(s) /\ Len(s) = 3 /\ f[1] = O /\ f[3 + 1] = O /\ \A i \in 1..(3 + 1) : f[i] \in Point
      BY <1>2, Tuples
    <2>3. \A i \in 1..3 : Shifts(s[i], f[i], f[i + 1], g)
      BY <1>3, <1>4, <2>1
    <2> HIDE DEF s, f
    <2>4. Track(s, O, O, g)
      BY <2>2, <2>3, TrackBy
    <2> QED  BY <2>1, <2>4 DEF O
  <1>8. CASE p.kind = "literal" /\ t = "Ref"
    <2> DEFINE s == <<LoadTemp(k), Push(t), Op(<<t, t>>, <<"Int">>), Branch(<<"Int">>, fail)>>
               f == <<O, T, TT, I, O>>
    <2>1. code = s /\ Bare(fail, g)
      BY <1>8 DEF lower_simple_pattern, Irrefutable
    <2>2. IsSeq(s) /\ Len(s) = 4 /\ f[1] = O /\ f[4 + 1] = O /\ \A i \in 1..(4 + 1) : f[i] \in Point
      BY <1>2, Tuples
    <2>3. \A i \in 1..4 : Shifts(s[i], f[i], f[i + 1], g)
      BY <1>3, <1>4, <2>1
    <2> HIDE DEF s, f
    <2>4. Track(s, O, O, g)
      BY <2>2, <2>3, TrackBy
    <2> QED  BY <2>1, <2>4 DEF O
  <1>9. CASE p.kind = "binding"
    <2> DEFINE s == <<LoadTemp(k), StoreNew(b, p.name, t)>>
               f == <<O, T, O>>
    <2>1. code = s
      BY <1>9 DEF lower_simple_pattern
    <2>2. IsSeq(s) /\ Len(s) = 2 /\ f[1] = O /\ f[2 + 1] = O /\ \A i \in 1..(2 + 1) : f[i] \in Point
      BY <1>2, Tuples
    <2>3. \A i \in 1..2 : Shifts(s[i], f[i], f[i + 1], g)
      BY <1>3, <1>5, <1>9
    <2> HIDE DEF s, f
    <2>4. Track(s, O, O, g)
      BY <2>2, <2>3, TrackBy
    <2> QED  BY <2>1, <2>4 DEF O
  <1>10. CASE p.kind = "path"
    <2> DEFINE s == <<LoadTemp(k), Op(<<t>>, <<"Int">>), Branch(<<"Int">>, fail)>>
               f == <<O, T, I, O>>
    <2>1. code = s /\ Bare(fail, g)
      BY <1>10 DEF lower_simple_pattern, Irrefutable
    <2>2. IsSeq(s) /\ Len(s) = 3 /\ f[1] = O /\ f[3 + 1] = O /\ \A i \in 1..(3 + 1) : f[i] \in Point
      BY <1>2, Tuples
    <2>3. \A i \in 1..3 : Shifts(s[i], f[i], f[i + 1], g)
      BY <1>3, <1>4, <2>1
    <2> HIDE DEF s, f
    <2>4. Track(s, O, O, g)
      BY <2>2, <2>3, TrackBy
    <2> QED  BY <2>1, <2>4 DEF O
  <1>11. CASE p.kind = "range"
    <2> DEFINE s == <<LoadTemp(k), Push(t), Branch(<<t, t>>, fail),
                      LoadTemp(k), Push(t), Branch(<<t, t>>, fail)>>
               f == <<O, T, TT, O, T, TT, O>>
    <2>1. code = s /\ Bare(fail, g)
      BY <1>11, NarrowTests DEF lower_simple_pattern, Irrefutable
    <2>2. IsSeq(s) /\ Len(s) = 6 /\ f[1] = O /\ f[6 + 1] = O /\ \A i \in 1..(6 + 1) : f[i] \in Point
      BY <1>2, Tuples
    <2>3. \A i \in 1..6 : Shifts(s[i], f[i], f[i + 1], g)
      BY <1>3, <1>4, <2>1
    <2> HIDE DEF s, f
    <2>4. Track(s, O, O, g)
      BY <2>2, <2>3, TrackBy
    <2> QED  BY <2>1, <2>4 DEF O
  <1> QED  BY <1>6, <1>7, <1>8, <1>9, <1>10, <1>11, SimpleKinds, NarrowTests DEF Simple

\* A value and a name for it.
LEMMA NamedTrack ==
    ASSUME NEW g, NEW n \in Nat, NEW H \in SUBSET Nat, NEW J \in SUBSET Nat, J \subseteq H,
           NEW k \in H \cap DOMAIN g.kind, NEW b \in DOMAIN g.kind, NEW t \in Val,
           g.kind[k] = t, g.kind[b] = t, NEW m
    PROVE  Track(<<LoadTemp(k), StoreNew(b, m, t)>>, At(<<>>, n, H), At(<<>>, n, J), g)
  <1> DEFINE s == <<LoadTemp(k), StoreNew(b, m, t)>>
             O == At(<<>>, n, H)
             T == At(<<t>>, n, H)
             P == At(<<>>, n, J)
             f == <<O, T, P>>
  <1>1. O \in Point /\ T \in Point /\ P \in Point
    BY Stacks, Points
  <1>2. Shifts(LoadTemp(k), O, T, g) /\ Shifts(StoreNew(b, m, t), T, P, g)
    BY PlainKinds
  <1> HIDE DEF O, T, P
  <1>3. IsSeq(s) /\ Len(s) = 2 /\ f[1] = O /\ f[2 + 1] = P /\ \A i \in 1..(2 + 1) : f[i] \in Point
    BY <1>1, Tuples
  <1>4. \A i \in 1..2 : Shifts(s[i], f[i], f[i + 1], g)
    BY <1>2
  <1> HIDE DEF s, f
  <1>5. Track(s, O, P, g)
    BY <1>3, <1>4, TrackBy
  <1> QED  BY <1>5 DEF s, O, P

\* A jump and a label, as between the alternatives of a pattern and the arms of
\* a form.
LEMMA JumpTrack ==
    ASSUME NEW g, NEW z \in Seq(Val), NEW n \in Nat, NEW H \in SUBSET Nat, NEW l \in DOMAIN g.mark,
           g.mark[l] = z, NEW m, Bare(m, g), NEW from
    PROVE  Track(<<Goto(l), Place(m, from, <<>>)>>, At(z, n, H), At(<<>>, n, H), g)
  <1> DEFINE s == <<Goto(l), Place(m, from, <<>>)>>
             O == At(<<>>, n, H)
             Z == At(z, n, H)
             f == <<Z, O, O>>
  <1>1. O \in Point /\ Z \in Point
    BY Stacks, Points
  <1>2. Shifts(Goto(l), Z, O, g) /\ Shifts(Place(m, from, <<>>), O, O, g)
    BY PlainKinds DEF Bare
  <1> HIDE DEF O, Z
  <1>3. IsSeq(s) /\ Len(s) = 2 /\ f[1] = Z /\ f[2 + 1] = O /\ \A i \in 1..(2 + 1) : f[i] \in Point
    BY <1>1, Tuples
  <1>4. \A i \in 1..2 : Shifts(s[i], f[i], f[i + 1], g)
    BY <1>2
  <1> HIDE DEF s, f
  <1>5. Track(s, Z, O, g)
    BY <1>3, <1>4, TrackBy
  <1> QED  BY <1>5 DEF s, O, Z

\* A label with a stack.
LEMMA PlaceTrack ==
    ASSUME NEW g, NEW z \in Seq(Val), NEW n \in Nat, NEW H \in SUBSET Nat, NEW J \in SUBSET Nat,
           J \subseteq H, NEW l \in DOMAIN g.mark, g.mark[l] = z, NEW from
    PROVE  Track(<<Place(l, from, z)>>, At(z, n, H), At(z, n, J), g)
  <1>1. At(z, n, H) \in Point /\ At(z, n, J) \in Point
    BY Points
  <1>2. Shifts(Place(l, from, z), At(z, n, H), At(z, n, J), g)
    BY PlainKinds
  <1> QED  BY <1>1, <1>2, TrackOne

\* The two fields of a variant.
LEMMA FieldsTrack ==
    ASSUME NEW g, NEW n \in Nat, NEW H \in SUBSET Nat, NEW p, p.kind = "struct",
           NEW k \in H \cap DOMAIN g.kind, g.kind[k] = "Ref", NEW fail, Bare(fail, g),
           NEW b \in Nat, Taken(p, "Ref", b, g)
    PROVE  Track(<<LoadTemp(k), Op(<<"Ref">>, <<"Int">>), Branch(<<"Int">>, fail),
                   LoadTemp(k), StoreTemp(b + 1, "Ref"),
                   LoadTemp(b + 1), Op(<<"Ref">>, <<"Long">>), StoreTemp(b + 2, "Long"),
                   LoadTemp(b + 1), Op(<<"Ref">>, <<"Int">>), StoreTemp(b + 3, "Int")>>,
                 At(<<>>, n, H), At(<<>>, n, H \cup {b + 1, b + 2, b + 3}), g)
  <1> DEFINE H1 == H \cup {b + 1}
             H2 == H1 \cup {b + 2}
             H3 == H \cup {b + 1, b + 2, b + 3}
             s == <<LoadTemp(k), Op(<<"Ref">>, <<"Int">>), Branch(<<"Int">>, fail),
                    LoadTemp(k), StoreTemp(b + 1, "Ref"),
                    LoadTemp(b + 1), Op(<<"Ref">>, <<"Long">>), StoreTemp(b + 2, "Long"),
                    LoadTemp(b + 1), Op(<<"Ref">>, <<"Int">>), StoreTemp(b + 3, "Int")>>
             O == At(<<>>, n, H)
             R == At(<<"Ref">>, n, H)
             I == At(<<"Int">>, n, H)
             O1 == At(<<>>, n, H1)
             R1 == At(<<"Ref">>, n, H1)
             L1 == At(<<"Long">>, n, H1)
             O2 == At(<<>>, n, H2)
             R2 == At(<<"Ref">>, n, H2)
             I2 == At(<<"Int">>, n, H2)
             O3 == At(<<>>, n, H3)
             f == <<O, R, I, O, R, O1, R1, L1, O2, R2, I2, O3>>
  <1>1. /\ b + 1 \in DOMAIN g.kind /\ g.kind[b + 1] = "Ref"
        /\ b + 2 \in DOMAIN g.kind /\ g.kind[b + 2] = "Long"
        /\ b + 3 \in DOMAIN g.kind /\ g.kind[b + 3] = "Int"
    BY DEF Taken
  <1>2. H1 \in SUBSET Nat /\ H2 \in SUBSET Nat /\ H3 \in SUBSET Nat /\ b + 1 \in H1 /\ b + 1 \in H2
        /\ H1 \subseteq H \cup {b + 1} /\ H2 \subseteq H1 \cup {b + 2} /\ H3 \subseteq H2 \cup {b + 3}
    OBVIOUS
  <1> HIDE DEF H1, H2, H3
  <1>3. /\ O \in Point /\ R \in Point /\ I \in Point /\ O1 \in Point /\ R1 \in Point /\ L1 \in Point
        /\ O2 \in Point /\ R2 \in Point /\ I2 \in Point /\ O3 \in Point
    BY <1>2, Scrutinised, Stacks, Points
  <1>4. /\ Shifts(LoadTemp(k), O, R, g) /\ Shifts(Op(<<"Ref">>, <<"Int">>), R, I, g)
        /\ Shifts(Branch(<<"Int">>, fail), I, O, g)
    BY Scrutinised, PlainKinds DEF Bare
  <1>5. /\ Shifts(StoreTemp(b + 1, "Ref"), R, O1, g) /\ Shifts(StoreTemp(b + 2, "Long"), L1, O2, g)
        /\ Shifts(StoreTemp(b + 3, "Int"), I2, O3, g)
    BY <1>1, <1>2, Scrutinised, PlainKinds DEF StoreTemp
  <1>6. /\ Shifts(LoadTemp(b + 1), O1, R1, g) /\ Shifts(Op(<<"Ref">>, <<"Long">>), R1, L1, g)
        /\ Shifts(LoadTemp(b + 1), O2, R2, g) /\ Shifts(Op(<<"Ref">>, <<"Int">>), R2, I2, g)
    BY <1>1, <1>2, Scrutinised, PlainKinds
  <1> HIDE DEF O, R, I, O1, R1, L1, O2, R2, I2, O3
  <1>7. IsSeq(s) /\ Len(s) = 11 /\ f[1] = O /\ f[11 + 1] = O3 /\ \A i \in 1..(11 + 1) : f[i] \in Point
    BY <1>3, Tuples
  <1>8. \A i \in 1..11 : Shifts(s[i], f[i], f[i + 1], g)
    BY <1>4, <1>5, <1>6
  <1> HIDE DEF s, f
  <1>9. Track(s, O, O3, g)
    BY <1>7, <1>8, TrackBy
  <1> QED  BY <1>9 DEF s, O, O3, H3

\* A variant is a reference.
LEMMA StructOfRef ==
    ASSUME NEW t \in Val, NEW p \in Patterns(t), p.kind = "struct"
    PROVE  t = "Ref"
  <1>1. p \notin SimplePatterns(t)
    BY SimpleKinds DEF Simple
  <1>2. \A q, m : Pat("at", m, q).kind # "struct" /\ Pat("or", m, q).kind # "struct"
    BY DEF Pat
  <1> QED  BY <1>1, <1>2 DEF Patterns

\* The code that tries a pattern leaves nothing on the stack, where it matched
\* and where it failed.
LEMMA CheckTrack ==
    ASSUME "wideTest" \in Avoid, NEW g, NEW n \in Nat,
           NEW H \in SUBSET Nat, NEW t \in Val, NEW p \in Patterns(t),
           NEW k \in H \cap DOMAIN g.kind, g.kind[k] = t, NEW fail, NEW b \in Nat, Taken(p, t, b, g),
           Irrefutable(p) \/ Bare(fail, g)
    PROVE  Track(lower_pattern_check(p, k, t, fail, b), At(<<>>, n, H), At(<<>>, n, H), g)
  <1>1. CASE p \in SimplePatterns(t)
    <2>1. p.kind \notin {"struct", "or", "at"}
      BY <1>1, SimpleKinds DEF Simple
    <2>2. lower_pattern_check(p, k, t, fail, b) = lower_simple_pattern(p, k, t, fail, b)
      BY <2>1 DEF lower_pattern_check
    <2>3. b \in DOMAIN g.kind /\ g.kind[b] = t
      BY <2>1 DEF Taken
    <2> QED  BY <1>1, <2>2, <2>3, SimpleTrack
  <1>2. CASE p.kind = "at" /\ p.sub \in SimplePatterns(t) /\ p.sub.name = NoName
    <2>1. lower_pattern_check(p, k, t, fail, b)
            = lower_simple_pattern(p.sub, k, t, fail, b) \o <<LoadTemp(k), StoreNew(b, p.name, t)>>
      BY <1>2 DEF lower_pattern_check
    <2>2. b \in DOMAIN g.kind /\ g.kind[b] = t /\ t \in Val /\ Bare(fail, g)
      BY <1>2, Scrutinised DEF Taken, Irrefutable
    <2>3. Track(<<LoadTemp(k), StoreNew(b, p.name, t)>>, At(<<>>, n, H), At(<<>>, n, H), g)
      BY <2>2, NamedTrack
    <2>4. Track(lower_simple_pattern(p.sub, k, t, fail, b), At(<<>>, n, H), At(<<>>, n, H), g)
      BY <1>2, <2>2, SimpleTrack
    <2> QED  BY <2>1, <2>3, <2>4, TrackConcat
  <1>3. CASE p.kind = "or" /\ p.sub \in SimplePatterns(t)
    <2>1. lower_pattern_check(p, k, t, fail, b)
            = lower_simple_pattern(p.sub, k, t, b + 5, b)
              \o <<Goto(b + 4), Place(b + 5, Live, <<>>)>>
              \o lower_simple_pattern(p.sub, k, t, fail, b)
              \o <<Place(b + 4, Live, <<>>)>>
      BY <1>3 DEF lower_pattern_check, lower_or_pattern
    <2>2. b \in DOMAIN g.kind /\ g.kind[b] = t /\ Bare(fail, g) /\ Bare(b + 4, g) /\ Bare(b + 5, g)
          /\ <<>> \in Seq(Val)
      BY <1>3, Stacks DEF Taken, Irrefutable
    <2>3. Track(lower_simple_pattern(p.sub, k, t, b + 5, b), At(<<>>, n, H), At(<<>>, n, H), g)
      BY <1>3, <2>2, SimpleTrack
    <2>4. Track(lower_simple_pattern(p.sub, k, t, fail, b), At(<<>>, n, H), At(<<>>, n, H), g)
      BY <1>3, <2>2, SimpleTrack
    <2>5. Track(<<Goto(b + 4), Place(b + 5, Live, <<>>)>>, At(<<>>, n, H), At(<<>>, n, H), g)
      BY <2>2, JumpTrack DEF Bare
    <2>6. Track(<<Place(b + 4, Live, <<>>)>>, At(<<>>, n, H), At(<<>>, n, H), g)
      BY <2>2, PlaceTrack DEF Bare
    <2> QED  BY <2>1, <2>3, <2>4, <2>5, <2>6, TrackConcat4
  <1>4. CASE /\ p.kind = "struct" /\ p.sub \in SimplePatterns("Int") /\ p.sub.name = NoName
    <2> DEFINE s == <<LoadTemp(k), Op(<<"Ref">>, <<"Int">>), Branch(<<"Int">>, fail),
                      LoadTemp(k), StoreTemp(b + 1, "Ref"),
                      LoadTemp(b + 1), Op(<<"Ref">>, <<"Long">>), StoreTemp(b + 2, "Long"),
                      LoadTemp(b + 1), Op(<<"Ref">>, <<"Int">>), StoreTemp(b + 3, "Int")>>
               r == <<LoadTemp(b + 2), StoreNew(b, p.name, "Long")>>
               H3 == H \cup {b + 1, b + 2, b + 3}
    <2>1. lower_pattern_check(p, k, t, fail, b)
            = s \o lower_simple_pattern(p.sub, b + 3, "Int", fail, b) \o r
      BY <1>4 DEF lower_pattern_check, lower_struct_pattern
    <2>2. t = "Ref" /\ Bare(fail, g)
      BY <1>4, StructOfRef DEF Irrefutable
    <2>3. Track(s, At(<<>>, n, H), At(<<>>, n, H3), g)
      BY <1>4, <2>2, FieldsTrack
    <2>4. /\ H3 \in SUBSET Nat /\ H \subseteq H3 /\ b + 3 \in H3 /\ b + 2 \in H3
          /\ b + 3 \in DOMAIN g.kind /\ g.kind[b + 3] = "Int"
          /\ b + 2 \in DOMAIN g.kind /\ g.kind[b + 2] = "Long"
          /\ b \in DOMAIN g.kind /\ g.kind[b] = "Long"
      BY <1>4 DEF Taken
    <2> HIDE DEF s, r, H3
    <2>5. p.sub.kind # "binding" /\ "Int" \in Val
      <3>1. p.sub.name \notin UserName
        BY <1>4, NameAssumption
      <3>2. "Int" \in Val
        BY DEF Val
      <3> QED  BY <1>4, <3>1, <3>2, SimpleKinds DEF Simple
    <2>6. Track(lower_simple_pattern(p.sub, b + 3, "Int", fail, b), At(<<>>, n, H3), At(<<>>, n, H3), g)
      BY <1>4, <2>2, <2>4, <2>5, SimpleTrack
    <2>7. Track(r, At(<<>>, n, H3), At(<<>>, n, H), g)
      BY <2>4, Scrutinised, NamedTrack DEF r
    <2> QED  BY <2>1, <2>3, <2>6, <2>7, TrackConcat3
  <1> QED  BY <1>1, <1>2, <1>3, <1>4, PatternKinds

\* The checker's side leaves the stack alone.
LEMMA BindTrack ==
    ASSUME NEW g, NEW a \in Point, NEW p, NEW b
    PROVE  Track(bind_pattern(p, b), a, a, g)
  <1>1. CASE Bound(p) = {}
    BY <1>1, TrackEmpty DEF bind_pattern
  <1>2. CASE Bound(p) # {}
    <2>1. a = At(a.stack, a.loops, a.held)
      BY Points
    <2>2. Shifts(Define(p.name, b), At(a.stack, a.loops, a.held), At(a.stack, a.loops, a.held), g)
      BY PlainKinds
    <2>3. bind_pattern(p, b) = <<Define(p.name, b)>>
      BY <1>2 DEF bind_pattern
    <2> QED  BY <2>1, <2>2, <2>3, TrackOne
  <1> QED  BY <1>1, <1>2

-----------------------------------------------------------------------------
(* The keys and labels of a form                                           *)

\* More keys and labels are taken.
Extends(h, g) ==
    /\ DOMAIN g.kind \subseteq DOMAIN h.kind /\ \A k \in DOMAIN g.kind : h.kind[k] = g.kind[k]
    /\ DOMAIN g.mark \subseteq DOMAIN h.mark /\ \A l \in DOMAIN g.mark : h.mark[l] = g.mark[l]
    /\ h.result = g.result

\* A step stays what it is when more are taken.
LEMMA ShiftsGrow ==
    ASSUME NEW g, NEW h, Extends(h, g), NEW s, NEW a, NEW b, Shifts(s, a, b, g)
    PROVE  Shifts(s, a, b, h)
  BY DEF Extends, Shifts

\* And so does a path.
LEMMA TrackGrow ==
    ASSUME NEW g, NEW h, Extends(h, g), NEW s, NEW a, NEW b, Track(s, a, b, g)
    PROVE  Track(s, a, b, h)
  <1>1. PICK f : /\ f[1] = a /\ f[Len(s) + 1] = b
                 /\ \A i \in 1..(Len(s) + 1) : f[i] \in Point
                 /\ \A i \in 1..Len(s) : Shifts(s[i], f[i], f[i + 1], g)
    BY DEF Track
  <1>2. \A i \in 1..Len(s) : Shifts(s[i], f[i], f[i + 1], h)
    BY <1>1, ShiftsGrow
  <1> QED  BY <1>1, <1>2 DEF Track

\* The parts of a use.
LEMMA UseParts ==
    ASSUME NEW N \in Nat, NEW g \in Use(N)
    PROVE  /\ g.kind \in [Param..(N - 1) -> Val] /\ DOMAIN g.kind = Param..(N - 1)
           /\ g.mark \in [0..(N - 1) -> Seq(Val)] /\ DOMAIN g.mark = 0..(N - 1)
           /\ g.result \in Ty
  BY DEF Use

\* The keys and labels a form takes come behind those that are taken.
LEMMA Among ==
    ASSUME NEW N \in Nat, NEW M, M = N + 15, NEW i \in 0..14
    PROVE  N + i \in Param..(M - 1) /\ N + i \in 0..(M - 1) /\ ~ (N + i < N) /\ (N + i) - N = i
  BY DEF Param

\* Any types and stacks may be taken for the keys and labels of a form.
LEMMA Room ==
    ASSUME NEW N \in Nat, NEW g \in Use(N), NEW K \in [0..14 -> Val], NEW m \in [0..14 -> Seq(Val)]
    PROVE  \E h \in Use(N + FormKeys) :
              /\ Extends(h, g)
              /\ \A i \in 0..14 : /\ N + i \in DOMAIN h.kind /\ h.kind[N + i] = K[i]
                                  /\ N + i \in DOMAIN h.mark /\ h.mark[N + i] = m[i]
  <1>0. PICK M : M = N + 15
    OBVIOUS
  <1>1. M \in Nat /\ M = N + 15
    BY <1>0
  <1>9. N + FormKeys = M
    BY <1>1 DEF FormKeys, PatternKeys
  <1> DEFINE kinds == [k \in Param..(M - 1) |-> IF k < N THEN g.kind[k] ELSE K[k - N]]
             marks == [l \in 0..(M - 1) |-> IF l < N THEN g.mark[l] ELSE m[l - N]]
  <1>2. PICK h : h = [kind |-> kinds, mark |-> marks, result |-> g.result]
    OBVIOUS
  <1>3. h.kind = kinds /\ h.mark = marks /\ h.result = g.result
    BY <1>2
  <1>4. kinds \in [Param..(M - 1) -> Val]
    <2>1. ASSUME NEW k \in Param..(M - 1) PROVE kinds[k] \in Val
      <3>1. CASE k < N
        <4>1. k \in Param..(N - 1)
          BY <3>1 DEF Param
        <4>2. g.kind[k] \in Val
          BY <4>1, UseParts
        <4> QED  BY <3>1, <4>2
      <3>2. CASE ~ (k < N)
        <4>1. k - N \in 0..14
          BY <1>1, <3>2 DEF Param
        <4> QED  BY <3>2, <4>1
      <3> QED  BY <3>1, <3>2
    <2> QED  BY <2>1
  <1>5. marks \in [0..(M - 1) -> Seq(Val)]
    <2>1. ASSUME NEW l \in 0..(M - 1) PROVE marks[l] \in Seq(Val)
      <3>1. CASE l < N
        <4>1. l \in 0..(N - 1)
          BY <3>1
        <4>2. g.mark[l] \in Seq(Val)
          BY <4>1, UseParts
        <4> QED  BY <3>1, <4>2
      <3>2. CASE ~ (l < N)
        <4>1. l - N \in 0..14
          BY <1>1, <3>2
        <4>2. m[l - N] \in Seq(Val)
          BY <4>1
        <4> QED  BY <3>2, <4>2
      <3> QED  BY <3>1, <3>2
    <2> QED  BY <2>1
  <1>6. h \in Use(M)
    BY <1>2, <1>4, <1>5, UseParts DEF Use
  <1>7. Extends(h, g)
    <2>1. ASSUME NEW k \in Param..(N - 1) PROVE k \in Param..(M - 1) /\ kinds[k] = g.kind[k]
      <3>1. k \in Param..(M - 1) /\ k < N
        BY <1>1 DEF Param
      <3> QED  BY <3>1
    <2>2. ASSUME NEW l \in 0..(N - 1) PROVE l \in 0..(M - 1) /\ marks[l] = g.mark[l]
      <3>1. l \in 0..(M - 1) /\ l < N
        BY <1>1
      <3> QED  BY <3>1
    <2>3. DOMAIN kinds = Param..(M - 1) /\ DOMAIN marks = 0..(M - 1)
      OBVIOUS
    <2> HIDE DEF kinds, marks
    <2> QED  BY <1>3, <2>1, <2>2, <2>3, UseParts DEF Extends
  <1>8. ASSUME NEW i \in 0..14
        PROVE /\ N + i \in DOMAIN kinds /\ kinds[N + i] = K[i]
              /\ N + i \in DOMAIN marks /\ marks[N + i] = m[i]
    <2>1. N + i \in Param..(M - 1) /\ N + i \in 0..(M - 1) /\ ~ (N + i < N) /\ (N + i) - N = i
      BY <1>1, Among
    <2>2. N + i \in DOMAIN kinds /\ N + i \in DOMAIN marks
      BY <2>1
    <2>3. kinds[N + i] = K[(N + i) - N]
      BY <2>1
    <2>4. marks[N + i] = m[(N + i) - N]
      BY <2>1
    <2> HIDE DEF kinds, marks
    <2> QED  BY <2>1, <2>2, <2>3, <2>4
  <1> HIDE DEF kinds, marks
  <1> QED  BY <1>3, <1>6, <1>7, <1>8, <1>9

\* The value a pattern binds.
Held(p, t) == IF p.kind = "struct" THEN "Long" ELSE t

\* Two slots, three labels and two patterns.
Plan(h, L, k0, k2, k3, k9, m0, m1, m2) ==
    /\ {L, L + 2, L + 3, L + 4, L + 5, L + 6, L + 9, L + 10, L + 11, L + 12} \subseteq DOMAIN h.kind
    /\ h.kind[L] = k0 /\ h.kind[L + 2] = k2 /\ h.kind[L + 3] = k3 /\ h.kind[L + 9] = k9
    /\ h.kind[L + 4] = "Ref" /\ h.kind[L + 5] = "Long" /\ h.kind[L + 6] = "Int"
    /\ h.kind[L + 10] = "Ref" /\ h.kind[L + 11] = "Long" /\ h.kind[L + 12] = "Int"
    /\ {L, L + 1, L + 2} \subseteq DOMAIN h.mark
    /\ h.mark[L] = m0 /\ h.mark[L + 1] = m1 /\ h.mark[L + 2] = m2
    /\ Bare(L + 7, h) /\ Bare(L + 8, h) /\ Bare(L + 13, h) /\ Bare(L + 14, h)

\* They may be taken for anything.
LEMMA Planned ==
    ASSUME NEW L \in Nat, NEW g \in Use(L), NEW k0 \in Val, NEW k2 \in Val, NEW k3 \in Val,
           NEW k9 \in Val, NEW m0 \in Seq(Val), NEW m1 \in Seq(Val), NEW m2 \in Seq(Val)
    PROVE  \E h \in Use(L + FormKeys) : Extends(h, g) /\ Plan(h, L, k0, k2, k3, k9, m0, m1, m2)
  <1> DEFINE K == [i \in 0..14 |-> CASE i = 0 -> k0 [] i = 2 -> k2 [] i = 3 -> k3 [] i = 9 -> k9
                                     [] i \in {4, 10} -> "Ref" [] i \in {5, 11} -> "Long"
                                     [] OTHER -> "Int"]
             m == [i \in 0..14 |-> CASE i = 0 -> m0 [] i = 1 -> m1 [] i = 2 -> m2 [] OTHER -> <<>>]
  <1>1. /\ K[0] = k0 /\ K[2] = k2 /\ K[3] = k3 /\ K[9] = k9
        /\ K[4] = "Ref" /\ K[5] = "Long" /\ K[6] = "Int"
        /\ K[10] = "Ref" /\ K[11] = "Long" /\ K[12] = "Int"
    OBVIOUS
  <1>2. /\ m[0] = m0 /\ m[1] = m1 /\ m[2] = m2
        /\ m[7] = <<>> /\ m[8] = <<>> /\ m[13] = <<>> /\ m[14] = <<>>
    OBVIOUS
  <1>3. K \in [0..14 -> Val]
    BY Scrutinised
  <1>4. m \in [0..14 -> Seq(Val)]
    <2>1. <<>> \in Seq(Val)
      BY Stacks
    <2>2. \A i \in 0..14 : m[i] \in Seq(Val)
      BY <2>1
    <2> QED  BY <2>2
  <1> HIDE DEF K, m
  <1>12. \E h \in Use(L + FormKeys) :
            /\ Extends(h, g)
            /\ \A i \in 0..14 : /\ L + i \in DOMAIN h.kind /\ h.kind[L + i] = K[i]
                               /\ L + i \in DOMAIN h.mark /\ h.mark[L + i] = m[i]
    BY <1>3, <1>4, Room
  <1>5. PICK h \in Use(L + FormKeys) :
           /\ Extends(h, g)
           /\ \A i \in 0..14 : /\ L + i \in DOMAIN h.kind /\ h.kind[L + i] = K[i]
                              /\ L + i \in DOMAIN h.mark /\ h.mark[L + i] = m[i]
    BY <1>12
  <1> DEFINE P(i) == /\ L + i \in DOMAIN h.kind /\ h.kind[L + i] = K[i]
                     /\ L + i \in DOMAIN h.mark /\ h.mark[L + i] = m[i]
  <1>10. \A i \in 0..14 : P(i)
    BY <1>5
  <1> HIDE DEF P
  <1>11. /\ P(0) /\ P(1) /\ P(2) /\ P(3) /\ P(4) /\ P(5) /\ P(6) /\ P(7) /\ P(8) /\ P(9) /\ P(10)
         /\ P(11) /\ P(12) /\ P(13) /\ P(14)
    BY <1>10
  <1> USE DEF P
  <1>6. L + 0 = L
    OBVIOUS
  <1>7. /\ {L, L + 2, L + 3, L + 4, L + 5, L + 6, L + 9, L + 10, L + 11, L + 12} \subseteq DOMAIN h.kind
        /\ {L, L + 1, L + 2} \subseteq DOMAIN h.mark
    BY <1>6, <1>11
  <1>8. /\ h.kind[L] = k0 /\ h.kind[L + 2] = k2 /\ h.kind[L + 3] = k3 /\ h.kind[L + 9] = k9
        /\ h.kind[L + 4] = "Ref" /\ h.kind[L + 5] = "Long" /\ h.kind[L + 6] = "Int"
        /\ h.kind[L + 10] = "Ref" /\ h.kind[L + 11] = "Long" /\ h.kind[L + 12] = "Int"
        /\ h.mark[L] = m0 /\ h.mark[L + 1] = m1 /\ h.mark[L + 2] = m2
    BY <1>1, <1>2, <1>6, <1>11
  <1>9. Bare(L + 7, h) /\ Bare(L + 8, h) /\ Bare(L + 13, h) /\ Bare(L + 14, h)
    BY <1>2, <1>11 DEF Bare
  <1>13. Plan(h, L, k0, k2, k3, k9, m0, m1, m2)
    BY <1>7, <1>8, <1>9 DEF Plan
  <1> QED  BY <1>5, <1>13

\* Two slots, three labels and two patterns that are matched with values of
\* type t.
Fit(h, L, t, k0, k2, p, q, m0, m1, m2) ==
    /\ L \in DOMAIN h.kind /\ h.kind[L] = k0 /\ L + 2 \in DOMAIN h.kind /\ h.kind[L + 2] = k2
    /\ {L, L + 1, L + 2} \subseteq DOMAIN h.mark
    /\ h.mark[L] = m0 /\ h.mark[L + 1] = m1 /\ h.mark[L + 2] = m2
    /\ Taken(p, t, L + 3, h) /\ Taken(q, t, L + 9, h)

LEMMA PlannedFor ==
    ASSUME NEW L \in Nat, NEW g \in Use(L), NEW t \in Val, NEW k0 \in Val, NEW k2 \in Val,
           NEW p, NEW q, NEW m0 \in Seq(Val), NEW m1 \in Seq(Val), NEW m2 \in Seq(Val)
    PROVE  \E h \in Use(L + FormKeys) : Extends(h, g) /\ Fit(h, L, t, k0, k2, p, q, m0, m1, m2)
  <1>1. Held(p, t) \in Val /\ Held(q, t) \in Val
    BY Scrutinised DEF Held
  <1>2. PICK h \in Use(L + FormKeys) :
           Extends(h, g) /\ Plan(h, L, k0, k2, Held(p, t), Held(q, t), m0, m1, m2)
    BY <1>1, Planned
  <1>3. /\ {L, L + 2, L + 3, L + 4, L + 5, L + 6, L + 9, L + 10, L + 11, L + 12} \subseteq DOMAIN h.kind
        /\ h.kind[L] = k0 /\ h.kind[L + 2] = k2 /\ h.kind[L + 3] = Held(p, t) /\ h.kind[L + 9] = Held(q, t)
        /\ h.kind[L + 4] = "Ref" /\ h.kind[L + 5] = "Long" /\ h.kind[L + 6] = "Int"
        /\ h.kind[L + 10] = "Ref" /\ h.kind[L + 11] = "Long" /\ h.kind[L + 12] = "Int"
        /\ {L, L + 1, L + 2} \subseteq DOMAIN h.mark
        /\ h.mark[L] = m0 /\ h.mark[L + 1] = m1 /\ h.mark[L + 2] = m2
        /\ Bare(L + 7, h) /\ Bare(L + 8, h) /\ Bare(L + 13, h) /\ Bare(L + 14, h)
    BY <1>2 DEF Plan
  <1>4. /\ (L + 3) + 1 = L + 4 /\ (L + 3) + 2 = L + 5 /\ (L + 3) + 3 = L + 6
        /\ (L + 3) + 4 = L + 7 /\ (L + 3) + 5 = L + 8
        /\ (L + 9) + 1 = L + 10 /\ (L + 9) + 2 = L + 11 /\ (L + 9) + 3 = L + 12
        /\ (L + 9) + 4 = L + 13 /\ (L + 9) + 5 = L + 14
    OBVIOUS
  <1>5. Taken(p, t, L + 3, h)
    BY <1>3, <1>4 DEF Taken, Held
  <1>6. Taken(q, t, L + 9, h)
    BY <1>3, <1>4 DEF Taken, Held
  <1>7. Fit(h, L, t, k0, k2, p, q, m0, m1, m2)
    BY <1>3, <1>5, <1>6 DEF Fit
  <1> QED  BY <1>2, <1>7

-----------------------------------------------------------------------------
(* The code of forms                                                       *)

\* A block leaves its value on the stack.
LEMMA BodyTrack ==
    ASSUME NEW g, NEW z \in Seq(Val), NEW n \in Nat, NEW H \in SUBSET Nat,
           NEW ty, NEW in, NEW next, Standing(in, next, z, n)
    PROVE  Track(Body(ty, in, next), At(z, n, H), At(z \o StackOf(ty), n, H), g)
  <1> DEFINE stmts == Stmts(ty, in, next)
             s == <<PushScope, Enter, stmts>>
             Z == At(z, n, H)
             Y == At(z \o StackOf(ty), n, H)
             f == <<Z, Z, Z, Y>>
  <1>1. Z \in Point /\ Y \in Point
    BY Stacks, Points
  <1>2. Shifts(PushScope, Z, Z, g) /\ Shifts(Enter, Z, Z, g) /\ Shifts(stmts, Z, Y, g)
    BY ShiftKinds
  <1> HIDE DEF Z, Y, stmts
  <1>3. IsSeq(s) /\ Len(s) = 3 /\ f[1] = Z /\ f[3 + 1] = Y /\ \A i \in 1..(3 + 1) : f[i] \in Point
    BY <1>1, Tuples
  <1>4. \A i \in 1..3 : Shifts(s[i], f[i], f[i + 1], g)
    BY <1>2
  <1> HIDE DEF s, f
  <1>5. Track(s, Z, Y, g)
    BY <1>3, <1>4, TrackBy
  <1> QED  BY <1>5 DEF s, Z, Y, stmts, Body

\* A block where nothing is on the stack.
LEMMA InnerTrack ==
    ASSUME NEW g, NEW n \in Nat, NEW H \in SUBSET Nat, NEW ty, NEW in, NEW next,
           "operand" \notin in, "loop" \in in => n > 0
    PROVE  Track(Body(ty, in, next), At(<<>>, n, H), At(StackOf(ty), n, H), g)
  <1>1. Standing(in, next, <<>>, n) /\ <<>> \in Seq(Val) /\ <<>> \o StackOf(ty) = StackOf(ty)
    BY Stacks DEF Standing
  <1>2. Track(Body(ty, in, next), At(<<>>, n, H), At(<<>> \o StackOf(ty), n, H), g)
    BY <1>1, BodyTrack
  <1> QED  BY <1>1, <1>2

\* The value of a block or an arm, and the end of its scopes.
LEMMA EndTrack ==
    ASSUME NEW g, NEW z \in Seq(Val), NEW n \in Nat, NEW H \in SUBSET Nat,
           NEW ty, NEW in, NEW next, Standing(in, next, z, n)
    PROVE  Track(<<E(ty, in, next), Leave, PopScope>>, At(z, n, H), At(z \o StackOf(ty), n, H), g)
  <1> DEFINE value == E(ty, in, next)
             s == <<value, Leave, PopScope>>
             Z == At(z, n, H)
             Y == At(z \o StackOf(ty), n, H)
             f == <<Z, Y, Y, Y>>
  <1>1. Z \in Point /\ Y \in Point /\ z \o StackOf(ty) \in Seq(Val)
    BY Stacks, Points
  <1>2. Shifts(Leave, Y, Y, g) /\ Shifts(PopScope, Y, Y, g) /\ Shifts(value, Z, Y, g)
    BY <1>1, ShiftKinds
  <1> HIDE DEF Z, Y, value
  <1>3. IsSeq(s) /\ Len(s) = 3 /\ f[1] = Z /\ f[3 + 1] = Y /\ \A i \in 1..(3 + 1) : f[i] \in Point
    BY <1>1, Tuples
  <1>4. \A i \in 1..3 : Shifts(s[i], f[i], f[i + 1], g)
    BY <1>2
  <1> HIDE DEF s, f
  <1>5. Track(s, Z, Y, g)
    BY <1>3, <1>4, TrackBy
  <1> QED  BY <1>5 DEF s, Z, Y, value

\* Three steps.
LEMMA ThreeTrack ==
    ASSUME NEW g, NEW A \in Point, NEW B \in Point, NEW C \in Point, NEW D \in Point,
           NEW x, NEW y, NEW w, Shifts(x, A, B, g), Shifts(y, B, C, g), Shifts(w, C, D, g)
    PROVE  Track(<<x, y, w>>, A, D, g)
  <1> DEFINE s == <<x, y, w>>
             f == <<A, B, C, D>>
  <1>1. IsSeq(s) /\ Len(s) = 3 /\ f[1] = A /\ f[3 + 1] = D /\ \A i \in 1..(3 + 1) : f[i] \in Point
    BY Tuples
  <1>2. \A i \in 1..3 : Shifts(s[i], f[i], f[i + 1], g)
    OBVIOUS
  <1> HIDE DEF s, f
  <1>3. Track(s, A, D, g)
    BY <1>1, <1>2, TrackBy
  <1> QED  BY <1>3 DEF s

\* An operand over another one, and the instruction that takes both.
LEMMA OperandTrack ==
    ASSUME NEW g, NEW z \in Seq(Val), NEW n \in Nat, NEW H \in SUBSET Nat, NEW A \in Point,
           NEW in, "loop" \in in => n > 0, NEW t \in Val, NEW u \in Val, NEW push \in Seq(Val),
           NEW first, Shifts(first, A, At(z \o <<t>>, n, H), g)
    PROVE  Track(<<first, E(u, in \cup {"operand"}, "code"), Op(<<t, u>>, push)>>,
                 A, At(z \o push, n, H), g)
  <1> DEFINE two == E(u, in \cup {"operand"}, "code")
             op == Op(<<t, u>>, push)
             B == At(z \o <<t>>, n, H)
             C == At(z \o <<t, u>>, n, H)
             D == At(z \o push, n, H)
  <1>1. /\ <<t>> \in Seq(Val) /\ <<u>> \in Seq(Val) /\ <<t, u>> \in Seq(Val) /\ StackOf(u) = <<u>>
        /\ z \o <<t>> \in Seq(Val) /\ z \o <<t, u>> \in Seq(Val) /\ z \o push \in Seq(Val)
        /\ <<t>> \o <<u>> = <<t, u>>
    BY Stacks
  <1>2. (z \o <<t>>) \o <<u>> = z \o <<t, u>>
    <2>1. z \o (<<t>> \o <<u>>) = (z \o <<t>>) \o <<u>>
      BY <1>1, Stacks
    <2> QED  BY <1>1, <2>1
  <1>3. B \in Point /\ C \in Point /\ D \in Point
    BY <1>1, Points
  <1>4. Shifts(two, B, C, g)
    <2>1. Standing(in \cup {"operand"}, "code", z \o <<t>>, n)
      BY DEF Standing
    <2>2. Shifts(two, At(z \o <<t>>, n, H), At((z \o <<t>>) \o StackOf(u), n, H), g)
      BY <1>1, <2>1, ShiftKinds
    <2> QED  BY <1>1, <1>2, <2>2
  <1>5. Shifts(op, C, D, g)
    BY <1>1, ShiftKinds
  <1>6. Shifts(first, A, B, g)
    OBVIOUS
  <1> HIDE DEF B, C, D, two, op
  <1>7. Track(<<first, two, op>>, A, D, g)
    BY <1>3, <1>4, <1>5, <1>6, ThreeTrack
  <1> QED  BY <1>7 DEF two, op, D

\* Operands, or an object or System.out and an operand, then the instruction
\* that takes them.
LEMMA CallTrack ==
    ASSUME NEW g, NEW z \in Seq(Val), NEW n \in Nat, NEW H \in SUBSET Nat,
           NEW e, Standing(e.in, e.next, z, n), NEW steps \in lower_call(e)
    PROVE  Track(steps, At(z, n, H), At(z \o StackOf(e.ty), n, H), g)
  <1> DEFINE A == At(z, n, H)
             ref == <<"Ref">>
             y == z \o ref
  <1>1. /\ "Ref" \in Val /\ ref \in Seq(Val) /\ y \in Seq(Val) /\ A \in Point /\ <<>> \in Seq(Val)
        /\ \A ty : StackOf(ty) \in Seq(Val)
        /\ StackOf("Ref") = ref /\ StackOf("Unit") = <<>>
        /\ z \o <<>> = z /\ y \o <<>> = y
        /\ <<"Ref", "Ref">> \in Seq(Val) /\ z \o <<"Ref", "Ref">> = y \o ref
    <2>1. "Ref" \in Val /\ "Unit" \notin Val
      BY DEF Val
    <2>2. z \o (ref \o ref) = y \o ref /\ ref \o ref = <<"Ref", "Ref">>
      BY <2>1, Stacks
    <2> QED  BY <2>1, <2>2, Stacks, Points
  <1>2. "loop" \in e.in => n > 0
    BY DEF Standing
  <1>3. ASSUME NEW t1 \in Val, NEW t2 \in Val,
               steps = <<E(t1, e.in, "code"), E(t2, e.in \cup {"operand"}, "code"),
                         Op(<<t1, t2>>, StackOf(e.ty))>>
        PROVE  Track(steps, A, At(z \o StackOf(e.ty), n, H), g)
    <2>1. Standing(e.in, "code", z, n)
      BY DEF Standing
    <2>2. Shifts(E(t1, e.in, "code"), A, At(z \o StackOf(t1), n, H), g)
      BY <2>1, ShiftKinds
    <2>3. StackOf(t1) = <<t1>>
      BY Stacks
    <2> HIDE DEF A
    <2> QED  BY <1>1, <1>2, <1>3, <2>2, <2>3, OperandTrack
  <1>4. ASSUME NEW t \in Val, e.ty = "Ref",
               steps = <<Op(<<>>, <<"Ref", "Ref">>), E(t, e.in \cup {"operand"}, "code"),
                         Op(<<"Ref", t>>, <<>>)>>
        PROVE  Track(steps, A, At(y, n, H), g)
    <2>1. Shifts(Op(<<>>, <<"Ref", "Ref">>), At(z \o <<>>, n, H), At(z \o <<"Ref", "Ref">>, n, H), g)
      BY <1>1, ShiftKinds
    <2>2. Shifts(Op(<<>>, <<"Ref", "Ref">>), A, At(y \o ref, n, H), g)
      BY <1>1, <2>1
    <2> HIDE DEF A, y
    <2>3. Track(steps, A, At(y \o <<>>, n, H), g)
      BY <1>1, <1>2, <1>4, <2>2, OperandTrack
    <2> QED  BY <1>1, <2>3
  <1>5. ASSUME NEW t \in Val, e.ty = "Unit",
               steps = <<Push("Ref"), E(t, e.in \cup {"operand"}, "code"), Op(<<"Ref", t>>, <<>>)>>
        PROVE  Track(steps, A, At(z, n, H), g)
    <2>1. Shifts(Push("Ref"), A, At(z \o <<"Ref">>, n, H), g)
      BY <1>1, ShiftKinds
    <2> HIDE DEF A
    <2>2. Track(steps, A, At(z \o <<>>, n, H), g)
      BY <1>1, <1>2, <1>5, <2>1, OperandTrack
    <2> QED  BY <1>1, <2>2
  <1> QED  BY <1>1, <1>3, <1>4, <1>5, CallForms

\* What may diverge stands where nothing is on the stack, or takes what it
\* needs from it.
LEMMA DivergingTrack ==
    ASSUME {"deadCode", "breakValue"} \subseteq Avoid,
           NEW g, NEW z \in Seq(Val), NEW n \in Nat, NEW H \in SUBSET Nat, NEW e,
           Standing(e.in, e.next, z, n), NEW steps \in Diverging(e)
    PROVE  Track(steps, At(z, n, H), At(z \o StackOf(e.ty), n, H), g)
  <1> DEFINE A == At(z, n, H)
             D == At(z \o StackOf(e.ty), n, H)
  <1>1. A \in Point /\ D \in Point /\ z \o StackOf(e.ty) \in Seq(Val)
    BY Stacks, Points
  <1>2. e.next \in {"label", "exit"}
    BY DEF Diverging, MayDiverge, Avoids
  <1>3. \/ return_ty = "Unit" /\ steps = <<Return("Unit")>>
        \/ steps = <<E(return_ty, e.in, "code"), Return(return_ty)>>
        \/ "loop" \in e.in /\ steps \in {<<Do("break")>>, <<Do("continue")>>}
    BY DEF Diverging, Avoids
  <1>4. CASE steps = <<Return("Unit")>>
    <2>1. Shifts(Return("Unit"), At(z \o StackOf("Unit"), n, H), D, g)
      BY ShiftKinds
    <2>2. StackOf("Unit") = <<>> /\ z \o <<>> = z
      BY Stacks DEF Val
    <2> QED  BY <1>1, <1>4, <2>1, <2>2, TrackOne
  <1>5. CASE steps = <<E(return_ty, e.in, "code"), Return(return_ty)>>
    <2> DEFINE B == At(z \o StackOf(return_ty), n, H)
    <2>1. B \in Point
      BY Stacks, Points
    <2>2. Standing(e.in, "code", z, n)
      BY DEF Standing
    <2>3. Shifts(E(return_ty, e.in, "code"), A, B, g)
      BY <2>2, ShiftKinds
    <2>4. Shifts(Return(return_ty), B, D, g)
      BY ShiftKinds
    <2> HIDE DEF A, B, D
    <2>5. Track(<<E(return_ty, e.in, "code")>> \o <<Return(return_ty)>>, A, D, g)
      BY <1>1, <2>1, <2>3, <2>4, TrackOne, TrackConcat
    <2>6. <<E(return_ty, e.in, "code")>> \o <<Return(return_ty)>> = steps
      BY <1>5, PairConcat
    <2> QED  BY <2>5, <2>6 DEF A, D
  <1>6. CASE "loop" \in e.in /\ steps \in {<<Do("break")>>, <<Do("continue")>>}
    <2>1. z = <<>> /\ n > 0
      BY <1>2, <1>6 DEF Standing
    <2>2. Shifts(Do("break"), A, D, g) /\ Shifts(Do("continue"), A, D, g)
      BY <2>1 DEF Shifts, Do, At
    <2> HIDE DEF A, D
    <2>3. Track(steps, A, D, g)
      BY <1>1, <1>6, <2>2, TrackOne
    <2> QED  BY <2>3 DEF A, D
  <1> QED  BY <1>3, <1>4, <1>5, <1>6

\* The two ends of a comparison and of a short circuit.
LEMMA AnswerTrack ==
    ASSUME NEW g, NEW n \in Nat, NEW H \in SUBSET Nat, NEW l, Bare(l, g),
           NEW m \in DOMAIN g.mark, g.mark[m] = <<"Int">>
    PROVE  Track(<<Push("Int"), Goto(m), Place(l, Live, <<>>), Push("Int"), Place(m, Live, <<"Int">>)>>,
                 At(<<>>, n, H), At(<<"Int">>, n, H), g)
  <1> DEFINE jump == Goto(m)
             first == Place(l, Live, <<>>)
             push == Push("Int")
             last == Place(m, Live, <<"Int">>)
             s == <<push, jump, first, push, last>>
             O == At(<<>>, n, H)
             I == At(<<"Int">>, n, H)
             f == <<O, I, O, O, I, I>>
  <1>1. O \in Point /\ I \in Point
    BY Scrutinised, Stacks, Points
  <1>2. /\ Shifts(jump, I, O, g) /\ Shifts(first, O, O, g)
        /\ Shifts(push, O, I, g) /\ Shifts(last, I, I, g)
    BY Scrutinised, PlainKinds DEF Bare
  <1> HIDE DEF O, I, jump, first, push, last
  <1>3. IsSeq(s) /\ Len(s) = 5 /\ f[1] = O /\ f[5 + 1] = I /\ \A i \in 1..(5 + 1) : f[i] \in Point
    BY <1>1, Tuples
  <1>4. \A i \in 1..5 : Shifts(s[i], f[i], f[i + 1], g)
    BY <1>2
  <1> HIDE DEF s, f
  <1>5. Track(s, O, I, g)
    BY <1>3, <1>4, TrackBy
  <1> QED  BY <1>5 DEF s, O, I, jump, first, push, last

\* A comparison comes to its end with the answer from either side.
LEMMA ComparisonTrack ==
    ASSUME NEW g, NEW n \in Nat, NEW H \in SUBSET Nat, NEW e, NEW L,
           "operand" \notin e.in, "loop" \in e.in => n > 0, Bare(L, g),
           L + 1 \in DOMAIN g.mark, g.mark[L + 1] = <<"Int">>, NEW steps \in lower_comparison(e, L)
    PROVE  Track(steps, At(<<>>, n, H), At(StackOf(e.ty), n, H), g)
  <1> DEFINE one(t) == E(t, e.in, "code")
             two(t) == E(t, e.in \cup {"operand"}, "code")
             op(t) == Op(<<t, t>>, <<"Int">>)
             test == Branch(<<"Int">>, L)
             tests(t) == Branch(<<t, t>>, L)
             s(t) == <<one(t), two(t)>>
             r(t) == IF t = "Long" THEN <<op(t), test>> ELSE <<tests(t)>>
             z == <<Push("Int"), Goto(L + 1), Place(L, Live, <<>>),
                    Push("Int"), Place(L + 1, Live, <<"Int">>)>>
             O == At(<<>>, n, H)
             I == At(<<"Int">>, n, H)
  <1>1. PICK t \in Val : steps = s(t) \o r(t) \o z
    <2>1. lower_comparison(e, L) = IF e.ty # "Int" \/ ~ MayPlace(e) THEN {} ELSE {s(t) \o r(t) \o z : t \in Val}
      BY DEF lower_comparison
    <2> HIDE DEF s, r, z
    <2> QED  BY <2>1
  <1>2. e.ty = "Int" /\ "Int" \in Val /\ StackOf("Int") = <<"Int">>
    BY Scrutinised, Stacks DEF lower_comparison
  <1> DEFINE T == At(<<t>>, n, H)
             TT == At(<<t, t>>, n, H)
  <1>3. O \in Point /\ I \in Point /\ T \in Point /\ TT \in Point
    BY <1>2, Stacks, Points
  <1>4. Shifts(one(t), O, T, g) /\ Shifts(two(t), T, TT, g)
    <2>1. Shifts(one(t), O, At(StackOf(t), n, H), g) /\ Shifts(two(t), T, TT, g)
      BY PlainKinds
    <2>2. StackOf(t) = <<t>>
      BY Stacks
    <2> QED  BY <2>1, <2>2
  <1>5. Shifts(op(t), TT, I, g) /\ Shifts(test, I, O, g) /\ Shifts(tests(t), TT, O, g)
    BY <1>2, PlainKinds DEF Bare
  <1>8. Track(z, O, I, g)
    BY AnswerTrack
  <1> HIDE DEF O, I, T, TT, one, two, op, test, tests, z
  <1>9. Track(s(t), O, TT, g)
    <2>1. s(t) = <<one(t)>> \o <<two(t)>>
      BY PairConcat
    <2>2. Track(<<one(t)>>, O, T, g) /\ Track(<<two(t)>>, T, TT, g)
      BY <1>3, <1>4, TrackOne
    <2> HIDE DEF s
    <2> QED  BY <2>1, <2>2, TrackConcat
  <1>10. Track(r(t), TT, O, g)
    <2>4. Track(<<op(t)>>, TT, I, g) /\ Track(<<test>>, I, O, g)
      BY <1>3, <1>5, TrackOne
    <2>1. Track(<<op(t)>> \o <<test>>, TT, O, g)
      BY <2>4, TrackConcat
    <2>2. <<op(t)>> \o <<test>> = <<op(t), test>>
      BY PairConcat
    <2>3. Track(<<tests(t)>>, TT, O, g)
      BY <1>3, <1>5, TrackOne
    <2> QED  BY <2>1, <2>2, <2>3
  <1> HIDE DEF s, r
  <1>11. Track(s(t) \o r(t) \o z, O, I, g)
    BY <1>8, <1>9, <1>10, TrackConcat3
  <1> QED  BY <1>1, <1>2, <1>11 DEF O, I

\* A short circuit, too.
LEMMA ShortCircuitTrack ==
    ASSUME NEW g, NEW n \in Nat, NEW H \in SUBSET Nat, NEW e, NEW L,
           "operand" \notin e.in, "loop" \in e.in => n > 0, Bare(L, g),
           L + 1 \in DOMAIN g.mark, g.mark[L + 1] = <<"Int">>, NEW steps \in lower_short_circuit(e, L)
    PROVE  Track(steps, At(<<>>, n, H), At(StackOf(e.ty), n, H), g)
  <1> DEFINE one == E("Int", e.in, "code")
             test == Branch(<<"Int">>, L)
             two == E("Int", e.in \cup {"cond"}, "code")
             jump == Goto(L + 1)
             first == Place(L, Live, <<>>)
             push == Push("Int")
             last == Place(L + 1, Live, <<"Int">>)
             s == <<one, test, two, jump, first, push, last>>
             O == At(<<>>, n, H)
             I == At(<<"Int">>, n, H)
             f == <<O, I, O, I, O, O, I, I>>
  <1>1. steps = s /\ e.ty = "Int"
    BY DEF lower_short_circuit
  <1>2. "Int" \in Val /\ StackOf("Int") = <<"Int">>
    BY Scrutinised, Stacks
  <1>3. O \in Point /\ I \in Point
    BY <1>2, Stacks, Points
  <1>4. Shifts(one, O, I, g) /\ Shifts(two, O, I, g)
    <2>1. /\ Shifts(one, O, At(StackOf("Int"), n, H), g)
          /\ Shifts(two, O, At(StackOf("Int"), n, H), g)
      BY PlainKinds
    <2> QED  BY <1>2, <2>1
  <1>5. Shifts(test, I, O, g)
    BY <1>2, PlainKinds DEF Bare
  <1>6. Shifts(jump, I, O, g) /\ Shifts(first, O, O, g) /\ Shifts(push, O, I, g) /\ Shifts(last, I, I, g)
    BY <1>2, PlainKinds DEF Bare
  <1> HIDE DEF O, I, one, two, test, jump, first, push, last
  <1>7. IsSeq(s) /\ Len(s) = 7 /\ f[1] = O /\ f[7 + 1] = I /\ \A i \in 1..(7 + 1) : f[i] \in Point
    BY <1>3, Tuples
  <1>8. \A i \in 1..7 : Shifts(s[i], f[i], f[i + 1], g)
    BY <1>4, <1>5, <1>6
  <1> HIDE DEF s, f
  <1>9. Track(s, O, I, g)
    BY <1>7, <1>8, TrackBy
  <1> QED  BY <1>1, <1>2, <1>9 DEF O, I

\* `?` returns the failure with nothing below it.
LEMMA TryTrack ==
    ASSUME NEW g, NEW n \in Nat, NEW H \in SUBSET Nat, NEW e, NEW L,
           "operand" \notin e.in, "loop" \in e.in => n > 0,
           L \in DOMAIN g.mark, g.mark[L] = <<"Ref">>, NEW steps \in lower_try(e, L)
    PROVE  Track(steps, At(<<>>, n, H), At(StackOf(e.ty), n, H), g)
  <1> DEFINE one == E("Ref", e.in, "code")
             copy == Op(<<"Ref">>, <<"Ref", "Ref">>)
             ask == Op(<<"Ref">>, <<"Int">>)
             test == Branch(<<"Int">>, L)
             fail == Return("Ref")
             ok == Place(L, Live, <<"Ref">>)
             take == Op(<<"Ref">>, <<e.ty>>)
             s == <<one, copy, ask, test, fail, ok, take>>
             O == At(<<>>, n, H)
             R == At(<<"Ref">>, n, H)
             RR == At(<<"Ref", "Ref">>, n, H)
             RI == At(<<"Ref", "Int">>, n, H)
             V == At(<<e.ty>>, n, H)
             f == <<O, R, RR, RI, R, R, R, V>>
  <1>1. steps = s /\ e.ty \in Val
    BY DEF lower_try
  <1>2. /\ "Int" \in Val /\ "Ref" \in Val /\ StackOf("Ref") = <<"Ref">> /\ StackOf(e.ty) = <<e.ty>>
        /\ <<>> \in Seq(Val) /\ <<"Ref">> \in Seq(Val) /\ <<"Int">> \in Seq(Val) /\ <<e.ty>> \in Seq(Val)
        /\ <<"Ref", "Ref">> \in Seq(Val) /\ <<"Ref", "Int">> \in Seq(Val)
        /\ <<"Ref">> \o <<"Ref">> = <<"Ref", "Ref">> /\ <<"Ref">> \o <<"Int">> = <<"Ref", "Int">>
        /\ <<>> \o <<"Ref">> = <<"Ref">> /\ <<>> \o <<"Ref", "Ref">> = <<"Ref", "Ref">>
    BY <1>1, Scrutinised, Stacks
  <1>3. O \in Point /\ R \in Point /\ RR \in Point /\ RI \in Point /\ V \in Point
    BY <1>2, Points
  <1>4. Shifts(one, O, R, g)
    <2>1. Shifts(one, O, At(StackOf("Ref"), n, H), g)
      BY PlainKinds
    <2> QED  BY <1>2, <2>1
  <1>5. Shifts(copy, R, RR, g)
    <2>1. Shifts(copy, At(<<>> \o <<"Ref">>, n, H), At(<<>> \o <<"Ref", "Ref">>, n, H), g)
      BY <1>2, ShiftKinds
    <2> QED  BY <1>2, <2>1
  <1>6. Shifts(ask, RR, RI, g)
    <2>1. Shifts(ask, At(<<"Ref">> \o <<"Ref">>, n, H), At(<<"Ref">> \o <<"Int">>, n, H), g)
      BY <1>2, ShiftKinds
    <2> QED  BY <1>2, <2>1
  <1>7. Shifts(test, RI, R, g)
    <2>1. Shifts(test, At(<<"Ref">> \o <<"Int">>, n, H), At(<<"Ref">>, n, H), g)
      BY <1>2, ShiftKinds
    <2> QED  BY <1>2, <2>1
  <1>8. Shifts(fail, R, R, g)
    <2>1. Shifts(fail, At(<<>> \o StackOf("Ref"), n, H), R, g)
      BY <1>2, ShiftKinds
    <2> QED  BY <1>2, <2>1
  <1>9. Shifts(ok, R, R, g) /\ Shifts(take, R, V, g)
    BY <1>1, <1>2, PlainKinds
  <1> HIDE DEF O, R, RR, RI, V, one, copy, ask, test, fail, ok, take
  <1>10. IsSeq(s) /\ Len(s) = 7 /\ f[1] = O /\ f[7 + 1] = V /\ \A i \in 1..(7 + 1) : f[i] \in Point
    BY <1>3, Tuples
  <1>11. \A i \in 1..7 : Shifts(s[i], f[i], f[i + 1], g)
    BY <1>4, <1>5, <1>6, <1>7, <1>8, <1>9
  <1> HIDE DEF s, f
  <1>12. Track(s, O, V, g)
    BY <1>10, <1>11, TrackBy
  <1> QED  BY <1>1, <1>2, <1>12 DEF O, V

\* if, with or without an else.
LEMMA IfTrack ==
    ASSUME "bodyValue" \in Avoid, NEW g, NEW n \in Nat, NEW H \in SUBSET Nat, NEW e, NEW L,
           "operand" \notin e.in, "loop" \in e.in => n > 0, Bare(L, g),
           L + 1 \in DOMAIN g.mark, g.mark[L + 1] = StackOf(e.ty), NEW steps \in lower_if(e, L)
    PROVE  Track(steps, At(<<>>, n, H), At(StackOf(e.ty), n, H), g)
  <1> DEFINE cond == E("Int", e.in \cup {"cond"}, "code")
             test == Branch(<<"Int">>, L)
             else == Else(e.ty, e.in)
             jump == Goto(L + 1)
             first == Place(L, L, <<>>)
             last == Place(L + 1, L, StackOf(e.ty))
             snapshot == Snapshot(L)
             head == <<snapshot, cond, test, PushScope>>
             one == <<PopScope, first>>
             two == <<PopScope, jump, first, PushScope, else, PopScope, last>>
             O == At(<<>>, n, H)
             I == At(<<"Int">>, n, H)
             V == At(StackOf(e.ty), n, H)
  <1>1. \/ e.ty = "Unit" /\ steps = head \o Body("Unit", e.in, "label") \o one
        \/ steps = head \o Body(e.ty, e.in, "end") \o two
    <2>1. AnyBody = {"Unit"}
      BY AnyBodyTypes DEF Avoids
    <2>2. \/ e.ty = "Unit" /\ \E t \in AnyBody : steps = head \o Body(t, e.in, "label") \o one
          \/ steps = head \o Body(e.ty, e.in, "end") \o two
      BY IfForms
    <2> HIDE DEF head, one, two
    <2> QED  BY <2>1, <2>2
  <1>2. "Int" \in Val /\ StackOf("Int") = <<"Int">> /\ StackOf("Unit") = <<>>
    BY Scrutinised, Stacks DEF StackOf, Val
  <1>3. O \in Point /\ I \in Point /\ V \in Point
    BY <1>2, Stacks, Points
  <1>4. /\ Shifts(snapshot, O, O, g) /\ Shifts(PushScope, O, O, g) /\ Shifts(PopScope, O, O, g)
        /\ Shifts(PopScope, V, V, g) /\ Shifts(test, I, O, g) /\ Shifts(first, O, O, g)
    BY <1>2, PlainKinds DEF Bare
  <1>5. Shifts(cond, O, I, g)
    <2>1. Shifts(cond, O, At(StackOf("Int"), n, H), g)
      BY PlainKinds
    <2> QED  BY <1>2, <2>1
  <1>6. Shifts(jump, V, O, g) /\ Shifts(last, V, V, g)
    <2>1. Shifts(jump, At(g.mark[L + 1], n, H), O, g)
      BY PlainKinds
    <2>2. Shifts(last, V, V, g)
      BY PlainKinds
    <2> QED  BY <2>1, <2>2
  <1>7. Shifts(else, O, V, g)
    BY PlainKinds
  <1>8. /\ e.ty = "Unit" => Track(Body("Unit", e.in, "label"), O, O, g) /\ V = O
        /\ Track(Body(e.ty, e.in, "end"), O, V, g)
    <2>1. /\ Track(Body("Unit", e.in, "label"), O, At(StackOf("Unit"), n, H), g)
          /\ Track(Body(e.ty, e.in, "end"), O, V, g)
      BY InnerTrack
    <2> QED  BY <1>2, <2>1
  <1> HIDE DEF O, I, V, snapshot, cond, test, else, jump, first, last
  <1>9. Track(head, O, O, g)
    <2> DEFINE f == <<O, O, I, O, O>>
    <2>1. IsSeq(head) /\ Len(head) = 4 /\ f[1] = O /\ f[4 + 1] = O /\ \A i \in 1..(4 + 1) : f[i] \in Point
      BY <1>3, Tuples
    <2>2. \A i \in 1..4 : Shifts(head[i], f[i], f[i + 1], g)
      BY <1>4, <1>5
    <2> HIDE DEF head, f
    <2> QED  BY <2>1, <2>2, TrackBy
  <1>10. Track(one, O, O, g)
    <2> DEFINE f == <<O, O, O>>
    <2>1. IsSeq(one) /\ Len(one) = 2 /\ f[1] = O /\ f[2 + 1] = O /\ \A i \in 1..(2 + 1) : f[i] \in Point
      BY <1>3, Tuples
    <2>2. \A i \in 1..2 : Shifts(one[i], f[i], f[i + 1], g)
      BY <1>4
    <2> HIDE DEF one, f
    <2> QED  BY <2>1, <2>2, TrackBy
  <1>11. Track(two, V, V, g)
    <2> DEFINE f == <<V, V, O, O, O, V, V, V>>
    <2>1. IsSeq(two) /\ Len(two) = 7 /\ f[1] = V /\ f[7 + 1] = V /\ \A i \in 1..(7 + 1) : f[i] \in Point
      BY <1>3, Tuples
    <2>2. \A i \in 1..7 : Shifts(two[i], f[i], f[i + 1], g)
      BY <1>4, <1>6, <1>7
    <2> HIDE DEF two, f
    <2> QED  BY <2>1, <2>2, TrackBy
  <1> HIDE DEF head, one, two
  <1>12. CASE e.ty = "Unit" /\ steps = head \o Body("Unit", e.in, "label") \o one
    <2>1. Track(head \o Body("Unit", e.in, "label") \o one, O, O, g)
      BY <1>8, <1>9, <1>10, <1>12, TrackConcat3
    <2> QED  BY <1>8, <1>12, <2>1 DEF O, V
  <1>13. CASE steps = head \o Body(e.ty, e.in, "end") \o two
    <2>1. Track(head \o Body(e.ty, e.in, "end") \o two, O, V, g)
      BY <1>8, <1>9, <1>11, TrackConcat3
    <2> QED  BY <1>13, <2>1 DEF O, V
  <1> QED  BY <1>1, <1>12, <1>13

\* An arm of a match leaves its value.
LEMMA ArmTrack ==
    ASSUME "wideTest" \in Avoid, NEW g, NEW n \in Nat,
           NEW H \in SUBSET Nat, NEW t \in Val, NEW p \in Patterns(t),
           NEW guarded \in BOOLEAN, NEW k \in H \cap DOMAIN g.kind, g.kind[k] = t, NEW next_arm,
           NEW b \in Nat, Taken(p, t, b, g), (Irrefutable(p) /\ ~ guarded) \/ Bare(next_arm, g),
           NEW e, "operand" \notin e.in, "loop" \in e.in => n > 0
    PROVE  Track(lower_arm(p, guarded, k, t, next_arm, b, e), At(<<>>, n, H), At(StackOf(e.ty), n, H), g)
  <1> DEFINE open == <<PushScope, Enter>>
             check == lower_pattern_check(p, k, t, next_arm, b)
             cond == E("Int", e.in, "code")
             test == Branch(<<"Int">>, next_arm)
             guard == IF guarded THEN <<cond, test>> ELSE <<>>
             end == <<E(e.ty, e.in, e.next), Leave, PopScope>>
             O == At(<<>>, n, H)
             I == At(<<"Int">>, n, H)
             V == At(StackOf(e.ty), n, H)
  <1>1. lower_arm(p, guarded, k, t, next_arm, b, e)
          = open \o check \o bind_pattern(p, b) \o guard \o end
    BY DEF lower_arm
  <1>2. "Int" \in Val /\ StackOf("Int") = <<"Int">>
    BY Scrutinised, Stacks
  <1>3. O \in Point /\ I \in Point /\ V \in Point
    BY <1>2, Stacks, Points
  <1>4. Track(check, O, O, g)
    BY CheckTrack
  <1>5. Track(bind_pattern(p, b), O, O, g)
    BY <1>3, BindTrack
  <1>6. Track(open, O, O, g)
    <2>1. Shifts(PushScope, O, O, g) /\ Shifts(Enter, O, O, g)
      BY PlainKinds
    <2> HIDE DEF O
    <2>2. Track(<<PushScope>>, O, O, g) /\ Track(<<Enter>>, O, O, g)
      BY <1>3, <2>1, TrackOne
    <2>3. <<PushScope>> \o <<Enter>> = open
      BY PairConcat
    <2> HIDE DEF open
    <2> QED  BY <2>2, <2>3, TrackConcat
  <1>7. Track(guard, O, O, g)
    <2>1. CASE guarded
      <3>1. Shifts(cond, O, At(StackOf("Int"), n, H), g)
        BY PlainKinds
      <3>2. Shifts(test, I, O, g)
        BY <1>2, <2>1, PlainKinds DEF Bare
      <3>3. Shifts(cond, O, I, g)
        BY <1>2, <3>1
      <3> HIDE DEF O, I, cond, test
      <3>4. Track(<<cond>>, O, I, g) /\ Track(<<test>>, I, O, g)
        BY <1>3, <3>2, <3>3, TrackOne
      <3>5. <<cond>> \o <<test>> = guard
        BY <2>1, PairConcat
      <3> HIDE DEF guard
      <3> QED  BY <3>4, <3>5, TrackConcat
    <2>2. CASE ~ guarded
      BY <1>3, <2>2, TrackEmpty
    <2> QED  BY <2>1, <2>2
  <1>8. Track(end, O, V, g)
    <2>1. Standing(e.in, e.next, <<>>, n) /\ <<>> \in Seq(Val) /\ <<>> \o StackOf(e.ty) = StackOf(e.ty)
      BY Stacks DEF Standing
    <2>2. Track(end, O, At(<<>> \o StackOf(e.ty), n, H), g)
      BY <2>1, EndTrack
    <2> QED  BY <2>1, <2>2
  <1> HIDE DEF open, check, guard, end, O, V
  <1>9. Track(open \o check \o bind_pattern(p, b), O, O, g)
    BY <1>4, <1>5, <1>6, TrackConcat3
  <1>10. Track(open \o check \o bind_pattern(p, b) \o guard \o end, O, V, g)
    BY <1>7, <1>8, <1>9, TrackConcat3
  <1> QED  BY <1>1, <1>10 DEF O, V

\* The steps lead from a to b with some use of the keys and labels of a form.
Tracked(steps, a, b, g, L) ==
    \E h \in Use(L + FormKeys) : Extends(h, g) /\ Track(steps, a, b, h)

\* match: its first arm comes to the end label by a jump, its last one is there.
LEMMA MatchTrack ==
    ASSUME {"lastArm", "wideTest"} \subseteq Avoid,
           NEW L \in Nat, NEW g \in Use(L), NEW n \in Nat, NEW H \in SUBSET Nat,
           NEW e, e = [do |-> e.do, ty |-> e.ty, in |-> e.in, next |-> e.next], "operand" \notin e.in, "loop" \in e.in => n > 0,
           NEW steps \in lower_match(e, L)
    PROVE  Tracked(steps, At(<<>>, n, H), At(StackOf(e.ty), n, H), g, L)
  <1> DEFINE end == L + 1
             next_arm == L + 2
             first == [e EXCEPT !.next = "end"]
             last == [e EXCEPT !.next = "label"]
             FirstArms(t) == UNION {{p} \X Guards(p) : p \in {x \in Patterns(t) : MayMatch(x)}}
             LastArms(t) == IF Avoids("lastArm") /\ e.ty \in Val
                              THEN {q \in SimplePatterns(t) : Irrefutable(q)} \X {FALSE}
                              ELSE UNION {{q} \X Guards(q) : q \in SimplePatterns(t)}
             value(t) == E(t, e.in, "code")
             store(t) == StoreNew(L, "__match_scrutinee", t)
             Start(t) == <<value(t), store(t), Snapshot(L)>>
             First(t, a) == lower_arm(a[1], a[2], L, t, next_arm, L + 3, first)
             middle == <<Goto(end), Place(next_arm, L, <<>>)>>
             Second(t, q) == lower_arm(q[1], q[2], L, t, end, L + 3 + PatternKeys, last)
             tail == <<Place(end, L, StackOf(e.ty))>>
             Code(t, a, q) == Start(t) \o First(t, a) \o middle \o Second(t, q) \o tail
             All(t) == {Code(t, a, q) : a \in FirstArms(t), q \in LastArms(t)}
  <1>1. PICK t \in Val : steps \in All(t)
    <2>1. lower_match(e, L)
            = IF ~ (MayPlace(e) /\ MayHold("__match_scrutinee") /\ MayLeak(e)) THEN {}
              ELSE UNION {All(t) : t \in Val}
      BY DEF lower_match
    <2> HIDE DEF All
    <2> QED  BY <2>1
  <1>2. PICK a \in FirstArms(t), q \in LastArms(t) : steps = Code(t, a, q)
    <2> HIDE DEF FirstArms, LastArms, Code
    <2> QED  BY <1>1
  <1>3. a[1] \in Patterns(t) /\ a[2] \in BOOLEAN
    <2>1. PICK p \in Patterns(t) : a \in {p} \X Guards(p)
      OBVIOUS
    <2>2. Guards(p) \subseteq BOOLEAN
      BY DEF Guards
    <2>3. a[1] = p /\ a[2] \in Guards(p)
      BY <2>1
    <2> QED  BY <2>2, <2>3
  <1>4. /\ q[1] \in Patterns(t) /\ q[2] \in BOOLEAN
        /\ e.ty \in Val => Irrefutable(q[1]) /\ ~ q[2]
    <2>3. SimplePatterns(t) \subseteq Patterns(t)
      BY DEF Patterns
    <2>1. CASE e.ty \in Val
      <3>1. q \in {x \in SimplePatterns(t) : Irrefutable(x)} \X {FALSE}
        BY <2>1 DEF Avoids
      <3>3. PICK S, B : S = {x \in SimplePatterns(t) : Irrefutable(x)} /\ B = {FALSE}
        OBVIOUS
      <3>4. q \in S \X B
        BY <3>1, <3>3
      <3>5. q[1] \in S /\ q[2] \in B
        BY <3>4
      <3>6. q[1] \in SimplePatterns(t) /\ Irrefutable(q[1])
        BY <3>3, <3>5
      <3>2. q[1] \in SimplePatterns(t) /\ Irrefutable(q[1]) /\ q[2] = FALSE
        BY <3>3, <3>5, <3>6, Zenon
      <3> QED  BY <2>3, <3>2
    <2>2. CASE e.ty \notin Val
      <3>1. q \in UNION {{x} \X Guards(x) : x \in SimplePatterns(t)}
        BY <2>2
      <3>2. PICK x \in SimplePatterns(t) : q \in {x} \X Guards(x)
        BY <3>1
      <3>3. Guards(x) \subseteq BOOLEAN
        BY DEF Guards
      <3>4. q[1] = x /\ q[2] \in Guards(x)
        BY <3>2
      <3> QED  BY <2>2, <2>3, <3>2, <3>3, <3>4
    <2> QED  BY <2>1, <2>2
  <1>5. /\ first.in = e.in /\ last.in = e.in /\ first.ty = e.ty /\ last.ty = e.ty
        /\ t \in Val
    BY Scrutinised
  <1>6. PICK h \in Use(L + FormKeys) :
           Extends(h, g) /\ Fit(h, L, t, t, "Int", a[1], q[1], <<>>, StackOf(e.ty), <<>>)
    <2>1. <<>> \in Seq(Val) /\ StackOf(e.ty) \in Seq(Val)
      BY Stacks
    <2> QED  BY <1>5, <2>1, Scrutinised, PlannedFor
  <1>7. /\ L \in DOMAIN h.kind /\ h.kind[L] = t
        /\ end \in DOMAIN h.mark /\ h.mark[end] = StackOf(e.ty) /\ Bare(next_arm, h)
        /\ Taken(a[1], t, L + 3, h) /\ Taken(q[1], t, L + 9, h)
    BY <1>6 DEF Fit, Bare
  <1>8. L + 3 + PatternKeys = L + 9
    BY DEF PatternKeys
  <1> DEFINE K == H \cup {L}
             O == At(<<>>, n, H)
             P == At(<<>>, n, K)
             T == At(<<t>>, n, H)
             W == At(StackOf(e.ty), n, K)
             V == At(StackOf(e.ty), n, H)
  <1>9. K \in SUBSET Nat /\ H \subseteq K /\ L \in K /\ K \subseteq H \cup {L}
    OBVIOUS
  <1>10. StackOf(t) = <<t>> /\ <<t>> \in Seq(Val) /\ StackOf(e.ty) \in Seq(Val)
    BY <1>5, Stacks
  <1> HIDE DEF K
  <1>11. O \in Point /\ P \in Point /\ T \in Point /\ W \in Point /\ V \in Point
    BY <1>9, <1>10, Stacks, Points
  <1>12. Track(Start(t), O, P, h)
    <2>1. Shifts(value(t), O, At(StackOf(t), n, H), h)
      BY PlainKinds
    <2>2. Shifts(store(t), T, P, h)
      BY <1>5, <1>7, <1>9, PlainKinds
    <2>3. Shifts(Snapshot(L), P, P, h)
      BY PlainKinds
    <2>4. Shifts(value(t), O, T, h)
      BY <1>10, <2>1
    <2> DEFINE s == <<value(t), store(t), Snapshot(L)>>
               f == <<O, T, P, P>>
    <2> HIDE DEF O, P, T, value, store
    <2>5. IsSeq(s) /\ Len(s) = 3 /\ f[1] = O /\ f[3 + 1] = P /\ \A i \in 1..(3 + 1) : f[i] \in Point
      BY <1>11, Tuples
    <2>6. \A i \in 1..3 : Shifts(s[i], f[i], f[i + 1], h)
      BY <2>2, <2>3, <2>4
    <2> HIDE DEF s, f
    <2>7. Track(s, O, P, h)
      BY <2>5, <2>6, TrackBy
    <2> QED  BY <2>7 DEF s
  <1>19. L \in K \cap DOMAIN h.kind /\ L + 3 \in Nat /\ L + 9 \in Nat
    BY <1>7, <1>9
  <1>13. Track(First(t, a), P, W, h)
    <2> HIDE DEF first, next_arm
    <2>2. PICK p, c, x : p = a[1] /\ c = a[2] /\ x = first
      OBVIOUS
    <2>3. p \in Patterns(t) /\ c \in BOOLEAN /\ Taken(p, t, L + 3, h)
          /\ "operand" \notin x.in /\ ("loop" \in x.in => n > 0)
      BY <1>3, <1>5, <1>7, <2>2
    <2>1. Track(lower_arm(p, c, L, t, next_arm, L + 3, x), At(<<>>, n, K), At(StackOf(x.ty), n, K), h)
      BY <1>5, <1>7, <1>9, <1>19, <2>3, ArmTrack
    <2> QED  BY <1>5, <2>1, <2>2
  <1>14. Track(middle, W, P, h)
    BY <1>7, <1>9, <1>10, JumpTrack
  <1>15. Track(Second(t, q), P, W, h)
    <2> HIDE DEF last, end
    <2>3. PICK p, c, x : p = q[1] /\ c = q[2] /\ x = last
      OBVIOUS
    <2>4. p \in Patterns(t) /\ c \in BOOLEAN /\ Taken(p, t, L + 9, h)
          /\ "operand" \notin x.in /\ ("loop" \in x.in => n > 0)
      BY <1>4, <1>5, <1>7, <2>3
    <2>1. (Irrefutable(p) /\ ~ c) \/ Bare(end, h)
      <3>1. CASE e.ty \in Val
        BY <1>4, <2>3, <3>1
      <3>2. CASE e.ty \notin Val
        BY <1>7, <3>2, Stacks DEF Bare
      <3> QED  BY <3>1, <3>2
    <2>2. Track(lower_arm(p, c, L, t, end, L + 9, x), At(<<>>, n, K), At(StackOf(x.ty), n, K), h)
      BY <1>5, <1>7, <1>9, <1>19, <2>1, <2>4, ArmTrack
    <2> QED  BY <1>5, <1>8, <2>2, <2>3
  <1>16. Track(tail, W, V, h)
    BY <1>7, <1>9, <1>10, PlaceTrack
  <1> HIDE DEF Start, First, middle, Second, tail, FirstArms, LastArms, O, P, W, V
  <1>17. Track(Start(t) \o First(t, a) \o middle, O, P, h)
    BY <1>12, <1>13, <1>14, TrackConcat3
  <1>18. Track(Start(t) \o First(t, a) \o middle \o Second(t, q) \o tail, O, V, h)
    BY <1>15, <1>16, <1>17, TrackConcat3
  <1> QED  BY <1>2, <1>6, <1>18 DEF Tracked, O, V

\* if let, with or without an else.
LEMMA IfLetTrack ==
    ASSUME "wideTest" \in Avoid, NEW L \in Nat, NEW g \in Use(L), NEW n \in Nat, NEW H \in SUBSET Nat,
           NEW e, "operand" \notin e.in, "loop" \in e.in => n > 0, NEW steps \in lower_if_let(e, L)
    PROVE  Tracked(steps, At(<<>>, n, H), At(StackOf(e.ty), n, H), g, L)
  <1> DEFINE value(t) == E(t, e.in, "code")
             store(t) == StoreNew(L, "__if_let_scrutinee", t)
             snapshot == Snapshot(L)
             start(t) == <<value(t), store(t), snapshot, PushScope, Enter>>
             check(p, t) == lower_pattern_check(p, L, t, L + 1, L + 3)
             body == Body(e.ty, e.in, "end")
             jump == Goto(L + 2)
             first == Place(L + 1, L, <<>>)
             close == <<Leave, PopScope, jump, first>>
             Matches(p, t) == check(p, t) \o bind_pattern(p, L + 3) \o body \o close
             last == <<Place(L + 2, L, StackOf(e.ty))>>
             Otherwise == {<<Else(e.ty, e.in)>>} \cup (IF e.ty = "Unit" THEN {<<>>} ELSE {})
             All(t) == {start(t) \o Matches(p, t) \o s \o last :
                          s \in Otherwise, p \in {x \in Patterns(t) : MayMatch(x)}}
  <1>1. PICK t \in Val : steps \in All(t)
    <2>1. lower_if_let(e, L)
            = IF \/ ~ (MayPlace(e) /\ MayHold("__if_let_scrutinee") /\ MayLeak(e))
                 \/ Avoids("sharedLabel") /\ e.next = "else"
                THEN {} ELSE UNION {All(t) : t \in Val}
      BY DEF lower_if_let
    <2> HIDE DEF All
    <2> QED  BY <2>1
  <1>2. PICK p \in Patterns(t), s \in Otherwise : steps = start(t) \o Matches(p, t) \o s \o last
    <2> HIDE DEF start, Matches, last, Otherwise
    <2> QED  BY <1>1
  <1>3. s = <<Else(e.ty, e.in)>> \/ (s = <<>> /\ e.ty = "Unit")
    OBVIOUS
  <1>4. t \in Val
    BY Scrutinised
  <1>5. PICK h \in Use(L + FormKeys) :
           Extends(h, g) /\ Fit(h, L, t, t, "Int", p, p, <<>>, <<>>, StackOf(e.ty))
    <2>1. <<>> \in Seq(Val) /\ StackOf(e.ty) \in Seq(Val)
      BY Stacks
    <2> QED  BY <1>4, <2>1, Scrutinised, PlannedFor
  <1> DEFINE K == H \cup {L}
             O == At(<<>>, n, H)
             P == At(<<>>, n, K)
             T == At(<<t>>, n, H)
             W == At(StackOf(e.ty), n, K)
             V == At(StackOf(e.ty), n, H)
  <1>6. K \in SUBSET Nat /\ H \subseteq K /\ L \in K /\ K \subseteq H \cup {L}
    OBVIOUS
  <1> HIDE DEF K
  <1>7. /\ L \in K \cap DOMAIN h.kind /\ h.kind[L] = t /\ L + 3 \in Nat
        /\ L + 2 \in DOMAIN h.mark /\ h.mark[L + 2] = StackOf(e.ty) /\ Bare(L + 1, h)
        /\ Taken(p, t, L + 3, h)
    BY <1>5, <1>6 DEF Fit, Bare
  <1>8. /\ StackOf(t) = <<t>> /\ <<t>> \in Seq(Val) /\ StackOf(e.ty) \in Seq(Val)
        /\ e.ty = "Unit" => StackOf(e.ty) = <<>>
    BY <1>4, Stacks DEF StackOf, Val
  <1>9. O \in Point /\ P \in Point /\ T \in Point /\ W \in Point /\ V \in Point
    BY <1>6, <1>8, Stacks, Points
  <1>10. Track(start(t), O, P, h)
    <2>1. Shifts(value(t), O, At(StackOf(t), n, H), h)
      BY PlainKinds
    <2>2. Shifts(store(t), T, P, h)
      BY <1>4, <1>6, <1>7, PlainKinds
    <2>3. Shifts(snapshot, P, P, h) /\ Shifts(PushScope, P, P, h) /\ Shifts(Enter, P, P, h)
      BY PlainKinds
    <2>4. Shifts(value(t), O, T, h)
      BY <1>8, <2>1
    <2> DEFINE c == <<value(t), store(t), snapshot, PushScope, Enter>>
               f == <<O, T, P, P, P, P>>
    <2> HIDE DEF O, P, T, value, store, snapshot
    <2>5. IsSeq(c) /\ Len(c) = 5 /\ f[1] = O /\ f[5 + 1] = P /\ \A i \in 1..(5 + 1) : f[i] \in Point
      BY <1>9, Tuples
    <2>6. \A i \in 1..5 : Shifts(c[i], f[i], f[i + 1], h)
      BY <2>2, <2>3, <2>4
    <2> HIDE DEF c, f
    <2>7. Track(c, O, P, h)
      BY <2>5, <2>6, TrackBy
    <2> QED  BY <2>7 DEF c
  <1>11. Track(check(p, t), P, P, h) /\ Track(bind_pattern(p, L + 3), P, P, h) /\ Track(body, P, W, h)
    BY <1>4, <1>6, <1>7, <1>9, CheckTrack, BindTrack, InnerTrack
  <1>12. Track(close, W, P, h)
    <2>1. /\ Shifts(Leave, W, W, h) /\ Shifts(PopScope, W, W, h) /\ Shifts(jump, W, P, h)
          /\ Shifts(first, P, P, h)
      <3>1. Shifts(jump, At(h.mark[L + 2], n, K), P, h)
        BY <1>7, PlainKinds
      <3> QED  BY <1>7, <3>1, PlainKinds DEF Bare
    <2> DEFINE f == <<W, W, W, P, P>>
    <2> HIDE DEF P, W, jump, first
    <2>2. IsSeq(close) /\ Len(close) = 4 /\ f[1] = W /\ f[4 + 1] = P /\ \A i \in 1..(4 + 1) : f[i] \in Point
      BY <1>9, Tuples
    <2>3. \A i \in 1..4 : Shifts(close[i], f[i], f[i + 1], h)
      BY <2>1
    <2> HIDE DEF close, f
    <2> QED  BY <2>2, <2>3, TrackBy
  <1>13. Track(s, P, W, h)
    <2>1. CASE s = <<>> /\ e.ty = "Unit"
      BY <1>8, <1>9, <2>1, TrackEmpty
    <2>2. CASE s = <<Else(e.ty, e.in)>>
      <3>1. Shifts(Else(e.ty, e.in), P, W, h)
        BY PlainKinds
      <3> QED  BY <1>9, <2>2, <3>1, TrackOne
    <2> QED  BY <1>3, <2>1, <2>2
  <1>14. Track(last, W, V, h)
    BY <1>6, <1>7, <1>8, PlaceTrack
  <1> HIDE DEF start, check, body, close, last, Otherwise, O, P, W, V
  <1>15. Track(Matches(p, t), P, P, h)
    BY <1>11, <1>12, TrackConcat4
  <1> HIDE DEF Matches
  <1>16. Track(start(t) \o Matches(p, t) \o s \o last, O, V, h)
    BY <1>10, <1>13, <1>14, <1>15, TrackConcat4
  <1> QED  BY <1>2, <1>5, <1>16 DEF Tracked, O, V

\* while and loop: nothing is on the stack at the head of the loop.
LEMMA WhileTrack ==
    ASSUME "bodyValue" \in Avoid, NEW g, NEW n \in Nat, NEW H \in SUBSET Nat, NEW e, NEW L,
           "operand" \notin e.in, "loop" \in e.in => n > 0, Bare(L, g), Bare(L + 1, g),
           NEW steps \in lower_while(e, L)
    PROVE  Track(steps, At(<<>>, n, H), At(StackOf(e.ty), n, H), g)
  <1> DEFINE in == e.in \cup {"loop"}
             place == Place(L, Live, <<>>)
             value == E("Int", e.in \cup {"cond"}, "code")
             leave == Branch(<<"Int">>, L + 1)
             enter == PushLoop(L + 1, L)
             jump == Goto(L)
             end == Place(L + 1, Live, <<>>)
             top == <<place>>
             test == <<value, leave>>
             open == <<enter, PushScope>>
             body == Body("Unit", in, "end")
             close == <<PopScope, PopLoop, jump, end>>
             Loop(cond) == top \o cond \o open \o body \o close
             O == At(<<>>, n, H)
             I == At(<<"Int">>, n, H)
             B == At(<<>>, n + 1, H)
  <1>1. e.ty = "Unit" /\ (steps = Loop(test) \/ steps = Loop(<<>>))
    <2>1. PICK t \in AnyBody :
             \/ steps = top \o test \o open \o Body(t, in, "end") \o close
             \/ steps = top \o <<>> \o open \o Body(t, in, "end") \o close
      BY WhileForms
    <2>2. t = "Unit"
      BY AnyBodyTypes DEF Avoids
    <2>3. e.ty = "Unit"
      BY DEF lower_while
    <2> HIDE DEF top, test, open, close
    <2> QED  BY <2>1, <2>2, <2>3
  <1>2. "Int" \in Val /\ StackOf("Int") = <<"Int">> /\ StackOf("Unit") = <<>>
    BY Scrutinised, Stacks DEF StackOf, Val
  <1>3. O \in Point /\ I \in Point /\ B \in Point
    <2>1. n + 1 \in Nat
      OBVIOUS
    <2> QED  BY <1>2, <2>1, Stacks, Points
  <1>4. Shifts(place, O, O, g) /\ Shifts(leave, I, O, g) /\ Shifts(end, O, O, g)
    BY <1>2, PlainKinds DEF Bare
  <1>5. Shifts(value, O, I, g)
    <2>1. Shifts(value, O, At(StackOf("Int"), n, H), g)
      BY PlainKinds
    <2> QED  BY <1>2, <2>1
  <1>6. /\ Shifts(enter, O, B, g) /\ Shifts(PushScope, B, B, g) /\ Shifts(PopScope, B, B, g)
        /\ Shifts(PopLoop, B, O, g)
    BY PlainKinds DEF Bare
  <1>7. Shifts(jump, O, O, g)
    <2>1. Shifts(jump, At(g.mark[L], n, H), O, g)
      BY PlainKinds DEF Bare
    <2> QED  BY <2>1 DEF Bare
  <1>8. Track(body, B, B, g)
    <2>1. "operand" \notin in /\ n + 1 \in Nat /\ n + 1 > 0
      OBVIOUS
    <2>2. Track(body, B, At(StackOf("Unit"), n + 1, H), g)
      BY <2>1, InnerTrack
    <2> QED  BY <1>2, <2>2
  <1> HIDE DEF O, I, B, place, value, leave, enter, jump, end, body
  <1>9. Track(top, O, O, g)
    BY <1>3, <1>4, TrackOne
  <1>10. Track(test, O, O, g)
    <2>1. Track(<<value>>, O, I, g) /\ Track(<<leave>>, I, O, g)
      BY <1>3, <1>4, <1>5, TrackOne
    <2>2. <<value>> \o <<leave>> = test
      BY PairConcat
    <2> HIDE DEF test
    <2> QED  BY <2>1, <2>2, TrackConcat
  <1>11. Track(open, O, B, g)
    <2>1. Track(<<enter>>, O, B, g) /\ Track(<<PushScope>>, B, B, g)
      BY <1>3, <1>6, TrackOne
    <2>2. <<enter>> \o <<PushScope>> = open
      BY PairConcat
    <2> HIDE DEF open
    <2> QED  BY <2>1, <2>2, TrackConcat
  <1>12. Track(close, B, O, g)
    <2> DEFINE f == <<B, B, O, O, O>>
    <2>1. IsSeq(close) /\ Len(close) = 4 /\ f[1] = B /\ f[4 + 1] = O /\ \A i \in 1..(4 + 1) : f[i] \in Point
      BY <1>3, Tuples
    <2>2. \A i \in 1..4 : Shifts(close[i], f[i], f[i + 1], g)
      BY <1>4, <1>6, <1>7
    <2> HIDE DEF close, f
    <2> QED  BY <2>1, <2>2, TrackBy
  <1>13. Track(<<>>, O, O, g)
    BY <1>3, TrackEmpty
  <1> HIDE DEF top, test, open, close
  <1>14. \A cond : Track(cond, O, O, g) => Track(top \o cond \o open \o body, O, B, g)
    BY <1>8, <1>9, <1>11, TrackConcat4
  <1>15. \A cond : Track(cond, O, O, g) => Track(Loop(cond), O, O, g)
    BY <1>12, <1>14, TrackConcat
  <1> HIDE DEF Loop
  <1> QED  BY <1>1, <1>2, <1>10, <1>13, <1>15 DEF O

\* while let.
LEMMA WhileLetTrack ==
    ASSUME "wideTest" \in Avoid, NEW L \in Nat, NEW g \in Use(L), NEW n \in Nat, NEW H \in SUBSET Nat,
           NEW e, "operand" \notin e.in, "loop" \in e.in => n > 0, NEW steps \in lower_while_let(e, L)
    PROVE  Tracked(steps, At(<<>>, n, H), At(StackOf(e.ty), n, H), g, L)
  <1> DEFINE snapshot == Snapshot(L)
             top == Place(L, L, <<>>)
             value(t) == E(t, e.in \cup {"cond"}, "code")
             store(t) == StoreNew(L + 2, "__while_let_scrutinee", t)
             head(t) == <<snapshot, top, value(t), store(t), PushScope, Enter>>
             check(p, t) == lower_pattern_check(p, L + 2, t, L + 1, L + 3)
             enter == PushLoop(L + 1, L)
             loop == <<enter>>
             body == Body("Unit", e.in \cup {"loop"}, "end")
             jump == Goto(L)
             end == Place(L + 1, L, <<>>)
             close == <<PopLoop, Leave, PopScope, jump, end>>
             Code(t, p) == head(t) \o check(p, t) \o bind_pattern(p, L + 3) \o loop \o body \o close
             All(t) == {Code(t, p) : p \in {x \in Patterns(t) : MayMatch(x)}}
  <1>1. e.ty = "Unit" /\ \E t \in Val : steps \in All(t)
    <2>1. lower_while_let(e, L)
            = IF e.ty # "Unit" \/ ~ (MayLoop(e) /\ MayHold("__while_let_scrutinee"))
                 \/ (Avoids("leak") /\ e.next # "end")
                THEN {} ELSE UNION {All(t) : t \in Val}
      BY DEF lower_while_let
    <2> HIDE DEF All
    <2> QED  BY <2>1
  <1>2. PICK t \in Val : steps \in All(t)
    <2> HIDE DEF All
    <2> QED  BY <1>1
  <1>3. PICK p \in Patterns(t) : steps = Code(t, p)
    <2> HIDE DEF Code
    <2> QED  BY <1>2
  <1>4. t \in Val
    BY Scrutinised
  <1>5. PICK h \in Use(L + FormKeys) :
           Extends(h, g) /\ Fit(h, L, t, t, t, p, p, <<>>, <<>>, <<>>)
    <2>1. <<>> \in Seq(Val)
      BY Stacks
    <2> QED  BY <1>4, <2>1, PlannedFor
  <1> DEFINE K == H \cup {L + 2}
             O == At(<<>>, n, H)
             T == At(<<t>>, n, H)
             P == At(<<>>, n, K)
             B == At(<<>>, n + 1, K)
  <1>6. K \in SUBSET Nat /\ H \subseteq K /\ L + 2 \in K /\ K \subseteq H \cup {L + 2}
    OBVIOUS
  <1> HIDE DEF K
  <1>7. /\ L + 2 \in K \cap DOMAIN h.kind /\ h.kind[L + 2] = t /\ L + 3 \in Nat
        /\ Bare(L, h) /\ Bare(L + 1, h) /\ Taken(p, t, L + 3, h)
    BY <1>5, <1>6 DEF Fit, Bare
  <1>8. StackOf(t) = <<t>> /\ <<t>> \in Seq(Val) /\ StackOf("Unit") = <<>>
    BY <1>4, Stacks DEF StackOf, Val
  <1>9. n + 1 \in Nat /\ n + 1 > 0
    OBVIOUS
  <1>10. O \in Point /\ T \in Point /\ P \in Point /\ B \in Point
    BY <1>6, <1>8, <1>9, Stacks, Points
  <1>11. Shifts(value(t), O, T, h)
    <2>1. Shifts(value(t), O, At(StackOf(t), n, H), h)
      BY PlainKinds
    <2> QED  BY <1>8, <2>1
  <1>12. Shifts(store(t), T, P, h)
    BY <1>4, <1>6, <1>7, PlainKinds
  <1>13. /\ Shifts(snapshot, O, O, h) /\ Shifts(top, O, O, h) /\ Shifts(end, O, O, h)
         /\ Shifts(PushScope, P, P, h) /\ Shifts(Enter, P, P, h)
         /\ Shifts(Leave, P, P, h) /\ Shifts(PopScope, P, P, h)
    BY <1>7, PlainKinds DEF Bare
  <1>14. Shifts(enter, P, B, h) /\ Shifts(PopLoop, B, P, h)
    BY <1>7, PlainKinds DEF Bare
  <1>15. Shifts(jump, P, O, h)
    <2>1. Shifts(jump, At(h.mark[L], n, K), O, h)
      BY <1>6, <1>7, PlainKinds DEF Bare
    <2> QED  BY <1>7, <2>1 DEF Bare
  <1>16. Track(check(p, t), P, P, h) /\ Track(bind_pattern(p, L + 3), P, P, h)
    BY <1>4, <1>6, <1>7, <1>10, CheckTrack, BindTrack
  <1>17. Track(body, B, B, h)
    <2>1. "operand" \notin e.in \cup {"loop"}
      OBVIOUS
    <2>2. Track(body, B, At(StackOf("Unit"), n + 1, K), h)
      BY <1>6, <1>9, <2>1, InnerTrack
    <2> QED  BY <1>8, <2>2
  <1> HIDE DEF O, T, P, B, snapshot, top, value, store, enter, jump, end, check, body
  <1>18. Track(head(t), O, P, h)
    <2> DEFINE s == <<snapshot, top, value(t), store(t), PushScope, Enter>>
               f == <<O, O, O, T, P, P, P>>
    <2>1. IsSeq(s) /\ Len(s) = 6 /\ f[1] = O /\ f[6 + 1] = P /\ \A i \in 1..(6 + 1) : f[i] \in Point
      BY <1>10, Tuples
    <2>2. \A i \in 1..6 : Shifts(s[i], f[i], f[i + 1], h)
      BY <1>11, <1>12, <1>13
    <2> HIDE DEF s, f
    <2>3. Track(s, O, P, h)
      BY <2>1, <2>2, TrackBy
    <2> QED  BY <2>3 DEF s
  <1>19. Track(loop, P, B, h)
    BY <1>10, <1>14, TrackOne
  <1>20. Track(close, B, O, h)
    <2> DEFINE f == <<B, P, P, P, O, O>>
    <2>1. IsSeq(close) /\ Len(close) = 5 /\ f[1] = B /\ f[5 + 1] = O /\ \A i \in 1..(5 + 1) : f[i] \in Point
      BY <1>10, Tuples
    <2>2. \A i \in 1..5 : Shifts(close[i], f[i], f[i + 1], h)
      BY <1>13, <1>14, <1>15
    <2> HIDE DEF close, f
    <2> QED  BY <2>1, <2>2, TrackBy
  <1> HIDE DEF head, loop, close
  <1>21. Track(head(t) \o check(p, t) \o bind_pattern(p, L + 3) \o loop, O, B, h)
    BY <1>16, <1>18, <1>19, TrackConcat4
  <1>22. Track(Code(t, p), O, O, h)
    BY <1>17, <1>20, <1>21, TrackConcat3
  <1> HIDE DEF Code
  <1> QED  BY <1>1, <1>3, <1>5, <1>8, <1>22 DEF Tracked, O

\* for over a Java collection.
LEMMA JavaTrack ==
    ASSUME NEW L \in Nat, NEW g \in Use(L), NEW n \in Nat, NEW H \in SUBSET Nat,
           NEW e, "operand" \notin e.in, "loop" \in e.in => n > 0,
           NEW steps \in lower_for_java_iterator(e, L)
    PROVE  Tracked(steps, At(<<>>, n, H), At(StackOf(e.ty), n, H), g, L)
  <1> DEFINE value == E("Ref", e.in, "code")
             next == Op(<<"Ref">>, <<"Ref">>)
             store == StoreNew(L, "__java_iter", "Ref")
             snapshot == Snapshot(L)
             top == Place(L, L, <<>>)
             load == LoadTemp(L)
             more == Op(<<"Ref">>, <<"Int">>)
             leave == Branch(<<"Int">>, L + 1)
             bind(m) == StoreNew(L + 2, m, "Ref")
             define(m) == Define(m, L + 2)
             enter == PushLoop(L + 1, L)
             one(m) == <<PushScope, value, next, store, snapshot, top, load, more, leave,
                         load, next, bind(m), Enter, define(m), enter>>
             body == Body("Unit", e.in \cup {"loop"}, "end")
             jump == Goto(L)
             end == Place(L + 1, L, <<>>)
             close == <<PopLoop, Leave, jump, end, PopScope>>
             Code(m) == one(m) \o body \o close
  <1>1. e.ty = "Unit" /\ \E m \in UserName : steps = Code(m)
    <2>1. lower_for_java_iterator(e, L)
            = IF e.ty # "Unit" \/ ~ (MayPlace(e) /\ MayHold("__java_iter")) THEN {}
              ELSE {Code(m) : m \in UserName}
      BY DEF lower_for_java_iterator
    <2> HIDE DEF Code
    <2> QED  BY <2>1
  <1>2. PICK m \in UserName : steps = Code(m)
    <2> HIDE DEF Code
    <2> QED  BY <1>1
  <1>3. PICK h \in Use(L + FormKeys) :
           Extends(h, g) /\ Fit(h, L, "Ref", "Ref", "Ref", m, m, <<>>, <<>>, <<>>)
    <2>1. <<>> \in Seq(Val) /\ "Ref" \in Val
      BY Stacks, Scrutinised
    <2> QED  BY <2>1, Scrutinised, PlannedFor
  <1> DEFINE K == H \cup {L}
             O == At(<<>>, n, H)
             R == At(<<"Ref">>, n, H)
             P == At(<<>>, n, K)
             Q == At(<<"Ref">>, n, K)
             I == At(<<"Int">>, n, K)
             B == At(<<>>, n + 1, K)
  <1>4. K \in SUBSET Nat /\ H \subseteq K /\ L \in K /\ K \subseteq H \cup {L}
    OBVIOUS
  <1> HIDE DEF K
  <1>5. /\ L \in K \cap DOMAIN h.kind /\ h.kind[L] = "Ref"
        /\ L + 2 \in DOMAIN h.kind /\ h.kind[L + 2] = "Ref" /\ Bare(L, h) /\ Bare(L + 1, h)
    BY <1>3, <1>4 DEF Fit, Bare
  <1>6. StackOf("Ref") = <<"Ref">> /\ "Ref" \in Val /\ "Int" \in Val /\ StackOf("Unit") = <<>>
    BY Scrutinised, Stacks DEF StackOf, Val
  <1>7. n + 1 \in Nat /\ n + 1 > 0
    OBVIOUS
  <1>8. O \in Point /\ R \in Point /\ P \in Point /\ Q \in Point /\ I \in Point /\ B \in Point
    BY <1>4, <1>6, <1>7, Stacks, Points
  <1>9. Shifts(value, O, R, h)
    <2>1. Shifts(value, O, At(StackOf("Ref"), n, H), h)
      BY PlainKinds
    <2> QED  BY <1>6, <2>1
  <1>10. Shifts(store, R, P, h)
    BY <1>4, <1>5, <1>6, PlainKinds
  <1>11. Shifts(bind(m), Q, P, h)
    <2>1. K \subseteq K \cup {L + 2}
      OBVIOUS
    <2> QED  BY <1>5, <1>6, <2>1, PlainKinds
  <1>12. Shifts(next, R, R, h) /\ Shifts(next, Q, Q, h) /\ Shifts(more, Q, I, h)
    BY <1>6, PlainKinds
  <1>13. Shifts(load, P, Q, h)
    BY <1>5, <1>6, PlainKinds
  <1>14. /\ Shifts(leave, I, P, h) /\ Shifts(top, P, P, h) /\ Shifts(end, P, P, h)
    BY <1>5, <1>6, PlainKinds DEF Bare
  <1>15. /\ Shifts(PushScope, O, O, h) /\ Shifts(snapshot, P, P, h) /\ Shifts(Enter, P, P, h)
         /\ Shifts(define(m), P, P, h) /\ Shifts(Leave, P, P, h) /\ Shifts(PopScope, P, O, h)
    BY <1>4, PlainKinds
  <1>16. Shifts(enter, P, B, h) /\ Shifts(PopLoop, B, P, h)
    BY <1>5, PlainKinds DEF Bare
  <1>17. Shifts(jump, P, P, h)
    <2>1. Shifts(jump, At(h.mark[L], n, K), P, h)
      BY <1>5, PlainKinds DEF Bare
    <2> QED  BY <1>5, <2>1 DEF Bare
  <1>18. Track(body, B, B, h)
    <2>1. "operand" \notin e.in \cup {"loop"}
      OBVIOUS
    <2>2. Track(body, B, At(StackOf("Unit"), n + 1, K), h)
      BY <1>4, <1>7, <2>1, InnerTrack
    <2> QED  BY <1>6, <2>2
  <1> HIDE DEF O, R, P, Q, I, B, value, next, store, snapshot, top, load, more, leave, bind, define,
               enter, body, jump, end
  <1>19. Track(one(m), O, B, h)
    <2> DEFINE s == one(m)
               f == <<O, O, R, R, P, P, P, Q, I, P, Q, Q, P, P, P, B>>
    <2>1. s \in Seq({s[i] : i \in 1..15}) /\ Len(s) = 15
      OBVIOUS
    <2>2. f[1] = O /\ f[15 + 1] = B /\ \A i \in 1..(15 + 1) : f[i] \in Point
      BY <1>8
    <2>3. \A i \in 1..15 : Shifts(s[i], f[i], f[i + 1], h)
      BY <1>9, <1>10, <1>11, <1>12, <1>13, <1>14, <1>15, <1>16
    <2> HIDE DEF s, f
    <2>4. IsSeq(s)
      BY <2>1 DEF IsSeq
    <2>5. Track(s, O, B, h)
      BY <2>1, <2>2, <2>3, <2>4, TrackBy
    <2> QED  BY <2>5 DEF s
  <1>20. Track(close, B, O, h)
    <2> DEFINE f == <<B, P, P, P, P, O>>
    <2>1. IsSeq(close) /\ Len(close) = 5 /\ f[1] = B /\ f[5 + 1] = O /\ \A i \in 1..(5 + 1) : f[i] \in Point
      BY <1>8, Tuples
    <2>2. \A i \in 1..5 : Shifts(close[i], f[i], f[i + 1], h)
      BY <1>14, <1>15, <1>16, <1>17
    <2> HIDE DEF close, f
    <2> QED  BY <2>1, <2>2, TrackBy
  <1> HIDE DEF one, close
  <1>21. Track(Code(m), O, O, h)
    BY <1>18, <1>19, <1>20, TrackConcat3
  <1> HIDE DEF Code
  <1> QED  BY <1>1, <1>2, <1>3, <1>6, <1>21 DEF Tracked, O

\* Labels are placed where nothing is on the stack.
LEMMA PlacedBare ==
    ASSUME "stacked" \in Avoid, NEW e, NEW L, NEW steps,
           steps \in lower_comparison(e, L) \cup lower_short_circuit(e, L) \cup lower_try(e, L)
                       \cup lower_if(e, L) \cup lower_match(e, L) \cup lower_if_let(e, L)
                       \cup lower_while(e, L) \cup lower_while_let(e, L) \cup lower_for_java_iterator(e, L)
    PROVE  "operand" \notin e.in
  <1>1. MayPlace(e)
    <2>1. CASE steps \in lower_comparison(e, L)
      <3>1. ~ MayPlace(e) => lower_comparison(e, L) = {}
        BY Zenon DEF lower_comparison
      <3> QED  BY <2>1, <3>1
    <2>2. CASE steps \in lower_if(e, L)
      <3>1. ~ MayPlace(e) => lower_if(e, L) = {}
        BY Zenon DEF lower_if
      <3> QED  BY <2>2, <3>1
    <2>3. CASE steps \in lower_match(e, L)
      <3>1. ~ MayPlace(e) => lower_match(e, L) = {}
        <4> DEFINE FirstArms(t) == UNION {{p} \X Guards(p) : p \in {x \in Patterns(t) : MayMatch(x)}}
                   LastArms(t) == IF Avoids("lastArm") /\ e.ty \in Val
                                    THEN {q \in SimplePatterns(t) : Irrefutable(q)} \X {FALSE}
                                    ELSE UNION {{q} \X Guards(q) : q \in SimplePatterns(t)}
                   All(t) == {<<E(t, e.in, "code"), StoreNew(L, "__match_scrutinee", t), Snapshot(L)>>
                              \o lower_arm(p[1], p[2], L, t, L + 2, L + 3, [e EXCEPT !.next = "end"])
                              \o <<Goto(L + 1), Place(L + 2, L, <<>>)>>
                              \o lower_arm(q[1], q[2], L, t, L + 1, L + 3 + PatternKeys,
                                           [e EXCEPT !.next = "label"])
                              \o <<Place(L + 1, L, StackOf(e.ty))>> :
                                p \in FirstArms(t), q \in LastArms(t)}
        <4>1. lower_match(e, L)
                = IF ~ (MayPlace(e) /\ MayHold("__match_scrutinee") /\ MayLeak(e)) THEN {}
                  ELSE UNION {All(t) : t \in Val}
          BY DEF lower_match
        <4> HIDE DEF All
        <4> QED  BY <4>1
      <3> QED  BY <2>3, <3>1
    <2>4. CASE steps \in lower_if_let(e, L)
      <3>1. ~ MayPlace(e) => lower_if_let(e, L) = {}
        <4> DEFINE Start(t) == <<E(t, e.in, "code"), StoreNew(L, "__if_let_scrutinee", t), Snapshot(L),
                                 PushScope, Enter>>
                   Matches(p, t) == lower_pattern_check(p, L, t, L + 1, L + 3) \o bind_pattern(p, L + 3)
                                    \o Body(e.ty, e.in, "end")
                                    \o <<Leave, PopScope, Goto(L + 2), Place(L + 1, L, <<>>)>>
                   Others == {<<Else(e.ty, e.in)>>} \cup (IF e.ty = "Unit" THEN {<<>>} ELSE {})
                   All(t) == {Start(t) \o Matches(p, t) \o s \o <<Place(L + 2, L, StackOf(e.ty))>> :
                                s \in Others, p \in {x \in Patterns(t) : MayMatch(x)}}
        <4>1. lower_if_let(e, L)
                = IF \/ ~ (MayPlace(e) /\ MayHold("__if_let_scrutinee") /\ MayLeak(e))
                     \/ Avoids("sharedLabel") /\ e.next = "else"
                    THEN {} ELSE UNION {All(t) : t \in Val}
          BY DEF lower_if_let
        <4> HIDE DEF All
        <4> QED  BY <4>1
      <3> QED  BY <2>4, <3>1
    <2>5. CASE steps \in lower_while(e, L)
      <3>1. ~ MayPlace(e) => lower_while(e, L) = {}
        BY Zenon DEF lower_while, MayLoop
      <3> QED  BY <2>5, <3>1
    <2>6. CASE steps \in lower_while_let(e, L)
      <3>1. ~ MayPlace(e) => lower_while_let(e, L) = {}
        BY Zenon DEF lower_while_let, MayLoop
      <3> QED  BY <2>6, <3>1
    <2>7. CASE steps \in lower_for_java_iterator(e, L)
      <3>1. ~ MayPlace(e) => lower_for_java_iterator(e, L) = {}
        BY Zenon DEF lower_for_java_iterator
      <3> QED  BY <2>7, <3>1
    <2>8. CASE steps \in lower_short_circuit(e, L)
      <3>1. ~ MayPlace(e) => lower_short_circuit(e, L) = {}
        BY Zenon DEF lower_short_circuit
      <3> QED  BY <2>8, <3>1
    <2>9. CASE steps \in lower_try(e, L)
      <3>1. ~ MayPlace(e) => lower_try(e, L) = {}
        BY Zenon DEF lower_try
      <3> QED  BY <2>9, <3>1
    <2> QED  BY <2>1, <2>2, <2>3, <2>4, <2>5, <2>6, <2>7, <2>8, <2>9
  <1> QED  BY <1>1 DEF MayPlace, Avoids

\* A form other than an assignment leaves its value on what was on the stack.
LEMMA FormTrack ==
    ASSUME {"stacked", "lastArm", "unnamedSlot", "bodyValue", "wideTest"} \subseteq Avoid,
           NEW L \in Nat, NEW g \in Use(L), NEW a \in Point, NEW e, Stands(e, a),
           NEW name, NEW steps \in Form(e, L, name), steps \notin lower_assign(e)
    PROVE  Tracked(steps, a, At(a.stack \o StackOf(e.ty), a.loops, a.held), g, L)
  <1> DEFINE z == a.stack
             n == a.loops
             H == a.held
             b == At(z \o StackOf(e.ty), n, H)
             V == StackOf(e.ty)
  <1>1. z \in Seq(Val) /\ n \in Nat /\ H \in SUBSET Nat /\ a = At(z, n, H)
    BY Points
  <1>2. \/ steps = Body(e.ty, e.in, e.next)
        \/ steps \in lower_call(e)
        \/ steps \in lower_comparison(e, L) \cup lower_short_circuit(e, L) \cup lower_try(e, L)
        \/ steps \in lower_if(e, L)
        \/ steps \in lower_match(e, L)
        \/ steps \in lower_if_let(e, L)
        \/ steps \in lower_while(e, L)
        \/ steps \in lower_while_let(e, L)
        \/ steps \in lower_for_java_iterator(e, L)
        \/ steps \in lower_for_range(e, L) \cup lower_for_iterator(e, L)
    BY DEF Form
  <1>3. Standing(e.in, e.next, z, n)
    BY DEF Stands, Standing
  <1>4. \A m0, m1, m2 \in Seq(Val) :
           \E h \in Use(L + FormKeys) : Extends(h, g) /\ Fit(h, L, "Int", "Int", "Int", e, e, m0, m1, m2)
    <2>1. "Int" \in Val
      BY DEF Val
    <2> QED  BY <2>1, Scrutinised, PlannedFor
  <1>5. <<>> \in Seq(Val) /\ V \in Seq(Val) /\ <<"Int">> \in Seq(Val) /\ <<"Ref">> \in Seq(Val)
        /\ <<>> \o V = V
    BY Scrutinised, Stacks
  <1>6. \A m0, m1, m2 : \A h :
           Fit(h, L, "Int", "Int", "Int", e, e, m0, m1, m2)
             => /\ L \in DOMAIN h.mark /\ h.mark[L] = m0 /\ L + 1 \in DOMAIN h.mark /\ h.mark[L + 1] = m1
                /\ m0 = <<>> => Bare(L, h)
                /\ m1 = <<>> => Bare(L + 1, h)
    BY DEF Fit, Bare
  <1>7. "operand" \notin e.in => /\ a = At(<<>>, n, H) /\ b = At(V, n, H)
                                 /\ "loop" \in e.in => n > 0
    BY <1>1, <1>3, <1>5 DEF Standing
  <1> HIDE DEF b, V
  <1>8. CASE steps = Body(e.ty, e.in, e.next) \/ steps \in lower_call(e)
    <2>1. PICK h \in Use(L + FormKeys) : Extends(h, g)
      BY <1>4, <1>5
    <2>2. Track(steps, At(z, n, H), b, h)
      BY <1>1, <1>3, <1>8, BodyTrack, CallTrack DEF b
    <2> QED  BY <1>1, <2>1, <2>2 DEF Tracked, b
  <1>9. CASE steps \in lower_comparison(e, L) \cup lower_short_circuit(e, L) \cup lower_try(e, L)
    <2>1. "operand" \notin e.in
      BY <1>9, PlacedBare
    <2>2. PICK h \in Use(L + FormKeys) :
             Extends(h, g) /\ Fit(h, L, "Int", "Int", "Int", e, e, <<>>, <<"Int">>, <<>>)
      BY <1>4, <1>5
    <2>3. PICK k \in Use(L + FormKeys) :
             Extends(k, g) /\ Fit(k, L, "Int", "Int", "Int", e, e, <<"Ref">>, <<>>, <<>>)
      BY <1>4, <1>5
    <2>4. /\ Bare(L, h) /\ L + 1 \in DOMAIN h.mark /\ h.mark[L + 1] = <<"Int">>
          /\ L \in DOMAIN k.mark /\ k.mark[L] = <<"Ref">>
      BY <1>6, <2>2, <2>3
    <2>5. "loop" \in e.in => n > 0
      BY <1>7, <2>1
    <2>6. CASE steps \in lower_try(e, L)
      <3>1. Track(steps, At(<<>>, n, H), At(V, n, H), k)
        BY <1>1, <2>1, <2>4, <2>5, <2>6, TryTrack DEF V
      <3> QED  BY <1>7, <2>1, <2>3, <3>1 DEF Tracked, b
    <2>7. CASE steps \in lower_comparison(e, L)
      <3>1. Track(steps, At(<<>>, n, H), At(V, n, H), h)
        BY <1>1, <2>1, <2>4, <2>5, <2>7, ComparisonTrack DEF V
      <3> QED  BY <1>7, <2>1, <2>2, <3>1 DEF Tracked, b
    <2>8. CASE steps \in lower_short_circuit(e, L)
      <3>1. Track(steps, At(<<>>, n, H), At(V, n, H), h)
        BY <1>1, <2>1, <2>4, <2>5, <2>8, ShortCircuitTrack DEF V
      <3> QED  BY <1>7, <2>1, <2>2, <3>1 DEF Tracked, b
    <2> QED  BY <1>9, <2>6, <2>7, <2>8
  <1>10. CASE steps \in lower_if(e, L)
    <2>1. "operand" \notin e.in
      BY <1>10, PlacedBare
    <2>2. PICK h \in Use(L + FormKeys) :
             Extends(h, g) /\ Fit(h, L, "Int", "Int", "Int", e, e, <<>>, V, <<>>)
      BY <1>4, <1>5
    <2>4. Bare(L, h) /\ L + 1 \in DOMAIN h.mark /\ h.mark[L + 1] = V /\ ("loop" \in e.in => n > 0)
      BY <1>6, <1>7, <2>1, <2>2
    <2>3. Track(steps, At(<<>>, n, H), At(V, n, H), h)
      BY <1>1, <1>10, <2>1, <2>4, IfTrack DEF V
    <2> QED  BY <1>7, <2>1, <2>2, <2>3 DEF Tracked, b
  <1>11. CASE steps \in lower_while(e, L)
    <2>1. "operand" \notin e.in
      BY <1>11, PlacedBare
    <2>2. PICK h \in Use(L + FormKeys) :
             Extends(h, g) /\ Fit(h, L, "Int", "Int", "Int", e, e, <<>>, <<>>, <<>>)
      BY <1>4, <1>5
    <2>4. Bare(L, h) /\ Bare(L + 1, h) /\ ("loop" \in e.in => n > 0)
      BY <1>6, <1>7, <2>1, <2>2
    <2>3. Track(steps, At(<<>>, n, H), At(V, n, H), h)
      BY <1>1, <1>11, <2>1, <2>4, WhileTrack DEF V
    <2> QED  BY <1>7, <2>1, <2>2, <2>3 DEF Tracked, b
  <1>12. CASE steps \in lower_match(e, L) \cup lower_if_let(e, L) \cup lower_while_let(e, L)
                          \cup lower_for_java_iterator(e, L)
    <2>1. "operand" \notin e.in
      BY <1>12, PlacedBare
    <2>2. e = [do |-> e.do, ty |-> e.ty, in |-> e.in, next |-> e.next]
      BY DEF Stands
    <2>3. Tracked(steps, At(<<>>, n, H), At(V, n, H), g, L)
      BY <1>1, <1>7, <1>12, <2>1, <2>2, MatchTrack, IfLetTrack, WhileLetTrack, JavaTrack DEF V
    <2> QED  BY <1>7, <2>1, <2>3 DEF b
  <1>13. lower_for_range(e, L) = {} /\ lower_for_iterator(e, L) = {}
    BY DEF lower_for_range, lower_for_iterator, Avoids
  <1> QED  BY <1>2, <1>8, <1>9, <1>10, <1>11, <1>12, <1>13

\* let-else: where the pattern fails its else block diverges.
LEMMA LetElseTrack ==
    ASSUME {"stacked", "wideTest"} \subseteq Avoid, NEW L \in Nat, NEW g \in Use(L), NEW a \in Point, NEW s, Stands(s, a),
           NEW steps \in lower_let_else(s, L)
    PROVE  Tracked(steps, a, a, g, L)
  <1> DEFINE n == a.loops
             H == a.held
             value(t) == E(t, s.in, "code")
             store(t) == StoreNew(L, "__let_else_scrutinee", t)
             snapshot == Snapshot(L)
             head(t) == <<value(t), store(t), snapshot>>
             Check(p, t) == lower_pattern_check(p, L, t, L + 1, L + 3)
             middle == <<Goto(L + 2), Place(L + 1, L, <<>>)>>
             body == Body("Nothing", s.in \cup {"letelse"}, "label")
             last == <<Place(L + 2, Live, <<>>)>>
             Code(t, p) == head(t) \o Check(p, t) \o middle \o body \o last \o bind_pattern(p, L + 3)
             All(t) == {Code(t, p) : p \in {x \in Patterns(t) :
                                              /\ MayMatch(x)
                                              /\ Avoids("letElse") => Bound(x) \cap Visible = {}}}
  <1>1. /\ MayPlace([s EXCEPT !.next = "code"])
        /\ \E t \in Val : steps \in All(t)
    <2>1. lower_let_else(s, L)
            = IF ~ (MayPlace([s EXCEPT !.next = "code"]) /\ MayHold("__let_else_scrutinee")) THEN {}
              ELSE UNION {All(t) : t \in Val}
      BY DEF lower_let_else
    <2> HIDE DEF All
    <2> QED  BY <2>1
  <1>2. PICK t \in Val : steps \in All(t)
    BY <1>1
  <1>3. PICK p \in Patterns(t) : steps = Code(t, p)
    <2> HIDE DEF Code
    <2> QED  BY <1>2
  <1>4. "operand" \notin s.in
    <2>1. s = [do |-> s.do, ty |-> s.ty, in |-> s.in, next |-> s.next]
      BY DEF Stands
    <2>2. PICK r : r = [s EXCEPT !.next = "code"]
      OBVIOUS
    <2>3. r.in = s.in
      BY <2>1, <2>2
    <2>4. MayPlace(r)
      BY <1>1, <2>2
    <2> QED  BY <2>3, <2>4 DEF MayPlace, Avoids
  <1>5. n \in Nat /\ H \in SUBSET Nat /\ a = At(<<>>, n, H) /\ ("loop" \in s.in => n > 0)
    BY <1>4, Points DEF Stands
  <1> HIDE DEF n, H
  <1>6. t \in Val
    BY Scrutinised
  <1>7. PICK h \in Use(L + FormKeys) :
           Extends(h, g) /\ Fit(h, L, t, t, "Int", p, p, <<>>, <<>>, <<>>)
    <2>1. <<>> \in Seq(Val)
      BY Stacks
    <2> QED  BY <1>6, <2>1, Scrutinised, PlannedFor
  <1> DEFINE K == H \cup {L}
             O == At(<<>>, n, H)
             P == At(<<>>, n, K)
             T == At(<<t>>, n, H)
  <1>8. K \in SUBSET Nat /\ H \subseteq K /\ L \in K /\ K \subseteq H \cup {L}
    BY <1>5
  <1> HIDE DEF K
  <1>9. /\ L \in K \cap DOMAIN h.kind /\ h.kind[L] = t /\ L + 3 \in Nat
        /\ L + 2 \in DOMAIN h.mark /\ h.mark[L + 2] = <<>> /\ Bare(L + 1, h)
        /\ Taken(p, t, L + 3, h)
    BY <1>7, <1>8 DEF Fit, Bare
  <1>10. StackOf(t) = <<t>> /\ <<t>> \in Seq(Val) /\ <<>> \in Seq(Val) /\ StackOf("Nothing") = <<>>
    BY <1>6, Stacks DEF Val
  <1>11. O \in Point /\ P \in Point /\ T \in Point
    BY <1>5, <1>8, <1>10, Points
  <1>12. Track(head(t), O, P, h)
    <2>1. Shifts(value(t), O, At(StackOf(t), n, H), h)
      BY <1>4, <1>5, PlainKinds
    <2>2. Shifts(store(t), T, P, h)
      BY <1>6, <1>8, <1>9, PlainKinds
    <2>3. Shifts(snapshot, P, P, h)
      BY PlainKinds
    <2>4. Shifts(value(t), O, T, h)
      BY <1>10, <2>1
    <2> DEFINE c == <<value(t), store(t), snapshot>>
               f == <<O, T, P, P>>
    <2> HIDE DEF O, P, T, value, store, snapshot
    <2>5. IsSeq(c) /\ Len(c) = 3 /\ f[1] = O /\ f[3 + 1] = P /\ \A i \in 1..(3 + 1) : f[i] \in Point
      BY <1>11, Tuples
    <2>6. \A i \in 1..3 : Shifts(c[i], f[i], f[i + 1], h)
      BY <2>2, <2>3, <2>4
    <2> HIDE DEF c, f
    <2>7. Track(c, O, P, h)
      BY <2>5, <2>6, TrackBy
    <2> QED  BY <2>7 DEF c
  <1>13. Track(Check(p, t), P, P, h)
    BY <1>5, <1>6, <1>8, <1>9, CheckTrack
  <1>14. Track(middle, P, P, h)
    BY <1>5, <1>8, <1>9, <1>10, JumpTrack
  <1>15. Track(body, P, P, h)
    <2>1. PICK in : in = s.in \cup {"letelse"}
      OBVIOUS
    <2>2. "operand" \notin in /\ ("loop" \in in => n > 0)
      BY <1>4, <1>5, <2>1
    <2>3. Track(Body("Nothing", in, "label"), At(<<>>, n, K), At(StackOf("Nothing"), n, K), h)
      BY <1>5, <1>8, <2>2, InnerTrack
    <2> QED  BY <1>10, <2>1, <2>3
  <1>16. Track(last, P, O, h)
    BY <1>5, <1>8, <1>9, <1>10, PlaceTrack
  <1>17. Track(bind_pattern(p, L + 3), O, O, h)
    BY <1>11, BindTrack
  <1> HIDE DEF head, Check, middle, body, last, O, P, T
  <1>18. Track(head(t) \o Check(p, t) \o middle \o body, O, P, h)
    BY <1>12, <1>13, <1>14, <1>15, TrackConcat4
  <1>19. Track(Code(t, p), O, O, h)
    BY <1>16, <1>17, <1>18, TrackConcat3
  <1> QED  BY <1>3, <1>5, <1>7, <1>19 DEF Tracked, O

\* A statement leaves the stack as it found it.
LEMMA StmtTrack ==
    ASSUME {"stacked", "wideTest"} \subseteq Avoid, NEW L \in Nat, NEW g \in Use(L), NEW a \in Point, NEW s, Stands(s, a),
           NEW name, NEW steps \in lower_stmt(s, L, name)
    PROVE  Tracked(steps, a, a, g, L)
  <1> DEFINE Let(n, t) == <<E(t, s.in, "code"), StoreNew(L, n, t), Define(n, L)>>
             Drop(t) == <<E(t, s.in, "code"), Op(<<t>>, <<>>)>>
             unit == <<E("Unit", s.in, "code")>>
  <1>1. \/ \E n, t : t \in Val /\ steps = Let(n, t)
        \/ \E t : t \in Val /\ steps = Drop(t)
        \/ steps = unit
        \/ steps \in lower_let_else(s, L)
    <2>1. CASE name = "let"
      <3>1. lower_stmt(s, L, name) = {Let(n, t) : n \in UserName, t \in Val}
        BY <2>1 DEF lower_stmt
      <3> HIDE DEF Let
      <3> QED  BY <3>1
    <2>2. CASE name = "drop"
      <3>1. lower_stmt(s, L, name) = {Drop(t) : t \in Val}
        BY <2>2 DEF lower_stmt
      <3> HIDE DEF Drop
      <3> QED  BY <3>1
    <2>3. CASE name \notin {"let", "drop"}
      BY <2>3 DEF lower_stmt
    <2> QED  BY <2>1, <2>2, <2>3
  <1> DEFINE z == a.stack
             m == a.loops
             H == a.held
  <1>2. z \in Seq(Val) /\ m \in Nat /\ H \in SUBSET Nat /\ a = At(z, m, H) /\ Standing(s.in, "code", z, m)
    BY Points DEF Stands, Standing
  <1> HIDE DEF z, m, H
  <1>3. \A t \in Val : /\ z \o <<t>> \in Seq(Val) /\ At(z \o <<t>>, m, H) \in Point
                       /\ \A g1 : Shifts(E(t, s.in, "code"), a, At(z \o <<t>>, m, H), g1)
    <2> SUFFICES ASSUME NEW t \in Val
                 PROVE  /\ z \o <<t>> \in Seq(Val) /\ At(z \o <<t>>, m, H) \in Point
                        /\ \A g1 : Shifts(E(t, s.in, "code"), a, At(z \o <<t>>, m, H), g1)
      OBVIOUS
    <2>1. z \o <<t>> \in Seq(Val) /\ StackOf(t) = <<t>>
      BY <1>2, Stacks
    <2>2. ASSUME NEW g1 PROVE Shifts(E(t, s.in, "code"), a, At(z \o StackOf(t), m, H), g1)
      BY <1>2, ShiftKinds
    <2> QED  BY <1>2, <2>1, <2>2, Points
  <1>4. \A t \in Val : \E h \in Use(L + FormKeys) : Extends(h, g) /\ L \in DOMAIN h.kind /\ h.kind[L] = t
    <2> SUFFICES ASSUME NEW t \in Val
                 PROVE  \E h \in Use(L + FormKeys) : Extends(h, g) /\ L \in DOMAIN h.kind /\ h.kind[L] = t
      OBVIOUS
    <2>1. "Int" \in Val /\ <<>> \in Seq(Val)
      BY Stacks, Scrutinised
    <2>2. PICK h \in Use(L + FormKeys) :
             Extends(h, g) /\ Fit(h, L, "Int", t, "Int", s, s, <<>>, <<>>, <<>>)
      BY <2>1, Scrutinised, PlannedFor
    <2> QED  BY <2>2 DEF Fit
  <1>5. ASSUME NEW n, NEW t \in Val, steps = Let(n, t) PROVE Tracked(steps, a, a, g, L)
    <2>1. PICK h \in Use(L + FormKeys) : Extends(h, g) /\ L \in DOMAIN h.kind /\ h.kind[L] = t
      BY <1>4
    <2> DEFINE value == E(t, s.in, "code")
               store == StoreNew(L, n, t)
               define == Define(n, L)
               c == <<value, store, define>>
               T == At(z \o <<t>>, m, H)
               f == <<a, T, a, a>>
    <2>2. T \in Point /\ Shifts(value, a, T, h)
      BY <1>3
    <2>3. Shifts(store, T, a, h) /\ Shifts(define, a, a, h)
      BY <1>2, <2>1, ShiftKinds
    <2> HIDE DEF value, store, define, T
    <2>4. IsSeq(c) /\ Len(c) = 3 /\ f[1] = a /\ f[3 + 1] = a /\ \A i \in 1..(3 + 1) : f[i] \in Point
      BY <2>2, Tuples
    <2>5. \A i \in 1..3 : Shifts(c[i], f[i], f[i + 1], h)
      BY <2>2, <2>3
    <2> HIDE DEF c, f
    <2>6. Track(c, a, a, h)
      BY <2>4, <2>5, TrackBy
    <2> QED  BY <1>5, <2>1, <2>6 DEF Tracked, c, value, store, define
  <1>6. ASSUME NEW t \in Val, steps = Drop(t) PROVE Tracked(steps, a, a, g, L)
    <2>1. PICK h \in Use(L + FormKeys) : Extends(h, g) /\ L \in DOMAIN h.kind /\ h.kind[L] = t
      BY <1>4
    <2> DEFINE value == E(t, s.in, "code")
               drop == Op(<<t>>, <<>>)
               c == <<value, drop>>
               T == At(z \o <<t>>, m, H)
               f == <<a, T, a>>
    <2>2. T \in Point /\ Shifts(value, a, T, h)
      BY <1>3
    <2>3. Shifts(drop, T, a, h)
      <3>1. <<t>> \in Seq(Val) /\ <<>> \in Seq(Val) /\ z \o <<>> = z
        BY <1>2, Stacks
      <3>2. Shifts(drop, At(z \o <<t>>, m, H), At(z \o <<>>, m, H), h)
        BY <1>2, <3>1, ShiftKinds
      <3> QED  BY <1>2, <3>1, <3>2
    <2> HIDE DEF value, drop, T
    <2>4. IsSeq(c) /\ Len(c) = 2 /\ f[1] = a /\ f[2 + 1] = a /\ \A i \in 1..(2 + 1) : f[i] \in Point
      BY <2>2, Tuples
    <2>5. \A i \in 1..2 : Shifts(c[i], f[i], f[i + 1], h)
      BY <2>2, <2>3
    <2> HIDE DEF c, f
    <2>6. Track(c, a, a, h)
      BY <2>4, <2>5, TrackBy
    <2> QED  BY <1>6, <2>1, <2>6 DEF Tracked, c, value, drop
  <1>7. CASE steps = unit
    <2>1. PICK h \in Use(L + FormKeys) : Extends(h, g) /\ L \in DOMAIN h.kind /\ h.kind[L] = "Int"
      BY <1>4, Scrutinised
    <2>2. Shifts(E("Unit", s.in, "code"), At(z, m, H), At(z \o StackOf("Unit"), m, H), h)
      BY <1>2, ShiftKinds
    <2>3. z \o StackOf("Unit") = z
      <3>1. "Unit" \notin Val
        BY DEF Val
      <3>2. StackOf("Unit") = <<>>
        BY <3>1 DEF StackOf
      <3>3. z \o <<>> = z
        BY <1>2, Stacks
      <3> QED  BY <3>2, <3>3
    <2>4. Track(unit, a, a, h)
      BY <1>2, <2>2, <2>3, TrackOne
    <2> QED  BY <1>7, <2>1, <2>4 DEF Tracked
  <1> HIDE DEF Let, Drop, unit
  <1> QED  BY <1>1, <1>5, <1>6, <1>7, LetElseTrack

-----------------------------------------------------------------------------
(* Both paths together                                                     *)

\* A step that reads or assigns a name does so to the type of the key the name
\* has in the scopes.
Named(u, name, g) == name \in DOMAIN Last(u) /\ Last(u)[name] \in DOMAIN g.kind

Moves(s, x, a, b, g) ==
    \/ Shifts(s, a, b, g)
    \/ /\ s.do = "loadName" /\ Named(x[1], s.name, g)
       /\ b = At(a.stack \o <<g.kind[Last(x[1])[s.name]]>>, a.loops, a.held)
    \/ /\ s.do = "assign" /\ Named(x[1], s.name, g)
       /\ a = At(b.stack \o <<g.kind[Last(x[1])[s.name]]>>, b.loops, b.held)

\* From the scopes and the stack before a step to those after it.
Goes(s, X, Y, g) == Rel(s, X[1], Y[1]) /\ Moves(s, X[1], X[2], Y[2], g)

Places(N) == States(N) \X Point

\* The steps lead from X to Y.
Walk(steps, X, Y, g, N) ==
    /\ IsSeq(steps)
    /\ \E f : /\ f[1] = X /\ f[Len(steps) + 1] = Y
              /\ \A i \in 1..(Len(steps) + 1) : f[i] \in Places(N)
              /\ \A i \in 1..Len(steps) : Goes(steps[i], f[i], f[i + 1], g)

\* No steps.
LEMMA WalkEmpty ==
    ASSUME NEW g, NEW N, NEW X \in Places(N)
    PROVE  Walk(<<>>, X, X, g, N)
  <1> DEFINE f == [i \in 1..1 |-> X]
  <1>1. IsSeq(<<>>) /\ Len(<<>>) = 0 /\ f[1] = X /\ \A i \in 1..1 : f[i] \in Places(N)
    BY Tuples
  <1> HIDE DEF f
  <1> QED  BY <1>1 DEF Walk

\* The end of a path.
LEMMA WalkEnd ==
    ASSUME NEW g, NEW N, NEW X, NEW Y, Walk(<<>>, X, Y, g, N)
    PROVE  X = Y
  <1>1. Len(<<>>) = 0
    OBVIOUS
  <1> QED  BY <1>1 DEF Walk

\* A single step.
LEMMA WalkOne ==
    ASSUME NEW g, NEW N, NEW s, NEW X \in Places(N), NEW Y \in Places(N), Goes(s, X, Y, g)
    PROVE  Walk(<<s>>, X, Y, g, N)
  <1> DEFINE f == <<X, Y>>
  <1>1. IsSeq(<<s>>) /\ Len(<<s>>) = 1 /\ f[1] = X /\ f[1 + 1] = Y
        /\ \A i \in 1..(1 + 1) : f[i] \in Places(N)
    BY Tuples
  <1>2. \A i \in 1..1 : Goes(<<s>>[i], f[i], f[i + 1], g)
    OBVIOUS
  <1> HIDE DEF f
  <1> QED  BY <1>1, <1>2 DEF Walk

\* The ends of a path are scopes and a stack.
LEMMA WalkTyped ==
    ASSUME NEW g, NEW N, NEW X, NEW Y, NEW steps, Walk(steps, X, Y, g, N)
    PROVE  X \in Places(N) /\ Y \in Places(N) /\ IsSeq(steps)
  BY SeqFacts DEF Walk

\* The first step of a path, and the path behind it.
LEMMA WalkHead ==
    ASSUME NEW g, NEW N, NEW X, NEW Z, NEW steps, Walk(steps, X, Z, g, N), steps # <<>>
    PROVE  \E Y : Goes(Head(steps), X, Y, g) /\ Walk(Tail(steps), Y, Z, g, N)
  <1>1. PICK f : /\ f[1] = X /\ f[Len(steps) + 1] = Z
                 /\ \A i \in 1..(Len(steps) + 1) : f[i] \in Places(N)
                 /\ \A i \in 1..Len(steps) : Goes(steps[i], f[i], f[i + 1], g)
    BY DEF Walk
  <1>2. /\ Len(steps) \in Nat /\ Len(steps) >= 1 /\ IsSeq(Tail(steps))
        /\ Len(Tail(steps)) = Len(steps) - 1 /\ Head(steps) = steps[1]
        /\ \A i \in 1..(Len(steps) - 1) : Tail(steps)[i] = steps[i + 1]
    BY SeqFacts DEF Walk
  <1> DEFINE e == [i \in 1..Len(steps) |-> f[i + 1]]
  <1>3. /\ e[1] = f[2] /\ e[Len(Tail(steps)) + 1] = Z
        /\ \A i \in 1..(Len(Tail(steps)) + 1) : e[i] \in Places(N)
    BY <1>1, <1>2
  <1>4. ASSUME NEW i \in 1..Len(Tail(steps)) PROVE Goes(Tail(steps)[i], e[i], e[i + 1], g)
    <2>1. Tail(steps)[i] = steps[i + 1] /\ i + 1 \in 1..Len(steps)
          /\ e[i] = f[i + 1] /\ e[i + 1] = f[(i + 1) + 1]
      BY <1>2
    <2> QED  BY <1>1, <2>1
  <1> HIDE DEF e
  <1>5. Walk(Tail(steps), f[2], Z, g, N)
    BY <1>2, <1>3, <1>4 DEF Walk
  <1>6. Goes(Head(steps), X, f[2], g)
    BY <1>1, <1>2
  <1> QED  BY <1>5, <1>6

\* One path after another.
LEMMA WalkConcat ==
    ASSUME NEW g, NEW N, NEW X, NEW Y, NEW Z, NEW s, NEW t,
           Walk(s, X, Y, g, N), Walk(t, Y, Z, g, N)
    PROVE  Walk(s \o t, X, Z, g, N)
  <1>1. PICK f : /\ f[1] = X /\ f[Len(s) + 1] = Y
                 /\ \A i \in 1..(Len(s) + 1) : f[i] \in Places(N)
                 /\ \A i \in 1..Len(s) : Goes(s[i], f[i], f[i + 1], g)
    BY DEF Walk
  <1>2. PICK e : /\ e[1] = Y /\ e[Len(t) + 1] = Z
                 /\ \A i \in 1..(Len(t) + 1) : e[i] \in Places(N)
                 /\ \A i \in 1..Len(t) : Goes(t[i], e[i], e[i + 1], g)
    BY DEF Walk
  <1>3. /\ IsSeq(s) /\ IsSeq(t) /\ Len(s) \in Nat /\ Len(t) \in Nat
        /\ IsSeq(s \o t) /\ Len(s \o t) = Len(s) + Len(t)
        /\ \A i \in 1..Len(s) : (s \o t)[i] = s[i]
        /\ \A i \in (Len(s) + 1)..(Len(s) + Len(t)) : (s \o t)[i] = t[i - Len(s)]
    BY SeqFacts, ConcatFacts DEF Walk
  <1> DEFINE m == Len(s)
             n == Len(t)
             h == [i \in 1..(m + n + 1) |-> IF i <= m THEN f[i] ELSE e[i - m]]
  <1>4. h[1] = X
    <2>1. CASE m = 0
      BY <1>1, <1>2, <1>3, <2>1
    <2>2. CASE m > 0
      BY <1>1, <1>3, <2>2
    <2> QED  BY <2>1, <2>2, <1>3
  <1>5. h[m + n + 1] = Z
    BY <1>2, <1>3
  <1>6. \A i \in 1..(m + n + 1) : h[i] \in Places(N)
    BY <1>1, <1>2, <1>3
  <1>7. ASSUME NEW i \in 1..(m + n) PROVE Goes((s \o t)[i], h[i], h[i + 1], g)
    <2>1. CASE i < m
      <3>1. h[i] = f[i] /\ h[i + 1] = f[i + 1] /\ (s \o t)[i] = s[i] /\ i \in 1..m
        BY <1>3, <2>1
      <3> QED  BY <3>1, <1>1
    <2>2. CASE i = m
      <3>1. h[i] = f[i] /\ h[i + 1] = e[1] /\ (s \o t)[i] = s[i] /\ i \in 1..m
        BY <1>3, <2>2
      <3> QED  BY <3>1, <1>1, <1>2, <2>2
    <2>3. CASE i > m
      <3>1. h[i] = e[i - m] /\ h[i + 1] = e[(i - m) + 1] /\ (s \o t)[i] = t[i - m] /\ i - m \in 1..n
        BY <1>3, <2>3
      <3> QED  BY <3>1, <1>2
    <2> QED  BY <2>1, <2>2, <2>3, <1>3
  <1> HIDE DEF h
  <1> QED  BY <1>3, <1>4, <1>5, <1>6, <1>7 DEF Walk

\* A path over the scopes and one over the stack.
LEMMA WalkFrom ==
    ASSUME NEW g, NEW N, NEW x, NEW y, NEW a, NEW b, NEW steps,
           Seg(steps, x, y, N), Track(steps, a, b, g)
    PROVE  Walk(steps, <<x, a>>, <<y, b>>, g, N)
  <1>1. PICK e : /\ e[1] = x /\ e[Len(steps) + 1] = y
                 /\ \A i \in 1..(Len(steps) + 1) : e[i] \in States(N)
                 /\ \A i \in 1..Len(steps) : Rel(steps[i], e[i], e[i + 1])
    BY DEF Seg
  <1>2. PICK d : /\ d[1] = a /\ d[Len(steps) + 1] = b
                 /\ \A i \in 1..(Len(steps) + 1) : d[i] \in Point
                 /\ \A i \in 1..Len(steps) : Shifts(steps[i], d[i], d[i + 1], g)
    BY DEF Track
  <1>3. IsSeq(steps) /\ Len(steps) \in Nat
    BY SeqFacts DEF Seg
  <1> DEFINE n == Len(steps)
             f == [i \in 1..(n + 1) |-> <<e[i], d[i]>>]
  <1>4. f[1] = <<x, a>> /\ f[n + 1] = <<y, b>> /\ \A i \in 1..(n + 1) : f[i] = <<e[i], d[i]>>
    BY <1>1, <1>2, <1>3
  <1> HIDE DEF f
  <1>5. \A i \in 1..(n + 1) : f[i] \in Places(N)
    <2> SUFFICES ASSUME NEW i \in 1..(n + 1) PROVE f[i] \in Places(N)
      OBVIOUS
    <2>1. e[i] \in States(N) /\ d[i] \in Point /\ f[i] = <<e[i], d[i]>>
      BY <1>1, <1>2, <1>4
    <2> QED  BY <2>1 DEF Places
  <1>6. ASSUME NEW i \in 1..n PROVE Goes(steps[i], f[i], f[i + 1], g)
    <2>1. i \in 1..(n + 1) /\ i + 1 \in 1..(n + 1)
      BY <1>3
    <2>2. f[i] = <<e[i], d[i]>> /\ f[i + 1] = <<e[i + 1], d[i + 1]>>
      BY <1>4, <2>1
    <2> QED  BY <1>1, <1>2, <2>2 DEF Goes, Moves
  <1> QED  BY <1>3, <1>4, <1>5, <1>6 DEF Walk

\* A path stays one when more keys and labels are taken.
LEMMA WalkGrow ==
    ASSUME NEW N \in Nat, NEW M \in Nat, N <= M, NEW g, NEW h, Extends(h, g), NEW X, NEW Y,
           NEW steps, Walk(steps, X, Y, g, N)
    PROVE  Walk(steps, X, Y, h, M)
  <1>1. PICK f : /\ f[1] = X /\ f[Len(steps) + 1] = Y
                 /\ \A i \in 1..(Len(steps) + 1) : f[i] \in Places(N)
                 /\ \A i \in 1..Len(steps) : Goes(steps[i], f[i], f[i + 1], g)
    BY DEF Walk
  <1>2. Places(N) \subseteq Places(M)
    BY StatesGrow DEF Places
  <1>3. ASSUME NEW i \in 1..Len(steps) PROVE Goes(steps[i], f[i], f[i + 1], h)
    <2>1. Rel(steps[i], f[i][1], f[i + 1][1]) /\ Moves(steps[i], f[i][1], f[i][2], f[i + 1][2], g)
      BY <1>1 DEF Goes
    <2>2. Moves(steps[i], f[i][1], f[i][2], f[i + 1][2], h)
      <3>1. CASE Shifts(steps[i], f[i][2], f[i + 1][2], g)
        BY <3>1, ShiftsGrow DEF Moves
      <3>2. CASE ~ Shifts(steps[i], f[i][2], f[i + 1][2], g)
        BY <2>1, <3>2 DEF Moves, Named, Extends
      <3> QED  BY <3>1, <3>2
    <2> QED  BY <2>1, <2>2 DEF Goes
  <1> QED  BY <1>1, <1>2, <1>3 DEF Walk

-----------------------------------------------------------------------------
(* The inductive invariant                                                 *)

\* The frames, the jumps and the labels at one position have the stacks the
\* labels were taken for.
Marked(g) ==
    /\ \A l \in DOMAIN frames : l \in DOMAIN g.mark /\ frames[l].stack = g.mark[l]
    /\ \A l \in DOMAIN arrivals : l \in DOMAIN g.mark /\ \A s \in arrivals[l] : s.stack = g.mark[l]
    /\ \A l \in DOMAIN alias : /\ l \in DOMAIN g.mark /\ alias[l] \in DOMAIN g.mark
                               /\ g.mark[alias[l]] = g.mark[l]

\* The verifier has the stack the steps ahead start from.
Meets(a, g) ==
    /\ flow = [status |-> flow.status, stack |-> flow.stack, regs |-> flow.regs]
    /\ IsLive => flow.stack = a.stack
    /\ position # NoLabel => IsLive /\ position \in DOMAIN g.mark /\ g.mark[position] = flow.stack
    /\ "operand" \notin faults

\* The temps have the types their keys were taken for, and the open loops have
\* labels that are come to with nothing on the stack.
Knows(a, g) ==
    /\ a.held \subseteq DOMAIN temps
    /\ \A k \in DOMAIN temps : k \in DOMAIN g.kind /\ temps[k].ty = g.kind[k]
    /\ IsSeq(loop_stack) /\ Len(loop_stack) = a.loops
    /\ \A i \in 1..a.loops : Bare(loop_stack[i].brk, g) /\ Bare(loop_stack[i].cont, g)
    /\ return_ty = g.result

Agrees(a, g) == Marked(g) /\ Meets(a, g) /\ Knows(a, g)

\* The scopes and the stack the steps ahead start from.
Here(g, u, w, a, param, base) ==
    /\ Lowered(u, param, base, locals, scope_stack, temps)
    /\ Checked(w, param, env, temps)
    /\ param.ty = g.kind[Param]
    /\ Agrees(a, g)

\* At the end of a body no loop is open.
Closed(Z) == Z[2].loops = 0

\* The steps ahead are a path from the scopes and the stack as they are.
StackInv ==
    /\ next_label \in Nat /\ next_slot \in Nat
    /\ \E g \in Use(next_label) : \E u, w, a, Z, param, base :
          /\ Here(g, u, w, a, param, base)
          /\ Walk(todo, <<<<u, w>>, a>>, Z, g, next_label) /\ Closed(Z)

\* So that every way to a label has the stack of its frame.
LEMMA StacksFollow == StackInv => StacksAgree
  <1> SUFFICES ASSUME StackInv PROVE StacksAgree
    OBVIOUS
  <1>1. PICK g, a : Marked(g) /\ Meets(a, g)
    BY DEF StackInv, Here, Agrees
  <1>2. \A l \in DOMAIN frames : \A s \in Arrived(l) : s.stack = frames[l].stack
    BY <1>1 DEF Marked, Arrived
  <1> QED  BY <1>1, <1>2 DEF StacksAgree, Meets

\* The next step and the path behind it.
Ahead(g, u, w, a, Z, param, base, y, b) ==
    /\ Here(g, u, w, a, param, base)
    /\ <<u, w>> \in States(next_label) /\ a \in Point /\ y \in States(next_label) /\ b \in Point
    /\ Rel(Step, <<u, w>>, y) /\ Moves(Step, <<u, w>>, a, b, g)
    /\ Walk(Tail(todo), <<y, b>>, Z, g, next_label) /\ Closed(Z)

LEMMA NextWalk ==
    ASSUME StackInv, todo # <<>>
    PROVE  /\ next_label \in Nat /\ next_slot \in Nat
           /\ \E g \in Use(next_label) : \E u, w, a, Z, param, base, y, b :
                 Ahead(g, u, w, a, Z, param, base, y, b)
  <1>1. PICK g \in Use(next_label) : \E u, w, a, Z, param, base :
             /\ Here(g, u, w, a, param, base)
             /\ Walk(todo, <<<<u, w>>, a>>, Z, g, next_label) /\ Closed(Z)
    BY DEF StackInv
  <1>2. PICK u, w, a, Z, param, base :
             /\ Here(g, u, w, a, param, base)
             /\ Walk(todo, <<<<u, w>>, a>>, Z, g, next_label) /\ Closed(Z)
    BY <1>1
  <1>3. PICK Y : Goes(Head(todo), <<<<u, w>>, a>>, Y, g) /\ Walk(Tail(todo), Y, Z, g, next_label)
    BY <1>2, WalkHead
  <1>4. Y \in Places(next_label) /\ <<<<u, w>>, a>> \in Places(next_label)
    BY <1>2, <1>3, WalkTyped
  <1>5. PICK S, P : S = States(next_label) /\ P = Point
    OBVIOUS
  <1>6. PICK y \in S, b \in P : Y = <<y, b>>
    BY <1>4, <1>5 DEF Places
  <1>7. <<u, w>> \in S /\ a \in P
    BY <1>4, <1>5 DEF Places
  <1>8. Rel(Step, <<u, w>>, y) /\ Moves(Step, <<u, w>>, a, b, g)
    BY <1>3, <1>6 DEF Goes, Step
  <1>9. Ahead(g, u, w, a, Z, param, base, y, b)
    BY <1>2, <1>3, <1>5, <1>6, <1>7, <1>8 DEF Ahead
  <1> QED  BY <1>9 DEF StackInv

\* The invariant after a step, from the path that replaces it.
LEMMA AdvanceStacks ==
    ASSUME next_label \in Nat, NEW N \in Nat, next_label' = N, next_label <= N, next_slot' \in Nat,
           NEW g \in Use(next_label), NEW h \in Use(N), Extends(h, g), NEW steps, Then(steps),
           NEW u, NEW w, NEW a, NEW param, NEW base, NEW Y, NEW Z,
           Walk(steps, <<<<u, w>>, a>>, Y, h, N), Walk(Tail(todo), Y, Z, g, next_label), Closed(Z),
           Here(h, u, w, a, param, base)'
    PROVE  StackInv'
  <1>1. Walk(Tail(todo), Y, Z, h, N)
    BY WalkGrow
  <1>2. Walk(todo', <<<<u, w>>, a>>, Z, h, N)
    BY <1>1, WalkConcat DEF Then
  <1> QED  BY <1>2 DEF StackInv

\* The same for a step that is done.
LEMMA DoneStacks ==
    ASSUME next_label \in Nat, UNCHANGED next_label, next_slot' \in Nat,
           NEW g \in Use(next_label), Then(<<>>),
           NEW y, NEW b, NEW param, NEW Z, Walk(Tail(todo), <<y, b>>, Z, g, next_label),
           Closed(Z),
           Moved(y, param), param.ty = g.kind[Param],
           Agrees(b, g)'
    PROVE  StackInv'
  <1>1. PICK u, w, base : /\ y = <<u, w>>
                          /\ Lowered(u, param, base, locals', scope_stack', temps')
                          /\ Checked(w, param, env', temps')
    BY DEF Moved
  <1>2. Here(g, u, w, b, param, base)'
    BY <1>1 DEF Here
  <1>3. Walk(<<>>, <<<<u, w>>, b>>, <<<<u, w>>, b>>, g, next_label)
    BY <1>1, WalkTyped, WalkEmpty
  <1>4. Extends(g, g)
    BY DEF Extends
  <1>5. PICK N \in Nat : N = next_label
    OBVIOUS
  <1>6. next_label <= N /\ next_label' = N
    BY <1>5
  <1> QED  BY <1>1, <1>2, <1>3, <1>4, <1>5, <1>6, AdvanceStacks


-----------------------------------------------------------------------------
(* What each instruction makes of the stack                                *)

\* The end of a sequence is a suffix of it, and what is left is the rest.
LEMMA TakenOff ==
    ASSUME NEW z \in Seq(Val), NEW pop \in Seq(Val)
    PROVE  /\ IsSuffix(pop, z \o pop)
           /\ SubSeq(z \o pop, 1, Len(z \o pop) - Len(pop)) = z
  <1> DEFINE m == Len(z)
             n == Len(pop)
             s == z \o pop
             P == Reverse(pop)
             Q == Reverse(s)
  <1>1. /\ m \in Nat /\ n \in Nat /\ s \in Seq(Val) /\ Len(s) = m + n
        /\ \A i \in 1..m : s[i] = z[i]
        /\ \A i \in (m + 1)..(m + n) : s[i] = pop[i - m]
    OBVIOUS
  <1> HIDE DEF s
  <1>2. P \in Seq(Val) /\ Len(P) = n /\ \A i \in 1..n : P[i] = pop[(n - i) + 1]
    BY <1>1 DEF Reverse
  <1>3. Q \in Seq(Val) /\ Len(Q) = m + n /\ \A i \in 1..(m + n) : Q[i] = s[((m + n) - i) + 1]
    BY <1>1 DEF Reverse
  <1> HIDE DEF P, Q, m, n
  <1>4. \A i \in 1..n : P[i] = Q[i]
    <2> SUFFICES ASSUME NEW i \in 1..n PROVE P[i] = Q[i]
      OBVIOUS
    <2>1. ((m + n) - i) + 1 \in (m + 1)..(m + n) /\ (((m + n) - i) + 1) - m = (n - i) + 1
          /\ i \in 1..(m + n)
      BY <1>1
    <2> QED  BY <1>1, <1>2, <1>3, <2>1
  <1>5. SubSeq(P, 1, n) = SubSeq(Q, 1, n) /\ n <= m + n
    BY <1>1, <1>2, <1>3, <1>4
  <1>6. IsSuffix(pop, s)
    BY <1>2, <1>3, <1>5 DEF IsSuffix, IsPrefix, P, Q
  <1>7. SubSeq(s, 1, (m + n) - n) = z
    <2>1. (m + n) - n = m
      BY <1>1
    <2>2. SubSeq(s, 1, m) = z
      BY <1>1 DEF m
    <2> QED  BY <2>1, <2>2
  <1> QED  BY <1>1, <1>6, <1>7 DEF s, m, n

\* Operands that are on the stack are taken off it.
LEMMA Popped ==
    ASSUME NEW z \in Seq(Val), NEW pop \in Seq(Val), IsLive => flow.stack = z \o pop
    PROVE  /\ "operand" \notin Rejected(pop)
           /\ \A push : IsLive => StackAfter(pop, push) = z \o push
  BY TakenOff DEF Rejected, StackAfter

\* What does not take any is not rejected for them.
LEMMA NonePopped ==
    ASSUME NEW z \in Seq(Val), IsLive => flow.stack = z
    PROVE  "operand" \notin Rejected(<<>>)
  <1>1. <<>> \in Seq(Val) /\ z \o <<>> = z
    BY Stacks
  <1> QED  BY <1>1, Popped

\* A way to a label brings the stack the label was taken for.
LEMMA Arrivals ==
    ASSUME NEW g, Marked(g), NEW l \in DOMAIN g.mark, NEW stack, IsLive => stack = g.mark[l],
           NEW new, new = Arriving(l, stack)
    PROVE  \A k \in DOMAIN new : k \in DOMAIN g.mark /\ \A s \in new[k] : s.stack = g.mark[k]
  <1>1. PICK t : t = Target(l)
    OBVIOUS
  <1>2. t \in DOMAIN g.mark /\ g.mark[t] = g.mark[l]
    BY <1>1 DEF Target, Marked
  <1>3. PICK here : here = IF IsLive THEN {[stack |-> stack, regs |-> flow.regs]} ELSE {}
    OBVIOUS
  <1>4. \A s \in here : s.stack = g.mark[t]
    BY <1>2, <1>3
  <1>5. PICK before : before = Arrived(t)
    OBVIOUS
  <1>6. \A s \in before : s.stack = g.mark[t]
    BY <1>5 DEF Arrived, Marked
  <1>7. PICK both : both = before \cup here
    OBVIOUS
  <1>8. new = With(arrivals, t, both)
    BY <1>1, <1>3, <1>5, <1>7 DEF Arriving
  <1>9. /\ DOMAIN new = DOMAIN arrivals \cup {t} /\ new[t] = both
        /\ \A k \in DOMAIN arrivals : k # t => new[k] = arrivals[k]
    BY <1>8 DEF With
  <1> QED  BY <1>2, <1>4, <1>6, <1>7, <1>9 DEF Marked

\* The state of the verifier, of which a part changes.
LEMMA FlowPushed ==
    ASSUME NEW f, f = [status |-> f.status, stack |-> f.stack, regs |-> f.regs], NEW z, NEW e,
           e = [f EXCEPT !.stack = z]
    PROVE  e = [status |-> f.status, stack |-> z, regs |-> f.regs]
  <1>1. PICK s, y, q : f = [status |-> s, stack |-> y, regs |-> q]
    OBVIOUS
  <1>2. f.status = s /\ f.regs = q /\ e = [status |-> s, stack |-> z, regs |-> q]
    BY <1>1
  <1> QED  BY <1>2
LEMMA FlowStored ==
    ASSUME NEW f, f = [status |-> f.status, stack |-> f.stack, regs |-> f.regs], NEW z, NEW r, NEW e,
           e = [f EXCEPT !.stack = z, !.regs = r]
    PROVE  e = [status |-> f.status, stack |-> z, regs |-> r]
  <1>1. PICK s, y, q : f = [status |-> s, stack |-> y, regs |-> q]
    OBVIOUS
  <1>2. f.status = s /\ DOMAIN f = {"status", "stack", "regs"}
    BY <1>1
  <1>3. DOMAIN e = {"status", "stack", "regs"} /\ e.status = s /\ e.stack = z /\ e.regs = r
    BY <1>1, <1>2
  <1>4. e = [x \in {"status", "stack", "regs"} |-> e[x]]
    BY <1>2
  <1> QED  BY <1>2, <1>3, <1>4

\* The verifier after an instruction that does not end the block: `z` is left
\* on its stack.
LEMMA MeetsNow ==
    ASSUME NEW a, NEW b, NEW g, Meets(a, g), NEW r, NEW found, "operand" \notin found,
           faults' = faults \cup found, position' = NoLabel,
           flow' = IF IsLive THEN [status |-> flow.status, stack |-> b.stack, regs |-> r] ELSE flow
    PROVE  Meets(b, g)'
  <1>1. CASE IsLive
    <2>1. flow' = [status |-> flow.status, stack |-> b.stack, regs |-> r]
      BY <1>1
    <2>2. flow'.stack = b.stack /\ flow' = [status |-> flow'.status, stack |-> flow'.stack, regs |-> flow'.regs]
      BY <2>1
    <2> QED  BY <2>2 DEF Meets
  <1>2. CASE ~ IsLive
    <2>1. flow' = flow
      BY <1>2
    <2> QED  BY <1>2, <2>1 DEF Meets, IsLive
  <1> QED  BY <1>1, <1>2

\* Steps that emit no code.
LEMMA StillAgrees ==
    ASSUME NEW g, NEW a \in Point, NEW b \in Point, Agrees(a, g), Shifts(Step, a, b, g),
           push_scope \/ pop_scope \/ CheckerScope \/ TakeSnapshot
    PROVE  Agrees(b, g)'
  <1>1. UNCHANGED <<loop_stack, temps, return_ty, codeVars>>
        /\ Step.do \in {"push_scope", "pop_scope", "enter", "leave", "define", "snapshot"}
    BY DEF push_scope, pop_scope, CheckerScope, TakeSnapshot, Is
  <1>2. b.stack = a.stack /\ b.loops = a.loops /\ b.held \subseteq a.held
    BY <1>1 DEF Shifts
  <1>3. Marked(g)'
    BY <1>1 DEF Agrees, Marked, codeVars
  <1>4. Meets(b, g)'
    BY <1>1, <1>2 DEF Agrees, Meets, IsLive, codeVars
  <1>5. Knows(b, g)'
    BY <1>1, <1>2 DEF Agrees, Knows
  <1> QED  BY <1>3, <1>4, <1>5 DEF Agrees

\* A loop's labels are come to with nothing on the stack.
LEMMA LoopAgrees ==
    ASSUME NEW g, NEW a \in Point, NEW b \in Point, Agrees(a, g), Shifts(Step, a, b, g), LoopScope
    PROVE  Agrees(b, g)'
  <1>1. UNCHANGED <<temps, return_ty, codeVars>> /\ Step.do \in {"push_loop", "pop_loop"}
    BY DEF LoopScope, Is
  <1>2. b.stack = a.stack /\ b.held \subseteq a.held
    BY <1>1 DEF Shifts
  <1>3. Marked(g)'
    BY <1>1 DEF Agrees, Marked, codeVars
  <1>4. Meets(b, g)'
    BY <1>1, <1>2 DEF Agrees, Meets, IsLive, codeVars
  <1>5. IsSeq(loop_stack) /\ Len(loop_stack) = a.loops /\ a.loops \in Nat /\ b.loops \in Nat
        /\ \A i \in 1..a.loops : Bare(loop_stack[i].brk, g) /\ Bare(loop_stack[i].cont, g)
    BY Points DEF Agrees, Knows
  <1>6. /\ IsSeq(loop_stack') /\ Len(loop_stack') = b.loops
        /\ \A i \in 1..b.loops : Bare(loop_stack'[i].brk, g) /\ Bare(loop_stack'[i].cont, g)
    <2>1. CASE Step.do = "push_loop"
      <3>1. b.loops = a.loops + 1 /\ Bare(Step.brk, g) /\ Bare(Step.cont, g)
        BY <2>1 DEF Shifts, Bare
      <3>2. PICK l : l = [brk |-> Step.brk, cont |-> Step.cont]
        OBVIOUS
      <3>3. loop_stack' = Append(loop_stack, l) /\ l.brk = Step.brk /\ l.cont = Step.cont
        BY <2>1, <3>2 DEF LoopScope, Is
      <3>4. /\ IsSeq(loop_stack') /\ Len(loop_stack') = Len(loop_stack) + 1
            /\ loop_stack'[Len(loop_stack) + 1] = l
            /\ \A i \in 1..Len(loop_stack) : loop_stack'[i] = loop_stack[i]
        BY <1>5, <3>3, SeqFacts
      <3>5. \A i \in 1..b.loops : i = a.loops + 1 \/ i \in 1..a.loops
        BY <1>5, <3>1
      <3> QED  BY <1>5, <3>1, <3>3, <3>4, <3>5
    <2>2. CASE Step.do = "pop_loop"
      <3>1. a.loops = b.loops + 1
        BY <2>2 DEF Shifts
      <3>2. loop_stack' = Front(loop_stack)
        BY <2>2 DEF LoopScope, Is
      <3>3. loop_stack # <<>>
        BY <1>5, <3>1
      <3>4. /\ IsSeq(loop_stack') /\ Len(loop_stack') = Len(loop_stack) - 1
            /\ \A i \in 1..(Len(loop_stack) - 1) : loop_stack'[i] = loop_stack[i]
        BY <1>5, <3>2, <3>3, SeqFacts
      <3>5. Len(loop_stack) - 1 = b.loops /\ \A i \in 1..b.loops : i \in 1..a.loops
        BY <1>5, <3>1
      <3> QED  BY <1>5, <3>4, <3>5
    <2> QED  BY <1>1, <2>1, <2>2
  <1>7. Knows(b, g)'
    BY <1>1, <1>2, <1>6 DEF Agrees, Knows
  <1> QED  BY <1>3, <1>4, <1>7 DEF Agrees

\* An instruction that takes its operands and leaves its results.
LEMMA OperateAgrees ==
    ASSUME NEW g, NEW a \in Point, NEW b \in Point, Agrees(a, g), Shifts(Step, a, b, g), Operate
    PROVE  Agrees(b, g)'
  <1>1. /\ UNCHANGED <<temps, loop_stack, return_ty, frames, alias, arrivals>> /\ Step.do = "op"
        /\ position' = NoLabel
    BY DEF Operate, Is
  <1>2. PICK z \in Seq(Val) : a.stack = z \o Step.pop /\ b.stack = z \o Step.push
    BY <1>1 DEF Shifts
  <1>3. Step.pop \in Seq(Val) /\ b.loops = a.loops /\ b.held \subseteq a.held
    BY <1>1 DEF Shifts
  <1>4. IsLive => flow.stack = z \o Step.pop
    BY <1>2 DEF Agrees, Meets
  <1>5. "operand" \notin Rejected(Step.pop) /\ (IsLive => StackAfter(Step.pop, Step.push) = b.stack)
    BY <1>2, <1>3, <1>4, Popped
  <1>6. flow' = IF IsLive THEN [status |-> flow.status, stack |-> b.stack, regs |-> flow.regs] ELSE flow
    <2>1. \A e : e = [flow EXCEPT !.stack = b.stack]
                   => e = [status |-> flow.status, stack |-> b.stack, regs |-> flow.regs]
      BY FlowPushed DEF Agrees, Meets
    <2>2. IsLive => flow' = [flow EXCEPT !.stack = StackAfter(Step.pop, Step.push)]
      BY DEF Operate
    <2>3. ~ IsLive => flow' = flow
      BY DEF Operate
    <2> QED  BY <1>5, <2>1, <2>2, <2>3
  <1>7. faults' = faults \cup Rejected(Step.pop)
    BY DEF Operate
  <1>8. Meets(b, g)'
    BY <1>1, <1>5, <1>6, <1>7, MeetsNow DEF Agrees
  <1>9. Marked(g)' /\ Knows(b, g)'
    BY <1>1, <1>3 DEF Agrees, Marked, Knows
  <1> QED  BY <1>8, <1>9 DEF Agrees

\* A value pushed from a slot.
LEMMA LoadAgrees ==
    ASSUME NEW g, NEW a \in Point, NEW b \in Point, Agrees(a, g), Load,
           b.loops = a.loops, b.held \subseteq a.held,
           NEW x, x = (IF Is("load") THEN temps[Step.temp] ELSE locals[Step.name]),
           Is("loadName") => Step.name \in DOMAIN locals,
           b.stack = a.stack \o <<x.ty>>
    PROVE  Agrees(b, g)'
  <1>1. UNCHANGED <<temps, loop_stack, return_ty>>
    BY DEF Load
  <1>2. /\ flow' = IF IsLive THEN [flow EXCEPT !.stack = Append(@, x.ty)] ELSE flow
        /\ faults' = faults \cup Rejected(<<>>) \cup RejectedRead(x)
        /\ position' = NoLabel
        /\ UNCHANGED <<frames, last_regs, alias, arrivals>>
    BY DEF Load
  <1>3. a.stack \in Seq(Val) /\ Append(a.stack, x.ty) = a.stack \o <<x.ty>>
    <2>1. a.stack \in Seq(Val)
      BY Points
    <2>2. \A S, z, t : z \in Seq(S) => Append(z, t) = z \o <<t>>
      OBVIOUS
    <2> QED  BY <2>1, <2>2
  <1>4. IsLive => flow.stack = a.stack
    BY DEF Agrees, Meets
  <1>5. flow' = IF IsLive THEN [status |-> flow.status, stack |-> b.stack, regs |-> flow.regs] ELSE flow
    <2>1. \A e : e = [flow EXCEPT !.stack = b.stack]
                   => e = [status |-> flow.status, stack |-> b.stack, regs |-> flow.regs]
      BY FlowPushed DEF Agrees, Meets
    <2>2. IsLive => flow' = [flow EXCEPT !.stack = Append(flow.stack, x.ty)]
      BY <1>2
    <2>3. IsLive => Append(flow.stack, x.ty) = b.stack
      BY <1>3, <1>4
    <2>4. IsLive => flow' = [flow EXCEPT !.stack = b.stack]
      BY <2>2, <2>3
    <2>5. IsLive => flow' = [status |-> flow.status, stack |-> b.stack, regs |-> flow.regs]
      BY <2>1, <2>4
    <2>6. ~ IsLive => flow' = flow
      BY <1>2
    <2> QED  BY <2>5, <2>6
  <1>6. PICK found : found = Rejected(<<>>) \cup RejectedRead(x)
    OBVIOUS
  <1>7. "operand" \notin found
    <2>1. "operand" \notin Rejected(<<>>)
      BY <1>3, <1>4, NonePopped
    <2> QED  BY <1>6, <2>1 DEF RejectedRead
  <1>8. faults' = faults \cup found
    BY <1>2, <1>6
  <1>9. Meets(b, g)'
    BY <1>2, <1>5, <1>7, <1>8, MeetsNow DEF Agrees
  <1>10. Marked(g)' /\ Knows(b, g)'
    BY <1>1, <1>2 DEF Agrees, Marked, Knows
  <1> QED  BY <1>9, <1>10 DEF Agrees

\* A value stored to a slot.
LEMMA StoredMeets ==
    ASSUME NEW g, NEW a \in Point, NEW b \in Point, Marked(g), Meets(a, g),
           NEW x, x.ty \in Val, a.stack = b.stack \o <<x.ty>>, StoreTo(x)
    PROVE  Marked(g)' /\ Meets(b, g)'
  <1>1. PICK pop \in Seq(Val) : pop = <<x.ty>>
    BY Stacks
  <1>2. b.stack \in Seq(Val) /\ b.stack \o <<>> = b.stack
    BY Points, Stacks
  <1>3. IsLive => flow.stack = b.stack \o pop
    BY <1>1 DEF Meets
  <1>4. "operand" \notin Rejected(pop) /\ (IsLive => StackAfter(pop, <<>>) = b.stack)
    BY <1>2, <1>3, Popped
  <1>5. PICK r : r = RegsAfterStore(x)
    OBVIOUS
  <1>6. flow' = IF IsLive THEN [status |-> flow.status, stack |-> b.stack, regs |-> r] ELSE flow
    <2>1. \A e : e = [flow EXCEPT !.stack = b.stack, !.regs = r]
                   => e = [status |-> flow.status, stack |-> b.stack, regs |-> r]
      <3>1. flow = [status |-> flow.status, stack |-> flow.stack, regs |-> flow.regs]
        BY DEF Meets
      <3>2. SUFFICES ASSUME NEW e, e = [flow EXCEPT !.stack = b.stack, !.regs = r]
                     PROVE  e = [status |-> flow.status, stack |-> b.stack, regs |-> r]
        OBVIOUS
      <3> QED  BY ONLY <3>1, <3>2, FlowStored
    <2>2. IsLive => flow' = [flow EXCEPT !.stack = StackAfter(pop, <<>>), !.regs = r]
      BY <1>1, <1>5 DEF StoreTo
    <2>3. ~ IsLive => flow' = flow
      BY DEF StoreTo
    <2> QED  BY <1>4, <2>1, <2>2, <2>3
  <1>7. faults' = faults \cup Rejected(pop) /\ position' = NoLabel /\ UNCHANGED <<frames, alias, arrivals>>
    BY <1>1 DEF StoreTo
  <1>8. Meets(b, g)'
    BY <1>4, <1>6, <1>7, MeetsNow
  <1>9. Marked(g)'
    BY <1>7 DEF Marked
  <1> QED  BY <1>8, <1>9

\* A value stored to a new slot.
LEMMA StoreAgrees ==
    ASSUME NEW N \in Nat, NEW g \in Use(N), NEW a \in Point, NEW b \in Point, Agrees(a, g),
           Shifts(Step, a, b, g), Store
    PROVE  Agrees(b, g)'
  <1>1. Step.do = "store" /\ UNCHANGED <<loop_stack, return_ty>>
    BY DEF Store, Is
  <1>2. /\ Step.temp \in DOMAIN g.kind /\ Step.ty = g.kind[Step.temp]
        /\ a.stack = b.stack \o <<Step.ty>> /\ b.loops = a.loops
        /\ b.held \subseteq a.held \cup {Step.temp}
    BY <1>1 DEF Shifts
  <1>3. PICK x : x = [slot |-> next_slot, ty |-> Step.ty]
    OBVIOUS
  <1>4. temps' = With(temps, Step.temp, x) /\ StoreTo(x) /\ x.ty = Step.ty
    BY <1>3 DEF Store
  <1>5. Step.ty \in Val
    BY <1>2 DEF Use
  <1>6. Marked(g)' /\ Meets(b, g)'
    BY <1>2, <1>4, <1>5, StoredMeets DEF Agrees
  <1>7. /\ DOMAIN temps' = DOMAIN temps \cup {Step.temp} /\ temps'[Step.temp] = x
        /\ \A k \in DOMAIN temps : k # Step.temp => temps'[k] = temps[k]
    BY <1>4 DEF With
  <1>8. Knows(b, g)'
    BY <1>1, <1>2, <1>4, <1>7 DEF Agrees, Knows
  <1> QED  BY <1>6, <1>8 DEF Agrees

\* A value stored to the slot of a variable.
LEMMA AssignAgrees ==
    ASSUME NEW g, NEW a \in Point, NEW b \in Point, Agrees(a, g), Assign,
           b.loops = a.loops, b.held \subseteq a.held,
           NEW x, x = locals[Step.name], Step.name \in DOMAIN locals, x.ty \in Val,
           a.stack = b.stack \o <<x.ty>>
    PROVE  Agrees(b, g)'
  <1>1. UNCHANGED <<temps, loop_stack, return_ty>> /\ StoreTo(x)
    BY DEF Assign
  <1>2. Marked(g)' /\ Meets(b, g)'
    BY <1>1, StoredMeets DEF Agrees
  <1>3. Knows(b, g)'
    BY <1>1 DEF Agrees, Knows
  <1> QED  BY <1>2, <1>3 DEF Agrees

\* A jump: the label gets what was on the stack, and no more code follows.
LEMMA JumpedAgrees ==
    ASSUME NEW g, NEW a \in Point, NEW b \in Point, Agrees(a, g),
           b.loops = a.loops, b.held \subseteq a.held,
           NEW l \in DOMAIN g.mark, a.stack = g.mark[l], JumpTo(l),
           position' = NoLabel, UNCHANGED <<temps, loop_stack, return_ty, frames, alias>>
    PROVE  Agrees(b, g)'
  <1>1. IsLive => flow.stack = g.mark[l]
    BY DEF Agrees, Meets
  <1>2. PICK new : new = Arriving(l, flow.stack)
    OBVIOUS
  <1>3. \A k \in DOMAIN new : k \in DOMAIN g.mark /\ \A s \in new[k] : s.stack = g.mark[k]
    BY <1>1, <1>2, Arrivals DEF Agrees
  <1>4. arrivals' = new
    BY <1>2 DEF JumpTo
  <1>5. Marked(g)'
    BY <1>3, <1>4 DEF Agrees, Marked
  <1>6. "operand" \notin faults'
    <2>1. "operand" \notin Rejected(<<>>)
      <3>1. a.stack \in Seq(Val) /\ (IsLive => flow.stack = a.stack)
        BY Points DEF Agrees, Meets
      <3> QED  BY <3>1, NonePopped
    <2>2. "operand" \notin faults
      BY DEF Agrees, Meets
    <2> QED  BY <2>1, <2>2 DEF JumpTo
  <1>7. Meets(b, g)'
    <2>1. flow' = [status |-> "jumped", stack |-> <<>>, regs |-> EmptyMap]
      BY DEF JumpTo, Dead
    <2>2. flow' = [status |-> flow'.status, stack |-> flow'.stack, regs |-> flow'.regs]
          /\ flow'.status # "live"
      BY <2>1
    <2> QED  BY <1>6, <2>2 DEF Meets, IsLive
  <1>8. Knows(b, g)'
    BY DEF Agrees, Knows
  <1> QED  BY <1>5, <1>7, <1>8 DEF Agrees

\* goto, and break and continue, which go to the labels of the innermost loop.
LEMMA JumpAgrees ==
    ASSUME NEW g, NEW a \in Point, NEW b \in Point, Agrees(a, g), Shifts(Step, a, b, g), Jump
    PROVE  Agrees(b, g)'
  <1>1. /\ Step.do \in {"goto", "break", "continue"} /\ position' = NoLabel
        /\ UNCHANGED <<temps, loop_stack, return_ty, frames, alias>>
    BY DEF Jump, Is
  <1>2. b.loops = a.loops /\ b.held \subseteq a.held
    BY <1>1 DEF Shifts
  <1>3. ASSUME NEW l \in DOMAIN g.mark, a.stack = g.mark[l], JumpTo(l) PROVE Agrees(b, g)'
    BY <1>1, <1>2, <1>3, JumpedAgrees
  <1>4. CASE Step.do = "goto"
    <2>1. JumpTo(Step.label) /\ Step.label \in DOMAIN g.mark /\ a.stack = g.mark[Step.label]
      BY <1>4 DEF Jump, Is, Shifts
    <2> QED  BY <1>3, <2>1
  <1>5. CASE Step.do \in {"break", "continue"}
    <2>1. a.stack = <<>> /\ a.loops > 0 /\ a.loops \in Nat
      BY <1>5, Points DEF Shifts
    <2>2. a.loops \in 1..a.loops /\ Last(loop_stack) = loop_stack[a.loops]
      BY <2>1 DEF Last, Agrees, Knows
    <2>3. Bare(Last(loop_stack).brk, g) /\ Bare(Last(loop_stack).cont, g)
      BY <2>2 DEF Agrees, Knows
    <2>4. JumpTo(Last(loop_stack).brk) \/ JumpTo(Last(loop_stack).cont)
      BY <1>5 DEF Jump, Is
    <2> QED  BY <1>3, <2>1, <2>3, <2>4 DEF Bare
  <1> QED  BY <1>1, <1>4, <1>5

\* A conditional jump, to a label that is come to with what is left.
LEMMA CondJumpAgrees ==
    ASSUME NEW g, NEW a \in Point, NEW b \in Point, Agrees(a, g), Shifts(Step, a, b, g), CondJump
    PROVE  Agrees(b, g)'
  <1>1. /\ Step.do = "branch" /\ position' = NoLabel /\ faults' = faults \cup Rejected(Step.pop)
        /\ UNCHANGED <<temps, loop_stack, return_ty, frames, alias>>
    BY DEF CondJump, Is
  <1>2. /\ b.loops = a.loops /\ b.held \subseteq a.held
        /\ Step.pop \in Seq(Val) /\ Step.label \in DOMAIN g.mark
        /\ b.stack = g.mark[Step.label] /\ a.stack = b.stack \o Step.pop
    BY <1>1 DEF Shifts
  <1>3. b.stack \in Seq(Val) /\ b.stack \o <<>> = b.stack
    BY Points, Stacks
  <1>4. IsLive => flow.stack = b.stack \o Step.pop
    BY <1>2 DEF Agrees, Meets
  <1>5. PICK left : left = StackAfter(Step.pop, <<>>)
    OBVIOUS
  <1>6. "operand" \notin Rejected(Step.pop) /\ (IsLive => left = b.stack)
    BY <1>2, <1>3, <1>4, <1>5, Popped
  <1>7. PICK new : new = Arriving(Step.label, left)
    OBVIOUS
  <1>8. \A k \in DOMAIN new : k \in DOMAIN g.mark /\ \A s \in new[k] : s.stack = g.mark[k]
    BY <1>2, <1>6, <1>7, Arrivals DEF Agrees
  <1>9. arrivals' = new /\ flow' = IF IsLive THEN [flow EXCEPT !.stack = left] ELSE flow
    BY <1>5, <1>7 DEF CondJump
  <1>10. flow' = IF IsLive THEN [status |-> flow.status, stack |-> b.stack, regs |-> flow.regs] ELSE flow
    <2>1. \A e : e = [flow EXCEPT !.stack = b.stack]
                   => e = [status |-> flow.status, stack |-> b.stack, regs |-> flow.regs]
      BY FlowPushed DEF Agrees, Meets
    <2>2. IsLive => flow' = [status |-> flow.status, stack |-> b.stack, regs |-> flow.regs]
      BY <1>6, <1>9, <2>1
    <2>3. ~ IsLive => flow' = flow
      BY <1>9
    <2> QED  BY <2>2, <2>3
  <1>11. Meets(b, g)'
    BY <1>1, <1>6, <1>10, MeetsNow DEF Agrees
  <1>12. Marked(g)'
    BY <1>1, <1>8, <1>9 DEF Agrees, Marked
  <1>13. Knows(b, g)'
    BY <1>1, <1>2 DEF Agrees, Knows
  <1> QED  BY <1>11, <1>12, <1>13 DEF Agrees

\* A return, of what is there.
LEMMA ReturnAgrees ==
    ASSUME NEW g, NEW a \in Point, NEW b \in Point, Agrees(a, g), Shifts(Step, a, b, g), ReturnOp
    PROVE  Agrees(b, g)'
  <1>1. /\ Step.do = "return" /\ position' = NoLabel
        /\ UNCHANGED <<temps, loop_stack, return_ty, frames, alias, arrivals>>
    BY DEF ReturnOp, Is
  <1>2. b.loops = a.loops /\ b.held \subseteq a.held
    BY <1>1 DEF Shifts
  <1>3. PICK z \in Seq(Val) : a.stack = z \o StackOf(Step.ty)
    BY <1>1 DEF Shifts
  <1>4. PICK pop \in Seq(Val) : pop = StackOf(Step.ty)
    BY Stacks
  <1>5. IsLive => flow.stack = z \o pop
    BY <1>3, <1>4 DEF Agrees, Meets
  <1>6. "operand" \notin Rejected(pop)
    BY <1>5, Popped
  <1>7. "operand" \notin faults'
    BY <1>4, <1>6 DEF ReturnOp, Agrees, Meets
  <1>8. Meets(b, g)'
    <2>1. flow' = [status |-> "returned", stack |-> <<>>, regs |-> EmptyMap]
      BY DEF ReturnOp, Dead
    <2>2. flow' = [status |-> flow'.status, stack |-> flow'.stack, regs |-> flow'.regs]
          /\ flow'.status # "live"
      BY <2>1
    <2> QED  BY <1>1, <1>7, <2>2 DEF Meets, IsLive
  <1>9. Marked(g)' /\ Knows(b, g)'
    BY <1>1, <1>2 DEF Agrees, Marked, Knows
  <1> QED  BY <1>8, <1>9 DEF Agrees

\* A label where no other one is: its frame has the stack the label was taken
\* for, and so does the code that runs on to it.
LEMMA FramedAgrees ==
    ASSUME NEW g, NEW a \in Point, NEW b \in Point, Agrees(a, g), Shifts(Step, a, b, g), PlaceLabel,
           position = NoLabel
    PROVE  Marked(g)' /\ Meets(b, g)'
  <1>1. Step.do = "place" /\ faults' = faults
    BY DEF PlaceLabel, Is
  <1> DEFINE l == Step.label
  <1>2. l \in DOMAIN g.mark /\ Step.stack = g.mark[l] /\ a.stack = g.mark[l] /\ b.stack = g.mark[l]
    BY <1>1 DEF Shifts
  <1>3. PICK r : /\ arrivals' = Arriving(l, flow.stack)
                 /\ frames' = With(frames, l, [stack |-> Step.stack, regs |-> r])
                 /\ flow' = [status |-> "live", stack |-> Step.stack, regs |-> r]
                 /\ position' = l
                 /\ UNCHANGED alias
    BY DEF PlaceLabel
  <1>4. PICK new : new = Arriving(l, flow.stack)
    OBVIOUS
  <1>5. IsLive => flow.stack = g.mark[l]
    BY <1>2 DEF Agrees, Meets
  <1> HIDE DEF l
  <1>6. \A k \in DOMAIN new : k \in DOMAIN g.mark /\ \A s \in new[k] : s.stack = g.mark[k]
    BY <1>2, <1>4, <1>5, Arrivals DEF Agrees
  <1>7. PICK frame : frame = [stack |-> Step.stack, regs |-> r]
    OBVIOUS
  <1>8. frame.stack = g.mark[l]
    BY <1>2, <1>7
  <1>9. /\ DOMAIN frames' = DOMAIN frames \cup {l} /\ frames'[l] = frame
        /\ \A k \in DOMAIN frames : k # l => frames'[k] = frames[k]
    BY <1>3, <1>7 DEF With
  <1>10. \A k \in DOMAIN frames' : k \in DOMAIN g.mark /\ frames'[k].stack = g.mark[k]
    BY <1>2, <1>8, <1>9 DEF Agrees, Marked
  <1>11. Marked(g)'
    BY <1>3, <1>4, <1>6, <1>10 DEF Agrees, Marked
  <1>12. /\ flow' = [status |-> flow'.status, stack |-> flow'.stack, regs |-> flow'.regs]
         /\ flow'.status = "live" /\ flow'.stack = g.mark[l]
    BY <1>2, <1>3
  <1>13. Meets(b, g)'
    BY <1>1, <1>2, <1>3, <1>12 DEF Meets, IsLive, Agrees
  <1> QED  BY <1>11, <1>13

\* A label where another one is: both were taken for the stack that is there.
LEMMA AliasAgrees ==
    ASSUME NEW g, NEW a \in Point, NEW b \in Point, Agrees(a, g), Shifts(Step, a, b, g), PlaceLabel,
           position # NoLabel
    PROVE  Marked(g)' /\ Meets(b, g)'
  <1>1. Step.do = "place" /\ faults' = faults
    BY DEF PlaceLabel, Is
  <1>2. PICK l : l = Step.label
    OBVIOUS
  <1>3. l \in DOMAIN g.mark /\ a.stack = g.mark[l] /\ b.stack = g.mark[l]
    BY <1>1, <1>2 DEF Shifts
  <1>4. /\ alias' = With(alias, l, position)
        /\ arrivals' = With(arrivals, position, Arrived(position) \cup Arrived(l))
        /\ UNCHANGED <<frames, flow, last_regs, position>>
    BY <1>2 DEF PlaceLabel
  <1>5. IsLive /\ position \in DOMAIN g.mark /\ g.mark[position] = g.mark[l] /\ flow.stack = b.stack
    BY <1>3 DEF Agrees, Meets
  <1>6. PICK both : both = Arrived(position) \cup Arrived(l)
    OBVIOUS
  <1>7. \A s \in both : s.stack = g.mark[position]
    <2>1. \A s \in Arrived(position) : s.stack = g.mark[position]
      BY DEF Arrived, Agrees, Marked
    <2>2. \A s \in Arrived(l) : s.stack = g.mark[l]
      BY DEF Arrived, Agrees, Marked
    <2> QED  BY <1>5, <1>6, <2>1, <2>2
  <1>8. /\ DOMAIN arrivals' = DOMAIN arrivals \cup {position} /\ arrivals'[position] = both
        /\ \A k \in DOMAIN arrivals : k # position => arrivals'[k] = arrivals[k]
    BY <1>4, <1>6 DEF With
  <1>9. \A k \in DOMAIN arrivals' : k \in DOMAIN g.mark /\ \A s \in arrivals'[k] : s.stack = g.mark[k]
    BY <1>5, <1>7, <1>8 DEF Agrees, Marked
  <1>10. /\ DOMAIN alias' = DOMAIN alias \cup {l} /\ alias'[l] = position
         /\ \A k \in DOMAIN alias : k # l => alias'[k] = alias[k]
    BY <1>4 DEF With
  <1>11. \A k \in DOMAIN alias' : /\ k \in DOMAIN g.mark /\ alias'[k] \in DOMAIN g.mark
                                  /\ g.mark[alias'[k]] = g.mark[k]
    BY <1>3, <1>5, <1>10 DEF Agrees, Marked
  <1>12. Marked(g)'
    BY <1>4, <1>9, <1>11 DEF Agrees, Marked
  <1>13. Meets(b, g)'
    BY <1>1, <1>4, <1>5 DEF Agrees, Meets, IsLive
  <1> QED  BY <1>12, <1>13

\* Either way.
LEMMA PlaceAgrees ==
    ASSUME NEW g, NEW a \in Point, NEW b \in Point, Agrees(a, g), Shifts(Step, a, b, g), PlaceLabel
    PROVE  Agrees(b, g)'
  <1>1. Marked(g)' /\ Meets(b, g)'
    <2>1. CASE position = NoLabel
      BY <2>1, FramedAgrees
    <2>2. CASE position # NoLabel
      BY <2>2, AliasAgrees
    <2> QED  BY <2>1, <2>2
  <1>2. Step.do = "place" /\ UNCHANGED <<temps, loop_stack, return_ty>>
    BY DEF PlaceLabel, Is
  <1>3. b.loops = a.loops /\ b.held \subseteq a.held
    BY <1>2 DEF Shifts
  <1>4. Knows(b, g)'
    BY <1>2, <1>3 DEF Agrees, Knows
  <1> QED  BY <1>1, <1>4 DEF Agrees

-----------------------------------------------------------------------------
(* Every instruction keeps the invariant                                   *)

\* A name that is bound has the type its key was taken for.
LEMMA NameKind ==
    ASSUME NEW g, NEW u, NEW w, NEW a, NEW param, NEW base, Here(g, u, w, a, param, base),
           NEW name, Named(u, name, g)
    PROVE  name \in DOMAIN locals /\ locals[name].ty = g.kind[Last(u)[name]]
  <1>1. Len(base) \in 1..Len(base) /\ Len(u) = Len(base) /\ base[Len(base)] = locals
    BY SeqFacts DEF Here, Lowered
  <1>2. /\ DOMAIN u[Len(base)] = DOMAIN base[Len(base)] \cap UserName
        /\ Means(u[Len(base)], base[Len(base)], param, temps)
    BY <1>1 DEF Here, Lowered
  <1>3. DOMAIN Last(u) = DOMAIN locals \cap UserName /\ Means(Last(u), locals, param, temps)
    BY <1>1, <1>2 DEF Last
  <1>4. name \in DOMAIN Last(u)
    BY DEF Named
  <1>5. PICK k : k = Last(u)[name]
    OBVIOUS
  <1>6. k \in DOMAIN temps \cup {Param} /\ locals[name] = Value(k, param, temps)
    BY <1>3, <1>4, <1>5 DEF Means
  <1>7. locals[name].ty = g.kind[k]
    <2>1. CASE k = Param
      BY <1>6, <2>1 DEF Value, Here
    <2>2. CASE k # Param
      BY <1>6, <2>2 DEF Value, Here, Agrees, Knows
    <2> QED  BY <2>1, <2>2
  <1> QED  BY <1>3, <1>4, <1>5, <1>7

Instruction == \/ push_scope \/ pop_scope \/ CheckerScope \/ TakeSnapshot \/ LoopScope \/ Operate
               \/ Load \/ Store \/ Assign \/ Jump \/ CondJump \/ ReturnOp \/ PlaceLabel

\* Its scopes are those its path comes to.
LEMMA InstructionMoves ==
    ASSUME next_label \in Nat, next_slot \in Nat, Instruction,
           NEW u, NEW w, NEW param, NEW base, NEW b, <<u, w>> \in States(next_label),
           Lowered(u, param, base, locals, scope_stack, temps), Checked(w, param, env, temps),
           Rel(Step, <<u, w>>, b)
    PROVE  Moved(b, param)
  <1>1. CASE push_scope \/ pop_scope
    BY <1>1, ScopeMoves
  <1>2. CASE CheckerScope
    BY <1>2, CheckerMoves
  <1>3. CASE Store
    BY <1>3, StoreMoves
  <1>4. CASE TakeSnapshot \/ LoopScope \/ Operate \/ Load \/ Assign \/ Jump \/ CondJump \/ ReturnOp
             \/ PlaceLabel
    <2>1. /\ UNCHANGED <<locals, scope_stack, temps, env>>
          /\ Step.do \notin Loud
      BY <1>4 DEF TakeSnapshot, LoopScope, Operate, Load, Assign, Jump, CondJump, ReturnOp, PlaceLabel,
                  Is, Loud
    <2>2. b = <<u, w>>
      BY <2>1 DEF Rel
    <2> QED  BY <2>1, <2>2 DEF Moved
  <1> QED  BY <1>1, <1>2, <1>3, <1>4 DEF Instruction

\* Its stack and its loops are.
LEMMA InstructionAgrees ==
    ASSUME NEW N \in Nat, NEW g \in Use(N), NEW u, NEW w, NEW a \in Point, NEW b \in Point,
           NEW param, NEW base, Here(g, u, w, a, param, base), Moves(Step, <<u, w>>, a, b, g),
           Instruction
    PROVE  Agrees(b, g)'
  <1>1. Agrees(a, g)
    BY DEF Here
  <1>2. CASE Step.do \notin {"loadName", "assign"}
    <2>1. Shifts(Step, a, b, g)
      BY <1>2 DEF Moves
    <2>2. CASE push_scope \/ pop_scope \/ CheckerScope \/ TakeSnapshot
      BY <1>1, <2>1, <2>2, StillAgrees
    <2>3. CASE LoopScope
      BY <1>1, <2>1, <2>3, LoopAgrees
    <2>4. CASE Operate
      BY <1>1, <2>1, <2>4, OperateAgrees
    <2>5. CASE Load
      <3>1. Step.do = "load" /\ Is("load") /\ ~ Is("loadName")
        BY <1>2, <2>5 DEF Load, Is
      <3>2. /\ Step.temp \in a.held /\ b.stack = a.stack \o <<g.kind[Step.temp]>>
            /\ b.loops = a.loops /\ b.held \subseteq a.held
        BY <2>1, <3>1 DEF Shifts
      <3>3. PICK x : x = temps[Step.temp]
        OBVIOUS
      <3>4. x.ty = g.kind[Step.temp]
        BY <1>1, <3>2, <3>3 DEF Agrees, Knows
      <3> QED  BY <1>1, <2>5, <3>1, <3>2, <3>3, <3>4, LoadAgrees
    <2>6. CASE Store
      BY <1>1, <2>1, <2>6, StoreAgrees
    <2>7. CASE Jump
      BY <1>1, <2>1, <2>7, JumpAgrees
    <2>8. CASE CondJump
      BY <1>1, <2>1, <2>8, CondJumpAgrees
    <2>9. CASE ReturnOp
      BY <1>1, <2>1, <2>9, ReturnAgrees
    <2>10. CASE PlaceLabel
      BY <1>1, <2>1, <2>10, PlaceAgrees
    <2>11. ~ Assign
      BY <1>2 DEF Assign, Is
    <2> QED  BY <2>2, <2>3, <2>4, <2>5, <2>6, <2>7, <2>8, <2>9, <2>10, <2>11 DEF Instruction
  <1>3. ASSUME Step.do \in {"loadName", "assign"}
        PROVE  /\ Named(u, Step.name, g)
               /\ \/ /\ Step.do = "loadName"
                     /\ b = At(a.stack \o <<g.kind[Last(u)[Step.name]]>>, a.loops, a.held)
                  \/ /\ Step.do = "assign"
                     /\ a = At(b.stack \o <<g.kind[Last(u)[Step.name]]>>, b.loops, b.held)
    BY <1>3 DEF Moves, Shifts
  <1>4. CASE Step.do \in {"loadName", "assign"}
    <2>1. Step.name \in DOMAIN locals /\ locals[Step.name].ty = g.kind[Last(u)[Step.name]]
      BY <1>3, <1>4, NameKind
    <2>2. g.kind[Last(u)[Step.name]] \in Val
      BY <1>3, <1>4 DEF Named, Use
    <2>3. PICK x : x = locals[Step.name]
      OBVIOUS
    <2>4. PICK ty : ty = g.kind[Last(u)[Step.name]]
      OBVIOUS
    <2>5. x.ty = ty /\ ty \in Val
      BY <2>1, <2>2, <2>3, <2>4
    <2>6. CASE Step.do = "loadName"
      <3>1. b = At(a.stack \o <<ty>>, a.loops, a.held)
        BY <1>3, <2>4, <2>6
      <3>2. b.stack = a.stack \o <<x.ty>> /\ b.loops = a.loops /\ b.held \subseteq a.held
        BY <2>5, <3>1 DEF At
      <3>3. Load /\ ~ Is("load")
        BY <2>6 DEF Instruction, push_scope, pop_scope, CheckerScope, TakeSnapshot, LoopScope, Operate,
                    Store, Assign, Jump, CondJump, ReturnOp, PlaceLabel, Is
      <3> QED  BY <1>1, <2>1, <2>3, <3>2, <3>3, LoadAgrees
    <2>7. CASE Step.do = "assign"
      <3>1. a = At(b.stack \o <<ty>>, b.loops, b.held)
        BY <1>3, <2>4, <2>7
      <3>2. a.stack = b.stack \o <<x.ty>> /\ b.loops = a.loops /\ b.held \subseteq a.held
        BY <2>5, <3>1 DEF At
      <3>3. Assign
        BY <2>7 DEF Instruction, push_scope, pop_scope, CheckerScope, TakeSnapshot, LoopScope, Operate,
                    Load, Store, Jump, CondJump, ReturnOp, PlaceLabel, Is
      <3> QED  BY <1>1, <2>1, <2>3, <2>5, <3>2, <3>3, AssignAgrees
    <2> QED  BY <1>4, <2>6, <2>7
  <1> QED  BY <1>2, <1>4

\* So that it keeps the invariant.
LEMMA InstructionStacks ==
    ASSUME StackInv, Instruction
    PROVE  StackInv'
  <1>1. todo # <<>> /\ Then(<<>>) /\ next_label' = next_label
    BY DEF Instruction, push_scope, pop_scope, CheckerScope, TakeSnapshot, LoopScope, Operate,
           Load, Store, Assign, Jump, CondJump, ReturnOp, PlaceLabel, Is
  <1>2. PICK g \in Use(next_label) : \E u, w, a, Z, param, base, y, b :
           Ahead(g, u, w, a, Z, param, base, y, b)
    BY <1>1, NextWalk
  <1>3. PICK u, w, a, Z, param, base, y, b : Ahead(g, u, w, a, Z, param, base, y, b)
    BY <1>2
  <1>4. next_label \in Nat /\ next_slot \in Nat
    BY DEF StackInv
  <1>5. /\ Here(g, u, w, a, param, base)
        /\ <<u, w>> \in States(next_label) /\ a \in Point /\ b \in Point
        /\ Rel(Step, <<u, w>>, y) /\ Moves(Step, <<u, w>>, a, b, g)
        /\ Walk(Tail(todo), <<y, b>>, Z, g, next_label) /\ Closed(Z)
    BY <1>3 DEF Ahead
  <1>6. Moved(y, param) /\ param.ty = g.kind[Param]
    BY <1>4, <1>5, InstructionMoves DEF Here
  <1>7. Agrees(b, g)'
    BY <1>4, <1>5, InstructionAgrees
  <1>8. next_slot' \in Nat
    <2>1. CASE Store
      BY <1>4, <2>1 DEF Store, slot_count
    <2>2. CASE ~ Store
      BY <1>4, <2>2 DEF Instruction, push_scope, pop_scope, CheckerScope, TakeSnapshot, LoopScope,
                        Operate, Load, Assign, Jump, CondJump, ReturnOp, PlaceLabel
    <2> QED  BY <2>1, <2>2
  <1> QED  BY <1>1, <1>4, <1>5, <1>6, <1>7, <1>8, DoneStacks

-----------------------------------------------------------------------------
(* Every form keeps the invariant                                          *)

\* Choosing a form changes neither the scopes nor the code.
Untouched == UNCHANGED <<locals, next_slot, scope_stack, loop_stack, temps, saved, return_ty,
                         env, codeVars>>

\* What is known of the scopes and the stack stays known when more is taken.
LEMMA HereGrow ==
    ASSUME NEW N \in Nat, NEW g \in Use(N), NEW h, Extends(h, g), NEW u, NEW w, NEW a,
           NEW param, NEW base, Here(g, u, w, a, param, base), Untouched
    PROVE  Here(h, u, w, a, param, base)'
  <1>1. Marked(h)'
    BY DEF Here, Agrees, Marked, Untouched, codeVars, Extends
  <1>2. Meets(a, h)'
    BY DEF Here, Agrees, Meets, IsLive, Untouched, codeVars, Extends
  <1>3. Knows(a, h)'
    <2>1. \A l : Bare(l, g) => Bare(l, h)
      BY DEF Bare, Extends
    <2>2. \A k \in DOMAIN temps : k \in DOMAIN h.kind /\ temps[k].ty = h.kind[k]
      BY DEF Here, Agrees, Knows, Extends
    <2>3. return_ty = h.result
      BY DEF Here, Agrees, Knows, Extends
    <2> QED  BY <2>1, <2>2, <2>3 DEF Here, Agrees, Knows, Untouched
  <1>4. param.ty = h.kind[Param]
    <2>1. Param \in DOMAIN g.kind
      BY ParamKey DEF Use
    <2> QED  BY <2>1 DEF Here, Extends
  <1>5. Lowered(u, param, base, locals', scope_stack', temps') /\ Checked(w, param, env', temps')
    BY DEF Here, Untouched
  <1> QED  BY <1>1, <1>2, <1>3, <1>4, <1>5 DEF Here, Agrees

\* The invariant after a form became other steps.
LEMMA ExpandStacks ==
    ASSUME next_label \in Nat, next_slot \in Nat, NEW g \in Use(next_label),
           NEW u, NEW w, NEW a, NEW Z, NEW param, NEW base, NEW y, NEW b,
           Ahead(g, u, w, a, Z, param, base, y, b), Untouched,
           NEW M \in Nat, next_label <= M, next_label' = M, NEW h \in Use(M), Extends(h, g),
           NEW steps, Then(steps), Walk(steps, <<<<u, w>>, a>>, <<y, b>>, h, M)
    PROVE  StackInv'
  <1>1. Here(h, u, w, a, param, base)'
    BY HereGrow DEF Ahead
  <1>2. next_slot' \in Nat
    BY DEF Untouched
  <1>3. Walk(Tail(todo), <<y, b>>, Z, g, next_label) /\ Closed(Z)
    BY DEF Ahead
  <1>4. PICK Y : Y = <<y, b>>
    OBVIOUS
  <1>5. Walk(steps, <<<<u, w>>, a>>, Y, h, M) /\ Walk(Tail(todo), Y, Z, g, next_label)
    BY <1>3, <1>4
  <1> QED  BY <1>1, <1>2, <1>3, <1>5, AdvanceStacks

\* More can always be taken.
LEMMA Extended ==
    ASSUME NEW L \in Nat, NEW g \in Use(L)
    PROVE  \E h \in Use(L + FormKeys) : Extends(h, g)
  <1>1. "Int" \in Val /\ <<>> \in Seq(Val)
    BY Stacks, Scrutinised
  <1>2. PICK p : TRUE
    OBVIOUS
  <1>3. PICK h \in Use(L + FormKeys) :
           Extends(h, g) /\ Fit(h, L, "Int", "Int", "Int", p, p, <<>>, <<>>, <<>>)
    BY <1>1, Scrutinised, PlannedFor
  <1> QED  BY <1>3

\* A name the checker sees has a key, and the type of the key.
LEMMA VisibleKind ==
    ASSUME NEW N \in Nat, NEW g \in Use(N), NEW u, NEW w, <<u, w>> \in States(N), Ready(u, w),
           NEW a, NEW param, NEW base, Here(g, u, w, a, param, base), NEW n \in Visible
    PROVE  Named(u, n, g) /\ g.kind[Last(u)[n]] = Lookup(n).ty /\ Lookup(n).ty \in Val
  <1>1. /\ n \in DOMAIN Last(u) /\ n \in DOMAIN locals /\ locals[n] = Lookup(n)
        /\ Means(Last(u), locals, param, temps)
    <2>1. w \in Seq(Map(N))
      BY StateParts
    <2> QED  BY <2>1, NameMeans DEF Here
  <1>2. PICK k : k = Last(u)[n]
    OBVIOUS
  <1>3. k \in DOMAIN temps \cup {Param}
    BY <1>1, <1>2 DEF Means
  <1>4. k \in DOMAIN g.kind
    <2>1. Param \in DOMAIN g.kind
      BY ParamKey DEF Use
    <2>2. DOMAIN temps \subseteq DOMAIN g.kind
      BY DEF Here, Agrees, Knows
    <2> QED  BY <1>3, <2>1, <2>2
  <1>5. Named(u, n, g)
    BY <1>1, <1>2, <1>4 DEF Named
  <1>6. locals[n].ty = g.kind[Last(u)[n]]
    BY <1>5, NameKind
  <1>7. g.kind[k] \in Val
    BY <1>4 DEF Use
  <1> QED  BY <1>1, <1>2, <1>5, <1>6, <1>7

\* A variable, a literal or nothing.
LEMMA AtomWalk ==
    ASSUME NEW N \in Nat, NEW g \in Use(N), NEW u, NEW w, <<u, w>> \in States(N), Ready(u, w),
           NEW a \in Point, NEW param, NEW base, Here(g, u, w, a, param, base),
           NEW e, NEW steps \in Atoms(e)
    PROVE  Walk(steps, <<<<u, w>>, a>>,
                <<<<u, w>>, At(a.stack \o StackOf(e.ty), a.loops, a.held)>>, g, N)
  <1> DEFINE b == At(a.stack \o StackOf(e.ty), a.loops, a.held)
             X == <<<<u, w>>, a>>
             Y == <<<<u, w>>, b>>
  <1> SUFFICES Walk(steps, X, Y, g, N)
    OBVIOUS
  <1>1. a.stack \in Seq(Val) /\ a.loops \in Nat /\ a.held \in SUBSET Nat
        /\ a = At(a.stack, a.loops, a.held)
    BY Points
  <1>2. b \in Point
    BY <1>1, Stacks, Points
  <1>3. X \in Places(N) /\ Y \in Places(N)
    BY <1>2 DEF Places
  <1>4. \/ \E n \in Visible : Lookup(n).ty = e.ty /\ steps = <<LoadName(n)>>
        \/ e.ty \in Val /\ steps = <<Push(e.ty)>>
        \/ e.ty = "Unit" /\ steps = <<>>
    BY DEF Atoms
  <1>5. ASSUME NEW n \in Visible, Lookup(n).ty = e.ty, steps = <<LoadName(n)>>
        PROVE  Walk(steps, X, Y, g, N)
    <2>1. Named(u, n, g) /\ g.kind[Last(u)[n]] = e.ty /\ e.ty \in Val
      BY <1>5, VisibleKind
    <2>2. StackOf(e.ty) = <<e.ty>>
      BY <2>1, Stacks
    <2>3. b = At(a.stack \o <<g.kind[Last(u)[n]]>>, a.loops, a.held)
      BY <2>1, <2>2
    <2> HIDE DEF b
    <2>4. LoadName(n).do = "loadName" /\ LoadName(n).name = n
      BY DEF LoadName
    <2>5. Rel(LoadName(n), <<u, w>>, <<u, w>>)
      BY <2>4, StepRel DEF Loud
    <2>6. Moves(LoadName(n), <<u, w>>, a, b, g)
      BY <2>1, <2>3, <2>4 DEF Moves
    <2>7. Goes(LoadName(n), X, Y, g)
      BY <2>5, <2>6 DEF Goes
    <2> HIDE DEF X, Y
    <2> QED  BY <1>3, <1>5, <2>7, WalkOne
  <1>6. CASE e.ty \in Val /\ steps = <<Push(e.ty)>>
    <2>1. StackOf(e.ty) = <<e.ty>>
      BY <1>6, Stacks
    <2>2. Shifts(Push(e.ty), a, At(a.stack \o <<e.ty>>, a.loops, a.held), g)
      BY <1>1, <1>6, ShiftKinds
    <2>3. Shifts(Push(e.ty), a, b, g)
      BY <2>1, <2>2
    <2> HIDE DEF b
    <2>4. Rel(Push(e.ty), <<u, w>>, <<u, w>>)
      BY StepRel DEF Push, Op, Loud
    <2>5. Goes(Push(e.ty), X, Y, g)
      BY <2>3, <2>4 DEF Goes, Moves
    <2> HIDE DEF X, Y
    <2> QED  BY <1>3, <1>6, <2>5, WalkOne
  <1>7. CASE e.ty = "Unit" /\ steps = <<>>
    <2>1. "Unit" \notin Val
      BY DEF Val
    <2>2. StackOf(e.ty) = <<>>
      BY <1>7, <2>1 DEF StackOf
    <2>3. b = a
      BY <1>1, <2>2, Stacks
    <2> HIDE DEF b
    <2>4. X = Y
      BY <2>3
    <2> HIDE DEF X, Y
    <2> QED  BY <1>3, <1>7, <2>4, WalkEmpty
  <1> HIDE DEF X, Y
  <1> QED  BY <1>4, <1>5, <1>6, <1>7

\* An assignment: the value has the type of the variable's slot.
LEMMA AssignWalk ==
    ASSUME NEW N \in Nat, NEW g \in Use(N), NEW u, NEW w, <<u, w>> \in States(N), Ready(u, w),
           NEW a \in Point, NEW param, NEW base, Here(g, u, w, a, param, base),
           NEW e, Stands(e, a), NEW steps \in lower_assign(e)
    PROVE  Walk(steps, <<<<u, w>>, a>>,
                <<<<u, w>>, At(a.stack \o StackOf(e.ty), a.loops, a.held)>>, g, N)
  <1>1. a.stack \in Seq(Val) /\ a.loops \in Nat /\ a.held \in SUBSET Nat
        /\ a = At(a.stack, a.loops, a.held)
    BY Points
  <1> DEFINE Code(n) == <<E(Lookup(n).ty, e.in, "code"), AssignTo(n)>>
  <1>2. e.ty = "Unit" /\ \E n \in Visible : steps = Code(n)
    <2>1. e.ty = "Unit"
      BY DEF lower_assign
    <2>2. lower_assign(e) = {Code(n) : n \in Visible}
      BY <2>1 DEF lower_assign
    <2> HIDE DEF Code
    <2> QED  BY <2>1, <2>2
  <1>3. PICK n \in Visible : steps = Code(n)
    BY <1>2
  <1>4. PICK t : t = Lookup(n).ty
    OBVIOUS
  <1>5. Named(u, n, g) /\ g.kind[Last(u)[n]] = t /\ t \in Val
    BY <1>4, VisibleKind
  <1> DEFINE value == E(t, e.in, "code")
             assign == AssignTo(n)
             c == At(a.stack \o <<t>>, a.loops, a.held)
             X == <<<<u, w>>, a>>
             Y == <<<<u, w>>, c>>
  <1>6. At(a.stack \o StackOf(e.ty), a.loops, a.held) = a
    <2>1. "Unit" \notin Val
      BY DEF Val
    <2>2. StackOf(e.ty) = <<>>
      BY <1>2, <2>1 DEF StackOf
    <2> QED  BY <1>1, <2>2, Stacks
  <1>7. c \in Point /\ StackOf(t) = <<t>>
    BY <1>1, <1>5, Stacks, Points
  <1>8. X \in Places(N) /\ Y \in Places(N)
    BY <1>7 DEF Places
  <1>9. Goes(value, X, Y, g)
    <2>1. Standing(e.in, "code", a.stack, a.loops)
      BY DEF Standing, Stands
    <2>2. Shifts(value, At(a.stack, a.loops, a.held), At(a.stack \o StackOf(t), a.loops, a.held), g)
      BY <1>1, <2>1, ShiftKinds
    <2>3. Shifts(value, a, c, g)
      BY <1>1, <1>7, <2>2
    <2>4. Rel(value, <<u, w>>, <<u, w>>)
      BY StepRel, QuietKinds
    <2> HIDE DEF value, c
    <2> QED  BY <2>3, <2>4 DEF Goes, Moves
  <1>10. Goes(assign, Y, X, g)
    <2>1. assign.do = "assign" /\ assign.name = n
      BY DEF AssignTo
    <2>2. Rel(assign, <<u, w>>, <<u, w>>)
      BY <2>1, StepRel DEF Loud
    <2>3. c = At(a.stack \o <<g.kind[Last(u)[n]]>>, a.loops, a.held)
      BY <1>5
    <2> HIDE DEF assign, c
    <2>4. Moves(assign, <<u, w>>, c, a, g)
      BY <1>5, <2>1, <2>3 DEF Moves
    <2> QED  BY <2>2, <2>4 DEF Goes
  <1> HIDE DEF value, assign, X, Y
  <1>11. Walk(<<value>>, X, Y, g, N) /\ Walk(<<assign>>, Y, X, g, N)
    BY <1>8, <1>9, <1>10, WalkOne
  <1>12. Walk(<<value>> \o <<assign>>, X, X, g, N)
    BY <1>11, WalkConcat
  <1>13. <<value>> \o <<assign>> = steps
    BY <1>3, <1>4, PairConcat DEF value, assign
  <1>14. Walk(steps, X, X, g, N)
    BY <1>12, <1>13
  <1> QED  BY <1>6, <1>14 DEF X

\* A form of any kind, with what it takes.
LEMMA FormWalk ==
    ASSUME {"stacked", "lastArm", "unnamedSlot", "bodyValue", "wideTest"} \subseteq Avoid,
           NEW L \in Nat, NEW g \in Use(L), NEW u, NEW w, <<u, w>> \in States(L), Ready(u, w),
           NEW a \in Point, NEW param, NEW base, Here(g, u, w, a, param, base),
           NEW e, Stands(e, a), NEW name, NEW steps \in Form(e, L, name),
           NEW M \in Nat, M = L + FormKeys
    PROVE  \E h \in Use(M) : /\ Extends(h, g)
                             /\ Walk(steps, <<<<u, w>>, a>>,
                                     <<<<u, w>>, At(a.stack \o StackOf(e.ty), a.loops, a.held)>>, h, M)
  <1>1. L <= M
    BY DEF FormKeys, PatternKeys
  <1>2. PICK b : b = At(a.stack \o StackOf(e.ty), a.loops, a.held)
    OBVIOUS
  <1>3. CASE steps \in lower_assign(e)
    <2>1. PICK Y : Y = <<<<u, w>>, b>>
      OBVIOUS
    <2>2. Walk(steps, <<<<u, w>>, a>>, Y, g, L)
      BY <1>2, <1>3, <2>1, AssignWalk
    <2>3. PICK h \in Use(M) : Extends(h, g)
      BY Extended
    <2>4. Walk(steps, <<<<u, w>>, a>>, Y, h, M)
      BY <1>1, <2>2, <2>3, WalkGrow
    <2> QED  BY <1>2, <2>1, <2>3, <2>4
  <1>4. CASE steps \notin lower_assign(e)
    <2>1. Tracked(steps, a, b, g, L)
      BY <1>2, <1>4, FormTrack
    <2>2. PICK h \in Use(M) : Extends(h, g) /\ Track(steps, a, b, h)
      BY <2>1 DEF Tracked
    <2>3. Seg(steps, <<u, w>>, <<u, w>>, M)
      BY FormSeg
    <2>4. PICK y : y = <<u, w>>
      OBVIOUS
    <2>5. Walk(steps, <<y, a>>, <<y, b>>, h, M)
      BY <2>2, <2>3, <2>4, WalkFrom
    <2> QED  BY <1>2, <2>2, <2>4, <2>5
  <1> QED  BY <1>3, <1>4

\* What an expression or an else becomes.
LEMMA ExprStacks ==
    ASSUME {"deadCode", "stacked", "lastArm", "breakValue", "unnamedSlot", "bodyValue",
            "wideTest"} \subseteq Avoid,
           StackInv, LowerExpr \/ LowerElse
    PROVE  StackInv'
  <1>1. todo # <<>> /\ Step.do \in {"expr", "else"} /\ Untouched
    BY DEF LowerExpr, LowerElse, Is, Untouched
  <1>2. PICK g \in Use(next_label) : \E u, w, a, Z, param, base, y, b :
           Ahead(g, u, w, a, Z, param, base, y, b)
    BY <1>1, NextWalk
  <1>3. PICK u, w, a, Z, param, base, y, b : Ahead(g, u, w, a, Z, param, base, y, b)
    BY <1>2
  <1>4. next_label \in Nat /\ next_slot \in Nat
    BY DEF StackInv
  <1>5. /\ Here(g, u, w, a, param, base)
        /\ <<u, w>> \in States(next_label) /\ a \in Point /\ b \in Point
        /\ Rel(Step, <<u, w>>, y) /\ Moves(Step, <<u, w>>, a, b, g)
    BY <1>3 DEF Ahead
  <1>6. Ready(u, w) /\ y = <<u, w>>
    BY <1>1, <1>5 DEF Rel
  <1>7. Shifts(Step, a, b, g)
    BY <1>1, <1>5 DEF Moves
  <1>8. /\ Stands(Step, a) /\ b.held = a.held /\ b.stack = a.stack \o StackOf(Step.ty)
        /\ b.loops = a.loops
    BY <1>1, <1>7 DEF Shifts
  <1>9. b = At(a.stack \o StackOf(Step.ty), a.loops, a.held)
    BY <1>5, <1>8, Points
  <1>10. /\ a.stack \in Seq(Val) /\ a.loops \in Nat /\ a.held \in SUBSET Nat
         /\ a = At(a.stack, a.loops, a.held)
         /\ Standing(Step.in, Step.next, a.stack, a.loops)
    BY <1>5, <1>8, Points DEF Stands, Standing
  <1>11. PICK L \in Nat : L = next_label
    BY <1>4
  <1>12. ASSUME NEW steps, Then(steps), next_label' = next_label,
                Walk(steps, <<<<u, w>>, a>>, <<<<u, w>>, b>>, g, L)
         PROVE  StackInv'
    <2>1. g \in Use(L) /\ Extends(g, g) /\ next_label <= L /\ next_label' = L
      BY <1>2, <1>11, <1>12 DEF Extends
    <2>2. Walk(steps, <<<<u, w>>, a>>, <<y, b>>, g, L)
      BY <1>6, <1>12
    <2> QED  BY <1>1, <1>3, <1>4, <1>12, <2>1, <2>2, ExpandStacks
  <1>13. ASSUME NEW steps, Then(steps), next_label' = next_label,
                Track(steps, a, b, g), Seg(steps, <<u, w>>, <<u, w>>, L)
         PROVE  StackInv'
    <2>1. PICK x : x = <<u, w>>
      OBVIOUS
    <2>2. Walk(steps, <<x, a>>, <<x, b>>, g, L)
      BY <1>13, <2>1, WalkFrom
    <2> QED  BY <1>12, <1>13, <2>1, <2>2
  <1>14. ASSUME NEW name, NEW steps \in Form(Step, next_label, name), Then(steps),
                next_label' = next_label + FormKeys
         PROVE  StackInv'
    <2>1. PICK M \in Nat : M = next_label + FormKeys
      BY <1>4 DEF FormKeys, PatternKeys
    <2>2. next_label <= M /\ next_label' = M
      BY <1>4, <1>14, <2>1 DEF FormKeys, PatternKeys
    <2>3. PICK h \in Use(M) : Extends(h, g) /\ Walk(steps, <<<<u, w>>, a>>, <<<<u, w>>, b>>, h, M)
      BY <1>2, <1>4, <1>5, <1>6, <1>8, <1>9, <1>14, <2>1, FormWalk
    <2>4. Walk(steps, <<<<u, w>>, a>>, <<y, b>>, h, M)
      BY <1>6, <2>3
    <2> QED  BY <1>1, <1>3, <1>4, <1>14, <2>2, <2>3, <2>4, ExpandStacks
  <1>15. CASE LowerExpr
    <2>1. ASSUME NEW steps \in Atoms(Step), Then(steps), next_label' = next_label PROVE StackInv'
      <3>1. Walk(steps, <<<<u, w>>, a>>, <<<<u, w>>, b>>, g, L)
        BY <1>2, <1>5, <1>6, <1>9, <1>11, <2>1, AtomWalk
      <3> QED  BY <1>12, <2>1, <3>1
    <2>2. ASSUME NEW steps \in Diverging(Step), Then(steps), next_label' = next_label PROVE StackInv'
      <3>1. Track(steps, a, b, g)
        <4>1. Track(steps, At(a.stack, a.loops, a.held),
                    At(a.stack \o StackOf(Step.ty), a.loops, a.held), g)
          BY <1>10, <2>2, DivergingTrack
        <4> QED  BY <1>9, <1>10, <4>1
      <3>2. QuietSteps(steps, L)
        BY <2>2, PlainForms
      <3>3. Seg(steps, <<u, w>>, <<u, w>>, L)
        BY <1>5, <1>6, <1>11, <3>2, SegQuiet
      <3> QED  BY <1>13, <2>2, <3>1, <3>3
    <2>3. CASE \E steps \in Atoms(Step) \cup Diverging(Step) : Then(steps) /\ next_label' = next_label
      BY <2>1, <2>2, <2>3
    <2>4. CASE \E name : \E steps \in Form(Step, next_label, name) :
                 Then(steps) /\ next_label' = next_label + FormKeys
      BY <1>14, <2>4
    <2> QED  BY <1>15, <2>3, <2>4 DEF LowerExpr, Choose
  <1>16. CASE LowerElse
    <2>1. ASSUME Then(Body(Step.ty, Step.in, "label")), next_label' = next_label PROVE StackInv'
      <3>1. Step.next = "else"
        BY <1>8, <1>16 DEF Stands, LowerElse, Is
      <3>2. Standing(Step.in, "label", a.stack, a.loops)
        BY <1>10, <3>1 DEF Standing
      <3>3. Track(Body(Step.ty, Step.in, "label"), a, b, g)
        <4>1. Track(Body(Step.ty, Step.in, "label"), At(a.stack, a.loops, a.held),
                    At(a.stack \o StackOf(Step.ty), a.loops, a.held), g)
          BY <1>10, <3>2, BodyTrack
        <4> QED  BY <1>9, <1>10, <4>1
      <3>4. Seg(Body(Step.ty, Step.in, "label"), <<u, w>>, <<u, w>>, L)
        BY <1>5, <1>6, <1>11, BodySeg
      <3> QED  BY <1>13, <2>1, <3>3, <3>4
    <2>2. CASE Then(Body(Step.ty, Step.in, "label")) /\ next_label' = next_label
      BY <2>1, <2>2
    <2>3. CASE \E name : \E steps \in Form(Step, next_label, name) :
                 Then(steps) /\ next_label' = next_label + FormKeys
      BY <1>14, <2>3
    <2> QED  BY <1>16, <2>2, <2>3 DEF LowerElse, Choose
  <1> QED  BY <1>15, <1>16

\* A statement, or the end of a block.
LEMMA StmtStacks ==
    ASSUME {"stacked", "letElse", "wideTest"} \subseteq Avoid, StackInv, LowerStmt
    PROVE  StackInv'
  <1>1. todo # <<>> /\ Step.do = "stmts" /\ Untouched
    BY DEF LowerStmt, Is, Untouched
  <1>2. PICK g \in Use(next_label) : \E u, w, a, Z, param, base, y, b :
           Ahead(g, u, w, a, Z, param, base, y, b)
    BY <1>1, NextWalk
  <1>3. PICK u, w, a, Z, param, base, y, b : Ahead(g, u, w, a, Z, param, base, y, b)
    BY <1>2
  <1>4. next_label \in Nat /\ next_slot \in Nat
    BY DEF StackInv
  <1>5. /\ Here(g, u, w, a, param, base)
        /\ <<u, w>> \in States(next_label) /\ a \in Point /\ b \in Point /\ y \in States(next_label)
        /\ Rel(Step, <<u, w>>, y) /\ Moves(Step, <<u, w>>, a, b, g)
    BY <1>3 DEF Ahead
  <1>6. Ready(u, w) /\ y = <<Front(u), Front(w)>>
    BY <1>1, <1>5 DEF Rel
  <1>7. Shifts(Step, a, b, g)
    BY <1>1, <1>5 DEF Moves
  <1>8. /\ Stands(Step, a) /\ b.held = a.held /\ b.stack = a.stack \o StackOf(Step.ty)
        /\ b.loops = a.loops
    BY <1>1, <1>7 DEF Shifts
  <1>9. b = At(a.stack \o StackOf(Step.ty), a.loops, a.held)
    BY <1>5, <1>8, Points
  <1>10. /\ a.stack \in Seq(Val) /\ a.loops \in Nat /\ a.held \in SUBSET Nat
         /\ a = At(a.stack, a.loops, a.held)
         /\ Standing(Step.in, Step.next, a.stack, a.loops)
    BY <1>5, <1>8, Points DEF Stands, Standing
  <1>11. PICK L \in Nat : L = next_label
    BY <1>4
  <1>12. ASSUME Then(<<E(Step.ty, Step.in, Step.next), Leave, PopScope>>), next_label' = next_label
         PROVE  StackInv'
    <2> DEFINE steps == <<E(Step.ty, Step.in, Step.next), Leave, PopScope>>
    <2>1. Track(steps, a, b, g)
      <3>1. Track(steps, At(a.stack, a.loops, a.held),
                  At(a.stack \o StackOf(Step.ty), a.loops, a.held), g)
        BY <1>10, EndTrack
      <3> HIDE DEF steps
      <3> QED  BY <1>9, <1>10, <3>1
    <2>2. Seg(steps, <<u, w>>, y, L)
      <3>1. Seg(steps, <<u, w>>, <<Front(u), Front(w)>>, L)
        BY <1>5, <1>6, <1>11, EndSeg
      <3> HIDE DEF steps
      <3> QED  BY <1>6, <3>1
    <2>3. Then(steps)
      BY <1>12
    <2> HIDE DEF steps
    <2>4. PICK x : x = <<u, w>>
      OBVIOUS
    <2>5. Walk(steps, <<x, a>>, <<y, b>>, g, L)
      BY <2>1, <2>2, <2>4, WalkFrom
    <2>6. Walk(steps, <<<<u, w>>, a>>, <<y, b>>, g, L)
      BY <2>4, <2>5
    <2>7. g \in Use(L) /\ Extends(g, g) /\ next_label <= L /\ next_label' = L
      BY <1>2, <1>11, <1>12 DEF Extends
    <2> QED  BY <1>1, <1>3, <1>4, <2>3, <2>6, <2>7, ExpandStacks
  <1>13. ASSUME NEW name, NEW stmt \in lower_stmt(Step, next_label, name), Then(Append(stmt, Step)),
                next_label' = next_label + FormKeys
         PROVE  StackInv'
    <2>1. PICK M \in Nat : M = next_label + FormKeys
      BY <1>4 DEF FormKeys, PatternKeys
    <2>2. next_label <= M /\ next_label' = M
      BY <1>4, <1>13, <2>1 DEF FormKeys, PatternKeys
    <2>3. UNION {DOMAIN w[j] : j \in DOMAIN w} \subseteq Visible
      <3>1. w \in Seq(Map(next_label))
        BY <1>4, <1>5, StateParts
      <3>2. IsSeq(w) /\ IsSeq(env) /\ Len(env) = Len(w)
        BY <1>5, <3>1 DEF IsSeq, Here, Checked
      <3>3. \A j \in DOMAIN w : j \in DOMAIN env /\ DOMAIN env[j] = DOMAIN w[j]
        BY <1>5, <3>2, SeqFacts DEF Here, Checked
      <3> QED  BY <3>3 DEF Visible
    <2>4. Stated(stmt, u, w, M)
      BY <1>4, <1>5, <1>6, <2>1, <2>3, StmtSeg
    <2>5. PICK p, q : /\ Seg(stmt, <<u, w>>, <<p, q>>, M)
                      /\ Ready(p, q) /\ Front(p) = Front(u) /\ Front(q) = Front(w)
      BY <2>4 DEF Stated
    <2>6. Rel(Step, <<p, q>>, y)
      BY <1>1, <1>6, <2>5 DEF Rel, Loud
    <2>7. y \in States(M)
      BY <1>4, <1>5, <2>2, StatesGrow
    <2>8. Seg(Append(stmt, Step), <<u, w>>, y, M)
      BY <2>5, <2>6, <2>7, SegAppend
    <2>9. Tracked(stmt, a, a, g, next_label)
      BY <1>2, <1>4, <1>5, <1>8, StmtTrack
    <2>10. PICK h \in Use(M) : Extends(h, g) /\ Track(stmt, a, a, h)
      BY <2>1, <2>9 DEF Tracked
    <2>11. Shifts(Step, a, b, h)
      BY <1>7, <2>10, ShiftsGrow
    <2>12. Track(Append(stmt, Step), a, b, h)
      BY <1>5, <2>10, <2>11, TrackAppend
    <2>13. PICK x : x = <<u, w>>
      OBVIOUS
    <2>14. PICK steps : steps = Append(stmt, Step)
      OBVIOUS
    <2>15. Walk(steps, <<x, a>>, <<y, b>>, h, M)
      BY <2>8, <2>12, <2>13, <2>14, WalkFrom
    <2>16. Walk(steps, <<<<u, w>>, a>>, <<y, b>>, h, M) /\ Then(steps)
      BY <1>13, <2>13, <2>14, <2>15
    <2> QED  BY <1>1, <1>2, <1>3, <1>4, <2>2, <2>10, <2>16, ExpandStacks
  <1>14. CASE Then(<<E(Step.ty, Step.in, Step.next), Leave, PopScope>>) /\ next_label' = next_label
    BY <1>12, <1>14
  <1>15. CASE \E name : \E stmt \in lower_stmt(Step, next_label, name) :
                Then(Append(stmt, Step)) /\ next_label' = next_label + FormKeys
    BY <1>13, <1>15
  <1>16. ASSUME NEW name, NEW steps \in {Append(stmt, Step) :
                                           stmt \in lower_stmt(Step, next_label, name)}, Then(steps)
         PROVE  \E stmt \in lower_stmt(Step, next_label, name) : Then(Append(stmt, Step))
    <2>1. PICK stmt \in lower_stmt(Step, next_label, name) : steps = Append(stmt, Step)
      OBVIOUS
    <2> QED  BY <1>16, <2>1
  <1> QED  BY <1>14, <1>15, <1>16 DEF LowerStmt, Choose

\* The end of the body.
LEMMA FinishStacks ==
    ASSUME StackInv, Finish
    PROVE  StackInv'
  <1>1. todo # <<>> /\ Step.do = "finish" /\ Untouched /\ UNCHANGED next_label
    BY DEF Finish, Is, Untouched
  <1>2. PICK g \in Use(next_label) : \E u, w, a, Z, param, base, y, b :
           Ahead(g, u, w, a, Z, param, base, y, b)
    BY <1>1, NextWalk
  <1>3. PICK u, w, a, Z, param, base, y, b : Ahead(g, u, w, a, Z, param, base, y, b)
    BY <1>2
  <1>4. next_label \in Nat /\ next_slot \in Nat
    BY DEF StackInv
  <1>5. /\ Here(g, u, w, a, param, base)
        /\ <<u, w>> \in States(next_label) /\ a \in Point /\ b \in Point /\ y \in States(next_label)
        /\ Rel(Step, <<u, w>>, y) /\ Moves(Step, <<u, w>>, a, b, g)
        /\ Walk(Tail(todo), <<y, b>>, Z, g, next_label) /\ Closed(Z)
    BY <1>3 DEF Ahead
  <1>6. y = <<u, w>>
    BY <1>1, <1>5 DEF Rel, Loud
  <1>7. Shifts(Step, a, b, g)
    BY <1>1, <1>5 DEF Moves
  <1>8. a.stack = StackOf(g.result) /\ b.loops = a.loops /\ b.held \subseteq a.held
    BY <1>1, <1>7 DEF Shifts
  <1>9. Extends(g, g)
    BY DEF Extends
  <1>10. CASE flow.status = "returned"
    <2>1. Then(<<>>)
      BY <1>10 DEF Finish
    <2>2. Agrees(b, g)
      <3>1. Marked(g) /\ Meets(a, g) /\ Knows(a, g)
        BY <1>5 DEF Here, Agrees
      <3>2. Meets(b, g)
        BY <1>10, <3>1 DEF Meets, IsLive
      <3>3. Knows(b, g)
        BY <1>8, <3>1 DEF Knows
      <3> QED  BY <3>1, <3>2, <3>3 DEF Agrees
    <2>3. Here(g, u, w, b, param, base)
      BY <1>5, <2>2 DEF Here
    <2>4. PICK L \in Nat : L = next_label
      BY <1>4
    <2>5. Here(g, u, w, b, param, base)'
      BY <1>1, <1>2, <1>9, <2>3, <2>4, HereGrow
    <2>6. Walk(<<>>, <<<<u, w>>, b>>, <<<<u, w>>, b>>, g, L)
      BY <1>5, <1>6, <2>4, WalkTyped, WalkEmpty
    <2>7. Walk(Tail(todo), <<<<u, w>>, b>>, Z, g, next_label)
      BY <1>5, <1>6
    <2>8. next_slot' \in Nat /\ next_label <= L /\ next_label' = L /\ g \in Use(L)
      BY <1>1, <1>2, <1>4, <2>4 DEF Untouched
    <2>9. PICK Y : Y = <<<<u, w>>, b>>
      OBVIOUS
    <2>10. Walk(<<>>, <<<<u, w>>, b>>, Y, g, L) /\ Walk(Tail(todo), Y, Z, g, next_label)
      BY <2>6, <2>7, <2>9
    <2> QED  BY <1>2, <1>4, <1>5, <1>9, <2>1, <2>5, <2>8, <2>10, AdvanceStacks
  <1>11. CASE flow.status # "returned"
    <2>1. Then(<<Return(return_ty)>>)
      BY <1>11 DEF Finish
    <2>2. return_ty = g.result
      BY <1>5 DEF Here, Agrees, Knows
    <2>3. Shifts(Return(return_ty), a, b, g)
      <3>1. Return(return_ty).do = "return" /\ Return(return_ty).ty = return_ty
        BY DEF Return
      <3>2. <<>> \in Seq(Val) /\ a.stack = <<>> \o StackOf(return_ty)
        BY <1>8, <2>2, Stacks
      <3> QED  BY <1>8, <3>1, <3>2 DEF Shifts
    <2>4. Rel(Return(return_ty), <<u, w>>, <<u, w>>)
      BY StepRel DEF Return, Loud
    <2>5. PICK L \in Nat : L = next_label
      BY <1>4
    <2>6. PICK X, Y : X = <<<<u, w>>, a>> /\ Y = <<<<u, w>>, b>>
      OBVIOUS
    <2>7. X \in Places(L) /\ Y \in Places(L)
      BY <1>5, <2>5, <2>6 DEF Places
    <2>8. Goes(Return(return_ty), X, Y, g)
      BY <2>3, <2>4, <2>6 DEF Goes, Moves
    <2>9. Walk(<<Return(return_ty)>>, X, Y, g, L)
      BY <2>7, <2>8, WalkOne
    <2>10. Walk(<<Return(return_ty)>>, <<<<u, w>>, a>>, <<y, b>>, g, L)
      BY <1>6, <2>6, <2>9
    <2>11. g \in Use(L) /\ next_label <= L /\ next_label' = L
      BY <1>1, <1>2, <2>5
    <2> QED  BY <1>1, <1>3, <1>4, <1>9, <2>1, <2>10, <2>11, ExpandStacks
  <1> QED  BY <1>10, <1>11

\* A function begins with nothing on the stack, and its steps lead to the value
\* it returns.
LEMMA InitStacks ==
    ASSUME Init
    PROVE  StackInv
  <1>1. PICK v, param : Starts(v, param)
    BY FirstScopes
  <1>2. next_label = 0 /\ next_slot \in Nat
    BY FirstScopes
  <1>3. param.ty \in Val
    BY <1>1 DEF Starts, Binding
  <1> DEFINE g == [kind |-> [k \in Param..(next_label - 1) |-> param.ty],
                   mark |-> [l \in 0..(next_label - 1) |-> <<>>], result |-> return_ty]
  <1>4. g \in Use(next_label)
    <2>1. return_ty \in Ty
      BY DEF Init, Ty, Val
    <2>2. <<>> \in Seq(Val)
      BY Stacks
    <2> QED  BY <1>3, <2>1, <2>2 DEF Use
  <1>5. g.kind[Param] = param.ty /\ g.result = return_ty
    <2>1. Param \in Param..(next_label - 1)
      BY <1>2, ParamKey
    <2> QED  BY <2>1
  <1> HIDE DEF g
  <1> DEFINE a == At(<<>>, 0, {})
             b == At(StackOf(return_ty), 0, {})
             body == Body(return_ty, {}, "exit")
  <1>6. a \in Point /\ b \in Point
    BY Stacks, Points
  <1>7. Track(body, a, b, g)
    BY InnerTrack
  <1>8. Shifts(Do("finish"), b, b, g)
    <2>1. b.stack = StackOf(g.result)
      BY <1>5, Points
    <2> HIDE DEF b
    <2> QED  BY <2>1 DEF Shifts, Do
  <1> HIDE DEF a, b, body
  <1>9. Track(Append(body, Do("finish")), a, b, g)
    BY <1>6, <1>7, <1>8, TrackAppend
  <1>10. todo = Append(body, Do("finish"))
    BY DEF Init, body
  <1>11. PICK y : y = <<v, v>>
    OBVIOUS
  <1>12. Seg(todo, y, y, next_label)
    BY <1>1, <1>2, <1>11 DEF Starts
  <1>13. Track(todo, a, b, g)
    BY <1>9, <1>10
  <1>14. Walk(todo, <<y, a>>, <<y, b>>, g, next_label)
    BY <1>12, <1>13, WalkFrom
  <1>15. a.stack = <<>> /\ a.loops = 0 /\ a.held = {}
    BY Points DEF a
  <1>16. Marked(g)
    BY DEF Init, Marked, EmptyMap
  <1>17. Meets(a, g)
    BY <1>15 DEF Init, Meets
  <1>18. Knows(a, g)
    <2>1. temps = EmptyMap /\ loop_stack = <<>>
      BY DEF Init
    <2>2. IsSeq(<<>>) /\ Len(<<>>) = 0
      BY Tuples
    <2>3. \A i \in 1..0 : FALSE
      OBVIOUS
    <2> QED  BY <1>5, <1>15, <2>1, <2>2, <2>3 DEF Knows, EmptyMap
  <1>19. Here(g, v, v, a, param, <<locals>>)
    BY <1>1, <1>5, <1>16, <1>17, <1>18 DEF Here, Agrees, Starts
  <1>20. PICK base : base = <<locals>>
    OBVIOUS
  <1>21. PICK Z : Z = <<y, b>>
    OBVIOUS
  <1>22. Here(g, v, v, a, param, base) /\ Walk(todo, <<<<v, v>>, a>>, Z, g, next_label)
    BY <1>11, <1>14, <1>19, <1>20, <1>21
  <1>23. Closed(Z)
    BY <1>21, Points DEF Closed, b
  <1> QED  BY <1>2, <1>4, <1>22, <1>23 DEF StackInv

-----------------------------------------------------------------------------
(* The stack at every label                                                *)

\* Every step of the lowering keeps the invariant.
LEMMA StackInvStep ==
    ASSUME {"deadCode", "stacked", "lastArm", "breakValue", "letElse", "unnamedSlot",
            "bodyValue", "wideTest"} \subseteq Avoid,
           StackInv, [Next]_vars
    PROVE  StackInv'
  <1>1. CASE LowerExpr \/ LowerElse
    BY <1>1, ExprStacks
  <1>2. CASE LowerStmt
    BY <1>2, StmtStacks
  <1>3. CASE Instruction
    BY <1>3, InstructionStacks
  <1>4. CASE Finish
    BY <1>4, FinishStacks
  <1>5. CASE UNCHANGED vars
    <2>1. Untouched /\ UNCHANGED <<todo, next_label>>
      BY <1>5 DEF Untouched, vars, loweringVars
    <2>2. PICK L \in Nat : L = next_label
      BY DEF StackInv
    <2>3. PICK g \in Use(L) : \E u, w, a, Z, param, base :
             Here(g, u, w, a, param, base) /\ Walk(todo, <<<<u, w>>, a>>, Z, g, L) /\ Closed(Z)
      BY <2>2 DEF StackInv
    <2>4. PICK u, w, a, Z, param, base :
             Here(g, u, w, a, param, base) /\ Walk(todo, <<<<u, w>>, a>>, Z, g, L) /\ Closed(Z)
      BY <2>3
    <2>5. Extends(g, g)
      BY DEF Extends
    <2>6. Here(g, u, w, a, param, base)'
      BY <2>1, <2>4, <2>5, HereGrow
    <2>7. next_label' = L /\ next_label' \in Nat /\ next_slot' \in Nat
      BY <2>1, <2>2 DEF StackInv, Untouched
    <2>8. Walk(todo', <<<<u, w>>, a>>, Z, g, next_label') /\ g \in Use(next_label')
      BY <2>1, <2>4, <2>7
    <2> QED  BY <2>4, <2>6, <2>7, <2>8 DEF StackInv
  <1> QED  BY <1>1, <1>2, <1>3, <1>4, <1>5 DEF Next, Instruction

\* Whatever the body, with forms, patterns, arms and loops nested to any depth:
\* every way to a label brings the operand stack its frame declares, and every
\* instruction finds its operands (emit_frame and the stacks the lower_* of
\* expr.rs pass to it).  Kept out of the bodies are the eight shapes above; labels
\* at one position, hidden names and nested temps, which cost the frames their
\* locals, cost no operand.
THEOREM StacksCorrect ==
    {"deadCode", "stacked", "lastArm", "breakValue", "letElse", "unnamedSlot", "bodyValue",
     "wideTest"} \subseteq Avoid
        => (Spec => []StacksAgree)
  <1> SUFFICES ASSUME {"deadCode", "stacked", "lastArm", "breakValue", "letElse", "unnamedSlot",
                       "bodyValue", "wideTest"} \subseteq Avoid
               PROVE  Spec => []StacksAgree
    OBVIOUS
  <1>1. Init => StackInv
    BY InitStacks
  <1>2. StackInv /\ [Next]_vars => StackInv'
    BY StackInvStep
  <1>3. StackInv => StacksAgree
    BY StacksFollow
  <1> QED  BY <1>1, <1>2, <1>3, PTL DEF Spec
=============================================================================
