------------------------ MODULE LoweringBlocks_proof ------------------------
(***************************************************************************)
(* Whatever the body, no code follows a jump without a frame, as long as   *)
(* nothing diverges where other code of the lowering comes next.  The      *)
(* invariant: the steps ahead are a path over how the code before each of  *)
(* them may have ended, on which every instruction finds the code live.    *)
(*                                                                         *)
(* Of the shapes in Avoid the proof needs deadCode kept out.               *)
(*                                                                         *)
(* And whatever the body, every jump goes to a label that is placed and    *)
(* every scope that is opened is closed.  The invariant: the steps ahead   *)
(* close what is open now, and go only to labels that are there or that    *)
(* some step ahead places.  No shape has to be kept out for that.          *)
(***************************************************************************)
EXTENDS LoweringForms_proof

-----------------------------------------------------------------------------
(* How the code ahead may end                                              *)

Running == {"live"}
Anything == {"live", "jumped", "returned"}

\* How the code of a form may end, by what comes after the form: before a label
\* and at the end of the body it may diverge.
AfterForm(next) == IF next = "exit" THEN {"live", "returned"}
                   ELSE IF next \in {"label", "else"} THEN Anything ELSE Running

LiveStep == {"op", "load", "loadName", "store", "assign", "branch"}
FormStep == {"expr", "else", "stmts"}

\* A form, and not a break or continue at the end of the body.
IsForm(s) == /\ s = [do |-> s.do, ty |-> s.ty, in |-> s.in, next |-> s.next]
             /\ s.next = "exit" => "loop" \notin s.in
             /\ s.do = "else" => s.next = "else"

\* A step takes code that may have ended in the ways a to code that may have
\* ended in the ways b.
Flows(s, a, b) ==
    /\ s.do \in LiveStep => a \subseteq Running /\ "live" \in b
    /\ s.do \in {"goto", "break", "continue"} => a \subseteq Running /\ "jumped" \in b
    /\ s.do = "return" => a \subseteq Running /\ "returned" \in b
    /\ s.do = "place" => "live" \in b
    /\ s.do = "finish" => a \subseteq {"live", "returned"} /\ "returned" \in b
    /\ s.do \in FormStep => a \subseteq Running /\ AfterForm(s.next) \subseteq b /\ IsForm(s)
    /\ s.do \notin LiveStep \cup FormStep \cup {"goto", "break", "continue", "return", "place", "finish"}
         => a \subseteq b

\* The steps lead from a to b.
Run(steps, a, b) ==
    /\ IsSeq(steps)
    /\ \E f : /\ a \subseteq f[1] /\ f[Len(steps) + 1] \subseteq b
              /\ \A i \in 1..Len(steps) : Flows(steps[i], f[i], f[i + 1])

\* Knowing more before a step, and less after it.
LEMMA FlowsMono ==
    ASSUME NEW s, NEW a, NEW b, NEW c, NEW d, Flows(s, b, c), a \subseteq b, c \subseteq d
    PROVE  Flows(s, a, d)
  BY DEF Flows

\* The same for a path.
LEMMA RunMono ==
    ASSUME NEW s, NEW a, NEW b, NEW c, NEW d, Run(s, b, c), a \subseteq b, c \subseteq d
    PROVE  Run(s, a, d)
  <1>1. PICK f : /\ b \subseteq f[1] /\ f[Len(s) + 1] \subseteq c
                 /\ \A i \in 1..Len(s) : Flows(s[i], f[i], f[i + 1])
    BY DEF Run
  <1>2. a \subseteq f[1] /\ f[Len(s) + 1] \subseteq d
    BY <1>1
  <1> QED  BY <1>1, <1>2 DEF Run

\* No steps.
LEMMA RunEmpty == ASSUME NEW a PROVE Run(<<>>, a, a)
  <1> DEFINE f == [i \in 1..1 |-> a]
  <1>1. IsSeq(<<>>) /\ Len(<<>>) = 0 /\ f[1] = a
    BY Tuples
  <1> HIDE DEF f
  <1> QED  BY <1>1 DEF Run

\* Steps one by one.
LEMMA RunBy ==
    ASSUME NEW steps, IsSeq(steps), NEW f, NEW a, NEW b, NEW n, Len(steps) = n,
           f[1] = a, f[n + 1] = b, \A i \in 1..n : Flows(steps[i], f[i], f[i + 1])
    PROVE  Run(steps, a, b)
  BY DEF Run

\* A single step.
LEMMA RunOne == ASSUME NEW s, NEW a, NEW b, Flows(s, a, b) PROVE Run(<<s>>, a, b)
  <1> DEFINE f == <<a, b>>
  <1>1. IsSeq(<<s>>) /\ Len(<<s>>) = 1 /\ f[1] = a /\ f[1 + 1] = b
    BY Tuples
  <1>2. \A i \in 1..1 : Flows(<<s>>[i], f[i], f[i + 1])
    OBVIOUS
  <1> HIDE DEF f
  <1> QED  BY <1>1, <1>2, RunBy

\* The first step of a path, and the path behind it.
LEMMA RunHead ==
    ASSUME NEW a, NEW z, NEW steps, Run(steps, a, z), steps # <<>>
    PROVE  \E b : Flows(Head(steps), a, b) /\ Run(Tail(steps), b, z)
  <1>1. PICK f : /\ a \subseteq f[1] /\ f[Len(steps) + 1] \subseteq z
                 /\ \A i \in 1..Len(steps) : Flows(steps[i], f[i], f[i + 1])
    BY DEF Run
  <1>2. /\ Len(steps) \in Nat /\ Len(steps) >= 1 /\ IsSeq(Tail(steps))
        /\ Len(Tail(steps)) = Len(steps) - 1 /\ Head(steps) = steps[1]
        /\ \A i \in 1..(Len(steps) - 1) : Tail(steps)[i] = steps[i + 1]
    BY SeqFacts DEF Run
  <1> DEFINE g == [i \in 1..Len(steps) |-> f[i + 1]]
  <1>3. g[1] = f[2] /\ g[Len(Tail(steps)) + 1] \subseteq z
    BY <1>1, <1>2
  <1>4. ASSUME NEW i \in 1..Len(Tail(steps)) PROVE Flows(Tail(steps)[i], g[i], g[i + 1])
    <2>1. Tail(steps)[i] = steps[i + 1] /\ i + 1 \in 1..Len(steps)
          /\ g[i] = f[i + 1] /\ g[i + 1] = f[(i + 1) + 1]
      BY <1>2
    <2> QED  BY <1>1, <2>1
  <1> HIDE DEF g
  <1>5. Run(Tail(steps), f[2], z)
    BY <1>2, <1>3, <1>4 DEF Run
  <1>6. Flows(Head(steps), a, f[2])
    <2>1. Flows(steps[1], f[1], f[2]) /\ Head(steps) = steps[1]
      BY <1>1, <1>2
    <2> QED  BY <1>1, <2>1, FlowsMono
  <1> QED  BY <1>5, <1>6

\* One path after another.
LEMMA RunConcat ==
    ASSUME NEW a, NEW b, NEW c, NEW s, NEW t, Run(s, a, b), Run(t, b, c)
    PROVE  Run(s \o t, a, c)
  <1>1. PICK f : /\ a \subseteq f[1] /\ f[Len(s) + 1] \subseteq b
                 /\ \A i \in 1..Len(s) : Flows(s[i], f[i], f[i + 1])
    BY DEF Run
  <1>2. PICK g : /\ b \subseteq g[1] /\ g[Len(t) + 1] \subseteq c
                 /\ \A i \in 1..Len(t) : Flows(t[i], g[i], g[i + 1])
    BY DEF Run
  <1>3. /\ IsSeq(s) /\ IsSeq(t) /\ Len(s) \in Nat /\ Len(t) \in Nat
        /\ IsSeq(s \o t) /\ Len(s \o t) = Len(s) + Len(t)
        /\ \A i \in 1..Len(s) : (s \o t)[i] = s[i]
        /\ \A i \in (Len(s) + 1)..(Len(s) + Len(t)) : (s \o t)[i] = t[i - Len(s)]
    BY SeqFacts, ConcatFacts DEF Run
  <1> DEFINE m == Len(s)
             n == Len(t)
             h == [i \in 1..(m + n + 1) |-> IF i <= m THEN f[i] ELSE g[i - m]]
  <1>4. a \subseteq h[1]
    <2>1. CASE m = 0
      BY <1>1, <1>2, <1>3, <2>1
    <2>2. CASE m # 0
      <3>1. m \in Nat /\ 1 \in 1..(m + n + 1) /\ 1 <= m
        BY <1>3, <2>2
      <3>2. h[1] = f[1]
        BY <3>1
      <3> HIDE DEF h
      <3> QED  BY <3>2, <1>1
    <2> QED  BY <2>1, <2>2
  <1>5. h[m + n + 1] \subseteq c
    BY <1>2, <1>3
  <1>6. ASSUME NEW i \in 1..(m + n) PROVE Flows((s \o t)[i], h[i], h[i + 1])
    <2>1. CASE i < m
      <3>1. h[i] = f[i] /\ h[i + 1] = f[i + 1] /\ (s \o t)[i] = s[i] /\ i \in 1..m
        BY <1>3, <2>1
      <3> QED  BY <3>1, <1>1
    <2>2. CASE i = m
      <3>1. h[i] = f[i] /\ h[i + 1] = g[1] /\ (s \o t)[i] = s[i] /\ i \in 1..m
        BY <1>3, <2>2
      <3>2. Flows(s[i], f[i], f[i + 1]) /\ f[i + 1] \subseteq g[1]
        BY <3>1, <1>1, <1>2, <2>2
      <3> HIDE DEF h
      <3>3. Flows(s[i], f[i], g[1])
        BY <3>2, FlowsMono
      <3> QED  BY <3>1, <3>3
    <2>3. CASE i > m
      <3>1. h[i] = g[i - m] /\ h[i + 1] = g[(i - m) + 1] /\ (s \o t)[i] = t[i - m] /\ i - m \in 1..n
        BY <1>3, <2>3
      <3> QED  BY <3>1, <1>2
    <2> QED  BY <2>1, <2>2, <2>3, <1>3
  <1> HIDE DEF h
  <1> QED  BY <1>3, <1>4, <1>5, <1>6 DEF Run

\* A step behind a path.
LEMMA RunAppend ==
    ASSUME NEW a, NEW b, NEW c, NEW s, NEW x, Run(s, a, b), Flows(x, b, c)
    PROVE  Run(Append(s, x), a, c)
  <1>1. Run(s \o <<x>>, a, c)
    BY RunOne, RunConcat
  <1>2. Append(s, x) = s \o <<x>>
    <2>1. PICK S : s \in Seq(S)
      BY DEF Run, IsSeq
    <2> QED  BY <2>1
  <1> QED  BY <1>1, <1>2

\* Three paths, one after another, and four of them.
LEMMA RunConcat3 ==
    ASSUME NEW a, NEW b, NEW c, NEW d, NEW s, NEW t, NEW r, Run(s, a, b), Run(t, b, c), Run(r, c, d)
    PROVE  Run(s \o t \o r, a, d)
  <1>1. Run(s \o t, a, c)
    BY RunConcat
  <1> QED  BY <1>1, RunConcat
LEMMA RunConcat4 ==
    ASSUME NEW a, NEW b, NEW c, NEW d, NEW e, NEW s, NEW t, NEW r, NEW q,
           Run(s, a, b), Run(t, b, c), Run(r, c, d), Run(q, d, e)
    PROVE  Run(s \o t \o r \o q, a, e)
  <1>1. Run(s \o t \o r, a, d)
    BY RunConcat3
  <1> QED  BY <1>1, RunConcat

\* Steps that go on in live code.
LEMMA RunSteps ==
    ASSUME NEW steps, IsSeq(steps), \A i \in DOMAIN steps : Flows(steps[i], Running, Running)
    PROVE  Run(steps, Running, Running)
  <1> DEFINE f == [i \in 1..(Len(steps) + 1) |-> Running]
  <1>1. Len(steps) \in Nat /\ DOMAIN steps = 1..Len(steps)
    BY SeqFacts
  <1>2. f[1] = Running /\ f[Len(steps) + 1] = Running
    BY <1>1
  <1>3. \A i \in 1..Len(steps) : Flows(steps[i], f[i], f[i + 1])
    BY <1>1
  <1> HIDE DEF f
  <1> QED  BY <1>2, <1>3 DEF Run

\* What each kind of step does.
LEMMA FlowKinds ==
    /\ \A pop, push : Flows(Op(pop, push), Running, Running)
    /\ \A ty : Flows(Push(ty), Running, Running)
    /\ \A k : Flows(LoadTemp(k), Running, Running)
    /\ \A n : Flows(LoadName(n), Running, Running) /\ Flows(AssignTo(n), Running, Running)
    /\ \A k, n, ty : Flows(StoreNew(k, n, ty), Running, Running)
    /\ \A pop, l : Flows(Branch(pop, l), Running, Running)
    /\ \A l : Flows(Goto(l), Running, Anything)
    /\ Flows(Do("break"), Running, Anything) /\ Flows(Do("continue"), Running, Anything)
    /\ \A ty : Flows(Return(ty), Running, {"live", "returned"})
    /\ \A l, from, stack, a : Flows(Place(l, from, stack), a, Running)
    /\ \A a : /\ Flows(PushScope, a, a) /\ Flows(PopScope, a, a) /\ Flows(PopLoop, a, a)
              /\ Flows(Enter, a, a) /\ Flows(Leave, a, a)
              /\ \A n, k : Flows(Define(n, k), a, a)
              /\ \A k : Flows(Snapshot(k), a, a)
              /\ \A l, m : Flows(PushLoop(l, m), a, a)
    /\ \A ty, in, next : (next = "exit" => "loop" \notin in)
                           => /\ Flows(E(ty, in, next), Running, AfterForm(next))
                              /\ Flows(Stmts(ty, in, next), Running, AfterForm(next))
    /\ \A ty, in : Flows(Else(ty, in), Running, Anything)
  <1> USE DEF Flows, LiveStep, FormStep, Running, Anything
  <1>1. /\ \A pop, push : Flows(Op(pop, push), Running, Running)
        /\ \A ty : Flows(Push(ty), Running, Running)
        /\ \A k : Flows(LoadTemp(k), Running, Running)
        /\ \A n : Flows(LoadName(n), Running, Running) /\ Flows(AssignTo(n), Running, Running)
        /\ \A k, n, ty : Flows(StoreNew(k, n, ty), Running, Running)
        /\ \A pop, l : Flows(Branch(pop, l), Running, Running)
    BY DEF Op, Push, LoadTemp, LoadName, AssignTo, StoreNew, Branch
  <1>2. /\ \A l : Flows(Goto(l), Running, Anything)
        /\ Flows(Do("break"), Running, Anything) /\ Flows(Do("continue"), Running, Anything)
        /\ \A ty : Flows(Return(ty), Running, {"live", "returned"})
        /\ \A l, from, stack, a : Flows(Place(l, from, stack), a, Running)
    BY DEF Goto, Do, Return, Place
  <1>3. \A a : /\ Flows(PushScope, a, a) /\ Flows(PopScope, a, a) /\ Flows(PopLoop, a, a)
               /\ Flows(Enter, a, a) /\ Flows(Leave, a, a)
               /\ \A n, k : Flows(Define(n, k), a, a)
               /\ \A k : Flows(Snapshot(k), a, a)
               /\ \A l, m : Flows(PushLoop(l, m), a, a)
    BY DEF PushScope, PopScope, PopLoop, Enter, Leave, Define, Snapshot, PushLoop, Do
  <1>4. \A ty, in, next : (next = "exit" => "loop" \notin in)
                             => /\ Flows(E(ty, in, next), Running, AfterForm(next))
                                /\ Flows(Stmts(ty, in, next), Running, AfterForm(next))
    BY DEF E, Stmts, IsForm
  <1>5. \A ty, in : Flows(Else(ty, in), Running, Anything)
    BY DEF Else, IsForm, AfterForm
  <1> QED  BY <1>1, <1>2, <1>3, <1>4, <1>5

\* What a form ends in by what comes next.
LEMMA AfterForms ==
    /\ AfterForm("code") = Running /\ AfterForm("end") = Running
    /\ AfterForm("label") = Anything /\ AfterForm("else") = Anything
    /\ AfterForm("exit") = {"live", "returned"}
    /\ \A next : Running \subseteq AfterForm(next) /\ AfterForm(next) \subseteq Anything
  BY DEF AfterForm, Running, Anything

-----------------------------------------------------------------------------
(* The code of patterns                                                    *)

\* Steps that find the code live and leave it so.
SteadySteps(steps) == IsSeq(steps) /\ \A i \in DOMAIN steps : Flows(steps[i], Running, Running)

\* They are a path, and so are two lots of them.
LEMMA SteadyRun == ASSUME NEW s, SteadySteps(s) PROVE Run(s, Running, Running)
  BY RunSteps DEF SteadySteps

LEMMA SteadyConcat ==
    ASSUME NEW s, NEW t, SteadySteps(s), SteadySteps(t)
    PROVE  SteadySteps(s \o t)
  <1>1. IsSeq(s) /\ IsSeq(t) /\ IsSeq(s \o t)
    BY ConcatFacts DEF SteadySteps
  <1>2. ASSUME NEW i \in DOMAIN (s \o t) PROVE Flows((s \o t)[i], Running, Running)
    <2>1. CASE i \in DOMAIN s /\ (s \o t)[i] = s[i]
      BY <2>1 DEF SteadySteps
    <2>2. CASE i - Len(s) \in DOMAIN t /\ (s \o t)[i] = t[i - Len(s)]
      BY <2>2 DEF SteadySteps
    <2> QED  BY <1>1, <2>1, <2>2, ConcatSteps
  <1> QED  BY <1>1, <1>2 DEF SteadySteps

\* The steps that find the code live and leave it so.
LEMMA SteadyKinds ==
    /\ \A pop, push : Flows(Op(pop, push), Running, Running)
    /\ \A ty : Flows(Push(ty), Running, Running)
    /\ \A k : Flows(LoadTemp(k), Running, Running) /\ Flows(Snapshot(k), Running, Running)
    /\ \A n : Flows(LoadName(n), Running, Running) /\ Flows(AssignTo(n), Running, Running)
    /\ \A k, n, ty : Flows(StoreNew(k, n, ty), Running, Running)
    /\ \A k, ty : Flows(StoreTemp(k, ty), Running, Running)
    /\ \A n, k : Flows(Define(n, k), Running, Running)
    /\ \A pop, l : Flows(Branch(pop, l), Running, Running)
    /\ \A l, from, stack : Flows(Place(l, from, stack), Running, Running)
    /\ \A l, m : Flows(PushLoop(l, m), Running, Running)
    /\ Flows(PushScope, Running, Running) /\ Flows(PopScope, Running, Running)
    /\ Flows(PopLoop, Running, Running)
    /\ Flows(Enter, Running, Running) /\ Flows(Leave, Running, Running)
    /\ \A ty, in : Flows(E(ty, in, "code"), Running, Running) /\ Flows(E(ty, in, "end"), Running, Running)
  <1>1. \A ty, in : Flows(E(ty, in, "code"), Running, Running) /\ Flows(E(ty, in, "end"), Running, Running)
    <2>1. AfterForm("code") = Running /\ AfterForm("end") = Running
      BY AfterForms
    <2> QED  BY <2>1, FlowKinds
  <1>2. \A k, ty : Flows(StoreTemp(k, ty), Running, Running)
    BY FlowKinds DEF StoreTemp
  <1> QED  BY <1>1, <1>2, FlowKinds

\* A test of a value without a part, or a name for it.
LEMMA SimpleSteady ==
    ASSUME NEW t \in Val, NEW p \in SimplePatterns(t), NEW k, NEW fail, NEW b
    PROVE  SteadySteps(lower_simple_pattern(p, k, t, fail, b))
  <1>1. /\ p.kind \in {"wildcard", "literal", "path", "range", "binding"}
        /\ p.kind = "range" => t # "Ref"
        /\ p.kind = "path" => t = "Ref"
    BY SimpleKinds DEF Simple
  <1> DEFINE code == lower_simple_pattern(p, k, t, fail, b)
  <1>2. \/ code = <<>>
        \/ code = <<LoadTemp(k), Push(t), Branch(<<"Int", "Int">>, fail)>>
        \/ code = <<LoadTemp(k), Push(t), Op(<<t, t>>, <<"Int">>), Branch(<<"Int">>, fail)>>
        \/ code = <<LoadTemp(k), StoreNew(b, p.name, t)>>
        \/ code = <<LoadTemp(k), Op(<<t>>, <<"Int">>), Branch(<<"Int">>, fail)>>
        \/ code = <<LoadTemp(k), Push(t), Branch(<<"Int", "Int">>, fail),
                    LoadTemp(k), Push(t), Branch(<<"Int", "Int">>, fail)>>
    <2>1. CASE p.kind = "wildcard"
      BY <2>1 DEF lower_simple_pattern
    <2>2. CASE p.kind = "literal" /\ t # "Ref"
      BY <2>2 DEF lower_simple_pattern
    <2>3. CASE p.kind = "literal" /\ t = "Ref"
      BY <2>3 DEF lower_simple_pattern
    <2>4. CASE p.kind = "binding"
      BY <2>4 DEF lower_simple_pattern
    <2>5. CASE p.kind = "path"
      BY <2>5 DEF lower_simple_pattern
    <2>6. CASE p.kind = "range"
      BY <2>6 DEF lower_simple_pattern
    <2> QED  BY <1>1, <2>1, <2>2, <2>3, <2>4, <2>5, <2>6
  <1> HIDE DEF code
  <1>3. SteadySteps(code)
    BY <1>2, Tuples, SteadyKinds DEF SteadySteps
  <1> QED  BY <1>3 DEF code

\* A label whatever the code before it.
LEMMA LabelRun == ASSUME NEW l, NEW from, NEW stack PROVE Run(<<Place(l, from, stack)>>, Anything, Running)
  BY FlowKinds, RunOne

\* A jump and a label, as between the alternatives of a pattern and the arms of
\* a form.
LEMMA JumpRun == ASSUME NEW l, NEW m, NEW from, NEW stack
                 PROVE  Run(<<Goto(l), Place(m, from, stack)>>, Running, Running)
  <1> DEFINE s == <<Goto(l), Place(m, from, stack)>>
             f == <<Running, Anything, Running>>
  <1>1. IsSeq(s) /\ Len(s) = 2
    BY Tuples
  <1>2. f[1] = Running /\ f[2 + 1] = Running
    OBVIOUS
  <1>3. \A i \in 1..2 : Flows(s[i], f[i], f[i + 1])
    <2>1. Flows(Goto(l), Running, Anything) /\ Flows(Place(m, from, stack), Anything, Running)
      BY FlowKinds
    <2> HIDE DEF Running, Anything
    <2> QED  BY <2>1
  <1> HIDE DEF s, f
  <1>4. Run(s, Running, Running)
    BY <1>1, <1>2, <1>3, RunBy
  <1> QED  BY <1>4 DEF s

\* The code that tries a pattern is reached live and is live where it matched.
LEMMA CheckRun ==
    ASSUME NEW t \in Val, NEW p \in Patterns(t), NEW k, NEW fail, NEW b
    PROVE  Run(lower_pattern_check(p, k, t, fail, b), Running, Running)
  <1>1. CASE p \in SimplePatterns(t)
    <2>1. p.kind \notin {"struct", "or", "at"}
      BY <1>1, SimpleKinds DEF Simple
    <2>2. lower_pattern_check(p, k, t, fail, b) = lower_simple_pattern(p, k, t, fail, b)
      BY <2>1 DEF lower_pattern_check
    <2> QED  BY <1>1, <2>2, SimpleSteady, SteadyRun
  <1>2. CASE p.kind = "at" /\ p.sub \in SimplePatterns(t)
    <2>1. lower_pattern_check(p, k, t, fail, b)
            = lower_simple_pattern(p.sub, k, t, fail, b) \o <<LoadTemp(k), StoreNew(b, p.name, t)>>
      BY <1>2 DEF lower_pattern_check
    <2>2. SteadySteps(<<LoadTemp(k), StoreNew(b, p.name, t)>>)
      BY Tuples, SteadyKinds DEF SteadySteps
    <2> QED  BY <1>2, <2>1, <2>2, SimpleSteady, SteadyConcat, SteadyRun
  <1>3. CASE p.kind = "or" /\ p.sub \in SimplePatterns(t)
    <2>1. lower_pattern_check(p, k, t, fail, b)
            = lower_simple_pattern(p.sub, k, t, b + 5, b)
              \o <<Goto(b + 4), Place(b + 5, Live, <<>>)>>
              \o lower_simple_pattern(p.sub, k, t, fail, b)
              \o <<Place(b + 4, Live, <<>>)>>
      BY <1>3 DEF lower_pattern_check, lower_or_pattern
    <2>2. SteadySteps(<<Place(b + 4, Live, <<>>)>>)
      BY Tuples, SteadyKinds DEF SteadySteps
    <2>3. /\ Run(lower_simple_pattern(p.sub, k, t, b + 5, b), Running, Running)
          /\ Run(lower_simple_pattern(p.sub, k, t, fail, b), Running, Running)
          /\ Run(<<Place(b + 4, Live, <<>>)>>, Running, Running)
      BY <1>3, <2>2, SimpleSteady, SteadyRun
    <2> QED  BY <2>1, <2>3, JumpRun, RunConcat4
  <1>4. CASE p.kind = "struct" /\ p.sub \in SimplePatterns("Int")
    <2> DEFINE s == <<LoadTemp(k), Op(<<"Ref">>, <<"Int">>), Branch(<<"Int">>, fail),
                      LoadTemp(k), StoreTemp(b + 1, "Ref"),
                      LoadTemp(b + 1), Op(<<"Ref">>, <<"Long">>), StoreTemp(b + 2, "Long"),
                      LoadTemp(b + 1), Op(<<"Ref">>, <<"Int">>), StoreTemp(b + 3, "Int")>>
               r == <<LoadTemp(b + 2), StoreNew(b, p.name, "Long")>>
    <2>1. lower_pattern_check(p, k, t, fail, b)
            = s \o lower_simple_pattern(p.sub, b + 3, "Int", fail, b) \o r
      BY <1>4 DEF lower_pattern_check, lower_struct_pattern
    <2>2. SteadySteps(s) /\ SteadySteps(r)
      BY Tuples, SteadyKinds DEF SteadySteps
    <2> HIDE DEF s, r
    <2>3. SteadySteps(lower_simple_pattern(p.sub, b + 3, "Int", fail, b))
      BY <1>4, SimpleSteady DEF Val
    <2> QED  BY <2>1, <2>2, <2>3, SteadyRun, RunConcat3
  <1> QED  BY <1>1, <1>2, <1>3, <1>4, PatternKinds

\* Publishing what a pattern binds emits nothing.
LEMMA BindRun == ASSUME NEW p, NEW b PROVE Run(bind_pattern(p, b), Running, Running)
  <1>1. bind_pattern(p, b) = <<>> \/ bind_pattern(p, b) = <<Define(p.name, b)>>
    BY DEF bind_pattern
  <1>2. SteadySteps(<<Define(p.name, b)>>)
    BY Tuples, SteadyKinds DEF SteadySteps
  <1> QED  BY <1>1, <1>2, RunEmpty, SteadyRun

-----------------------------------------------------------------------------
(* The code of forms                                                       *)

\* A block ends as what it stands before allows.
LEMMA BodyRun ==
    ASSUME NEW ty, NEW in, NEW next, next = "exit" => "loop" \notin in
    PROVE  Run(Body(ty, in, next), Running, AfterForm(next))
  <1> DEFINE s == <<PushScope, Enter, Stmts(ty, in, next)>>
             f == <<Running, Running, Running, AfterForm(next)>>
  <1>1. IsSeq(s) /\ Len(s) = 3
    BY Tuples
  <1>2. f[1] = Running /\ f[3 + 1] = AfterForm(next)
    OBVIOUS
  <1>3. \A i \in 1..3 : Flows(s[i], f[i], f[i + 1])
    <2>1. /\ Flows(PushScope, Running, Running) /\ Flows(Enter, Running, Running)
          /\ Flows(Stmts(ty, in, next), Running, AfterForm(next))
      BY FlowKinds
    <2> HIDE DEF Running, Anything, AfterForm
    <2> QED  BY <2>1
  <1> HIDE DEF s, f
  <1>4. Run(s, Running, AfterForm(next))
    BY <1>1, <1>2, <1>3, RunBy
  <1> QED  BY <1>4 DEF s, Body

\* A block before a label, and one whose value goes to a label by a jump.
LEMMA InnerRun ==
    ASSUME NEW ty, NEW in
    PROVE  /\ Run(Body(ty, in, "label"), Running, Anything)
           /\ Run(Body(ty, in, "end"), Running, Running)
  <1>1. AfterForm("label") = Anything /\ AfterForm("end") = Running
    BY AfterForms
  <1> QED  BY <1>1, BodyRun

\* What may stand at the end of other code: forms without a jump of their own.
LEMMA PlainRun ==
    ASSUME NEW e, NEW L, NEW steps,
           steps \in Atoms(e) \cup lower_call(e) \cup lower_assign(e)
    PROVE  Run(steps, Running, Running)
  <1>1. CASE steps \in Atoms(e)
    <2>1. \/ \E n : steps = <<LoadName(n)>>
          \/ steps = <<Push(e.ty)>>
          \/ steps = <<>>
      BY <1>1 DEF Atoms
    <2>2. SteadySteps(steps)
      BY <2>1, Tuples, SteadyKinds DEF SteadySteps
    <2> QED  BY <2>2, SteadyRun
  <1>2. CASE steps \in lower_call(e)
    <2>1. \E x, y, z : steps = <<x, y, z>> /\ \A s \in {x, y, z} : Flows(s, Running, Running)
      <3>1. CASE \E t1, t2 \in Val :
                   steps = <<E(t1, e.in, "code"), E(t2, e.in \cup {"operand"}, "code"),
                             Op(<<t1, t2>>, StackOf(e.ty))>>
        BY <3>1, SteadyKinds
      <3>2. CASE \E t \in Val : \E x \in {Op(<<>>, <<"Ref", "Ref">>), Push("Ref")} :
                   steps = <<x, E(t, e.in \cup {"operand"}, "code"), Op(<<"Ref", t>>, <<>>)>>
        BY <3>2, SteadyKinds
      <3> QED  BY <1>2, <3>1, <3>2, CallForms
    <2>2. SteadySteps(steps)
      BY <2>1, Tuples DEF SteadySteps
    <2> QED  BY <2>2, SteadyRun
  <1>3. CASE steps \in lower_assign(e)
    <2>1. \E n : steps = <<E(Lookup(n).ty, e.in, "code"), AssignTo(n)>>
      BY <1>3 DEF lower_assign
    <2>2. SteadySteps(steps)
      BY <2>1, Tuples, SteadyKinds DEF SteadySteps
    <2> QED  BY <2>2, SteadyRun
  <1> QED  BY <1>1, <1>2, <1>3

\* A value that diverges does so where it may.
LEMMA DivergingRun ==
    ASSUME "deadCode" \in Avoid, NEW e, IsForm(e), NEW steps \in Diverging(e)
    PROVE  Run(steps, Running, AfterForm(e.next))
  <1>1. e.next \in {"label", "exit"}
    BY DEF Diverging, MayDiverge, Avoids
  <1>2. {"live", "returned"} \subseteq AfterForm(e.next)
    BY <1>1 DEF AfterForm, Anything
  <1>3. "loop" \in e.in => AfterForm(e.next) = Anything
    BY <1>1, AfterForms DEF IsForm
  <1> DEFINE last == {<<Do("break")>>, <<Do("continue")>>}
             Value(t) == <<E(t, e.in, "code"), Do("break")>>
  <1>4. \/ \E t : steps = <<Return(t)>> \/ steps = <<E(t, e.in, "code"), Return(t)>>
        \/ /\ "loop" \in e.in
           /\ steps \in last \/ \E t : steps = Value(t)
    BY DEF Diverging
  <1>5. ASSUME NEW x, NEW b, Flows(x, Running, b)
        PROVE  Run(<<x>>, Running, b) /\ \A t : Run(<<E(t, e.in, "code"), x>>, Running, b)
    <2>1. Run(<<x>>, Running, b)
      BY <1>5, RunOne
    <2>2. ASSUME NEW t PROVE Run(<<E(t, e.in, "code"), x>>, Running, b)
      <3>1. SteadySteps(<<E(t, e.in, "code")>>)
        BY Tuples, SteadyKinds DEF SteadySteps
      <3>2. <<E(t, e.in, "code")>> \o <<x>> = <<E(t, e.in, "code"), x>>
        BY PairConcat
      <3> QED  BY <2>1, <3>1, <3>2, SteadyRun, RunConcat
    <2> QED  BY <2>1, <2>2
  <1>6. CASE \E t : steps = <<Return(t)>> \/ steps = <<E(t, e.in, "code"), Return(t)>>
    <2>1. \A t : Flows(Return(t), Running, {"live", "returned"})
      BY FlowKinds
    <2>2. Run(steps, Running, {"live", "returned"})
      BY <1>5, <1>6, <2>1
    <2> QED  BY <1>2, <2>2, RunMono
  <1>7. CASE "loop" \in e.in /\ (steps \in last \/ \E t : steps = Value(t))
    <2>1. Flows(Do("break"), Running, Anything) /\ Flows(Do("continue"), Running, Anything)
      BY FlowKinds
    <2>2. Run(steps, Running, Anything)
      BY <1>5, <1>7, <2>1
    <2> QED  BY <1>3, <1>7, <2>2
  <1> QED  BY <1>4, <1>6, <1>7

\* Comparisons, short circuits and `?` jump over one instruction.
LEMMA JumpingRun ==
    ASSUME NEW e, NEW L, NEW steps,
           steps \in lower_comparison(e, L) \cup lower_short_circuit(e, L) \cup lower_try(e, L)
    PROVE  Run(steps, Running, Running)
  <1> DEFINE jump == <<Goto(L + 1), Place(L, Live, <<>>)>>
             end == <<Push("Int"), Place(L + 1, Live, <<"Int">>)>>
  <1>1. Run(jump, Running, Running) /\ SteadySteps(end)
    BY JumpRun, Tuples, SteadyKinds DEF SteadySteps
  <1>2. CASE steps \in lower_comparison(e, L)
    <2> DEFINE s(t) == <<E(t, e.in, "code"), E(t, e.in \cup {"operand"}, "code")>>
               r(t) == IF t = "Long" THEN <<Op(<<t, t>>, <<"Int">>), Branch(<<"Int">>, L)>>
                                     ELSE <<Branch(<<t, t>>, L)>>
               z == <<Push("Int"), Goto(L + 1), Place(L, Live, <<>>),
                      Push("Int"), Place(L + 1, Live, <<"Int">>)>>
               f == <<Running, Running, Anything, Running, Running, Running>>
    <2>1. \E t : steps = s(t) \o r(t) \o z
      BY <1>2 DEF lower_comparison
    <2>2. \A t : SteadySteps(s(t)) /\ SteadySteps(r(t))
      BY Tuples, SteadyKinds DEF SteadySteps
    <2>3. IsSeq(z) /\ Len(z) = 5 /\ f[1] = Running /\ f[5 + 1] = Running
      BY Tuples
    <2>4. \A i \in 1..5 : Flows(z[i], f[i], f[i + 1])
      <3>1. /\ Flows(Push("Int"), Running, Running) /\ Flows(Goto(L + 1), Running, Anything)
            /\ Flows(Place(L, Live, <<>>), Anything, Running)
            /\ Flows(Place(L + 1, Live, <<"Int">>), Running, Running)
        BY FlowKinds
      <3> HIDE DEF Running, Anything
      <3> QED  BY <3>1
    <2> HIDE DEF s, r, z, f
    <2>5. Run(z, Running, Running)
      BY <2>3, <2>4, RunBy
    <2> QED  BY <2>1, <2>2, <2>5, SteadyRun, RunConcat3
  <1>3. CASE steps \in lower_short_circuit(e, L)
    <2> DEFINE s == <<E("Int", e.in, "code"), Branch(<<"Int">>, L),
                      E("Int", e.in \cup {"cond"}, "code"), Goto(L + 1),
                      Place(L, Live, <<>>), Push("Int"), Place(L + 1, Live, <<"Int">>)>>
               f == <<Running, Running, Running, Running, Anything, Running, Running, Running>>
    <2>1. steps = s
      BY <1>3 DEF lower_short_circuit
    <2>2. IsSeq(s) /\ Len(s) = 7 /\ f[1] = Running /\ f[7 + 1] = Running
      BY Tuples
    <2>3. \A i \in 1..7 : Flows(s[i], f[i], f[i + 1])
      <3>1. /\ \A in : Flows(E("Int", in, "code"), Running, Running)
            /\ Flows(Branch(<<"Int">>, L), Running, Running)
            /\ Flows(Push("Int"), Running, Running) /\ Flows(Goto(L + 1), Running, Anything)
            /\ Flows(Place(L, Live, <<>>), Anything, Running)
            /\ Flows(Place(L + 1, Live, <<"Int">>), Running, Running)
        BY FlowKinds, SteadyKinds
      <3> HIDE DEF Running, Anything
      <3> QED  BY <3>1
    <2> HIDE DEF s, f
    <2> QED  BY <2>1, <2>2, <2>3, RunBy
  <1>4. CASE steps \in lower_try(e, L)
    <2> DEFINE s == <<E("Ref", e.in, "code"), Op(<<"Ref">>, <<"Ref", "Ref">>),
                      Op(<<"Ref">>, <<"Int">>), Branch(<<"Int">>, L), Return("Ref"),
                      Place(L, Live, <<"Ref">>), Op(<<"Ref">>, <<e.ty>>)>>
               f == <<Running, Running, Running, Running, Running, {"live", "returned"},
                      Running, Running>>
    <2>1. steps = s
      BY <1>4 DEF lower_try
    <2>2. IsSeq(s) /\ Len(s) = 7 /\ f[1] = Running /\ f[7 + 1] = Running
      BY Tuples
    <2>3. \A i \in 1..7 : Flows(s[i], f[i], f[i + 1])
      <3>1. /\ Flows(E("Ref", e.in, "code"), Running, Running)
            /\ Flows(Branch(<<"Int">>, L), Running, Running)
            /\ \A pop, push : Flows(Op(pop, push), Running, Running)
            /\ Flows(Return("Ref"), Running, {"live", "returned"})
            /\ Flows(Place(L, Live, <<"Ref">>), {"live", "returned"}, Running)
        BY FlowKinds, SteadyKinds
      <3> HIDE DEF Running
      <3> QED  BY <3>1
    <2> HIDE DEF s, f
    <2> QED  BY <2>1, <2>2, <2>3, RunBy
  <1> QED  BY <1>2, <1>3, <1>4

\* if, with or without an else.
LEMMA IfRun ==
    ASSUME NEW e, NEW L, NEW steps \in lower_if(e, L)
    PROVE  Run(steps, Running, Running)
  <1> DEFINE cond == E("Int", e.in \cup {"cond"}, "code")
             test == Branch(<<"Int">>, L)
             else == Else(e.ty, e.in)
             first == Place(L, L, <<>>)
             last == Place(L + 1, L, StackOf(e.ty))
             head == <<Snapshot(L), cond, test, PushScope>>
             one == <<PopScope, first>>
             two == <<PopScope, Goto(L + 1), first, PushScope, else, PopScope, last>>
  <1>1. \/ \E t : steps = head \o Body(t, e.in, "label") \o one
        \/ steps = head \o Body(e.ty, e.in, "end") \o two
    BY IfForms
  <1>2. SteadySteps(head)
    BY Tuples, SteadyKinds DEF SteadySteps
  <1>3. Run(one, Anything, Running)
    <2> DEFINE f == <<Anything, Anything, Running>>
    <2>1. IsSeq(one) /\ Len(one) = 2 /\ f[1] = Anything /\ f[2 + 1] = Running
      BY Tuples
    <2>2. \A i \in 1..2 : Flows(one[i], f[i], f[i + 1])
      <3>1. Flows(PopScope, Anything, Anything) /\ Flows(first, Anything, Running)
        BY FlowKinds
      <3> HIDE DEF Running, Anything, first
      <3> QED  BY <3>1
    <2> HIDE DEF one, f
    <2> QED  BY <2>1, <2>2, RunBy
  <1>4. Run(two, Running, Running)
    <2> DEFINE f == <<Running, Running, Anything, Running, Running, Anything, Anything, Running>>
    <2>1. IsSeq(two) /\ Len(two) = 7 /\ f[1] = Running /\ f[7 + 1] = Running
      BY Tuples
    <2>2. \A i \in 1..7 : Flows(two[i], f[i], f[i + 1])
      <3>1. /\ Flows(PopScope, Anything, Anything) /\ Flows(first, Anything, Running)
            /\ Flows(PopScope, Running, Running) /\ Flows(PushScope, Running, Running)
            /\ Flows(Goto(L + 1), Running, Anything) /\ Flows(else, Running, Anything)
            /\ Flows(last, Anything, Running)
        BY FlowKinds
      <3> HIDE DEF Running, Anything, first, else, last
      <3> QED  BY <3>1
    <2> HIDE DEF two, f
    <2> QED  BY <2>1, <2>2, RunBy
  <1> HIDE DEF head, one, two
  <1>5. \A t : Run(head \o Body(t, e.in, "label") \o one, Running, Running)
    BY <1>2, <1>3, InnerRun, SteadyRun, RunConcat3
  <1>6. Run(head \o Body(e.ty, e.in, "end") \o two, Running, Running)
    BY <1>2, <1>4, InnerRun, SteadyRun, RunConcat3
  <1> QED  BY <1>1, <1>5, <1>6

\* The value of an arm or a block, and the end of its scopes.
LEMMA EndRun ==
    ASSUME NEW ty, NEW in, NEW next, next = "exit" => "loop" \notin in
    PROVE  Run(<<E(ty, in, next), Leave, PopScope>>, Running, AfterForm(next))
  <1> DEFINE value == E(ty, in, next)
             s == <<value, Leave, PopScope>>
             a == AfterForm(next)
             f == <<Running, a, a, a>>
  <1>1. IsSeq(s) /\ Len(s) = 3 /\ f[1] = Running /\ f[3 + 1] = a
    BY Tuples
  <1>2. \A i \in 1..3 : Flows(s[i], f[i], f[i + 1])
    <2>1. Flows(value, Running, a) /\ Flows(Leave, a, a) /\ Flows(PopScope, a, a)
      BY FlowKinds
    <2> HIDE DEF Running, a, value
    <2> QED  BY <2>1
  <1> HIDE DEF s, f
  <1>3. Run(s, Running, a)
    BY <1>1, <1>2, RunBy
  <1> QED  BY <1>3 DEF s, a, value

\* An arm of a match ends as what it stands before allows.
LEMMA ArmRun ==
    ASSUME NEW t \in Val, NEW p \in Patterns(t), NEW guarded, NEW k, NEW next_arm, NEW b,
           NEW e, e.next # "exit"
    PROVE  Run(lower_arm(p, guarded, k, t, next_arm, b, e), Running, AfterForm(e.next))
  <1> DEFINE open == <<PushScope, Enter>>
             check == lower_pattern_check(p, k, t, next_arm, b)
             guard == IF guarded THEN <<E("Int", e.in, "code"), Branch(<<"Int">>, next_arm)>>
                                 ELSE <<>>
             end == <<E(e.ty, e.in, e.next), Leave, PopScope>>
  <1>1. lower_arm(p, guarded, k, t, next_arm, b, e)
          = open \o check \o bind_pattern(p, b) \o guard \o end
    BY DEF lower_arm
  <1>2. SteadySteps(open) /\ SteadySteps(guard)
    BY Tuples, SteadyKinds DEF SteadySteps
  <1>3. Run(check, Running, Running) /\ Run(bind_pattern(p, b), Running, Running)
        /\ Run(end, Running, AfterForm(e.next))
    BY CheckRun, BindRun, EndRun
  <1> HIDE DEF open, check, guard, end
  <1>4. Run(open \o check \o bind_pattern(p, b), Running, Running)
    BY <1>2, <1>3, SteadyRun, RunConcat3
  <1> QED  BY <1>1, <1>2, <1>3, <1>4, SteadyRun, RunConcat3

\* match: its first arm goes to the end label by a jump, its last one is there.
LEMMA MatchRun ==
    ASSUME NEW e, IsForm(e), NEW L, NEW steps \in lower_match(e, L)
    PROVE  Run(steps, Running, Running)
  <1> DEFINE end == L + 1
             next_arm == L + 2
             first == [e EXCEPT !.next = "end"]
             last == [e EXCEPT !.next = "label"]
             FirstArms(t) == UNION {{p} \X Guards(p) : p \in {x \in Patterns(t) : MayMatch(x)}}
             LastArms(t) == IF Avoids("lastArm") /\ e.ty \in Val
                              THEN {q \in SimplePatterns(t) : Irrefutable(q)} \X {FALSE}
                              ELSE UNION {{q} \X Guards(q) : q \in SimplePatterns(t)}
             Start(t) == <<E(t, e.in, "code"), StoreNew(L, "__match_scrutinee", t), Snapshot(L)>>
             First(t, a) == lower_arm(a[1], a[2], L, t, next_arm, L + 3, first)
             middle == <<Goto(end), Place(next_arm, L, <<>>)>>
             Second(t, q) == lower_arm(q[1], q[2], L, t, end, L + 3 + PatternKeys, last)
             tail == <<Place(end, L, StackOf(e.ty))>>
             Code(t, a, q) == Start(t) \o First(t, a) \o middle \o Second(t, q) \o tail
             All(t) == {Code(t, a, q) : a \in FirstArms(t), q \in LastArms(t)}
  <1>1. PICK t \in Val : steps \in All(t)
    <2>1. lower_match(e, L)
            = IF ~ (MayPlace(e) /\ MayHold("__match_scrutinee") /\ MayLeak(e)) THEN {}
              ELSE UNION {All(t) : t \in Val}
      BY DEF lower_match
    <2> HIDE DEF All
    <2> QED  BY <2>1
  <1>2. PICK a \in FirstArms(t), q \in LastArms(t) : steps = Code(t, a, q)
    <2> HIDE DEF FirstArms, LastArms, Code
    <2> QED  BY <1>1
  <1>3. a[1] \in Patterns(t)
    OBVIOUS
  <1>4. q[1] \in Patterns(t)
    <2>1. CASE Avoids("lastArm") /\ e.ty \in Val
      <3>1. q \in {x \in SimplePatterns(t) : Irrefutable(x)} \X {FALSE}
        BY <2>1
      <3> QED  BY <3>1 DEF Patterns
    <2>2. CASE ~ (Avoids("lastArm") /\ e.ty \in Val)
      <3>1. q \in UNION {{x} \X Guards(x) : x \in SimplePatterns(t)}
        BY <2>2
      <3> QED  BY <3>1 DEF Patterns
    <2> QED  BY <2>1, <2>2
  <1>5. first.next = "end" /\ last.next = "label"
    BY DEF IsForm
  <1>6. AfterForm("label") = Anything /\ AfterForm("end") = Running
    BY AfterForms
  <1>7. SteadySteps(Start(t)) /\ Run(middle, Running, Running)
    BY JumpRun, Tuples, SteadyKinds DEF SteadySteps
  <1>8. Run(First(t, a), Running, Running)
    <2> HIDE DEF first
    <2> QED  BY <1>3, <1>5, <1>6, ArmRun
  <1>9. Run(Second(t, q), Running, Anything)
    <2> HIDE DEF last
    <2> QED  BY <1>4, <1>5, <1>6, ArmRun
  <1>10. Run(tail, Anything, Running)
    BY LabelRun
  <1> HIDE DEF Start, First, middle, Second, tail, FirstArms, LastArms
  <1>11. Run(Start(t) \o First(t, a) \o middle, Running, Running)
    BY <1>7, <1>8, SteadyRun, RunConcat3
  <1>12. Run(Start(t) \o First(t, a) \o middle \o Second(t, q) \o tail, Running, Running)
    BY <1>9, <1>10, <1>11, RunConcat3
  <1> QED  BY <1>2, <1>12

\* if let, with or without an else.
LEMMA IfLetRun ==
    ASSUME NEW e, NEW L, NEW steps \in lower_if_let(e, L)
    PROVE  Run(steps, Running, Running)
  <1> DEFINE Scrutinised(t) ==
               <<E(t, e.in, "code"), StoreNew(L, "__if_let_scrutinee", t), Snapshot(L),
                 PushScope, Enter>>
             check(p, t) == lower_pattern_check(p, L, t, L + 1, L + 3)
             body == Body(e.ty, e.in, "end")
             close == <<Leave, PopScope, Goto(L + 2), Place(L + 1, L, <<>>)>>
             Matches(p, t) == check(p, t) \o bind_pattern(p, L + 3) \o body \o close
             last == <<Place(L + 2, L, StackOf(e.ty))>>
             Otherwise == {<<Else(e.ty, e.in)>>} \cup (IF e.ty = "Unit" THEN {<<>>} ELSE {})
             All(t) == {Scrutinised(t) \o Matches(p, t) \o s \o last :
                          s \in Otherwise, p \in {x \in Patterns(t) : MayMatch(x)}}
  <1>1. PICK t \in Val : steps \in All(t)
    <2>1. lower_if_let(e, L)
            = IF \/ ~ (MayPlace(e) /\ MayHold("__if_let_scrutinee") /\ MayLeak(e))
                 \/ Avoids("sharedLabel") /\ e.next = "else"
                THEN {} ELSE UNION {All(t) : t \in Val}
      BY DEF lower_if_let
    <2> HIDE DEF All
    <2> QED  BY <2>1
  <1>2. PICK p \in Patterns(t), s \in Otherwise : steps = Scrutinised(t) \o Matches(p, t) \o s \o last
    <2> HIDE DEF Scrutinised, Matches, last, Otherwise
    <2> QED  BY <1>1
  <1>3. SteadySteps(Scrutinised(t))
    BY Tuples, SteadyKinds DEF SteadySteps
  <1>4. Run(Matches(p, t), Running, Running)
    <2>1. Run(check(p, t), Running, Running) /\ Run(bind_pattern(p, L + 3), Running, Running)
          /\ Run(body, Running, Running)
      BY CheckRun, BindRun, InnerRun
    <2>2. Run(close, Running, Running)
      <3> DEFINE f == <<Running, Running, Running, Anything, Running>>
                 first == Place(L + 1, L, <<>>)
      <3>1. IsSeq(close) /\ Len(close) = 4 /\ f[1] = Running /\ f[4 + 1] = Running
        BY Tuples
      <3>2. \A i \in 1..4 : Flows(close[i], f[i], f[i + 1])
        <4>1. /\ Flows(Leave, Running, Running) /\ Flows(PopScope, Running, Running)
              /\ Flows(Goto(L + 2), Running, Anything) /\ Flows(first, Anything, Running)
          BY FlowKinds
        <4> HIDE DEF Running, Anything
        <4> QED  BY <4>1
      <3> HIDE DEF close, f
      <3> QED  BY <3>1, <3>2, RunBy
    <2> HIDE DEF check, body, close
    <2> QED  BY <2>1, <2>2, RunConcat4
  <1>5. Run(s, Running, Anything)
    <2>1. CASE s = <<>>
      <3>1. Run(<<>>, Running, Running) /\ Running \subseteq Running /\ Running \subseteq Anything
        BY RunEmpty DEF Running, Anything
      <3>2. Run(<<>>, Running, Anything)
        BY <3>1, RunMono
      <3> QED  BY <2>1, <3>2
    <2>2. CASE s = <<Else(e.ty, e.in)>>
      BY <2>2, FlowKinds, RunOne
    <2>3. s = <<>> \/ s = <<Else(e.ty, e.in)>>
      OBVIOUS
    <2> QED  BY <2>1, <2>2, <2>3
  <1>6. Run(last, Anything, Running)
    BY LabelRun
  <1> HIDE DEF Scrutinised, Matches, last, Otherwise
  <1> QED  BY <1>2, <1>3, <1>4, <1>5, <1>6, SteadyRun, RunConcat4

\* The end of a loop's body: a jump back, and the label behind the loop.
LEMMA BackRun ==
    ASSUME NEW x, NEW y, NEW z, NEW l, NEW m, NEW from,
           \A a : Flows(x, a, a) /\ Flows(y, a, a) /\ Flows(z, a, a)
    PROVE  /\ Run(<<x, y, Goto(l), Place(m, from, <<>>)>>, Running, Running)
           /\ Run(<<x, y, z, Goto(l), Place(m, from, <<>>)>>, Running, Running)
           /\ Run(<<x, y, Goto(l), Place(m, from, <<>>), z>>, Running, Running)
  <1> DEFINE jump == Goto(l)
             last == Place(m, from, <<>>)
  <1>1. /\ Flows(x, Running, Running) /\ Flows(y, Running, Running) /\ Flows(z, Running, Running)
        /\ Flows(jump, Running, Anything) /\ Flows(last, Anything, Running)
    BY FlowKinds
  <1> HIDE DEF jump, last
  <1>2. Run(<<x, y, jump, last>>, Running, Running)
    <2> DEFINE s == <<x, y, jump, last>>
               f == <<Running, Running, Running, Anything, Running>>
    <2>1. IsSeq(s) /\ Len(s) = 4 /\ f[1] = Running /\ f[4 + 1] = Running
      BY Tuples
    <2>2. \A i \in 1..4 : Flows(s[i], f[i], f[i + 1])
      <3> HIDE DEF Running, Anything
      <3> QED  BY <1>1
    <2> HIDE DEF s, f
    <2>3. Run(s, Running, Running)
      BY <2>1, <2>2, RunBy
    <2> QED  BY <2>3 DEF s
  <1>3. Run(<<x, y, z, jump, last>>, Running, Running)
    <2> DEFINE s == <<x, y, z, jump, last>>
               f == <<Running, Running, Running, Running, Anything, Running>>
    <2>1. IsSeq(s) /\ Len(s) = 5 /\ f[1] = Running /\ f[5 + 1] = Running
      BY Tuples
    <2>2. \A i \in 1..5 : Flows(s[i], f[i], f[i + 1])
      <3> HIDE DEF Running, Anything
      <3> QED  BY <1>1
    <2> HIDE DEF s, f
    <2>3. Run(s, Running, Running)
      BY <2>1, <2>2, RunBy
    <2> QED  BY <2>3 DEF s
  <1>4. Run(<<x, y, jump, last, z>>, Running, Running)
    <2> DEFINE s == <<x, y, jump, last, z>>
               f == <<Running, Running, Running, Anything, Running, Running>>
    <2>1. IsSeq(s) /\ Len(s) = 5 /\ f[1] = Running /\ f[5 + 1] = Running
      BY Tuples
    <2>2. \A i \in 1..5 : Flows(s[i], f[i], f[i + 1])
      <3> HIDE DEF Running, Anything
      <3> QED  BY <1>1
    <2> HIDE DEF s, f
    <2>3. Run(s, Running, Running)
      BY <2>1, <2>2, RunBy
    <2> QED  BY <2>3 DEF s
  <1> QED  BY <1>2, <1>3, <1>4 DEF jump, last

\* while and loop.
LEMMA WhileRun ==
    ASSUME NEW e, NEW L, NEW steps \in lower_while(e, L)
    PROVE  Run(steps, Running, Running)
  <1> DEFINE in == e.in \cup {"loop"}
             top == <<Place(L, Live, <<>>)>>
             test == <<E("Int", e.in \cup {"cond"}, "code"), Branch(<<"Int">>, L + 1)>>
             open == <<PushLoop(L + 1, L), PushScope>>
             Inner(t) == Body(t, in, "end")
             close == <<PopScope, PopLoop, Goto(L), Place(L + 1, Live, <<>>)>>
             Loop(cond, t) == top \o cond \o open \o Inner(t) \o close
  <1>1. PICK t \in AnyBody : steps = Loop(test, t) \/ steps = Loop(<<>>, t)
    BY WhileForms
  <1>2. SteadySteps(top) /\ SteadySteps(test) /\ SteadySteps(open) /\ SteadySteps(<<>>)
    BY Tuples, SteadyKinds DEF SteadySteps
  <1>3. Run(Inner(t), Running, Running)
    BY InnerRun
  <1>4. Run(close, Running, Running)
    <2>1. \A a : Flows(PopScope, a, a) /\ Flows(PopLoop, a, a)
      BY FlowKinds
    <2> QED  BY <2>1, BackRun
  <1> HIDE DEF top, test, open, Inner, close
  <1>5. \A cond : SteadySteps(cond) => Run(top \o cond \o open \o Inner(t), Running, Running)
    BY <1>2, <1>3, SteadyRun, RunConcat4
  <1>6. \A cond : SteadySteps(cond) => Run(Loop(cond, t), Running, Running)
    BY <1>4, <1>5, RunConcat
  <1> HIDE DEF Loop
  <1> QED  BY <1>1, <1>2, <1>6

\* while let.
LEMMA WhileLetRun ==
    ASSUME NEW e, NEW L, NEW steps \in lower_while_let(e, L)
    PROVE  Run(steps, Running, Running)
  <1> DEFINE head(t) == <<Snapshot(L), Place(L, L, <<>>), E(t, e.in \cup {"cond"}, "code"),
                          StoreNew(L + 2, "__while_let_scrutinee", t), PushScope, Enter>>
             check(p, t) == lower_pattern_check(p, L + 2, t, L + 1, L + 3)
             loop == <<PushLoop(L + 1, L)>>
             body == Body("Unit", e.in \cup {"loop"}, "end")
             close == <<PopLoop, Leave, PopScope, Goto(L), Place(L + 1, L, <<>>)>>
             Code(t, p) == head(t) \o check(p, t) \o bind_pattern(p, L + 3) \o loop \o body \o close
             All(t) == {Code(t, p) : p \in {x \in Patterns(t) : MayMatch(x)}}
  <1>1. PICK t \in Val : steps \in All(t)
    <2>1. lower_while_let(e, L)
            = IF e.ty # "Unit" \/ ~ (MayLoop(e) /\ MayHold("__while_let_scrutinee"))
                 \/ (Avoids("leak") /\ e.next # "end")
                THEN {} ELSE UNION {All(t) : t \in Val}
      BY DEF lower_while_let
    <2> HIDE DEF All
    <2> QED  BY <2>1
  <1>2. PICK p \in Patterns(t) : steps = Code(t, p)
    <2> HIDE DEF Code
    <2> QED  BY <1>1
  <1>3. SteadySteps(head(t)) /\ SteadySteps(loop)
    BY Tuples, SteadyKinds DEF SteadySteps
  <1>4. Run(check(p, t), Running, Running) /\ Run(bind_pattern(p, L + 3), Running, Running)
        /\ Run(body, Running, Running)
    BY CheckRun, BindRun, InnerRun
  <1>5. Run(close, Running, Running)
    <2>1. \A a : Flows(PopLoop, a, a) /\ Flows(Leave, a, a) /\ Flows(PopScope, a, a)
      BY FlowKinds
    <2> QED  BY <2>1, BackRun
  <1> HIDE DEF head, check, loop, body, close
  <1>6. Run(head(t) \o check(p, t) \o bind_pattern(p, L + 3) \o loop, Running, Running)
    BY <1>3, <1>4, SteadyRun, RunConcat4
  <1> QED  BY <1>2, <1>4, <1>5, <1>6, RunConcat3

\* for over a Java collection.
LEMMA JavaRun ==
    ASSUME NEW e, NEW L, NEW steps \in lower_for_java_iterator(e, L)
    PROVE  Run(steps, Running, Running)
  <1> DEFINE one(n) == <<PushScope, E("Ref", e.in, "code"), Op(<<"Ref">>, <<"Ref">>),
                         StoreNew(L, "__java_iter", "Ref"), Snapshot(L), Place(L, L, <<>>),
                         LoadTemp(L), Op(<<"Ref">>, <<"Int">>), Branch(<<"Int">>, L + 1),
                         LoadTemp(L), Op(<<"Ref">>, <<"Ref">>), StoreNew(L + 2, n, "Ref"),
                         Enter, Define(n, L + 2), PushLoop(L + 1, L)>>
             body == Body("Unit", e.in \cup {"loop"}, "end")
             close == <<PopLoop, Leave, Goto(L), Place(L + 1, L, <<>>), PopScope>>
             Code(n) == one(n) \o body \o close
  <1>1. PICK n \in UserName : steps = Code(n)
    <2>1. lower_for_java_iterator(e, L)
            = IF e.ty # "Unit" \/ ~ (MayPlace(e) /\ MayHold("__java_iter")) THEN {}
              ELSE {Code(n) : n \in UserName}
      BY DEF lower_for_java_iterator
    <2> HIDE DEF Code
    <2> QED  BY <2>1
  <1>2. SteadySteps(one(n))
    <2> DEFINE s == one(n)
    <2>1. s \in Seq({s[i] : i \in 1..15}) /\ Len(s) = 15
      OBVIOUS
    <2>2. \A i \in 1..15 : Flows(s[i], Running, Running)
      BY SteadyKinds
    <2> HIDE DEF s
    <2>3. SteadySteps(s)
      BY <2>1, <2>2 DEF SteadySteps, IsSeq
    <2> QED  BY <2>3 DEF s
  <1>3. Run(body, Running, Running)
    BY InnerRun
  <1>4. Run(close, Running, Running)
    <2>1. \A a : Flows(PopLoop, a, a) /\ Flows(Leave, a, a) /\ Flows(PopScope, a, a)
      BY FlowKinds
    <2> QED  BY <2>1, BackRun
  <1> HIDE DEF one, body, close
  <1> QED  BY <1>1, <1>2, <1>3, <1>4, SteadyRun, RunConcat3

\* for over an iterator.
LEMMA IteratorRun ==
    ASSUME NEW e, NEW L, NEW steps \in lower_for_iterator(e, L)
    PROVE  Run(steps, Running, Running)
  <1> DEFINE one(n, t) == <<PushScope, E("Ref", e.in, "code"), StoreTemp(L, "Ref"),
                            Place(L, Live, <<>>), LoadTemp(L), Op(<<"Ref">>, <<"Ref">>),
                            StoreTemp(L + 2, "Ref"), LoadTemp(L + 2), Op(<<"Ref">>, <<"Int">>),
                            Branch(<<"Int">>, L + 1), LoadTemp(L + 2), Op(<<"Ref">>, <<t>>),
                            StoreNew(L + 3, n, t), Enter, Define(n, L + 3), PushLoop(L + 1, L)>>
             body == Body("Unit", e.in \cup {"loop"}, "end")
             close == <<PopLoop, Leave, Goto(L), Place(L + 1, Live, <<>>), PopScope>>
             Code(n, t) == one(n, t) \o body \o close
  <1>1. PICK n \in UserName, t \in Val : steps = Code(n, t)
    <2>1. lower_for_iterator(e, L)
            = IF e.ty # "Unit" \/ ~ MayPlace(e) \/ Avoids("unnamedSlot") THEN {}
              ELSE {Code(n, t) : n \in UserName, t \in Val}
      BY DEF lower_for_iterator
    <2> HIDE DEF Code
    <2> QED  BY <2>1
  <1>2. SteadySteps(one(n, t))
    <2> DEFINE s == one(n, t)
    <2>1. s \in Seq({s[i] : i \in 1..16}) /\ Len(s) = 16
      OBVIOUS
    <2>2. \A i \in 1..16 : Flows(s[i], Running, Running)
      BY SteadyKinds
    <2> HIDE DEF s
    <2>3. SteadySteps(s)
      BY <2>1, <2>2 DEF SteadySteps, IsSeq
    <2> QED  BY <2>3 DEF s
  <1>3. Run(body, Running, Running)
    BY InnerRun
  <1>4. Run(close, Running, Running)
    <2>1. \A a : Flows(PopLoop, a, a) /\ Flows(Leave, a, a) /\ Flows(PopScope, a, a)
      BY FlowKinds
    <2> QED  BY <2>1, BackRun
  <1> HIDE DEF one, body, close
  <1> QED  BY <1>1, <1>2, <1>3, <1>4, SteadyRun, RunConcat3

\* for over a range: the condition is tested behind the body, where the label
\* for continue is too.
LEMMA RangeRun ==
    ASSUME NEW e, NEW L, NEW steps \in lower_for_range(e, L)
    PROVE  Run(steps, Running, Running)
  <1> DEFINE one(n, t) == <<PushScope, E(t, e.in, "code"), StoreNew(L, n, t),
                            E(t, e.in, "code"), StoreTemp(L + 1, t), Goto(L + 2),
                            Place(L, Live, <<>>), Enter, Define(n, L), PushLoop(L + 3, L + 1)>>
             body == Body("Unit", e.in \cup {"loop"}, "label")
             two(n, t) == <<PopLoop, Leave, Place(L + 1, Live, <<>>),
                            LoadTemp(L), Push(t), Op(<<t, t>>, <<t>>), AssignTo(n),
                            Place(L + 2, Live, <<>>), LoadTemp(L), LoadTemp(L + 1)>>
             test(t) == IF t = "Long" THEN <<Op(<<t, t>>, <<"Int">>), Branch(<<"Int">>, L)>>
                                      ELSE <<Branch(<<t, t>>, L)>>
             last == <<Place(L + 3, Live, <<>>), PopScope>>
             Code(n, t) == one(n, t) \o body \o two(n, t) \o test(t) \o last
  <1>1. PICK n \in UserName, t \in {"Int", "Long"} : steps = Code(n, t)
    <2>1. lower_for_range(e, L)
            = IF e.ty # "Unit" \/ ~ MayPlace(e) \/ Avoids("unnamedSlot") THEN {}
              ELSE {Code(n, t) : n \in UserName, t \in {"Int", "Long"}}
      BY DEF lower_for_range
    <2> HIDE DEF Code
    <2> QED  BY <2>1
  <1>2. Run(one(n, t), Running, Running)
    <2> DEFINE s == one(n, t)
               f == <<Running, Running, Running, Running, Running, Running, Anything, Running,
                      Running, Running, Running>>
               top == Place(L, Live, <<>>)
    <2>1. IsSeq(s) /\ Len(s) = 10 /\ f[1] = Running /\ f[10 + 1] = Running
      BY Tuples
    <2>2. \A i \in 1..10 : Flows(s[i], f[i], f[i + 1])
      <3>1. /\ Flows(PushScope, Running, Running) /\ Flows(E(t, e.in, "code"), Running, Running)
            /\ Flows(StoreNew(L, n, t), Running, Running) /\ Flows(StoreTemp(L + 1, t), Running, Running)
            /\ Flows(Goto(L + 2), Running, Anything) /\ Flows(top, Anything, Running)
            /\ Flows(Enter, Running, Running) /\ Flows(Define(n, L), Running, Running)
            /\ Flows(PushLoop(L + 3, L + 1), Running, Running)
        BY FlowKinds, SteadyKinds
      <3> HIDE DEF Running, Anything
      <3> QED  BY <3>1
    <2> HIDE DEF s, f
    <2>3. Run(s, Running, Running)
      BY <2>1, <2>2, RunBy
    <2> QED  BY <2>3 DEF s
  <1>3. Run(body, Running, Anything)
    BY InnerRun
  <1>4. Run(two(n, t), Anything, Running)
    <2> DEFINE s == two(n, t)
               f == <<Anything, Anything, Anything, Running, Running, Running, Running, Running,
                      Running, Running, Running>>
               next == Place(L + 1, Live, <<>>)
               cond == Place(L + 2, Live, <<>>)
    <2>1. IsSeq(s) /\ Len(s) = 10 /\ f[1] = Anything /\ f[10 + 1] = Running
      BY Tuples
    <2>2. \A i \in 1..10 : Flows(s[i], f[i], f[i + 1])
      <3>1. /\ Flows(PopLoop, Anything, Anything) /\ Flows(Leave, Anything, Anything)
            /\ Flows(next, Anything, Running) /\ Flows(cond, Running, Running)
            /\ Flows(LoadTemp(L), Running, Running) /\ Flows(LoadTemp(L + 1), Running, Running)
            /\ Flows(Push(t), Running, Running) /\ Flows(Op(<<t, t>>, <<t>>), Running, Running)
            /\ Flows(AssignTo(n), Running, Running)
        BY FlowKinds, SteadyKinds
      <3> HIDE DEF Running, Anything
      <3> QED  BY <3>1
    <2> HIDE DEF s, f
    <2>3. Run(s, Anything, Running)
      BY <2>1, <2>2, RunBy
    <2> QED  BY <2>3 DEF s
  <1>5. SteadySteps(test(t)) /\ SteadySteps(last)
    BY Tuples, SteadyKinds DEF SteadySteps
  <1> HIDE DEF one, body, two, test, last
  <1>6. Run(one(n, t) \o body \o two(n, t), Running, Running)
    BY <1>2, <1>3, <1>4, RunConcat3
  <1> QED  BY <1>1, <1>5, <1>6, SteadyRun, RunConcat3

-----------------------------------------------------------------------------
(* Every form and every statement                                          *)

\* Code that finds the code live and leaves it so may stand anywhere.
LEMMA RunAnywhere ==
    ASSUME NEW s, NEW next, Run(s, Running, Running)
    PROVE  Run(s, Running, AfterForm(next))
  <1>1. Running \subseteq AfterForm(next) /\ Running \subseteq Running
    BY AfterForms
  <1> QED  BY <1>1, RunMono

\* A form ends as what it stands before allows.
LEMMA FormRun ==
    ASSUME NEW e, IsForm(e), NEW L, NEW name, NEW steps \in Form(e, L, name)
    PROVE  Run(steps, Running, AfterForm(e.next))
  <1>1. \/ steps = Body(e.ty, e.in, e.next)
        \/ steps \in lower_call(e) \cup lower_assign(e)
        \/ steps \in lower_comparison(e, L) \cup lower_short_circuit(e, L) \cup lower_try(e, L)
        \/ steps \in lower_if(e, L)
        \/ steps \in lower_match(e, L)
        \/ steps \in lower_if_let(e, L)
        \/ steps \in lower_while(e, L)
        \/ steps \in lower_while_let(e, L)
        \/ steps \in lower_for_range(e, L)
        \/ steps \in lower_for_java_iterator(e, L)
        \/ steps \in lower_for_iterator(e, L)
    BY DEF Form
  <1>2. CASE steps = Body(e.ty, e.in, e.next)
    BY <1>2, BodyRun DEF IsForm
  <1>3. CASE steps # Body(e.ty, e.in, e.next)
    <2>1. Run(steps, Running, Running)
      BY <1>1, <1>3, PlainRun, JumpingRun, IfRun, MatchRun, IfLetRun, WhileRun, WhileLetRun,
         RangeRun, JavaRun, IteratorRun
    <2> QED  BY <2>1, RunAnywhere
  <1> QED  BY <1>2, <1>3

\* let-else: its else block diverges to the label of the match.
LEMMA LetElseRun ==
    ASSUME NEW s, NEW L, NEW steps \in lower_let_else(s, L)
    PROVE  Run(steps, Running, Running)
  <1> DEFINE head(t) == <<E(t, s.in, "code"), StoreNew(L, "__let_else_scrutinee", t), Snapshot(L)>>
             Check(p, t) == lower_pattern_check(p, L, t, L + 1, L + 3)
             middle == <<Goto(L + 2), Place(L + 1, L, <<>>)>>
             body == Body("Nothing", s.in \cup {"letelse"}, "label")
             last == <<Place(L + 2, Live, <<>>)>>
             Code(t, p) == head(t) \o Check(p, t) \o middle \o body \o last \o bind_pattern(p, L + 3)
             All(t) == {Code(t, p) : p \in {x \in Patterns(t) :
                                              /\ MayMatch(x)
                                              /\ Avoids("letElse") => Bound(x) \cap Visible = {}}}
  <1>1. PICK t \in Val : steps \in All(t)
    <2>1. lower_let_else(s, L)
            = IF ~ (MayPlace([s EXCEPT !.next = "code"]) /\ MayHold("__let_else_scrutinee")) THEN {}
              ELSE UNION {All(t) : t \in Val}
      BY DEF lower_let_else
    <2> HIDE DEF All
    <2> QED  BY <2>1
  <1>2. PICK p \in Patterns(t) : steps = Code(t, p)
    <2> HIDE DEF Code
    <2> QED  BY <1>1
  <1>3. SteadySteps(head(t)) /\ Run(middle, Running, Running) /\ Run(last, Anything, Running)
    BY JumpRun, LabelRun, Tuples, SteadyKinds DEF SteadySteps
  <1>4. Run(Check(p, t), Running, Running) /\ Run(bind_pattern(p, L + 3), Running, Running)
        /\ Run(body, Running, Anything)
    BY CheckRun, BindRun, InnerRun
  <1> HIDE DEF head, Check, middle, body, last
  <1>5. Run(head(t) \o Check(p, t) \o middle \o body, Running, Anything)
    BY <1>3, <1>4, SteadyRun, RunConcat4
  <1> QED  BY <1>2, <1>3, <1>4, <1>5, RunConcat3

\* A statement is followed by other code.
LEMMA StmtRun ==
    ASSUME NEW s, NEW L, NEW name, NEW steps \in lower_stmt(s, L, name)
    PROVE  Run(steps, Running, Running)
  <1> DEFINE Let(n, t) == <<E(t, s.in, "code"), StoreNew(L, n, t), Define(n, L)>>
             Drop(t) == <<E(t, s.in, "code"), Op(<<t>>, <<>>)>>
             unit == <<E("Unit", s.in, "code")>>
  <1>1. \/ \E n, t : steps = Let(n, t)
        \/ \E t : steps = Drop(t)
        \/ steps = unit
        \/ steps \in lower_let_else(s, L)
    <2>1. CASE name = "let"
      <3>1. lower_stmt(s, L, name) = {Let(n, t) : n \in UserName, t \in Val}
        BY <2>1 DEF lower_stmt
      <3> HIDE DEF Let
      <3> QED  BY <3>1
    <2>2. CASE name = "drop"
      <3>1. lower_stmt(s, L, name) = {Drop(t) : t \in Val}
        BY <2>2 DEF lower_stmt
      <3> HIDE DEF Drop
      <3> QED  BY <3>1
    <2>3. CASE name \notin {"let", "drop"}
      BY <2>3 DEF lower_stmt
    <2> QED  BY <2>1, <2>2, <2>3
  <1>2. /\ \A n, t : SteadySteps(Let(n, t))
        /\ \A t : SteadySteps(Drop(t))
        /\ SteadySteps(unit)
    BY Tuples, SteadyKinds DEF SteadySteps
  <1> HIDE DEF Let, Drop, unit
  <1> QED  BY <1>1, <1>2, SteadyRun, LetElseRun

-----------------------------------------------------------------------------
(* The invariant                                                           *)

\* The steps ahead are a path from how the code so far ends.
BlockInv ==
    /\ \E z : Run(todo, {flow.status}, z)
    /\ "status" \in DOMAIN flow
    /\ position # NoLabel => flow.status = "live"
    /\ "unframed" \notin faults

\* The body of the function and its end are such a path.
LEMMA InitBlocks == Init => BlockInv
  <1> SUFFICES ASSUME Init PROVE BlockInv
    OBVIOUS
  <1>1. Run(Body(return_ty, {}, "exit"), Running, {"live", "returned"})
    BY BodyRun, AfterForms
  <1>2. Flows(Do("finish"), {"live", "returned"}, {"returned"})
    BY DEF Flows, Do, LiveStep, FormStep
  <1>3. Run(todo, Running, {"returned"})
    <2>1. Run(Append(Body(return_ty, {}, "exit"), Do("finish")), Running, {"returned"})
      BY <1>1, <1>2, RunAppend
    <2> QED  BY <2>1 DEF Init
  <1>4. flow.status = "live" /\ "status" \in DOMAIN flow
    BY DEF Init
  <1> QED  BY <1>3, <1>4 DEF BlockInv, Init, Running

\* The next step, how the code before it ends and the path behind it.
LEMMA NextFlow ==
    ASSUME BlockInv, todo # <<>>
    PROVE  \E b, z : Flows(Step, {flow.status}, b) /\ Run(Tail(todo), b, z)
  BY RunHead DEF BlockInv, Step

\* The invariant after a step, from the path that replaces it.
LEMMA AdvanceBlocks ==
    ASSUME NEW steps, Then(steps), NEW b, NEW z, Run(steps, {flow'.status}, b), Run(Tail(todo), b, z),
           "status" \in DOMAIN flow',
           position' # NoLabel => flow'.status = "live",
           "unframed" \notin faults'
    PROVE  BlockInv'
  <1>1. Run(todo', {flow'.status}, z)
    BY RunConcat DEF Then
  <1> QED  BY <1>1 DEF BlockInv

\* The same for a step that is done.
LEMMA DoneBlocks ==
    ASSUME Then(<<>>), NEW b, NEW z, flow'.status \in b, Run(Tail(todo), b, z),
           "status" \in DOMAIN flow',
           position' # NoLabel => flow'.status = "live",
           "unframed" \notin faults'
    PROVE  BlockInv'
  <1>1. Run(<<>>, {flow'.status}, b)
    <2>1. {flow'.status} \subseteq {flow'.status} /\ {flow'.status} \subseteq b
      OBVIOUS
    <2> QED  BY <2>1, RunEmpty, RunMono
  <1> QED  BY <1>1, AdvanceBlocks

\* What a form becomes is a path of the same ends.
LEMMA FormBlocks ==
    ASSUME "deadCode" \in Avoid, BlockInv, LowerExpr \/ LowerElse \/ LowerStmt
    PROVE  BlockInv'
  <1>1. todo # <<>> /\ Step.do \in FormStep /\ UNCHANGED codeVars
    BY DEF LowerExpr, LowerElse, LowerStmt, Is, FormStep
  <1>2. PICK b, z : Flows(Step, {flow.status}, b) /\ Run(Tail(todo), b, z)
    BY <1>1, NextFlow
  <1>3. flow.status = "live" /\ AfterForm(Step.next) \subseteq b /\ IsForm(Step)
    BY <1>1, <1>2 DEF Flows, Running
  <1>4. /\ flow' = flow /\ position' = position /\ faults' = faults
        /\ "status" \in DOMAIN flow'
        /\ position' # NoLabel => flow'.status = "live"
        /\ "unframed" \notin faults'
    BY <1>1 DEF BlockInv, codeVars
  <1>5. ASSUME NEW steps, Then(steps), Run(steps, Running, AfterForm(Step.next))
        PROVE  BlockInv'
    <2>1. {flow'.status} \subseteq Running
      BY <1>3, <1>4 DEF Running
    <2>2. Run(steps, {flow'.status}, b)
      BY <1>3, <1>5, <2>1, RunMono
    <2> QED  BY <1>2, <1>4, <1>5, <2>2, AdvanceBlocks
  <1>6. CASE LowerExpr
    <2>1. CASE \E steps \in Atoms(Step) : Then(steps)
      BY <1>5, <2>1, PlainRun, RunAnywhere
    <2>2. CASE \E steps \in Diverging(Step) : Then(steps)
      BY <1>3, <1>5, <2>2, DivergingRun
    <2>3. CASE \E name : \E steps \in Form(Step, next_label, name) : Then(steps)
      BY <1>3, <1>5, <2>3, FormRun
    <2> QED  BY <1>6, <2>1, <2>2, <2>3 DEF LowerExpr, Choose
  <1>7. CASE LowerElse
    <2>1. CASE Then(Body(Step.ty, Step.in, "label"))
      <3>1. AfterForm(Step.next) = Anything
        BY <1>3, <1>7, AfterForms DEF IsForm, LowerElse, Is
      <3> QED  BY <1>5, <2>1, <3>1, InnerRun
    <2>2. CASE \E name : \E steps \in Form(Step, next_label, name) : Then(steps)
      BY <1>3, <1>5, <2>2, FormRun
    <2> QED  BY <1>7, <2>1, <2>2 DEF LowerElse, Choose
  <1>8. CASE LowerStmt
    <2>1. CASE Then(<<E(Step.ty, Step.in, Step.next), Leave, PopScope>>)
      BY <1>3, <1>5, <2>1, EndRun DEF IsForm
    <2>2. CASE \E name : \E steps \in lower_stmt(Step, next_label, name) : Then(Append(steps, Step))
      <3>1. Flows(Step, Running, AfterForm(Step.next))
        BY <1>1, <1>3 DEF Flows, LiveStep, FormStep
      <3>2. \A name : \A steps \in lower_stmt(Step, next_label, name) :
               Run(Append(steps, Step), Running, AfterForm(Step.next))
        BY <3>1, StmtRun, RunAppend
      <3> QED  BY <1>5, <2>2, <3>2
    <2> QED  BY <1>8, <2>1, <2>2 DEF LowerStmt, Choose
  <1> QED  BY <1>6, <1>7, <1>8

\* What emits no code leaves how it ends alone.
LEMMA ScopeBlocks ==
    ASSUME BlockInv, push_scope \/ pop_scope \/ CheckerScope \/ LoopScope \/ TakeSnapshot
    PROVE  BlockInv'
  <1>1. /\ todo # <<>> /\ Then(<<>>) /\ UNCHANGED codeVars
        /\ Step.do \in {"push_scope", "pop_scope", "enter", "leave", "define", "push_loop",
                        "pop_loop", "snapshot"}
    BY DEF push_scope, pop_scope, CheckerScope, LoopScope, TakeSnapshot, Is
  <1>2. PICK b, z : Flows(Step, {flow.status}, b) /\ Run(Tail(todo), b, z)
    BY <1>1, NextFlow
  <1>3. flow.status \in b
    BY <1>1, <1>2 DEF Flows, LiveStep, FormStep
  <1>4. /\ flow' = flow
        /\ "status" \in DOMAIN flow'
        /\ position' # NoLabel => flow'.status = "live"
        /\ "unframed" \notin faults'
    BY <1>1 DEF BlockInv, codeVars
  <1> QED  BY <1>1, <1>2, <1>3, <1>4, DoneBlocks

\* An instruction finds the code live.
LEMMA CodeBlocks ==
    ASSUME BlockInv, Operate \/ Load \/ Store \/ Assign \/ CondJump
    PROVE  BlockInv'
  <1>1. todo # <<>> /\ Then(<<>>) /\ Step.do \in LiveStep
    BY DEF Operate, Load, Store, Assign, CondJump, Is, LiveStep
  <1>2. PICK b, z : Flows(Step, {flow.status}, b) /\ Run(Tail(todo), b, z)
    BY <1>1, NextFlow
  <1>3. flow.status = "live" /\ "live" \in b
    BY <1>1, <1>2 DEF Flows, Running
  <1>4. IsLive
    BY <1>3 DEF IsLive
  <1>5. \A pop : "unframed" \notin Rejected(pop)
    BY <1>4 DEF Rejected
  <1>6. \A x : "unframed" \notin RejectedRead(x)
    BY DEF RejectedRead
  <1>7. "status" \in DOMAIN flow /\ "unframed" \notin faults
    BY DEF BlockInv
  <1>8. \A stack, regs :
           LET f == [flow EXCEPT !.stack = stack]
               g == [flow EXCEPT !.stack = stack, !.regs = regs]
           IN  /\ f.status = "live" /\ "status" \in DOMAIN f
               /\ g.status = "live" /\ "status" \in DOMAIN g
    BY <1>3, <1>7
  <1> DEFINE StaysLive == /\ flow'.status = "live" /\ "status" \in DOMAIN flow'
                          /\ "unframed" \notin faults'
  <1>9. CASE Operate
    <2>1. StaysLive
      BY <1>4, <1>5, <1>7, <1>8, <1>9 DEF Operate
    <2> QED  BY <1>1, <1>2, <1>3, <2>1, DoneBlocks
  <1>10. CASE Load
    <2>1. CASE UNCHANGED codeVars
      <3>1. StaysLive
        BY <1>3, <1>7, <2>1 DEF codeVars
      <3> QED  BY <1>1, <1>2, <1>3, <3>1, DoneBlocks
    <2>2. CASE ~ UNCHANGED codeVars
      <3>1. PICK x : /\ flow' = IF IsLive THEN [flow EXCEPT !.stack = Append(@, x.ty)] ELSE flow
                     /\ faults' = faults \cup Rejected(<<>>) \cup RejectedRead(x)
                     /\ position' = NoLabel
        BY <1>10, <2>2 DEF Load
      <3>2. StaysLive
        BY <1>4, <1>5, <1>6, <1>7, <1>8, <3>1
      <3> QED  BY <1>1, <1>2, <1>3, <3>2, DoneBlocks
    <2> QED  BY <2>1, <2>2
  <1>11. ASSUME NEW x, StoreTo(x) PROVE BlockInv'
    <2>1. StaysLive
      BY <1>4, <1>5, <1>7, <1>8, <1>11 DEF StoreTo
    <2> QED  BY <1>1, <1>2, <1>3, <2>1, DoneBlocks
  <1>12. CASE Store
    BY <1>11, <1>12 DEF Store
  <1>13. CASE Assign
    <2>1. CASE UNCHANGED codeVars
      <3>1. StaysLive
        BY <1>3, <1>7, <2>1 DEF codeVars
      <3> QED  BY <1>1, <1>2, <1>3, <3>1, DoneBlocks
    <2> QED  BY <1>11, <1>13, <2>1 DEF Assign
  <1>14. CASE CondJump
    <2>1. StaysLive
      BY <1>4, <1>5, <1>7, <1>8, <1>14 DEF CondJump
    <2> QED  BY <1>1, <1>2, <1>3, <2>1, DoneBlocks
  <1> QED  BY <1>9, <1>10, <1>12, <1>13, <1>14

\* A jump or a return finds the code live, too, and ends it.
LEMMA JumpBlocks ==
    ASSUME BlockInv, Jump \/ ReturnOp
    PROVE  BlockInv'
  <1>1. todo # <<>> /\ Then(<<>>) /\ Step.do \in {"goto", "break", "continue", "return"}
    BY DEF Jump, ReturnOp, Is
  <1>2. PICK b, z : Flows(Step, {flow.status}, b) /\ Run(Tail(todo), b, z)
    BY <1>1, NextFlow
  <1>3. flow.status = "live"
    BY <1>1, <1>2 DEF Flows, Running
  <1>4. \A pop : "unframed" \notin Rejected(pop)
    BY <1>3 DEF Rejected, IsLive
  <1>5. "unframed" \notin faults
    BY DEF BlockInv
  <1>6. CASE Jump
    <2>1. "jumped" \in b
      BY <1>2, <1>6 DEF Flows, Jump, Is
    <2>2. flow' = Dead("jumped") /\ "unframed" \notin faults' /\ position' = NoLabel
      BY <1>4, <1>5, <1>6 DEF Jump, JumpTo
    <2> QED  BY <1>1, <1>2, <2>1, <2>2, DoneBlocks DEF Dead
  <1>7. CASE ReturnOp
    <2>1. "returned" \in b
      BY <1>2, <1>7 DEF Flows, ReturnOp, Is
    <2>2. flow' = Dead("returned") /\ "unframed" \notin faults' /\ position' = NoLabel
      BY <1>4, <1>5, <1>7 DEF ReturnOp
    <2> QED  BY <1>1, <1>2, <2>1, <2>2, DoneBlocks DEF Dead
  <1> QED  BY <1>6, <1>7

\* A label begins live code.
LEMMA LabelBlocks ==
    ASSUME BlockInv, PlaceLabel
    PROVE  BlockInv'
  <1>1. todo # <<>> /\ Then(<<>>) /\ Step.do = "place" /\ faults' = faults
    BY DEF PlaceLabel, Is
  <1>2. PICK b, z : Flows(Step, {flow.status}, b) /\ Run(Tail(todo), b, z)
    BY <1>1, NextFlow
  <1>3. "live" \in b /\ "unframed" \notin faults'
    BY <1>1, <1>2 DEF Flows, BlockInv
  <1>4. flow'.status = "live" /\ "status" \in DOMAIN flow'
    <2>1. CASE position = NoLabel
      BY <2>1 DEF PlaceLabel
    <2>2. CASE position # NoLabel
      BY <2>2 DEF PlaceLabel, BlockInv
    <2> QED  BY <2>1, <2>2
  <1> QED  BY <1>1, <1>2, <1>3, <1>4, DoneBlocks

\* The body ends live or with a return of its own.
LEMMA FinishBlocks ==
    ASSUME BlockInv, Finish
    PROVE  BlockInv'
  <1>1. todo # <<>> /\ Step.do = "finish" /\ UNCHANGED codeVars
    BY DEF Finish, Is
  <1>2. PICK b, z : Flows(Step, {flow.status}, b) /\ Run(Tail(todo), b, z)
    BY <1>1, NextFlow
  <1>3. flow.status \in {"live", "returned"} /\ "returned" \in b
    BY <1>1, <1>2 DEF Flows
  <1>4. /\ flow' = flow
        /\ "status" \in DOMAIN flow'
        /\ position' # NoLabel => flow'.status = "live"
        /\ "unframed" \notin faults'
    BY <1>1 DEF BlockInv, codeVars
  <1>5. CASE flow.status = "returned"
    <2>1. Then(<<>>)
      BY <1>5 DEF Finish
    <2> QED  BY <1>2, <1>3, <1>4, <1>5, <2>1, DoneBlocks
  <1>6. CASE flow.status = "live"
    <2> DEFINE steps == <<Return(return_ty)>>
    <2>1. Then(steps)
      BY <1>6 DEF Finish
    <2>2. Flows(Return(return_ty), {flow'.status}, b)
      BY <1>3, <1>4, <1>6 DEF Flows, Return, LiveStep, FormStep, Running
    <2>3. Run(steps, {flow'.status}, b)
      BY <2>2, RunOne
    <2> HIDE DEF steps
    <2> QED  BY <1>2, <1>4, <2>1, <2>3, AdvanceBlocks
  <1> QED  BY <1>3, <1>5, <1>6

\* Every step of the lowering keeps the invariant.
LEMMA BlockInvStep == "deadCode" \in Avoid => (BlockInv /\ [Next]_vars => BlockInv')
  <1> SUFFICES ASSUME "deadCode" \in Avoid, BlockInv, [Next]_vars PROVE BlockInv'
    OBVIOUS
  <1>1. CASE LowerExpr \/ LowerElse \/ LowerStmt
    BY <1>1, FormBlocks
  <1>2. CASE push_scope \/ pop_scope \/ CheckerScope \/ LoopScope \/ TakeSnapshot
    BY <1>2, ScopeBlocks
  <1>3. CASE Operate \/ Load \/ Store \/ Assign \/ CondJump
    BY <1>3, CodeBlocks
  <1>4. CASE Jump \/ ReturnOp
    BY <1>4, JumpBlocks
  <1>5. CASE PlaceLabel
    BY <1>5, LabelBlocks
  <1>6. CASE Finish
    BY <1>6, FinishBlocks
  <1>7. CASE UNCHANGED vars
    BY <1>7 DEF vars, codeVars, loweringVars, BlockInv
  <1> QED  BY <1>1, <1>2, <1>3, <1>4, <1>5, <1>6, <1>7 DEF Next

\* No instruction of a body follows a jump or a return without a frame, past
\* however many forms, as long as nothing diverges where other code of the
\* lowering comes next (lower_expr and the forms of expr.rs).
THEOREM BlocksCorrect == "deadCode" \in Avoid => (Spec => []EveryBlockFramed)
  <1> SUFFICES ASSUME "deadCode" \in Avoid PROVE Spec => []EveryBlockFramed
    OBVIOUS
  <1>1. Init => BlockInv
    BY InitBlocks
  <1>2. BlockInv /\ [Next]_vars => BlockInv'
    BY BlockInvStep
  <1>3. BlockInv => EveryBlockFramed
    BY DEF BlockInv, EveryBlockFramed
  <1> QED  BY <1>1, <1>2, <1>3, PTL DEF Spec

-----------------------------------------------------------------------------
(* Labels and open scopes                                                  *)

\* How many loops, scopes of the lowering and scopes of the checker are open.
Depth == Nat \X Nat \X Nat
LoopIn(a) == <<a[1] + 1, a[2], a[3]>>
ScopeIn(a) == <<a[1], a[2] + 1, a[3]>>
EnvIn(a) == <<a[1], a[2], a[3] + 1>>
Open(a) == a \in Depth /\ a[2] >= 1 /\ a[3] >= 1

\* The labels a step goes to, or opens a loop with.
Aims(s) == IF s.do \in {"goto", "branch"} THEN {s.label}
           ELSE IF s.do = "push_loop" THEN {s.brk, s.cont} ELSE {}

\* What an expression needs where it stands: a scope, and the loops its breaks
\* and continues leave.
Fits(in, a) == Open(a) /\ ("loop" \in in => a[1] >= 1)

\* An expression, an else or the rest of a block.
Formed(s) == s = [do |-> s.do, ty |-> s.ty, in |-> s.in, next |-> s.next]

\* A step goes to labels of A only, and leads from the depth a to b.
Turns(s, a, b, A) ==
    /\ a \in Depth /\ b \in Depth /\ Aims(s) \subseteq A
    /\ s.do = "push_scope" => b = ScopeIn(a)
    /\ s.do = "pop_scope" => a = ScopeIn(b)
    /\ s.do = "enter" => b = EnvIn(a)
    /\ s.do = "leave" => a = EnvIn(b)
    /\ s.do = "push_loop" => b = LoopIn(a)
    /\ s.do = "pop_loop" => a = LoopIn(b)
    /\ s.do \in {"break", "continue"} => a[1] >= 1
    /\ s.do \in {"store", "define"} => Open(a)
    /\ s.do \in FormStep => Formed(s) /\ Fits(s.in, a)
    /\ s.do = "stmts" => a = ScopeIn(EnvIn(b))
    /\ s.do \notin {"push_scope", "pop_scope", "enter", "leave", "push_loop", "pop_loop", "stmts"}
         => a = b

Placed(steps, l) == \E i \in 1..Len(steps) : steps[i].do = "place" /\ steps[i].label = l

\* The steps lead from a to b and go to labels of A; they place those of P.
Leads(steps, a, b, A, P) ==
    /\ IsSeq(steps)
    /\ \E f : /\ f[1] = a /\ f[Len(steps) + 1] = b
              /\ \A i \in 1..Len(steps) : Turns(steps[i], f[i], f[i + 1], A)
    /\ \A l \in P : Placed(steps, l)

\* The depths there are.
LEMMA Depths ==
    ASSUME NEW a \in Depth
    PROVE  /\ LoopIn(a) \in Depth /\ ScopeIn(a) \in Depth /\ EnvIn(a) \in Depth
           /\ ScopeIn(EnvIn(a)) = EnvIn(ScopeIn(a)) /\ ScopeIn(LoopIn(a)) = LoopIn(ScopeIn(a))
           /\ EnvIn(LoopIn(a)) = LoopIn(EnvIn(a))
           /\ Open(EnvIn(ScopeIn(a)))
           /\ Open(a) => Open(LoopIn(a)) /\ Open(ScopeIn(a)) /\ Open(EnvIn(a))
  <1>1. PICK i \in Nat, j \in Nat, k \in Nat : a = <<i, j, k>>
    BY DEF Depth
  <1> QED  BY <1>1 DEF Depth, Open, LoopIn, ScopeIn, EnvIn

\* What fits a place fits it in more scopes and loops, too.
LEMMA FitsIn ==
    ASSUME NEW in, NEW a, Fits(in, a)
    PROVE  /\ a \in Depth
           /\ Fits(in, ScopeIn(a)) /\ Fits(in, EnvIn(a)) /\ Fits(in, LoopIn(a))
           /\ Fits(in \cup {"loop"}, LoopIn(a))
           /\ Fits(in \cup {"loop"}, ScopeIn(LoopIn(a)))
           /\ \A x : x # "loop" => Fits(in \cup {x}, a)
  <1>1. PICK i \in Nat, j \in Nat, k \in Nat : a = <<i, j, k>>
    BY DEF Depth, Open, Fits
  <1> QED  BY <1>1 DEF Fits, Depth, Open, LoopIn, ScopeIn, EnvIn

\* The kinds of steps.
LEMMA TurnKinds ==
    ASSUME NEW a \in Depth, NEW A
    PROVE  /\ \A pop, push : Turns(Op(pop, push), a, a, A)
           /\ \A ty : Turns(Push(ty), a, a, A)
           /\ \A k : Turns(LoadTemp(k), a, a, A) /\ Turns(Snapshot(k), a, a, A)
           /\ \A n : Turns(LoadName(n), a, a, A) /\ Turns(AssignTo(n), a, a, A)
           /\ Open(a) => /\ \A k, n, ty : Turns(StoreNew(k, n, ty), a, a, A)
                         /\ \A k, ty : Turns(StoreTemp(k, ty), a, a, A)
                         /\ \A n, k : Turns(Define(n, k), a, a, A)
           /\ \A l \in A : Turns(Goto(l), a, a, A) /\ \A pop : Turns(Branch(pop, l), a, a, A)
           /\ \A l, from, stack : Turns(Place(l, from, stack), a, a, A)
           /\ \A ty : Turns(Return(ty), a, a, A)
           /\ Turns(PushScope, a, ScopeIn(a), A) /\ Turns(PopScope, ScopeIn(a), a, A)
           /\ Turns(Enter, a, EnvIn(a), A) /\ Turns(Leave, EnvIn(a), a, A)
           /\ \A l, m \in A : Turns(PushLoop(l, m), a, LoopIn(a), A)
           /\ Turns(PopLoop, LoopIn(a), a, A)
           /\ a[1] >= 1 => Turns(Do("break"), a, a, A) /\ Turns(Do("continue"), a, a, A)
           /\ \A ty, in, next : Fits(in, a) => Turns(E(ty, in, next), a, a, A)
           /\ \A ty, in : Fits(in, a) => Turns(Else(ty, in), a, a, A)
           /\ \A ty, in, next : Fits(in, EnvIn(ScopeIn(a)))
                                  => Turns(Stmts(ty, in, next), EnvIn(ScopeIn(a)), a, A)
  <1>0. /\ LoopIn(a) \in Depth /\ ScopeIn(a) \in Depth /\ EnvIn(a) \in Depth
        /\ EnvIn(ScopeIn(a)) \in Depth /\ ScopeIn(EnvIn(a)) = EnvIn(ScopeIn(a))
    BY Depths
  <1> USE DEF Turns, FormStep, Aims
  <1>1. /\ \A pop, push : Turns(Op(pop, push), a, a, A)
        /\ \A ty : Turns(Push(ty), a, a, A)
        /\ \A k : Turns(LoadTemp(k), a, a, A) /\ Turns(Snapshot(k), a, a, A)
        /\ \A n : Turns(LoadName(n), a, a, A) /\ Turns(AssignTo(n), a, a, A)
    BY DEF Op, Push, LoadTemp, Snapshot, LoadName, AssignTo
  <1>2. Open(a) => /\ \A k, n, ty : Turns(StoreNew(k, n, ty), a, a, A)
                   /\ \A k, ty : Turns(StoreTemp(k, ty), a, a, A)
                   /\ \A n, k : Turns(Define(n, k), a, a, A)
    BY DEF StoreTemp, StoreNew, Define
  <1>3. /\ \A l \in A : Turns(Goto(l), a, a, A) /\ \A pop : Turns(Branch(pop, l), a, a, A)
        /\ \A l, from, stack : Turns(Place(l, from, stack), a, a, A)
        /\ \A ty : Turns(Return(ty), a, a, A)
    BY DEF Goto, Branch, Place, Return
  <1>4. /\ Turns(PushScope, a, ScopeIn(a), A) /\ Turns(PopScope, ScopeIn(a), a, A)
        /\ Turns(Enter, a, EnvIn(a), A) /\ Turns(Leave, EnvIn(a), a, A)
    BY <1>0 DEF PushScope, PopScope, Enter, Leave, Do
  <1>5. /\ \A l, m \in A : Turns(PushLoop(l, m), a, LoopIn(a), A)
        /\ Turns(PopLoop, LoopIn(a), a, A)
        /\ a[1] >= 1 => Turns(Do("break"), a, a, A) /\ Turns(Do("continue"), a, a, A)
    BY <1>0 DEF PushLoop, PopLoop, Do
  <1>6. /\ \A ty, in, next : Fits(in, a) => Turns(E(ty, in, next), a, a, A)
        /\ \A ty, in : Fits(in, a) => Turns(Else(ty, in), a, a, A)
    BY DEF E, Else, Formed
  <1>7. \A ty, in, next : Fits(in, EnvIn(ScopeIn(a)))
                            => Turns(Stmts(ty, in, next), EnvIn(ScopeIn(a)), a, A)
    BY <1>0 DEF Stmts, Formed
  <1> QED  BY <1>1, <1>2, <1>3, <1>4, <1>5, <1>6, <1>7

\* No steps.
LEMMA LeadsEmpty == ASSUME NEW a, NEW A PROVE Leads(<<>>, a, a, A, {})
  <1> DEFINE f == [i \in 1..1 |-> a]
  <1>1. IsSeq(<<>>) /\ Len(<<>>) = 0 /\ f[1] = a
    BY Tuples
  <1> HIDE DEF f
  <1> QED  BY <1>1 DEF Leads

\* Steps one by one.
LEMMA LeadsBy ==
    ASSUME NEW steps, IsSeq(steps), NEW f, NEW a, NEW b, NEW n, Len(steps) = n,
           f[1] = a, f[n + 1] = b, NEW A, \A i \in 1..n : Turns(steps[i], f[i], f[i + 1], A),
           NEW P, \A l \in P : Placed(steps, l)
    PROVE  Leads(steps, a, b, A, P)
  BY DEF Leads

\* A single step.
LEMMA LeadsOne ==
    ASSUME NEW s, NEW a, NEW b, NEW A, Turns(s, a, b, A)
    PROVE  Leads(<<s>>, a, b, A, {})
  <1> DEFINE f == <<a, b>>
  <1>1. IsSeq(<<s>>) /\ Len(<<s>>) = 1 /\ f[1] = a /\ f[1 + 1] = b
    BY Tuples
  <1>2. \A i \in 1..1 : Turns(<<s>>[i], f[i], f[i + 1], A)
    OBVIOUS
  <1> HIDE DEF f
  <1> QED  BY <1>1, <1>2, LeadsBy

\* More labels to go to, and fewer known to be placed.
LEMMA LeadsGrow ==
    ASSUME NEW s, NEW a, NEW b, NEW A, NEW P, Leads(s, a, b, A, P),
           NEW B, A \subseteq B, NEW Q, Q \subseteq P
    PROVE  Leads(s, a, b, B, Q)
  <1>1. \A x, c, d : Turns(x, c, d, A) => Turns(x, c, d, B)
    BY DEF Turns
  <1> QED  BY <1>1 DEF Leads

\* The first step, and the path behind it.
LEMMA LeadsHead ==
    ASSUME NEW a, NEW z, NEW steps, NEW A, NEW P, Leads(steps, a, z, A, P), steps # <<>>
    PROVE  \E b : /\ Turns(Head(steps), a, b, A)
                  /\ Leads(Tail(steps), b, z, A,
                           {l \in P : ~ (Head(steps).do = "place" /\ Head(steps).label = l)})
  <1>1. PICK f : /\ f[1] = a /\ f[Len(steps) + 1] = z
                 /\ \A i \in 1..Len(steps) : Turns(steps[i], f[i], f[i + 1], A)
    BY DEF Leads
  <1>2. /\ Len(steps) \in Nat /\ Len(steps) >= 1 /\ IsSeq(Tail(steps))
        /\ Len(Tail(steps)) = Len(steps) - 1 /\ Head(steps) = steps[1]
        /\ \A i \in 1..(Len(steps) - 1) : Tail(steps)[i] = steps[i + 1]
    BY SeqFacts DEF Leads
  <1> DEFINE g == [i \in 1..Len(steps) |-> f[i + 1]]
             Q == {l \in P : ~ (Head(steps).do = "place" /\ Head(steps).label = l)}
  <1>3. g[1] = f[2] /\ g[Len(Tail(steps)) + 1] = z
    BY <1>1, <1>2
  <1>4. ASSUME NEW i \in 1..Len(Tail(steps)) PROVE Turns(Tail(steps)[i], g[i], g[i + 1], A)
    <2>1. Tail(steps)[i] = steps[i + 1] /\ i + 1 \in 1..Len(steps)
          /\ g[i] = f[i + 1] /\ g[i + 1] = f[(i + 1) + 1]
      BY <1>2
    <2> QED  BY <1>1, <2>1
  <1>5. ASSUME NEW l \in Q PROVE Placed(Tail(steps), l)
    <2>1. PICK i \in 1..Len(steps) : steps[i].do = "place" /\ steps[i].label = l
      BY DEF Leads, Placed
    <2>2. i # 1
      BY <1>2, <2>1
    <2>3. i - 1 \in 1..Len(Tail(steps)) /\ Tail(steps)[i - 1] = steps[(i - 1) + 1] /\ (i - 1) + 1 = i
      BY <1>2, <2>1, <2>2
    <2> QED  BY <2>1, <2>3 DEF Placed
  <1> HIDE DEF g, Q
  <1>6. Leads(Tail(steps), f[2], z, A, Q)
    BY <1>2, <1>3, <1>4, <1>5 DEF Leads
  <1>7. Turns(Head(steps), a, f[2], A)
    BY <1>1, <1>2
  <1> QED  BY <1>6, <1>7 DEF Q

\* One path after another.
LEMMA LeadsConcat ==
    ASSUME NEW a, NEW b, NEW c, NEW s, NEW t, NEW A, NEW P, NEW Q,
           Leads(s, a, b, A, P), Leads(t, b, c, A, Q)
    PROVE  Leads(s \o t, a, c, A, P \cup Q)
  <1>1. PICK f : /\ f[1] = a /\ f[Len(s) + 1] = b
                 /\ \A i \in 1..Len(s) : Turns(s[i], f[i], f[i + 1], A)
    BY DEF Leads
  <1>2. PICK g : /\ g[1] = b /\ g[Len(t) + 1] = c
                 /\ \A i \in 1..Len(t) : Turns(t[i], g[i], g[i + 1], A)
    BY DEF Leads
  <1>3. /\ IsSeq(s) /\ IsSeq(t) /\ Len(s) \in Nat /\ Len(t) \in Nat
        /\ IsSeq(s \o t) /\ Len(s \o t) = Len(s) + Len(t)
        /\ \A i \in 1..Len(s) : (s \o t)[i] = s[i]
        /\ \A i \in (Len(s) + 1)..(Len(s) + Len(t)) : (s \o t)[i] = t[i - Len(s)]
    BY SeqFacts, ConcatFacts DEF Leads
  <1> DEFINE m == Len(s)
             n == Len(t)
             h == [i \in 1..(m + n + 1) |-> IF i <= m THEN f[i] ELSE g[i - m]]
  <1>4. h[1] = a
    <2>1. CASE m = 0
      BY <1>1, <1>2, <1>3, <2>1
    <2>2. CASE m # 0
      BY <1>1, <1>3, <2>2
    <2> QED  BY <2>1, <2>2
  <1>5. h[m + n + 1] = c
    BY <1>2, <1>3
  <1>6. ASSUME NEW i \in 1..(m + n) PROVE Turns((s \o t)[i], h[i], h[i + 1], A)
    <2>1. CASE i < m
      <3>1. h[i] = f[i] /\ h[i + 1] = f[i + 1] /\ (s \o t)[i] = s[i] /\ i \in 1..m
        BY <1>3, <2>1
      <3> QED  BY <3>1, <1>1
    <2>2. CASE i = m
      <3>1. h[i] = f[i] /\ h[i + 1] = g[1] /\ (s \o t)[i] = s[i] /\ i \in 1..m
        BY <1>3, <2>2
      <3>2. Turns(s[i], f[i], f[i + 1], A) /\ f[i + 1] = g[1]
        BY <3>1, <1>1, <1>2, <2>2
      <3> QED  BY <3>1, <3>2
    <2>3. CASE i > m
      <3>1. h[i] = g[i - m] /\ h[i + 1] = g[(i - m) + 1] /\ (s \o t)[i] = t[i - m] /\ i - m \in 1..n
        BY <1>3, <2>3
      <3> QED  BY <3>1, <1>2
    <2> QED  BY <2>1, <2>2, <2>3, <1>3
  <1>7. ASSUME NEW l \in P \cup Q PROVE Placed(s \o t, l)
    <2>1. CASE l \in P
      <3>1. PICK i \in 1..m : s[i].do = "place" /\ s[i].label = l
        BY <2>1 DEF Leads, Placed
      <3>2. i \in 1..Len(s \o t) /\ (s \o t)[i] = s[i]
        BY <1>3, <3>1
      <3> QED  BY <3>1, <3>2 DEF Placed
    <2>2. CASE l \in Q
      <3>1. PICK i \in 1..n : t[i].do = "place" /\ t[i].label = l
        BY <2>2 DEF Leads, Placed
      <3>2. i + m \in 1..Len(s \o t) /\ (s \o t)[i + m] = t[(i + m) - m] /\ (i + m) - m = i
        BY <1>3, <3>1
      <3> QED  BY <3>1, <3>2 DEF Placed
    <2> QED  BY <2>1, <2>2
  <1> HIDE DEF h
  <1> QED  BY <1>3, <1>4, <1>5, <1>6, <1>7 DEF Leads

\* Three paths, one after another, four of them and five.
LEMMA LeadsConcat3 ==
    ASSUME NEW a, NEW b, NEW c, NEW d, NEW s, NEW t, NEW r, NEW A, NEW P, NEW Q, NEW R,
           Leads(s, a, b, A, P), Leads(t, b, c, A, Q), Leads(r, c, d, A, R)
    PROVE  Leads(s \o t \o r, a, d, A, P \cup Q \cup R)
  <1>1. Leads(s \o t, a, c, A, P \cup Q)
    BY LeadsConcat
  <1> QED  BY <1>1, LeadsConcat
LEMMA LeadsConcat4 ==
    ASSUME NEW a, NEW b, NEW c, NEW d, NEW e, NEW s, NEW t, NEW r, NEW q,
           NEW A, NEW P, NEW Q, NEW R, NEW O,
           Leads(s, a, b, A, P), Leads(t, b, c, A, Q), Leads(r, c, d, A, R), Leads(q, d, e, A, O)
    PROVE  Leads(s \o t \o r \o q, a, e, A, P \cup Q \cup R \cup O)
  <1>1. Leads(s \o t \o r, a, d, A, P \cup Q \cup R)
    BY LeadsConcat3
  <1> QED  BY <1>1, LeadsConcat
LEMMA LeadsConcat5 ==
    ASSUME NEW a, NEW b, NEW c, NEW d, NEW e, NEW g, NEW s, NEW t, NEW r, NEW q, NEW x,
           NEW A, NEW P, NEW Q, NEW R, NEW O, NEW X,
           Leads(s, a, b, A, P), Leads(t, b, c, A, Q), Leads(r, c, d, A, R), Leads(q, d, e, A, O),
           Leads(x, e, g, A, X)
    PROVE  Leads(s \o t \o r \o q \o x, a, g, A, P \cup Q \cup R \cup O \cup X)
  <1>1. Leads(s \o t \o r \o q, a, e, A, P \cup Q \cup R \cup O)
    BY LeadsConcat4
  <1> QED  BY <1>1, LeadsConcat

\* Steps that leave what is open as it is.
Evenly(steps, a, A) == IsSeq(steps) /\ \A i \in DOMAIN steps : Turns(steps[i], a, a, A)

\* They are a path.
LEMMA EvenLeads ==
    ASSUME NEW s, NEW a, NEW A, Evenly(s, a, A), NEW P, \A l \in P : Placed(s, l)
    PROVE  Leads(s, a, a, A, P)
  <1> DEFINE f == [i \in 1..(Len(s) + 1) |-> a]
  <1>1. Len(s) \in Nat /\ DOMAIN s = 1..Len(s)
    BY SeqFacts DEF Evenly
  <1>2. f[1] = a /\ f[Len(s) + 1] = a
    BY <1>1
  <1>3. \A i \in 1..Len(s) : Turns(s[i], f[i], f[i + 1], A)
    BY <1>1 DEF Evenly
  <1> HIDE DEF f
  <1> QED  BY <1>2, <1>3 DEF Leads, Evenly

\* The same for steps among which no label is.
LEMMA EvenQuiet == ASSUME NEW s, NEW a, NEW A, Evenly(s, a, A) PROVE Leads(s, a, a, A, {})
  BY EvenLeads

\* A label among the steps.
LEMMA PlacedAt ==
    ASSUME NEW steps, NEW i \in 1..Len(steps), NEW l, NEW from, NEW stack,
           steps[i] = Place(l, from, stack)
    PROVE  Placed(steps, l)
  <1>1. steps[i].do = "place" /\ steps[i].label = l
    BY DEF Place
  <1> QED  BY <1>1 DEF Placed

\* A label alone, and one behind a jump.
LEMMA LabelLeads ==
    ASSUME NEW a \in Depth, NEW A, NEW l, NEW from, NEW stack
    PROVE  /\ Leads(<<Place(l, from, stack)>>, a, a, A, {l})
           /\ \A m \in A : Leads(<<Goto(m), Place(l, from, stack)>>, a, a, A, {l})
  <1> DEFINE last == Place(l, from, stack)
  <1>0. Turns(last, a, a, A) /\ \A m \in A : Turns(Goto(m), a, a, A)
    BY TurnKinds
  <1>1. Placed(<<last>>, l)
    <2> DEFINE s == <<last>>
    <2>1. 1 \in 1..Len(s) /\ s[1] = last
      OBVIOUS
    <2> HIDE DEF s
    <2>2. Placed(s, l)
      BY <2>1, PlacedAt
    <2> QED  BY <2>2 DEF s
  <1>2. \A m : Placed(<<Goto(m), last>>, l)
    <2> SUFFICES ASSUME NEW m PROVE Placed(<<Goto(m), last>>, l)
      OBVIOUS
    <2> DEFINE s == <<Goto(m), last>>
    <2>1. 2 \in 1..Len(s) /\ s[2] = last
      OBVIOUS
    <2> HIDE DEF s
    <2>2. Placed(s, l)
      BY <2>1, PlacedAt
    <2> QED  BY <2>2 DEF s
  <1> HIDE DEF last
  <1>3. Evenly(<<last>>, a, A) /\ \A m \in A : Evenly(<<Goto(m), last>>, a, A)
    BY <1>0, Tuples DEF Evenly
  <1>4. Leads(<<last>>, a, a, A, {l}) /\ \A m \in A : Leads(<<Goto(m), last>>, a, a, A, {l})
    BY <1>1, <1>2, <1>3, EvenLeads
  <1> QED  BY <1>4 DEF last

\* A test of a value without a part, or a name for it.
LEMMA SimpleEven ==
    ASSUME NEW t \in Val, NEW p \in SimplePatterns(t), NEW k, NEW b,
           NEW a, Open(a), NEW A, NEW fail \in A
    PROVE  Evenly(lower_simple_pattern(p, k, t, fail, b), a, A)
  <1>1. /\ p.kind \in {"wildcard", "literal", "path", "range", "binding"}
        /\ p.kind = "range" => t # "Ref"
        /\ p.kind = "path" => t = "Ref"
    BY SimpleKinds DEF Simple
  <1> DEFINE code == lower_simple_pattern(p, k, t, fail, b)
  <1>2. \/ code = <<>>
        \/ code = <<LoadTemp(k), Push(t), Branch(<<"Int", "Int">>, fail)>>
        \/ code = <<LoadTemp(k), Push(t), Op(<<t, t>>, <<"Int">>), Branch(<<"Int">>, fail)>>
        \/ code = <<LoadTemp(k), StoreNew(b, p.name, t)>>
        \/ code = <<LoadTemp(k), Op(<<t>>, <<"Int">>), Branch(<<"Int">>, fail)>>
        \/ code = <<LoadTemp(k), Push(t), Branch(<<"Int", "Int">>, fail),
                    LoadTemp(k), Push(t), Branch(<<"Int", "Int">>, fail)>>
    <2>1. CASE p.kind = "wildcard"
      BY <2>1 DEF lower_simple_pattern
    <2>2. CASE p.kind = "literal" /\ t # "Ref"
      BY <2>2 DEF lower_simple_pattern
    <2>3. CASE p.kind = "literal" /\ t = "Ref"
      BY <2>3 DEF lower_simple_pattern
    <2>4. CASE p.kind = "binding"
      BY <2>4 DEF lower_simple_pattern
    <2>5. CASE p.kind = "path"
      BY <2>5 DEF lower_simple_pattern
    <2>6. CASE p.kind = "range"
      BY <2>6 DEF lower_simple_pattern
    <2> QED  BY <1>1, <2>1, <2>2, <2>3, <2>4, <2>5, <2>6
  <1> HIDE DEF code
  <1>3. a \in Depth
    BY DEF Open
  <1>4. /\ \A pop, push : Turns(Op(pop, push), a, a, A)
        /\ Turns(LoadTemp(k), a, a, A) /\ Turns(Push(t), a, a, A)
        /\ \A pop : Turns(Branch(pop, fail), a, a, A)
        /\ Turns(StoreNew(b, p.name, t), a, a, A)
    BY <1>3, TurnKinds
  <1>5. Evenly(code, a, A)
    BY <1>2, <1>4, Tuples DEF Evenly
  <1> QED  BY <1>5 DEF code

\* The labels of an or-pattern, where an alternative goes when it matches and
\* when it does not.
OrLabels(p, b) == IF p.kind = "or" THEN {b + 4, b + 5} ELSE {}

\* The code that tries a pattern places its own labels; the others it goes to
\* are where it was told to go if it fails.
LEMMA CheckLeads ==
    ASSUME NEW t \in Val, NEW p \in Patterns(t), NEW k, NEW b,
           NEW a, Open(a), NEW A, NEW fail \in A, OrLabels(p, b) \subseteq A
    PROVE  Leads(lower_pattern_check(p, k, t, fail, b), a, a, A, OrLabels(p, b))
  <1>0. a \in Depth
    BY DEF Open
  <1>1. CASE p \in SimplePatterns(t)
    <2>1. p.kind \notin {"struct", "or", "at"}
      BY <1>1, SimpleKinds DEF Simple
    <2>2. lower_pattern_check(p, k, t, fail, b) = lower_simple_pattern(p, k, t, fail, b)
      BY <2>1 DEF lower_pattern_check
    <2>3. OrLabels(p, b) = {}
      BY <2>1 DEF OrLabels
    <2> QED  BY <1>1, <2>2, <2>3, SimpleEven, EvenQuiet
  <1>2. CASE p.kind = "at" /\ p.sub \in SimplePatterns(t)
    <2> DEFINE r == <<LoadTemp(k), StoreNew(b, p.name, t)>>
    <2>1. lower_pattern_check(p, k, t, fail, b) = lower_simple_pattern(p.sub, k, t, fail, b) \o r
      BY <1>2 DEF lower_pattern_check
    <2>2. Turns(LoadTemp(k), a, a, A) /\ Turns(StoreNew(b, p.name, t), a, a, A)
      BY <1>0, TurnKinds
    <2>3. Evenly(r, a, A)
      BY <2>2, Tuples DEF Evenly
    <2>4. OrLabels(p, b) = {} /\ {} \cup {} = {}
      BY <1>2 DEF OrLabels
    <2> HIDE DEF r
    <2>5. Leads(r, a, a, A, {}) /\ Leads(lower_simple_pattern(p.sub, k, t, fail, b), a, a, A, {})
      BY <1>2, <2>3, SimpleEven, EvenQuiet
    <2>6. Leads(lower_simple_pattern(p.sub, k, t, fail, b) \o r, a, a, A, {} \cup {})
      BY <2>5, LeadsConcat
    <2> QED  BY <2>1, <2>4, <2>6
  <1>3. CASE p.kind = "or" /\ p.sub \in SimplePatterns(t)
    <2>1. lower_pattern_check(p, k, t, fail, b)
            = lower_simple_pattern(p.sub, k, t, b + 5, b)
              \o <<Goto(b + 4), Place(b + 5, Live, <<>>)>>
              \o lower_simple_pattern(p.sub, k, t, fail, b)
              \o <<Place(b + 4, Live, <<>>)>>
      BY <1>3 DEF lower_pattern_check, lower_or_pattern
    <2>2. OrLabels(p, b) = {b + 4, b + 5} /\ b + 4 \in A /\ b + 5 \in A
      BY <1>3 DEF OrLabels
    <2>3. /\ Leads(lower_simple_pattern(p.sub, k, t, b + 5, b), a, a, A, {})
          /\ Leads(lower_simple_pattern(p.sub, k, t, fail, b), a, a, A, {})
      BY <1>3, <2>2, SimpleEven, EvenQuiet
    <2>4. /\ Leads(<<Goto(b + 4), Place(b + 5, Live, <<>>)>>, a, a, A, {b + 5})
          /\ Leads(<<Place(b + 4, Live, <<>>)>>, a, a, A, {b + 4})
      BY <1>0, <2>2, LabelLeads
    <2>5. Leads(lower_pattern_check(p, k, t, fail, b), a, a, A, {} \cup {b + 5} \cup {} \cup {b + 4})
      BY <2>1, <2>3, <2>4, LeadsConcat4
    <2>6. {} \cup {b + 5} \cup {} \cup {b + 4} = OrLabels(p, b)
      BY <2>2
    <2> QED  BY <2>5, <2>6
  <1>4. CASE p.kind = "struct" /\ p.sub \in SimplePatterns("Int")
    <2> DEFINE s == <<LoadTemp(k), Op(<<"Ref">>, <<"Int">>), Branch(<<"Int">>, fail),
                      LoadTemp(k), StoreTemp(b + 1, "Ref"),
                      LoadTemp(b + 1), Op(<<"Ref">>, <<"Long">>), StoreTemp(b + 2, "Long"),
                      LoadTemp(b + 1), Op(<<"Ref">>, <<"Int">>), StoreTemp(b + 3, "Int")>>
               r == <<LoadTemp(b + 2), StoreNew(b, p.name, "Long")>>
    <2>1. lower_pattern_check(p, k, t, fail, b)
            = s \o lower_simple_pattern(p.sub, b + 3, "Int", fail, b) \o r
      BY <1>4 DEF lower_pattern_check, lower_struct_pattern
    <2>2. /\ \A x : Turns(LoadTemp(x), a, a, A)
          /\ \A pop, push : Turns(Op(pop, push), a, a, A)
          /\ \A pop : Turns(Branch(pop, fail), a, a, A)
          /\ \A x, ty : Turns(StoreTemp(x, ty), a, a, A)
          /\ Turns(StoreNew(b, p.name, "Long"), a, a, A)
      BY <1>0, TurnKinds
    <2>3. Evenly(s, a, A) /\ Evenly(r, a, A)
      BY <2>2, Tuples DEF Evenly
    <2> HIDE DEF s, r
    <2>4. Evenly(lower_simple_pattern(p.sub, b + 3, "Int", fail, b), a, A)
      BY <1>4, SimpleEven DEF Val
    <2>5. Leads(lower_pattern_check(p, k, t, fail, b), a, a, A, {} \cup {} \cup {})
      BY <2>1, <2>3, <2>4, EvenQuiet, LeadsConcat3
    <2>6. OrLabels(p, b) = {} \cup {} \cup {}
      BY <1>4 DEF OrLabels
    <2> QED  BY <2>5, <2>6
  <1> QED  BY <1>1, <1>2, <1>3, <1>4, PatternKinds

\* Publishing what a pattern binds goes nowhere.
LEMMA BindLeads ==
    ASSUME NEW p, NEW b, NEW a, Open(a), NEW A
    PROVE  Leads(bind_pattern(p, b), a, a, A, {})
  <1>1. bind_pattern(p, b) = <<>> \/ bind_pattern(p, b) = <<Define(p.name, b)>>
    BY DEF bind_pattern
  <1>2. Turns(Define(p.name, b), a, a, A)
    BY TurnKinds DEF Open
  <1> QED  BY <1>1, <1>2, LeadsEmpty, LeadsOne

\* A block opens its scopes and the end of its statements closes them.
LEMMA BodyLeads ==
    ASSUME NEW ty, NEW in, NEW next, NEW a \in Depth,
           "loop" \in in => a[1] >= 1, NEW A
    PROVE  Leads(Body(ty, in, next), a, a, A, {})
  <1> DEFINE c == ScopeIn(a)
             d == EnvIn(c)
             last == Stmts(ty, in, next)
             s == <<PushScope, Enter, last>>
             f == <<a, c, d, a>>
  <1>1. c \in Depth /\ d \in Depth /\ Open(d)
    BY Depths
  <1>2. Fits(in, d)
    BY <1>1 DEF Fits, ScopeIn, EnvIn
  <1>3. Turns(PushScope, a, c, A) /\ Turns(Enter, c, d, A) /\ Turns(last, d, a, A)
    BY <1>1, <1>2, TurnKinds
  <1> HIDE DEF c, d, last
  <1>4. IsSeq(s) /\ Len(s) = 3 /\ f[1] = a /\ f[3 + 1] = a
    BY Tuples
  <1>5. \A i \in 1..3 : Turns(s[i], f[i], f[i + 1], A)
    BY <1>3
  <1> HIDE DEF s, f
  <1>6. Leads(s, a, a, A, {})
    BY <1>4, <1>5, LeadsBy
  <1> QED  BY <1>6 DEF s, last, Body

\* The value of an arm or a block, and the end of its scopes.
LEMMA EndLeads ==
    ASSUME NEW ty, NEW in, NEW next, NEW a \in Depth, "loop" \in in => a[1] >= 1, NEW A
    PROVE  Leads(<<E(ty, in, next), Leave, PopScope>>, EnvIn(ScopeIn(a)), a, A, {})
  <1> DEFINE c == ScopeIn(a)
             d == EnvIn(c)
             value == E(ty, in, next)
             s == <<value, Leave, PopScope>>
             f == <<d, d, c, a>>
  <1>1. c \in Depth /\ d \in Depth /\ Open(d)
    BY Depths
  <1>2. Fits(in, d)
    BY <1>1 DEF Fits, ScopeIn, EnvIn
  <1>3. Turns(value, d, d, A) /\ Turns(Leave, d, c, A) /\ Turns(PopScope, c, a, A)
    BY <1>1, <1>2, TurnKinds
  <1> HIDE DEF c, d, value
  <1>4. IsSeq(s) /\ Len(s) = 3 /\ f[1] = d /\ f[3 + 1] = a
    BY Tuples
  <1>5. \A i \in 1..3 : Turns(s[i], f[i], f[i + 1], A)
    BY <1>3
  <1> HIDE DEF s, f
  <1>6. Leads(s, d, a, A, {})
    BY <1>4, <1>5, LeadsBy
  <1> QED  BY <1>6 DEF s, value, d, c

\* The code of a form places every label it goes to, and leaves open what was.
Labelled(steps, a) == \E P : Leads(steps, a, a, P, P)

\* Steps without labels.
LEMMA EvenLabelled == ASSUME NEW s, NEW a, Evenly(s, a, {}) PROVE Labelled(s, a)
  BY EvenQuiet DEF Labelled

\* Forms without a jump of their own.
LEMMA PlainLabelled ==
    ASSUME NEW e, NEW a, Fits(e.in, a), NEW steps,
           steps \in Atoms(e) \cup lower_call(e) \cup lower_assign(e)
    PROVE  Labelled(steps, a)
  <1>0. /\ \A pop, push : Turns(Op(pop, push), a, a, {})
        /\ \A n : Turns(LoadName(n), a, a, {}) /\ Turns(AssignTo(n), a, a, {})
        /\ \A ty : Turns(Push(ty), a, a, {})
        /\ \A t : /\ Turns(E(t, e.in, "code"), a, a, {})
                  /\ Turns(E(t, e.in \cup {"operand"}, "code"), a, a, {})
    BY FitsIn, TurnKinds
  <1>1. CASE steps \in Atoms(e)
    <2>1. \/ \E n : steps = <<LoadName(n)>>
          \/ steps = <<Push(e.ty)>>
          \/ steps = <<>>
      BY <1>1 DEF Atoms
    <2>2. Evenly(steps, a, {})
      BY <1>0, <2>1, Tuples DEF Evenly
    <2> QED  BY <2>2, EvenLabelled
  <1>2. CASE steps \in lower_call(e)
    <2>1. \E x, y, z : steps = <<x, y, z>> /\ \A s \in {x, y, z} : Turns(s, a, a, {})
      <3>1. CASE \E t1, t2 \in Val :
                   steps = <<E(t1, e.in, "code"), E(t2, e.in \cup {"operand"}, "code"),
                             Op(<<t1, t2>>, StackOf(e.ty))>>
        <4>1. PICK t1, t2 : steps = <<E(t1, e.in, "code"), E(t2, e.in \cup {"operand"}, "code"),
                                      Op(<<t1, t2>>, StackOf(e.ty))>>
          BY <3>1
        <4>2. \A s \in {E(t1, e.in, "code"), E(t2, e.in \cup {"operand"}, "code"),
                         Op(<<t1, t2>>, StackOf(e.ty))} : Turns(s, a, a, {})
          BY <1>0
        <4> QED  BY <4>1, <4>2
      <3>2. CASE \E t \in Val : \E x \in {Op(<<>>, <<"Ref", "Ref">>), Push("Ref")} :
                   steps = <<x, E(t, e.in \cup {"operand"}, "code"), Op(<<"Ref", t>>, <<>>)>>
        <4>1. PICK t \in Val, x \in {Op(<<>>, <<"Ref", "Ref">>), Push("Ref")} :
                   steps = <<x, E(t, e.in \cup {"operand"}, "code"), Op(<<"Ref", t>>, <<>>)>>
          BY <3>2
        <4>2. \A s \in {x, E(t, e.in \cup {"operand"}, "code"), Op(<<"Ref", t>>, <<>>)} :
                 Turns(s, a, a, {})
          BY <1>0
        <4> QED  BY <4>1, <4>2
      <3> QED  BY <1>2, <3>1, <3>2, CallForms
    <2>2. Evenly(steps, a, {})
      BY <2>1, Tuples DEF Evenly
    <2> QED  BY <2>2, EvenLabelled
  <1>3. CASE steps \in lower_assign(e)
    <2>1. \E n : steps = <<E(Lookup(n).ty, e.in, "code"), AssignTo(n)>>
      BY <1>3 DEF lower_assign
    <2>2. Evenly(steps, a, {})
      BY <1>0, <2>1, Tuples DEF Evenly
    <2> QED  BY <2>2, EvenLabelled
  <1> QED  BY <1>1, <1>2, <1>3

\* A return, and a break or continue where there is a loop.
LEMMA DivergingLabelled ==
    ASSUME NEW e, NEW a, Fits(e.in, a), NEW steps \in Diverging(e)
    PROVE  Labelled(steps, a)
  <1>0. /\ \A t : Turns(Return(t), a, a, {}) /\ Turns(E(t, e.in, "code"), a, a, {})
        /\ "loop" \in e.in => Turns(Do("break"), a, a, {}) /\ Turns(Do("continue"), a, a, {})
    BY FitsIn, TurnKinds DEF Fits
  <1> DEFINE Value(t) == <<E(t, e.in, "code"), Do("break")>>
  <1>1. \/ \E t : steps = <<Return(t)>> \/ steps = <<E(t, e.in, "code"), Return(t)>>
        \/ /\ "loop" \in e.in
           /\ steps \in {<<Do("break")>>, <<Do("continue")>>} \/ \E t : steps = Value(t)
    BY DEF Diverging
  <1>2. Evenly(steps, a, {})
    <2> DEFINE break == Do("break")
               continue == Do("continue")
    <2>1. "loop" \in e.in => Turns(break, a, a, {}) /\ Turns(continue, a, a, {})
      BY <1>0
    <2> HIDE DEF break, continue
    <2>2. /\ \A t : Evenly(<<Return(t)>>, a, {}) /\ Evenly(<<E(t, e.in, "code"), Return(t)>>, a, {})
          /\ "loop" \in e.in => /\ Evenly(<<break>>, a, {}) /\ Evenly(<<continue>>, a, {})
                                /\ \A t : Evenly(<<E(t, e.in, "code"), break>>, a, {})
      BY <1>0, <2>1, Tuples DEF Evenly
    <2> QED  BY <1>1, <2>2 DEF break, continue
  <1> QED  BY <1>2, EvenLabelled

\* Comparisons, short circuits and `?`.
LEMMA JumpingLabelled ==
    ASSUME NEW e, NEW a, Fits(e.in, a), NEW L, NEW steps,
           steps \in lower_comparison(e, L) \cup lower_short_circuit(e, L) \cup lower_try(e, L)
    PROVE  Labelled(steps, a)
  <1> DEFINE A == {L, L + 1}
  <1>0. /\ \A pop, push : Turns(Op(pop, push), a, a, A) /\ Turns(Op(pop, push), a, a, {L})
        /\ \A ty : Turns(Push(ty), a, a, A) /\ Turns(Return(ty), a, a, {L})
        /\ \A t : /\ Turns(E(t, e.in, "code"), a, a, A) /\ Turns(E(t, e.in, "code"), a, a, {L})
                  /\ Turns(E(t, e.in \cup {"operand"}, "code"), a, a, A)
                  /\ Turns(E(t, e.in \cup {"cond"}, "code"), a, a, A)
        /\ \A pop : Turns(Branch(pop, L), a, a, A) /\ Turns(Branch(pop, L), a, a, {L})
        /\ Turns(Goto(L + 1), a, a, A)
        /\ \A l, stack : Turns(Place(l, Live, stack), a, a, A) /\ Turns(Place(l, Live, stack), a, a, {L})
    BY FitsIn, TurnKinds
  <1> HIDE DEF A
  <1>1. CASE steps \in lower_comparison(e, L)
    <2> DEFINE s(t) == <<E(t, e.in, "code"), E(t, e.in \cup {"operand"}, "code")>>
               r(t) == IF t = "Long" THEN <<Op(<<t, t>>, <<"Int">>), Branch(<<"Int">>, L)>>
                                     ELSE <<Branch(<<t, t>>, L)>>
               z == <<Push("Int"), Goto(L + 1), Place(L, Live, <<>>),
                      Push("Int"), Place(L + 1, Live, <<"Int">>)>>
    <2>1. PICK t : steps = s(t) \o r(t) \o z
      BY <1>1 DEF lower_comparison
    <2>2. Evenly(s(t), a, A) /\ Evenly(r(t), a, A) /\ Evenly(z, a, A)
      <3>1. Evenly(s(t), a, A)
        BY <1>0, Tuples DEF Evenly
      <3>2. Evenly(r(t), a, A)
        BY <1>0, Tuples DEF Evenly
      <3>3. Evenly(z, a, A)
        BY <1>0, Tuples DEF Evenly
      <3> QED  BY <3>1, <3>2, <3>3
    <2>3. 3 \in 1..Len(z) /\ 5 \in 1..Len(z) /\ z[3] = Place(L, Live, <<>>)
          /\ z[5] = Place(L + 1, Live, <<"Int">>)
      OBVIOUS
    <2> HIDE DEF s, r, z
    <2>4. \A l \in A : Placed(z, l)
      BY <2>3, PlacedAt DEF A
    <2>5. Leads(steps, a, a, A, {} \cup {} \cup A)
      BY <2>1, <2>2, <2>4, EvenLeads, EvenQuiet, LeadsConcat3
    <2>6. {} \cup {} \cup A = A
      OBVIOUS
    <2> QED  BY <2>5, <2>6 DEF Labelled
  <1>2. CASE steps \in lower_short_circuit(e, L)
    <2> DEFINE s == <<E("Int", e.in, "code"), Branch(<<"Int">>, L),
                      E("Int", e.in \cup {"cond"}, "code"), Goto(L + 1),
                      Place(L, Live, <<>>), Push("Int"), Place(L + 1, Live, <<"Int">>)>>
    <2>1. steps = s
      BY <1>2 DEF lower_short_circuit
    <2>2. Evenly(s, a, A)
      BY <1>0, Tuples DEF Evenly
    <2>3. 5 \in 1..Len(s) /\ 7 \in 1..Len(s) /\ s[5] = Place(L, Live, <<>>)
          /\ s[7] = Place(L + 1, Live, <<"Int">>)
      OBVIOUS
    <2> HIDE DEF s
    <2>4. \A l \in A : Placed(s, l)
      BY <2>3, PlacedAt DEF A
    <2> QED  BY <2>1, <2>2, <2>4, EvenLeads DEF Labelled
  <1>3. CASE steps \in lower_try(e, L)
    <2> DEFINE s == <<E("Ref", e.in, "code"), Op(<<"Ref">>, <<"Ref", "Ref">>),
                      Op(<<"Ref">>, <<"Int">>), Branch(<<"Int">>, L), Return("Ref"),
                      Place(L, Live, <<"Ref">>), Op(<<"Ref">>, <<e.ty>>)>>
    <2>1. steps = s
      BY <1>3 DEF lower_try
    <2>2. Evenly(s, a, {L})
      <3> DEFINE B == {L}
      <3>1. /\ \A pop, push : Turns(Op(pop, push), a, a, B)
            /\ Turns(Return("Ref"), a, a, B) /\ Turns(E("Ref", e.in, "code"), a, a, B)
            /\ Turns(Branch(<<"Int">>, L), a, a, B) /\ Turns(Place(L, Live, <<"Ref">>), a, a, B)
        BY <1>0
      <3> HIDE DEF B
      <3>2. Evenly(s, a, B)
        BY <3>1, Tuples DEF Evenly
      <3> QED  BY <3>2 DEF B
    <2>3. 6 \in 1..Len(s) /\ s[6] = Place(L, Live, <<"Ref">>)
      OBVIOUS
    <2> HIDE DEF s
    <2>4. \A l \in {L} : Placed(s, l)
      BY <2>3, PlacedAt
    <2> QED  BY <2>1, <2>2, <2>4, EvenLeads DEF Labelled
  <1> QED  BY <1>1, <1>2, <1>3

\* if, with or without an else.
LEMMA IfLabelled ==
    ASSUME NEW e, NEW a, Fits(e.in, a), NEW L, NEW steps \in lower_if(e, L)
    PROVE  Labelled(steps, a)
  <1> DEFINE c == ScopeIn(a)
             cond == E("Int", e.in \cup {"cond"}, "code")
             test == Branch(<<"Int">>, L)
             else == Else(e.ty, e.in)
             first == Place(L, L, <<>>)
             last == Place(L + 1, L, StackOf(e.ty))
             head == <<Snapshot(L), cond, test, PushScope>>
             one == <<PopScope, first>>
             two == <<PopScope, Goto(L + 1), first, PushScope, else, PopScope, last>>
             A == {L, L + 1}
  <1>1. \/ \E t : steps = head \o Body(t, e.in, "label") \o one
        \/ steps = head \o Body(e.ty, e.in, "end") \o two
    BY IfForms
  <1>2. a \in Depth /\ c \in Depth /\ Fits(e.in, c) /\ Fits(e.in \cup {"cond"}, a)
    BY FitsIn, Depths
  <1>3. /\ \A B : L \in B => /\ Turns(Snapshot(L), a, a, B) /\ Turns(cond, a, a, B)
                             /\ Turns(test, a, a, B)
                             /\ Turns(PushScope, a, c, B) /\ Turns(PopScope, c, a, B)
                             /\ Turns(first, a, a, B)
        /\ Turns(Goto(L + 1), a, a, A) /\ Turns(last, a, a, A) /\ Turns(else, c, c, A)
    BY <1>2, TurnKinds
  <1>4. first = Place(L, L, <<>>) /\ last = Place(L + 1, L, StackOf(e.ty))
    OBVIOUS
  <1>5. \A ty, next, B : Leads(Body(ty, e.in, next), c, c, B, {})
    BY <1>2, BodyLeads DEF Fits
  <1> HIDE DEF c, cond, test, else, first, last
  <1>6. ASSUME NEW B, L \in B PROVE Leads(head, a, c, B, {})
    <2> DEFINE f == <<a, a, a, a, c>>
    <2>1. IsSeq(head) /\ Len(head) = 4 /\ f[1] = a /\ f[4 + 1] = c
      BY Tuples
    <2>2. \A i \in 1..4 : Turns(head[i], f[i], f[i + 1], B)
      BY <1>3, <1>6
    <2> HIDE DEF head, f
    <2> QED  BY <2>1, <2>2, LeadsBy
  <1>7. Leads(one, c, a, {L}, {L})
    <2> DEFINE f == <<c, a, a>>
    <2>1. IsSeq(one) /\ Len(one) = 2 /\ f[1] = c /\ f[2 + 1] = a
          /\ 2 \in 1..Len(one) /\ one[2] = first
      BY Tuples
    <2>2. \A i \in 1..2 : Turns(one[i], f[i], f[i + 1], {L})
      BY <1>3
    <2> HIDE DEF one, f
    <2>3. \A l \in {L} : Placed(one, l)
      BY <1>4, <2>1, PlacedAt
    <2> QED  BY <2>1, <2>2, <2>3, LeadsBy
  <1>8. Leads(two, c, a, A, A)
    <2> DEFINE f == <<c, a, a, a, c, c, a, a>>
    <2>0. /\ Turns(PopScope, c, a, A) /\ Turns(first, a, a, A) /\ Turns(PushScope, a, c, A)
      BY <1>3
    <2>1. IsSeq(two) /\ Len(two) = 7 /\ f[1] = c /\ f[7 + 1] = a
          /\ 3 \in 1..Len(two) /\ two[3] = first /\ 7 \in 1..Len(two) /\ two[7] = last
      BY Tuples
    <2>2. \A i \in 1..7 : Turns(two[i], f[i], f[i + 1], A)
      <3> HIDE DEF A
      <3> QED  BY <1>3, <2>0
    <2> HIDE DEF two, f
    <2>3. \A l \in A : Placed(two, l)
      BY <1>4, <2>1, PlacedAt
    <2> QED  BY <2>1, <2>2, <2>3, LeadsBy
  <1>9. L \in A /\ L \in {L} /\ {} \cup {} \cup A = A /\ {} \cup {} \cup {L} = {L}
    OBVIOUS
  <1> HIDE DEF head, one, two, A
  <1>10. /\ \A t : Leads(head \o Body(t, e.in, "label") \o one, a, a, {L}, {} \cup {} \cup {L})
         /\ Leads(head \o Body(e.ty, e.in, "end") \o two, a, a, A, {} \cup {} \cup A)
    BY <1>5, <1>6, <1>7, <1>8, <1>9, LeadsConcat3
  <1> QED  BY <1>1, <1>9, <1>10 DEF Labelled

\* An arm goes where it is told to go if it fails.
LEMMA ArmLeads ==
    ASSUME NEW t \in Val, NEW p \in Patterns(t), NEW guarded, NEW k, NEW b,
           NEW e, NEW a, Fits(e.in, a), NEW A, NEW next_arm \in A, OrLabels(p, b) \subseteq A
    PROVE  Leads(lower_arm(p, guarded, k, t, next_arm, b, e), a, a, A, OrLabels(p, b))
  <1> DEFINE c == ScopeIn(a)
             d == EnvIn(c)
             open == <<PushScope, Enter>>
             check == lower_pattern_check(p, k, t, next_arm, b)
             bind == bind_pattern(p, b)
             guard == IF guarded THEN <<E("Int", e.in, "code"), Branch(<<"Int">>, next_arm)>>
                                 ELSE <<>>
             end == <<E(e.ty, e.in, e.next), Leave, PopScope>>
  <1>1. lower_arm(p, guarded, k, t, next_arm, b, e) = open \o check \o bind \o guard \o end
    BY DEF lower_arm
  <1>2. a \in Depth /\ c \in Depth /\ d \in Depth /\ Open(d) /\ Fits(e.in, d)
    BY FitsIn, Depths
  <1>3. Leads(open, a, d, A, {})
    <2> DEFINE f == <<a, c, d>>
    <2>1. Turns(PushScope, a, c, A) /\ Turns(Enter, c, d, A)
      BY <1>2, TurnKinds
    <2> HIDE DEF c, d
    <2>2. IsSeq(open) /\ Len(open) = 2 /\ f[1] = a /\ f[2 + 1] = d
      BY Tuples
    <2>3. \A i \in 1..2 : Turns(open[i], f[i], f[i + 1], A)
      BY <2>1
    <2> HIDE DEF open, f
    <2> QED  BY <2>2, <2>3, LeadsBy
  <1>4. Leads(check, d, d, A, OrLabels(p, b)) /\ Leads(bind, d, d, A, {})
    BY <1>2, CheckLeads, BindLeads
  <1>5. Leads(guard, d, d, A, {})
    <2>1. Turns(E("Int", e.in, "code"), d, d, A) /\ Turns(Branch(<<"Int">>, next_arm), d, d, A)
      BY <1>2, TurnKinds
    <2> HIDE DEF d
    <2>2. Evenly(guard, d, A)
      BY <2>1, Tuples DEF Evenly
    <2> QED  BY <2>2, EvenQuiet
  <1>6. Leads(end, d, a, A, {})
    BY <1>2, EndLeads DEF Fits
  <1> HIDE DEF c, d, open, check, bind, guard, end
  <1>7. Leads(open \o check \o bind \o guard \o end, a, a, A, {} \cup OrLabels(p, b) \cup {} \cup {} \cup {})
    BY <1>3, <1>4, <1>5, <1>6, LeadsConcat5
  <1>8. {} \cup OrLabels(p, b) \cup {} \cup {} \cup {} = OrLabels(p, b)
    OBVIOUS
  <1> QED  BY <1>1, <1>7, <1>8

\* match: what its first arm goes to on failure is placed before the last one.
LEMMA MatchLabelled ==
    ASSUME NEW e, Formed(e), NEW a, Fits(e.in, a), NEW L, NEW steps \in lower_match(e, L)
    PROVE  Labelled(steps, a)
  <1> DEFINE end == L + 1
             next_arm == L + 2
             first == [e EXCEPT !.next = "end"]
             last == [e EXCEPT !.next = "label"]
             FirstArms(t) == UNION {{p} \X Guards(p) : p \in {x \in Patterns(t) : MayMatch(x)}}
             LastArms(t) == IF Avoids("lastArm") /\ e.ty \in Val
                              THEN {q \in SimplePatterns(t) : Irrefutable(q)} \X {FALSE}
                              ELSE UNION {{q} \X Guards(q) : q \in SimplePatterns(t)}
             Start(t) == <<E(t, e.in, "code"), StoreNew(L, "__match_scrutinee", t), Snapshot(L)>>
             First(t, x) == lower_arm(x[1], x[2], L, t, next_arm, L + 3, first)
             middle == <<Goto(end), Place(next_arm, L, <<>>)>>
             Second(t, q) == lower_arm(q[1], q[2], L, t, end, L + 3 + PatternKeys, last)
             tail == <<Place(end, L, StackOf(e.ty))>>
             Code(t, x, q) == Start(t) \o First(t, x) \o middle \o Second(t, q) \o tail
             All(t) == {Code(t, x, q) : x \in FirstArms(t), q \in LastArms(t)}
  <1>1. PICK t \in Val : steps \in All(t)
    <2>1. lower_match(e, L)
            = IF ~ (MayPlace(e) /\ MayHold("__match_scrutinee") /\ MayLeak(e)) THEN {}
              ELSE UNION {All(t) : t \in Val}
      BY DEF lower_match
    <2> HIDE DEF All
    <2> QED  BY <2>1
  <1>2. PICK x \in FirstArms(t), q \in LastArms(t) : steps = Code(t, x, q)
    <2> HIDE DEF FirstArms, LastArms, Code
    <2> QED  BY <1>1
  <1>3. x[1] \in Patterns(t)
    OBVIOUS
  <1>4. q[1] \in Patterns(t)
    <2>1. CASE Avoids("lastArm") /\ e.ty \in Val
      <3>1. q \in {y \in SimplePatterns(t) : Irrefutable(y)} \X {FALSE}
        BY <2>1
      <3> QED  BY <3>1 DEF Patterns
    <2>2. CASE ~ (Avoids("lastArm") /\ e.ty \in Val)
      <3>1. q \in UNION {{y} \X Guards(y) : y \in SimplePatterns(t)}
        BY <2>2
      <3> QED  BY <3>1 DEF Patterns
    <2> QED  BY <2>1, <2>2
  <1>5. first.in = e.in /\ last.in = e.in
    BY DEF Formed
  <1> DEFINE One == OrLabels(x[1], L + 3)
             Two == OrLabels(q[1], L + 3 + PatternKeys)
             A == {end, next_arm} \cup One \cup Two
  <1>6. end \in A /\ next_arm \in A /\ One \subseteq A /\ Two \subseteq A
        /\ {} \cup One \cup {next_arm} \cup Two \cup {end} = A
    OBVIOUS
  <1>7. t \in Val /\ a \in Depth /\ Open(a)
    BY FitsIn DEF Fits
  <1> HIDE DEF A, FirstArms, LastArms
  <1>8. Leads(Start(t), a, a, A, {})
    <2>1. /\ Turns(E(t, e.in, "code"), a, a, A) /\ Turns(Snapshot(L), a, a, A)
          /\ Turns(StoreNew(L, "__match_scrutinee", t), a, a, A)
      BY <1>7, TurnKinds
    <2>2. Evenly(Start(t), a, A)
      BY <2>1, Tuples DEF Evenly
    <2> QED  BY <2>2, EvenQuiet
  <1>9. Leads(First(t, x), a, a, A, One)
    <2> HIDE DEF first, next_arm
    <2> QED  BY <1>3, <1>5, <1>6, <1>7, ArmLeads
  <1>10. Leads(Second(t, q), a, a, A, Two)
    <2> HIDE DEF last, end
    <2> QED  BY <1>4, <1>5, <1>6, <1>7, ArmLeads
  <1>11. Leads(middle, a, a, A, {next_arm}) /\ Leads(tail, a, a, A, {end})
    BY <1>6, <1>7, LabelLeads
  <1> HIDE DEF Start, First, middle, Second, tail, One, Two, end, next_arm
  <1>12. Leads(Start(t) \o First(t, x) \o middle \o Second(t, q) \o tail, a, a, A,
               {} \cup One \cup {next_arm} \cup Two \cup {end})
    BY <1>8, <1>9, <1>10, <1>11, LeadsConcat5
  <1>13. steps = Start(t) \o First(t, x) \o middle \o Second(t, q) \o tail
    BY <1>2
  <1> QED  BY <1>6, <1>12, <1>13 DEF Labelled

\* if let, with or without an else.
LEMMA IfLetLabelled ==
    ASSUME NEW e, NEW a, Fits(e.in, a), NEW L, NEW steps \in lower_if_let(e, L)
    PROVE  Labelled(steps, a)
  <1> DEFINE c == ScopeIn(a)
             d == EnvIn(c)
             Scrutinised(t) ==
               <<E(t, e.in, "code"), StoreNew(L, "__if_let_scrutinee", t), Snapshot(L),
                 PushScope, Enter>>
             check(p, t) == lower_pattern_check(p, L, t, L + 1, L + 3)
             bind(p) == bind_pattern(p, L + 3)
             body == Body(e.ty, e.in, "end")
             close == <<Leave, PopScope, Goto(L + 2), Place(L + 1, L, <<>>)>>
             Matches(p, t) == check(p, t) \o bind(p) \o body \o close
             last == <<Place(L + 2, L, StackOf(e.ty))>>
             Otherwise == {<<Else(e.ty, e.in)>>} \cup (IF e.ty = "Unit" THEN {<<>>} ELSE {})
             All(t) == {Scrutinised(t) \o Matches(p, t) \o s \o last :
                          s \in Otherwise, p \in {x \in Patterns(t) : MayMatch(x)}}
  <1>1. PICK t \in Val : steps \in All(t)
    <2>1. lower_if_let(e, L)
            = IF \/ ~ (MayPlace(e) /\ MayHold("__if_let_scrutinee") /\ MayLeak(e))
                 \/ Avoids("sharedLabel") /\ e.next = "else"
                THEN {} ELSE UNION {All(t) : t \in Val}
      BY DEF lower_if_let
    <2> HIDE DEF All
    <2> QED  BY <2>1
  <1>2. PICK p \in Patterns(t), s \in Otherwise : steps = Scrutinised(t) \o Matches(p, t) \o s \o last
    <2> HIDE DEF Scrutinised, Matches, last, Otherwise
    <2> QED  BY <1>1
  <1> DEFINE Or == OrLabels(p, L + 3)
             A == {L + 1, L + 2} \cup Or
  <1>3. /\ L + 1 \in A /\ L + 2 \in A /\ Or \subseteq A
        /\ Or \cup {} \cup {} \cup {L + 1} = Or \cup {L + 1}
        /\ {} \cup (Or \cup {L + 1}) \cup {} \cup {L + 2} = A
    OBVIOUS
  <1>4. /\ t \in Val /\ a \in Depth /\ Open(a) /\ c \in Depth /\ d \in Depth /\ Open(d)
        /\ Fits(e.in, d)
    BY FitsIn, Depths DEF Fits
  <1> HIDE DEF A
  <1>5. Leads(Scrutinised(t), a, d, A, {})
    <2> DEFINE value == E(t, e.in, "code")
               store == StoreNew(L, "__if_let_scrutinee", t)
               z == <<value, store, Snapshot(L), PushScope, Enter>>
               f == <<a, a, a, a, c, d>>
    <2>1. /\ Turns(value, a, a, A) /\ Turns(store, a, a, A) /\ Turns(Snapshot(L), a, a, A)
          /\ Turns(PushScope, a, c, A) /\ Turns(Enter, c, d, A)
      BY <1>4, TurnKinds
    <2> HIDE DEF c, d, value, store
    <2>2. IsSeq(z) /\ Len(z) = 5 /\ f[1] = a /\ f[5 + 1] = d
      BY Tuples
    <2>3. \A i \in 1..5 : Turns(z[i], f[i], f[i + 1], A)
      BY <2>1
    <2> HIDE DEF z, f
    <2>4. Leads(z, a, d, A, {})
      BY <2>2, <2>3, LeadsBy
    <2> QED  BY <2>4 DEF z, value, store
  <1>6. Leads(Matches(p, t), d, a, A, Or \cup {L + 1})
    <2>1. Leads(check(p, t), d, d, A, Or) /\ Leads(bind(p), d, d, A, {}) /\ Leads(body, d, d, A, {})
      BY <1>3, <1>4, CheckLeads, BindLeads, BodyLeads DEF Fits
    <2>2. Leads(close, d, a, A, {L + 1})
      <3> DEFINE next == Place(L + 1, L, <<>>)
                 z == <<Leave, PopScope, Goto(L + 2), next>>
                 f == <<d, c, a, a, a>>
      <3>1. /\ Turns(Leave, d, c, A) /\ Turns(PopScope, c, a, A) /\ Turns(Goto(L + 2), a, a, A)
            /\ Turns(next, a, a, A)
        BY <1>3, <1>4, TurnKinds
      <3> HIDE DEF c, d
      <3>2. IsSeq(z) /\ Len(z) = 4 /\ f[1] = d /\ f[4 + 1] = a /\ 4 \in 1..Len(z) /\ z[4] = next
        BY Tuples
      <3>3. \A i \in 1..4 : Turns(z[i], f[i], f[i + 1], A)
        <4> HIDE DEF next
        <4> QED  BY <3>1
      <3> HIDE DEF z, f
      <3>4. \A l \in {L + 1} : Placed(z, l)
        BY <3>2, PlacedAt
      <3>5. Leads(z, d, a, A, {L + 1})
        BY <3>2, <3>3, <3>4, LeadsBy
      <3> QED  BY <3>5 DEF z, next
    <2> HIDE DEF c, d, check, bind, body, close, Or
    <2>3. Leads(Matches(p, t), d, a, A, Or \cup {} \cup {} \cup {L + 1})
      BY <2>1, <2>2, LeadsConcat4
    <2> QED  BY <1>3, <2>3
  <1>7. Leads(s, a, a, A, {})
    <2>1. Turns(Else(e.ty, e.in), a, a, A)
      BY <1>4, TurnKinds
    <2>2. s = <<>> \/ s = <<Else(e.ty, e.in)>>
      OBVIOUS
    <2> QED  BY <2>1, <2>2, LeadsEmpty, LeadsOne
  <1>8. Leads(last, a, a, A, {L + 2})
    BY <1>4, LabelLeads
  <1> HIDE DEF c, d, Scrutinised, Matches, last, Otherwise, Or
  <1>9. Leads(steps, a, a, A, {} \cup (Or \cup {L + 1}) \cup {} \cup {L + 2})
    BY <1>2, <1>5, <1>6, <1>7, <1>8, LeadsConcat4
  <1> QED  BY <1>3, <1>9 DEF Labelled

\* while and loop.
LEMMA WhileLabelled ==
    ASSUME NEW e, NEW a, Fits(e.in, a), NEW L, NEW steps \in lower_while(e, L)
    PROVE  Labelled(steps, a)
  <1> DEFINE c == LoopIn(a)
             d == ScopeIn(c)
             A == {L, L + 1}
             in == e.in \cup {"loop"}
             top == <<Place(L, Live, <<>>)>>
             test == <<E("Int", e.in \cup {"cond"}, "code"), Branch(<<"Int">>, L + 1)>>
             open == <<PushLoop(L + 1, L), PushScope>>
             Inner(t) == Body(t, in, "end")
             close == <<PopScope, PopLoop, Goto(L), Place(L + 1, Live, <<>>)>>
             Loop(cond, t) == top \o cond \o open \o Inner(t) \o close
  <1>1. PICK t \in AnyBody : steps = Loop(test, t) \/ steps = Loop(<<>>, t)
    BY WhileForms
  <1>2. L \in A /\ L + 1 \in A /\ {L} \cup {} \cup {} \cup {} \cup {L + 1} = A
    OBVIOUS
  <1>3. a \in Depth /\ c \in Depth /\ d \in Depth /\ Fits(in, d) /\ Fits(e.in \cup {"cond"}, a)
    BY FitsIn, Depths
  <1> HIDE DEF A
  <1>4. Leads(top, a, a, A, {L})
    BY <1>3, LabelLeads
  <1>5. Leads(test, a, a, A, {}) /\ Leads(<<>>, a, a, A, {})
    <2>1. /\ Turns(E("Int", e.in \cup {"cond"}, "code"), a, a, A)
          /\ Turns(Branch(<<"Int">>, L + 1), a, a, A)
      BY <1>2, <1>3, TurnKinds
    <2>2. Evenly(test, a, A)
      BY <2>1, Tuples DEF Evenly
    <2> QED  BY <2>2, EvenQuiet, LeadsEmpty
  <1>6. Leads(open, a, d, A, {})
    <2> DEFINE push == PushLoop(L + 1, L)
               z == <<push, PushScope>>
               f == <<a, c, d>>
    <2>1. Turns(push, a, c, A) /\ Turns(PushScope, c, d, A)
      BY <1>2, <1>3, TurnKinds
    <2> HIDE DEF c, d, push
    <2>2. IsSeq(z) /\ Len(z) = 2 /\ f[1] = a /\ f[2 + 1] = d
      BY Tuples
    <2>3. \A i \in 1..2 : Turns(z[i], f[i], f[i + 1], A)
      BY <2>1
    <2> HIDE DEF z, f
    <2>4. Leads(z, a, d, A, {})
      BY <2>2, <2>3, LeadsBy
    <2> QED  BY <2>4 DEF z, push
  <1>7. Leads(Inner(t), d, d, A, {})
    BY <1>3, BodyLeads DEF Fits
  <1>8. Leads(close, d, a, A, {L + 1})
    <2> DEFINE last == Place(L + 1, Live, <<>>)
               z == <<PopScope, PopLoop, Goto(L), last>>
               f == <<d, c, a, a, a>>
    <2>1. /\ Turns(PopScope, d, c, A) /\ Turns(PopLoop, c, a, A) /\ Turns(Goto(L), a, a, A)
          /\ Turns(last, a, a, A)
      BY <1>2, <1>3, TurnKinds
    <2> HIDE DEF c, d
    <2>2. IsSeq(z) /\ Len(z) = 4 /\ f[1] = d /\ f[4 + 1] = a /\ 4 \in 1..Len(z) /\ z[4] = last
      BY Tuples
    <2>3. \A i \in 1..4 : Turns(z[i], f[i], f[i + 1], A)
      <3> HIDE DEF last
      <3> QED  BY <2>1
    <2> HIDE DEF z, f
    <2>4. \A l \in {L + 1} : Placed(z, l)
      BY <2>2, PlacedAt
    <2>5. Leads(z, d, a, A, {L + 1})
      BY <2>2, <2>3, <2>4, LeadsBy
    <2> QED  BY <2>5 DEF z, last
  <1> HIDE DEF c, d, in, top, test, open, Inner, close
  <1>9. \A cond : Leads(cond, a, a, A, {}) =>
                    Leads(Loop(cond, t), a, a, A, {L} \cup {} \cup {} \cup {} \cup {L + 1})
    BY <1>4, <1>6, <1>7, <1>8, LeadsConcat5
  <1> HIDE DEF Loop
  <1>10. Leads(steps, a, a, A, {L} \cup {} \cup {} \cup {} \cup {L + 1})
    BY <1>1, <1>5, <1>9
  <1> QED  BY <1>2, <1>10 DEF Labelled

\* while let.
LEMMA WhileLetLabelled ==
    ASSUME NEW e, NEW a, Fits(e.in, a), NEW L, NEW steps \in lower_while_let(e, L)
    PROVE  Labelled(steps, a)
  <1> DEFINE c == ScopeIn(a)
             d == EnvIn(c)
             g == LoopIn(d)
             head(t) == <<Snapshot(L), Place(L, L, <<>>), E(t, e.in \cup {"cond"}, "code"),
                          StoreNew(L + 2, "__while_let_scrutinee", t), PushScope, Enter>>
             check(p, t) == lower_pattern_check(p, L + 2, t, L + 1, L + 3)
             bind(p) == bind_pattern(p, L + 3)
             loop == <<PushLoop(L + 1, L)>>
             body == Body("Unit", e.in \cup {"loop"}, "end")
             close == <<PopLoop, Leave, PopScope, Goto(L), Place(L + 1, L, <<>>)>>
             Code(t, p) == head(t) \o check(p, t) \o bind(p) \o loop \o body \o close
             All(t) == {Code(t, p) : p \in {x \in Patterns(t) : MayMatch(x)}}
  <1>1. PICK t \in Val : steps \in All(t)
    <2>1. lower_while_let(e, L)
            = IF e.ty # "Unit" \/ ~ (MayLoop(e) /\ MayHold("__while_let_scrutinee"))
                 \/ (Avoids("leak") /\ e.next # "end")
                THEN {} ELSE UNION {All(t) : t \in Val}
      BY DEF lower_while_let
    <2> HIDE DEF All
    <2> QED  BY <2>1
  <1>2. PICK p \in Patterns(t) : steps = Code(t, p)
    <2> HIDE DEF Code
    <2> QED  BY <1>1
  <1> DEFINE Or == OrLabels(p, L + 3)
             A == {L, L + 1} \cup Or
  <1>3. /\ L \in A /\ L + 1 \in A /\ Or \subseteq A
        /\ ({L} \cup Or \cup {} \cup {} \cup {}) \cup {L + 1} = A
    OBVIOUS
  <1>4. /\ t \in Val /\ a \in Depth /\ Open(a) /\ c \in Depth /\ d \in Depth /\ Open(d)
        /\ Fits(e.in, d) /\ g \in Depth /\ Fits(e.in \cup {"loop"}, g)
        /\ Fits(e.in \cup {"cond"}, a)
    BY FitsIn, Depths DEF Fits
  <1> HIDE DEF A
  <1>5. Leads(head(t), a, d, A, {L})
    <2> DEFINE top == Place(L, L, <<>>)
               value == E(t, e.in \cup {"cond"}, "code")
               store == StoreNew(L + 2, "__while_let_scrutinee", t)
               z == <<Snapshot(L), top, value, store, PushScope, Enter>>
               f == <<a, a, a, a, a, c, d>>
    <2>1. /\ Turns(Snapshot(L), a, a, A) /\ Turns(top, a, a, A) /\ Turns(value, a, a, A)
          /\ Turns(store, a, a, A) /\ Turns(PushScope, a, c, A) /\ Turns(Enter, c, d, A)
      BY <1>4, TurnKinds
    <2> HIDE DEF c, d, value, store
    <2>2. IsSeq(z) /\ Len(z) = 6 /\ f[1] = a /\ f[6 + 1] = d /\ 2 \in 1..Len(z) /\ z[2] = top
      BY Tuples
    <2>3. \A i \in 1..6 : Turns(z[i], f[i], f[i + 1], A)
      <3> HIDE DEF top
      <3> QED  BY <2>1
    <2> HIDE DEF z, f
    <2>4. \A l \in {L} : Placed(z, l)
      BY <2>2, PlacedAt
    <2>5. Leads(z, a, d, A, {L})
      BY <2>2, <2>3, <2>4, LeadsBy
    <2> QED  BY <2>5 DEF z, top, value, store
  <1>6. Leads(check(p, t), d, d, A, Or) /\ Leads(bind(p), d, d, A, {})
    BY <1>3, <1>4, CheckLeads, BindLeads
  <1>7. Leads(loop, d, g, A, {})
    BY <1>3, <1>4, TurnKinds, LeadsOne
  <1>8. Leads(body, g, g, A, {})
    BY <1>4, BodyLeads DEF Fits
  <1>9. Leads(close, g, a, A, {L + 1})
    <2> DEFINE last == Place(L + 1, L, <<>>)
               z == <<PopLoop, Leave, PopScope, Goto(L), last>>
               f == <<g, d, c, a, a, a>>
    <2>1. /\ Turns(PopLoop, g, d, A) /\ Turns(Leave, d, c, A) /\ Turns(PopScope, c, a, A)
          /\ Turns(Goto(L), a, a, A) /\ Turns(last, a, a, A)
      BY <1>3, <1>4, TurnKinds
    <2> HIDE DEF c, d, g
    <2>2. IsSeq(z) /\ Len(z) = 5 /\ f[1] = g /\ f[5 + 1] = a /\ 5 \in 1..Len(z) /\ z[5] = last
      BY Tuples
    <2>3. \A i \in 1..5 : Turns(z[i], f[i], f[i + 1], A)
      <3> HIDE DEF last
      <3> QED  BY <2>1
    <2> HIDE DEF z, f
    <2>4. \A l \in {L + 1} : Placed(z, l)
      BY <2>2, PlacedAt
    <2>5. Leads(z, g, a, A, {L + 1})
      BY <2>2, <2>3, <2>4, LeadsBy
    <2> QED  BY <2>5 DEF z, last
  <1> HIDE DEF c, d, g, head, check, bind, loop, body, close, Or
  <1>10. Leads(head(t) \o check(p, t) \o bind(p) \o loop \o body, a, g, A, {L} \cup Or \cup {} \cup {} \cup {})
    BY <1>5, <1>6, <1>7, <1>8, LeadsConcat5
  <1>11. Leads(steps, a, a, A, ({L} \cup Or \cup {} \cup {} \cup {}) \cup {L + 1})
    BY <1>2, <1>9, <1>10, LeadsConcat
  <1> QED  BY <1>3, <1>11 DEF Labelled

\* for over a Java collection.
LEMMA JavaLabelled ==
    ASSUME NEW e, NEW a, Fits(e.in, a), NEW L, NEW steps \in lower_for_java_iterator(e, L)
    PROVE  Labelled(steps, a)
  <1> DEFINE c == ScopeIn(a)
             d == EnvIn(c)
             g == LoopIn(d)
             A == {L, L + 1}
             one(n) == <<PushScope, E("Ref", e.in, "code"), Op(<<"Ref">>, <<"Ref">>),
                         StoreNew(L, "__java_iter", "Ref"), Snapshot(L), Place(L, L, <<>>),
                         LoadTemp(L), Op(<<"Ref">>, <<"Int">>), Branch(<<"Int">>, L + 1),
                         LoadTemp(L), Op(<<"Ref">>, <<"Ref">>), StoreNew(L + 2, n, "Ref"),
                         Enter, Define(n, L + 2), PushLoop(L + 1, L)>>
             body == Body("Unit", e.in \cup {"loop"}, "end")
             close == <<PopLoop, Leave, Goto(L), Place(L + 1, L, <<>>), PopScope>>
             Code(n) == one(n) \o body \o close
  <1>1. PICK n \in UserName : steps = Code(n)
    <2>1. lower_for_java_iterator(e, L)
            = IF e.ty # "Unit" \/ ~ (MayPlace(e) /\ MayHold("__java_iter")) THEN {}
              ELSE {Code(n) : n \in UserName}
      BY DEF lower_for_java_iterator
    <2> HIDE DEF Code
    <2> QED  BY <2>1
  <1>2. L \in A /\ L + 1 \in A /\ {L} \cup {} \cup {L + 1} = A
    OBVIOUS
  <1>3. /\ a \in Depth /\ c \in Depth /\ d \in Depth /\ g \in Depth
        /\ Open(c) /\ Open(d) /\ Fits(e.in, c) /\ Fits(e.in \cup {"loop"}, g)
    BY FitsIn, Depths DEF Fits
  <1> HIDE DEF A
  <1>4. Leads(one(n), a, g, A, {L})
    <2> DEFINE top == Place(L, L, <<>>)
               f == <<a, c, c, c, c, c, c, c, c, c, c, c, c, d, d, g>>
               s == one(n)
    <2>1. /\ Turns(PushScope, a, c, A) /\ Turns(E("Ref", e.in, "code"), c, c, A)
          /\ \A pop, push : Turns(Op(pop, push), c, c, A)
          /\ \A k, name : Turns(StoreNew(k, name, "Ref"), c, c, A)
          /\ Turns(Snapshot(L), c, c, A) /\ Turns(top, c, c, A) /\ Turns(LoadTemp(L), c, c, A)
          /\ Turns(Branch(<<"Int">>, L + 1), c, c, A)
          /\ Turns(Enter, c, d, A) /\ Turns(Define(n, L + 2), d, d, A)
          /\ Turns(PushLoop(L + 1, L), d, g, A)
      BY <1>2, <1>3, TurnKinds
    <2> HIDE DEF c, d, g
    <2>2. s \in Seq({s[i] : i \in 1..15}) /\ Len(s) = 15
      OBVIOUS
    <2>3. f[1] = a /\ f[15 + 1] = g /\ 6 \in 1..Len(s) /\ s[6] = top
      OBVIOUS
    <2>4. \A i \in 1..15 : Turns(s[i], f[i], f[i + 1], A)
      <3>1. /\ Turns(Place(L, L, <<>>), c, c, A)
        BY <2>1
      <3> HIDE DEF top
      <3> QED  BY <2>1, <3>1
    <2> HIDE DEF s, f
    <2>5. \A l \in {L} : Placed(s, l)
      BY <2>3, PlacedAt
    <2>6. IsSeq(s)
      BY <2>2 DEF IsSeq
    <2>7. Leads(s, a, g, A, {L})
      BY <2>2, <2>3, <2>4, <2>5, <2>6, LeadsBy
    <2> QED  BY <2>7 DEF s
  <1>5. Leads(body, g, g, A, {})
    BY <1>3, BodyLeads DEF Fits
  <1>6. Leads(close, g, a, A, {L + 1})
    <2> DEFINE last == Place(L + 1, L, <<>>)
               z == <<PopLoop, Leave, Goto(L), last, PopScope>>
               f == <<g, d, c, c, c, a>>
    <2>1. /\ Turns(PopLoop, g, d, A) /\ Turns(Leave, d, c, A) /\ Turns(PopScope, c, a, A)
          /\ Turns(Goto(L), c, c, A) /\ Turns(last, c, c, A)
      BY <1>2, <1>3, TurnKinds
    <2> HIDE DEF c, d, g
    <2>2. IsSeq(z) /\ Len(z) = 5 /\ f[1] = g /\ f[5 + 1] = a /\ 4 \in 1..Len(z) /\ z[4] = last
      BY Tuples
    <2>3. \A i \in 1..5 : Turns(z[i], f[i], f[i + 1], A)
      <3> HIDE DEF last
      <3> QED  BY <2>1
    <2> HIDE DEF z, f
    <2>4. \A l \in {L + 1} : Placed(z, l)
      BY <2>2, PlacedAt
    <2>5. Leads(z, g, a, A, {L + 1})
      BY <2>2, <2>3, <2>4, LeadsBy
    <2> QED  BY <2>5 DEF z, last
  <1> HIDE DEF c, d, g, one, body, close
  <1>7. Leads(steps, a, a, A, {L} \cup {} \cup {L + 1})
    BY <1>1, <1>4, <1>5, <1>6, LeadsConcat3
  <1> QED  BY <1>2, <1>7 DEF Labelled

\* for over an iterator.
LEMMA IteratorLabelled ==
    ASSUME NEW e, NEW a, Fits(e.in, a), NEW L, NEW steps \in lower_for_iterator(e, L)
    PROVE  Labelled(steps, a)
  <1> DEFINE c == ScopeIn(a)
             d == EnvIn(c)
             g == LoopIn(d)
             A == {L, L + 1}
             one(n, t) == <<PushScope, E("Ref", e.in, "code"), StoreTemp(L, "Ref"),
                            Place(L, Live, <<>>), LoadTemp(L), Op(<<"Ref">>, <<"Ref">>),
                            StoreTemp(L + 2, "Ref"), LoadTemp(L + 2), Op(<<"Ref">>, <<"Int">>),
                            Branch(<<"Int">>, L + 1), LoadTemp(L + 2), Op(<<"Ref">>, <<t>>),
                            StoreNew(L + 3, n, t), Enter, Define(n, L + 3), PushLoop(L + 1, L)>>
             body == Body("Unit", e.in \cup {"loop"}, "end")
             close == <<PopLoop, Leave, Goto(L), Place(L + 1, Live, <<>>), PopScope>>
             Code(n, t) == one(n, t) \o body \o close
  <1>1. PICK n \in UserName, t \in Val : steps = Code(n, t)
    <2>1. lower_for_iterator(e, L)
            = IF e.ty # "Unit" \/ ~ MayPlace(e) \/ Avoids("unnamedSlot") THEN {}
              ELSE {Code(n, t) : n \in UserName, t \in Val}
      BY DEF lower_for_iterator
    <2> HIDE DEF Code
    <2> QED  BY <2>1
  <1>2. L \in A /\ L + 1 \in A /\ {L} \cup {} \cup {L + 1} = A
    OBVIOUS
  <1>3. /\ a \in Depth /\ c \in Depth /\ d \in Depth /\ g \in Depth
        /\ Open(c) /\ Open(d) /\ Fits(e.in, c) /\ Fits(e.in \cup {"loop"}, g)
    BY FitsIn, Depths DEF Fits
  <1> HIDE DEF A
  <1>4. Leads(one(n, t), a, g, A, {L})
    <2> DEFINE top == Place(L, Live, <<>>)
               f == <<a, c, c, c, c, c, c, c, c, c, c, c, c, c, d, d, g>>
               s == one(n, t)
    <2>1. /\ Turns(PushScope, a, c, A) /\ Turns(E("Ref", e.in, "code"), c, c, A)
          /\ \A pop, push : Turns(Op(pop, push), c, c, A)
          /\ \A k : Turns(StoreTemp(k, "Ref"), c, c, A) /\ Turns(LoadTemp(k), c, c, A)
          /\ Turns(StoreNew(L + 3, n, t), c, c, A)
          /\ Turns(top, c, c, A)
          /\ Turns(Branch(<<"Int">>, L + 1), c, c, A)
          /\ Turns(Enter, c, d, A) /\ Turns(Define(n, L + 3), d, d, A)
          /\ Turns(PushLoop(L + 1, L), d, g, A)
      BY <1>2, <1>3, TurnKinds
    <2> HIDE DEF c, d, g
    <2>2. s \in Seq({s[i] : i \in 1..16}) /\ Len(s) = 16
      OBVIOUS
    <2>3. f[1] = a /\ f[16 + 1] = g /\ 4 \in 1..Len(s) /\ s[4] = top
      OBVIOUS
    <2>4. \A i \in 1..16 : Turns(s[i], f[i], f[i + 1], A)
      <3>1. /\ Turns(Place(L, Live, <<>>), c, c, A)
        BY <2>1
      <3> HIDE DEF top
      <3> QED  BY <2>1, <3>1
    <2> HIDE DEF s, f
    <2>5. \A l \in {L} : Placed(s, l)
      BY <2>3, PlacedAt
    <2>6. IsSeq(s)
      BY <2>2 DEF IsSeq
    <2>7. Leads(s, a, g, A, {L})
      BY <2>2, <2>3, <2>4, <2>5, <2>6, LeadsBy
    <2> QED  BY <2>7 DEF s
  <1>5. Leads(body, g, g, A, {})
    BY <1>3, BodyLeads DEF Fits
  <1>6. Leads(close, g, a, A, {L + 1})
    <2> DEFINE last == Place(L + 1, Live, <<>>)
               z == <<PopLoop, Leave, Goto(L), last, PopScope>>
               f == <<g, d, c, c, c, a>>
    <2>1. /\ Turns(PopLoop, g, d, A) /\ Turns(Leave, d, c, A) /\ Turns(PopScope, c, a, A)
          /\ Turns(Goto(L), c, c, A) /\ Turns(last, c, c, A)
      BY <1>2, <1>3, TurnKinds
    <2> HIDE DEF c, d, g
    <2>2. IsSeq(z) /\ Len(z) = 5 /\ f[1] = g /\ f[5 + 1] = a /\ 4 \in 1..Len(z) /\ z[4] = last
      BY Tuples
    <2>3. \A i \in 1..5 : Turns(z[i], f[i], f[i + 1], A)
      <3> HIDE DEF last
      <3> QED  BY <2>1
    <2> HIDE DEF z, f
    <2>4. \A l \in {L + 1} : Placed(z, l)
      BY <2>2, PlacedAt
    <2>5. Leads(z, g, a, A, {L + 1})
      BY <2>2, <2>3, <2>4, LeadsBy
    <2> QED  BY <2>5 DEF z, last
  <1> HIDE DEF c, d, g, one, body, close
  <1>7. Leads(steps, a, a, A, {L} \cup {} \cup {L + 1})
    BY <1>1, <1>4, <1>5, <1>6, LeadsConcat3
  <1> QED  BY <1>2, <1>7 DEF Labelled

\* for over a range.
LEMMA RangeLabelled ==
    ASSUME NEW e, NEW a, Fits(e.in, a), NEW L, NEW steps \in lower_for_range(e, L)
    PROVE  Labelled(steps, a)
  <1> DEFINE c == ScopeIn(a)
             d == EnvIn(c)
             g == LoopIn(d)
             A == {L, L + 1, L + 2, L + 3}
             one(n, t) == <<PushScope, E(t, e.in, "code"), StoreNew(L, n, t),
                            E(t, e.in, "code"), StoreTemp(L + 1, t), Goto(L + 2),
                            Place(L, Live, <<>>), Enter, Define(n, L), PushLoop(L + 3, L + 1)>>
             body == Body("Unit", e.in \cup {"loop"}, "label")
             two(n, t) == <<PopLoop, Leave, Place(L + 1, Live, <<>>),
                            LoadTemp(L), Push(t), Op(<<t, t>>, <<t>>), AssignTo(n),
                            Place(L + 2, Live, <<>>), LoadTemp(L), LoadTemp(L + 1)>>
             test(t) == IF t = "Long" THEN <<Op(<<t, t>>, <<"Int">>), Branch(<<"Int">>, L)>>
                                      ELSE <<Branch(<<t, t>>, L)>>
             last == <<Place(L + 3, Live, <<>>), PopScope>>
             Code(n, t) == one(n, t) \o body \o two(n, t) \o test(t) \o last
  <1>1. PICK n \in UserName, t \in {"Int", "Long"} : steps = Code(n, t)
    <2>1. lower_for_range(e, L)
            = IF e.ty # "Unit" \/ ~ MayPlace(e) \/ Avoids("unnamedSlot") THEN {}
              ELSE {Code(n, t) : n \in UserName, t \in {"Int", "Long"}}
      BY DEF lower_for_range
    <2> HIDE DEF Code
    <2> QED  BY <2>1
  <1>2. /\ L \in A /\ L + 1 \in A /\ L + 2 \in A /\ L + 3 \in A
        /\ {L} \cup {} \cup {L + 1, L + 2} \cup {} \cup {L + 3} = A
    OBVIOUS
  <1>3. /\ a \in Depth /\ c \in Depth /\ d \in Depth /\ g \in Depth
        /\ Open(c) /\ Open(d) /\ Fits(e.in, c) /\ Fits(e.in \cup {"loop"}, g)
    BY FitsIn, Depths DEF Fits
  <1> HIDE DEF A
  <1>4. Leads(one(n, t), a, g, A, {L})
    <2> DEFINE top == Place(L, Live, <<>>)
               f == <<a, c, c, c, c, c, c, c, d, d, g>>
               s == one(n, t)
    <2>1. /\ Turns(PushScope, a, c, A) /\ Turns(E(t, e.in, "code"), c, c, A)
          /\ Turns(StoreNew(L, n, t), c, c, A) /\ Turns(StoreTemp(L + 1, t), c, c, A)
          /\ Turns(Goto(L + 2), c, c, A) /\ Turns(top, c, c, A)
          /\ Turns(Enter, c, d, A) /\ Turns(Define(n, L), d, d, A)
          /\ Turns(PushLoop(L + 3, L + 1), d, g, A)
      BY <1>2, <1>3, TurnKinds
    <2> HIDE DEF c, d, g
    <2>2. IsSeq(s) /\ Len(s) = 10 /\ f[1] = a /\ f[10 + 1] = g /\ 7 \in 1..Len(s) /\ s[7] = top
      BY Tuples
    <2>3. \A i \in 1..10 : Turns(s[i], f[i], f[i + 1], A)
      <3>1. Turns(Place(L, Live, <<>>), c, c, A)
        BY <2>1
      <3> HIDE DEF top
      <3> QED  BY <2>1, <3>1
    <2> HIDE DEF s, f
    <2>4. \A l \in {L} : Placed(s, l)
      BY <2>2, PlacedAt
    <2>5. Leads(s, a, g, A, {L})
      BY <2>2, <2>3, <2>4, LeadsBy
    <2> QED  BY <2>5 DEF s
  <1>5. Leads(body, g, g, A, {})
    BY <1>3, BodyLeads DEF Fits
  <1>6. Leads(two(n, t), g, c, A, {L + 1, L + 2})
    <2> DEFINE next == Place(L + 1, Live, <<>>)
               cond == Place(L + 2, Live, <<>>)
               f == <<g, d, c, c, c, c, c, c, c, c, c>>
               s == two(n, t)
    <2>1. /\ Turns(PopLoop, g, d, A) /\ Turns(Leave, d, c, A)
          /\ Turns(next, c, c, A) /\ Turns(cond, c, c, A)
          /\ Turns(LoadTemp(L), c, c, A) /\ Turns(LoadTemp(L + 1), c, c, A)
          /\ Turns(Push(t), c, c, A) /\ Turns(Op(<<t, t>>, <<t>>), c, c, A)
          /\ Turns(AssignTo(n), c, c, A)
      BY <1>2, <1>3, TurnKinds
    <2> HIDE DEF c, d, g
    <2>2. /\ IsSeq(s) /\ Len(s) = 10 /\ f[1] = g /\ f[10 + 1] = c
          /\ 3 \in 1..Len(s) /\ s[3] = next /\ 8 \in 1..Len(s) /\ s[8] = cond
      BY Tuples
    <2>3. \A i \in 1..10 : Turns(s[i], f[i], f[i + 1], A)
      <3>1. Turns(Place(L + 1, Live, <<>>), c, c, A) /\ Turns(Place(L + 2, Live, <<>>), c, c, A)
        BY <2>1
      <3> HIDE DEF next, cond
      <3> QED  BY <2>1, <3>1
    <2> HIDE DEF s, f
    <2>4. \A l \in {L + 1, L + 2} : Placed(s, l)
      BY <2>2, PlacedAt
    <2>5. Leads(s, g, c, A, {L + 1, L + 2})
      BY <2>2, <2>3, <2>4, LeadsBy
    <2> QED  BY <2>5 DEF s
  <1>7. Leads(test(t), c, c, A, {})
    <2>1. \A pop, push : Turns(Op(pop, push), c, c, A) /\ Turns(Branch(pop, L), c, c, A)
      BY <1>2, <1>3, TurnKinds
    <2> HIDE DEF c
    <2>2. Evenly(test(t), c, A)
      BY <2>1, Tuples DEF Evenly
    <2> QED  BY <2>2, EvenQuiet
  <1>8. Leads(last, c, a, A, {L + 3})
    <2> DEFINE place == Place(L + 3, Live, <<>>)
               z == <<place, PopScope>>
               f == <<c, c, a>>
    <2>1. Turns(place, c, c, A) /\ Turns(PopScope, c, a, A)
      BY <1>3, TurnKinds
    <2> HIDE DEF c
    <2>2. IsSeq(z) /\ Len(z) = 2 /\ f[1] = c /\ f[2 + 1] = a /\ 1 \in 1..Len(z) /\ z[1] = place
      BY Tuples
    <2>3. \A i \in 1..2 : Turns(z[i], f[i], f[i + 1], A)
      <3> HIDE DEF place
      <3> QED  BY <2>1
    <2> HIDE DEF z, f
    <2>4. \A l \in {L + 3} : Placed(z, l)
      BY <2>2, PlacedAt
    <2>5. Leads(z, c, a, A, {L + 3})
      BY <2>2, <2>3, <2>4, LeadsBy
    <2> QED  BY <2>5 DEF z, place
  <1> HIDE DEF c, d, g, one, body, two, test, last
  <1>9. Leads(steps, a, a, A, {L} \cup {} \cup {L + 1, L + 2} \cup {} \cup {L + 3})
    BY <1>1, <1>4, <1>5, <1>6, <1>7, <1>8, LeadsConcat5
  <1> QED  BY <1>2, <1>9 DEF Labelled

\* let-else.
LEMMA LetElseLabelled ==
    ASSUME NEW s, NEW a, Fits(s.in, a), NEW L, NEW steps \in lower_let_else(s, L)
    PROVE  Labelled(steps, a)
  <1> DEFINE head(t) == <<E(t, s.in, "code"), StoreNew(L, "__let_else_scrutinee", t), Snapshot(L)>>
             Check(p, t) == lower_pattern_check(p, L, t, L + 1, L + 3)
             middle == <<Goto(L + 2), Place(L + 1, L, <<>>)>>
             body == Body("Nothing", s.in \cup {"letelse"}, "label")
             last == <<Place(L + 2, Live, <<>>)>>
             bind(p) == bind_pattern(p, L + 3)
             Code(t, p) == head(t) \o Check(p, t) \o middle \o body \o last \o bind(p)
             All(t) == {Code(t, p) : p \in {x \in Patterns(t) :
                                              /\ MayMatch(x)
                                              /\ Avoids("letElse") => Bound(x) \cap Visible = {}}}
  <1>1. PICK t \in Val : steps \in All(t)
    <2>1. lower_let_else(s, L)
            = IF ~ (MayPlace([s EXCEPT !.next = "code"]) /\ MayHold("__let_else_scrutinee")) THEN {}
              ELSE UNION {All(t) : t \in Val}
      BY DEF lower_let_else
    <2> HIDE DEF All
    <2> QED  BY <2>1
  <1>2. PICK p \in Patterns(t) : steps = Code(t, p)
    <2> HIDE DEF Code
    <2> QED  BY <1>1
  <1> DEFINE Or == OrLabels(p, L + 3)
             A == {L + 1, L + 2} \cup Or
  <1>3. /\ L + 1 \in A /\ L + 2 \in A /\ Or \subseteq A
        /\ ({} \cup Or \cup {L + 1} \cup {} \cup {L + 2}) \cup {} = A
    OBVIOUS
  <1>4. t \in Val /\ a \in Depth /\ Open(a) /\ Fits(s.in \cup {"letelse"}, a)
    BY FitsIn DEF Fits
  <1> HIDE DEF A
  <1>5. Leads(head(t), a, a, A, {})
    <2>1. /\ Turns(E(t, s.in, "code"), a, a, A) /\ Turns(Snapshot(L), a, a, A)
          /\ Turns(StoreNew(L, "__let_else_scrutinee", t), a, a, A)
      BY <1>4, TurnKinds
    <2>2. Evenly(head(t), a, A)
      BY <2>1, Tuples DEF Evenly
    <2> QED  BY <2>2, EvenQuiet
  <1>6. /\ Leads(Check(p, t), a, a, A, Or) /\ Leads(bind(p), a, a, A, {})
        /\ Leads(middle, a, a, A, {L + 1}) /\ Leads(last, a, a, A, {L + 2})
    BY <1>3, <1>4, CheckLeads, BindLeads, LabelLeads
  <1>7. Leads(body, a, a, A, {})
    BY <1>4, BodyLeads DEF Fits
  <1> HIDE DEF head, Check, middle, body, last, bind, Or
  <1>8. Leads(head(t) \o Check(p, t) \o middle \o body \o last, a, a, A,
              {} \cup Or \cup {L + 1} \cup {} \cup {L + 2})
    BY <1>5, <1>6, <1>7, LeadsConcat5
  <1>9. Leads(steps, a, a, A, ({} \cup Or \cup {L + 1} \cup {} \cup {L + 2}) \cup {})
    BY <1>2, <1>6, <1>8, LeadsConcat
  <1> QED  BY <1>3, <1>9 DEF Labelled

\* Every form.
LEMMA FormLabelled ==
    ASSUME NEW e, Formed(e), NEW a, Fits(e.in, a), NEW L, NEW name, NEW steps \in Form(e, L, name)
    PROVE  Labelled(steps, a)
  <1>1. \/ steps = Body(e.ty, e.in, e.next)
        \/ steps \in lower_call(e) \cup lower_assign(e)
        \/ steps \in lower_comparison(e, L) \cup lower_short_circuit(e, L) \cup lower_try(e, L)
        \/ steps \in lower_if(e, L)
        \/ steps \in lower_match(e, L)
        \/ steps \in lower_if_let(e, L)
        \/ steps \in lower_while(e, L)
        \/ steps \in lower_while_let(e, L)
        \/ steps \in lower_for_range(e, L)
        \/ steps \in lower_for_java_iterator(e, L)
        \/ steps \in lower_for_iterator(e, L)
    BY DEF Form
  <1>2. Labelled(Body(e.ty, e.in, e.next), a)
    BY FitsIn, BodyLeads DEF Fits, Labelled
  <1> QED  BY <1>1, <1>2, PlainLabelled, JumpingLabelled, IfLabelled, MatchLabelled, IfLetLabelled,
              WhileLabelled, WhileLetLabelled, RangeLabelled, JavaLabelled, IteratorLabelled

\* Every statement.
LEMMA StmtLabelled ==
    ASSUME NEW s, NEW a, Fits(s.in, a), NEW L, NEW name, NEW steps \in lower_stmt(s, L, name)
    PROVE  Labelled(steps, a)
  <1> DEFINE Let(n, t) == <<E(t, s.in, "code"), StoreNew(L, n, t), Define(n, L)>>
             Drop(t) == <<E(t, s.in, "code"), Op(<<t>>, <<>>)>>
             unit == <<E("Unit", s.in, "code")>>
  <1>1. \/ \E n, t : steps = Let(n, t)
        \/ \E t : steps = Drop(t)
        \/ steps = unit
        \/ steps \in lower_let_else(s, L)
    <2>1. CASE name = "let"
      <3>1. lower_stmt(s, L, name) = {Let(n, t) : n \in UserName, t \in Val}
        BY <2>1 DEF lower_stmt
      <3> HIDE DEF Let
      <3> QED  BY <3>1
    <2>2. CASE name = "drop"
      <3>1. lower_stmt(s, L, name) = {Drop(t) : t \in Val}
        BY <2>2 DEF lower_stmt
      <3> HIDE DEF Drop
      <3> QED  BY <3>1
    <2>3. CASE name \notin {"let", "drop"}
      BY <2>3 DEF lower_stmt
    <2> QED  BY <2>1, <2>2, <2>3
  <1>2. /\ \A t : Turns(E(t, s.in, "code"), a, a, {})
        /\ \A n, t : Turns(StoreNew(L, n, t), a, a, {}) /\ Turns(Define(n, L), a, a, {})
        /\ \A pop, push : Turns(Op(pop, push), a, a, {})
    BY FitsIn, TurnKinds DEF Fits
  <1>3. /\ \A n, t : Evenly(Let(n, t), a, {})
        /\ \A t : Evenly(Drop(t), a, {})
        /\ Evenly(unit, a, {})
    BY <1>2, Tuples DEF Evenly
  <1> HIDE DEF Let, Drop, unit
  <1> QED  BY <1>1, <1>3, EvenLabelled, LetElseLabelled

-----------------------------------------------------------------------------
(* Every label is placed                                                   *)

\* What is open.
Counts(a) ==
    /\ IsSeq(loop_stack) /\ Len(loop_stack) = a[1]
    /\ IsSeq(scope_stack) /\ Len(scope_stack) = a[2]
    /\ IsSeq(env) /\ Len(env) = a[3]

\* Labels there are, or will be when those of P are placed.
Known(P) == DOMAIN frames \cup DOMAIN alias \cup P

\* The steps ahead close what is open and place what any jump goes to that is
\* not there yet.
Heads(a, P) ==
    /\ a \in Depth /\ Counts(a)
    /\ Leads(todo, a, <<0, 0, 1>>, Known(P), P)
    /\ DOMAIN arrivals \subseteq Known(P)
    /\ \A i \in 1..Len(loop_stack) : {loop_stack[i].brk, loop_stack[i].cont} \subseteq Known(P)
    /\ position # NoLabel => position \in DOMAIN frames
    /\ \A l \in DOMAIN alias : alias[l] \in DOMAIN frames
LabelInv == \E a, P : Heads(a, P)

\* With nothing ahead, it is all done.
LEMMA LabelsFollow == LabelInv => LabelsResolve
  <1> SUFFICES ASSUME LabelInv, todo = <<>>
               PROVE  /\ DOMAIN arrivals \subseteq DOMAIN frames \cup DOMAIN alias
                      /\ scope_stack = <<>> /\ loop_stack = <<>> /\ Len(env) = 1
    BY DEF LabelsResolve
  <1>1. PICK a, P : Heads(a, P)
    BY DEF LabelInv
  <1>2. Len(todo) = 0
    OBVIOUS
  <1>3. P = {}
    <2>1. \A l \in P : \E i \in 1..Len(todo) : TRUE
      BY <1>1 DEF Heads, Leads, Placed
    <2> QED  BY <1>2, <2>1
  <1>4. a = <<0, 0, 1>>
    <2>1. PICK f : f[1] = a /\ f[Len(todo) + 1] = <<0, 0, 1>>
      BY <1>1 DEF Heads, Leads
    <2>2. Len(todo) + 1 = 1
      BY <1>2
    <2>3. f[1] = <<0, 0, 1>>
      BY <2>1, <2>2, Zenon
    <2> QED  BY <2>1, <2>3, Zenon
  <1>5. \A s : IsSeq(s) /\ Len(s) = 0 => s = <<>>
    BY DEF IsSeq
  <1>6. /\ IsSeq(scope_stack) /\ Len(scope_stack) = 0
        /\ IsSeq(loop_stack) /\ Len(loop_stack) = 0 /\ Len(env) = 1
    BY <1>1, <1>4 DEF Heads, Counts
  <1>7. DOMAIN arrivals \subseteq DOMAIN frames \cup DOMAIN alias
    BY <1>1, <1>3 DEF Heads, Known
  <1> QED  BY <1>5, <1>6, <1>7

\* The body of the function opens two scopes and closes them.
LEMMA InitLabels == Init => LabelInv
  <1> SUFFICES ASSUME Init PROVE LabelInv
    OBVIOUS
  <1> DEFINE a == <<0, 0, 1>>
             A == Known({})
             finish == Do("finish")
  <1>1. a \in Depth
    BY DEF Depth
  <1>2. Leads(Body(return_ty, {}, "exit"), a, a, A, {})
    BY <1>1, BodyLeads
  <1>3. Leads(<<finish>>, a, a, A, {})
    <2>1. Turns(finish, a, a, A)
      BY <1>1 DEF Turns, Do, Aims, FormStep
    <2> QED  BY <2>1, LeadsOne
  <1> HIDE DEF finish, A
  <1>4. Leads(Body(return_ty, {}, "exit") \o <<finish>>, a, a, A, {} \cup {})
    BY <1>2, <1>3, LeadsConcat
  <1>5. todo = Body(return_ty, {}, "exit") \o <<finish>>
    <2>1. PICK S : Body(return_ty, {}, "exit") \in Seq(S)
      BY <1>2 DEF Leads, IsSeq
    <2>2. todo = Append(Body(return_ty, {}, "exit"), finish)
      BY DEF Init, finish
    <2> QED  BY <2>1, <2>2
  <1>6. Leads(todo, a, a, A, {})
    <2>1. {} \cup {} = {}
      OBVIOUS
    <2> QED  BY <1>4, <1>5, <2>1
  <1>7. Counts(a)
    <2>1. scope_stack = <<>> /\ loop_stack = <<>> /\ env = <<locals>>
      BY DEF Init
    <2> QED  BY <2>1, Tuples DEF Counts
  <1>8. /\ DOMAIN arrivals = {} /\ position = NoLabel /\ DOMAIN alias = {}
        /\ loop_stack = <<>>
    BY DEF Init, EmptyMap
  <1>9. \A i \in 1..Len(loop_stack) : {loop_stack[i].brk, loop_stack[i].cont} \subseteq Known({})
    BY <1>8
  <1>10. Heads(a, {})
    BY <1>1, <1>6, <1>7, <1>8, <1>9 DEF Heads, A
  <1> QED  BY <1>10 DEF LabelInv

\* The next step, and the steps behind it.
LEMMA NextLabels ==
    ASSUME NEW a, NEW P, Heads(a, P), todo # <<>>
    PROVE  \E b : /\ Turns(Step, a, b, Known(P))
                  /\ Leads(Tail(todo), b, <<0, 0, 1>>, Known(P),
                           {l \in P : ~ (Step.do = "place" /\ Step.label = l)})
  BY LeadsHead DEF Heads, Step

\* Labels are never taken back.
LEMMA KnownGrow ==
    ASSUME NEW P, NEW Q, P \subseteq Q,
           DOMAIN frames \subseteq DOMAIN frames', DOMAIN alias \subseteq DOMAIN alias'
    PROVE  Known(P) \subseteq Known(Q)'
  BY DEF Known

\* A step that only goes on.
LEMMA DoneLabels ==
    ASSUME NEW a, NEW P, Heads(a, P), todo # <<>>, Step.do # "place", Then(<<>>),
           NEW b, Turns(Step, a, b, Known(P)), Leads(Tail(todo), b, <<0, 0, 1>>, Known(P), P),
           Counts(b)', frames' = frames, alias' = alias,
           DOMAIN arrivals' \subseteq Known(P),
           \A i \in 1..Len(loop_stack') : {loop_stack'[i].brk, loop_stack'[i].cont} \subseteq Known(P),
           position' # NoLabel => position' = position
    PROVE  LabelInv'
  <1>1. Known(P)' = Known(P)
    BY DEF Known
  <1>2. todo' = Tail(todo)
    <2>1. PICK S : Tail(todo) \in Seq(S)
      BY DEF Leads, IsSeq
    <2> QED  BY <2>1 DEF Then
  <1>3. Leads(todo, b, <<0, 0, 1>>, Known(P), P)'
    <2>1. Leads(todo', b, <<0, 0, 1>>, Known(P)', P)
      BY <1>1, <1>2
    <2> QED  BY <2>1 DEF Leads, Placed
  <1>4. b \in Depth
    BY DEF Turns
  <1>5. /\ position' # NoLabel => position' \in DOMAIN frames'
        /\ \A l \in DOMAIN alias' : alias'[l] \in DOMAIN frames'
    BY DEF Heads
  <1>6. Heads(b, P)'
    BY <1>1, <1>3, <1>4, <1>5 DEF Heads
  <1> QED  BY <1>6 DEF LabelInv

\* A form becomes its code: the labels it goes to come with the steps that
\* place them.
LEMMA ExpandLabels ==
    ASSUME NEW a, NEW P, Heads(a, P), NEW b, Leads(Tail(todo), b, <<0, 0, 1>>, Known(P), P),
           NEW steps, NEW Q, Leads(steps, a, b, Q, Q), Then(steps),
           UNCHANGED <<env, scope_stack, loop_stack, codeVars>>
    PROVE  LabelInv'
  <1> DEFINE R == Q \cup P
  <1>0. UNCHANGED <<frames, alias, arrivals, position>>
    BY DEF codeVars
  <1>1. Known(P) \subseteq Known(R) /\ Q \subseteq Known(R) /\ Known(R)' = Known(R)
    BY <1>0 DEF Known
  <1>2. Leads(steps, a, b, Known(R), Q) /\ Leads(Tail(todo), b, <<0, 0, 1>>, Known(R), P)
    BY <1>1, LeadsGrow
  <1>3. Leads(todo', a, <<0, 0, 1>>, Known(R)', R)
    BY <1>1, <1>2, LeadsConcat DEF Then
  <1>4. Leads(todo, a, <<0, 0, 1>>, Known(R), R)'
    BY <1>3 DEF Leads, Placed
  <1>5. Counts(a)'
    BY DEF Heads, Counts
  <1>6. /\ DOMAIN arrivals' \subseteq Known(R)'
        /\ \A i \in 1..Len(loop_stack') : {loop_stack'[i].brk, loop_stack'[i].cont} \subseteq Known(R)'
        /\ position' # NoLabel => position' \in DOMAIN frames'
        /\ \A l \in DOMAIN alias' : alias'[l] \in DOMAIN frames'
    BY <1>0, <1>1 DEF Heads
  <1>7. Heads(a, R)'
    BY <1>4, <1>5, <1>6 DEF Heads
  <1> QED  BY <1>7 DEF LabelInv

\* Expressions, elses and statements.
LEMMA FormLabels ==
    ASSUME LabelInv, LowerExpr \/ LowerElse \/ LowerStmt
    PROVE  LabelInv'
  <1>1. /\ todo # <<>> /\ Step.do \in FormStep
        /\ UNCHANGED <<env, scope_stack, loop_stack, codeVars>>
    BY DEF LowerExpr, LowerElse, LowerStmt, Is, FormStep
  <1>2. PICK a, P : Heads(a, P)
    BY DEF LabelInv
  <1>3. PICK b : /\ Turns(Step, a, b, Known(P))
                 /\ Leads(Tail(todo), b, <<0, 0, 1>>, Known(P), P)
    <2>1. {l \in P : ~ (Step.do = "place" /\ Step.label = l)} = P
      BY <1>1 DEF FormStep
    <2> QED  BY <1>1, <1>2, <2>1, NextLabels
  <1>4. Formed(Step) /\ Fits(Step.in, a) /\ b \in Depth
    BY <1>1, <1>3 DEF Turns
  <1>5. ASSUME NEW steps, NEW Q, Leads(steps, a, b, Q, Q), Then(steps) PROVE LabelInv'
    BY <1>1, <1>2, <1>3, <1>5, ExpandLabels
  <1>6. ASSUME a = b, NEW steps, Labelled(steps, a), Then(steps) PROVE LabelInv'
    BY <1>5, <1>6 DEF Labelled
  <1>7. CASE LowerExpr
    <2>1. a = b
      BY <1>3, <1>7 DEF Turns, LowerExpr, Is
    <2>2. CASE \E steps \in Atoms(Step) \cup Diverging(Step) : Then(steps)
      BY <1>4, <1>6, <2>1, <2>2, PlainLabelled, DivergingLabelled
    <2>3. CASE \E name : \E steps \in Form(Step, next_label, name) : Then(steps)
      BY <1>4, <1>6, <2>1, <2>3, FormLabelled
    <2> QED  BY <1>7, <2>2, <2>3 DEF LowerExpr, Choose
  <1>8. CASE LowerElse
    <2>1. a = b
      BY <1>3, <1>8 DEF Turns, LowerElse, Is
    <2>2. CASE Then(Body(Step.ty, Step.in, "label"))
      <3>1. Leads(Body(Step.ty, Step.in, "label"), a, b, {}, {})
        BY <1>4, <2>1, BodyLeads DEF Fits, Open
      <3> QED  BY <1>5, <2>2, <3>1
    <2>3. CASE \E name : \E steps \in Form(Step, next_label, name) : Then(steps)
      BY <1>4, <1>6, <2>1, <2>3, FormLabelled
    <2> QED  BY <1>8, <2>2, <2>3 DEF LowerElse, Choose
  <1>9. CASE LowerStmt
    <2>1. a = ScopeIn(EnvIn(b)) /\ a[1] = b[1]
      <3>1. a = ScopeIn(EnvIn(b))
        BY <1>3, <1>9 DEF Turns, LowerStmt, Is
      <3> QED  BY <3>1 DEF ScopeIn, EnvIn
    <2>2. CASE Then(<<E(Step.ty, Step.in, Step.next), Leave, PopScope>>)
      <3>1. a = EnvIn(ScopeIn(b)) /\ ("loop" \in Step.in => b[1] >= 1)
        BY <1>4, <2>1, Depths DEF Fits
      <3>2. Leads(<<E(Step.ty, Step.in, Step.next), Leave, PopScope>>, a, b, {}, {})
        BY <1>4, <3>1, EndLeads
      <3> QED  BY <1>5, <2>2, <3>2
    <2>3. CASE \E name : \E stmt \in lower_stmt(Step, next_label, name) : Then(Append(stmt, Step))
      <3>1. PICK name : \E stmt \in lower_stmt(Step, next_label, name) : Then(Append(stmt, Step))
        BY <2>3
      <3>2. PICK stmt \in lower_stmt(Step, next_label, name) : Then(Append(stmt, Step))
        BY <3>1
      <3>3. PICK Q : Leads(stmt, a, a, Q, Q)
        BY <1>4, StmtLabelled DEF Labelled
      <3>4. Turns(Step, a, b, Q)
        BY <1>1, <1>3 DEF Turns, FormStep, Aims
      <3>5. Leads(stmt \o <<Step>>, a, b, Q, Q \cup {})
        BY <3>3, <3>4, LeadsOne, LeadsConcat
      <3>6. Append(stmt, Step) = stmt \o <<Step>>
        <4>1. PICK S : stmt \in Seq(S)
          BY <3>3 DEF Leads, IsSeq
        <4> QED  BY <4>1
      <3>7. Q \cup {} = Q
        OBVIOUS
      <3>8. Leads(Append(stmt, Step), a, b, Q, Q)
        BY <3>5, <3>6, <3>7
      <3> QED  BY <1>5, <3>2, <3>8
    <2> QED  BY <1>9, <2>2, <2>3 DEF LowerStmt, Choose
  <1> QED  BY <1>7, <1>8, <1>9

\* Scopes and loops are counted as they open and close.
LEMMA ScopeLabels ==
    ASSUME LabelInv, push_scope \/ pop_scope \/ CheckerScope \/ LoopScope \/ TakeSnapshot
    PROVE  LabelInv'
  <1>1. /\ todo # <<>> /\ Then(<<>>) /\ Step.do # "place"
        /\ UNCHANGED <<frames, alias, arrivals, position>>
    BY DEF push_scope, pop_scope, CheckerScope, LoopScope, TakeSnapshot, Is, codeVars
  <1>2. PICK a, P : Heads(a, P)
    BY DEF LabelInv
  <1>3. PICK b : /\ Turns(Step, a, b, Known(P))
                 /\ Leads(Tail(todo), b, <<0, 0, 1>>, Known(P), P)
    <2>1. {l \in P : ~ (Step.do = "place" /\ Step.label = l)} = P
      BY <1>1
    <2> QED  BY <1>1, <1>2, <2>1, NextLabels
  <1>4. a \in Depth /\ b \in Depth
    BY <1>3 DEF Turns
  <1>5. /\ IsSeq(loop_stack) /\ Len(loop_stack) = a[1]
        /\ IsSeq(scope_stack) /\ Len(scope_stack) = a[2]
        /\ IsSeq(env) /\ Len(env) = a[3]
        /\ DOMAIN arrivals' \subseteq Known(P)
        /\ \A i \in 1..Len(loop_stack) : {loop_stack[i].brk, loop_stack[i].cont} \subseteq Known(P)
    BY <1>1, <1>2 DEF Heads, Counts
  <1>6. ASSUME Counts(b)',
               \A i \in 1..Len(loop_stack') : {loop_stack'[i].brk, loop_stack'[i].cont} \subseteq Known(P)
        PROVE  LabelInv'
    BY <1>1, <1>2, <1>3, <1>5, <1>6, DoneLabels
  <1>7. \A s : IsSeq(s) =>
           /\ Len(s) \in Nat
           /\ \A e : IsSeq(Append(s, e)) /\ Len(Append(s, e)) = Len(s) + 1
           /\ Len(s) >= 1 => IsSeq(Front(s)) /\ Len(Front(s)) = Len(s) - 1
    <2>1. Len(<<>>) = 0
      OBVIOUS
    <2> QED  BY <2>1, SeqFacts
  <1>8. /\ LoopIn(a)[1] = a[1] + 1 /\ LoopIn(a)[2] = a[2] /\ LoopIn(a)[3] = a[3]
        /\ ScopeIn(a)[1] = a[1] /\ ScopeIn(a)[2] = a[2] + 1 /\ ScopeIn(a)[3] = a[3]
        /\ EnvIn(a)[1] = a[1] /\ EnvIn(a)[2] = a[2] /\ EnvIn(a)[3] = a[3] + 1
        /\ LoopIn(b)[1] = b[1] + 1 /\ LoopIn(b)[2] = b[2] /\ LoopIn(b)[3] = b[3]
        /\ ScopeIn(b)[1] = b[1] /\ ScopeIn(b)[2] = b[2] + 1 /\ ScopeIn(b)[3] = b[3]
        /\ EnvIn(b)[1] = b[1] /\ EnvIn(b)[2] = b[2] /\ EnvIn(b)[3] = b[3] + 1
        /\ a[1] \in Nat /\ a[2] \in Nat /\ a[3] \in Nat
        /\ b[1] \in Nat /\ b[2] \in Nat /\ b[3] \in Nat
    BY <1>4 DEF Depth, LoopIn, ScopeIn, EnvIn
  <1>9. CASE push_scope
    <2>1. b = ScopeIn(a)
      BY <1>3, <1>9 DEF Turns, push_scope, Is
    <2>2. scope_stack' = Append(scope_stack, <<>>) /\ loop_stack' = loop_stack /\ env' = env
      BY <1>9 DEF push_scope
    <2>3. Counts(b)'
      BY <1>5, <1>7, <1>8, <2>1, <2>2 DEF Counts
    <2> QED  BY <1>5, <1>6, <2>2, <2>3
  <1>10. CASE pop_scope
    <2>1. a = ScopeIn(b)
      BY <1>3, <1>10 DEF Turns, pop_scope, Is
    <2>2. scope_stack' = Front(scope_stack) /\ loop_stack' = loop_stack /\ env' = env
      BY <1>10 DEF pop_scope
    <2>3. Counts(b)'
      <3>1. Len(scope_stack) = b[2] + 1 /\ Len(scope_stack) >= 1 /\ a[1] = b[1] /\ a[3] = b[3]
        BY <1>5, <1>8, <2>1
      <3>2. IsSeq(scope_stack') /\ Len(scope_stack') = b[2]
        BY <1>5, <1>7, <1>8, <2>2, <3>1
      <3> QED  BY <1>5, <2>2, <3>1, <3>2 DEF Counts
    <2> QED  BY <1>5, <1>6, <2>2, <2>3
  <1>11. CASE CheckerScope
    <2>1. scope_stack' = scope_stack /\ loop_stack' = loop_stack
      BY <1>11 DEF CheckerScope
    <2>2. Counts(b)'
      <3>1. CASE Is("enter") /\ env' = Append(env, EmptyMap)
        <4>1. b = EnvIn(a)
          BY <1>3, <3>1 DEF Turns, Is
        <4> QED  BY <1>5, <1>7, <1>8, <2>1, <3>1, <4>1 DEF Counts
      <3>2. CASE Is("leave") /\ env' = Front(env)
        <4>1. a = EnvIn(b)
          BY <1>3, <3>2 DEF Turns, Is
        <4>2. Len(env) = b[3] + 1 /\ Len(env) >= 1 /\ a[1] = b[1] /\ a[2] = b[2]
          BY <1>5, <1>8, <4>1
        <4>3. IsSeq(env') /\ Len(env') = b[3]
          BY <1>5, <1>7, <1>8, <3>2, <4>2
        <4> QED  BY <1>5, <2>1, <4>2, <4>3 DEF Counts
      <3>3. CASE Is("define") /\ \E m : env' = Append(Front(env), m)
        <4>1. a = b /\ a[3] >= 1
          BY <1>3, <3>3 DEF Turns, Is, Open
        <4> QED  BY <1>5, <1>7, <1>8, <2>1, <3>3, <4>1 DEF Counts
      <3> QED  BY <1>11, <3>1, <3>2, <3>3 DEF CheckerScope
    <2> QED  BY <1>5, <1>6, <2>1, <2>2
  <1>12. CASE LoopScope
    <2>1. scope_stack' = scope_stack /\ env' = env
      BY <1>12 DEF LoopScope
    <2>2. CASE Is("push_loop") /\ loop_stack' = Append(loop_stack, [brk |-> Step.brk, cont |-> Step.cont])
      <3>1. b = LoopIn(a) /\ {Step.brk, Step.cont} \subseteq Known(P)
        BY <1>3, <2>2 DEF Turns, Is, Aims
      <3>2. Counts(b)'
        BY <1>5, <1>7, <1>8, <2>1, <2>2, <3>1 DEF Counts
      <3>3. /\ \A i \in 1..Len(loop_stack) : loop_stack'[i] = loop_stack[i]
            /\ loop_stack'[Len(loop_stack) + 1] = [brk |-> Step.brk, cont |-> Step.cont]
            /\ Len(loop_stack') = Len(loop_stack) + 1 /\ Len(loop_stack) \in Nat
        BY <1>5, <2>2, SeqFacts
      <3>4. ASSUME NEW i \in 1..Len(loop_stack')
            PROVE  {loop_stack'[i].brk, loop_stack'[i].cont} \subseteq Known(P)
        <4>1. CASE i = Len(loop_stack) + 1
          BY <3>1, <3>3, <4>1
        <4>2. CASE i # Len(loop_stack) + 1
          <5>1. i \in 1..Len(loop_stack)
            BY <3>3, <4>2
          <5> QED  BY <1>5, <3>3, <5>1
        <4> QED  BY <4>1, <4>2
      <3> QED  BY <1>6, <3>2, <3>4
    <2>3. CASE Is("pop_loop") /\ loop_stack' = Front(loop_stack)
      <3>1. a = LoopIn(b)
        BY <1>3, <2>3 DEF Turns, Is
      <3>2. /\ Len(loop_stack) >= 1 /\ Len(loop_stack) = b[1] + 1 /\ a[2] = b[2] /\ a[3] = b[3]
            /\ IsSeq(loop_stack') /\ Len(loop_stack') = Len(loop_stack) - 1
        <4>1. Len(loop_stack) = b[1] + 1 /\ Len(loop_stack) >= 1 /\ a[2] = b[2] /\ a[3] = b[3]
          BY <1>5, <1>8, <3>1
        <4> QED  BY <1>5, <1>7, <2>3, <4>1
      <3>3. Counts(b)'
        <4>1. Len(loop_stack') = b[1]
          BY <1>8, <3>2
        <4> QED  BY <1>5, <2>1, <3>2, <4>1 DEF Counts
      <3>4. \A i \in 1..(Len(loop_stack) - 1) : loop_stack'[i] = loop_stack[i]
        <4>1. loop_stack # <<>>
          BY <3>2
        <4> QED  BY <1>5, <2>3, <4>1, SeqFacts
      <3>5. ASSUME NEW i \in 1..Len(loop_stack')
            PROVE  {loop_stack'[i].brk, loop_stack'[i].cont} \subseteq Known(P)
        <4>1. i \in 1..(Len(loop_stack) - 1) /\ i \in 1..Len(loop_stack)
          BY <1>5, <1>8, <3>2
        <4> QED  BY <1>5, <3>4, <4>1
      <3> QED  BY <1>6, <3>3, <3>5
    <2> QED  BY <1>12, <2>2, <2>3 DEF LoopScope
  <1>13. CASE TakeSnapshot
    <2>1. a = b
      BY <1>3, <1>13 DEF Turns, TakeSnapshot, Is, FormStep
    <2>2. scope_stack' = scope_stack /\ loop_stack' = loop_stack /\ env' = env
      BY <1>13 DEF TakeSnapshot
    <2>3. Counts(b)'
      BY <1>5, <2>1, <2>2 DEF Counts
    <2> QED  BY <1>5, <1>6, <2>2, <2>3
  <1> QED  BY <1>9, <1>10, <1>11, <1>12, <1>13

\* Instructions place no label and go nowhere; those that do go where something
\* is, or will be.
LEMMA CodeLabels ==
    ASSUME LabelInv, Operate \/ Load \/ Store \/ Assign \/ Jump \/ CondJump \/ ReturnOp
    PROVE  LabelInv'
  <1>1. /\ todo # <<>> /\ Then(<<>>) /\ UNCHANGED <<frames, alias, loop_stack, env>>
        /\ Step.do \in {"op", "load", "loadName", "store", "assign", "goto", "break", "continue",
                        "branch", "return"}
        /\ position' # NoLabel => position' = position
    BY DEF Operate, Load, Store, Assign, Jump, CondJump, ReturnOp, StoreTo, Is, codeVars
  <1>2. PICK a, P : Heads(a, P)
    BY DEF LabelInv
  <1>3. PICK b : /\ Turns(Step, a, b, Known(P))
                 /\ Leads(Tail(todo), b, <<0, 0, 1>>, Known(P), P)
    <2>1. {l \in P : ~ (Step.do = "place" /\ Step.label = l)} = P
      BY <1>1
    <2> QED  BY <1>1, <1>2, <2>1, NextLabels
  <1>4. a = b /\ a \in Depth
    BY <1>1, <1>3 DEF Turns
  <1>5. Counts(b)'
    <2>1. IsSeq(scope_stack') /\ Len(scope_stack') = Len(scope_stack)
      <3>1. CASE scope_stack' = scope_stack
        BY <1>2, <3>1 DEF Heads, Counts
      <3>2. CASE scope_stack' # scope_stack
        <4>1. Store
          BY <3>2 DEF Operate, Load, Store, Assign, Jump, CondJump, ReturnOp
        <4>2. PICK entry : scope_stack' = Append(Front(scope_stack), entry)
          BY <3>2, <4>1 DEF Store, AllocLocal
        <4>3. IsSeq(scope_stack) /\ Len(scope_stack) >= 1
          BY <1>2, <1>3, <4>1 DEF Turns, Open, Heads, Counts, Store, Is
        <4>4. scope_stack # <<>> /\ Len(scope_stack) \in Nat
          BY <4>3, SeqFacts
        <4>5. IsSeq(Front(scope_stack)) /\ Len(Front(scope_stack)) = Len(scope_stack) - 1
          BY <4>3, <4>4, SeqFacts
        <4>6. IsSeq(scope_stack') /\ Len(scope_stack') = (Len(scope_stack) - 1) + 1
          BY <4>2, <4>5, SeqFacts
        <4> QED  BY <4>4, <4>6
      <3> QED  BY <3>1, <3>2
    <2> QED  BY <1>1, <1>2, <1>4, <2>1 DEF Heads, Counts
  <1>6. /\ \A i \in 1..Len(loop_stack) : {loop_stack[i].brk, loop_stack[i].cont} \subseteq Known(P)
        /\ DOMAIN arrivals \subseteq Known(P)
        /\ \A l \in DOMAIN alias : alias[l] \in DOMAIN frames
    BY <1>2 DEF Heads
  <1>7. ASSUME NEW l \in Known(P), NEW stack, arrivals' = Arriving(l, stack)
        PROVE  DOMAIN arrivals' \subseteq Known(P)
    <2>1. Target(l) \in Known(P)
      BY <1>6 DEF Target, Known
    <2>2. DOMAIN arrivals' = DOMAIN arrivals \cup {Target(l)}
      BY <1>7 DEF Arriving, With
    <2> QED  BY <1>6, <2>1, <2>2
  <1>8. DOMAIN arrivals' \subseteq Known(P)
    <2>1. CASE Operate \/ Load \/ Store \/ Assign \/ ReturnOp
      <3>1. arrivals' = arrivals
        BY <2>1 DEF Operate, Load, Store, Assign, ReturnOp, StoreTo, codeVars
      <3> QED  BY <1>6, <3>1
    <2>2. CASE CondJump
      <3>1. Step.label \in Known(P) /\ \E stack : arrivals' = Arriving(Step.label, stack)
        BY <1>3, <2>2 DEF Turns, Aims, CondJump, Is
      <3> QED  BY <1>7, <3>1
    <2>3. CASE Jump
      <3>1. CASE Is("goto") /\ JumpTo(Step.label)
        <4>1. Step.label \in Known(P)
          BY <1>3, <3>1 DEF Turns, Aims, Is
        <4> QED  BY <1>7, <3>1, <4>1 DEF JumpTo
      <3>2. CASE Step.do \in {"break", "continue"}
        <4>1. Len(loop_stack) \in 1..Len(loop_stack)
          <5>1. IsSeq(loop_stack) /\ Len(loop_stack) >= 1
            BY <1>2, <1>3, <3>2 DEF Turns, Heads, Counts
          <5> QED  BY <5>1, SeqFacts
        <4>2. Last(loop_stack) = loop_stack[Len(loop_stack)]
          BY DEF Last
        <4>3. Last(loop_stack).brk \in Known(P) /\ Last(loop_stack).cont \in Known(P)
          BY <1>6, <4>1, <4>2
        <4>4. JumpTo(Last(loop_stack).brk) \/ JumpTo(Last(loop_stack).cont)
          BY <2>3, <3>2 DEF Jump, Is
        <4> QED  BY <1>7, <4>3, <4>4 DEF JumpTo
      <3> QED  BY <2>3, <3>1, <3>2 DEF Jump, Is
    <2> QED  BY <2>1, <2>2, <2>3
  <1>9. \A i \in 1..Len(loop_stack') : {loop_stack'[i].brk, loop_stack'[i].cont} \subseteq Known(P)
    BY <1>1, <1>6
  <1> QED  BY <1>1, <1>2, <1>3, <1>5, <1>8, <1>9, DoneLabels

\* A label is there from now on, with a frame or as another name of one.
LEMMA PlaceLabels ==
    ASSUME LabelInv, PlaceLabel
    PROVE  LabelInv'
  <1>1. /\ todo # <<>> /\ Then(<<>>) /\ Step.do = "place"
        /\ UNCHANGED <<scope_stack, loop_stack, env>>
    BY DEF PlaceLabel, Is
  <1>2. PICK a, P : Heads(a, P)
    BY DEF LabelInv
  <1>3. PICK l : l = Step.label
    OBVIOUS
  <1>4. PICK Q : Q = {x \in P : x # l}
    OBVIOUS
  <1>5. /\ Turns(Step, a, a, Known(P)) /\ a \in Depth
        /\ Leads(Tail(todo), a, <<0, 0, 1>>, Known(P), Q)
    <2>1. PICK b : /\ Turns(Step, a, b, Known(P))
                   /\ Leads(Tail(todo), b, <<0, 0, 1>>, Known(P),
                            {x \in P : ~ (Step.do = "place" /\ Step.label = x)})
      BY <1>1, <1>2, NextLabels
    <2>2. a = b /\ a \in Depth
      BY <1>1, <2>1 DEF Turns, FormStep
    <2>3. {x \in P : ~ (Step.do = "place" /\ Step.label = x)} = Q
      BY <1>1, <1>3, <1>4
    <2> QED  BY <2>1, <2>2, <2>3
  <1>6. /\ DOMAIN arrivals \subseteq Known(P)
        /\ \A i \in 1..Len(loop_stack) : {loop_stack[i].brk, loop_stack[i].cont} \subseteq Known(P)
        /\ position # NoLabel => position \in DOMAIN frames
        /\ \A x \in DOMAIN alias : alias[x] \in DOMAIN frames
        /\ Counts(a)
    BY <1>2 DEF Heads
  <1>7. /\ Known(P) \subseteq Known(Q)' /\ DOMAIN arrivals' \subseteq Known(Q)'
        /\ position' # NoLabel => position' \in DOMAIN frames'
        /\ \A x \in DOMAIN alias' : alias'[x] \in DOMAIN frames'
    <2>1. CASE position = NoLabel
      <3>1. /\ \E stack : arrivals' = Arriving(l, stack)
            /\ \E frame : frames' = With(frames, l, frame)
            /\ position' = l /\ alias' = alias
        BY <1>3, <2>1 DEF PlaceLabel
      <3>2. /\ DOMAIN frames' = DOMAIN frames \cup {l}
            /\ DOMAIN arrivals' = DOMAIN arrivals \cup {Target(l)}
        BY <3>1 DEF Arriving, With
      <3>3. Target(l) \in DOMAIN frames \cup {l}
        BY <1>6 DEF Target
      <3>4. Known(P) \subseteq Known(Q)'
        BY <1>4, <3>1, <3>2 DEF Known
      <3>5. DOMAIN frames' \subseteq Known(Q)'
        BY DEF Known
      <3> QED  BY <1>6, <3>1, <3>2, <3>3, <3>4, <3>5
    <2>2. CASE position # NoLabel
      <3>1. /\ alias' = With(alias, l, position) /\ frames' = frames /\ position' = position
            /\ \E states : arrivals' = With(arrivals, position, states)
        BY <1>3, <2>2 DEF PlaceLabel
      <3>2. /\ DOMAIN alias' = DOMAIN alias \cup {l}
            /\ \A x \in DOMAIN alias' : alias'[x] = IF x = l THEN position ELSE alias[x]
            /\ DOMAIN arrivals' = DOMAIN arrivals \cup {position}
        BY <3>1 DEF With
      <3>3. Known(P) \subseteq Known(Q)'
        BY <1>4, <3>1, <3>2 DEF Known
      <3>4. DOMAIN frames \subseteq Known(P)
        BY DEF Known
      <3> QED  BY <1>6, <2>2, <3>1, <3>2, <3>3, <3>4
    <2> QED  BY <2>1, <2>2
  <1>8. todo' = Tail(todo)
    <2>1. PICK S : Tail(todo) \in Seq(S)
      BY <1>5 DEF Leads, IsSeq
    <2> QED  BY <1>1, <2>1 DEF Then
  <1>9. Leads(todo, a, <<0, 0, 1>>, Known(Q), Q)'
    <2>1. Q \subseteq Q
      OBVIOUS
    <2>2. Leads(Tail(todo), a, <<0, 0, 1>>, Known(Q)', Q)
      BY <1>5, <1>7, <2>1, LeadsGrow
    <2>3. Leads(todo', a, <<0, 0, 1>>, Known(Q)', Q)
      BY <1>8, <2>2
    <2> QED  BY <2>3 DEF Leads, Placed
  <1>10. Counts(a)'
    BY <1>1, <1>6 DEF Counts
  <1>11. \A i \in 1..Len(loop_stack') : {loop_stack'[i].brk, loop_stack'[i].cont} \subseteq Known(Q)'
    BY <1>1, <1>6, <1>7
  <1>12. Heads(a, Q)'
    BY <1>5, <1>7, <1>9, <1>10, <1>11 DEF Heads
  <1> QED  BY <1>12 DEF LabelInv

\* The end of the body, with or without a return.
LEMMA FinishLabels ==
    ASSUME LabelInv, Finish
    PROVE  LabelInv'
  <1>1. todo # <<>> /\ Step.do = "finish" /\ UNCHANGED <<env, scope_stack, loop_stack, codeVars>>
    BY DEF Finish, Is
  <1>2. PICK a, P : Heads(a, P)
    BY DEF LabelInv
  <1>3. a \in Depth /\ Leads(Tail(todo), a, <<0, 0, 1>>, Known(P), P)
    <2>1. {l \in P : ~ (Step.do = "place" /\ Step.label = l)} = P
      BY <1>1
    <2>2. PICK b : Turns(Step, a, b, Known(P)) /\ Leads(Tail(todo), b, <<0, 0, 1>>, Known(P), P)
      BY <1>1, <1>2, <2>1, NextLabels
    <2>3. a = b /\ a \in Depth
      BY <1>1, <2>2 DEF Turns, FormStep
    <2> QED  BY <2>2, <2>3
  <1> DEFINE last == <<Return(return_ty)>>
  <1>4. Leads(<<>>, a, a, {}, {}) /\ Leads(last, a, a, {}, {})
    <2>1. Turns(Return(return_ty), a, a, {})
      BY <1>3, TurnKinds
    <2> QED  BY <2>1, LeadsEmpty, LeadsOne
  <1>5. Then(<<>>) \/ Then(last)
    BY DEF Finish
  <1> HIDE DEF last
  <1> QED  BY <1>1, <1>2, <1>3, <1>4, <1>5, ExpandLabels

\* Every step of the lowering keeps the invariant.
LEMMA LabelInvStep == LabelInv /\ [Next]_vars => LabelInv'
  <1> SUFFICES ASSUME LabelInv, [Next]_vars PROVE LabelInv'
    OBVIOUS
  <1>1. CASE LowerExpr \/ LowerElse \/ LowerStmt
    BY <1>1, FormLabels
  <1>2. CASE push_scope \/ pop_scope \/ CheckerScope \/ LoopScope \/ TakeSnapshot
    BY <1>2, ScopeLabels
  <1>3. CASE Operate \/ Load \/ Store \/ Assign \/ Jump \/ CondJump \/ ReturnOp
    BY <1>3, CodeLabels
  <1>4. CASE PlaceLabel
    BY <1>4, PlaceLabels
  <1>5. CASE Finish
    BY <1>5, FinishLabels
  <1>6. CASE UNCHANGED vars
    <2>1. PICK a, P : Heads(a, P)
      BY DEF LabelInv
    <2>2. UNCHANGED <<todo, scope_stack, loop_stack, env, position, frames, alias, arrivals>>
      BY <1>6 DEF vars, codeVars, loweringVars
    <2>3. Leads(todo, a, <<0, 0, 1>>, Known(P), P)'
      <3>1. Leads(todo', a, <<0, 0, 1>>, Known(P)', P)
        BY <2>1, <2>2 DEF Heads, Known
      <3> QED  BY <3>1 DEF Leads, Placed
    <2>4. Heads(a, P)'
      BY <2>1, <2>2, <2>3 DEF Heads, Counts, Known
    <2> QED  BY <2>4 DEF LabelInv
  <1> QED  BY <1>1, <1>2, <1>3, <1>4, <1>5, <1>6 DEF Next

\* Whatever the body, every jump of its finished code goes to a label that was
\* placed, and no scope or loop is left open: emit_body never returns
\* CodegenError::UnresolvedLabel, and break and continue always find a loop.
THEOREM LabelsCorrect == Spec => []LabelsResolve
  <1>1. Init => LabelInv
    BY InitLabels
  <1>2. LabelInv /\ [Next]_vars => LabelInv'
    BY LabelInvStep
  <1>3. LabelInv => LabelsResolve
    BY LabelsFollow
  <1> QED  BY <1>1, <1>2, <1>3, PTL DEF Spec

=============================================================================
