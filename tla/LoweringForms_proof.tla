------------------------ MODULE LoweringForms_proof -------------------------
(***************************************************************************)
(* What a form of the source does to the scopes of the lowering and of the *)
(* type checker while it is lowered: each form but let and let-else leaves *)
(* both as it found them, and those two leave one name in both.            *)
(*                                                                         *)
(* A state of the scopes says which names are bound to which slots; the    *)
(* steps a form is lowered to are a path between two of them.              *)
(***************************************************************************)
EXTENDS Lowering, TLAPS

-----------------------------------------------------------------------------
(* Sequences                                                               *)

IsSeq(s) == \E S : s \in Seq(S)

\* A tuple is a sequence.
LEMMA Tuples ==
    /\ IsSeq(<<>>)
    /\ \A a : IsSeq(<<a>>)
    /\ \A a, b : IsSeq(<<a, b>>)
    /\ \A a, b, c : IsSeq(<<a, b, c>>)
    /\ \A a, b, c, d : IsSeq(<<a, b, c, d>>)
    /\ \A a, b, c, d, e : IsSeq(<<a, b, c, d, e>>)
    /\ \A a, b, c, d, e, f : IsSeq(<<a, b, c, d, e, f>>)
    /\ \A a, b, c, d, e, f, g : IsSeq(<<a, b, c, d, e, f, g>>)
    /\ \A a, b, c, d, e, f, g, h : IsSeq(<<a, b, c, d, e, f, g, h>>)
    /\ \A a, b, c, d, e, f, g, h, i : IsSeq(<<a, b, c, d, e, f, g, h, i>>)
    /\ \A a, b, c, d, e, f, g, h, i, j : IsSeq(<<a, b, c, d, e, f, g, h, i, j>>)
    /\ \A a, b, c, d, e, f, g, h, i, j, k : IsSeq(<<a, b, c, d, e, f, g, h, i, j, k>>)
  <1>0. <<>> \in Seq({})
    OBVIOUS
  <1>1. \A a : <<a>> \in Seq({a})
    OBVIOUS
  <1>2. \A a, b : <<a, b>> \in Seq({a, b})
    OBVIOUS
  <1>3. \A a, b, c : <<a, b, c>> \in Seq({a, b, c})
    OBVIOUS
  <1>4. \A a, b, c, d : <<a, b, c, d>> \in Seq({a, b, c, d})
    OBVIOUS
  <1>5. \A a, b, c, d, e : <<a, b, c, d, e>> \in Seq({a, b, c, d, e})
    OBVIOUS
  <1>6. \A a, b, c, d, e, f : <<a, b, c, d, e, f>> \in Seq({a, b, c, d, e, f})
    OBVIOUS
  <1>7. \A a, b, c, d, e, f, g : <<a, b, c, d, e, f, g>> \in Seq({a, b, c, d, e, f, g})
    OBVIOUS
  <1>8. \A a, b, c, d, e, f, g, h : <<a, b, c, d, e, f, g, h>> \in Seq({a, b, c, d, e, f, g, h})
    OBVIOUS
  <1>9. \A a, b, c, d, e, f, g, h, i : <<a, b, c, d, e, f, g, h, i>> \in Seq({a, b, c, d, e, f, g, h, i})
    OBVIOUS
  <1>10. \A a, b, c, d, e, f, g, h, i, j : <<a, b, c, d, e, f, g, h, i, j>> \in Seq({a, b, c, d, e, f, g, h, i, j})
    OBVIOUS
  <1>11. \A a, b, c, d, e, f, g, h, i, j, k : <<a, b, c, d, e, f, g, h, i, j, k>> \in Seq({a, b, c, d, e, f, g, h, i, j, k})
    OBVIOUS
  <1> QED  BY <1>0, <1>1, <1>2, <1>3, <1>4, <1>5, <1>6, <1>7, <1>8, <1>9, <1>10, <1>11 DEF IsSeq

\* The parts of a sequence of no matter what: its elements need no common set.
LEMMA SeqFacts ==
    ASSUME NEW s, IsSeq(s)
    PROVE  /\ Len(s) \in Nat /\ DOMAIN s = 1..Len(s)
           /\ s # <<>> => /\ Len(s) >= 1 /\ IsSeq(Tail(s)) /\ Len(Tail(s)) = Len(s) - 1
                          /\ Head(s) = s[1]
                          /\ \A i \in 1..(Len(s) - 1) : Tail(s)[i] = s[i + 1]
                          /\ IsSeq(Front(s)) /\ Len(Front(s)) = Len(s) - 1
                          /\ \A i \in 1..(Len(s) - 1) : Front(s)[i] = s[i]
           /\ \A e : /\ IsSeq(Append(s, e)) /\ Len(Append(s, e)) = Len(s) + 1
                     /\ Append(s, e)[Len(s) + 1] = e /\ Last(Append(s, e)) = e
                     /\ Front(Append(s, e)) = s
                     /\ \A i \in 1..Len(s) : Append(s, e)[i] = s[i]
  <1>1. PICK S : s \in Seq(S)
    BY DEF IsSeq
  <1>2. Len(s) \in Nat /\ DOMAIN s = 1..Len(s)
    BY <1>1
  <1>3. ASSUME s # <<>>
        PROVE  /\ Len(s) >= 1 /\ IsSeq(Tail(s)) /\ Len(Tail(s)) = Len(s) - 1
               /\ Head(s) = s[1]
               /\ \A i \in 1..(Len(s) - 1) : Tail(s)[i] = s[i + 1]
               /\ IsSeq(Front(s)) /\ Len(Front(s)) = Len(s) - 1
               /\ \A i \in 1..(Len(s) - 1) : Front(s)[i] = s[i]
    <2>1. Len(s) >= 1 /\ Tail(s) \in Seq(S) /\ Len(Tail(s)) = Len(s) - 1
          /\ Head(s) = s[1] /\ \A i \in 1..(Len(s) - 1) : Tail(s)[i] = s[i + 1]
      BY <1>1, <1>3
    <2>2. Front(s) = SubSeq(s, 1, Len(s) - 1)
      BY DEF Front
    <2>3. Front(s) \in Seq(S) /\ Len(Front(s)) = Len(s) - 1
          /\ \A i \in 1..(Len(s) - 1) : Front(s)[i] = s[i]
      BY <1>1, <1>2, <2>1, <2>2
    <2> QED  BY <2>1, <2>3 DEF IsSeq
  <1>4. ASSUME NEW e
        PROVE  /\ IsSeq(Append(s, e)) /\ Len(Append(s, e)) = Len(s) + 1
               /\ Append(s, e)[Len(s) + 1] = e /\ Last(Append(s, e)) = e
               /\ Front(Append(s, e)) = s
               /\ \A i \in 1..Len(s) : Append(s, e)[i] = s[i]
    <2> DEFINE T == S \cup {e}
    <2>1. s \in Seq(T) /\ e \in T
      BY <1>1
    <2>2. /\ Append(s, e) \in Seq(T) /\ Len(Append(s, e)) = Len(s) + 1
          /\ Append(s, e)[Len(s) + 1] = e
          /\ \A i \in 1..Len(s) : Append(s, e)[i] = s[i]
      BY <2>1, <1>2
    <2>3. Last(Append(s, e)) = e
      BY <2>2 DEF Last
    <2>4. Front(Append(s, e)) = s
      <3>1. Front(Append(s, e)) = SubSeq(Append(s, e), 1, Len(s))
        BY <2>2, <1>2 DEF Front
      <3>2. SubSeq(Append(s, e), 1, Len(s)) \in Seq(T) /\ Len(SubSeq(Append(s, e), 1, Len(s))) = Len(s)
            /\ \A i \in 1..Len(s) : SubSeq(Append(s, e), 1, Len(s))[i] = s[i]
        BY <2>1, <2>2, <1>2
      <3> QED  BY <3>1, <3>2, <2>1
    <2> QED  BY <2>2, <2>3, <2>4 DEF IsSeq
  <1> QED  BY <1>2, <1>3, <1>4

\* Two sequences one after the other.
LEMMA ConcatFacts ==
    ASSUME NEW s, IsSeq(s), NEW t, IsSeq(t)
    PROVE  /\ IsSeq(s \o t) /\ Len(s \o t) = Len(s) + Len(t)
           /\ \A i \in 1..Len(s) : (s \o t)[i] = s[i]
           /\ \A i \in (Len(s) + 1)..(Len(s) + Len(t)) : (s \o t)[i] = t[i - Len(s)]
           /\ s = <<>> => s \o t = t
           /\ s # <<>> => s \o t # <<>> /\ Head(s \o t) = Head(s) /\ Tail(s \o t) = Tail(s) \o t
  <1>1. PICK S : s \in Seq(S)
    BY DEF IsSeq
  <1>2. PICK T : t \in Seq(T)
    BY DEF IsSeq
  <1> DEFINE U == S \cup T
  <1>3. s \in Seq(U) /\ t \in Seq(U)
    BY <1>1, <1>2
  <1> HIDE DEF U
  <1>4. s \o t \in Seq(U)
    BY <1>3
  <1>5. ASSUME s # <<>> PROVE Tail(s \o t) = Tail(s) \o t /\ s \o t # <<>> /\ Head(s \o t) = Head(s)
    BY <1>3, <1>5
  <1> QED  BY <1>3, <1>4, <1>5 DEF IsSeq

-----------------------------------------------------------------------------
(* The scopes ahead                                                        *)

\* A key of temps, or Param for the parameter, whose slot no temp holds.
Param == -1
Key == Nat \cup {Param}
Map(N) == UNION {[D -> Param..(N - 1)] : D \in SUBSET UserName}

\* A state of the scopes: for each scope of the lowering all the names bound in
\* it or further out, and for each scope of the checker the names it declares,
\* by the keys of their slots.
States(N) == Seq(Map(N)) \X Seq(Map(N))

Bind(maps, n, k) == Append(Front(maps), With(Last(maps), n, k))

\* No other name has its slot under k.
Fresh(k, n, u, w) ==
    /\ \A i \in DOMAIN u : \A m \in DOMAIN u[i] : u[i][m] = k => i = Len(u) /\ m = n
    /\ \A j \in DOMAIN w : \A m \in DOMAIN w[j] : w[j][m] # k

\* What the checker resolves a name to is what the lowering has for it.
Sync(u, w) ==
    \A j \in DOMAIN w : \A n \in DOMAIN w[j] :
        (\A q \in (j + 1)..Len(w) : n \notin DOMAIN w[q])
          => n \in DOMAIN Last(u) /\ Last(u)[n] = w[j][n]

Ready(u, w) == Len(u) >= 2 /\ Len(w) >= 2 /\ Sync(u, w)

Loud == {"push_scope", "pop_scope", "enter", "leave", "define", "store", "stmts",
         "expr", "else"}

\* What a step of `todo` does to the scopes, and needs of them.
Rel(s, a, b) ==
    LET u == a[1]  w == a[2]
    IN  /\ s.do = "push_scope" => Len(u) >= 1 /\ b = <<Append(u, Last(u)), w>>
        /\ s.do = "pop_scope" => Len(u) >= 2 /\ b = <<Front(u), w>>
        /\ s.do = "enter" => b = <<u, Append(w, EmptyMap)>>
        /\ s.do = "leave" => Len(w) >= 2 /\ b = <<u, Front(w)>>
        /\ s.do = "define" => /\ Len(u) >= 1 /\ Len(w) >= 1 /\ s.temp \in Nat
                              /\ s.name \in DOMAIN Last(u) /\ Last(u)[s.name] = s.temp
                              /\ b = <<u, Bind(w, s.name, s.temp)>>
        /\ s.do = "store" => /\ Len(u) >= 2 /\ s.ty \in Val /\ s.temp \in Nat
                             /\ s.name \in Name \cup {NoName}
                             /\ Fresh(s.temp, s.name, u, w)
                             /\ b = IF s.name \in UserName THEN <<Bind(u, s.name, s.temp), w>>
                                    ELSE a
        /\ s.do = "stmts" => Ready(u, w) /\ b = <<Front(u), Front(w)>>
        /\ s.do \in {"expr", "else"} => Ready(u, w) /\ b = a
        /\ s.do \notin Loud => b = a

\* The steps lead from a to b, by keys below N.
Seg(steps, a, b, N) ==
    /\ IsSeq(steps)
    /\ \E f : /\ f[1] = a /\ f[Len(steps) + 1] = b
              /\ \A i \in 1..(Len(steps) + 1) : f[i] \in States(N)
              /\ \A i \in 1..Len(steps) : Rel(steps[i], f[i], f[i + 1])

\* No steps lead from a state of the scopes to itself.
LEMMA SegEmpty ==
    ASSUME NEW N \in Nat, NEW a \in States(N), NEW b
    PROVE  Seg(<<>>, a, b, N) <=> a = b
  <1>1. IsSeq(<<>>) /\ Len(<<>>) = 0
    BY Tuples
  <1>2. ASSUME a = b PROVE Seg(<<>>, a, b, N)
    <2> DEFINE f == [i \in 1..1 |-> a]
    <2>1. f[1] = a /\ \A i \in 1..1 : f[i] \in States(N)
      OBVIOUS
    <2> HIDE DEF f
    <2> QED  BY <1>1, <1>2, <2>1 DEF Seg
  <1>3. ASSUME Seg(<<>>, a, b, N) PROVE a = b
    BY <1>1, <1>3 DEF Seg
  <1> QED  BY <1>2, <1>3

\* A single step.
LEMMA SegOne ==
    ASSUME NEW N \in Nat, NEW a \in States(N), NEW b \in States(N), NEW s, Rel(s, a, b)
    PROVE  Seg(<<s>>, a, b, N)
  <1> DEFINE f == [i \in 1..2 |-> IF i = 1 THEN a ELSE b]
  <1>1. IsSeq(<<s>>) /\ Len(<<s>>) = 1 /\ <<s>>[1] = s
    BY Tuples
  <1>2. f[1] = a /\ f[2] = b /\ \A i \in 1..2 : f[i] \in States(N)
    OBVIOUS
  <1> HIDE DEF f
  <1> QED  BY <1>1, <1>2 DEF Seg

\* The ends of a path are states of the scopes.
LEMMA SegTyped ==
    ASSUME NEW N \in Nat, NEW a, NEW b, NEW steps, Seg(steps, a, b, N)
    PROVE  a \in States(N) /\ b \in States(N) /\ IsSeq(steps)
  BY SeqFacts DEF Seg

\* The first step of a path, and the path behind it.
LEMMA SegHead ==
    ASSUME NEW N \in Nat, NEW a, NEW z, NEW steps, Seg(steps, a, z, N), steps # <<>>
    PROVE  \E b : Rel(Head(steps), a, b) /\ Seg(Tail(steps), b, z, N)
  <1>1. PICK f : /\ f[1] = a /\ f[Len(steps) + 1] = z
                 /\ \A i \in 1..(Len(steps) + 1) : f[i] \in States(N)
                 /\ \A i \in 1..Len(steps) : Rel(steps[i], f[i], f[i + 1])
    BY DEF Seg
  <1>2. /\ Len(steps) \in Nat /\ Len(steps) >= 1 /\ IsSeq(Tail(steps))
        /\ Len(Tail(steps)) = Len(steps) - 1 /\ Head(steps) = steps[1]
        /\ \A i \in 1..(Len(steps) - 1) : Tail(steps)[i] = steps[i + 1]
    BY SeqFacts DEF Seg
  <1> DEFINE g == [i \in 1..Len(steps) |-> f[i + 1]]
  <1>3. /\ g[1] = f[2] /\ g[Len(Tail(steps)) + 1] = z
        /\ \A i \in 1..(Len(Tail(steps)) + 1) : g[i] \in States(N)
    BY <1>1, <1>2
  <1>4. ASSUME NEW i \in 1..Len(Tail(steps)) PROVE Rel(Tail(steps)[i], g[i], g[i + 1])
    <2>1. Tail(steps)[i] = steps[i + 1] /\ i + 1 \in 1..Len(steps)
          /\ g[i] = f[i + 1] /\ g[i + 1] = f[(i + 1) + 1]
      BY <1>2
    <2> QED  BY <1>1, <2>1
  <1> HIDE DEF g
  <1>5. Seg(Tail(steps), f[2], z, N)
    BY <1>2, <1>3, <1>4 DEF Seg
  <1>6. Rel(Head(steps), a, f[2])
    BY <1>1, <1>2
  <1> QED  BY <1>5, <1>6

\* One path after another.
LEMMA SegConcat ==
    ASSUME NEW N \in Nat, NEW a, NEW b, NEW c, NEW s, NEW t, Seg(s, a, b, N), Seg(t, b, c, N)
    PROVE  Seg(s \o t, a, c, N)
  <1>1. PICK f : /\ f[1] = a /\ f[Len(s) + 1] = b
                 /\ \A i \in 1..(Len(s) + 1) : f[i] \in States(N)
                 /\ \A i \in 1..Len(s) : Rel(s[i], f[i], f[i + 1])
    BY DEF Seg
  <1>2. PICK g : /\ g[1] = b /\ g[Len(t) + 1] = c
                 /\ \A i \in 1..(Len(t) + 1) : g[i] \in States(N)
                 /\ \A i \in 1..Len(t) : Rel(t[i], g[i], g[i + 1])
    BY DEF Seg
  <1>3. /\ IsSeq(s) /\ IsSeq(t) /\ Len(s) \in Nat /\ Len(t) \in Nat
        /\ IsSeq(s \o t) /\ Len(s \o t) = Len(s) + Len(t)
        /\ \A i \in 1..Len(s) : (s \o t)[i] = s[i]
        /\ \A i \in (Len(s) + 1)..(Len(s) + Len(t)) : (s \o t)[i] = t[i - Len(s)]
    BY SeqFacts, ConcatFacts DEF Seg
  <1> DEFINE m == Len(s)
             n == Len(t)
             h == [i \in 1..(m + n + 1) |-> IF i <= m THEN f[i] ELSE g[i - m]]
  <1>4. h[1] = a
    <2>1. CASE m = 0
      BY <1>1, <1>2, <1>3, <2>1
    <2>2. CASE m > 0
      BY <1>1, <1>3, <2>2
    <2> QED  BY <2>1, <2>2, <1>3
  <1>5. h[m + n + 1] = c
    BY <1>2, <1>3
  <1>6. \A i \in 1..(m + n + 1) : h[i] \in States(N)
    BY <1>1, <1>2, <1>3
  <1>7. ASSUME NEW i \in 1..(m + n) PROVE Rel((s \o t)[i], h[i], h[i + 1])
    <2>1. CASE i < m
      <3>1. h[i] = f[i] /\ h[i + 1] = f[i + 1] /\ (s \o t)[i] = s[i] /\ i \in 1..m
        BY <1>3, <2>1
      <3> QED  BY <3>1, <1>1
    <2>2. CASE i = m
      <3>1. h[i] = f[i] /\ h[i + 1] = g[1] /\ (s \o t)[i] = s[i] /\ i \in 1..m
        BY <1>3, <2>2
      <3> QED  BY <3>1, <1>1, <1>2, <2>2
    <2>3. CASE i > m
      <3>1. h[i] = g[i - m] /\ h[i + 1] = g[(i - m) + 1] /\ (s \o t)[i] = t[i - m] /\ i - m \in 1..n
        BY <1>3, <2>3
      <3> QED  BY <3>1, <1>2
    <2> QED  BY <2>1, <2>2, <2>3, <1>3
  <1> HIDE DEF h
  <1> QED  BY <1>3, <1>4, <1>5, <1>6, <1>7 DEF Seg

\* A state of the scopes stays one when more keys are taken.
LEMMA StatesGrow ==
    ASSUME NEW N \in Nat, NEW M \in Nat, N <= M
    PROVE  Map(N) \subseteq Map(M) /\ States(N) \subseteq States(M)
  <1>1. Map(N) \subseteq Map(M)
    <2>1. Param..(N - 1) \subseteq Param..(M - 1)
      BY DEF Param
    <2> QED  BY <2>1 DEF Map
  <1>2. Seq(Map(N)) \subseteq Seq(Map(M))
    BY <1>1
  <1> QED  BY <1>1, <1>2 DEF States

\* And so does a path.
LEMMA SegGrow ==
    ASSUME NEW N \in Nat, NEW M \in Nat, N <= M, NEW s, NEW a, NEW b, Seg(s, a, b, N)
    PROVE  Seg(s, a, b, M)
  BY StatesGrow DEF Seg

\* A store to a slot no name of the source is bound to, under a new key.
HiddenStore(s, N) ==
    /\ s.do = "store" /\ s.ty \in Val /\ s.temp \in Nat /\ s.temp >= N
    /\ s.name \in InternalName \cup {NoName}

\* Steps that do not touch the scopes, and those that ask nothing of them.
QuietSteps(steps, N) ==
    IsSeq(steps) /\ \A i \in DOMAIN steps :
        steps[i].do \notin Loud \ {"expr", "else"} \/ HiddenStore(steps[i], N)
SilentSteps(steps, N) ==
    IsSeq(steps) /\ \A i \in DOMAIN steps : steps[i].do \notin Loud \/ HiddenStore(steps[i], N)

\* Such a store leaves the scopes alone.
LEMMA HiddenRel ==
    ASSUME NEW N \in Nat, NEW u, NEW w, <<u, w>> \in States(N), Len(u) >= 2,
           NEW s, HiddenStore(s, N)
    PROVE  Rel(s, <<u, w>>, <<u, w>>)
  <1>1. s.name \notin UserName /\ s.name \in Name \cup {NoName}
    BY NameAssumption DEF HiddenStore, Name
  <1>2. u \in Seq(Map(N)) /\ w \in Seq(Map(N))
    BY DEF States
  <1>3. \A m \in Map(N) : \A n \in DOMAIN m : m[n] # s.temp
    <2> SUFFICES ASSUME NEW m \in Map(N), NEW n \in DOMAIN m PROVE m[n] # s.temp
      OBVIOUS
    <2>1. PICK D \in SUBSET UserName : m \in [D -> Param..(N - 1)]
      BY DEF Map
    <2>2. m[n] \in Param..(N - 1)
      BY <2>1
    <2> QED  BY <2>2 DEF HiddenStore, Param
  <1>4. Fresh(s.temp, s.name, u, w)
    BY <1>2, <1>3 DEF Fresh
  <1> QED  BY <1>1, <1>4 DEF Rel, HiddenStore

\* Steps none of which touches the scopes.
LEMMA SegSteps ==
    ASSUME NEW N \in Nat, NEW a \in States(N), NEW steps, IsSeq(steps),
           \A i \in DOMAIN steps : Rel(steps[i], a, a)
    PROVE  Seg(steps, a, a, N)
  <1> DEFINE f == [i \in 1..(Len(steps) + 1) |-> a]
  <1>1. Len(steps) \in Nat /\ DOMAIN steps = 1..Len(steps)
    BY SeqFacts
  <1>3. \A i \in 1..(Len(steps) + 1) : f[i] = a
    OBVIOUS
  <1>4. f[1] = a /\ f[Len(steps) + 1] = a
    BY <1>1, <1>3
  <1>5. \A i \in 1..Len(steps) : Rel(steps[i], f[i], f[i + 1])
    BY <1>1, <1>3
  <1> HIDE DEF f
  <1> QED  BY <1>1, <1>3, <1>4, <1>5 DEF Seg

\* Operands, instructions and hidden stores, where names can be read.
LEMMA SegQuiet ==
    ASSUME NEW N \in Nat, NEW u, NEW w, <<u, w>> \in States(N), Ready(u, w),
           NEW steps, QuietSteps(steps, N)
    PROVE  Seg(steps, <<u, w>>, <<u, w>>, N)
  <1>1. ASSUME NEW i \in DOMAIN steps PROVE Rel(steps[i], <<u, w>>, <<u, w>>)
    <2>1. CASE steps[i].do \notin Loud \ {"expr", "else"}
      BY <2>1 DEF Rel, Loud
    <2>2. CASE HiddenStore(steps[i], N)
      BY <2>2, HiddenRel DEF Ready
    <2> QED  BY <2>1, <2>2 DEF QuietSteps
  <1> QED  BY <1>1, SegSteps DEF QuietSteps

\* Instructions and hidden stores anywhere in a scope.
LEMMA SegSilent ==
    ASSUME NEW N \in Nat, NEW u, NEW w, <<u, w>> \in States(N), Len(u) >= 2,
           NEW steps, SilentSteps(steps, N)
    PROVE  Seg(steps, <<u, w>>, <<u, w>>, N)
  <1>1. ASSUME NEW i \in DOMAIN steps PROVE Rel(steps[i], <<u, w>>, <<u, w>>)
    <2>1. CASE steps[i].do \notin Loud
      BY <2>1 DEF Rel, Loud
    <2>2. CASE HiddenStore(steps[i], N)
      BY <2>2, HiddenRel
    <2> QED  BY <2>1, <2>2 DEF SilentSteps
  <1> QED  BY <1>1, SegSteps DEF SilentSteps

\* A step of two sequences is a step of one of them.
LEMMA ConcatSteps ==
    ASSUME NEW s, NEW t, IsSeq(s), IsSeq(t), NEW i \in DOMAIN (s \o t)
    PROVE  \/ i \in DOMAIN s /\ (s \o t)[i] = s[i]
           \/ i - Len(s) \in DOMAIN t /\ (s \o t)[i] = t[i - Len(s)]
  <1>1. /\ IsSeq(s \o t) /\ Len(s \o t) = Len(s) + Len(t) /\ Len(s) \in Nat /\ Len(t) \in Nat
        /\ DOMAIN s = 1..Len(s) /\ DOMAIN t = 1..Len(t) /\ DOMAIN (s \o t) = 1..(Len(s) + Len(t))
    BY ConcatFacts, SeqFacts
  <1>2. CASE i <= Len(s)
    BY <1>1, <1>2, ConcatFacts
  <1>3. CASE i > Len(s)
    BY <1>1, <1>3, ConcatFacts
  <1> QED  BY <1>1, <1>2, <1>3

\* What asks nothing of the scopes asks nothing of them together.
LEMMA QuietConcat ==
    ASSUME NEW s, NEW t, NEW N
    PROVE  /\ QuietSteps(s, N) /\ QuietSteps(t, N) => QuietSteps(s \o t, N)
           /\ SilentSteps(s, N) /\ SilentSteps(t, N) => SilentSteps(s \o t, N)
  <1>1. ASSUME QuietSteps(s, N), QuietSteps(t, N) PROVE QuietSteps(s \o t, N)
    <2>1. IsSeq(s) /\ IsSeq(t) /\ IsSeq(s \o t)
      BY <1>1, ConcatFacts DEF QuietSteps
    <2>2. ASSUME NEW i \in DOMAIN (s \o t)
          PROVE (s \o t)[i].do \notin Loud \ {"expr", "else"} \/ HiddenStore((s \o t)[i], N)
      <3>1. CASE i \in DOMAIN s /\ (s \o t)[i] = s[i]
        BY <3>1, <1>1 DEF QuietSteps
      <3>2. CASE i - Len(s) \in DOMAIN t /\ (s \o t)[i] = t[i - Len(s)]
        BY <3>2, <1>1 DEF QuietSteps
      <3> QED  BY <2>1, <3>1, <3>2, ConcatSteps
    <2> QED  BY <2>1, <2>2 DEF QuietSteps
  <1>2. ASSUME SilentSteps(s, N), SilentSteps(t, N) PROVE SilentSteps(s \o t, N)
    <2>1. IsSeq(s) /\ IsSeq(t) /\ IsSeq(s \o t)
      BY <1>2, ConcatFacts DEF SilentSteps
    <2>2. ASSUME NEW i \in DOMAIN (s \o t)
          PROVE (s \o t)[i].do \notin Loud \/ HiddenStore((s \o t)[i], N)
      <3>1. CASE i \in DOMAIN s /\ (s \o t)[i] = s[i]
        BY <3>1, <1>2 DEF SilentSteps
      <3>2. CASE i - Len(s) \in DOMAIN t /\ (s \o t)[i] = t[i - Len(s)]
        BY <3>2, <1>2 DEF SilentSteps
      <3> QED  BY <2>1, <3>1, <3>2, ConcatSteps
    <2> QED  BY <2>1, <2>2 DEF SilentSteps
  <1> QED  BY <1>1, <1>2

-----------------------------------------------------------------------------
(* Scopes opened, closed and added to                                      *)

\* Scopes are closed under declarations.
LEMMA MapFacts ==
    ASSUME NEW N \in Nat
    PROVE  /\ EmptyMap \in Map(N)
           /\ \A m \in Map(N), n \in UserName, k \in Param..(N - 1) : With(m, n, k) \in Map(N)
  <1>1. EmptyMap \in Map(N)
    <2>1. EmptyMap \in [{} -> Param..(N - 1)]
      BY DEF EmptyMap
    <2> QED  BY <2>1 DEF Map
  <1>2. ASSUME NEW m \in Map(N), NEW n \in UserName, NEW k \in Param..(N - 1)
        PROVE  With(m, n, k) \in Map(N)
    <2>1. PICK D \in SUBSET UserName : m \in [D -> Param..(N - 1)]
      BY DEF Map
    <2>2. With(m, n, k) \in [D \cup {n} -> Param..(N - 1)] /\ D \cup {n} \in SUBSET UserName
      BY <2>1 DEF With
    <2> QED  BY <2>2 DEF Map
  <1> QED  BY <1>1, <1>2

\* What a map is after a key was set.
LEMMA WithFacts ==
    ASSUME NEW m, NEW n, NEW k
    PROVE  /\ DOMAIN With(m, n, k) = DOMAIN m \cup {n}
           /\ With(m, n, k)[n] = k
           /\ \A x \in DOMAIN m : x # n => With(m, n, k)[x] = m[x]
  BY DEF With

\* A key set twice to the same is a key set once.
LEMMA WithTwice == \A m, n, k : With(With(m, n, k), n, k) = With(m, n, k)
  BY DEF With

\* A new scope of the checker declares nothing.
LEMMA EmptyMapFacts == DOMAIN EmptyMap = {}
  BY DEF EmptyMap

\* The two sides of a state of the scopes.
LEMMA StateParts ==
    ASSUME NEW N \in Nat, NEW u, NEW w
    PROVE  <<u, w>> \in States(N) <=> u \in Seq(Map(N)) /\ w \in Seq(Map(N))
  BY DEF States

\* The keys there are.
LEMMA ParamKey == \A N \in Nat : Param \in Param..(N - 1) /\ \A k \in 0..(N - 1) : k \in Param..(N - 1)
  BY DEF Param

\* The scopes of one side, opened, closed, and with a name bound.
LEMMA Scopes ==
    ASSUME NEW N \in Nat, NEW u \in Seq(Map(N)), Len(u) >= 1
    PROVE  /\ Append(u, Last(u)) \in Seq(Map(N)) /\ Len(Append(u, Last(u))) = Len(u) + 1
           /\ Front(Append(u, Last(u))) = u /\ Last(Append(u, Last(u))) = Last(u)
           /\ Last(u) = u[Len(u)] /\ Last(u) \in Map(N)
           /\ Front(u) \in Seq(Map(N)) /\ Len(Front(u)) = Len(u) - 1
           /\ \A i \in 1..(Len(u) - 1) : Front(u)[i] = u[i]
           /\ \A i \in 1..Len(u) : Append(u, Last(u))[i] = u[i]
           /\ \A n \in UserName, k \in Param..(N - 1) :
                 /\ Bind(u, n, k) \in Seq(Map(N)) /\ Len(Bind(u, n, k)) = Len(u)
                 /\ Front(Bind(u, n, k)) = Front(u)
                 /\ Last(Bind(u, n, k)) = With(Last(u), n, k)
                 /\ \A i \in 1..(Len(u) - 1) : Bind(u, n, k)[i] = u[i]
                 /\ Bind(Bind(u, n, k), n, k) = Bind(u, n, k)
  <1>1. IsSeq(u) /\ u # <<>> /\ Len(u) \in Nat
    BY DEF IsSeq
  <1>2. Last(u) = u[Len(u)] /\ Last(u) \in Map(N)
    BY <1>1 DEF Last
  <1>3. Append(u, Last(u)) \in Seq(Map(N))
    BY <1>2
  <1>4. Front(u) \in Seq(Map(N)) /\ Len(Front(u)) = Len(u) - 1
        /\ \A i \in 1..(Len(u) - 1) : Front(u)[i] = u[i]
    <2>1. Front(u) = SubSeq(u, 1, Len(u) - 1)
      BY DEF Front
    <2>2. Front(u) \in Seq(Map(N))
      BY <1>1, <2>1
    <2> QED  BY <1>1, <2>2, SeqFacts
  <1>5. ASSUME NEW n \in UserName, NEW k \in Param..(N - 1)
        PROVE  /\ Bind(u, n, k) \in Seq(Map(N)) /\ Len(Bind(u, n, k)) = Len(u)
               /\ Front(Bind(u, n, k)) = Front(u)
               /\ Last(Bind(u, n, k)) = With(Last(u), n, k)
               /\ \A i \in 1..(Len(u) - 1) : Bind(u, n, k)[i] = u[i]
               /\ Bind(Bind(u, n, k), n, k) = Bind(u, n, k)
    <2>1. With(Last(u), n, k) \in Map(N)
      BY <1>2, MapFacts
    <2>2. Bind(u, n, k) \in Seq(Map(N)) /\ IsSeq(Front(u))
      BY <1>4, <2>1 DEF Bind, IsSeq
    <2>3. /\ Len(Bind(u, n, k)) = Len(u) /\ Front(Bind(u, n, k)) = Front(u)
          /\ Last(Bind(u, n, k)) = With(Last(u), n, k)
          /\ \A i \in 1..(Len(u) - 1) : Bind(u, n, k)[i] = u[i]
      BY <1>1, <1>4, <2>2, SeqFacts DEF Bind
    <2>4. Bind(Bind(u, n, k), n, k) = Append(Front(u), With(With(Last(u), n, k), n, k))
      BY <2>3 DEF Bind
    <2>5. Bind(Bind(u, n, k), n, k) = Bind(u, n, k)
      BY <2>4, WithTwice DEF Bind
    <2> QED  BY <2>2, <2>3, <2>5
  <1> QED  BY <1>1, <1>2, <1>3, <1>4, <1>5, SeqFacts

\* A scope opened by the checker.
LEMMA Opened ==
    ASSUME NEW N \in Nat, NEW w \in Seq(Map(N))
    PROVE  /\ Append(w, EmptyMap) \in Seq(Map(N)) /\ Len(Append(w, EmptyMap)) = Len(w) + 1
           /\ Front(Append(w, EmptyMap)) = w /\ Last(Append(w, EmptyMap)) = EmptyMap
           /\ \A i \in 1..Len(w) : Append(w, EmptyMap)[i] = w[i]
  <1>1. IsSeq(w)
    BY DEF IsSeq
  <1>2. Append(w, EmptyMap) \in Seq(Map(N))
    BY MapFacts
  <1> QED  BY <1>1, <1>2, SeqFacts

\* Scopes opened on either side keep them in step, and so does a name bound on
\* both, or by the lowering alone when the checker knows no such name.
LEMMA SyncOpened ==
    ASSUME NEW N \in Nat, NEW u \in Seq(Map(N)), NEW w \in Seq(Map(N)), Len(u) >= 1, Sync(u, w)
    PROVE  Sync(Append(u, Last(u)), w) /\ Sync(u, Append(w, EmptyMap))
  <1>1. Last(Append(u, Last(u))) = Last(u)
    BY Scopes
  <1>2. Sync(Append(u, Last(u)), w)
    BY <1>1 DEF Sync
  <1> DEFINE x == Append(w, EmptyMap)
  <1>3. Len(x) = Len(w) + 1 /\ DOMAIN x = 1..(Len(w) + 1) /\ Len(w) \in Nat /\ DOMAIN w = 1..Len(w)
        /\ x[Len(w) + 1] = EmptyMap /\ \A i \in 1..Len(w) : x[i] = w[i]
    BY Opened, MapFacts
  <1> HIDE DEF x
  <1>4. ASSUME NEW j \in DOMAIN x, NEW n \in DOMAIN x[j],
               \A q \in (j + 1)..Len(x) : n \notin DOMAIN x[q]
        PROVE  n \in DOMAIN Last(u) /\ Last(u)[n] = x[j][n]
    <2>1. j # Len(w) + 1
      BY <1>3, EmptyMapFacts
    <2>2. j \in DOMAIN w /\ x[j] = w[j]
      BY <1>3, <2>1
    <2>3. \A q \in (j + 1)..Len(w) : n \notin DOMAIN w[q]
      BY <1>3, <1>4, <2>2
    <2> QED  BY <2>2, <2>3 DEF Sync
  <1>5. Sync(u, x)
    BY <1>4 DEF Sync
  <1> QED  BY <1>2, <1>5 DEF x

\* A name bound keeps them in step.
LEMMA SyncBound ==
    ASSUME NEW N \in Nat, NEW u \in Seq(Map(N)), NEW w \in Seq(Map(N)),
           Len(u) >= 1, Len(w) >= 1, Sync(u, w),
           NEW n \in UserName, NEW k \in Param..(N - 1)
    PROVE  /\ Sync(Bind(u, n, k), Bind(w, n, k))
           /\ (\A j \in DOMAIN w : n \notin DOMAIN w[j]) => Sync(Bind(u, n, k), w)
  <1> DEFINE y == With(Last(u), n, k)
             x == Bind(w, n, k)
  <1>1. /\ Last(Bind(u, n, k)) = y
        /\ DOMAIN y = DOMAIN Last(u) \cup {n} /\ y[n] = k
        /\ \A m \in DOMAIN Last(u) : m # n => y[m] = Last(u)[m]
    <2>1. Last(Bind(u, n, k)) = y
      BY Scopes
    <2> QED  BY <2>1 DEF With
  <1> HIDE DEF y
  <1>2. ASSUME \A j \in DOMAIN w : n \notin DOMAIN w[j] PROVE Sync(Bind(u, n, k), w)
    <2> SUFFICES ASSUME NEW j \in DOMAIN w, NEW m \in DOMAIN w[j],
                        \A q \in (j + 1)..Len(w) : m \notin DOMAIN w[q]
                 PROVE  m \in DOMAIN y /\ y[m] = w[j][m]
      BY <1>1 DEF Sync
    <2>1. m # n /\ m \in DOMAIN Last(u) /\ Last(u)[m] = w[j][m]
      BY <1>2 DEF Sync
    <2> QED  BY <1>1, <2>1
  <1>3. /\ Len(x) = Len(w) /\ DOMAIN x = 1..Len(w) /\ Len(w) \in Nat /\ DOMAIN w = 1..Len(w)
        /\ x[Len(w)] = With(w[Len(w)], n, k) /\ \A i \in 1..(Len(w) - 1) : x[i] = w[i]
    <2>1. x \in Seq(Map(N)) /\ Len(x) = Len(w) /\ Last(x) = With(Last(w), n, k)
          /\ Last(w) = w[Len(w)] /\ \A i \in 1..(Len(w) - 1) : x[i] = w[i]
      BY Scopes
    <2> HIDE DEF x
    <2>2. Last(x) = x[Len(x)]
      BY DEF Last
    <2>3. Len(w) \in Nat /\ DOMAIN w = 1..Len(w) /\ DOMAIN x = 1..Len(x)
      BY <2>1
    <2> QED  BY <2>1, <2>2, <2>3
  <1> HIDE DEF x
  <1>6. /\ DOMAIN x[Len(w)] = DOMAIN w[Len(w)] \cup {n} /\ x[Len(w)][n] = k
        /\ \A m \in DOMAIN w[Len(w)] : m # n => x[Len(w)][m] = w[Len(w)][m]
    <2>1. x[Len(w)] = With(w[Len(w)], n, k)
      BY <1>3
    <2> QED  BY <2>1 DEF With
  <1>4. ASSUME NEW j \in DOMAIN x, NEW m \in DOMAIN x[j],
               \A q \in (j + 1)..Len(x) : m \notin DOMAIN x[q]
        PROVE  m \in DOMAIN y /\ y[m] = x[j][m]
    <2>1. CASE m = n
      <3>1. j = Len(w)
        BY <1>3, <1>4, <1>6, <2>1
      <3> QED  BY <1>1, <1>6, <2>1, <3>1
    <2>2. CASE m # n
      <3>1. m \in DOMAIN w[j] /\ x[j][m] = w[j][m]
        BY <1>3, <1>6, <2>2
      <3>2. \A q \in (j + 1)..Len(w) : m \notin DOMAIN w[q]
        <4> SUFFICES ASSUME NEW q \in (j + 1)..Len(w) PROVE m \notin DOMAIN w[q]
          OBVIOUS
        <4>1. m \notin DOMAIN x[q]
          BY <1>3, <1>4
        <4>2. DOMAIN w[q] \subseteq DOMAIN x[q]
          BY <1>3, <1>6
        <4> QED  BY <4>1, <4>2
      <3>3. m \in DOMAIN Last(u) /\ Last(u)[m] = w[j][m]
        BY <3>1, <3>2, <1>3 DEF Sync
      <3> QED  BY <1>1, <3>1, <3>3, <2>2
    <2> QED  BY <2>1, <2>2
  <1>5. Sync(Bind(u, n, k), x)
    BY <1>1, <1>4 DEF Sync
  <1> QED  BY <1>2, <1>5 DEF x

-----------------------------------------------------------------------------
(* Blocks and patterns                                                     *)

\* Two steps are one step after another.
LEMMA PairConcat == \A a, b : <<a>> \o <<b>> = <<a, b>>
  <1> SUFFICES ASSUME NEW a, NEW b PROVE <<a>> \o <<b>> = <<a, b>>
    OBVIOUS
  <1> DEFINE s == <<a>>
             t == <<b>>
  <1>1. IsSeq(s) /\ IsSeq(t) /\ Len(s) = 1 /\ Len(t) = 1 /\ s[1] = a /\ t[1] = b
    BY Tuples
  <1> HIDE DEF s, t
  <1>2. IsSeq(s \o t) /\ Len(s \o t) = 2 /\ (s \o t)[1] = a /\ (s \o t)[2] = b
    <2>0. IsSeq(s) /\ IsSeq(t)
      BY <1>1
    <2>1. /\ IsSeq(s \o t) /\ Len(s \o t) = Len(s) + Len(t)
          /\ \A i \in 1..Len(s) : (s \o t)[i] = s[i]
          /\ \A i \in (Len(s) + 1)..(Len(s) + Len(t)) : (s \o t)[i] = t[i - Len(s)]
      BY <2>0, ConcatFacts
    <2>2. (s \o t)[1] = s[1]
      BY <1>1, <2>1
    <2>3. (s \o t)[2] = t[2 - 1]
      BY <1>1, <2>1
    <2> QED  BY <1>1, <2>1, <2>2, <2>3
  <1>3. \A x : IsSeq(x) /\ Len(x) = 2 => x = <<x[1], x[2]>>
    <2> SUFFICES ASSUME NEW x, IsSeq(x), Len(x) = 2 PROVE x = <<x[1], x[2]>>
      OBVIOUS
    <2>1. PICK S : x \in Seq(S)
      BY DEF IsSeq
    <2> QED  BY <2>1
  <1>4. s \o t = <<a, b>>
    BY <1>2, <1>3
  <1> QED  BY <1>4 DEF s, t

\* A path and one step more.
LEMMA SegAppend ==
    ASSUME NEW N \in Nat, NEW a, NEW b, NEW c \in States(N), NEW s, NEW x,
           Seg(s, a, b, N), Rel(x, b, c)
    PROVE  Seg(Append(s, x), a, c, N)
  <1>1. b \in States(N) /\ IsSeq(s)
    BY SegTyped
  <1>2. Seg(<<x>>, b, c, N)
    BY <1>1, SegOne
  <1>3. Seg(s \o <<x>>, a, c, N)
    BY <1>2, SegConcat
  <1>4. Append(s, x) = s \o <<x>>
    <2>1. PICK S : s \in Seq(S)
      BY <1>1 DEF IsSeq
    <2> QED  BY <2>1
  <1> QED  BY <1>3, <1>4

\* A scope opened by the lowering, and by the checker.
Pushed(u) == Append(u, Last(u))
Entered(w) == Append(w, EmptyMap)

\* push_scope opens a scope with the names of the one around it.
LEMMA PushSeg ==
    ASSUME NEW N \in Nat, NEW u, NEW w, <<u, w>> \in States(N), Len(u) >= 1
    PROVE  Seg(<<PushScope>>, <<u, w>>, <<Pushed(u), w>>, N)
  <1>1. u \in Seq(Map(N)) /\ w \in Seq(Map(N))
    BY StateParts
  <1>2. <<Pushed(u), w>> \in States(N)
    BY <1>1, Scopes, StateParts DEF Pushed
  <1>3. Rel(PushScope, <<u, w>>, <<Pushed(u), w>>)
    BY DEF Rel, PushScope, Do, Loud, Pushed
  <1> QED  BY <1>2, <1>3, SegOne

\* pop_scope closes it.
LEMMA PopSeg ==
    ASSUME NEW N \in Nat, NEW u, NEW w, <<u, w>> \in States(N), Len(u) >= 2
    PROVE  Seg(<<PopScope>>, <<u, w>>, <<Front(u), w>>, N)
  <1>1. u \in Seq(Map(N)) /\ w \in Seq(Map(N))
    BY StateParts
  <1>2. <<Front(u), w>> \in States(N)
    BY <1>1, Scopes, StateParts
  <1>3. Rel(PopScope, <<u, w>>, <<Front(u), w>>)
    BY DEF Rel, PopScope, Do, Loud
  <1> QED  BY <1>2, <1>3, SegOne

\* The checker opens a scope without names.
LEMMA EnterSeg ==
    ASSUME NEW N \in Nat, NEW u, NEW w, <<u, w>> \in States(N)
    PROVE  Seg(<<Enter>>, <<u, w>>, <<u, Entered(w)>>, N)
  <1>1. u \in Seq(Map(N)) /\ w \in Seq(Map(N))
    BY StateParts
  <1>2. <<u, Entered(w)>> \in States(N)
    BY <1>1, Opened, StateParts DEF Entered
  <1>3. Rel(Enter, <<u, w>>, <<u, Entered(w)>>)
    BY DEF Rel, Enter, Do, Loud, Entered
  <1> QED  BY <1>2, <1>3, SegOne

\* And closes it.
LEMMA LeaveSeg ==
    ASSUME NEW N \in Nat, NEW u, NEW w, <<u, w>> \in States(N), Len(w) >= 2
    PROVE  Seg(<<Leave>>, <<u, w>>, <<u, Front(w)>>, N)
  <1>1. u \in Seq(Map(N)) /\ w \in Seq(Map(N))
    BY StateParts
  <1>2. <<u, Front(w)>> \in States(N)
    BY <1>1, Scopes, StateParts
  <1>3. Rel(Leave, <<u, w>>, <<u, Front(w)>>)
    BY DEF Rel, Leave, Do, Loud
  <1> QED  BY <1>2, <1>3, SegOne

\* Inside of a new scope expressions can be lowered, and it can be closed.
LEMMA InScope ==
    ASSUME NEW N \in Nat, NEW u, NEW w, <<u, w>> \in States(N), Ready(u, w)
    PROVE  /\ <<Pushed(u), w>> \in States(N) /\ Ready(Pushed(u), w)
           /\ <<Pushed(u), Entered(w)>> \in States(N) /\ Ready(Pushed(u), Entered(w))
           /\ Front(Pushed(u)) = u /\ Front(Entered(w)) = w
           /\ Len(Pushed(u)) >= 2 /\ Len(Entered(w)) >= 2
           /\ Seg(<<PushScope>>, <<u, w>>, <<Pushed(u), w>>, N)
           /\ Seg(<<Enter>>, <<Pushed(u), w>>, <<Pushed(u), Entered(w)>>, N)
  <1>1. u \in Seq(Map(N)) /\ w \in Seq(Map(N)) /\ Len(u) >= 2 /\ Len(w) >= 2 /\ Sync(u, w)
        /\ Len(u) \in Nat /\ Len(w) \in Nat
    BY StateParts DEF Ready
  <1>2. /\ Pushed(u) \in Seq(Map(N)) /\ Len(Pushed(u)) = Len(u) + 1 /\ Front(Pushed(u)) = u
        /\ Sync(Pushed(u), w)
    BY <1>1, Scopes, SyncOpened DEF Pushed
  <1>3. /\ Entered(w) \in Seq(Map(N)) /\ Len(Entered(w)) = Len(w) + 1 /\ Front(Entered(w)) = w
    BY <1>1, Opened DEF Entered
  <1>4. Sync(Pushed(u), Entered(w))
    BY <1>1, <1>2, SyncOpened DEF Entered
  <1>5. <<Pushed(u), w>> \in States(N) /\ <<Pushed(u), Entered(w)>> \in States(N)
    BY <1>1, <1>2, <1>3, StateParts
  <1>6. Ready(Pushed(u), w) /\ Ready(Pushed(u), Entered(w))
    BY <1>1, <1>2, <1>3, <1>4 DEF Ready
  <1>7. Seg(<<PushScope>>, <<u, w>>, <<Pushed(u), w>>, N)
    BY <1>1, PushSeg
  <1>8. Seg(<<Enter>>, <<Pushed(u), w>>, <<Pushed(u), Entered(w)>>, N)
    <2> DEFINE v == Pushed(u)
    <2>1. <<v, w>> \in States(N)
      BY <1>5
    <2> HIDE DEF v
    <2>2. Seg(<<Enter>>, <<v, w>>, <<v, Entered(w)>>, N)
      BY <2>1, EnterSeg
    <2> QED  BY <2>2 DEF v
  <1> QED  BY <1>1, <1>2, <1>3, <1>5, <1>6, <1>7, <1>8

\* A block leaves the scopes as it found them.
LEMMA BodySeg ==
    ASSUME NEW N \in Nat, NEW u, NEW w, <<u, w>> \in States(N), Ready(u, w),
           NEW ty, NEW in, NEW next
    PROVE  Seg(Body(ty, in, next), <<u, w>>, <<u, w>>, N)
  <1>1. Rel(Stmts(ty, in, next), <<Pushed(u), Entered(w)>>, <<u, w>>)
    BY InScope DEF Rel, Stmts, Loud
  <1>a. /\ <<Pushed(u), Entered(w)>> \in States(N)
        /\ Seg(<<PushScope>>, <<u, w>>, <<Pushed(u), w>>, N)
    BY InScope
  <1>2. Rel(Enter, <<Pushed(u), w>>, <<Pushed(u), Entered(w)>>)
    BY DEF Rel, Enter, Do, Loud, Entered
  <1> DEFINE s == Append(<<PushScope>>, Enter)
  <1>3. Seg(s, <<u, w>>, <<Pushed(u), Entered(w)>>, N)
    BY <1>2, <1>a, SegAppend
  <1> HIDE DEF s
  <1>4. Seg(Append(s, Stmts(ty, in, next)), <<u, w>>, <<u, w>>, N)
    BY <1>1, <1>3, SegAppend
  <1>5. \A a, b, c : <<a, b, c>> = Append(Append(<<a>>, b), c)
    OBVIOUS
  <1>6. Body(ty, in, next) = Append(s, Stmts(ty, in, next))
    BY <1>5 DEF Body, s
  <1> QED  BY <1>4, <1>6

-----------------------------------------------------------------------------
(* Patterns                                                                *)

\* The scopes with the name of a pattern bound.
BindIf(maps, p, k) == IF Bound(p) = {} THEN maps ELSE Bind(maps, p.name, k)

\* What the patterns are made of.
Simple(p) ==
    \/ p.kind \in {"wildcard", "literal", "path", "range"} /\ p.name = NoName
    \/ p.kind = "binding" /\ p.name \in UserName

\* The kinds of patterns without a part.
LEMMA SimpleKinds ==
    ASSUME NEW t \in Val, NEW p \in SimplePatterns(t)
    PROVE  /\ Simple(p)
           /\ p.kind = "range" => t # "Ref"
           /\ p.kind = "path" => t = "Ref"
  BY DEF SimplePatterns, Pat, Simple, Val

\* The kinds of all patterns.
LEMMA PatternKinds ==
    ASSUME NEW t \in Val, NEW p \in Patterns(t)
    PROVE  \/ p \in SimplePatterns(t)
           \/ p.kind = "at" /\ p.name \in UserName /\ p.sub \in SimplePatterns(t) /\ p.sub.name = NoName
           \/ p.kind = "or" /\ p.sub \in SimplePatterns(t) /\ p.name = p.sub.name
           \/ p.kind = "struct" /\ p.name \in UserName /\ p.sub \in SimplePatterns("Int")
              /\ p.sub.name = NoName
  <1>1. CASE p \in {Pat("at", n, q) : n \in UserName,
              q \in {q \in SimplePatterns(t) : q.kind \in {"literal", "path"}}}
    <2>1. PICK n \in UserName, q \in SimplePatterns(t) :
             q.kind \in {"literal", "path"} /\ p = Pat("at", n, q)
      BY <1>1
    <2>2. q.name = NoName
      BY <2>1, SimpleKinds DEF Simple
    <2> QED  BY <2>1, <2>2 DEF Pat
  <1>2. CASE p \in {Pat("or", q.name, q) : q \in
              {q \in SimplePatterns(t) : q.kind \in {"literal", "path", "binding"}}}
    <2>1. PICK q \in SimplePatterns(t) : p = Pat("or", q.name, q)
      BY <1>2
    <2> QED  BY <2>1 DEF Pat
  <1>3. CASE p \in {Pat("struct", n, q) : n \in UserName,
              q \in {q \in SimplePatterns("Int") : q.name = NoName}}
    <2>1. PICK n \in UserName, q \in SimplePatterns("Int") :
             q.name = NoName /\ p = Pat("struct", n, q)
      BY <1>3
    <2> QED  BY <2>1 DEF Pat
  <1> QED  BY <1>1, <1>2, <1>3 DEF Patterns

\* The key is new, or the one the name is bound to already.
MayBind(u, w, n, b) ==
    \/ <<u, w>> \in States(b)
    \/ \E v : <<v, w>> \in States(b) /\ Len(v) >= 2 /\ u = Bind(v, n, b)

\* A name bound by the lowering.
LEMMA BoundRel ==
    ASSUME NEW N \in Nat, NEW u, NEW w, <<u, w>> \in States(N), Len(u) >= 2,
           NEW n \in UserName, NEW b \in Nat, N = b + 1, NEW ty \in Val,
           MayBind(u, w, n, b)
    PROVE  /\ <<Bind(u, n, b), w>> \in States(N) /\ Len(Bind(u, n, b)) = Len(u)
           /\ Rel(StoreNew(b, n, ty), <<u, w>>, <<Bind(u, n, b), w>>)
  <1>1. u \in Seq(Map(N)) /\ w \in Seq(Map(N)) /\ b \in Param..(N - 1)
    BY StateParts DEF Param
  <1>2. Bind(u, n, b) \in Seq(Map(N)) /\ Len(Bind(u, n, b)) = Len(u)
    BY <1>1, Scopes
  <1>3. \A m \in Map(b) : \A x \in DOMAIN m : m[x] # b
    BY DEF Map, Param
  <1>4. Fresh(b, n, u, w)
    <2>1. CASE <<u, w>> \in States(b)
      BY <2>1, <1>3, StateParts DEF Fresh
    <2>2. CASE \E v : <<v, w>> \in States(b) /\ Len(v) >= 2 /\ u = Bind(v, n, b)
      <3>1. PICK v : <<v, w>> \in States(b) /\ Len(v) >= 2 /\ u = Bind(v, n, b)
        BY <2>2
      <3>2. v \in Seq(Map(b)) /\ w \in Seq(Map(b))
        BY <3>1, StateParts
      <3>3. v \in Seq(Map(N))
        BY <3>1, StatesGrow, StateParts
      <3>4. /\ Len(u) = Len(v) /\ Last(u) = With(Last(v), n, b)
            /\ \A i \in 1..(Len(v) - 1) : u[i] = v[i]
        BY <1>1, <3>1, <3>3, Scopes
      <3>5. Len(v) \in Nat /\ \A i \in 1..Len(v) : v[i] \in Map(b)
        BY <3>2
      <3>6. DOMAIN u = 1..Len(v) /\ u[Len(v)] = With(Last(v), n, b) /\ Last(v) = v[Len(v)]
        BY <1>1, <3>4 DEF Last
      <3>7. ASSUME NEW i \in DOMAIN u, NEW m \in DOMAIN u[i], u[i][m] = b
            PROVE  i = Len(u) /\ m = n
        <4>1. CASE i # Len(v)
          <5>1. u[i] = v[i] /\ v[i] \in Map(b)
            BY <3>4, <3>5, <3>6, <4>1
          <5> QED  BY <5>1, <1>3, <3>7
        <4>2. CASE i = Len(v)
          <5> DEFINE y == v[Len(v)]
          <5>1. y \in Map(b)
            BY <3>1, <3>5
          <5> HIDE DEF y
          <5>2. m # n => m \in DOMAIN y /\ y[m] = b
            BY <3>6, <3>7, <4>2 DEF With, y
          <5>3. m = n
            BY <5>1, <5>2, <1>3
          <5> QED  BY <5>3, <4>2, <3>4
        <4> QED  BY <4>1, <4>2
      <3>8. \A j \in DOMAIN w : \A m \in DOMAIN w[j] : w[j][m] # b
        BY <3>2, <1>3
      <3> QED  BY <3>7, <3>8 DEF Fresh
    <2> QED  BY <2>1, <2>2 DEF MayBind
  <1>5. <<Bind(u, n, b), w>> \in States(N)
    BY <1>1, <1>2, StateParts
  <1>6. Rel(StoreNew(b, n, ty), <<u, w>>, <<Bind(u, n, b), w>>)
    BY <1>4 DEF Rel, StoreNew, Loud, Name
  <1> QED  BY <1>2, <1>5, <1>6


\* The same as a path.
LEMMA BoundSeg ==
    ASSUME NEW N \in Nat, NEW u, NEW w, <<u, w>> \in States(N), Len(u) >= 2,
           NEW n \in UserName, NEW b \in Nat, N = b + 1, NEW ty \in Val,
           MayBind(u, w, n, b)
    PROVE  /\ <<Bind(u, n, b), w>> \in States(N) /\ Len(Bind(u, n, b)) = Len(u)
           /\ Seg(<<StoreNew(b, n, ty)>>, <<u, w>>, <<Bind(u, n, b), w>>, N)
  BY BoundRel, SegOne

\* What a test without a name of its own does not touch.
LEMMA SimpleSilent ==
    ASSUME NEW t \in Val, NEW p \in SimplePatterns(t), p.name = NoName,
           NEW k, NEW fail, NEW b, NEW N
    PROVE  SilentSteps(lower_simple_pattern(p, k, t, fail, b), N)
  <1>1. /\ p.kind \in {"wildcard", "literal", "path", "range"}
        /\ p.kind = "range" => t # "Ref"
        /\ p.kind = "path" => t = "Ref"
    BY SimpleKinds, NameAssumption DEF Simple
  <1>2. CASE p.kind = "wildcard"
    <2>1. lower_simple_pattern(p, k, t, fail, b) = <<>>
      BY <1>2 DEF lower_simple_pattern
    <2> QED  BY <2>1, Tuples DEF SilentSteps
  <1>3. CASE p.kind = "literal" /\ t # "Ref"
    <2> DEFINE s == <<LoadTemp(k), Push(t), Branch(<<"Int", "Int">>, fail)>>
    <2>1. lower_simple_pattern(p, k, t, fail, b) = s
      BY <1>3 DEF lower_simple_pattern
    <2>2. IsSeq(s)
      BY Tuples
    <2> QED  BY <2>1, <2>2 DEF SilentSteps, LoadTemp, Push, Op, Branch, Loud
  <1>4. CASE p.kind = "literal" /\ t = "Ref"
    <2> DEFINE s == <<LoadTemp(k), Push(t), Op(<<t, t>>, <<"Int">>), Branch(<<"Int">>, fail)>>
    <2>1. lower_simple_pattern(p, k, t, fail, b) = s
      BY <1>4 DEF lower_simple_pattern
    <2>2. IsSeq(s)
      BY Tuples
    <2> QED  BY <2>1, <2>2 DEF SilentSteps, LoadTemp, Push, Op, Branch, Loud
  <1>5. CASE p.kind = "path"
    <2> DEFINE s == <<LoadTemp(k), Op(<<t>>, <<"Int">>), Branch(<<"Int">>, fail)>>
    <2>1. lower_simple_pattern(p, k, t, fail, b) = s
      BY <1>5 DEF lower_simple_pattern
    <2>2. IsSeq(s)
      BY Tuples
    <2> QED  BY <2>1, <2>2 DEF SilentSteps, LoadTemp, Op, Branch, Loud
  <1>6. CASE p.kind = "range"
    <2> DEFINE s == <<LoadTemp(k), Push(t), Branch(<<"Int", "Int">>, fail),
                      LoadTemp(k), Push(t), Branch(<<"Int", "Int">>, fail)>>
    <2>1. lower_simple_pattern(p, k, t, fail, b) = s
      BY <1>6 DEF lower_simple_pattern
    <2>2. IsSeq(s)
      BY Tuples
    <2> QED  BY <2>1, <2>2 DEF SilentSteps, LoadTemp, Push, Op, Branch, Loud
  <1> QED  BY <1>1, <1>2, <1>3, <1>4, <1>5, <1>6

\* A load and a store under a name of the source.
LEMMA LoadStoreSeg ==
    ASSUME NEW b \in Nat, NEW u, NEW w, <<u, w>> \in States(b + 1), Len(u) >= 2,
           NEW n \in UserName, NEW ty \in Val, NEW k,
           MayBind(u, w, n, b)
    PROVE  /\ <<Bind(u, n, b), w>> \in States(b + 1) /\ Len(Bind(u, n, b)) = Len(u)
           /\ Seg(<<LoadTemp(k), StoreNew(b, n, ty)>>, <<u, w>>, <<Bind(u, n, b), w>>, b + 1)
  <1>1. /\ <<Bind(u, n, b), w>> \in States(b + 1) /\ Len(Bind(u, n, b)) = Len(u)
        /\ Seg(<<StoreNew(b, n, ty)>>, <<u, w>>, <<Bind(u, n, b), w>>, b + 1)
    <2>1. PICK N \in Nat : N = b + 1
      OBVIOUS
    <2>2. <<u, w>> \in States(N)
      BY <2>1
    <2>3. /\ <<Bind(u, n, b), w>> \in States(N) /\ Len(Bind(u, n, b)) = Len(u)
          /\ Seg(<<StoreNew(b, n, ty)>>, <<u, w>>, <<Bind(u, n, b), w>>, N)
      BY <2>1, <2>2, BoundSeg
    <2> QED  BY <2>1, <2>3
  <1>2. Seg(<<LoadTemp(k)>>, <<u, w>>, <<u, w>>, b + 1)
    <2>1. SilentSteps(<<LoadTemp(k)>>, b + 1)
      BY Tuples DEF SilentSteps, LoadTemp, Loud
    <2> QED  BY <2>1, SegSilent
  <1>3. Seg(<<LoadTemp(k)>> \o <<StoreNew(b, n, ty)>>, <<u, w>>, <<Bind(u, n, b), w>>, b + 1)
    BY <1>1, <1>2, SegConcat
  <1>4. <<LoadTemp(k)>> \o <<StoreNew(b, n, ty)>> = <<LoadTemp(k), StoreNew(b, n, ty)>>
    BY PairConcat
  <1> QED  BY <1>1, <1>3, <1>4

\* The alternatives of an or-pattern bind one after the other.
LEMMA SimpleSeg ==
    ASSUME NEW b \in Nat, NEW u, NEW w, <<u, w>> \in States(b + 1), Len(u) >= 2,
           NEW t \in Val, NEW p \in SimplePatterns(t), NEW k, NEW fail,
           MayBind(u, w, p.name, b)
    PROVE  /\ <<BindIf(u, p, b), w>> \in States(b + 1) /\ Len(BindIf(u, p, b)) = Len(u)
           /\ Seg(lower_simple_pattern(p, k, t, fail, b), <<u, w>>, <<BindIf(u, p, b), w>>, b + 1)
  <1>1. CASE p.name = NoName
    <2>1. BindIf(u, p, b) = u
      BY <1>1, NameAssumption DEF BindIf, Bound
    <2>2. SilentSteps(lower_simple_pattern(p, k, t, fail, b), b + 1)
      BY <1>1, SimpleSilent
    <2> QED  BY <2>1, <2>2, SegSilent
  <1>2. CASE p.kind = "binding" /\ p.name \in UserName
    <2>1. BindIf(u, p, b) = Bind(u, p.name, b)
      BY <1>2 DEF BindIf, Bound
    <2>2. lower_simple_pattern(p, k, t, fail, b) = <<LoadTemp(k), StoreNew(b, p.name, t)>>
      BY <1>2 DEF lower_simple_pattern
    <2>3. t \in Val
      BY DEF Val
    <2> DEFINE n == p.name
    <2>4. n \in UserName
      BY <1>2
    <2> HIDE DEF n
    <2>5. /\ <<Bind(u, n, b), w>> \in States(b + 1) /\ Len(Bind(u, n, b)) = Len(u)
          /\ Seg(<<LoadTemp(k), StoreNew(b, n, t)>>, <<u, w>>, <<Bind(u, n, b), w>>, b + 1)
      <3>1. MayBind(u, w, n, b)
        BY DEF n
      <3> QED  BY <2>3, <2>4, <3>1, LoadStoreSeg
    <2> QED  BY <2>1, <2>2, <2>5 DEF n
  <1> QED  BY <1>1, <1>2, SimpleKinds DEF Simple

\* An or-pattern: its alternatives bind the same name under the same key.
LEMMA OrSeg ==
    ASSUME NEW b \in Nat, NEW u, NEW w, <<u, w>> \in States(b), Len(u) >= 2,
           NEW t \in Val, NEW p, p.sub \in SimplePatterns(t), p.name = p.sub.name,
           NEW k, NEW fail
    PROVE  /\ <<BindIf(u, p, b), w>> \in States(b + 1) /\ Len(BindIf(u, p, b)) = Len(u)
           /\ Seg(lower_or_pattern(p, k, t, fail, b), <<u, w>>, <<BindIf(u, p, b), w>>, b + 1)
  <1> DEFINE q == p.sub
             v == BindIf(u, q, b)
             N == b + 1
             s == lower_simple_pattern(q, k, t, b + 5, b)
             m == <<Goto(b + 4), Place(b + 5, Live, <<>>)>>
             z == lower_simple_pattern(q, k, t, fail, b)
             e == <<Place(b + 4, Live, <<>>)>>
  <1>1. <<u, w>> \in States(N) /\ N \in Nat
    BY StatesGrow
  <1>2. BindIf(u, p, b) = v
    BY DEF BindIf, Bound
  <1>3. MayBind(u, w, q.name, b)
    BY DEF MayBind
  <1>4. q \in SimplePatterns(t)
    OBVIOUS
  <1> HIDE DEF q
  <1>5. <<v, w>> \in States(N) /\ Len(v) = Len(u) /\ Seg(s, <<u, w>>, <<v, w>>, N)
    BY <1>1, <1>3, <1>4, SimpleSeg
  <1>6. MayBind(v, w, q.name, b)
    BY DEF MayBind, BindIf
  <1>7. BindIf(v, q, b) = v
    <2>1. CASE Bound(q) = {}
      BY <2>1 DEF BindIf
    <2>2. CASE Bound(q) # {}
      <3>1. q.name \in UserName
        BY <2>2 DEF Bound
      <3>2. u \in Seq(Map(N)) /\ b \in Param..(N - 1)
        BY <1>1, StateParts DEF Param
      <3>3. Bind(Bind(u, q.name, b), q.name, b) = Bind(u, q.name, b)
        <4> DEFINE n == q.name
        <4>1. n \in UserName
          BY <3>1
        <4> HIDE DEF n, N
        <4>2. Bind(Bind(u, n, b), n, b) = Bind(u, n, b)
          BY <4>1, <3>2, <1>1, Scopes
        <4> QED  BY <4>2 DEF n
      <3> QED  BY <2>2, <3>3 DEF BindIf
    <2> QED  BY <2>1, <2>2
  <1> HIDE DEF v
  <1>8. Seg(z, <<v, w>>, <<v, w>>, N)
    <2>1. Len(v) >= 2
      BY <1>5
    <2>2. Seg(z, <<v, w>>, <<BindIf(v, q, b), w>>, N)
      BY <1>4, <1>5, <1>6, <2>1, SimpleSeg
    <2> QED  BY <2>2, <1>7
  <1>9. SilentSteps(m, N) /\ SilentSteps(e, N)
    BY Tuples DEF SilentSteps, Goto, Place, Loud
  <1> HIDE DEF m, e, s, z
  <1>10. Seg(m, <<v, w>>, <<v, w>>, N) /\ Seg(e, <<v, w>>, <<v, w>>, N)
    BY <1>1, <1>5, <1>9, SegSilent
  <1> HIDE DEF N
  <1>11. Seg(s \o m, <<u, w>>, <<v, w>>, N)
    BY <1>1, <1>5, <1>10, SegConcat
  <1>12. Seg(s \o m \o z, <<u, w>>, <<v, w>>, N)
    BY <1>1, <1>11, <1>8, SegConcat
  <1>13. Seg(s \o m \o z \o e, <<u, w>>, <<v, w>>, N)
    BY <1>1, <1>12, <1>10, SegConcat
  <1>14. lower_or_pattern(p, k, t, fail, b) = s \o m \o z \o e
    BY DEF lower_or_pattern, s, m, z, e, q
  <1> QED  BY <1>2, <1>5, <1>13, <1>14 DEF N

\* A name bound to a value that a pattern has tested.
LEMMA AtSeg ==
    ASSUME NEW b \in Nat, NEW u, NEW w, <<u, w>> \in States(b), Len(u) >= 2,
           NEW t \in Val, NEW q \in SimplePatterns(t), q.name = NoName, NEW n \in UserName,
           NEW k, NEW fail
    PROVE  /\ <<Bind(u, n, b), w>> \in States(b + 1) /\ Len(Bind(u, n, b)) = Len(u)
           /\ Seg(lower_simple_pattern(q, k, t, fail, b) \o <<LoadTemp(k), StoreNew(b, n, t)>>,
                  <<u, w>>, <<Bind(u, n, b), w>>, b + 1)
  <1>1. PICK N \in Nat : N = b + 1
    OBVIOUS
  <1>2. <<u, w>> \in States(N)
    BY <1>1, StatesGrow
  <1>3. MayBind(u, w, n, b) /\ t \in Val
    BY DEF MayBind, Val
  <1>4. /\ <<Bind(u, n, b), w>> \in States(N) /\ Len(Bind(u, n, b)) = Len(u)
        /\ Seg(<<LoadTemp(k), StoreNew(b, n, t)>>, <<u, w>>, <<Bind(u, n, b), w>>, N)
    BY <1>1, <1>2, <1>3, LoadStoreSeg
  <1>5. Seg(lower_simple_pattern(q, k, t, fail, b), <<u, w>>, <<u, w>>, N)
    <2>1. SilentSteps(lower_simple_pattern(q, k, t, fail, b), N)
      BY SimpleSilent
    <2> QED  BY <1>2, <2>1, SegSilent
  <1> QED  BY <1>1, <1>4, <1>5, SegConcat

\* A variant with a tested field and a bound one.
LEMMA StructSeg ==
    ASSUME NEW b \in Nat, NEW u, NEW w, <<u, w>> \in States(b), Len(u) >= 2,
           NEW p, p.sub \in SimplePatterns("Int"), p.sub.name = NoName, p.name \in UserName,
           NEW k, NEW fail
    PROVE  /\ <<Bind(u, p.name, b), w>> \in States(b + 1) /\ Len(Bind(u, p.name, b)) = Len(u)
           /\ Seg(lower_struct_pattern(p, k, fail, b),
                  <<u, w>>, <<Bind(u, p.name, b), w>>, b + 1)
  <1> DEFINE q == p.sub
             n == p.name
             s == <<LoadTemp(k), Op(<<"Ref">>, <<"Int">>), Branch(<<"Int">>, fail),
                    LoadTemp(k), StoreTemp(b + 1, "Ref"),
                    LoadTemp(b + 1), Op(<<"Ref">>, <<"Long">>), StoreTemp(b + 2, "Long"),
                    LoadTemp(b + 1), Op(<<"Ref">>, <<"Int">>), StoreTemp(b + 3, "Int")>>
             z == lower_simple_pattern(q, b + 3, "Int", fail, b)
             e == <<LoadTemp(b + 2), StoreNew(b, n, "Long")>>
  <1>1. PICK N \in Nat : N = b + 1
    OBVIOUS
  <1>2. <<u, w>> \in States(N)
    BY <1>1, StatesGrow
  <1>3. MayBind(u, w, n, b) /\ "Long" \in Val /\ "Int" \in Val /\ n \in UserName
        /\ q \in SimplePatterns("Int") /\ q.name = NoName
    BY DEF MayBind, Val
  <1> HIDE DEF q, n
  <1>4. /\ <<Bind(u, n, b), w>> \in States(N) /\ Len(Bind(u, n, b)) = Len(u)
        /\ Seg(e, <<u, w>>, <<Bind(u, n, b), w>>, N)
    BY <1>1, <1>2, <1>3, LoadStoreSeg
  <1>5. Seg(z, <<u, w>>, <<u, w>>, N)
    <2>1. SilentSteps(z, N)
      BY <1>3, SimpleSilent
    <2> QED  BY <1>2, <2>1, SegSilent
  <1>6. SilentSteps(s, N)
    <2>1. IsSeq(s)
      BY Tuples
    <2>2. \A i \in 1..11 : s[i].do \notin Loud \/ HiddenStore(s[i], N)
      <3>1. HiddenStore(StoreTemp(b + 1, "Ref"), N) /\ HiddenStore(StoreTemp(b + 2, "Long"), N)
            /\ HiddenStore(StoreTemp(b + 3, "Int"), N)
        BY <1>1 DEF HiddenStore, StoreTemp, StoreNew, Val
      <3>2. LoadTemp(k).do \notin Loud /\ LoadTemp(b + 1).do \notin Loud
            /\ Op(<<"Ref">>, <<"Int">>).do \notin Loud /\ Op(<<"Ref">>, <<"Long">>).do \notin Loud
            /\ Branch(<<"Int">>, fail).do \notin Loud
        BY DEF LoadTemp, Op, Branch, Loud
      <3> QED  BY <3>1, <3>2
    <2>3. DOMAIN s = 1..11
      OBVIOUS
    <2> QED  BY <2>1, <2>2, <2>3 DEF SilentSteps
  <1>7. Seg(s, <<u, w>>, <<u, w>>, N)
    BY <1>2, <1>6, SegSilent
  <1> HIDE DEF s, z, e
  <1>8. Seg(s \o z, <<u, w>>, <<u, w>>, N)
    BY <1>5, <1>7, SegConcat
  <1>9. Seg(s \o z \o e, <<u, w>>, <<Bind(u, n, b), w>>, N)
    BY <1>4, <1>8, SegConcat
  <1>10. lower_struct_pattern(p, k, fail, b) = s \o z \o e
    BY DEF lower_struct_pattern, s, z, e, q, n
  <1> QED  BY <1>1, <1>4, <1>9, <1>10 DEF n

\* A pattern of any kind binds its name, if it has one.
LEMMA CheckSeg ==
    ASSUME NEW b \in Nat, NEW u, NEW w, <<u, w>> \in States(b), Len(u) >= 2,
           NEW t \in Val, NEW p \in Patterns(t), NEW k, NEW fail
    PROVE  /\ <<BindIf(u, p, b), w>> \in States(b + 1) /\ Len(BindIf(u, p, b)) = Len(u)
           /\ Seg(lower_pattern_check(p, k, t, fail, b), <<u, w>>, <<BindIf(u, p, b), w>>, b + 1)
  <1>1. CASE p \in SimplePatterns(t)
    <2>1. lower_pattern_check(p, k, t, fail, b) = lower_simple_pattern(p, k, t, fail, b)
      BY <1>1, SimpleKinds DEF lower_pattern_check, Simple
    <2>2. <<u, w>> \in States(b + 1) /\ MayBind(u, w, p.name, b)
      BY StatesGrow DEF MayBind
    <2> QED  BY <1>1, <2>1, <2>2, SimpleSeg
  <1>2. CASE p.kind = "at" /\ p.name \in UserName /\ p.sub \in SimplePatterns(t) /\ p.sub.name = NoName
    <2> DEFINE n == p.name
               q == p.sub
    <2>1. lower_pattern_check(p, k, t, fail, b)
            = lower_simple_pattern(q, k, t, fail, b) \o <<LoadTemp(k), StoreNew(b, n, t)>>
      BY <1>2 DEF lower_pattern_check
    <2>2. BindIf(u, p, b) = Bind(u, n, b)
      BY <1>2 DEF BindIf, Bound
    <2>3. n \in UserName /\ q \in SimplePatterns(t) /\ q.name = NoName
      BY <1>2
    <2> HIDE DEF n, q
    <2> QED  BY <2>1, <2>2, <2>3, AtSeg
  <1>3. CASE p.kind = "or" /\ p.sub \in SimplePatterns(t) /\ p.name = p.sub.name
    <2>1. lower_pattern_check(p, k, t, fail, b) = lower_or_pattern(p, k, t, fail, b)
      BY <1>3 DEF lower_pattern_check
    <2> QED  BY <1>3, <2>1, OrSeg
  <1>4. CASE /\ p.kind = "struct" /\ p.name \in UserName /\ p.sub \in SimplePatterns("Int")
             /\ p.sub.name = NoName
    <2>1. lower_pattern_check(p, k, t, fail, b) = lower_struct_pattern(p, k, fail, b)
      BY <1>4 DEF lower_pattern_check
    <2>2. BindIf(u, p, b) = Bind(u, p.name, b)
      BY <1>4 DEF BindIf, Bound
    <2> QED  BY <1>4, <2>1, <2>2, StructSeg
  <1> QED  BY <1>1, <1>2, <1>3, <1>4, PatternKinds

\* The checker binds what the lowering has bound.
LEMMA DefineRel ==
    ASSUME NEW b \in Nat, NEW u, NEW w, <<u, w>> \in States(b), Len(u) >= 2, Len(w) >= 2, Sync(u, w),
           NEW n \in UserName, NEW N \in Nat, N = b + 1
    PROVE  /\ <<Bind(u, n, b), w>> \in States(N) /\ <<Bind(u, n, b), Bind(w, n, b)>> \in States(N)
           /\ Ready(Bind(u, n, b), Bind(w, n, b))
           /\ Rel(Define(n, b), <<Bind(u, n, b), w>>, <<Bind(u, n, b), Bind(w, n, b)>>)
           /\ Front(Bind(u, n, b)) = Front(u) /\ Front(Bind(w, n, b)) = Front(w)
  <1> DEFINE x == Bind(u, n, b)
             y == Bind(w, n, b)
  <1>1. <<u, w>> \in States(N)
    BY StatesGrow
  <1>2. u \in Seq(Map(N)) /\ w \in Seq(Map(N)) /\ b \in Param..(N - 1)
        /\ Len(u) >= 1 /\ Len(w) >= 1
    BY <1>1, StateParts DEF Param
  <1>3. /\ x \in Seq(Map(N)) /\ Len(x) = Len(u) /\ Front(x) = Front(u)
        /\ Last(x) = With(Last(u), n, b)
    BY <1>2, Scopes
  <1>4. /\ y \in Seq(Map(N)) /\ Len(y) = Len(w) /\ Front(y) = Front(w)
    BY <1>2, Scopes
  <1>5. Sync(x, y)
    BY <1>2, SyncBound
  <1>6. n \in DOMAIN Last(x) /\ Last(x)[n] = b
    BY <1>3 DEF With
  <1>7. <<x, w>> \in States(N) /\ <<x, y>> \in States(N)
    BY <1>2, <1>3, <1>4, StateParts
  <1> HIDE DEF x
  <1>8. Rel(Define(n, b), <<x, w>>, <<x, y>>)
    BY <1>2, <1>3, <1>6 DEF Rel, Define, Loud
  <1> HIDE DEF y
  <1>9. Ready(x, y)
    BY <1>3, <1>4, <1>5 DEF Ready
  <1> QED  BY <1>3, <1>4, <1>7, <1>8, <1>9 DEF x, y

\* The checker declares the name the pattern has bound.
LEMMA BindPatternSeg ==
    ASSUME NEW b \in Nat, NEW u, NEW w, <<u, w>> \in States(b), Len(u) >= 2, Len(w) >= 2, Sync(u, w),
           NEW p
    PROVE  /\ <<BindIf(u, p, b), BindIf(w, p, b)>> \in States(b + 1)
           /\ Ready(BindIf(u, p, b), BindIf(w, p, b))
           /\ Seg(bind_pattern(p, b), <<BindIf(u, p, b), w>>, <<BindIf(u, p, b), BindIf(w, p, b)>>, b + 1)
           /\ Front(BindIf(u, p, b)) = Front(u) /\ Front(BindIf(w, p, b)) = Front(w)
  <1>1. PICK N \in Nat : N = b + 1
    OBVIOUS
  <1>2. <<u, w>> \in States(N)
    BY <1>1, StatesGrow
  <1>3. CASE Bound(p) = {}
    <2>1. BindIf(u, p, b) = u /\ BindIf(w, p, b) = w /\ bind_pattern(p, b) = <<>>
      BY <1>3 DEF BindIf, bind_pattern
    <2> QED  BY <1>1, <1>2, <2>1, SegEmpty DEF Ready
  <1>4. CASE Bound(p) # {}
    <2> DEFINE n == p.name
               x == Bind(u, n, b)
               y == Bind(w, n, b)
    <2>1. n \in UserName
      BY <1>4 DEF Bound
    <2>2. BindIf(u, p, b) = x /\ BindIf(w, p, b) = y /\ bind_pattern(p, b) = <<Define(n, b)>>
      BY <1>4 DEF BindIf, bind_pattern
    <2> HIDE DEF n
    <2>3. /\ <<x, w>> \in States(N) /\ <<x, y>> \in States(N) /\ Ready(x, y)
          /\ Rel(Define(n, b), <<x, w>>, <<x, y>>)
          /\ Front(x) = Front(u) /\ Front(y) = Front(w)
      BY <1>1, <2>1, DefineRel
    <2> HIDE DEF x, y
    <2>4. Seg(<<Define(n, b)>>, <<x, w>>, <<x, y>>, N)
      BY <2>3, SegOne
    <2> QED  BY <1>1, <2>2, <2>3, <2>4
  <1> QED  BY <1>3, <1>4

-----------------------------------------------------------------------------
(* Forms                                                                   *)

\* Three paths, one after another.
LEMMA SegConcat3 ==
    ASSUME NEW N \in Nat, NEW a, NEW b, NEW c, NEW d, NEW s, NEW t, NEW r,
           Seg(s, a, b, N), Seg(t, b, c, N), Seg(r, c, d, N)
    PROVE  Seg(s \o t \o r, a, d, N)
  <1>1. Seg(s \o t, a, c, N)
    BY SegConcat
  <1> QED  BY <1>1, SegConcat

\* Four of them.
LEMMA SegConcat4 ==
    ASSUME NEW N \in Nat, NEW a, NEW b, NEW c, NEW d, NEW e, NEW s, NEW t, NEW r, NEW q,
           Seg(s, a, b, N), Seg(t, b, c, N), Seg(r, c, d, N), Seg(q, d, e, N)
    PROVE  Seg(s \o t \o r \o q, a, e, N)
  <1>1. Seg(s \o t \o r, a, d, N)
    BY SegConcat3
  <1> QED  BY <1>1, SegConcat

\* Steps one by one.
LEMMA SegBy ==
    ASSUME NEW N \in Nat, NEW steps, IsSeq(steps), NEW f, NEW a, NEW b, NEW n, Len(steps) = n,
           f[1] = a /\ f[n + 1] = b /\ \A i \in 1..(n + 1) : f[i] \in States(N),
           \A i \in 1..n : Rel(steps[i], f[i], f[i + 1])
    PROVE  Seg(steps, a, b, N)
  BY DEF Seg

\* A call: operands, or something below one operand.
LEMMA CallForms ==
    ASSUME NEW e, NEW steps \in lower_call(e)
    PROVE  \/ \E t1, t2 \in Val :
                steps = <<E(t1, e.in, "code"), E(t2, e.in \cup {"operand"}, "code"),
                          Op(<<t1, t2>>, StackOf(e.ty))>>
           \/ /\ e.ty = "Ref"
              /\ \E t \in Val :
                    steps = <<Op(<<>>, <<"Ref", "Ref">>), E(t, e.in \cup {"operand"}, "code"),
                              Op(<<"Ref", t>>, <<>>)>>
           \/ /\ e.ty = "Unit"
              /\ \E t \in Val :
                    steps = <<Push("Ref"), E(t, e.in \cup {"operand"}, "code"),
                              Op(<<"Ref", t>>, <<>>)>>
  <1> DEFINE Two(t1, t2) == <<E(t1, e.in, "code"), E(t2, e.in \cup {"operand"}, "code"),
                              Op(<<t1, t2>>, StackOf(e.ty))>>
             New(t) == <<Op(<<>>, <<"Ref", "Ref">>), E(t, e.in \cup {"operand"}, "code"),
                         Op(<<"Ref", t>>, <<>>)>>
             Shown(t) == <<Push("Ref"), E(t, e.in \cup {"operand"}, "code"),
                           Op(<<"Ref", t>>, <<>>)>>
  <1>1. lower_call(e) = {Two(t1, t2) : t1, t2 \in Val}
                        \cup (IF e.ty # "Ref" THEN {} ELSE {New(t) : t \in Val})
                        \cup (IF e.ty # "Unit" THEN {} ELSE {Shown(t) : t \in Val})
    BY DEF lower_call
  <1> HIDE DEF Two, New, Shown
  <1>2. \/ \E t1, t2 \in Val : steps = Two(t1, t2)
        \/ e.ty = "Ref" /\ \E t \in Val : steps = New(t)
        \/ e.ty = "Unit" /\ \E t \in Val : steps = Shown(t)
    BY <1>1
  <1> QED  BY <1>2 DEF Two, New, Shown

\* What a body may leave of which no type is expected.
LEMMA AnyBodyTypes ==
    /\ "Unit" \in AnyBody /\ AnyBody \subseteq {"Unit"} \cup Val
    /\ Avoids("bodyValue") => AnyBody = {"Unit"}
  BY DEF AnyBody

\* An if: without an else, or with one.
LEMMA IfForms ==
    ASSUME NEW e, NEW L, NEW steps \in lower_if(e, L)
    PROVE  LET head == <<Snapshot(L), E("Int", e.in \cup {"cond"}, "code"),
                         Branch(<<"Int">>, L), PushScope>>
           IN  /\ MayPlace(e)
               /\ \/ /\ e.ty = "Unit"
                     /\ \E t \in AnyBody :
                           /\ t # "Unit" => e.next = "code"
                           /\ steps = head \o Body(t, e.in, "label")
                                      \o <<PopScope, Place(L, L, <<>>)>>
                  \/ steps = head \o Body(e.ty, e.in, "end")
                            \o <<PopScope, Goto(L + 1), Place(L, L, <<>>),
                                 PushScope, Else(e.ty, e.in), PopScope,
                                 Place(L + 1, L, StackOf(e.ty))>>
  <1> DEFINE head == <<Snapshot(L), E("Int", e.in \cup {"cond"}, "code"),
                       Branch(<<"Int">>, L), PushScope>>
             One(t) == head \o Body(t, e.in, "label") \o <<PopScope, Place(L, L, <<>>)>>
             two == head \o Body(e.ty, e.in, "end")
                    \o <<PopScope, Goto(L + 1), Place(L, L, <<>>),
                         PushScope, Else(e.ty, e.in), PopScope,
                         Place(L + 1, L, StackOf(e.ty))>>
             Types == IF e.next = "code" THEN AnyBody ELSE {"Unit"}
  <1>1. lower_if(e, L)
          = IF ~ MayPlace(e) THEN {}
            ELSE (IF e.ty # "Unit" THEN {} ELSE {One(t) : t \in Types}) \cup {two}
    BY DEF lower_if
  <1> HIDE DEF One, two
  <1>2. /\ MayPlace(e)
        /\ (e.ty = "Unit" /\ \E t \in Types : steps = One(t)) \/ steps = two
    BY <1>1
  <1> QED  BY <1>2, AnyBodyTypes DEF One, two

\* A while, or a loop.
LEMMA WhileForms ==
    ASSUME NEW e, NEW L, NEW steps \in lower_while(e, L)
    PROVE  LET Loop(cond, t) == <<Place(L, Live, <<>>)>> \o cond
                                \o <<PushLoop(L + 1, L), PushScope>>
                                \o Body(t, e.in \cup {"loop"}, "end")
                                \o <<PopScope, PopLoop, Goto(L), Place(L + 1, Live, <<>>)>>
           IN  /\ e.ty = "Unit" /\ MayLoop(e)
               /\ \E t \in AnyBody :
                     \/ /\ t = "Unit"
                        /\ steps = Loop(<<E("Int", e.in \cup {"cond"}, "code"),
                                          Branch(<<"Int">>, L + 1)>>, t)
                     \/ steps = Loop(<<>>, t)
  <1> DEFINE Loop(cond, t) == <<Place(L, Live, <<>>)>> \o cond
                              \o <<PushLoop(L + 1, L), PushScope>>
                              \o Body(t, e.in \cup {"loop"}, "end")
                              \o <<PopScope, PopLoop, Goto(L), Place(L + 1, Live, <<>>)>>
             cond == <<E("Int", e.in \cup {"cond"}, "code"), Branch(<<"Int">>, L + 1)>>
  <1>1. lower_while(e, L)
          = IF e.ty # "Unit" \/ ~ MayLoop(e) THEN {}
            ELSE {Loop(cond, "Unit")} \cup {Loop(<<>>, t) : t \in AnyBody}
    BY DEF lower_while
  <1> HIDE DEF Loop, cond
  <1>2. /\ e.ty = "Unit" /\ MayLoop(e)
        /\ steps = Loop(cond, "Unit") \/ \E t \in AnyBody : steps = Loop(<<>>, t)
    BY <1>1
  <1> QED  BY <1>2, AnyBodyTypes DEF Loop, cond

\* Forms without a scope.
LEMMA PlainForms ==
    ASSUME NEW e, NEW L, NEW N, NEW steps,
           steps \in Atoms(e) \cup Diverging(e) \cup lower_call(e) \cup lower_assign(e)
                       \cup lower_comparison(e, L) \cup lower_short_circuit(e, L)
                       \cup lower_try(e, L)
    PROVE  QuietSteps(steps, N)
  <1>1. CASE steps \in Atoms(e)
    <2>1. \/ \E n : steps = <<LoadName(n)>>
          \/ steps = <<Push(e.ty)>>
          \/ steps = <<>>
      BY <1>1 DEF Atoms
    <2> QED  BY <2>1, Tuples DEF QuietSteps, LoadName, Push, Op, Loud
  <1>2. CASE steps \in Diverging(e)
    <2>1. \/ \E t : steps = <<Return(t)>>
          \/ \E t : steps = <<E(t, e.in, "code"), Return(t)>>
          \/ steps \in {<<Do("break")>>, <<Do("continue")>>}
          \/ \E t : steps = <<E(t, e.in, "code"), Do("break")>>
      BY <1>2 DEF Diverging
    <2> QED  BY <2>1, Tuples DEF QuietSteps, Return, E, Do, Loud
  <1>3. CASE steps \in lower_call(e)
    <2>1. \E x, y, z :
             /\ steps = <<x, y, z>>
             /\ x.do \in {"expr", "op"} /\ y.do = "expr" /\ z.do = "op"
      BY <1>3, CallForms DEF E, Push, Op
    <2> QED  BY <2>1, Tuples DEF QuietSteps, Loud
  <1>4. CASE steps \in lower_assign(e)
    <2>1. \E n : steps = <<E(Lookup(n).ty, e.in, "code"), AssignTo(n)>>
      BY <1>4 DEF lower_assign
    <2> QED  BY <2>1, Tuples DEF QuietSteps, E, AssignTo, Loud
  <1>5. CASE steps \in lower_comparison(e, L)
    <2>1. PICK t :
            steps = <<E(t, e.in, "code"), E(t, e.in \cup {"operand"}, "code")>>
              \o (IF t = "Long" THEN <<Op(<<t, t>>, <<"Int">>), Branch(<<"Int">>, L)>>
                                ELSE <<Branch(<<t, t>>, L)>>)
              \o <<Push("Int"), Goto(L + 1), Place(L, Live, <<>>),
                   Push("Int"), Place(L + 1, Live, <<"Int">>)>>
      BY <1>5 DEF lower_comparison
    <2> DEFINE s == <<E(t, e.in, "code"), E(t, e.in \cup {"operand"}, "code")>>
               r == IF t = "Long" THEN <<Op(<<t, t>>, <<"Int">>), Branch(<<"Int">>, L)>>
                                  ELSE <<Branch(<<t, t>>, L)>>
               z == <<Push("Int"), Goto(L + 1), Place(L, Live, <<>>),
                      Push("Int"), Place(L + 1, Live, <<"Int">>)>>
    <2>2. QuietSteps(s, N) /\ QuietSteps(z, N)
      BY Tuples DEF QuietSteps, E, Push, Op, Goto, Place, Loud
    <2>3. QuietSteps(r, N)
      BY Tuples DEF QuietSteps, Op, Branch, Loud
    <2>4. steps = s \o r \o z
      BY <2>1
    <2> HIDE DEF s, r, z
    <2>5. QuietSteps(s \o r, N)
      BY <2>2, <2>3, QuietConcat
    <2>6. QuietSteps((s \o r) \o z, N)
      BY <2>2, <2>5, QuietConcat
    <2> QED  BY <2>4, <2>6
  <1>6. CASE steps \in lower_short_circuit(e, L)
    <2>1. steps = <<E("Int", e.in, "code"), Branch(<<"Int">>, L),
                    E("Int", e.in \cup {"cond"}, "code"), Goto(L + 1),
                    Place(L, Live, <<>>), Push("Int"), Place(L + 1, Live, <<"Int">>)>>
      BY <1>6 DEF lower_short_circuit
    <2> QED  BY <2>1, Tuples DEF QuietSteps, E, Branch, Goto, Place, Push, Op, Loud
  <1>7. CASE steps \in lower_try(e, L)
    <2>1. steps = <<E("Ref", e.in, "code"), Op(<<"Ref">>, <<"Ref", "Ref">>),
                    Op(<<"Ref">>, <<"Int">>), Branch(<<"Int">>, L), Return("Ref"),
                    Place(L, Live, <<"Ref">>), Op(<<"Ref">>, <<e.ty>>)>>
      BY <1>7 DEF lower_try
    <2> QED  BY <2>1, Tuples DEF QuietSteps, E, Op, Branch, Return, Place, Loud
  <1> QED  BY <1>1, <1>2, <1>3, <1>4, <1>5, <1>6, <1>7

\* What each kind of step does to the scopes.
LEMMA StepRel ==
    /\ \A x, a : x.do \notin Loud => Rel(x, a, a)
    /\ \A x, u, w : x.do \in {"expr", "else"} /\ Ready(u, w) => Rel(x, <<u, w>>, <<u, w>>)
    /\ \A u, w : Len(u) >= 1 => Rel(PushScope, <<u, w>>, <<Pushed(u), w>>)
    /\ \A u, w : Len(u) >= 2 => Rel(PopScope, <<u, w>>, <<Front(u), w>>)
    /\ \A u, w : Rel(Enter, <<u, w>>, <<u, Entered(w)>>)
    /\ \A u, w : Len(w) >= 2 => Rel(Leave, <<u, w>>, <<u, Front(w)>>)
  <1>1. \A x, a : x.do \notin Loud => Rel(x, a, a)
    BY DEF Rel, Loud
  <1>2. \A x, u, w : x.do \in {"expr", "else"} /\ Ready(u, w) => Rel(x, <<u, w>>, <<u, w>>)
    BY DEF Rel, Loud
  <1>3. \A u, w : Len(u) >= 1 => Rel(PushScope, <<u, w>>, <<Pushed(u), w>>)
    BY DEF Rel, PushScope, Do, Loud, Pushed
  <1>4. \A u, w : Len(u) >= 2 => Rel(PopScope, <<u, w>>, <<Front(u), w>>)
    BY DEF Rel, PopScope, Do, Loud
  <1>5. \A u, w : Rel(Enter, <<u, w>>, <<u, Entered(w)>>)
    BY DEF Rel, Enter, Do, Loud, Entered
  <1>6. \A u, w : Len(w) >= 2 => Rel(Leave, <<u, w>>, <<u, Front(w)>>)
    BY DEF Rel, Leave, Do, Loud
  <1> QED  BY <1>1, <1>2, <1>3, <1>4, <1>5, <1>6

\* The steps that do nothing to them.
LEMMA QuietKinds ==
    /\ \A l : Goto(l).do \notin Loud
    /\ \A l, from, stack : Place(l, from, stack).do \notin Loud
    /\ \A pop, l : Branch(pop, l).do \notin Loud
    /\ \A k : Snapshot(k).do \notin Loud /\ LoadTemp(k).do \notin Loud
    /\ \A pop, push : Op(pop, push).do \notin Loud
    /\ \A l, m : PushLoop(l, m).do \notin Loud
    /\ PopLoop.do \notin Loud
    /\ \A ty, in, next : E(ty, in, next).do \in {"expr", "else"}
    /\ \A ty, in : Else(ty, in).do \in {"expr", "else"}
  BY DEF Goto, Place, Branch, Snapshot, LoadTemp, Op, PushLoop, PopLoop, Do, E, Else, Loud

\* if, with or without an else, leaves the scopes as it found them.
LEMMA IfSeg ==
    ASSUME NEW L \in Nat, NEW u, NEW w, <<u, w>> \in States(L), Ready(u, w),
           NEW e, NEW steps \in lower_if(e, L)
    PROVE  Seg(steps, <<u, w>>, <<u, w>>, L)
  <1> DEFINE a == <<u, w>>
             p == <<Pushed(u), w>>
             cond == E("Int", e.in \cup {"cond"}, "code")
             test == Branch(<<"Int">>, L)
             else == Else(e.ty, e.in)
             first == Place(L, L, <<>>)
             last == Place(L + 1, L, StackOf(e.ty))
             head == <<Snapshot(L), cond, test, PushScope>>
             one == <<PopScope, first>>
             two == <<PopScope, Goto(L + 1), first, PushScope, else, PopScope, last>>
  <1>1. \/ \E t : steps = head \o Body(t, e.in, "label") \o one
        \/ steps = head \o Body(e.ty, e.in, "end") \o two
    BY IfForms
  <1>2. /\ a \in States(L) /\ p \in States(L) /\ Ready(Pushed(u), w) /\ Len(Pushed(u)) >= 2
        /\ Front(Pushed(u)) = u
    BY InScope
  <1>3. /\ Rel(PushScope, a, p) /\ Rel(PopScope, p, a)
        /\ Rel(Snapshot(L), a, a) /\ Rel(cond, a, a) /\ Rel(test, a, a)
        /\ Rel(first, a, a) /\ Rel(last, a, a) /\ Rel(Goto(L + 1), a, a) /\ Rel(else, p, p)
    <2>1. Len(u) >= 1
      BY StateParts DEF Ready
    <2>2. /\ Rel(Snapshot(L), a, a) /\ Rel(test, a, a)
          /\ Rel(first, a, a) /\ Rel(last, a, a) /\ Rel(Goto(L + 1), a, a)
      BY StepRel, QuietKinds
    <2>3. Rel(cond, a, a) /\ Rel(else, p, p)
      BY <1>2, StepRel, QuietKinds
    <2> QED  BY <1>2, <2>1, <2>2, <2>3, StepRel
  <1>4. \A next, ty : Seg(Body(ty, e.in, next), p, p, L)
    BY <1>2, BodySeg
  <1> HIDE DEF a, p, cond, test, else, first, last
  <1>5. Seg(head, a, p, L)
    <2> DEFINE f == <<a, a, a, a, p>>
    <2>1. IsSeq(head) /\ Len(head) = 4
      BY Tuples
    <2>2. f[1] = a /\ f[4 + 1] = p /\ \A i \in 1..(4 + 1) : f[i] \in States(L)
      BY <1>2
    <2>3. \A i \in 1..4 : Rel(head[i], f[i], f[i + 1])
      BY <1>3
    <2> HIDE DEF f
    <2> QED  BY <2>1, <2>2, <2>3, SegBy
  <1>6. Seg(one, p, a, L)
    <2> DEFINE f == <<p, a, a>>
    <2>1. IsSeq(one) /\ Len(one) = 2
      BY Tuples
    <2>2. f[1] = p /\ f[2 + 1] = a /\ \A i \in 1..(2 + 1) : f[i] \in States(L)
      BY <1>2
    <2>3. \A i \in 1..2 : Rel(one[i], f[i], f[i + 1])
      BY <1>3
    <2> HIDE DEF f
    <2> QED  BY <2>1, <2>2, <2>3, SegBy
  <1>7. Seg(two, p, a, L)
    <2> DEFINE f == <<p, a, a, a, p, p, a, a>>
    <2>1. IsSeq(two) /\ Len(two) = 7
      BY Tuples
    <2>2. f[1] = p /\ f[7 + 1] = a /\ \A i \in 1..(7 + 1) : f[i] \in States(L)
      BY <1>2
    <2>3. \A i \in 1..7 : Rel(two[i], f[i], f[i + 1])
      BY <1>3
    <2> HIDE DEF f
    <2> QED  BY <2>1, <2>2, <2>3, SegBy
  <1> HIDE DEF head, one, two
  <1>8. /\ \A t : Seg(head \o Body(t, e.in, "label") \o one, a, a, L)
        /\ Seg(head \o Body(e.ty, e.in, "end") \o two, a, a, L)
    BY <1>4, <1>5, <1>6, <1>7, SegConcat3
  <1> QED  BY <1>1, <1>8 DEF a

\* A pattern tried and bound in a scope of its own: c is where it is known to
\* match, x and y are the scopes with its names bound.
Matched(p, k, t, fail, b, u, w, N) ==
    \E c, x, y :
       /\ <<x, y>> \in States(N) /\ Ready(x, y) /\ Front(x) = u /\ Front(y) = w
       /\ Seg(lower_pattern_check(p, k, t, fail, b), <<Pushed(u), Entered(w)>>, c, N)
       /\ Seg(bind_pattern(p, b), c, <<x, y>>, N)

\* It gets there, for every pattern.
LEMMA MatchedSeg ==
    ASSUME NEW b \in Nat, NEW u, NEW w, <<u, w>> \in States(b), Ready(u, w),
           NEW t \in Val, NEW p \in Patterns(t), NEW k, NEW fail
    PROVE  Matched(p, k, t, fail, b, u, w, b + 1)
  <1> DEFINE v == Pushed(u)
             z == Entered(w)
  <1>1. /\ <<v, z>> \in States(b) /\ Ready(v, z) /\ Front(v) = u /\ Front(z) = w
    BY InScope
  <1> HIDE DEF v, z
  <1>2. Len(v) >= 2 /\ Len(z) >= 2 /\ Sync(v, z)
    BY <1>1 DEF Ready
  <1>3. Seg(lower_pattern_check(p, k, t, fail, b), <<v, z>>, <<BindIf(v, p, b), z>>, b + 1)
    BY <1>1, <1>2, CheckSeg
  <1>4. /\ <<BindIf(v, p, b), BindIf(z, p, b)>> \in States(b + 1)
        /\ Ready(BindIf(v, p, b), BindIf(z, p, b))
        /\ Seg(bind_pattern(p, b), <<BindIf(v, p, b), z>>, <<BindIf(v, p, b), BindIf(z, p, b)>>, b + 1)
        /\ Front(BindIf(v, p, b)) = u /\ Front(BindIf(z, p, b)) = w
    BY <1>1, <1>2, BindPatternSeg
  <1> QED  BY <1>3, <1>4 DEF v, z, Matched

\* The beginning of an arm.
LEMMA OpenSeg ==
    ASSUME NEW N \in Nat, NEW u, NEW w, <<u, w>> \in States(N), Ready(u, w)
    PROVE  Seg(<<PushScope, Enter>>, <<u, w>>, <<Pushed(u), Entered(w)>>, N)
  <1>1. Seg(<<PushScope>> \o <<Enter>>, <<u, w>>, <<Pushed(u), Entered(w)>>, N)
    BY InScope, SegConcat
  <1> QED  BY <1>1, PairConcat

\* The end of an arm.
LEMMA CloseSeg ==
    ASSUME NEW N \in Nat, NEW x, NEW y, <<x, y>> \in States(N), Ready(x, y)
    PROVE  Seg(<<Leave, PopScope>>, <<x, y>>, <<Front(x), Front(y)>>, N)
  <1>1. Len(x) >= 2 /\ Len(y) >= 2
    BY DEF Ready
  <1>2. Seg(<<Leave>>, <<x, y>>, <<x, Front(y)>>, N)
    BY <1>1, LeaveSeg
  <1> DEFINE z == Front(y)
  <1>3. <<x, z>> \in States(N)
    BY <1>2, SegTyped
  <1> HIDE DEF z
  <1>4. Seg(<<PopScope>>, <<x, z>>, <<Front(x), z>>, N)
    BY <1>1, <1>3, PopSeg
  <1>5. Seg(<<Leave>> \o <<PopScope>>, <<x, y>>, <<Front(x), z>>, N)
    BY <1>2, <1>4, SegConcat DEF z
  <1> QED  BY <1>5, PairConcat DEF z

\* The value of a block or an arm, and its end.
LEMMA EndSeg ==
    ASSUME NEW N \in Nat, NEW u, NEW w, <<u, w>> \in States(N), Ready(u, w),
           NEW ty, NEW in, NEW next
    PROVE  Seg(<<E(ty, in, next), Leave, PopScope>>, <<u, w>>, <<Front(u), Front(w)>>, N)
  <1> DEFINE v == E(ty, in, next)
             x == <<u, w>>
             m == <<u, Front(w)>>
             a == <<Front(u), Front(w)>>
             f == <<x, x, m, a>>
             end == <<v, Leave, PopScope>>
  <1>1. Rel(v, x, x) /\ Rel(Leave, x, m) /\ Rel(PopScope, m, a)
    BY StepRel, QuietKinds DEF Ready
  <1>2. x \in States(N) /\ m \in States(N) /\ a \in States(N)
    <2>1. Seg(<<Leave, PopScope>>, x, a, N)
      BY CloseSeg
    <2>2. Seg(<<Leave>>, x, m, N)
      BY LeaveSeg DEF Ready
    <2> QED  BY <2>1, <2>2, SegTyped
  <1>3. IsSeq(end) /\ Len(end) = 3
    BY Tuples
  <1> HIDE DEF x, m, a, v
  <1>4. f[1] = x /\ f[3 + 1] = a /\ \A i \in 1..(3 + 1) : f[i] \in States(N)
    BY <1>2
  <1>5. \A i \in 1..3 : Rel(end[i], f[i], f[i + 1])
    BY <1>1
  <1> HIDE DEF f, end
  <1>6. Seg(end, x, a, N)
    BY <1>3, <1>4, <1>5, SegBy
  <1> QED  BY <1>6 DEF x, a, end, v

\* An arm of a match leaves the scopes as it found them.
LEMMA ArmSeg ==
    ASSUME NEW b \in Nat, NEW u, NEW w, <<u, w>> \in States(b), Ready(u, w),
           NEW t \in Val, NEW p \in Patterns(t), NEW guarded, NEW k, NEW next_arm, NEW e
    PROVE  Seg(lower_arm(p, guarded, k, t, next_arm, b, e), <<u, w>>, <<u, w>>, b + 1)
  <1> DEFINE check == lower_pattern_check(p, k, t, next_arm, b)
             guard == IF guarded THEN <<E("Int", e.in, "code"), Branch(<<"Int">>, next_arm)>>
                                 ELSE <<>>
             value == E(e.ty, e.in, e.next)
             end == <<value, Leave, PopScope>>
  <1>1. PICK N \in Nat : N = b + 1
    OBVIOUS
  <1>2. <<u, w>> \in States(N)
    BY <1>1, StatesGrow
  <1>3. PICK c, x, y :
           /\ <<x, y>> \in States(N) /\ Ready(x, y) /\ Front(x) = u /\ Front(y) = w
           /\ Seg(check, <<Pushed(u), Entered(w)>>, c, N)
           /\ Seg(bind_pattern(p, b), c, <<x, y>>, N)
    <2>1. Matched(p, k, t, next_arm, b, u, w, b + 1)
      BY MatchedSeg
    <2> QED  BY <1>1, <2>1 DEF Matched
  <1>4. QuietSteps(guard, N)
    BY Tuples DEF QuietSteps, E, Branch, Loud
  <1>5. Seg(<<PushScope, Enter>>, <<u, w>>, <<Pushed(u), Entered(w)>>, N)
    BY <1>2, OpenSeg
  <1>6. Seg(end, <<x, y>>, <<u, w>>, N)
    BY <1>3, EndSeg
  <1>7. lower_arm(p, guarded, k, t, next_arm, b, e)
          = <<PushScope, Enter>> \o check \o bind_pattern(p, b) \o guard \o end
    BY DEF lower_arm
  <1> HIDE DEF check, guard, end
  <1>8. Seg(guard, <<x, y>>, <<x, y>>, N)
    BY <1>3, <1>4, SegQuiet
  <1>9. Seg(<<PushScope, Enter>> \o check \o bind_pattern(p, b), <<u, w>>, <<x, y>>, N)
    BY <1>3, <1>5, SegConcat3
  <1>10. Seg(<<PushScope, Enter>> \o check \o bind_pattern(p, b) \o guard \o end,
             <<u, w>>, <<u, w>>, N)
    BY <1>6, <1>8, <1>9, SegConcat3
  <1> QED  BY <1>1, <1>7, <1>10

\* Quiet steps, with more keys taken.
LEMMA QuietIn ==
    ASSUME NEW L \in Nat, NEW M \in Nat, L <= M,
           NEW u, NEW w, <<u, w>> \in States(L), Ready(u, w), NEW s, QuietSteps(s, L)
    PROVE  Seg(s, <<u, w>>, <<u, w>>, M)
  BY SegQuiet, SegGrow

\* An arm, with more keys taken.
LEMMA ArmIn ==
    ASSUME NEW L \in Nat, NEW M \in Nat, NEW b \in Nat, L <= b, b < M,
           NEW u, NEW w, <<u, w>> \in States(L), Ready(u, w),
           NEW t \in Val, NEW p \in Patterns(t), NEW guarded, NEW k, NEW next_arm, NEW e
    PROVE  Seg(lower_arm(p, guarded, k, t, next_arm, b, e), <<u, w>>, <<u, w>>, M)
  <1>1. <<u, w>> \in States(b)
    BY StatesGrow
  <1>2. Seg(lower_arm(p, guarded, k, t, next_arm, b, e), <<u, w>>, <<u, w>>, b + 1)
    BY <1>1, ArmSeg
  <1>3. PICK N \in Nat : N = b + 1 /\ N <= M
    OBVIOUS
  <1> QED  BY <1>2, <1>3, SegGrow

\* match leaves the scopes as it found them.
LEMMA MatchSeg ==
    ASSUME NEW L \in Nat, NEW u, NEW w, <<u, w>> \in States(L), Ready(u, w),
           NEW e, NEW steps \in lower_match(e, L), NEW M \in Nat, M = L + FormKeys
    PROVE  Seg(steps, <<u, w>>, <<u, w>>, M)
  <1> DEFINE end == L + 1
             next_arm == L + 2
             first == [e EXCEPT !.next = "end"]
             last == [e EXCEPT !.next = "label"]
             FirstArms(t) == UNION {{p} \X Guards(p) : p \in {x \in Patterns(t) : MayMatch(x)}}
             LastArms(t) == IF Avoids("lastArm") /\ e.ty \in Val
                              THEN {q \in SimplePatterns(t) : Irrefutable(q)} \X {FALSE}
                              ELSE UNION {{q} \X Guards(q) : q \in SimplePatterns(t)}
             Start(t) == <<E(t, e.in, "code"), StoreNew(L, "__match_scrutinee", t), Snapshot(L)>>
             First(t, a) == lower_arm(a[1], a[2], L, t, next_arm, L + 3, first)
             middle == <<Goto(end), Place(next_arm, L, <<>>)>>
             Second(t, q) == lower_arm(q[1], q[2], L, t, end, L + 3 + PatternKeys, last)
             tail == <<Place(end, L, StackOf(e.ty))>>
             Code(t, a, q) == Start(t) \o First(t, a) \o middle \o Second(t, q) \o tail
             All(t) == {Code(t, a, q) : a \in FirstArms(t), q \in LastArms(t)}
  <1>1. PICK t \in Val : steps \in All(t)
    <2>1. lower_match(e, L)
            = IF ~ (MayPlace(e) /\ MayHold("__match_scrutinee") /\ MayLeak(e)) THEN {}
              ELSE UNION {All(t) : t \in Val}
      BY DEF lower_match
    <2> HIDE DEF All
    <2> QED  BY <2>1
  <1>2. PICK a \in FirstArms(t), q \in LastArms(t) : steps = Code(t, a, q)
    <2> HIDE DEF FirstArms, LastArms, Code
    <2> QED  BY <1>1
  <1>3. a[1] \in Patterns(t)
    OBVIOUS
  <1>4. q[1] \in Patterns(t)
    <2>1. CASE Avoids("lastArm") /\ e.ty \in Val
      <3>1. q \in {x \in SimplePatterns(t) : Irrefutable(x)} \X {FALSE}
        BY <2>1
      <3> QED  BY <3>1 DEF Patterns
    <2>2. CASE ~ (Avoids("lastArm") /\ e.ty \in Val)
      <3>1. q \in UNION {{x} \X Guards(x) : x \in SimplePatterns(t)}
        BY <2>2
      <3> QED  BY <3>1 DEF Patterns
    <2> QED  BY <2>1, <2>2
  <1> DEFINE z == <<u, w>>
  <1>5. Seg(Start(t), z, z, M)
    <2>1. HiddenStore(StoreNew(L, "__match_scrutinee", t), L)
      BY DEF HiddenStore, StoreNew, Val, InternalName
    <2>2. QuietSteps(Start(t), L)
      <3>1. E(t, e.in, "code").do \in {"expr", "else"} /\ Snapshot(L).do \notin Loud
        BY QuietKinds
      <3> QED  BY <2>1, <3>1, Tuples DEF QuietSteps
    <2> QED  BY <2>2, QuietIn DEF FormKeys, PatternKeys
  <1>6. Seg(middle, z, z, M) /\ Seg(tail, z, z, M)
    <2>1. QuietSteps(middle, L) /\ QuietSteps(tail, L)
      BY Tuples, QuietKinds DEF QuietSteps
    <2> QED  BY <2>1, QuietIn DEF FormKeys, PatternKeys
  <1>7. Seg(First(t, a), z, z, M)
    <2>1. L + 3 \in Nat /\ L <= L + 3 /\ L + 3 < M
      BY DEF FormKeys, PatternKeys
    <2> QED  BY <1>3, <2>1, ArmIn DEF Val
  <1>8. Seg(Second(t, q), z, z, M)
    <2>1. L + 3 + PatternKeys \in Nat /\ L <= L + 3 + PatternKeys /\ L + 3 + PatternKeys < M
      BY DEF FormKeys, PatternKeys
    <2> QED  BY <1>4, <2>1, ArmIn DEF Val
  <1> HIDE DEF Start, First, middle, Second, tail, FirstArms, LastArms, z
  <1>9. Seg(Start(t) \o First(t, a) \o middle, z, z, M)
    BY <1>5, <1>6, <1>7, SegConcat3
  <1>10. Seg(Start(t) \o First(t, a) \o middle \o Second(t, q) \o tail, z, z, M)
    BY <1>6, <1>8, <1>9, SegConcat3
  <1> QED  BY <1>2, <1>10 DEF z

\* The beginning of an arm, step by step.
LEMMA OpenRels ==
    ASSUME NEW N \in Nat, NEW u, NEW w, <<u, w>> \in States(N), Ready(u, w)
    PROVE  /\ <<Pushed(u), w>> \in States(N) /\ <<Pushed(u), Entered(w)>> \in States(N)
           /\ Rel(PushScope, <<u, w>>, <<Pushed(u), w>>)
           /\ Rel(Enter, <<Pushed(u), w>>, <<Pushed(u), Entered(w)>>)
  <1>1. Len(u) >= 1
    BY StateParts DEF Ready
  <1> QED  BY <1>1, InScope, StepRel

\* The end of an arm, step by step.
LEMMA CloseRels ==
    ASSUME NEW N \in Nat, NEW x, NEW y, <<x, y>> \in States(N), Ready(x, y),
           NEW u, NEW w, Front(x) = u, Front(y) = w
    PROVE  /\ <<x, w>> \in States(N)
           /\ Rel(Leave, <<x, y>>, <<x, w>>) /\ Rel(PopScope, <<x, w>>, <<u, w>>)
  <1>1. Len(x) >= 2 /\ Len(y) >= 2
    BY DEF Ready
  <1>2. Seg(<<Leave>>, <<x, y>>, <<x, Front(y)>>, N)
    BY <1>1, LeaveSeg
  <1> QED  BY <1>1, <1>2, SegTyped, StepRel

\* A pattern tried and bound, with more keys taken.
LEMMA MatchedIn ==
    ASSUME NEW L \in Nat, NEW M \in Nat, NEW b \in Nat, L <= b, b < M,
           NEW u, NEW w, <<u, w>> \in States(L), Ready(u, w),
           NEW t \in Val, NEW p \in Patterns(t), NEW k, NEW fail
    PROVE  Matched(p, k, t, fail, b, u, w, M)
  <1>1. <<u, w>> \in States(b)
    BY StatesGrow
  <1>2. PICK N \in Nat : N = b + 1 /\ N <= M
    OBVIOUS
  <1>3. Matched(p, k, t, fail, b, u, w, N)
    BY <1>1, <1>2, MatchedSeg
  <1>4. PICK c, x, y :
           /\ <<x, y>> \in States(N) /\ Ready(x, y) /\ Front(x) = u /\ Front(y) = w
           /\ Seg(lower_pattern_check(p, k, t, fail, b), <<Pushed(u), Entered(w)>>, c, N)
           /\ Seg(bind_pattern(p, b), c, <<x, y>>, N)
    BY <1>3 DEF Matched
  <1>5. <<x, y>> \in States(M)
    BY <1>2, <1>4, StatesGrow
  <1>6. /\ Seg(lower_pattern_check(p, k, t, fail, b), <<Pushed(u), Entered(w)>>, c, M)
        /\ Seg(bind_pattern(p, b), c, <<x, y>>, M)
    BY <1>2, <1>4, SegGrow
  <1> QED  BY <1>4, <1>5, <1>6 DEF Matched

\* if let leaves the scopes as it found them.
LEMMA IfLetSeg ==
    ASSUME NEW L \in Nat, NEW u, NEW w, <<u, w>> \in States(L), Ready(u, w),
           NEW e, NEW steps \in lower_if_let(e, L), NEW M \in Nat, M = L + FormKeys
    PROVE  Seg(steps, <<u, w>>, <<u, w>>, M)
  <1> DEFINE value(t) == E(t, e.in, "code")
             store(t) == StoreNew(L, "__if_let_scrutinee", t)
             Scrutinised(t) == <<value(t), store(t), Snapshot(L), PushScope, Enter>>
             Check(p, t) == lower_pattern_check(p, L, t, L + 1, L + 3)
             next == Place(L + 1, L, <<>>)
             exit == <<Leave, PopScope, Goto(L + 2), next>>
             body == Body(e.ty, e.in, "end")
             Then1(p, t) == Check(p, t) \o bind_pattern(p, L + 3) \o body \o exit
             Otherwise == {<<Else(e.ty, e.in)>>} \cup (IF e.ty = "Unit" THEN {<<>>} ELSE {})
             last == <<Place(L + 2, L, StackOf(e.ty))>>
             Code(t, s, p) == Scrutinised(t) \o Then1(p, t) \o s \o last
             All(t) == {Code(t, s, p) : s \in Otherwise, p \in {x \in Patterns(t) : MayMatch(x)}}
  <1>1. PICK t \in Val : steps \in All(t)
    <2>1. lower_if_let(e, L)
            = IF \/ ~ (MayPlace(e) /\ MayHold("__if_let_scrutinee") /\ MayLeak(e))
                 \/ Avoids("sharedLabel") /\ e.next = "else"
                THEN {} ELSE UNION {All(t) : t \in Val}
      BY DEF lower_if_let
    <2> HIDE DEF All
    <2> QED  BY <2>1
  <1>2. PICK s \in Otherwise, p \in Patterns(t) : steps = Code(t, s, p)
    <2> HIDE DEF Otherwise, Code
    <2> QED  BY <1>1
  <1> DEFINE z == <<u, w>>
             p1 == <<Pushed(u), w>>
             p2 == <<Pushed(u), Entered(w)>>
  <1>3. L <= M /\ L + 3 \in Nat /\ L <= L + 3 /\ L + 3 < M
    BY DEF FormKeys, PatternKeys
  <1>4. z \in States(M)
    BY <1>3, StatesGrow
  <1>5. /\ p1 \in States(M) /\ p2 \in States(M)
        /\ Rel(PushScope, z, p1) /\ Rel(Enter, p1, p2)
    BY <1>4, OpenRels
  <1>6. Seg(Scrutinised(t), z, p2, M)
    <2> DEFINE f == <<z, z, z, z, p1, p2>>
    <2>1. HiddenStore(store(t), L)
      BY DEF HiddenStore, StoreNew, Val, InternalName
    <2>2. Rel(value(t), z, z) /\ Rel(store(t), z, z) /\ Rel(Snapshot(L), z, z)
      BY <2>1, StepRel, QuietKinds, HiddenRel DEF Ready
    <2> HIDE DEF z, p1, p2, value, store
    <2>3. IsSeq(Scrutinised(t)) /\ Len(Scrutinised(t)) = 5
      BY Tuples
    <2>4. f[1] = z /\ f[5 + 1] = p2 /\ \A i \in 1..(5 + 1) : f[i] \in States(M)
      BY <1>4, <1>5
    <2>5. \A i \in 1..5 : Rel(Scrutinised(t)[i], f[i], f[i + 1])
      BY <1>5, <2>2
    <2> HIDE DEF f, Scrutinised
    <2> QED  BY <2>3, <2>4, <2>5, SegBy
  <1>7. Matched(p, L, t, L + 1, L + 3, u, w, M)
    BY <1>3, MatchedIn DEF Val
  <1>8. PICK c, x, y :
           /\ <<x, y>> \in States(M) /\ Ready(x, y) /\ Front(x) = u /\ Front(y) = w
           /\ Seg(Check(p, t), p2, c, M) /\ Seg(bind_pattern(p, L + 3), c, <<x, y>>, M)
    BY <1>7 DEF Matched
  <1> DEFINE q == <<x, y>>
  <1>9. Seg(body, q, q, M)
    BY <1>8, BodySeg
  <1>10. Seg(exit, q, z, M)
    <2> DEFINE m == <<x, w>>
               f == <<q, m, z, z, z>>
    <2>1. m \in States(M) /\ Rel(Leave, q, m) /\ Rel(PopScope, m, z)
      BY <1>8, CloseRels
    <2>2. Rel(Goto(L + 2), z, z) /\ Rel(next, z, z)
      BY StepRel, QuietKinds
    <2>3. q \in States(M)
      BY <1>8
    <2> HIDE DEF z, m, q, next
    <2>4. IsSeq(exit) /\ Len(exit) = 4
      BY Tuples
    <2>5. f[1] = q /\ f[4 + 1] = z /\ \A i \in 1..(4 + 1) : f[i] \in States(M)
      BY <1>4, <2>1, <2>3
    <2>6. \A i \in 1..4 : Rel(exit[i], f[i], f[i + 1])
      BY <2>1, <2>2
    <2> HIDE DEF f, exit
    <2> QED  BY <2>4, <2>5, <2>6, SegBy
  <1>11. Seg(s, z, z, M) /\ Seg(last, z, z, M)
    <2>1. s = <<Else(e.ty, e.in)>> \/ s = <<>>
      OBVIOUS
    <2>2. QuietSteps(s, L) /\ QuietSteps(last, L)
      BY <2>1, Tuples, QuietKinds DEF QuietSteps
    <2> QED  BY <2>2, <1>3, QuietIn
  <1> HIDE DEF Scrutinised, Check, body, exit, last, Otherwise, z, p2, q
  <1>12. Seg(Then1(p, t), p2, z, M)
    BY <1>8, <1>9, <1>10, SegConcat4 DEF q
  <1> HIDE DEF Then1
  <1>13. Seg(Scrutinised(t) \o Then1(p, t) \o s \o last, z, z, M)
    BY <1>6, <1>11, <1>12, SegConcat4
  <1> QED  BY <1>2, <1>13 DEF z

\* while and loop leave the scopes as they found them.
LEMMA WhileSeg ==
    ASSUME NEW L \in Nat, NEW u, NEW w, <<u, w>> \in States(L), Ready(u, w),
           NEW e, NEW steps \in lower_while(e, L)
    PROVE  Seg(steps, <<u, w>>, <<u, w>>, L)
  <1> DEFINE z == <<u, w>>
             p == <<Pushed(u), w>>
             top == <<Place(L, Live, <<>>)>>
             cond == <<E("Int", e.in \cup {"cond"}, "code"), Branch(<<"Int">>, L + 1)>>
             last == Place(L + 1, Live, <<>>)
             open == <<PushLoop(L + 1, L), PushScope>>
             Inner(t) == Body(t, e.in \cup {"loop"}, "end")
             close == <<PopScope, PopLoop, Goto(L), last>>
             Loop(c, t) == top \o c \o open \o Inner(t) \o close
  <1>1. \E t : steps = Loop(cond, t) \/ steps = Loop(<<>>, t)
    <2>1. PICK t \in AnyBody : steps = Loop(cond, t) \/ steps = Loop(<<>>, t)
      BY WhileForms
    <2> QED  BY <2>1
  <1>2. /\ p \in States(L) /\ Ready(Pushed(u), w) /\ Len(Pushed(u)) >= 2 /\ Front(Pushed(u)) = u
    BY InScope
  <1>3. Rel(PushScope, z, p) /\ Rel(PopScope, p, z)
    BY <1>2, OpenRels, StepRel
  <1>4. QuietSteps(top, L) /\ QuietSteps(cond, L) /\ QuietSteps(<<>>, L)
    BY Tuples, QuietKinds DEF QuietSteps
  <1>5. Seg(top, z, z, L) /\ Seg(cond, z, z, L) /\ Seg(<<>>, z, z, L)
    BY <1>4, QuietIn
  <1>6. Seg(open, z, p, L)
    <2> DEFINE f == <<z, z, p>>
    <2>1. Rel(PushLoop(L + 1, L), z, z) /\ z \in States(L)
      BY StepRel, QuietKinds
    <2> HIDE DEF z, p
    <2>2. IsSeq(open) /\ Len(open) = 2
      BY Tuples
    <2>3. f[1] = z /\ f[2 + 1] = p /\ \A i \in 1..(2 + 1) : f[i] \in States(L)
      BY <1>2, <2>1
    <2>4. \A i \in 1..2 : Rel(open[i], f[i], f[i + 1])
      BY <1>3, <2>1
    <2> HIDE DEF f, open
    <2> QED  BY <2>2, <2>3, <2>4, SegBy
  <1>7. \A t : Seg(Inner(t), p, p, L)
    BY <1>2, BodySeg
  <1>8. Seg(close, p, z, L)
    <2> DEFINE f == <<p, z, z, z, z>>
    <2>1. Rel(PopLoop, z, z) /\ Rel(Goto(L), z, z) /\ Rel(last, z, z) /\ z \in States(L)
      BY StepRel, QuietKinds
    <2> HIDE DEF z, p, last
    <2>2. IsSeq(close) /\ Len(close) = 4
      BY Tuples
    <2>3. f[1] = p /\ f[4 + 1] = z /\ \A i \in 1..(4 + 1) : f[i] \in States(L)
      BY <1>2, <2>1
    <2>4. \A i \in 1..4 : Rel(close[i], f[i], f[i + 1])
      BY <1>3, <2>1
    <2> HIDE DEF f, close
    <2> QED  BY <2>2, <2>3, <2>4, SegBy
  <1> HIDE DEF top, cond, open, Inner, close, z, p
  <1>9. ASSUME NEW c, NEW t, Seg(c, z, z, L) PROVE Seg(Loop(c, t), z, z, L)
    <2>1. Seg(top \o c \o open, z, p, L)
      BY <1>5, <1>6, <1>9, SegConcat3
    <2> QED  BY <1>7, <1>8, <2>1, SegConcat3
  <1> HIDE DEF Loop
  <1>10. \A t : Seg(Loop(cond, t), z, z, L) /\ Seg(Loop(<<>>, t), z, z, L)
    BY <1>5, <1>9
  <1> QED  BY <1>1, <1>10 DEF z

\* while let leaves the scopes as it found them.
LEMMA WhileLetSeg ==
    ASSUME NEW L \in Nat, NEW u, NEW w, <<u, w>> \in States(L), Ready(u, w),
           NEW e, NEW steps \in lower_while_let(e, L), NEW M \in Nat, M = L + FormKeys
    PROVE  Seg(steps, <<u, w>>, <<u, w>>, M)
  <1> DEFINE value(t) == E(t, e.in \cup {"cond"}, "code")
             store(t) == StoreNew(L + 2, "__while_let_scrutinee", t)
             top == Place(L, L, <<>>)
             Scrutinised(t) == <<Snapshot(L), top, value(t), store(t), PushScope, Enter>>
             Check(p, t) == lower_pattern_check(p, L + 2, t, L + 1, L + 3)
             push == <<PushLoop(L + 1, L)>>
             body == Body("Unit", e.in \cup {"loop"}, "end")
             last == Place(L + 1, L, <<>>)
             exit == <<PopLoop, Leave, PopScope, Goto(L), last>>
             Code(t, p) == Scrutinised(t) \o Check(p, t) \o bind_pattern(p, L + 3)
                             \o push \o body \o exit
             All(t) == {Code(t, p) : p \in {x \in Patterns(t) : MayMatch(x)}}
  <1>1. PICK t \in Val : steps \in All(t)
    <2>1. lower_while_let(e, L)
            = IF e.ty # "Unit" \/ ~ (MayLoop(e) /\ MayHold("__while_let_scrutinee"))
                 \/ (Avoids("leak") /\ e.next # "end")
                THEN {} ELSE UNION {All(t) : t \in Val}
      BY DEF lower_while_let
    <2> HIDE DEF All
    <2> QED  BY <2>1
  <1>2. PICK p \in Patterns(t) : steps = Code(t, p)
    <2> HIDE DEF Code
    <2> QED  BY <1>1
  <1> DEFINE z == <<u, w>>
             p1 == <<Pushed(u), w>>
             p2 == <<Pushed(u), Entered(w)>>
  <1>3. L <= M /\ L + 3 \in Nat /\ L <= L + 3 /\ L + 3 < M
    BY DEF FormKeys, PatternKeys
  <1>4. z \in States(M)
    BY <1>3, StatesGrow
  <1>5. /\ p1 \in States(M) /\ p2 \in States(M)
        /\ Rel(PushScope, z, p1) /\ Rel(Enter, p1, p2)
    BY <1>4, OpenRels
  <1>6. Seg(Scrutinised(t), z, p2, M)
    <2> DEFINE f == <<z, z, z, z, z, p1, p2>>
    <2>1. HiddenStore(store(t), L)
      BY DEF HiddenStore, StoreNew, Val, InternalName
    <2>2. Rel(value(t), z, z) /\ Rel(store(t), z, z) /\ Rel(Snapshot(L), z, z) /\ Rel(top, z, z)
      BY <2>1, StepRel, QuietKinds, HiddenRel DEF Ready
    <2> HIDE DEF z, p1, p2, value, store, top
    <2>3. IsSeq(Scrutinised(t)) /\ Len(Scrutinised(t)) = 6
      BY Tuples
    <2>4. f[1] = z /\ f[6 + 1] = p2 /\ \A i \in 1..(6 + 1) : f[i] \in States(M)
      BY <1>4, <1>5
    <2>5. \A i \in 1..6 : Rel(Scrutinised(t)[i], f[i], f[i + 1])
      BY <1>5, <2>2
    <2> HIDE DEF f, Scrutinised
    <2> QED  BY <2>3, <2>4, <2>5, SegBy
  <1>7. Matched(p, L + 2, t, L + 1, L + 3, u, w, M)
    BY <1>3, MatchedIn DEF Val
  <1>8. PICK c, x, y :
           /\ <<x, y>> \in States(M) /\ Ready(x, y) /\ Front(x) = u /\ Front(y) = w
           /\ Seg(Check(p, t), p2, c, M) /\ Seg(bind_pattern(p, L + 3), c, <<x, y>>, M)
    BY <1>7 DEF Matched
  <1> DEFINE q == <<x, y>>
  <1>9. Seg(body, q, q, M) /\ Seg(push, q, q, M)
    <2>1. QuietSteps(push, M)
      BY Tuples, QuietKinds DEF QuietSteps
    <2> QED  BY <1>8, <2>1, BodySeg, SegQuiet
  <1>10. Seg(exit, q, z, M)
    <2> DEFINE m == <<x, w>>
               f == <<q, q, m, z, z, z>>
    <2>1. m \in States(M) /\ Rel(Leave, q, m) /\ Rel(PopScope, m, z)
      BY <1>8, CloseRels
    <2>2. Rel(Goto(L), z, z) /\ Rel(last, z, z) /\ Rel(PopLoop, q, q)
      BY StepRel, QuietKinds
    <2>3. q \in States(M)
      BY <1>8
    <2> HIDE DEF z, m, q, last
    <2>4. IsSeq(exit) /\ Len(exit) = 5
      BY Tuples
    <2>5. f[1] = q /\ f[5 + 1] = z /\ \A i \in 1..(5 + 1) : f[i] \in States(M)
      BY <1>4, <2>1, <2>3
    <2>6. \A i \in 1..5 : Rel(exit[i], f[i], f[i + 1])
      BY <2>1, <2>2
    <2> HIDE DEF f, exit
    <2> QED  BY <2>4, <2>5, <2>6, SegBy
  <1> HIDE DEF Scrutinised, Check, body, push, exit, z, p2, q
  <1>11. Seg(Scrutinised(t) \o Check(p, t) \o bind_pattern(p, L + 3), z, q, M)
    BY <1>6, <1>8, SegConcat3 DEF q
  <1>12. Seg(Scrutinised(t) \o Check(p, t) \o bind_pattern(p, L + 3) \o push \o body \o exit,
             z, z, M)
    BY <1>9, <1>10, <1>11, SegConcat4
  <1> QED  BY <1>2, <1>12 DEF z

\* A loop over a Java collection leaves the scopes as it found them.
LEMMA JavaSeg ==
    ASSUME NEW L \in Nat, NEW u, NEW w, <<u, w>> \in States(L), Ready(u, w),
           NEW e, NEW steps \in lower_for_java_iterator(e, L), NEW M \in Nat, M = L + FormKeys
    PROVE  Seg(steps, <<u, w>>, <<u, w>>, M)
  <1> DEFINE value == E("Ref", e.in, "code")
             cast == Op(<<"Ref">>, <<"Ref">>)
             store == StoreNew(L, "__java_iter", "Ref")
             top == Place(L, L, <<>>)
             load == LoadTemp(L)
             test == Op(<<"Ref">>, <<"Int">>)
             branch == Branch(<<"Int">>, L + 1)
             bind(n) == StoreNew(L + 2, n, "Ref")
             define(n) == Define(n, L + 2)
             loop == PushLoop(L + 1, L)
             Open(n) == <<PushScope, value, cast, store, Snapshot(L), top, load, test, branch,
                          load, cast, bind(n), Enter, define(n), loop>>
             body == Body("Unit", e.in \cup {"loop"}, "end")
             last == Place(L + 1, L, <<>>)
             close == <<PopLoop, Leave, Goto(L), last, PopScope>>
             Code(n) == Open(n) \o body \o close
  <1>1. PICK n \in UserName : steps = Code(n)
    <2>1. lower_for_java_iterator(e, L)
            = IF e.ty # "Unit" \/ ~ (MayPlace(e) /\ MayHold("__java_iter")) THEN {}
              ELSE {Code(n) : n \in UserName}
      BY DEF lower_for_java_iterator
    <2> HIDE DEF Code
    <2> QED  BY <2>1
  <1> DEFINE v == Pushed(u)
             y0 == Entered(w)
             z == <<u, w>>
             p == <<v, w>>
  <1>2. /\ <<v, w>> \in States(L) /\ Ready(v, w) /\ Front(v) = u /\ Front(y0) = w
        /\ <<v, y0>> \in States(L) /\ Ready(v, y0)
        /\ Len(v) >= 2 /\ Len(y0) >= 2 /\ Sync(v, y0)
        /\ Rel(PushScope, z, p)
    <2>1. /\ <<v, w>> \in States(L) /\ Ready(v, w) /\ Front(v) = u /\ Front(y0) = w
          /\ <<v, y0>> \in States(L) /\ Ready(v, y0)
      BY InScope
    <2>2. Rel(PushScope, z, p)
      BY OpenRels
    <2> HIDE DEF v, y0
    <2> QED  BY <2>1, <2>2 DEF Ready
  <1> HIDE DEF v
  <1>3. PICK b \in Nat : b = L + 2 /\ L <= b
    OBVIOUS
  <1>4. PICK N \in Nat : N = b + 1 /\ N <= M /\ L <= N /\ L <= M
    BY <1>3 DEF FormKeys, PatternKeys
  <1> DEFINE x == Bind(v, n, b)
             y == Bind(y0, n, b)
             q1 == <<x, w>>
             q2 == <<x, y0>>
             q == <<x, y>>
  <1>5. q1 \in States(N) /\ Rel(bind(n), p, q1) /\ Len(x) = Len(v)
    <2>1. <<v, w>> \in States(b) /\ <<v, w>> \in States(N)
      BY <1>2, <1>3, <1>4, StatesGrow
    <2>2. MayBind(v, w, n, b)
      BY <2>1 DEF MayBind
    <2>3. "Ref" \in Val
      BY DEF Val
    <2>4. q1 \in States(N) /\ Len(x) = Len(v) /\ Rel(StoreNew(b, n, "Ref"), p, q1)
      BY <1>2, <1>4, <2>1, <2>2, <2>3, BoundRel
    <2> QED  BY <2>4, <1>3
  <1>6. Rel(Enter, q1, q2)
    BY StepRel
  <1> HIDE DEF y0
  <1>7. /\ q2 \in States(N) /\ q \in States(N) /\ Ready(x, y) /\ Rel(Define(n, b), q2, q)
        /\ Front(x) = Front(v) /\ Front(y) = Front(y0)
    <2>1. <<v, y0>> \in States(b)
      BY <1>2, <1>3, StatesGrow
    <2> QED  BY <2>1, <1>2, <1>4, DefineRel
  <1>8. /\ z \in States(M) /\ p \in States(M) /\ q1 \in States(M) /\ q2 \in States(M) /\ q \in States(M)
        /\ Rel(define(n), q2, q)
    BY <1>2, <1>3, <1>4, <1>5, <1>7, StatesGrow
  <1>9. Seg(Open(n), z, q, M)
    <2> DEFINE f == <<z, p, p, p, p, p, p, p, p, p, p, p, q1, q2, q, q>>
    <2>1. HiddenStore(store, L)
      BY DEF HiddenStore, StoreNew, Val, InternalName
    <2>2. /\ Rel(value, p, p) /\ Rel(cast, p, p) /\ Rel(store, p, p) /\ Rel(Snapshot(L), p, p)
          /\ Rel(top, p, p) /\ Rel(load, p, p) /\ Rel(test, p, p) /\ Rel(branch, p, p)
      BY <1>2, <2>1, StepRel, QuietKinds, HiddenRel
    <2>3. Rel(loop, q, q)
      BY StepRel, QuietKinds
    <2> HIDE DEF z, p, q1, q2, q, value, cast, store, top, load, test, branch, bind, define, loop
    <2>4. IsSeq(Open(n)) /\ Len(Open(n)) = 15
      <3>1. Open(n) \in Seq({PushScope, value, cast, store, Snapshot(L), top, load, test, branch,
                             bind(n), Enter, define(n), loop})
        OBVIOUS
      <3> QED  BY <3>1 DEF IsSeq
    <2>5. f[1] = z /\ f[15 + 1] = q /\ \A i \in 1..(15 + 1) : f[i] \in States(M)
      <3>1. f \in Seq({z, p, q1, q2, q}) /\ Len(f) = 16
        OBVIOUS
      <3>2. \A i \in 1..16 : f[i] \in {z, p, q1, q2, q}
        BY <3>1
      <3> QED  BY <1>8, <3>2
    <2>6. \A i \in 1..15 : Rel(Open(n)[i], f[i], f[i + 1])
      <3>1. Rel(PushScope, z, p) /\ Rel(bind(n), p, q1) /\ Rel(Enter, q1, q2) /\ Rel(define(n), q2, q)
        BY <1>2, <1>5, <1>6, <1>8
      <3> QED  BY <3>1, <2>2, <2>3
    <2> HIDE DEF f, Open
    <2> QED  BY <2>4, <2>5, <2>6, SegBy
  <1>10. Seg(body, q, q, M)
    BY <1>7, <1>8, BodySeg
  <1>11. Seg(close, q, z, M)
    <2> DEFINE m == <<x, w>>
               f == <<q, q, m, m, m, z>>
    <2>1. m \in States(M) /\ Rel(Leave, q, m) /\ Rel(PopScope, m, z)
      BY <1>2, <1>7, <1>8, CloseRels
    <2>2. Rel(Goto(L), m, m) /\ Rel(last, m, m) /\ Rel(PopLoop, q, q)
      BY StepRel, QuietKinds
    <2> HIDE DEF z, m, q, last
    <2>4. IsSeq(close) /\ Len(close) = 5
      BY Tuples
    <2>5. f[1] = q /\ f[5 + 1] = z /\ \A i \in 1..(5 + 1) : f[i] \in States(M)
      BY <1>8, <2>1
    <2>6. \A i \in 1..5 : Rel(close[i], f[i], f[i + 1])
      BY <2>1, <2>2
    <2> HIDE DEF f, close
    <2> QED  BY <2>4, <2>5, <2>6, SegBy
  <1> HIDE DEF Open, body, close, z, q
  <1>12. Seg(Open(n) \o body \o close, z, z, M)
    BY <1>9, <1>10, <1>11, SegConcat3
  <1> QED  BY <1>1, <1>12 DEF z

-----------------------------------------------------------------------------
(* Every form and every statement                                          *)

\* Every form leaves the scopes as it found them.
LEMMA FormSeg ==
    ASSUME "unnamedSlot" \in Avoid,
           NEW L \in Nat, NEW u, NEW w, <<u, w>> \in States(L), Ready(u, w),
           NEW e, NEW name, NEW steps \in Form(e, L, name), NEW M \in Nat, M = L + FormKeys
    PROVE  Seg(steps, <<u, w>>, <<u, w>>, M)
  <1>1. L <= M
    BY DEF FormKeys, PatternKeys
  <1>2. \/ steps = Body(e.ty, e.in, e.next)
        \/ steps \in lower_call(e) \cup lower_assign(e) \cup lower_comparison(e, L)
                       \cup lower_short_circuit(e, L) \cup lower_try(e, L)
        \/ steps \in lower_if(e, L)
        \/ steps \in lower_match(e, L)
        \/ steps \in lower_if_let(e, L)
        \/ steps \in lower_while(e, L)
        \/ steps \in lower_while_let(e, L)
        \/ steps \in lower_for_java_iterator(e, L)
        \/ steps \in lower_for_range(e, L) \cup lower_for_iterator(e, L)
    BY DEF Form
  <1>3. CASE steps = Body(e.ty, e.in, e.next)
    BY <1>1, <1>3, BodySeg, SegGrow
  <1>4. CASE steps \in lower_call(e) \cup lower_assign(e) \cup lower_comparison(e, L)
                         \cup lower_short_circuit(e, L) \cup lower_try(e, L)
    <2>1. QuietSteps(steps, L)
      BY <1>4, PlainForms
    <2> QED  BY <1>1, <2>1, QuietIn
  <1>5. CASE steps \in lower_if(e, L)
    BY <1>1, <1>5, IfSeg, SegGrow
  <1>6. CASE steps \in lower_match(e, L)
    BY <1>6, MatchSeg
  <1>7. CASE steps \in lower_if_let(e, L)
    BY <1>7, IfLetSeg
  <1>8. CASE steps \in lower_while(e, L)
    BY <1>1, <1>8, WhileSeg, SegGrow
  <1>9. CASE steps \in lower_while_let(e, L)
    BY <1>9, WhileLetSeg
  <1>10. CASE steps \in lower_for_java_iterator(e, L)
    BY <1>10, JavaSeg
  <1>11. lower_for_range(e, L) = {} /\ lower_for_iterator(e, L) = {}
    BY DEF lower_for_range, lower_for_iterator, Avoids
  <1> QED  BY <1>2, <1>3, <1>4, <1>5, <1>6, <1>7, <1>8, <1>9, <1>10, <1>11

\* A statement may bind names in the innermost scope, on both sides.
Stated(steps, u, w, N) ==
    \E x, y : /\ Seg(steps, <<u, w>>, <<x, y>>, N)
              /\ Ready(x, y) /\ Front(x) = Front(u) /\ Front(y) = Front(w)

\* let leaves its name in the innermost scope of both.
LEMMA LetSeg ==
    ASSUME NEW L \in Nat, NEW u, NEW w, <<u, w>> \in States(L), Ready(u, w),
           NEW in, NEW n \in UserName, NEW t \in Val, NEW M \in Nat, M = L + FormKeys
    PROVE  Stated(<<E(t, in, "code"), StoreNew(L, n, t), Define(n, L)>>, u, w, M)
  <1> DEFINE value == E(t, in, "code")
             store == StoreNew(L, n, t)
             define == Define(n, L)
             steps == <<value, store, define>>
             x == Bind(u, n, L)
             y == Bind(w, n, L)
             z == <<u, w>>
             q1 == <<x, w>>
             q == <<x, y>>
             f == <<z, z, q1, q>>
  <1>1. PICK N \in Nat : N = L + 1 /\ N <= M /\ L <= N
    BY DEF FormKeys, PatternKeys
  <1>2. Len(u) >= 2 /\ Len(w) >= 2 /\ Sync(u, w) /\ z \in States(N)
    BY <1>1, StatesGrow DEF Ready
  <1>3. Rel(store, z, q1)
    <2>1. MayBind(u, w, n, L)
      BY DEF MayBind
    <2> QED  BY <1>1, <1>2, <2>1, BoundRel
  <1>4. /\ q1 \in States(N) /\ q \in States(N) /\ Ready(x, y) /\ Rel(define, q1, q)
        /\ Front(x) = Front(u) /\ Front(y) = Front(w)
    BY <1>1, <1>2, DefineRel
  <1>5. Rel(value, z, z)
    BY StepRel, QuietKinds
  <1> HIDE DEF z, q1, q, value, store, define
  <1>6. IsSeq(steps) /\ Len(steps) = 3
    BY Tuples
  <1>7. f[1] = z /\ f[3 + 1] = q /\ \A i \in 1..(3 + 1) : f[i] \in States(N)
    BY <1>2, <1>4
  <1>8. \A i \in 1..3 : Rel(steps[i], f[i], f[i + 1])
    BY <1>3, <1>4, <1>5
  <1> HIDE DEF f, steps
  <1>9. Seg(steps, z, q, N)
    BY <1>6, <1>7, <1>8, SegBy
  <1>10. Seg(steps, z, q, M)
    BY <1>1, <1>9, SegGrow
  <1> QED  BY <1>4, <1>10 DEF Stated, z, q, steps, value, store, define

\* let-else leaves the names of its pattern in the innermost scope of both,
\* though its else block is lowered before the checker declares them: none of
\* them hides a name that is visible there.
LEMMA LetElseSeg ==
    ASSUME "letElse" \in Avoid,
           NEW L \in Nat, NEW u, NEW w, <<u, w>> \in States(L), Ready(u, w),
           UNION {DOMAIN w[j] : j \in DOMAIN w} \subseteq Visible,
           NEW s, NEW steps \in lower_let_else(s, L), NEW M \in Nat, M = L + FormKeys
    PROVE  Stated(steps, u, w, M)
  <1> DEFINE head(t) == <<E(t, s.in, "code"), StoreNew(L, "__let_else_scrutinee", t), Snapshot(L)>>
             Check(p, t) == lower_pattern_check(p, L, t, L + 1, L + 3)
             middle == <<Goto(L + 2), Place(L + 1, L, <<>>)>>
             body == Body("Nothing", s.in \cup {"letelse"}, "label")
             last == <<Place(L + 2, Live, <<>>)>>
             Code(t, p) == head(t) \o Check(p, t) \o middle \o body \o last \o bind_pattern(p, L + 3)
             All(t) == {Code(t, p) : p \in {x \in Patterns(t) :
                                              /\ MayMatch(x)
                                              /\ Avoids("letElse") => Bound(x) \cap Visible = {}}}
  <1>1. PICK t \in Val : steps \in All(t)
    <2>1. lower_let_else(s, L)
            = IF ~ (MayPlace([s EXCEPT !.next = "code"]) /\ MayHold("__let_else_scrutinee")) THEN {}
              ELSE UNION {All(t) : t \in Val}
      BY DEF lower_let_else
    <2> HIDE DEF All
    <2> QED  BY <2>1
  <1>2. PICK p \in Patterns(t) : steps = Code(t, p) /\ Bound(p) \cap Visible = {}
    <2> HIDE DEF Code
    <2> QED  BY <1>1 DEF Avoids
  <1>3. PICK b \in Nat : b = L + 3 /\ L <= b
    OBVIOUS
  <1>4. PICK N \in Nat : N = b + 1 /\ N <= M /\ L <= N
    BY <1>3 DEF FormKeys, PatternKeys
  <1> DEFINE x == BindIf(u, p, b)
             y == BindIf(w, p, b)
             z == <<u, w>>
             q1 == <<x, w>>
             q == <<x, y>>
  <1>5. /\ z \in States(b) /\ z \in States(N) /\ Len(u) >= 2 /\ Len(w) >= 2 /\ Sync(u, w)
    BY <1>3, <1>4, StatesGrow DEF Ready
  <1>6. Seg(head(t), z, z, N)
    <2>1. HiddenStore(StoreNew(L, "__let_else_scrutinee", t), L)
      BY DEF HiddenStore, StoreNew, Val, InternalName
    <2>2. QuietSteps(head(t), L)
      <3>1. E(t, s.in, "code").do \in {"expr", "else"} /\ Snapshot(L).do \notin Loud
        BY QuietKinds
      <3> QED  BY <2>1, <3>1, Tuples DEF QuietSteps
    <2> QED  BY <1>4, <2>2, QuietIn
  <1>7. q1 \in States(N) /\ Len(x) = Len(u) /\ Seg(Check(p, t), z, q1, N)
    <2>1. /\ <<BindIf(u, p, b), w>> \in States(b + 1) /\ Len(BindIf(u, p, b)) = Len(u)
          /\ Seg(lower_pattern_check(p, L, t, L + 1, b), <<u, w>>, <<BindIf(u, p, b), w>>, b + 1)
      BY <1>5, CheckSeg DEF Val
    <2> QED  BY <1>3, <1>4, <2>1
  <1>8. /\ q \in States(N) /\ Ready(x, y) /\ Seg(bind_pattern(p, b), q1, q, N)
        /\ Front(x) = Front(u) /\ Front(y) = Front(w)
    BY <1>4, <1>5, BindPatternSeg
  <1>9. Ready(x, w)
    <2>1. CASE Bound(p) = {}
      BY <2>1, <1>5 DEF BindIf, Ready
    <2>2. CASE Bound(p) # {}
      <3> DEFINE n == p.name
      <3>1. n \in UserName /\ n \notin Visible /\ x = Bind(u, n, b)
        BY <1>2, <2>2 DEF Bound, BindIf
      <3> HIDE DEF n, x
      <3>2. \A j \in DOMAIN w : n \notin DOMAIN w[j]
        BY <3>1
      <3>3. u \in Seq(Map(N)) /\ w \in Seq(Map(N)) /\ b \in Param..(N - 1)
            /\ Len(u) >= 1 /\ Len(w) >= 1
        BY <1>4, <1>5, StateParts DEF Param
      <3>4. Sync(Bind(u, n, b), w)
        BY <1>5, <3>1, <3>2, <3>3, SyncBound
      <3> QED  BY <1>5, <1>7, <3>1, <3>4 DEF Ready
    <2> QED  BY <2>1, <2>2
  <1> HIDE DEF x, y
  <1>10. Seg(body, q1, q1, N)
    BY <1>7, <1>9, BodySeg
  <1>11. Seg(middle, q1, q1, N) /\ Seg(last, q1, q1, N)
    <2>1. QuietSteps(middle, N) /\ QuietSteps(last, N)
      BY Tuples, QuietKinds DEF QuietSteps
    <2> QED  BY <2>1, <1>7, <1>9, SegQuiet
  <1> HIDE DEF head, Check, middle, body, last, z, q1, q
  <1>12. Seg(head(t) \o Check(p, t) \o middle \o body, z, q1, N)
    BY <1>6, <1>7, <1>10, <1>11, SegConcat4
  <1>13. Seg(head(t) \o Check(p, t) \o middle \o body \o last \o bind_pattern(p, b), z, q, N)
    BY <1>8, <1>11, <1>12, SegConcat3
  <1>14. Seg(steps, z, q, M)
    <2>1. steps = head(t) \o Check(p, t) \o middle \o body \o last \o bind_pattern(p, b)
      BY <1>2, <1>3
    <2> HIDE DEF Code
    <2> QED  BY <1>4, <1>13, <2>1, SegGrow
  <1> QED  BY <1>8, <1>14 DEF Stated, z, q

\* A statement of any kind changes the innermost scopes at most.
LEMMA StmtSeg ==
    ASSUME "letElse" \in Avoid,
           NEW L \in Nat, NEW u, NEW w, <<u, w>> \in States(L), Ready(u, w),
           UNION {DOMAIN w[j] : j \in DOMAIN w} \subseteq Visible,
           NEW s, NEW name, NEW steps \in lower_stmt(s, L, name), NEW M \in Nat, M = L + FormKeys
    PROVE  Stated(steps, u, w, M)
  <1> DEFINE Drop(t) == <<E(t, s.in, "code"), Op(<<t>>, <<>>)>>
  <1>1. \/ \E n \in UserName, t \in Val :
              steps = <<E(t, s.in, "code"), StoreNew(L, n, t), Define(n, L)>>
        \/ \E t \in Val : steps = Drop(t)
        \/ steps = <<E("Unit", s.in, "code")>>
        \/ steps \in lower_let_else(s, L)
    <2>1. CASE name = "let"
      BY <2>1 DEF lower_stmt
    <2>2. CASE name = "drop"
      <3>1. lower_stmt(s, L, name) = {Drop(t) : t \in Val}
        BY <2>2 DEF lower_stmt
      <3> HIDE DEF Drop
      <3> QED  BY <3>1
    <2>3. CASE name \notin {"let", "drop"}
      BY <2>3 DEF lower_stmt
    <2> QED  BY <2>1, <2>2, <2>3
  <1>2. CASE \E n \in UserName, t \in Val :
              steps = <<E(t, s.in, "code"), StoreNew(L, n, t), Define(n, L)>>
    BY <1>2, LetSeg
  <1>3. CASE (\E t \in Val : steps = Drop(t)) \/ steps = <<E("Unit", s.in, "code")>>
    <2>1. QuietSteps(<<E("Unit", s.in, "code")>>, L) /\ \A t : QuietSteps(Drop(t), L)
      BY Tuples, QuietKinds DEF QuietSteps
    <2> HIDE DEF Drop
    <2>4. QuietSteps(steps, L)
      BY <1>3, <2>1
    <2>2. L <= M
      BY DEF FormKeys, PatternKeys
    <2>3. Seg(steps, <<u, w>>, <<u, w>>, M)
      BY <2>2, <2>4, QuietIn
    <2> QED  BY <2>3 DEF Stated
  <1>4. CASE steps \in lower_let_else(s, L)
    BY <1>4, LetElseSeg
  <1> QED  BY <1>1, <1>2, <1>3, <1>4

=============================================================================
