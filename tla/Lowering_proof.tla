--------------------------- MODULE Lowering_proof ---------------------------
(***************************************************************************)
(* Whatever the body, each name is bound to the slot of the declaration    *)
(* the type checker resolved it to.  The invariant: the steps ahead are a  *)
(* path from the scopes as they are to the outermost one, and the undo log *)
(* of each open scope leads back to the locals there were before it.       *)
(*                                                                         *)
(* Of the shapes in Avoid the proof needs two kept out, letElse and        *)
(* unnamedSlot: their code binds a name before it lowers an expression     *)
(* that the type checker resolved without it.                              *)
(***************************************************************************)
EXTENDS LoweringForms_proof, WellFoundedInduction

-----------------------------------------------------------------------------
(* The undo log                                                            *)

\* Every set of numbers has a least one.
LEMMA Least ==
    ASSUME NEW T, T \subseteq Nat, T # {}
    PROVE  \E x \in T : \A y \in T : x <= y
  <1>1. PICK x \in T : \A y \in T : ~ (<<y, x>> \in OpToRel(<, Nat))
    BY NatLessThanWellFounded, WFMin
  <1>2. \A y \in T : ~ (y < x)
    BY <1>1 DEF OpToRel
  <1> QED  BY <1>2

\* The functions Undone is defined by.
Undoing(g, map, log) ==
    /\ g = [l \in 0..Len(log) |-> g[l]]
    /\ g[Len(log)] = map
    /\ \A l \in 0..(Len(log) - 1) : g[l] = Undo(g[l + 1], log[l + 1])

\* The recursion of Undone has a solution.
LEMMA UndoingExists ==
    ASSUME NEW map, NEW log, IsSeq(log)
    PROVE  \E g : Undoing(g, map, log)
  <1> DEFINE n == Len(log)
             P(g, j) == /\ g = [l \in (n - j)..n |-> g[l]]
                        /\ g[n] = map
                        /\ \A l \in (n - j)..(n - 1) : g[l] = Undo(g[l + 1], log[l + 1])
             T == {j \in 0..n : ~ \E g : P(g, j)}
  <1>1. n \in Nat
    BY SeqFacts
  <1>2. T = {}
    <2> SUFFICES ASSUME T # {} PROVE FALSE
      OBVIOUS
    <2>1. T \subseteq Nat
      BY <1>1
    <2> HIDE DEF T
    <2>2. PICK j \in T : \A y \in T : j <= y
      BY <2>1, Least
    <2>3. j \in 0..n /\ ~ \E g : P(g, j)
      BY <2>2 DEF T
    <2> HIDE DEF n
    <2>4. CASE j = 0
      <3> DEFINE g == [l \in n..n |-> map]
      <3>1. P(g, 0)
        BY <1>1
      <3> QED  BY <2>3, <2>4, <3>1
    <2>5. CASE j > 0
      <3>1. j - 1 \in 0..n /\ j - 1 \notin T
        BY <2>2, <2>3, <2>5, <1>1
      <3>2. PICK g : P(g, j - 1)
        BY <3>1 DEF T
      <3> DEFINE h == [l \in (n - j)..n |->
                          IF l = n - j THEN Undo(g[l + 1], log[l + 1]) ELSE g[l]]
      <3>3. h = [l \in (n - j)..n |-> h[l]]
        OBVIOUS
      <3>4. h[n] = map
        BY <3>2, <2>3, <2>5, <1>1
      <3>5. ASSUME NEW l \in (n - j)..(n - 1) PROVE h[l] = Undo(h[l + 1], log[l + 1])
        <4>1. l \in Int /\ l \in (n - j)..n /\ l + 1 \in (n - j)..n /\ l + 1 # n - j
          BY <2>3, <2>5, <1>1
        <4>2. h[l + 1] = g[l + 1]
          BY <4>1
        <4>3. CASE l = n - j
          BY <4>1, <4>2, <4>3
        <4>4. CASE l # n - j
          <5>1. l \in (n - (j - 1))..(n - 1)
            BY <4>1, <4>4, <2>3, <1>1
          <5>2. g[l] = Undo(g[l + 1], log[l + 1])
            BY <5>1, <3>2
          <5> QED  BY <4>1, <4>2, <4>4, <5>2
        <4> QED  BY <4>3, <4>4
      <3> HIDE DEF h
      <3>6. P(h, j)
        BY <3>3, <3>4, <3>5
      <3> QED  BY <3>6, <2>3
    <2> QED  BY <2>3, <2>4, <2>5, <1>1
  <1>3. n \in 0..n /\ n \notin T
    BY <1>1, <1>2
  <1>4. PICK g : P(g, n)
    BY <1>3 
  <1>5. n - n = 0
    BY <1>1
  <1> QED  BY <1>4, <1>5 DEF Undoing

\* Undone is what its equations say.
LEMMA UndoneIs ==
    ASSUME NEW map, NEW log, IsSeq(log)
    PROVE  \E g : Undoing(g, map, log) /\ Undone(map, log) = g[0]
  <1> DEFINE R(g) == g = [l \in 0..Len(log) |->
                            IF l = Len(log) THEN map ELSE Undo(g[l + 1], log[l + 1])]
  <1>1. Len(log) \in Nat
    BY SeqFacts
  <1>2. PICK g : Undoing(g, map, log)
    BY UndoingExists
  <1>3. R(g)
    BY <1>1, <1>2 DEF Undoing
  <1> DEFINE h == CHOOSE x : R(x)
  <1>4. R(h)
    BY <1>3
  <1>5. Undone(map, log) = h[0]
    BY DEF Undone
  <1> HIDE DEF h
  <1>6. Undoing(h, map, log)
    BY <1>1, <1>4 DEF Undoing
  <1> QED  BY <1>5, <1>6

\* A scope without bindings has nothing to undo.
LEMMA UndoneEmpty == \A map : Undone(map, <<>>) = map
  <1> SUFFICES ASSUME NEW map PROVE Undone(map, <<>>) = map
    OBVIOUS
  <1>1. IsSeq(<<>>) /\ Len(<<>>) = 0
    BY Tuples
  <1> QED  BY <1>1, UndoneIs DEF Undoing

\* The latest binding is the first to be undone.
LEMMA UndoneAppend ==
    ASSUME NEW map, NEW log, IsSeq(log), NEW entry
    PROVE  Undone(map, Append(log, entry)) = Undone(Undo(map, entry), log)
  <1> DEFINE n == Len(log)
             longer == Append(log, entry)
  <1>1. n \in Nat /\ IsSeq(longer) /\ Len(longer) = n + 1 /\ longer[n + 1] = entry
        /\ \A i \in 1..n : longer[i] = log[i]
    BY SeqFacts
  <1> HIDE DEF longer
  <1>2. PICK g : Undoing(g, map, longer) /\ Undone(map, longer) = g[0]
    BY <1>1, UndoneIs
  <1>3. PICK h : Undoing(h, Undo(map, entry), log) /\ Undone(Undo(map, entry), log) = h[0]
    BY UndoneIs
  <1> DEFINE T == {j \in 0..n : g[n - j] # h[n - j]}
  <1>4. T = {}
    <2> SUFFICES ASSUME T # {} PROVE FALSE
      OBVIOUS
    <2>1. T \subseteq Nat
      BY <1>1
    <2> HIDE DEF T
    <2>2. PICK j \in T : \A y \in T : j <= y
      BY <2>1, Least
    <2>3. j \in 0..n /\ g[n - j] # h[n - j]
      BY <2>2 DEF T
    <2>4. CASE j = 0
      <3>1. g[n + 1] = map /\ g[n] = Undo(g[n + 1], longer[n + 1])
        <4>1. n \in 0..(Len(longer) - 1) /\ Len(longer) = n + 1
          BY <1>1
        <4>2. /\ g[Len(longer)] = map
              /\ \A l \in 0..(Len(longer) - 1) : g[l] = Undo(g[l + 1], longer[l + 1])
          BY <1>2 DEF Undoing
        <4> QED  BY <4>1, <4>2
      <3>2. h[n] = Undo(map, entry)
        BY <1>3 DEF Undoing
      <3> QED  BY <2>3, <2>4, <3>1, <3>2, <1>1
    <2>5. CASE j > 0
      <3> DEFINE l == n - j
      <3>1. l \in 0..(n - 1) /\ l + 1 = n - (j - 1) /\ j - 1 \in 0..n /\ j - 1 \notin T
            /\ l \in 0..(Len(longer) - 1) /\ l + 1 \in 1..n
        BY <2>2, <2>3, <2>5, <1>1
      <3>2. g[l + 1] = h[l + 1]
        BY <3>1 DEF T
      <3>3. g[l] = Undo(g[l + 1], longer[l + 1])
        BY <3>1, <1>2 DEF Undoing
      <3>4. h[l] = Undo(h[l + 1], log[l + 1])
        BY <3>1, <1>3 DEF Undoing
      <3> QED  BY <2>3, <3>1, <3>2, <3>3, <3>4, <1>1
    <2> QED  BY <2>3, <2>4, <2>5
  <1>5. g[0] = h[0]
    BY <1>1, <1>4
  <1> QED  BY <1>2, <1>3, <1>5 DEF longer

\* A binding undone leaves the map as it was.
LocalMap == UNION {[D -> Binding] : D \in SUBSET Name}

\* alloc_local and the undoing of what it logged, in this order, change nothing.
LEMMA UndoWith ==
    ASSUME NEW m \in LocalMap, NEW n \in Name, NEW b \in Binding
    PROVE  /\ With(m, n, b) \in LocalMap
           /\ LET prev == IF n \in DOMAIN m THEN m[n] ELSE NoBinding
              IN  Undo(With(m, n, b), [name |-> n, prev |-> prev]) = m
  <1>1. PICK D \in SUBSET Name : m \in [D -> Binding]
    BY DEF LocalMap
  <1>2. With(m, n, b) \in [D \cup {n} -> Binding] /\ D \cup {n} \in SUBSET Name
    BY <1>1 DEF With
  <1>3. CASE n \in D
    <2>1. m[n] \in Binding /\ m[n] # NoBinding
      BY <1>1, <1>3 DEF Binding, NoBinding, Val
    <2>2. Undo(With(m, n, b), [name |-> n, prev |-> m[n]]) = With(With(m, n, b), n, m[n])
      BY <2>1 DEF Undo
    <2>3. With(With(m, n, b), n, m[n]) = m
      BY <1>1, <1>3 DEF With
    <2> QED  BY <1>1, <1>2, <1>3, <2>2, <2>3 DEF LocalMap
  <1>4. CASE n \notin D
    <2>1. Undo(With(m, n, b), [name |-> n, prev |-> NoBinding]) = Without(With(m, n, b), n)
      BY DEF Undo
    <2>2. Without(With(m, n, b), n) = m
      BY <1>1, <1>4 DEF With, Without
    <2> QED  BY <1>1, <1>2, <1>4, <2>1, <2>2 DEF LocalMap
  <1> QED  BY <1>3, <1>4

-----------------------------------------------------------------------------
(* What the scopes stand for                                               *)

\* The slot a key stands for.
Value(k, param, tm) == IF k = Param THEN param ELSE tm[k]

\* The names of a scope and their slots.
Means(keys, map, param, tm) ==
    \A n \in DOMAIN keys : /\ keys[n] \in DOMAIN tm \cup {Param}
                           /\ map[n] = Value(keys[n], param, tm)

\* The lowering's side: base[i] is what its locals were before the i-th scope
\* was opened, and are again when it is closed.
Lowered(u, param, base, map, logs, tm) ==
    /\ IsSeq(logs) /\ \A i \in 1..Len(logs) : IsSeq(logs[i])
    /\ base \in Seq(LocalMap) /\ Len(base) = Len(logs) + 1 /\ Len(u) = Len(base)
    /\ base[Len(base)] = map
    /\ \A i \in 1..Len(logs) : base[i] = Undone(base[i + 1], logs[i])
    /\ \A i \in 1..Len(base) : /\ DOMAIN u[i] = DOMAIN base[i] \cap UserName
                               /\ Means(u[i], base[i], param, tm)

\* The checker's side.
Checked(w, param, scopes, tm) ==
    /\ IsSeq(scopes) /\ Len(scopes) = Len(w)
    /\ \A j \in 1..Len(w) : /\ DOMAIN scopes[j] = DOMAIN w[j]
                            /\ Means(w[j], scopes[j], param, tm)

\* push_scope keeps the side of the lowering.
LEMMA LoweredPush ==
    ASSUME NEW N \in Nat, NEW u \in Seq(Map(N)), NEW param, NEW base, NEW map, NEW logs, NEW tm,
           Lowered(u, param, base, map, logs, tm), Len(u) >= 1
    PROVE  Lowered(Append(u, Last(u)), param, Append(base, map), map, Append(logs, <<>>), tm)
  <1> DEFINE v == Append(u, Last(u))
             over == Append(base, map)
             all == Append(logs, <<>>)
             l == Len(logs)
  <1>1. /\ l \in Nat /\ Len(base) = l + 1 /\ Len(u) = l + 1 /\ IsSeq(base)
        /\ \A i \in 1..(l + 1) : base[i] \in LocalMap
        /\ base[l + 1] = map
    BY SeqFacts DEF Lowered, IsSeq
  <1>2. IsSeq(all) /\ Len(all) = l + 1 /\ all[l + 1] = <<>> /\ \A i \in 1..l : all[i] = logs[i]
    BY SeqFacts DEF Lowered
  <1>3. /\ over \in Seq(LocalMap) /\ Len(over) = l + 2 /\ over[l + 2] = map
        /\ \A i \in 1..(l + 1) : over[i] = base[i]
    <2>1. base \in Seq(LocalMap) /\ map \in LocalMap
      BY <1>1 DEF Lowered
    <2> QED  BY <1>1, <2>1
  <1>4. /\ Len(v) = l + 2 /\ v[l + 2] = u[l + 1] /\ \A i \in 1..(l + 1) : v[i] = u[i]
    <2>1. /\ Len(v) = Len(u) + 1 /\ Last(v) = Last(u) /\ Last(u) = u[Len(u)]
          /\ \A i \in 1..Len(u) : v[i] = u[i]
      BY Scopes
    <2>2. Last(v) = v[Len(v)]
      BY DEF Last
    <2> HIDE DEF v
    <2> QED  BY <1>1, <2>1, <2>2
  <1> HIDE DEF v, over, all, l
  <1>5. \A i \in 1..Len(all) : IsSeq(all[i])
    BY <1>1, <1>2, Tuples DEF Lowered, l
  <1>6. ASSUME NEW i \in 1..Len(all) PROVE over[i] = Undone(over[i + 1], all[i])
    <2>1. CASE i = l + 1
      BY <2>1, <1>1, <1>2, <1>3, UndoneEmpty
    <2>2. CASE i # l + 1
      <3>1. i \in 1..l /\ i + 1 \in 1..(l + 1) /\ i \in 1..(l + 1)
        BY <2>2, <1>1, <1>2
      <3>2. base[i] = Undone(base[i + 1], logs[i])
        BY <3>1 DEF Lowered, l
      <3> QED  BY <3>1, <3>2, <1>2, <1>3
    <2> QED  BY <2>1, <2>2
  <1>7. ASSUME NEW i \in 1..Len(over)
        PROVE DOMAIN v[i] = DOMAIN over[i] \cap UserName /\ Means(v[i], over[i], param, tm)
    <2>1. \A j \in 1..(l + 1) : DOMAIN u[j] = DOMAIN base[j] \cap UserName
                                  /\ Means(u[j], base[j], param, tm)
      BY <1>1 DEF Lowered
    <2>2. CASE i = l + 2
      <3>1. v[i] = u[l + 1] /\ over[i] = base[l + 1] /\ l + 1 \in 1..(l + 1)
        BY <2>2, <1>1, <1>3, <1>4
      <3> QED  BY <2>1, <3>1
    <2>3. CASE i # l + 2
      <3>1. i \in 1..(l + 1) /\ v[i] = u[i] /\ over[i] = base[i]
        BY <2>3, <1>1, <1>3, <1>4
      <3> QED  BY <2>1, <3>1
    <2> QED  BY <2>2, <2>3
  <1>8. Len(over) = Len(all) + 1 /\ Len(v) = Len(over) /\ over[Len(over)] = map
    BY <1>1, <1>2, <1>3, <1>4
  <1> QED  BY <1>2, <1>3, <1>5, <1>6, <1>7, <1>8 DEF Lowered, v, over, all

\* pop_scope gives the locals back that there were before the scope.
LEMMA LoweredPop ==
    ASSUME NEW N \in Nat, NEW u \in Seq(Map(N)), NEW param, NEW base, NEW map, NEW logs, NEW tm,
           Lowered(u, param, base, map, logs, tm), Len(u) >= 2
    PROVE  Lowered(Front(u), param, Front(base), Undone(map, Last(logs)), Front(logs), tm)
  <1> DEFINE v == Front(u)
             under == Front(base)
             rest == Front(logs)
             l == Len(logs)
  <1>1. /\ l \in Nat /\ l >= 1 /\ Len(base) = l + 1 /\ Len(u) = l + 1 /\ IsSeq(base) /\ logs # <<>>
        /\ base[l + 1] = map /\ base # <<>> /\ base \in Seq(LocalMap)
    <2>1. l \in Nat /\ Len(base) = l + 1 /\ Len(u) = l + 1 /\ IsSeq(base) /\ base[l + 1] = map
          /\ base \in Seq(LocalMap)
      BY SeqFacts DEF Lowered, IsSeq
    <2>2. Len(<<>>) = 0
      OBVIOUS
    <2> QED  BY <2>1, <2>2
  <1>2. IsSeq(rest) /\ Len(rest) = l - 1 /\ \A i \in 1..(l - 1) : rest[i] = logs[i]
    BY <1>1, SeqFacts DEF Lowered
  <1>3. /\ under \in Seq(LocalMap) /\ Len(under) = l /\ \A i \in 1..l : under[i] = base[i]
    <2>1. Len(under) = l /\ \A i \in 1..l : under[i] = base[i]
      <3>1. Len(under) = Len(base) - 1 /\ \A i \in 1..(Len(base) - 1) : under[i] = base[i]
        BY <1>1, SeqFacts
      <3>2. Len(base) - 1 = l
        BY <1>1
      <3> HIDE DEF under, l
      <3> QED  BY <3>1, <3>2
    <2>2. under = SubSeq(base, 1, l)
      BY <1>1 DEF Front
    <2>3. under \in Seq(LocalMap)
      <3> HIDE DEF under, l
      <3> QED  BY <1>1, <2>2
    <2> QED  BY <2>1, <2>3
  <1>4. Len(v) = l /\ \A i \in 1..l : v[i] = u[i]
    <2>0. Len(u) >= 1
      BY <1>1
    <2>1. Len(v) = Len(u) - 1 /\ \A i \in 1..(Len(u) - 1) : v[i] = u[i]
      BY <2>0, Scopes
    <2>2. Len(u) - 1 = l
      BY <1>1
    <2> HIDE DEF v, l
    <2> QED  BY <2>1, <2>2
  <1>5. Last(logs) = logs[l] /\ base[l] = Undone(map, logs[l])
    <2>1. l \in 1..l /\ l \in 1..Len(logs)
      BY <1>1
    <2>2. base[l] = Undone(base[l + 1], logs[l])
      BY <2>1 DEF Lowered
    <2> QED  BY <1>1, <2>2 DEF Last
  <1> HIDE DEF v, under, rest
  <1>6. /\ \A i \in 1..Len(rest) : IsSeq(rest[i])
        /\ \A i \in 1..Len(rest) : under[i] = Undone(under[i + 1], rest[i])
    <2> SUFFICES ASSUME NEW i \in 1..Len(rest)
                 PROVE  IsSeq(rest[i]) /\ under[i] = Undone(under[i + 1], rest[i])
      OBVIOUS
    <2>1. i \in 1..(l - 1) /\ i \in 1..Len(logs) /\ i \in 1..l /\ i + 1 \in 1..l
      BY <1>1, <1>2
    <2>2. IsSeq(logs[i]) /\ base[i] = Undone(base[i + 1], logs[i])
      BY <2>1 DEF Lowered
    <2> QED  BY <2>1, <2>2, <1>2, <1>3
  <1>7. ASSUME NEW i \in 1..Len(under)
        PROVE DOMAIN v[i] = DOMAIN under[i] \cap UserName /\ Means(v[i], under[i], param, tm)
    <2>1. i \in 1..Len(base) /\ v[i] = u[i] /\ under[i] = base[i]
      BY <1>1, <1>3, <1>4
    <2> QED  BY <2>1 DEF Lowered
  <1>8. Len(under) = Len(rest) + 1 /\ Len(v) = Len(under) /\ under[Len(under)] = Undone(map, Last(logs))
    BY <1>1, <1>2, <1>3, <1>4, <1>5
  <1> QED  BY <1>2, <1>3, <1>6, <1>7, <1>8 DEF Lowered, v, under, rest

\* A sequence with its last element replaced.
LEMMA Replaced ==
    ASSUME NEW s, IsSeq(s), s # <<>>, NEW x
    PROVE  /\ IsSeq(Append(Front(s), x)) /\ Len(Append(Front(s), x)) = Len(s)
           /\ Append(Front(s), x)[Len(s)] = x
           /\ \A i \in 1..(Len(s) - 1) : Append(Front(s), x)[i] = s[i]
  <1> DEFINE t == Front(s)
  <1>1. /\ IsSeq(t) /\ Len(t) = Len(s) - 1 /\ Len(s) \in Nat
        /\ \A i \in 1..(Len(s) - 1) : t[i] = s[i]
    BY SeqFacts
  <1> HIDE DEF t
  <1>2. /\ IsSeq(Append(t, x)) /\ Len(Append(t, x)) = Len(t) + 1 /\ Append(t, x)[Len(t) + 1] = x
        /\ \A i \in 1..Len(t) : Append(t, x)[i] = t[i]
    BY <1>1, SeqFacts
  <1>3. Len(t) + 1 = Len(s)
    BY <1>1
  <1> QED  BY <1>1, <1>2, <1>3 DEF t

\* A slot under a key no name has.
LEMMA MeansKept ==
    ASSUME NEW keys, NEW map, NEW param, NEW tm, NEW k \in Nat, NEW b,
           Means(keys, map, param, tm), \A m \in DOMAIN keys : keys[m] # k
    PROVE  Means(keys, map, param, With(tm, k, b))
  <1> DEFINE new == With(tm, k, b)
  <1>1. DOMAIN new = DOMAIN tm \cup {k} /\ \A x \in DOMAIN tm : x # k => new[x] = tm[x]
    BY DEF With
  <1> HIDE DEF new
  <1>2. \A m \in DOMAIN keys : /\ keys[m] \in DOMAIN new \cup {Param}
                               /\ map[m] = Value(keys[m], param, new)
    BY <1>1 DEF Means, Value
  <1> QED  BY <1>2 DEF Means, new

\* A store without a name of the source keeps the side of the lowering.
LEMMA LoweredHold ==
    ASSUME NEW u, NEW w, NEW param, NEW base, NEW map, NEW logs, NEW tm,
           Lowered(u, param, base, map, logs, tm), IsSeq(u),
           NEW k \in Nat, NEW b, NEW n, n \notin UserName, Fresh(k, n, u, w)
    PROVE  Lowered(u, param, base, map, logs, With(tm, k, b))
  <1> DEFINE new == With(tm, k, b)
  <1>1. ASSUME NEW i \in 1..Len(base)
        PROVE  DOMAIN u[i] = DOMAIN base[i] \cap UserName /\ Means(u[i], base[i], param, new)
    <2>1. DOMAIN u[i] = DOMAIN base[i] \cap UserName /\ Means(u[i], base[i], param, tm)
      BY DEF Lowered
    <2>2. i \in DOMAIN u
      BY SeqFacts DEF Lowered
    <2>3. \A m \in DOMAIN u[i] : u[i][m] # k
      BY <2>1, <2>2 DEF Fresh
    <2> QED  BY <2>1, <2>3, MeansKept
  <1> HIDE DEF new
  <1> QED  BY <1>1 DEF Lowered, new

\* A store keeps the side of the checker.
LEMMA CheckedHold ==
    ASSUME NEW u, NEW w, NEW param, NEW scopes, NEW tm, Checked(w, param, scopes, tm), IsSeq(w),
           NEW k \in Nat, NEW b, NEW n, Fresh(k, n, u, w)
    PROVE  Checked(w, param, scopes, With(tm, k, b))
  <1> DEFINE new == With(tm, k, b)
  <1>1. ASSUME NEW j \in 1..Len(w)
        PROVE  DOMAIN scopes[j] = DOMAIN w[j] /\ Means(w[j], scopes[j], param, new)
    <2>1. DOMAIN scopes[j] = DOMAIN w[j] /\ Means(w[j], scopes[j], param, tm)
      BY DEF Checked
    <2>2. j \in DOMAIN w
      BY SeqFacts
    <2>3. \A m \in DOMAIN w[j] : w[j][m] # k
      BY <2>2 DEF Fresh
    <2> QED  BY <2>1, <2>3, MeansKept
  <1> HIDE DEF new
  <1> QED  BY <1>1 DEF Checked, new

\* alloc_local.
LEMMA LoweredStore ==
    ASSUME NEW u, NEW w, NEW param, NEW base, NEW map, NEW logs, NEW tm,
           Lowered(u, param, base, map, logs, tm), IsSeq(u), Len(u) >= 2,
           NEW k \in Nat, NEW n \in Name, NEW b \in Binding, Fresh(k, n, u, w),
           NEW prev, prev = IF n \in DOMAIN map THEN map[n] ELSE NoBinding
    PROVE  Lowered(IF n \in UserName THEN Bind(u, n, k) ELSE u, param,
                   Append(Front(base), With(map, n, b)), With(map, n, b),
                   Append(Front(logs), Append(Last(logs), [name |-> n, prev |-> prev])),
                   With(tm, k, b))
  <1> DEFINE l == Len(logs)
             entry == [name |-> n, prev |-> prev]
             log == Append(Last(logs), entry)
             all == Append(Front(logs), log)
             now == With(map, n, b)
             bases == Append(Front(base), now)
             v == IF n \in UserName THEN Bind(u, n, k) ELSE u
             new == With(tm, k, b)
  <1>1. /\ l \in Nat /\ l >= 1 /\ Len(base) = l + 1 /\ Len(u) = l + 1
        /\ IsSeq(base) /\ IsSeq(logs) /\ base \in Seq(LocalMap) /\ base[l + 1] = map
    <2>1. l \in Nat /\ Len(base) = l + 1 /\ Len(u) = l + 1 /\ IsSeq(base) /\ IsSeq(logs)
          /\ base \in Seq(LocalMap) /\ base[l + 1] = map
      BY SeqFacts DEF Lowered, IsSeq
    <2> QED  BY <2>1
  <1>2. logs # <<>> /\ base # <<>> /\ u # <<>>
    <2>1. Len(<<>>) = 0
      OBVIOUS
    <2> QED  BY <1>1, <2>1
  <1>3. l \in 1..l /\ l \in 1..(l + 1) /\ l + 1 \in 1..(l + 1)
    BY <1>1
  <1>4. /\ Last(logs) = logs[l] /\ IsSeq(logs[l]) /\ base[l] = Undone(map, logs[l])
    BY <1>1, <1>3 DEF Lowered, Last
  <1>5. map \in LocalMap
    BY <1>1, <1>3
  <1>6. now \in LocalMap /\ Undo(now, entry) = map
    BY <1>5, UndoWith
  <1>7. IsSeq(log) /\ Undone(now, log) = base[l]
    <2>1. IsSeq(log) /\ log = Append(logs[l], entry)
      BY <1>4, SeqFacts
    <2>2. Undone(now, Append(logs[l], entry)) = Undone(Undo(now, entry), logs[l])
      BY <1>4, UndoneAppend
    <2> QED  BY <2>1, <2>2, <1>4, <1>6
  <1>8. /\ IsSeq(all) /\ Len(all) = l /\ all[l] = log /\ \A i \in 1..(l - 1) : all[i] = logs[i]
    BY <1>1, <1>2, Replaced
  <1>9. /\ bases \in Seq(LocalMap) /\ Len(bases) = l + 1 /\ bases[l + 1] = now
        /\ \A i \in 1..l : bases[i] = base[i]
    <2>1. /\ Len(bases) = Len(base) /\ bases[Len(base)] = now
          /\ \A i \in 1..(Len(base) - 1) : bases[i] = base[i]
      BY <1>1, <1>2, Replaced
    <2>2. bases \in Seq(LocalMap)
      <3>1. Front(base) = SubSeq(base, 1, l)
        BY <1>1 DEF Front
      <3> HIDE DEF l, now
      <3>2. Front(base) \in Seq(LocalMap)
        BY <1>1, <3>1
      <3> QED  BY <1>6, <3>2
    <2>3. Len(base) - 1 = l
      BY <1>1
    <2> HIDE DEF bases, l, now
    <2> QED  BY <1>1, <2>1, <2>2, <2>3
  <1>10. /\ Len(v) = l + 1 /\ \A i \in 1..l : v[i] = u[i]
         /\ v[l + 1] = IF n \in UserName THEN With(u[l + 1], n, k) ELSE u[l + 1]
    <2>1. CASE n \notin UserName
      BY <2>1, <1>1
    <2>2. CASE n \in UserName
      <3> DEFINE t == Bind(u, n, k)
      <3>1. /\ Len(t) = Len(u) /\ t[Len(u)] = With(Last(u), n, k)
            /\ \A i \in 1..(Len(u) - 1) : t[i] = u[i]
        BY <1>2, Replaced DEF Bind
      <3>2. Len(u) - 1 = l /\ Last(u) = u[l + 1]
        BY <1>1 DEF Last
      <3>3. v = t
        BY <2>2
      <3> HIDE DEF t, v, l
      <3> QED  BY <1>1, <2>2, <3>1, <3>2, <3>3
    <2> QED  BY <2>1, <2>2
  <1>11. DOMAIN u = 1..(l + 1)
    BY <1>1, SeqFacts
  <1>12. \A i \in 1..(l + 1) : DOMAIN u[i] = DOMAIN base[i] \cap UserName
                                 /\ Means(u[i], base[i], param, tm)
    BY <1>1 DEF Lowered
  <1>13. /\ \A i \in 1..(l - 1) : IsSeq(logs[i]) /\ base[i] = Undone(base[i + 1], logs[i])
    BY <1>1 DEF Lowered
  <1> HIDE DEF l, log, all, bases, v, entry
  <1>14. \A i \in 1..Len(all) : IsSeq(all[i]) /\ bases[i] = Undone(bases[i + 1], all[i])
    <2> SUFFICES ASSUME NEW i \in 1..l PROVE IsSeq(all[i]) /\ bases[i] = Undone(bases[i + 1], all[i])
      BY <1>8
    <2>1. CASE i = l
      BY <2>1, <1>3, <1>7, <1>8, <1>9
    <2>2. CASE i # l
      <3>1. i \in 1..(l - 1) /\ i \in 1..l /\ i + 1 \in 1..l
        BY <2>2, <1>1
      <3> QED  BY <3>1, <1>8, <1>9, <1>13
    <2> QED  BY <2>1, <2>2
  <1>15. ASSUME NEW i \in 1..(l + 1)
         PROVE  DOMAIN v[i] = DOMAIN bases[i] \cap UserName /\ Means(v[i], bases[i], param, new)
    <2>1. CASE i # l + 1
      <3>1. i \in 1..l /\ v[i] = u[i] /\ bases[i] = base[i] /\ i \in DOMAIN u /\ i # Len(u)
        BY <2>1, <1>1, <1>9, <1>10, <1>11
      <3>2. \A m \in DOMAIN u[i] : u[i][m] # k
        BY <3>1 DEF Fresh
      <3> QED  BY <3>1, <3>2, <1>12, MeansKept
    <2>2. CASE i = l + 1
      <3> DEFINE keys == u[l + 1]
                 held == v[l + 1]
      <3>1. DOMAIN keys = DOMAIN map \cap UserName /\ Means(keys, map, param, tm)
        BY <1>1, <1>3, <1>12
      <3>2. \A m \in DOMAIN keys : keys[m] = k => m = n
        BY <1>3, <1>11 DEF Fresh
      <3>3. held = IF n \in UserName THEN With(keys, n, k) ELSE keys
        BY <1>10
      <3>4. bases[l + 1] = now
        BY <1>9
      <3> HIDE DEF keys, held
      <3>5. DOMAIN now = DOMAIN map \cup {n} /\ now[n] = b
            /\ \A m \in DOMAIN map : m # n => now[m] = map[m]
        BY DEF With
      <3>6. /\ DOMAIN new = DOMAIN tm \cup {k} /\ new[k] = b
            /\ \A x \in DOMAIN tm : x # k => new[x] = tm[x]
        BY DEF With
      <3> HIDE DEF now, new
      <3>7. k # Param
        BY DEF Param
      <3>8. \A m \in DOMAIN keys : m # n => /\ keys[m] \in DOMAIN new \cup {Param}
                                             /\ now[m] = Value(keys[m], param, new)
        BY <3>1, <3>2, <3>5, <3>6 DEF Means, Value
      <3>9. CASE n \in UserName
        <4>1. DOMAIN held = DOMAIN keys \cup {n} /\ held[n] = k
              /\ \A m \in DOMAIN keys : m # n => held[m] = keys[m]
          BY <3>3, <3>9 DEF With
        <4>2. DOMAIN held = DOMAIN now \cap UserName
          BY <3>1, <3>5, <3>9, <4>1
        <4>3. Means(held, now, param, new)
          <5>1. ASSUME NEW m \in DOMAIN held
                PROVE  held[m] \in DOMAIN new \cup {Param} /\ now[m] = Value(held[m], param, new)
            <6>1. CASE m = n
              BY <6>1, <3>5, <3>6, <3>7, <4>1 DEF Value
            <6>2. CASE m # n
              BY <6>2, <3>8, <4>1
            <6> QED  BY <6>1, <6>2
          <5> QED  BY <5>1 DEF Means
        <4> QED  BY <2>2, <3>4, <4>2, <4>3 DEF held
      <3>10. CASE n \notin UserName
        <4>1. held = keys
          BY <3>3, <3>10
        <4>2. DOMAIN held = DOMAIN now \cap UserName
          BY <3>1, <3>5, <3>10, <4>1
        <4>3. \A m \in DOMAIN keys : m # n
          BY <3>1, <3>10
        <4>4. Means(held, now, param, new)
          BY <3>8, <4>1, <4>3 DEF Means
        <4> QED  BY <2>2, <3>4, <4>2, <4>4 DEF held
      <3> QED  BY <3>9, <3>10
    <2> QED  BY <2>1, <2>2
  <1>16. Len(bases) = Len(all) + 1 /\ Len(v) = Len(bases) /\ bases[Len(bases)] = now
    BY <1>1, <1>8, <1>9, <1>10
  <1> HIDE DEF now, new
  <1>17. Lowered(v, param, bases, now, all, new)
    BY <1>8, <1>9, <1>14, <1>15, <1>16 DEF Lowered
  <1> QED  BY <1>17 DEF v, bases, now, all, log, entry, new

\* TypeEnv::push_scope keeps the side of the checker.
LEMMA CheckedEnter ==
    ASSUME NEW w, IsSeq(w), NEW param, NEW scopes, NEW tm, Checked(w, param, scopes, tm)
    PROVE  Checked(Append(w, EmptyMap), param, Append(scopes, EmptyMap), tm)
  <1> DEFINE v == Append(w, EmptyMap)
             s == Append(scopes, EmptyMap)
             l == Len(w)
  <1>1. /\ IsSeq(s) /\ l \in Nat /\ Len(v) = l + 1 /\ Len(s) = l + 1
        /\ v[l + 1] = EmptyMap /\ s[l + 1] = EmptyMap
        /\ \A j \in 1..l : v[j] = w[j] /\ s[j] = scopes[j]
    BY SeqFacts DEF Checked
  <1>2. \A j \in 1..l : DOMAIN scopes[j] = DOMAIN w[j] /\ Means(w[j], scopes[j], param, tm)
    BY DEF Checked
  <1>3. Means(EmptyMap, EmptyMap, param, tm)
    BY EmptyMapFacts DEF Means
  <1> HIDE DEF v, s, l
  <1>4. ASSUME NEW j \in 1..Len(v)
        PROVE  DOMAIN s[j] = DOMAIN v[j] /\ Means(v[j], s[j], param, tm)
    <2>1. CASE j = l + 1
      BY <2>1, <1>1, <1>3
    <2>2. CASE j # l + 1
      <3>1. j \in 1..l
        BY <2>2, <1>1
      <3> QED  BY <3>1, <1>1, <1>2
    <2> QED  BY <2>1, <2>2
  <1>5. Len(s) = Len(v)
    BY <1>1
  <1> QED  BY <1>1, <1>4, <1>5 DEF Checked, v, s

\* TypeEnv::pop_scope keeps it.
LEMMA CheckedLeave ==
    ASSUME NEW w, IsSeq(w), w # <<>>, NEW param, NEW scopes, NEW tm, Checked(w, param, scopes, tm)
    PROVE  Checked(Front(w), param, Front(scopes), tm)
  <1> DEFINE v == Front(w)
             s == Front(scopes)
             l == Len(w)
  <1>1. l \in Nat /\ l >= 1 /\ Len(scopes) = l /\ IsSeq(scopes)
    BY SeqFacts DEF Checked
  <1>2. scopes # <<>>
    <2>1. Len(<<>>) = 0
      OBVIOUS
    <2> QED  BY <1>1, <2>1
  <1>3. Len(v) = l - 1 /\ \A j \in 1..(l - 1) : v[j] = w[j]
    BY SeqFacts
  <1>4. IsSeq(s) /\ Len(s) = Len(scopes) - 1 /\ \A j \in 1..(Len(scopes) - 1) : s[j] = scopes[j]
    BY <1>1, <1>2, SeqFacts
  <1> HIDE DEF v, s
  <1>5. ASSUME NEW j \in 1..Len(v)
        PROVE  DOMAIN s[j] = DOMAIN v[j] /\ Means(v[j], s[j], param, tm)
    <2>1. j \in 1..Len(w) /\ v[j] = w[j] /\ s[j] = scopes[j]
      BY <1>1, <1>3, <1>4
    <2> QED  BY <2>1 DEF Checked
  <1> HIDE DEF l
  <1>6. Len(s) = Len(v)
    BY <1>1, <1>3, <1>4
  <1> QED  BY <1>4, <1>5, <1>6 DEF Checked, v, s

\* TypeEnv::define, with the slot the lowering has for the name.
LEMMA CheckedDefine ==
    ASSUME NEW w, IsSeq(w), w # <<>>, NEW param, NEW scopes, NEW tm, Checked(w, param, scopes, tm),
           NEW n, NEW k \in Nat, k \in DOMAIN tm
    PROVE  Checked(Bind(w, n, k), param, Append(Front(scopes), With(Last(scopes), n, tm[k])), tm)
  <1> DEFINE v == Bind(w, n, k)
             last == With(Last(scopes), n, tm[k])
             s == Append(Front(scopes), last)
             l == Len(w)
  <1>1. l \in Nat /\ l >= 1 /\ Len(scopes) = l /\ IsSeq(scopes)
    BY SeqFacts DEF Checked
  <1>2. scopes # <<>>
    <2>1. Len(<<>>) = 0
      OBVIOUS
    <2> QED  BY <1>1, <2>1
  <1>3. Len(v) = l /\ v[l] = With(Last(w), n, k) /\ \A j \in 1..(l - 1) : v[j] = w[j]
    BY Replaced DEF Bind
  <1>4. /\ IsSeq(s) /\ Len(s) = Len(scopes) /\ s[Len(scopes)] = last
        /\ \A j \in 1..(Len(scopes) - 1) : s[j] = scopes[j]
    BY <1>1, <1>2, Replaced
  <1> DEFINE x == w[l]
             y == scopes[l]
  <1>5. Last(w) = x /\ Last(scopes) = y /\ DOMAIN y = DOMAIN x /\ Means(x, y, param, tm)
    <2>1. l \in 1..l
      BY <1>1
    <2> QED  BY <2>1, <1>1 DEF Last, Checked
  <1> HIDE DEF x, y
  <1>6. /\ DOMAIN v[l] = DOMAIN x \cup {n} /\ v[l][n] = k
        /\ \A m \in DOMAIN x : m # n => v[l][m] = x[m]
    BY <1>3, <1>5 DEF With
  <1>7. /\ DOMAIN last = DOMAIN y \cup {n} /\ last[n] = tm[k]
        /\ \A m \in DOMAIN y : m # n => last[m] = y[m]
    BY <1>5 DEF With
  <1> HIDE DEF v, s, last
  <1>8. k # Param
    BY DEF Param
  <1>9. \A m \in DOMAIN v[l] : v[l][m] \in DOMAIN tm \cup {Param} /\ last[m] = Value(v[l][m], param, tm)
    <2> SUFFICES ASSUME NEW m \in DOMAIN v[l]
                 PROVE  v[l][m] \in DOMAIN tm \cup {Param} /\ last[m] = Value(v[l][m], param, tm)
      OBVIOUS
    <2>1. CASE m = n
      BY <2>1, <1>6, <1>7, <1>8 DEF Value
    <2>2. CASE m # n
      BY <2>2, <1>5, <1>6, <1>7 DEF Means
    <2> QED  BY <2>1, <2>2
  <1>10. ASSUME NEW j \in 1..Len(v)
         PROVE  DOMAIN s[j] = DOMAIN v[j] /\ Means(v[j], s[j], param, tm)
    <2>1. CASE j = l
      <3>1. s[j] = last
        BY <2>1, <1>1, <1>4
      <3> QED  BY <2>1, <3>1, <1>5, <1>6, <1>7, <1>9 DEF Means
    <2>2. CASE j # l
      <3>1. j \in 1..Len(w) /\ v[j] = w[j] /\ s[j] = scopes[j]
        BY <2>2, <1>1, <1>3, <1>4
      <3> QED  BY <3>1 DEF Checked
    <2> QED  BY <2>1, <2>2
  <1>11. Len(s) = Len(v)
    BY <1>1, <1>3, <1>4
  <1> QED  BY <1>4, <1>10, <1>11 DEF Checked, v, s, last

-----------------------------------------------------------------------------
(* The inductive invariant                                                 *)

\* The scopes of both sides are what the steps ahead were lowered for, and
\* these end where the body began.
Follows(u, w, z, param, base) ==
    /\ Seg(todo, <<u, w>>, z, next_label) /\ Len(z[1]) = 1 /\ Len(z[2]) = 1
    /\ Lowered(u, param, base, locals, scope_stack, temps)
    /\ Checked(w, param, env, temps)

ScopeInv ==
    /\ next_label \in Nat /\ next_slot \in Nat
    /\ \E u, w, z, param, base : Follows(u, w, z, param, base)

\* The innermost of the scopes that declare a name is there.
LEMMA Greatest ==
    ASSUME NEW T, NEW l \in Nat, T \subseteq 1..l, T # {}
    PROVE  Max(T) \in T /\ \A y \in T : y <= Max(T)
  <1> DEFINE D == {l - y : y \in T}
  <1>1. D \subseteq Nat /\ D # {}
    <2>1. PICK t \in T : TRUE
      OBVIOUS
    <2>2. l - t \in D
      OBVIOUS
    <2>3. ASSUME NEW y \in T PROVE l - y \in Nat
      <3>1. y \in 1..l
        OBVIOUS
      <3> QED  BY <3>1
    <2>4. D \subseteq Nat
      BY <2>3
    <2> QED  BY <2>2, <2>4
  <1>2. PICK d \in D : \A x \in D : d <= x
    <2> HIDE DEF D
    <2> QED  BY <1>1, Least
  <1>3. PICK m \in T : d = l - m
    OBVIOUS
  <1>4. \A y \in T : m >= y
    <2> SUFFICES ASSUME NEW y \in T PROVE m >= y
      OBVIOUS
    <2>1. l - y \in D
      OBVIOUS
    <2>2. l - m <= l - y
      BY <1>2, <1>3, <2>1
    <2>3. m \in Int /\ y \in Int
      OBVIOUS
    <2> QED  BY <2>2, <2>3
  <1> DEFINE P(x) == x \in T /\ \A y \in T : x >= y
  <1>5. P(m)
    BY <1>4
  <1>6. Max(T) = CHOOSE x \in T : \A y \in T : x >= y
    BY DEF Max
  <1>7. Max(T) \in T /\ \A y \in T : Max(T) >= y
    BY <1>4, <1>6
  <1> QED  BY <1>7

\* What a name means to the checker is what it means to the lowering.
LEMMA NameMeans ==
    ASSUME NEW N \in Nat, NEW u, NEW w \in Seq(Map(N)), NEW param, NEW base, Ready(u, w),
           Lowered(u, param, base, locals, scope_stack, temps), Checked(w, param, env, temps),
           NEW n \in Visible
    PROVE  /\ n \in DOMAIN Last(u) /\ n \in DOMAIN locals /\ locals[n] = Lookup(n)
           /\ Means(Last(u), locals, param, temps)
  <1> DEFINE T == {j \in DOMAIN env : n \in DOMAIN env[j]}
             m == Max(T)
             l == Len(w)
  <1>4. IsSeq(w) /\ l \in Nat /\ DOMAIN w = 1..l /\ DOMAIN env = 1..l
        /\ \A j \in 1..l : DOMAIN env[j] = DOMAIN w[j] /\ Means(w[j], env[j], param, temps)
    <2>1. IsSeq(w) /\ IsSeq(env) /\ Len(env) = Len(w)
      BY DEF Checked, IsSeq
    <2> QED  BY <2>1, SeqFacts DEF Checked
  <1>5. T # {} /\ T \subseteq 1..l
    BY <1>4 DEF Visible
  <1> HIDE DEF l
  <1>6. m \in T /\ \A j \in T : j <= m
    <2> HIDE DEF T
    <2> QED  BY <1>4, <1>5, Greatest
  <1>7. m \in 1..l /\ n \in DOMAIN w[m] /\ \A q \in (m + 1)..l : n \notin DOMAIN w[q]
    <2> HIDE DEF m
    <2>1. m \in 1..l /\ n \in DOMAIN w[m]
      BY <1>4, <1>6
    <2>2. ASSUME NEW q \in (m + 1)..l PROVE n \notin DOMAIN w[q]
      <3>1. q \in 1..l /\ q \notin T
        BY <1>4, <1>6, <2>1
      <3> QED  BY <1>4, <3>1
    <2> QED  BY <2>1, <2>2
  <1> HIDE DEF m
  <1>8. n \in DOMAIN Last(u) /\ Last(u)[n] = w[m][n]
    BY <1>4, <1>7 DEF Ready, Sync, l
  <1>9. env[m][n] = Value(w[m][n], param, temps)
    BY <1>4, <1>7 DEF Means
  <1>10. /\ DOMAIN Last(u) = DOMAIN locals \cap UserName
         /\ Means(Last(u), locals, param, temps)
    <2>1. Len(base) \in 1..Len(base) /\ Len(u) = Len(base) /\ base[Len(base)] = locals
      BY SeqFacts DEF Lowered
    <2>2. /\ DOMAIN u[Len(base)] = DOMAIN base[Len(base)] \cap UserName
          /\ Means(u[Len(base)], base[Len(base)], param, temps)
      BY <2>1 DEF Lowered
    <2> QED  BY <2>1, <2>2 DEF Last
  <1>11. n \in DOMAIN locals /\ locals[n] = env[m][n]
    BY <1>8, <1>9, <1>10 DEF Means
  <1>12. Lookup(n) = env[m][n]
    BY DEF Lookup, m
  <1> QED  BY <1>8, <1>10, <1>11, <1>12

\* So that they resolve names alike.
LEMMA NamesFollow == ScopeInv => NamesResolve
  <1> SUFFICES ASSUME ScopeInv, Is("expr"), NEW n \in Visible
               PROVE  n \in DOMAIN locals /\ locals[n] = Lookup(n)
    BY DEF NamesResolve
  <1>1. PICK u, w, z, param, base : Follows(u, w, z, param, base)
    BY DEF ScopeInv
  <1>2. next_label \in Nat /\ todo # <<>> /\ Step = Head(todo) /\ Step.do = "expr"
    BY DEF ScopeInv, Is, Step
  <1>3. Ready(u, w)
    <2>1. PICK b : Rel(Head(todo), <<u, w>>, b)
      BY <1>1, <1>2, SegHead DEF Follows
    <2> QED  BY <1>2, <2>1 DEF Rel
  <1>4. w \in Seq(Map(next_label))
    BY <1>1, <1>2, SegTyped, StateParts DEF Follows
  <1> QED  BY <1>1, <1>2, <1>3, <1>4, NameMeans DEF Follows

\* The end of the body is the end of its scopes.
LEMMA ScopesFollow == ScopeInv => (todo = <<>> => scope_stack = <<>> /\ Len(env) = 1)
  <1> SUFFICES ASSUME ScopeInv, todo = <<>> PROVE scope_stack = <<>> /\ Len(env) = 1
    OBVIOUS
  <1>1. PICK u, w, z, param, base : Follows(u, w, z, param, base)
    BY DEF ScopeInv
  <1>2. z = <<u, w>>
    <2>1. Seg(<<>>, <<u, w>>, z, next_label) /\ <<u, w>> \in States(next_label) /\ next_label \in Nat
      BY <1>1, SegTyped DEF Follows, ScopeInv
    <2> QED  BY <2>1, SegEmpty
  <1>3. Len(u) = 1 /\ Len(w) = 1
    BY <1>1, <1>2 DEF Follows
  <1>4. IsSeq(scope_stack) /\ Len(scope_stack) = 0
    <2>1. IsSeq(scope_stack) /\ Len(scope_stack) \in Nat /\ Len(scope_stack) + 1 = 1
      BY <1>1, <1>3, SeqFacts DEF Follows, Lowered
    <2> QED  BY <2>1
  <1>5. scope_stack = <<>>
    <2>1. PICK S : scope_stack \in Seq(S)
      BY <1>4 DEF IsSeq
    <2> QED  BY <1>4, <2>1
  <1> QED  BY <1>1, <1>3, <1>5 DEF Follows, Checked

-----------------------------------------------------------------------------
(* The first scope                                                         *)

\* The outermost scope, whose names are those of the parameters.
LEMMA FirstScope ==
    ASSUME NEW N \in Nat, NEW v \in Seq(Map(N)), Len(v) = 1, NEW ty, NEW in, NEW next
    PROVE  Seg(Body(ty, in, next), <<v, v>>, <<v, v>>, N)
  <1>2. Pushed(v) \in Seq(Map(N)) /\ Len(Pushed(v)) = 2 /\ Front(Pushed(v)) = v
    BY Scopes DEF Pushed
  <1>3. Entered(v) \in Seq(Map(N)) /\ Len(Entered(v)) = 2 /\ Front(Entered(v)) = v
    <2>1. Entered(v) \in Seq(Map(N)) /\ Len(Entered(v)) = Len(v) + 1 /\ Front(Entered(v)) = v
      BY Opened DEF Entered
    <2> QED  BY <2>1
  <1>4. Ready(Pushed(v), Entered(v))
    <2>1. Sync(v, v)
      BY DEF Sync, Last
    <2>2. Sync(Pushed(v), v)
      BY <2>1, SyncOpened DEF Pushed
    <2>3. PICK p : p = Pushed(v)
      OBVIOUS
    <2>4. p \in Seq(Map(N)) /\ Len(p) >= 1 /\ Sync(p, v)
      BY <2>2, <2>3, <1>2
    <2>5. Sync(p, Append(v, EmptyMap))
      BY <2>4, SyncOpened
    <2>6. Sync(Pushed(v), Entered(v))
      BY <2>3, <2>5 DEF Entered
    <2> QED  BY <1>2, <1>3, <2>6 DEF Ready
  <1> DEFINE x == <<v, v>>
             y == <<Pushed(v), v>>
             c == <<Pushed(v), Entered(v)>>
             f == <<x, y, c, x>>
             s == Stmts(ty, in, next)
             steps == <<PushScope, Enter, s>>
  <1>5. x \in States(N) /\ y \in States(N) /\ c \in States(N)
    BY <1>2, <1>3, StateParts
  <1>6. Rel(PushScope, x, y) /\ Rel(Enter, y, c)
    <2>1. Len(v) >= 1
      OBVIOUS
    <2>2. Rel(PushScope, x, y)
      BY <2>1, StepRel
    <2>3. Rel(Enter, y, c)
      BY StepRel
    <2> QED  BY <2>2, <2>3
  <1>7. Rel(s, c, x)
    <2>1. s.do = "stmts"
      BY DEF Stmts
    <2> HIDE DEF s
    <2> QED  BY <2>1, <1>2, <1>3, <1>4 DEF Rel, Loud
  <1>9. IsSeq(steps) /\ Len(steps) = 3
    BY Tuples
  <1> HIDE DEF x, y, c, s
  <1>11. f[1] = x /\ f[3 + 1] = x /\ \A i \in 1..(3 + 1) : f[i] \in States(N)
    BY <1>5
  <1>12. \A i \in 1..3 : Rel(steps[i], f[i], f[i + 1])
    BY <1>6, <1>7
  <1> HIDE DEF f, steps
  <1>13. Seg(steps, x, x, N)
    BY <1>9, <1>11, <1>12, SegBy
  <1> QED  BY <1>13 DEF x, steps, s, Body

\* A function begins with its parameters in one scope of both.
Starts(v, param) ==
    /\ v \in Seq(Map(0)) /\ Len(v) = 1 /\ param \in Binding
    /\ Seg(todo, <<v, v>>, <<v, v>>, 0)
    /\ Lowered(v, param, <<locals>>, locals, scope_stack, temps)
    /\ Checked(v, param, env, temps)

LEMMA FirstScopes ==
    ASSUME Init
    PROVE  next_label = 0 /\ next_slot \in Nat /\ \E v, param : Starts(v, param)
  <1>1. next_label = 0 /\ next_slot \in Nat
    <2>1. \A ty : slot_count(ty) \in Nat
      BY DEF slot_count
    <2> QED  BY <2>1 DEF Init
  <1>2. \E param : /\ \A n \in DOMAIN locals : locals[n] = param
                   /\ DOMAIN locals \subseteq UserName /\ locals \in LocalMap /\ param \in Binding
    <2>1. CASE locals = EmptyMap
      <3>1. [slot |-> 0, ty |-> "Int"] \in Binding
        BY DEF Binding, Slot, Val
      <3> QED  BY <2>1, <3>1, EmptyMapFacts DEF LocalMap, EmptyMap
    <2>2. CASE locals # EmptyMap
      <3>1. PICK n \in UserName, t \in Val : locals = With(EmptyMap, n, [slot |-> 0, ty |-> t])
        BY <2>2 DEF Init
      <3>3. PICK p : p = [slot |-> 0, ty |-> t]
        OBVIOUS
      <3>4. locals = With(EmptyMap, n, p)
        BY <3>1, <3>3
      <3>5. p \in Binding
        BY <3>3 DEF Binding, Slot
      <3>6. locals = [i \in {n} |-> p]
        BY <3>4 DEF With, EmptyMap
      <3>7. {n} \in SUBSET Name /\ locals \in [{n} -> Binding]
        BY <3>5, <3>6 DEF Name
      <3> QED  BY <3>5, <3>6, <3>7 DEF LocalMap
    <2> QED  BY <2>1, <2>2
  <1>3. PICK param : /\ \A n \in DOMAIN locals : locals[n] = param
                     /\ DOMAIN locals \subseteq UserName /\ locals \in LocalMap /\ param \in Binding
    BY <1>2
  <1>4. PICK k : k = [n \in DOMAIN locals |-> Param]
    OBVIOUS
  <1>5. PICK N \in Nat : N = 0
    OBVIOUS
  <1>6. k \in Map(N)
    <2>1. k \in [DOMAIN locals -> Param..(N - 1)]
      BY <1>4, <1>5 DEF Param
    <2> QED  BY <1>3, <2>1 DEF Map
  <1>7. PICK v : v = <<k>>
    OBVIOUS
  <1>8. v \in Seq(Map(N)) /\ Len(v) = 1 /\ v[1] = k
    BY <1>6, <1>7
  <1>9. Seg(todo, <<v, v>>, <<v, v>>, N)
    <2>1. <<v, v>> \in States(N)
      BY <1>8, StateParts
    <2>2. Rel(Do("finish"), <<v, v>>, <<v, v>>)
      BY StepRel DEF Do, Loud
    <2>3. Seg(Body(return_ty, {}, "exit"), <<v, v>>, <<v, v>>, N)
      BY <1>8, FirstScope
    <2>4. todo = Append(Body(return_ty, {}, "exit"), Do("finish"))
      BY DEF Init
    <2> QED  BY <2>1, <2>2, <2>3, <2>4, SegAppend
  <1>10. DOMAIN k = DOMAIN locals \cap UserName /\ Means(k, locals, param, temps)
    BY <1>3, <1>4 DEF Means, Value
  <1>11. Lowered(v, param, <<locals>>, locals, scope_stack, temps)
    <2>1. scope_stack = <<>> /\ IsSeq(<<>>)
      BY Tuples DEF Init
    <2> QED  BY <1>3, <1>8, <1>10, <2>1 DEF Lowered
  <1>12. Checked(v, param, env, temps)
    <2>1. env = <<locals>> /\ IsSeq(<<locals>>)
      BY Tuples DEF Init
    <2>2. DOMAIN k = DOMAIN locals
      BY <1>4
    <2>3. Len(<<locals>>) = 1 /\ <<locals>>[1] = locals
      OBVIOUS
    <2> QED  BY <1>8, <1>10, <2>1, <2>2, <2>3 DEF Checked
  <1>13. v \in Seq(Map(0)) /\ Seg(todo, <<v, v>>, <<v, v>>, 0)
    BY <1>5, <1>8, <1>9
  <1>14. Starts(v, param)
    BY <1>3, <1>8, <1>11, <1>12, <1>13 DEF Starts
  <1> QED  BY <1>1, <1>14

LEMMA InitScopes == Init => ScopeInv
  <1> SUFFICES ASSUME Init PROVE ScopeInv
    OBVIOUS
  <1>1. PICK v, param : Starts(v, param)
    BY FirstScopes
  <1>2. next_label = 0 /\ next_slot \in Nat
    BY FirstScopes
  <1>3. Follows(v, v, <<v, v>>, param, <<locals>>)
    BY <1>1, <1>2 DEF Follows, Starts
  <1> QED  BY <1>2, <1>3 DEF ScopeInv

-----------------------------------------------------------------------------
(* The path after a step                                                   *)

\* The invariant after a step, from the path that replaces it.
LEMMA Advance ==
    ASSUME NEW N \in Nat, next_label \in Nat, next_label' = N, next_label <= N, next_slot' \in Nat,
           NEW steps, Then(steps), NEW x, NEW y, NEW b, NEW z, NEW param, NEW base,
           Seg(steps, <<x, y>>, b, N), Seg(Tail(todo), b, z, next_label),
           Len(z[1]) = 1, Len(z[2]) = 1,
           Lowered(x, param, base, locals', scope_stack', temps'),
           Checked(y, param, env', temps')
    PROVE  ScopeInv'
  <1>1. Seg(Tail(todo), b, z, N)
    BY SegGrow
  <1>2. Seg(todo', <<x, y>>, z, N)
    BY <1>1, SegConcat DEF Then
  <1>3. Follows(x, y, z, param, base)'
    BY <1>2 DEF Follows
  <1> QED  BY <1>3 DEF ScopeInv

\* A step that is done.
LEMMA AdvanceOne ==
    ASSUME next_label \in Nat, next_label' = next_label, next_slot' \in Nat,
           Then(<<>>), NEW x, NEW y, NEW z, NEW param, NEW base,
           Seg(Tail(todo), <<x, y>>, z, next_label), Len(z[1]) = 1, Len(z[2]) = 1,
           Lowered(x, param, base, locals', scope_stack', temps'),
           Checked(y, param, env', temps')
    PROVE  ScopeInv'
  <1>1. <<x, y>> \in States(next_label)
    BY SegTyped
  <1>2. Seg(<<>>, <<x, y>>, <<x, y>>, next_label)
    BY <1>1, SegEmpty
  <1> QED  BY <1>2, Advance

\* The next step and the scopes it is taken in.
LEMMA NextStep ==
    ASSUME ScopeInv, todo # <<>>
    PROVE  /\ next_label \in Nat /\ next_slot \in Nat
           /\ \E u, w, z, param, base, b :
                 /\ Len(z[1]) = 1 /\ Len(z[2]) = 1
                 /\ Lowered(u, param, base, locals, scope_stack, temps)
                 /\ Checked(w, param, env, temps)
                 /\ <<u, w>> \in States(next_label)
                 /\ Rel(Step, <<u, w>>, b) /\ Seg(Tail(todo), b, z, next_label)
  <1>1. PICK u, w, z, param, base : Follows(u, w, z, param, base)
    BY DEF ScopeInv
  <1>2. next_label \in Nat /\ next_slot \in Nat
    BY DEF ScopeInv
  <1>3. <<u, w>> \in States(next_label)
    BY <1>1, <1>2, SegTyped DEF Follows
  <1>4. PICK b : Rel(Step, <<u, w>>, b) /\ Seg(Tail(todo), b, z, next_label)
    BY <1>1, <1>2, SegHead DEF Follows, Step
  <1> QED  BY <1>1, <1>2, <1>3, <1>4 DEF Follows

-----------------------------------------------------------------------------
(* Steps                                                                   *)

\* Steps that do not touch the scopes: the instructions, and those of loops.
LEMMA QuietStep ==
    ASSUME ScopeInv, todo # <<>>, Step.do \notin Loud, NEW steps, Then(steps),
           IsSeq(steps), \A i \in DOMAIN steps : steps[i].do \notin Loud,
           UNCHANGED <<locals, next_slot, next_label, scope_stack, temps, env>>
    PROVE  ScopeInv'
  <1>1. PICK u, w, z, param, base, b :
             /\ Len(z[1]) = 1 /\ Len(z[2]) = 1
             /\ Lowered(u, param, base, locals, scope_stack, temps)
             /\ Checked(w, param, env, temps)
             /\ <<u, w>> \in States(next_label)
             /\ Rel(Step, <<u, w>>, b) /\ Seg(Tail(todo), b, z, next_label)
    BY NextStep
  <1>2. next_label \in Nat /\ next_slot \in Nat
    BY NextStep
  <1>3. b = <<u, w>>
    BY <1>1 DEF Rel
  <1>4. \A i \in DOMAIN steps : Rel(steps[i], <<u, w>>, <<u, w>>)
    BY StepRel
  <1>5. Seg(steps, <<u, w>>, <<u, w>>, next_label)
    BY <1>1, <1>2, <1>4, SegSteps
  <1>6. PICK N \in Nat : N = next_label
    BY <1>2
  <1>7. /\ Lowered(u, param, base, locals', scope_stack', temps')
        /\ Checked(w, param, env', temps')
        /\ next_label' = N /\ next_label <= N /\ next_slot' \in Nat
    BY <1>1, <1>2, <1>6
  <1> QED  BY <1>1, <1>2, <1>3, <1>5, <1>6, <1>7, Advance

\* The same for one that leaves nothing to do.
LEMMA QuietDone ==
    ASSUME ScopeInv, todo # <<>>, Step.do \notin Loud, Then(<<>>),
           UNCHANGED <<locals, next_slot, next_label, scope_stack, temps, env>>
    PROVE  ScopeInv'
  <1>1. IsSeq(<<>>) /\ \A i \in DOMAIN <<>> : <<>>[i].do \notin Loud
    BY Tuples
  <1> QED  BY <1>1, QuietStep

\* Instructions, labels, snapshots and loop scopes keep the invariant.
LEMMA InstructionStep ==
    ASSUME ScopeInv,
           \/ LoopScope \/ Operate \/ Load \/ Assign \/ Jump \/ CondJump \/ ReturnOp
           \/ TakeSnapshot \/ PlaceLabel
    PROVE  ScopeInv'
  <1>1. CASE LoopScope
    BY <1>1, QuietDone DEF LoopScope, Is, Loud
  <1>2. CASE Operate
    BY <1>2, QuietDone DEF Operate, Is, Loud
  <1>3. CASE Load
    BY <1>3, QuietDone DEF Load, Is, Loud
  <1>4. CASE Assign
    BY <1>4, QuietDone DEF Assign, Is, Loud
  <1>5. CASE Jump
    BY <1>5, QuietDone DEF Jump, Is, Loud
  <1>6. CASE CondJump
    BY <1>6, QuietDone DEF CondJump, Is, Loud
  <1>7. CASE ReturnOp
    BY <1>7, QuietDone DEF ReturnOp, Is, Loud
  <1>8. CASE TakeSnapshot
    BY <1>8, QuietDone DEF TakeSnapshot, Is, Loud
  <1>9. CASE PlaceLabel
    BY <1>9, QuietDone DEF PlaceLabel, Is, Loud
  <1> QED  BY <1>1, <1>2, <1>3, <1>4, <1>5, <1>6, <1>7, <1>8, <1>9

\* The return at the end keeps the invariant.
LEMMA FinishStep == ScopeInv /\ Finish => ScopeInv'
  <1> SUFFICES ASSUME ScopeInv, Finish PROVE ScopeInv'
    OBVIOUS
  <1>1. todo # <<>> /\ Step.do \notin Loud
        /\ UNCHANGED <<locals, next_slot, next_label, scope_stack, temps, env>>
    BY DEF Finish, Is, Loud
  <1>2. Then(<<>>) \/ Then(<<Return(return_ty)>>)
    BY DEF Finish
  <1>3. CASE Then(<<>>)
    BY <1>1, <1>3, QuietDone
  <1>4. CASE Then(<<Return(return_ty)>>)
    <2> DEFINE steps == <<Return(return_ty)>>
    <2>1. IsSeq(steps)
      BY Tuples
    <2>2. \A i \in DOMAIN steps : steps[i].do \notin Loud
      BY DEF Return, Loud
    <2>3. Then(steps)
      BY <1>4
    <2> HIDE DEF steps
    <2> QED  BY <1>1, <2>1, <2>2, <2>3, QuietStep
  <1> QED  BY <1>2, <1>3, <1>4

\* A form for an expression, whose steps leave the scopes as they found them.
LEMMA ExpandStep ==
    ASSUME ScopeInv, todo # <<>>, Step.do \in {"expr", "else"}, NEW steps, Then(steps),
           NEW M \in Nat, next_label <= M, next_label' = M,
           UNCHANGED <<locals, next_slot, scope_stack, temps, env>>,
           \A u, w : <<u, w>> \in States(next_label) /\ Ready(u, w)
                       => Seg(steps, <<u, w>>, <<u, w>>, M)
    PROVE  ScopeInv'
  <1>1. PICK u, w, z, param, base, b :
             /\ Len(z[1]) = 1 /\ Len(z[2]) = 1
             /\ Lowered(u, param, base, locals, scope_stack, temps)
             /\ Checked(w, param, env, temps)
             /\ <<u, w>> \in States(next_label)
             /\ Rel(Step, <<u, w>>, b) /\ Seg(Tail(todo), b, z, next_label)
    BY NextStep
  <1>2. next_label \in Nat /\ next_slot \in Nat
    BY NextStep
  <1>3. b = <<u, w>> /\ Ready(u, w)
    BY <1>1 DEF Rel
  <1>4. Seg(steps, <<u, w>>, <<u, w>>, M)
    BY <1>1, <1>3
  <1>5. /\ Lowered(u, param, base, locals', scope_stack', temps')
        /\ Checked(w, param, env', temps') /\ next_slot' \in Nat
    BY <1>1, <1>2
  <1> QED  BY <1>1, <1>2, <1>3, <1>4, <1>5, Advance

\* lower_expr and the else of an if keep the invariant, whatever the form.
LEMMA ExprStep ==
    ASSUME "unnamedSlot" \in Avoid, ScopeInv, LowerExpr \/ LowerElse
    PROVE  ScopeInv'
  <1>1. todo # <<>> /\ Step.do \in {"expr", "else"}
        /\ UNCHANGED <<locals, next_slot, scope_stack, temps, env>>
    BY DEF LowerExpr, LowerElse, Is
  <1>2. next_label \in Nat
    BY NextStep, <1>1
  <1>3. ASSUME NEW steps \in Atoms(Step) \cup Diverging(Step), Then(steps), next_label' = next_label
        PROVE  ScopeInv'
    <2>1. QuietSteps(steps, next_label)
      BY PlainForms
    <2>2. \A u, w : <<u, w>> \in States(next_label) /\ Ready(u, w)
                      => Seg(steps, <<u, w>>, <<u, w>>, next_label)
      BY <1>2, <2>1, SegQuiet
    <2> QED  BY <1>1, <1>2, <1>3, <2>2, ExpandStep
  <1>4. ASSUME Then(Body(Step.ty, Step.in, "label")), next_label' = next_label
        PROVE  ScopeInv'
    <2> DEFINE steps == Body(Step.ty, Step.in, "label")
    <2>1. \A u, w : <<u, w>> \in States(next_label) /\ Ready(u, w)
                      => Seg(steps, <<u, w>>, <<u, w>>, next_label)
      BY <1>2, BodySeg
    <2>2. Then(steps)
      BY <1>4
    <2> HIDE DEF steps
    <2> QED  BY <1>1, <1>2, <1>4, <2>1, <2>2, ExpandStep
  <1>5. ASSUME NEW name, NEW steps \in Form(Step, next_label, name), Then(steps),
               next_label' = next_label + FormKeys
        PROVE  ScopeInv'
    <2>1. PICK M \in Nat : M = next_label + FormKeys
      BY <1>2 DEF FormKeys, PatternKeys
    <2>2. next_label <= M
      BY <1>2, <2>1 DEF FormKeys, PatternKeys
    <2>3. \A u, w : <<u, w>> \in States(next_label) /\ Ready(u, w)
                      => Seg(steps, <<u, w>>, <<u, w>>, M)
      BY <1>2, <2>1, FormSeg
    <2> QED  BY <1>1, <1>5, <2>1, <2>2, <2>3, ExpandStep
  <1>6. CASE LowerExpr
    <2>1. CASE \E steps \in Atoms(Step) \cup Diverging(Step) : Then(steps) /\ next_label' = next_label
      BY <1>3, <2>1
    <2>2. CASE \E name : \E steps \in Form(Step, next_label, name) :
                 Then(steps) /\ next_label' = next_label + FormKeys
      BY <1>5, <2>2
    <2> QED  BY <1>6, <2>1, <2>2 DEF LowerExpr, Choose
  <1>7. CASE LowerElse
    <2>1. CASE Then(Body(Step.ty, Step.in, "label")) /\ next_label' = next_label
      BY <1>4, <2>1
    <2>2. CASE \E name : \E steps \in Form(Step, next_label, name) :
                 Then(steps) /\ next_label' = next_label + FormKeys
      BY <1>5, <2>2
    <2> QED  BY <1>7, <2>1, <2>2 DEF LowerElse, Choose
  <1> QED  BY <1>6, <1>7

\* A statement leaves the innermost scopes with its own names bound; the end of
\* a block closes them.
LEMMA StatementStep ==
    ASSUME "letElse" \in Avoid, ScopeInv, LowerStmt
    PROVE  ScopeInv'
  <1>1. todo # <<>> /\ Step.do = "stmts"
        /\ UNCHANGED <<locals, next_slot, scope_stack, temps, env>>
    BY DEF LowerStmt, Is
  <1>2. PICK u, w, z, param, base, b :
             /\ Len(z[1]) = 1 /\ Len(z[2]) = 1
             /\ Lowered(u, param, base, locals, scope_stack, temps)
             /\ Checked(w, param, env, temps)
             /\ <<u, w>> \in States(next_label)
             /\ Rel(Step, <<u, w>>, b) /\ Seg(Tail(todo), b, z, next_label)
    BY <1>1, NextStep
  <1>3. next_label \in Nat /\ next_slot \in Nat
    BY <1>1, NextStep
  <1>4. b = <<Front(u), Front(w)>> /\ Ready(u, w)
    BY <1>1, <1>2 DEF Rel
  <1>5. /\ Lowered(u, param, base, locals', scope_stack', temps')
        /\ Checked(w, param, env', temps') /\ next_slot' \in Nat
    BY <1>1, <1>2, <1>3
  <1>6. ASSUME Then(<<E(Step.ty, Step.in, Step.next), Leave, PopScope>>), next_label' = next_label
        PROVE  ScopeInv'
    <2> DEFINE steps == <<E(Step.ty, Step.in, Step.next), Leave, PopScope>>
    <2>1. Seg(steps, <<u, w>>, b, next_label)
      BY <1>2, <1>3, <1>4, EndSeg
    <2>2. Then(steps)
      BY <1>6
    <2> HIDE DEF steps
    <2>3. PICK N \in Nat : N = next_label
      BY <1>3
    <2> QED  BY <1>2, <1>3, <1>5, <1>6, <2>1, <2>2, <2>3, Advance
  <1>7. ASSUME NEW name, NEW stmt \in lower_stmt(Step, next_label, name), Then(Append(stmt, Step)),
               next_label' = next_label + FormKeys
        PROVE  ScopeInv'
    <2>1. PICK M \in Nat : M = next_label + FormKeys
      BY <1>3 DEF FormKeys, PatternKeys
    <2>2. next_label <= M
      BY <1>3, <2>1 DEF FormKeys, PatternKeys
    <2>3. UNION {DOMAIN w[j] : j \in DOMAIN w} \subseteq Visible
      <3>1. w \in Seq(Map(next_label))
        BY <1>2, <1>3, StateParts
      <3>2. IsSeq(w) /\ IsSeq(env) /\ Len(env) = Len(w)
        BY <1>2, <3>1 DEF IsSeq, Checked
      <3>3. \A j \in DOMAIN w : j \in DOMAIN env /\ DOMAIN env[j] = DOMAIN w[j]
        BY <1>2, <3>2, SeqFacts DEF Checked
      <3> QED  BY <3>3 DEF Visible
    <2>4. Stated(stmt, u, w, M)
      BY <1>2, <1>3, <1>4, <2>1, <2>3, StmtSeg
    <2>5. PICK x, y : /\ Seg(stmt, <<u, w>>, <<x, y>>, M)
                      /\ Ready(x, y) /\ Front(x) = Front(u) /\ Front(y) = Front(w)
      BY <2>4 DEF Stated
    <2>6. Rel(Step, <<x, y>>, b)
      BY <1>1, <1>4, <2>5 DEF Rel, Loud
    <2>7. b \in States(M)
      <3>1. b \in States(next_label)
        BY <1>2, <1>3, SegTyped
      <3> QED  BY <1>3, <2>2, <3>1, StatesGrow
    <2>8. Seg(Append(stmt, Step), <<u, w>>, b, M)
      BY <2>5, <2>6, <2>7, SegAppend
    <2>9. next_label' = M
      BY <1>7, <2>1
    <2> QED  BY <1>2, <1>3, <1>5, <1>7, <2>2, <2>8, <2>9, Advance
  <1>8. CASE Then(<<E(Step.ty, Step.in, Step.next), Leave, PopScope>>) /\ next_label' = next_label
    BY <1>6, <1>8
  <1>9. CASE \E name : \E stmt \in lower_stmt(Step, next_label, name) :
               Then(Append(stmt, Step)) /\ next_label' = next_label + FormKeys
    BY <1>7, <1>9
  <1>10. ASSUME NEW name, NEW steps \in {Append(stmt, Step) :
                                           stmt \in lower_stmt(Step, next_label, name)}, Then(steps)
         PROVE  \E stmt \in lower_stmt(Step, next_label, name) : Then(Append(stmt, Step))
    <2>1. PICK stmt \in lower_stmt(Step, next_label, name) : steps = Append(stmt, Step)
      OBVIOUS
    <2> QED  BY <1>10, <2>1
  <1> QED  BY <1>8, <1>9, <1>10 DEF LowerStmt, Choose

\* What a step makes of the scopes is what its path says.
Moved(b, param) ==
    \E x, y, base : /\ b = <<x, y>>
                    /\ Lowered(x, param, base, locals', scope_stack', temps')
                    /\ Checked(y, param, env', temps')

\* A scope opened or closed by the lowering.
LEMMA ScopeMoves ==
    ASSUME next_label \in Nat, push_scope \/ pop_scope,
           NEW u, NEW w, NEW param, NEW base, NEW b, <<u, w>> \in States(next_label),
           Lowered(u, param, base, locals, scope_stack, temps), Checked(w, param, env, temps),
           Rel(Step, <<u, w>>, b)
    PROVE  Moved(b, param)
  <1>1. temps' = temps /\ Checked(w, param, env', temps')
    BY DEF push_scope, pop_scope
  <1>2. u \in Seq(Map(next_label))
    BY StateParts
  <1>3. CASE push_scope
    <2>1. Len(u) >= 1 /\ b = <<Append(u, Last(u)), w>>
      BY <1>3 DEF Rel, push_scope, Is, Loud
    <2>2. Lowered(Append(u, Last(u)), param, Append(base, locals), locals,
                  Append(scope_stack, <<>>), temps)
      BY <1>2, <2>1, LoweredPush
    <2>3. locals' = locals /\ scope_stack' = Append(scope_stack, <<>>)
      BY <1>3 DEF push_scope
    <2> QED  BY <1>1, <2>1, <2>2, <2>3 DEF Moved
  <1>4. CASE pop_scope
    <2>1. Len(u) >= 2 /\ b = <<Front(u), w>>
      BY <1>4 DEF Rel, pop_scope, Is, Loud
    <2>2. Lowered(Front(u), param, Front(base), Undone(locals, Last(scope_stack)),
                  Front(scope_stack), temps)
      BY <1>2, <2>1, LoweredPop
    <2>3. locals' = Undone(locals, Last(scope_stack)) /\ scope_stack' = Front(scope_stack)
      BY <1>4 DEF pop_scope
    <2> QED  BY <1>1, <2>1, <2>2, <2>3 DEF Moved
  <1> QED  BY <1>3, <1>4

\* A scope opened or closed by the checker, or a name declared in it: the
\* lowering has bound the name already.
LEMMA CheckerMoves ==
    ASSUME next_label \in Nat, CheckerScope,
           NEW u, NEW w, NEW param, NEW base, NEW b, <<u, w>> \in States(next_label),
           Lowered(u, param, base, locals, scope_stack, temps), Checked(w, param, env, temps),
           Rel(Step, <<u, w>>, b)
    PROVE  Moved(b, param)
  <1>1. Step.do \in {"enter", "leave", "define"} /\ UNCHANGED <<locals, scope_stack, temps>>
    BY DEF CheckerScope, Is
  <1>2. u \in Seq(Map(next_label)) /\ w \in Seq(Map(next_label)) /\ IsSeq(w)
    BY StateParts DEF IsSeq
  <1>3. ASSUME NEW y, b = <<u, y>>, Checked(y, param, env', temps) PROVE Moved(b, param)
    BY <1>1, <1>3 DEF Moved
  <1>7. CASE Step.do = "enter"
    <2>1. b = <<u, Append(w, EmptyMap)>>
      BY <1>7 DEF Rel
    <2>2. env' = Append(env, EmptyMap)
      BY <1>7 DEF CheckerScope, Is
    <2> QED  BY <1>2, <1>3, <2>1, <2>2, CheckedEnter
  <1>8. CASE Step.do = "leave"
    <2>1. b = <<u, Front(w)>> /\ Len(w) >= 2
      BY <1>8 DEF Rel
    <2>2. env' = Front(env)
      BY <1>8 DEF CheckerScope, Is
    <2>3. w # <<>>
      BY <2>1
    <2> QED  BY <1>2, <1>3, <2>1, <2>2, <2>3, CheckedLeave
  <1>9. CASE Step.do = "define"
    <2>1. /\ b = <<u, Bind(w, Step.name, Step.temp)>> /\ Len(u) >= 1 /\ Len(w) >= 1
          /\ Step.temp \in Nat /\ Step.name \in DOMAIN Last(u) /\ Last(u)[Step.name] = Step.temp
      BY <1>9 DEF Rel
    <2>2. env' = Append(Front(env), With(Last(env), Step.name, temps[Step.temp]))
      BY <1>9 DEF CheckerScope, Is
    <2>3. w # <<>>
      BY <2>1
    <2>4. Step.temp \in DOMAIN temps
      <3>1. Last(u) = u[Len(u)] /\ Len(u) \in 1..Len(base)
        BY <1>2, <2>1 DEF Last, Lowered
      <3>2. Means(u[Len(u)], base[Len(u)], param, temps)
        BY <3>1 DEF Lowered
      <3>3. Step.temp \in DOMAIN temps \cup {Param}
        BY <2>1, <3>1, <3>2 DEF Means
      <3> QED  BY <2>1, <3>3 DEF Param
    <2>5. Checked(Bind(w, Step.name, Step.temp), param,
                  Append(Front(env), With(Last(env), Step.name, temps[Step.temp])), temps)
      BY <1>2, <2>1, <2>3, <2>4, CheckedDefine
    <2> QED  BY <1>3, <2>1, <2>2, <2>5
  <1> QED  BY <1>1, <1>7, <1>8, <1>9

\* A value stored to a new slot.  The key of the slot is not that of another
\* name, so that what the names mean stays as it is.
LEMMA StoreMoves ==
    ASSUME next_label \in Nat, next_slot \in Nat, Store,
           NEW u, NEW w, NEW param, NEW base, NEW b, <<u, w>> \in States(next_label),
           Lowered(u, param, base, locals, scope_stack, temps), Checked(w, param, env, temps),
           Rel(Step, <<u, w>>, b)
    PROVE  Moved(b, param)
  <1>1. Step.do = "store" /\ env' = env
    BY DEF Store, Is
  <1>4. IsSeq(u) /\ IsSeq(w)
    BY StateParts DEF IsSeq
  <1> DEFINE n == Step.name
             k == Step.temp
  <1>5. /\ Len(u) >= 2 /\ Step.ty \in Val /\ k \in Nat /\ n \in Name \cup {NoName}
        /\ Fresh(k, n, u, w)
        /\ b = IF n \in UserName THEN <<Bind(u, n, k), w>> ELSE <<u, w>>
    BY <1>1 DEF Rel
  <1>6. PICK slot : slot = [slot |-> next_slot, ty |-> Step.ty]
    OBVIOUS
  <1>7. slot \in Binding
    BY <1>5, <1>6 DEF Binding, Slot
  <1>8. temps' = With(temps, k, slot)
        /\ IF n = NoName THEN UNCHANGED <<locals, scope_stack>> ELSE AllocLocal(n, slot)
    BY <1>6 DEF Store
  <1> HIDE DEF n, k
  <1>10. Checked(w, param, env', temps')
    BY <1>1, <1>4, <1>5, <1>8, CheckedHold
  <1>11. CASE n = NoName
    <2>1. n \notin UserName
      BY <1>11, NameAssumption
    <2>2. Lowered(u, param, base, locals, scope_stack, With(temps, k, slot))
      BY <1>4, <1>5, <2>1, LoweredHold
    <2>3. Lowered(u, param, base, locals', scope_stack', temps')
      BY <1>8, <1>11, <2>2
    <2>4. b = <<u, w>>
      BY <1>5, <2>1
    <2> QED  BY <1>10, <2>3, <2>4 DEF Moved
  <1>12. CASE n # NoName
    <2>1. n \in Name
      BY <1>5, <1>12
    <2>2. PICK prev : prev = IF n \in DOMAIN locals THEN locals[n] ELSE NoBinding
      OBVIOUS
    <2>3. PICK v : v = IF n \in UserName THEN Bind(u, n, k) ELSE u
      OBVIOUS
    <2>4. /\ locals' = With(locals, n, slot)
          /\ scope_stack' = Append(Front(scope_stack),
                                   Append(Last(scope_stack), [name |-> n, prev |-> prev]))
      BY <1>8, <1>12, <2>2 DEF AllocLocal
    <2>5. Lowered(v, param, Append(Front(base), With(locals, n, slot)), locals', scope_stack', temps')
      BY <1>4, <1>5, <1>7, <1>8, <2>1, <2>2, <2>3, <2>4, LoweredStore
    <2>6. b = <<v, w>>
      BY <1>5, <2>3
    <2> QED  BY <1>10, <2>5, <2>6 DEF Moved
  <1> QED  BY <1>11, <1>12

\* The three of them keep the invariant.
LEMMA ScopeStep ==
    ASSUME ScopeInv, push_scope \/ pop_scope \/ CheckerScope \/ Store
    PROVE  ScopeInv'
  <1>1. todo # <<>> /\ Then(<<>>) /\ next_label' = next_label
    BY DEF push_scope, pop_scope, CheckerScope, Store, Is
  <1>2. PICK u, w, z, param, base, b :
             /\ Len(z[1]) = 1 /\ Len(z[2]) = 1
             /\ Lowered(u, param, base, locals, scope_stack, temps)
             /\ Checked(w, param, env, temps)
             /\ <<u, w>> \in States(next_label)
             /\ Rel(Step, <<u, w>>, b) /\ Seg(Tail(todo), b, z, next_label)
    BY <1>1, NextStep
  <1>3. next_label \in Nat /\ next_slot \in Nat
    BY <1>1, NextStep
  <1>4. Moved(b, param)
    BY <1>2, <1>3, ScopeMoves, CheckerMoves, StoreMoves
  <1>5. next_slot' \in Nat
    <2>1. CASE Store
      BY <1>3, <2>1 DEF Store, slot_count
    <2>2. CASE push_scope \/ pop_scope \/ CheckerScope
      BY <1>3, <2>2 DEF push_scope, pop_scope, CheckerScope
    <2> QED  BY <2>1, <2>2
  <1>6. PICK x, y, over : /\ b = <<x, y>>
                          /\ Lowered(x, param, over, locals', scope_stack', temps')
                          /\ Checked(y, param, env', temps')
    BY <1>4 DEF Moved
  <1> QED  BY <1>1, <1>2, <1>3, <1>5, <1>6, AdvanceOne

\* Every step of the lowering keeps the invariant.
LEMMA ScopeInvStep ==
    ASSUME {"letElse", "unnamedSlot"} \subseteq Avoid, ScopeInv, [Next]_vars
    PROVE  ScopeInv'
  <1>1. CASE LowerExpr \/ LowerElse
    BY <1>1, ExprStep
  <1>2. CASE LowerStmt
    BY <1>2, StatementStep
  <1>3. CASE push_scope \/ pop_scope \/ CheckerScope \/ Store
    BY <1>3, ScopeStep
  <1>5. CASE LoopScope \/ Operate \/ Load \/ Assign \/ Jump \/ CondJump \/ ReturnOp
             \/ TakeSnapshot \/ PlaceLabel
    BY <1>5, InstructionStep
  <1>7. CASE Finish
    BY <1>7, FinishStep
  <1>8. CASE UNCHANGED vars
    <2>1. ScopeInv' <=> ScopeInv
      BY <1>8 DEF ScopeInv, Follows, vars, loweringVars
    <2> QED  BY <2>1
  <1> QED  BY <1>1, <1>2, <1>3, <1>5, <1>7, <1>8 DEF Next

\* The inductive invariant holds for any body: the steps still to come bring the
\* scopes of the lowering and of the checker together to their end.
THEOREM ScopesCorrect == {"letElse", "unnamedSlot"} \subseteq Avoid => (Spec => []ScopeInv)
  <1> SUFFICES ASSUME {"letElse", "unnamedSlot"} \subseteq Avoid PROVE Spec => []ScopeInv
    OBVIOUS
  <1>1. Init => ScopeInv
    BY InitScopes
  <1>2. ScopeInv /\ [Next]_vars => ScopeInv'
    BY ScopeInvStep
  <1> QED  BY <1>1, <1>2, PTL DEF Spec

\* Whatever the names, the nesting and the size of the body, a name is bound to
\* the slot of the declaration the checker resolved it to wherever an expression
\* is lowered (alloc_local, push_scope and pop_scope against TypeEnv).
\* let-else with a name that is visible in its else block and for over a range
\* are not in the bodies: the lowering binds their names before code is lowered
\* for which the checker has not declared them.
THEOREM NamesCorrect == {"letElse", "unnamedSlot"} \subseteq Avoid => (Spec => []NamesResolve)
  <1> SUFFICES ASSUME {"letElse", "unnamedSlot"} \subseteq Avoid PROVE Spec => []NamesResolve
    OBVIOUS
  <1>1. Spec => []ScopeInv
    BY ScopesCorrect
  <1>2. ScopeInv => NamesResolve
    BY NamesFollow
  <1> QED  BY <1>1, <1>2, PTL

\* The scopes of LabelsResolve: when a body is lowered both sides have closed
\* every scope they opened.
ScopesClose == todo = <<>> => scope_stack = <<>> /\ Len(env) = 1

\* No body ends with a scope of the lowering or of the checker open.
THEOREM ScopesCloseCorrect == {"letElse", "unnamedSlot"} \subseteq Avoid => (Spec => []ScopesClose)
  <1> SUFFICES ASSUME {"letElse", "unnamedSlot"} \subseteq Avoid PROVE Spec => []ScopesClose
    OBVIOUS
  <1>1. Spec => []ScopeInv
    BY ScopesCorrect
  <1>2. ScopeInv => ScopesClose
    BY ScopesFollow DEF ScopesClose
  <1> QED  BY <1>1, <1>2, PTL

=============================================================================
