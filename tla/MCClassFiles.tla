---------------------------- MODULE MCClassFiles ----------------------------
(***************************************************************************)
(* Programs for TLC: hierarchies of classes, impls for every kind of type, *)
(* functions with lambdas, data of every type, and their mixtures.         *)
(***************************************************************************)
EXTENDS ClassFiles

Prim(p) == <<"prim", p>>
Named(n) == <<"named", n>>

M(n) == [k |-> "fn", name |-> n, pkg |-> <<>>, vis |-> "pub", params |-> <<>>, ret |-> NoType,
         self |-> TRUE, open |-> FALSE, override |-> FALSE, abstract |-> FALSE, body |-> TRUE,
         lambdas |-> <<>>]
OpenM(n) == [M(n) EXCEPT !.open = TRUE]
OverM(n) == [M(n) EXCEPT !.override = TRUE]
AbsM(n) == [M(n) EXCEPT !.abstract = TRUE, !.body = FALSE]
Func(n) == [M(n) EXCEPT !.self = FALSE]

Kls(n, kind, supers, ms) ==
    [k |-> "class", name |-> n, pkg |-> <<>>, vis |-> "pub", kind |-> kind, params |-> <<>>,
     supers |-> [i \in DOMAIN supers |-> Named(supers[i])], methods |-> ms]
P(n, ty) == [name |-> n, ty |-> ty, pub |-> TRUE, mut |-> FALSE]
Data(n, ps) == [k |-> "data", name |-> n, pkg |-> <<>>, vis |-> "pub", params |-> ps]
Enum(n, vs, ds) == [k |-> "enum", name |-> n, pkg |-> <<>>, vis |-> "pub", variants |-> vs, derives |-> ds]
V(n, fs) == [name |-> n, fields |-> fs]
Trait(n, sealed, ms) == [k |-> "trait", name |-> n, pkg |-> <<>>, vis |-> "pub", sealed |-> sealed, methods |-> ms]
Impl(t, target, ms) ==
    [k |-> "impl", name |-> "", pkg |-> <<>>, vis |-> "internal", trait |-> t, target |-> target, methods |-> ms]
NewType(n) == [k |-> "newtype", name |-> n, pkg |-> <<>>, vis |-> "pub", inner |-> Prim("Int")]
Annotation(n) == [k |-> "annotation", name |-> n, pkg |-> <<>>, vis |-> "pub", params |-> <<P("at", Prim("String"))>>]
Package(p) == [k |-> "package", path |-> p]
Import(n, p) == [k |-> "import", name |-> n, path |-> p]
Runnable == Import("Runnable", Java("Runnable"))
ThreadOf == Import("Thread", Java("Thread"))

MCPlatform ==
    JObject :> {} @@ JRecord :> {"abstract"} @@ Java("Runnable") :> {"interface"} @@ Java("Thread") :> {}
    @@ <<"java", "lang", "annotation", "Annotation">> :> {"interface"}
    @@ Core("Iterator") :> {"interface"}    \* the library's trait, which no program emits

\* A superclass, its subclass and, below it, a third one.
Bodies == {<<>>, <<M("m")>>, <<OpenM("m")>>, <<OverM("m")>>, <<AbsM("m")>>, <<[M("m") EXCEPT !.abstract = TRUE]>>}
Hierarchies ==
    {<<Kls("A", ka, <<>>, ba), Kls("B", kb, sb, bb), Kls("C", "final", <<"B">>, bc)>> :
        ka \in {"final", "open", "abstract", "sealed"}, ba \in Bodies,
        kb \in {"open", "sealed"}, sb \in {<<>>, <<"A">>}, bb \in Bodies, bc \in {<<>>, <<OverM("m")>>}}
    \cup {<<Kls("B", "final", s, <<M("n")>>), Trait("T", sl, <<AbsM("t")>>), Kls("A", k, <<>>, <<OpenM("m")>>)>> :
             s \in {<<"A">>, <<"A", "T">>, <<"T">>, <<"Nowhere">>}, sl \in BOOLEAN, k \in {"open", "sealed"}}
    \cup {<<Kls("A", "abstract", <<>>, <<[AbsM("m") EXCEPT !.vis = v, !.self = s]>>),
            Kls("B", "open", <<"A">>, <<OverM("m")>>)>> : v \in {"pub", "private", "internal"}, s \in BOOLEAN}
    \cup {<<[Kls("A", "open", <<>>, <<>>) EXCEPT !.params = ps], Kls("B", "final", <<"A">>, <<>>)>> :
             ps \in {<<P("a", Prim("Long"))>>, <<P("a", Prim("Long")), P("b", Named("B"))>>}}
    \cup {<<Kls("A", k, <<>>, <<OpenM("m")>>), [Kls("B", "final", <<>>, b) EXCEPT !.supers = <<t>>],
            Kls("C", "final", s, <<>>)>> :
             k \in {"final", "open", "sealed"}, b \in {<<>>, <<M("m")>>, <<OverM("m")>>}, s \in {<<>>, <<"A">>},
             t \in {<<"generic", "A">>, <<"nullable", Named("A")>>, <<"refmut", Named("A")>>, <<"fn">>, Prim("Int")}}

\* What is implemented for a class, a data class, an enum and a newtype.
Targets == {Kls("X", "final", <<>>, <<M("run")>>), Kls("X", "open", <<>>, <<>>), Data("X", <<P("a", Prim("Int"))>>),
            Enum("X", <<V("One", <<>>), V("Two", <<P("b", Prim("Long"))>>)>>, <<"Eq", "Hash">>),
            NewType("X"), Annotation("X")}
Impls == {Impl(t, <<k, "X">>, ms) :
            t \in {NoType, Named("T"), Named("Runnable")}, k \in {"named", "generic"},
            ms \in {<<M("run")>>, <<M("show"), Func("make")>>, <<M("toString")>>}}
Implementing ==
    {<<Runnable, x, Trait("T", s, ms), i>> : x \in Targets, s \in BOOLEAN, ms \in {<<>>, <<AbsM("run")>>}, i \in Impls}
    \cup {<<Impls2[1], x, Runnable, Impls2[2], Trait("T", TRUE, <<>>), Kls("Y", "final", <<>>, <<>>),
            Impl(Named("T"), Named("Y"), <<>>)>> :
              x \in Targets, Impls2 \in {<<i, j>> \in Impls \X Impls : i.target = Named("X") /\ j.target = i.target}}

\* Functions, and lambdas in them, of one package and of two.
Lam(id, n, inner) == [id |-> id, sig |-> [arity |-> n, of |-> "Int"], inner |-> inner]
LambdaTrees ==
    {<<>>, <<Lam("a", 1, <<>>)>>, <<Lam("a", 3, <<>>), Lam("b", 3, <<>>)>>, <<Lam("a", 23, <<>>), Lam("b", 0, <<>>)>>,
     <<Lam("a", 1, <<>>), Lam("b", 2, <<Lam("c", 1, <<>>)>>)>>,
     <<Lam("a", 2, <<>>), Lam("b", 4, <<Lam("c", 3, <<>>), Lam("d", 22, <<>>)>>)>>,
     <<Lam("a", 2, <<Lam("b", 2, <<>>)>>)>>,
     <<Lam("a", 1, <<>>), Lam("b", 2, <<Lam("c", 3, <<Lam("d", 4, <<>>)>>)>>)>>}
With(f, ls) == [f EXCEPT !.lambdas = ls]
Primed(ls) == [i \in DOMAIN ls |-> [ls[i] EXCEPT !.id = "second " \o @]]
Functional ==
    {<<With(Func(f), a), With(Func("g"), Primed(b))>> : f \in {"main", "f", "g"}, a \in LambdaTrees, b \in LambdaTrees}
    \cup {<<Kls("X", "final", <<>>, <<With(M("m"), a), With(M("n"), Primed(b))>>), Func("main")>> :
             a \in LambdaTrees, b \in LambdaTrees}
    \cup {<<x, With(Func("main"), a), Impl(NoType, Named("X"), <<With(M("m"), Primed(b))>>)>> :
             x \in Targets, a \in LambdaTrees, b \in LambdaTrees}
    \cup {<<Package(<<"p">>), x, Func("f"), Package(<<q>>), Func("main")>> : x \in Targets, q \in {"p", "q"}}
    \cup {<<Kls("Main", "final", <<>>, <<M("m")>>), Func("f")>>, <<ThreadOf, Kls("X", "final", <<"Thread">>, <<>>)>>}

\* Fields of every type, of data classes and of variants.
FieldTypes == {Prim("Int"), Prim("Long"), Prim("Float"), Prim("Double"), Prim("Bool"), Prim("String"),
               <<"nullable", Prim("Long")>>, <<"fn">>, <<"refmut", Prim("Double")>>, Named("X")}
FieldLists == {<<>>} \cup {<<P("a", t)>> : t \in FieldTypes} \cup {<<P("a", t), P("b", u)>> : t \in FieldTypes, u \in FieldTypes}
DeriveLists == {<<>>, <<"Eq">>, <<"Eq", "Eq">>, <<"Eq", "Hash">>, <<"Clone", "Display", "Hash", "Eq">>}
Stored ==
    {<<Data("X", fs)>> : fs \in FieldLists}
    \cup {<<Enum("X", <<V("One", fs), V("Two", <<>>)>>, ds)>> : fs \in FieldLists, ds \in DeriveLists}

\* All of them with a main.
WithMain(p) == IF \E i \in DOMAIN p : p[i].k = "fn" /\ p[i].name = "main" THEN p ELSE Append(p, Func("main"))
MCPrograms == {WithMain(p) : p \in Hierarchies \cup Implementing \cup Functional \cup Stored}
              \cup {<<M("f")>>, <<[Func("main") EXCEPT !.ret = Prim("Int")]>>, <<NewType("main")>>}
=============================================================================
