---------------------------- MODULE MCCoherence ----------------------------
(* Pairs of impls over every kind of declaration, and single impls over a  *)
(* generic trait with methods.                                             *)
EXTENDS Coherence, TLC

CONSTANTS C, E, Tr, Seal, PTr, PEn, FTr, FTy, No, Al, NT, Int, T, F, Self, show, twice

MCName == {C, E, Tr, Seal, PTr, PEn, FTr, FTy, No, Al, NT, Int, T, F, Self}

D(kind, origin) == [kind |-> kind, origin |-> origin]

MCDecl ==
    C :> D("class", "local") @@ E :> D("enum", "local") @@ Tr :> D("trait", "local")
    @@ Seal :> D("sealed trait", "local") @@ PTr :> D("trait", "prelude")
    @@ PEn :> D("enum", "prelude") @@ FTr :> D("unknown", "import") @@ FTy :> D("unknown", "import")
    @@ Al :> D("typealias", "local") @@ NT :> D("newtype", "local")
    @@ F :> D("unknown", "import")
    @@ [n \in MCName |-> D("unknown", "none")]

Ty(n) == [form |-> "path", head |-> n, args |-> <<>>]
Of(n, a) == [form |-> "path", head |-> n, args |-> <<a>>]
Opt(n) == [form |-> "nullable", head |-> n, args |-> <<>>]

Fn(n, own, ps, r) == [name |-> n, generics |-> own, params |-> ps, ret |-> r, has_body |-> FALSE]

Plainly(trait_ref, target) ==
    [generics |-> {}, trait_ref |-> trait_ref, target |-> target, stdlib |-> FALSE,
     methods |-> <<>>]

Traits == [n \in MCName |-> [generics |-> <<>>, methods |-> <<>>]]

Imports == {n \in MCName : MCDecl[n].origin \in {"prelude", "import"}}

Prog(impls) == [decl |-> MCDecl, trait |-> Traits,
                impls |-> impls, imports |-> Imports]

\* The impls whose pairs and triples are checked.
Impls ==
    {Plainly(Ty(t), ty) : t \in {Tr, Seal, PTr, PEn, FTr, No},
                          ty \in {Ty(C), Ty(E), Ty(FTy), Ty(Int), Ty(T), Ty(F), Of(C, Int)}}
    \cup {Plainly(None, Ty(C)), Plainly(Ty(Tr), Opt(C)), Plainly(Of(Tr, C), Ty(C)),
          Plainly(Ty(PEn), Ty(C)), [Plainly(Ty(Tr), Of(C, Int)) EXCEPT !.generics = {C}],
          [Plainly(Ty(FTr), Ty(FTy)) EXCEPT !.stdlib = TRUE],
          [Plainly(Ty(Tr), Ty(T)) EXCEPT !.generics = {T}],
          Plainly(Ty(Tr), Ty(Al)), Plainly(Ty(FTr), Ty(NT))}

Few == {m \in Impls : m.target.head \in {C, T} /\ m.trait_ref # Ty(PTr)}

PairPrograms ==
    {Prog(<<a, b>>) : a, b \in Impls} \cup {Prog(<<a, b, c>>) : a, b, c \in Few}

\* A trait with two type parameters and two methods, one with a default.
Sigs == {<<ps, r>> : ps \in {<<>>} \cup {<<Ty(n)>> : n \in {T, F, Int, C}}
                              \cup {<<Of(C, T)>>, <<Opt(T)>>, <<Of(C, Int)>>, <<Opt(Int)>>},
                     r \in {None, Ty(F), Ty(Int)}}

Hard(own, s) == Fn(show, own, s[1], s[2])
Soft(s) == [Fn(twice, {}, s[1], s[2]) EXCEPT !.has_body = TRUE]

TraitDefs == {[generics |-> <<T, F>>, methods |-> <<Hard({}, s), Soft(<<<<Ty(T)>>, None>>)>>] :
                 s \in Sigs}

MethodLists == {<<>>} \cup {<<Hard({}, s)>> : s \in Sigs}
               \cup {<<Soft(s), Hard({}, <<<<Ty(Int)>>, None>>)>> : s \in Sigs}

MethodPrograms ==
    {[Prog(<<[Plainly([form |-> "path", head |-> Tr, args |-> a], Ty(C))
                 EXCEPT !.methods = ms, !.generics = gs]>>)
        EXCEPT !.trait[Tr] = tr] :
       tr \in TraitDefs, ms \in MethodLists,
       a \in {<<>>, <<Int>>, <<Int, Int>>, <<C, Int>>, <<F, T>>}, gs \in {{}, {F}}}

MCPrograms == PairPrograms \cup MethodPrograms
=============================================================================
