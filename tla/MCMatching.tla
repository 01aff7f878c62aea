----------------------------- MODULE MCMatching -----------------------------
(***************************************************************************)
(* Matches for TLC.  Hue and Shape are enums that share the variant name   *)
(* Wide; Hue comes first.  Animal is a sealed class, one of its subclasses *)
(* is open and has one of its own, another is sealed with two; Expr is a   *)
(* sealed trait, of which two implementors are Animals, one of them sealed.*)
(***************************************************************************)
EXTENDS Matching

F(n, ty) == [name |-> n, ty |-> ty]
MCEnums == <<
    [name |-> "Hue", variants |-> <<[name |-> "Red", fields |-> <<>>],
                                    [name |-> "Wide", fields |-> <<F("on", "Bool")>>]>>],
    [name |-> "Shape", variants |-> <<[name |-> "Wide", fields |-> <<F("big", "Bool"), F("hue", "Hue")>>],
                                      [name |-> "Dot", fields |-> <<>>]>>]>>
MCSealed == [Animal |-> {"Dog", "Bird"}, Bird |-> {"Owl", "Wren"}]
MCOpen == [Dog |-> {"Puppy"}]
MCClosed == [Expr |-> {"Lit", "Dog"}, Loud |-> {"Lit", "Bird"}]

Wild == [k |-> "wild"]
Lit(b) == [k |-> "lit", is |-> b]
Bind(n) == [k |-> "bind", name |-> n]
PathTo(s) == [k |-> "path", segs |-> s]
St(s, fs, r) == [k |-> "struct", segs |-> s, fields |-> fs, rest |-> r]
Dot(v, fs) == [k |-> "short", variant |-> v, fields |-> fs, rest |-> FALSE]
Or(a, b) == [k |-> "or", alts |-> <<a, b>>]
At(n, p) == [k |-> "at", name |-> n, pat |-> p]
N(n) == [name |-> n, pat |-> Shorthand]
Of(n, p) == [name |-> n, pat |-> p]

\* Fields of Shape's Wide: by position, by name, in the wrong order, with
\* tests of their own, too many, one that does not exist, one name twice.
FieldLists == {<<N("a"), N("b")>>, <<N("hue"), N("big")>>, <<N("a")>>,
               <<Of("hue", Bind("h")), N("b")>>, <<Of("hue", Dot("Wide", <<N("o")>>)), Of("big", Bind("b"))>>,
               <<Of("big", Lit(TRUE)), N("h")>>, <<Of("hue", Or(PathTo(<<"Hue", "Red">>), Dot("Wide", <<>>)))>>,
               <<Of("size", Bind("s"))>>, <<N("x"), Of("hue", Bind("x"))>>, <<N("a"), N("b"), N("c")>>}
ShapeCore == {Wild, Bind("s"), PathTo(<<"Shape", "Dot">>), PathTo(<<"Shape", "Wide">>), Dot("Dot", <<>>),
              Dot("Wide", <<>>), Dot("Red", <<>>), PathTo(<<"Hue", "Red">>),
              St(<<"Hue", "Wide">>, <<N("o")>>, FALSE), Bind("Dot"), St(<<"Wide">>, <<N("a")>>, FALSE)}
ShapePatterns ==
    ShapeCore
    \cup {St(<<"Shape", "Wide">>, fs, FALSE) : fs \in FieldLists}
    \cup {Dot("Wide", fs) : fs \in FieldLists}
    \cup {St(<<"Shape", "Wide">>, <<N("a"), N("b"), N("c")>>, TRUE)}
    \cup {Or(PathTo(<<"Shape", "Dot">>), PathTo(<<"Shape", "Wide">>)), Or(Dot("Wide", <<N("n")>>), Bind("n")),
          Or(Dot("Wide", <<N("n")>>), Wild), At("all", Dot("Wide", <<N("a"), N("b")>>)),
          At("all", Or(Dot("Dot", <<>>), PathTo(<<"Shape", "Wide">>))), At("any", Wild), Bind("Wide")}
BoolPatterns == {Wild, Bind("b"), Lit(TRUE), Lit(FALSE), Or(Lit(TRUE), Lit(FALSE)), At("b", Lit(TRUE)),
                 At("b", Or(Lit(FALSE), Wild))}
Sub(c) == St(<<c>>, <<>>, TRUE)
SubPatterns(ty) ==
    LET names == Below(ty)
    IN  {Wild, Bind("x")} \cup {Sub(c) : c \in names \cup {ty}} \cup {Bind(c) : c \in names}
        \cup {Or(Sub(c), Sub(d)) : c, d \in names} \cup {At("x", Sub(c)) : c \in names}
        \cup {PathTo(<<"Hue", c>>) : c \in MemberNames(ty)}

Arms(ps, n) == UNION {[1..m -> [pat : ps, guarded : BOOLEAN]] : m \in 1..n}

Decl(n, ty, a, i) == [name |-> n, ty |-> ty, annotated |-> a, inner |-> i]
Plainly(ty) == <<Decl("m", ty, TRUE, FALSE)>>
Var == [k |-> "var", name |-> "m"]
Prog(ty, arms) == [place |-> "fn", within |-> "match", decls |-> Plainly(ty), scrutinee |-> Var,
                   ty |-> ty, arms |-> arms]

\* Where the match stands, and what is known of what it matches.
Elsewhere(arms) ==
    {[Prog("Shape", arms) EXCEPT !.place = pl] : pl \in check_items \cup {"trait_method", "object_method"}}
    \cup {[Prog("Shape", arms) EXCEPT !.within = w] : w \in check_expr \cup {"cast", "try", "if_let"}}
    \cup {[Prog("Shape", arms) EXCEPT !.decls = ds] :
            ds \in {<<>>, <<Decl("m", "Shape", FALSE, FALSE)>>,
                    <<Decl("m", "Hue", TRUE, FALSE), Decl("m", "Shape", FALSE, FALSE)>>,
                    <<Decl("m", "Hue", TRUE, FALSE), Decl("m", "Shape", TRUE, FALSE)>>,
                    <<Decl("m", "Shape", TRUE, FALSE), Decl("m", "Hue", TRUE, TRUE)>>,
                    <<Decl("m", "Shape", TRUE, FALSE), Decl("other", "Hue", TRUE, FALSE)>>}}
    \cup {[Prog("Shape", arms) EXCEPT !.scrutinee = e] :
            e \in {[k |-> "call", name |-> "Shape"], [k |-> "call", name |-> "area"],
                   [k |-> "method", recv |-> Var], [k |-> "field"]}}

MCPrograms ==
    {Prog("Shape", a) : a \in Arms(ShapePatterns, 2)}
    \cup {Prog("Shape", a) : a \in Arms({Bind("s"), Dot("Dot", <<>>), Dot("Wide", <<N("a"), N("b")>>),
                                         St(<<"Shape", "Wide">>, <<Of("big", Lit(TRUE))>>, FALSE)}, 3)}
    \cup {Prog("Bool", a) : a \in Arms(BoolPatterns, 2)}
    \cup UNION {{Prog(ty, a) : a \in Arms(SubPatterns(ty), 2)} : ty \in {"Animal", "Expr", "Loud"}}
    \cup {Prog("Animal", a) : a \in Arms({Sub(c) : c \in Below("Animal")}, 3)}
    \cup UNION {Elsewhere(a) : a \in Arms({Wild, Dot("Dot", <<>>), Dot("Wide", <<N("a")>>)}, 2)}
=============================================================================
