----------------------------- MODULE MCLowering -----------------------------
(***************************************************************************)
(* Bodies of one variable name, so that every declaration in a nested      *)
(* scope shadows: all forms two deep, and some of them deeper, in the      *)
(* fragment whose code the verifier accepts; and one `for` over a range.   *)
(***************************************************************************)
EXTENDS Lowering

CONSTANT x
MCUserName == {x}

Menu(forms, fuel) == [forms |-> forms, fuel |-> fuel]
MCMenus == {Menu(FormName, 2),
            Menu({"if", "while", "java", "let", "expr"}, 4),
            Menu({"if", "while", "whilelet", "letelse", "expr"}, 3)}
MCFragment == Shape

MCRangeMenus == {Menu({"range", "let"}, 2)}
MCRangeFragment == Shape \ {"unnamedSlot"}

=============================================================================
