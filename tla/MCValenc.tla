----------------------------- MODULE MCValenc -----------------------------
(* Two files.  The sources can be right in two ways, with different classes, *)
(* or wrong for one pass each, the syntax errors being in either file or     *)
(* both.                                                                     *)
EXTENDS Valenc, TLC

CONSTANTS f1, f2, A, B

MCInputs == <<f1, f2>>

Clean == [pass \in Pass |-> {}]
Main == [top |-> TRUE, valid |-> TRUE, file |-> f1]
Good == [errors |-> Clean, mains |-> <<Main>>, generates |-> TRUE, classes |-> <<A, B>>]
Wrong(pass, fs) == [Good EXCEPT !.errors[pass] = fs]

MCPrograms ==
    {Good, [Good EXCEPT !.classes = <<A>>],
     [Good EXCEPT !.mains = <<>>],
     [Good EXCEPT !.mains = <<[Main EXCEPT !.valid = FALSE, !.file = f2]>>],
     [Good EXCEPT !.mains = <<[Main EXCEPT !.top = FALSE]>>],
     [Good EXCEPT !.generates = FALSE],
     Wrong("parse", {f1, f2}),
     [Wrong("parse", {f2}) EXCEPT !.errors["type"] = {f1}],
     [Wrong("resolve", {f1, f2}) EXCEPT !.errors["type"] = {f2}],
     Wrong("type", {f2}), Wrong("coherence", {f1}), Wrong("exhaustive", {f2})}
=============================================================================
