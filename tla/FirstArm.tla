------------------------------ MODULE FirstArm ------------------------------
(***************************************************************************)
(* What a match promises: of the arms that apply (their patterns match and *)
(* their guards hold) the first one is taken, once; if none applies the    *)
(* match is left without a value.                                          *)
(***************************************************************************)
EXTENDS Integers

VARIABLES applicable,   \* the arms that apply to what is being matched
          taken         \* the arm that was taken, 0 for none so far

Missed == -1
FirstInit == taken = 0
Take == /\ taken = 0
        /\ IF applicable = {} THEN taken' = Missed
           ELSE taken' \in {i \in applicable : \A j \in applicable : i <= j}

FirstSpec == FirstInit /\ [][Take]_taken
=============================================================================
