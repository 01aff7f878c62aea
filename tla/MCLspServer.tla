---------------------------- MODULE MCLspServer ----------------------------
(* Two or three documents, the first of them on disk; a text that defines a *)
(* name, one that uses it and one that defines it but does not parse.       *)
EXTENDS LspServer, TLC

CONSTANTS u1, u2, u3, def, use, bad, A

MCDefines == [t \in Text |-> IF t = use THEN {} ELSE {A}]
MCUses == [t \in Text |-> IF t = use THEN {A} ELSE {}]
MCDisk == [u \in Uri |-> IF u = u1 THEN def ELSE NoText]
=============================================================================
