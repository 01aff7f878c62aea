----------------------------- MODULE AtomicFile ------------------------------
(***************************************************************************)
(* What whoever runs a formatter over his sources relies on: at every moment  *)
(* a file holds one complete text, and comes by a new one by formatting the   *)
(* one it has.  A step may put some of the files back to a text they have     *)
(* had: a power failure may take back what was not yet on the disk.          *)
(***************************************************************************)
CONSTANTS Paths, Format(_)

VARIABLES
    content,        \* path -> the text now
    held            \* path -> the texts it has had

Init ==
    /\ DOMAIN content = Paths
    /\ held = [p \in Paths |-> {content[p]}]

Reformat(p) == content'[p] = Format(content[p])
Revert(p) == content'[p] \in held[p]

Change ==
    /\ DOMAIN content' = Paths
    /\ \A p \in Paths : Reformat(p) \/ Revert(p)
    /\ held' = [p \in Paths |-> held[p] \cup {content'[p]}]

Spec == Init /\ [][Change]_<<content, held>>
=============================================================================
