------------------------------ MODULE Forest ------------------------------
(***************************************************************************)
(* Small block trees for model checking: the functions Number and          *)
(* Ancestors of BlockTree computed from a parent function.  A block that   *)
(* is its own parent is a root.                                            *)
(***************************************************************************)
EXTENDS Naturals

AncestorsOf(parent) ==
    LET up[b \in DOMAIN parent] == IF parent[b] = b THEN {b} ELSE {b} \union up[parent[b]]
    IN  up

NumberOf(parent, root) ==
    LET n[b \in DOMAIN parent] == IF parent[b] = b THEN root ELSE n[parent[b]] + 1
    IN  n
=============================================================================
