--------------------------- MODULE MCLinkedQueue ----------------------------
(* Constants of the model-checked instances of LinkedQueue. *)
EXTENDS LinkedQueue

CONSTANTS c1, c2, c3, c4, v1, v2

MCCells  == {c1, c2, c3, c4}
MCValues == {v1, v2}
=============================================================================
