---------------------------- MODULE MCLinkedList ----------------------------
(* Constants of the model-checked instances of LinkedList. *)
EXTENDS LinkedList, TLC

CONSTANTS c1, c2, c3, c4

MCCells    == {c1, c2, c3, c4}
MCSymmetry == Permutations(Cells)
=============================================================================
