----------------------------- MODULE MCPagePool -----------------------------
(* Constants of the model-checked instances of PagePool. *)
EXTENDS PagePool

CONSTANTS o1, o2

MCTwoOwners == {o1, o2}
=============================================================================
