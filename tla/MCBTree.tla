------------------------------ MODULE MCBTree -------------------------------
(* Constants of the model-checked instances of BTree. *)
EXTENDS BTree

MCKeys3 == 1 .. 3
MCKeys5 == 1 .. 5

(* No key has the data rrn of another, nor that of a node. *)
MCDataRrn == [k \in Keys |-> 10 + k]

(* The cache as it is or one that holds two nodes; the rrns that removed   *)
(* keys have left; the nodes an insertion may need.                        *)
Setup(capacity, storage, failures, list, reserve) ==
  [capacity |-> capacity, storage |-> storage, failures |-> failures,
   free_rrn |-> list, reserve |-> reserve]

MCAsBuilt == {Setup(128, FALSE, {}, <<>>, 2)}
MCNew     == {Setup(128, TRUE, {}, <<>>, 2)}
MCLow     == {Setup(128, TRUE, {}, <<1, 2, 3>>, 2)}
MCTall    == {Setup(128, TRUE, {}, <<1, 2, 3, 4, 5, 6>>, 3)}

(* In the last one the tree is emptied and gets a new root.                *)
MCFailing ==
  MCAsBuilt \cup {Setup(128, TRUE, {"io", "mem"}, <<1, 2, 3, 4, 5, 6>>, 3),
                  Setup(3, TRUE, {"io"}, <<1, 2, 3, 4, 5, 6>>, 3),
                  Setup(128, TRUE, {}, <<1>>, 6)}
=============================================================================
