---------------------------- MODULE MCHashTable -----------------------------
(* Constants of the model-checked instances of HashTable. *)
EXTENDS HashTable

CONSTANTS t1, t2, k1, k2, k3, v1, v2

MCTables == {t1, t2}
MCKeys   == {k1, k2, k3}
MCValues == {v1, v2}

(* k3 is a long key that begins with k1. *)
MCCut == [k \in Keys |-> IF k = k3 THEN k1 ELSE k]

(* No key is long, as in test_hash_table.c. *)
MCWhole == [k \in Keys |-> k]

(* k1 and k2 collide; k3, uncut, is in the other bucket. *)
MCBucket == [k \in Keys |-> IF k = k3 THEN 2 ELSE 1]
=============================================================================
