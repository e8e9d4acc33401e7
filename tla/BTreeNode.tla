----------------------------- MODULE BTreeNode ------------------------------
(***************************************************************************)
(* The functions of BTree.c that work on the arrays of one or two nodes:   *)
(* position search, insertion, splitting, redistribution and merging.  A   *)
(* key is its identifier, and identifiers are numbers so that < is strcmp. *)
(* keys_num and child_num are the lengths of keys and children.            *)
(***************************************************************************)
EXTENDS Integers, Sequences, SequencesExt

CONSTANT Order                     \* config.order

ASSUME OrderAssumption == Order \in Nat /\ Order >= 3

NoRrn == -1                        \* (u16)-1

Half == (Order - 1) \div 2         \* the local split, and the underflow limit

(* A key array keeps the relative order of its keys; so does InsertAt. *)
Ascending(s) == \A i, j \in DOMAIN s : i < j => s[i] < s[j]

(* search_in_btree_node: the first position whose key is not smaller. *)
SearchPos(p, key) ==
  LET stop == {i \in DOMAIN p.keys : p.keys[i] >= key}
  IN  IF stop = {} THEN Len(p.keys) ELSE Min(stop) - 1

Found(p, key) ==
  LET i == SearchPos(p, key) + 1 IN i \in DOMAIN p.keys /\ p.keys[i] = key

(* The child b_range_search takes: it goes right when the keys are equal. *)
RangePos(p, start) ==
  LET stop == {i \in DOMAIN p.keys : start < p.keys[i]}
  IN  IF stop = {} THEN Len(p.keys) ELSE Min(stop) - 1

(* Mutant of Full: off by one. *)
FullLate(p) == Len(p.keys) > Order - 1

(* No room for another key. *)
Full(p) == Len(p.keys) >= Order - 1

(* Mutant of InsertInNode: a leaf gets a child, too. *)
InsertInNodeAnyChild(p, key, r_child, pos) ==
  [p EXCEPT !.keys = InsertAt(@, pos + 1, key),
            !.children = Append(@, r_child)]

(* insert_in_btree_node: r_child is the rrn of the child that comes right  *)
(* of the new key.                                                         *)
InsertInNode(p, key, r_child, pos) ==
  [p EXCEPT !.keys = InsertAt(@, pos + 1, key),
            !.children = IF p.leaf THEN @ ELSE InsertAt(@, pos + 2, r_child)]

(* Where split puts the incoming key: found from the right end. *)
SplitPos(p, key) ==
  Min({i \in 0 .. Len(p.keys) : \A j \in i + 1 .. Len(p.keys) : p.keys[j] > key})

(* temp_keys and temp_children of split: the node as if it had room.  The  *)
(* copy of the children reads one past a full array; the slot it goes to   *)
(* is written again, by the shift or with the incoming child, so what was  *)
(* read is in neither half.                                                *)
Overfull(p, key, r_child) == InsertInNode(p, key, r_child, SplitPos(p, key))

(***************************************************************************)
(* split, the two halves and the promoted key.  A leaf keeps Half + 1 keys *)
(* and a copy of the first key of the new leaf goes up; an internal node   *)
(* keeps Half keys and the middle one itself goes up.                      *)
(***************************************************************************)
LeftHalf(p, key, r_child, rrn) ==
  LET t == Overfull(p, key, r_child) IN
  IF p.leaf THEN [p EXCEPT !.keys = SubSeq(t.keys, 1, Half + 1), !.next_leaf = rrn]
            ELSE [p EXCEPT !.keys = SubSeq(t.keys, 1, Half),
                           !.children = SubSeq(t.children, 1, Half + 1)]

(* Mutant of UpperChildren: the last child is forgotten. *)
UpperChildrenShort(p, t) == IF p.leaf THEN <<>> ELSE SubSeq(t.children, Half + 2, Order)

UpperChildren(p, t) == IF p.leaf THEN <<>> ELSE SubSeq(t.children, Half + 2, Order + 1)

(* Mutants of UpperLink: the new leaf is not linked to the rest of the     *)
(* list; it takes its link after the old leaf was linked to it.            *)
UpperLinkMissing(p, rrn) == NoRrn
UpperLinkLate(p, rrn)    == IF p.leaf THEN rrn ELSE NoRrn

UpperLink(p, rrn) == IF p.leaf THEN p.next_leaf ELSE NoRrn

RightHalf(p, key, r_child, rrn) ==
  LET t == Overfull(p, key, r_child) IN
  [rrn       |-> rrn,
   leaf      |-> p.leaf,
   keys      |-> SubSeq(t.keys, Half + 2, Order),
   children  |-> UpperChildren(p, t),
   next_leaf |-> UpperLink(p, rrn)]

(* Mutant of Promoted: an internal split promotes what a leaf split would. *)
PromotedFirstRight(p, key) == InsertAt(p.keys, SplitPos(p, key) + 1, key)[Half + 2]

Promoted(p, key) ==
  LET keys == InsertAt(p.keys, SplitPos(p, key) + 1, key)
  IN  IF p.leaf THEN keys[Half + 2] ELSE keys[Half + 1]

(* redistribute: one key goes over; the children and the parent do not.    *)
DonorAfter(donor, from_left) ==
  [donor EXCEPT !.keys = IF from_left THEN Front(@) ELSE Tail(@)]

ReceiverAfter(donor, receiver, from_left) ==
  [receiver EXCEPT !.keys = IF from_left THEN <<Last(donor.keys)>> \o @
                                         ELSE Append(@, Head(donor.keys))]

(* merge: the left leaf takes the keys and the link of the right one. *)
MergedLeft(left, right) ==
  [left EXCEPT !.keys = @ \o right.keys, !.next_leaf = right.next_leaf]

(* b_remove: the keys after the one removed move down. *)
WithoutKey(p, key) == [p EXCEPT !.keys = RemoveAt(@, SearchPos(p, key) + 1)]
=============================================================================
