-------------------------- MODULE BTreeOrderProofs --------------------------
(***************************************************************************)
(* Proofs about BTree while nothing has gone wrong: the leaves are linked  *)
(* in key order and equally deep, and the tree implements IndexMap.        *)
(***************************************************************************)
EXTENDS BTreeProofs, FiniteSetTheorems

(* The internal node that is to take the promoted key and the new node.    *)
Waiter ==
  IF r_child = NoNode \/ pc = "newroot" THEN NoNode
  ELSE IF pc = "ascend" THEN Last(path).node ELSE curr

(* A node as it is, the waiting one as if it had taken them.               *)
Now(n) ==
  IF n = Waiter
  THEN InsertInNode(heap[n], promo, heap[r_child].rrn, SearchPos(heap[n], promo))
  ELSE heap[n]

(* The leaf a removal has left short of keys. *)
Short == IF pc = "underflow" THEN curr ELSE NoNode

(* The nodes without a parent: the root, and its new sibling. *)
Tops == ({root} \cup (IF pc = "newroot" THEN {r_child} ELSE {})) \ {NoNode}

(* Each node n has the keys from lo[n] up to hi[n] to itself. *)
Bounded(lo, hi) == \A n \in alive : Covers(Now(n), lo[n], hi[n])

(* The bounds of a child are those its parent leads to it by. *)
Led(lo, hi, at) ==
  \A q, m \in alive : \A i \in DOMAIN Now(q).children :
     heap[m].rrn = Now(q).children[i] =>
       lo[m] = Lower(Now(q), lo[q], i) /\ hi[m] = Upper(Now(q), hi[q], i) /\ at[m] = at[q] + 1

Before(u, l) == u # 0 /\ u <= l

(* Nodes at the same depth have no keys in common. *)
Apart(lo, hi, at) ==
  \A m, n \in alive : m # n /\ at[m] = at[n] => Before(hi[m], lo[n]) \/ Before(hi[n], lo[m])

Topped(lo, hi, at) ==
  /\ root = NoNode => alive = {}
  /\ \A n \in Tops : at[n] = 0
  /\ root # NoNode => lo[root] = 0 /\ hi[root] = IF pc = "newroot" THEN promo ELSE 0
  /\ pc = "newroot" => lo[r_child] = promo /\ hi[r_child] = 0
  /\ \A n \in alive : n \notin Tops => \E q \in alive : heap[n].rrn \in ToSet(Now(q).children)

(* All leaves, and nothing else, are at depth top. *)
Heights(at, top) == \A n \in alive : heap[n].leaf <=> at[n] = top

(* A leaf is linked to the one that starts where it ends. *)
Linked(lo, hi) ==
  \A n \in Leaves :
    IF hi[n] = 0 THEN heap[n].next_leaf = NoRrn
    ELSE \E m \in Leaves : heap[m].rrn = heap[n].next_leaf /\ lo[m] = hi[n]

(* The keys that lead a search are the first ones of leaves. *)
Routed(lo) ==
  /\ \A q \in alive \ Leaves : \A k \in ToSet(Now(q).keys) : \E n \in Leaves : lo[n] = k
  /\ pc = "newroot" => \E n \in Leaves : lo[n] = promo

Placed(lo, hi, at, top) ==
  /\ Bounded(lo, hi) /\ Led(lo, hi, at) /\ Apart(lo, hi, at) /\ Topped(lo, hi, at)
  /\ Heights(at, top) /\ Linked(lo, hi) /\ Routed(lo)

Filled ==
  \A n \in alive : n # Short =>
    Len(heap[n].keys) >= IF n = root /\ pc # "newroot" THEN 1 ELSE Half

(* What an insertion, a search or removal, and a range query know of the   *)
(* bounds of the node they are at.                                         *)
Insertion(lo, hi) ==
  /\ pc \in {"descend", "leaf", "split"} /\ r_child = NoNode => Gap(lo[curr], hi[curr], promo)
  /\ pc \in {"leaf", "split"} => ~Found(heap[curr], promo)
  /\ pc = "ascend" => Last(path).pos = SearchPos(heap[Last(path).node], promo)
  /\ pc \in {"descend", "leaf", "split", "ascend"} => \A i \in DOMAIN path :
       heap[path[i].node].children[path[i].pos + 1]
          = heap[IF i = Len(path) THEN curr ELSE path[i + 1].node].rrn

Removal(lo, hi) ==
  /\ pc \in {"find", "remove"} /\ curr # NoNode => Gap(lo[curr], hi[curr], op.key)
  /\ pc = "underflow" => curr # root

Query(lo) ==
  /\ pc = "idle" => seen = <<>>
  /\ pc = "range" => Ascending(seen)
  /\ pc = "range" /\ curr # NoNode =>
       /\ ~heap[curr].leaf => lo[curr] <= op.from
       /\ ToSet(seen) = {k \in Contents : op.from <= k /\ k < lo[curr] /\ k <= op.to}

Kinds ==
  /\ pc \in {"first", "descend", "leaf"} \/ (pc = "split" /\ r_child = NoNode) =>
       op.kind = "insert" /\ promo = op.key
  /\ pc \in {"split", "ascend", "newroot"} => op.kind = "insert"
  /\ pc \in {"find", "range"} => curr # NoNode \/ root = NoNode
  /\ pc = "find" => op.kind \in {"search", "remove"}
  /\ pc \in {"remove", "underflow"} => op.kind = "remove"
  /\ pc = "range" => op.kind = "range"

InCall(lo, hi) == Insertion(lo, hi) /\ Removal(lo, hi) /\ Query(lo) /\ Kinds

Places == [Nodes -> Nat]

InOrder(lo, hi, at, top) == Placed(lo, hi, at, top) /\ Filled /\ InCall(lo, hi)

OInv == Sound => \E lo, hi, at \in Places, top \in Nat : InOrder(lo, hi, at, top)

-----------------------------------------------------------------------------
(* While nothing has gone wrong, every live node and every child is cached. *)
LEMMA SoundFacts ==
  ASSUME IInv, Sound
  PROVE  /\ Stored /\ Called /\ alive = ToSet(cache) /\ alive \subseteq Nodes
         /\ \A n \in alive : n \in Nodes /\ n # NoNode /\ Load(heap[n].rrn) = n
         /\ \A m, n \in alive : heap[m].rrn = heap[n].rrn => m = n
         /\ \A rrn : Load(rrn) # NoNode => Load(rrn) \in alive /\ heap[Load(rrn)].rrn = rrn
         /\ \A q \in alive : \A c \in ToSet(heap[q].children) :
              Load(c) \in alive /\ heap[Load(c)].rrn = c
<1>1. StoreTypes /\ Numbers /\ Stored /\ Called
  BY DEF IInv, Whole, Sound, Benign
<1>2. alive = ToSet(cache) /\ alive \subseteq Nodes
  BY <1>1 DEF Stored, Sound, StoreTypes
<1>3. \A n \in alive : n \in Nodes /\ n # NoNode
  BY <1>2 DEF Nodes, NoNode
<1>4. \A m, n \in alive : heap[m].rrn = heap[n].rrn => m = n
  BY <1>1 DEF Numbers, Distinct
<1>5. \A rrn : /\ Load(rrn) # NoNode => Load(rrn) \in alive /\ heap[Load(rrn)].rrn = rrn
               /\ \A m \in ToSet(cache) : m \in alive /\ heap[m].rrn = rrn => Load(rrn) # NoNode
  BY <1>1, LoadProps
<1>6. \A n \in alive : Load(heap[n].rrn) = n
  BY <1>2, <1>4, <1>5
<1>7. ASSUME NEW q \in alive, NEW c \in ToSet(heap[q].children)
      PROVE  Load(c) # NoNode
  <2>1. PICK leaf \in BOOLEAN : Fits(q, leaf)
    BY <1>1 DEF Stored
  <2> QED
    BY <1>1, <1>2, <2>1, FitLoad
<1> QED
  BY <1>1, <1>2, <1>3, <1>4, <1>5, <1>6, <1>7

LEMMA WaiterProps ==
  ASSUME IInv, Sound
  PROVE  /\ r_child = NoNode => Waiter = NoNode /\ pc # "newroot"
         /\ r_child # NoNode => r_child \in alive /\ pc \in {"split", "ascend", "newroot"}
         /\ Waiter # NoNode => /\ Waiter \in alive /\ heap[Waiter].leaf = FALSE
                               /\ promo \in Keys /\ heap[r_child].rrn \in Nat
<1>1. StoreTypes /\ CallTypes /\ Control /\ Frames /\ Stored /\ Called
  BY SoundFacts DEF IInv
<1>2. curr \in alive \cup {NoNode} /\ r_child \in alive \cup {NoNode}
      /\ \A i \in DOMAIN path : path[i].node \in alive
  BY <1>1 DEF Called, Stored
<1>3. r_child # NoNode => /\ r_child \in alive /\ pc \in {"split", "ascend", "newroot"}
                          /\ heap[r_child].rrn \in Nat /\ promo \in Keys
  BY <1>1, <1>2 DEF Control
<1>4. r_child = NoNode => Waiter = NoNode /\ pc # "newroot"
  BY <1>1 DEF Control, Waiter
<1>5. CASE r_child # NoNode /\ pc = "split"
  <2>1. Waiter = curr
    BY <1>5 DEF Waiter
  <2>2. curr # NoNode /\ ~heap[curr].leaf
    BY <1>1, <1>5 DEF Control
  <2>3. curr \in Nodes /\ heap[curr] \in NodeOf(Keys, Nat)
    BY <1>1, <1>2, <2>2 DEF StoreTypes
  <2>4. heap[curr].leaf = FALSE
    BY <2>2, <2>3 DEF NodeOf
  <2> QED
    BY <1>2, <1>3, <1>4, <2>1, <2>2, <2>4
<1>6. CASE r_child # NoNode /\ pc = "ascend"
  <2>1. Waiter = Last(path).node
    BY <1>6 DEF Waiter
  <2>0. PICK parent : parent = Last(path).node
    OBVIOUS
  <2>2. Len(path) \in DOMAIN path /\ Last(path) = path[Len(path)] /\ heap[Waiter].leaf = FALSE
    <3>1. Len(path) \in Nat \ {0} /\ DOMAIN path = 1 .. Len(path) /\ Last(path) = path[Len(path)]
          /\ heap[parent].leaf = FALSE
      BY <1>6, <2>0, FrameAbove
    <3> QED
      BY <2>0, <2>1, <3>1
  <2>3. Waiter \in alive
    BY <1>2, <2>1, <2>2
  <2> QED
    BY <1>3, <1>4, <2>2, <2>3
<1>7. CASE r_child # NoNode /\ pc = "newroot"
  <2>1. Waiter = NoNode
    BY <1>7 DEF Waiter
  <2> QED
    BY <1>3, <1>4, <2>1
<1> QED
  BY <1>3, <1>4, <1>5, <1>6, <1>7

(* A node as it will be has the shape of a node. *)
NowIs(n) ==
  /\ Now(n) \in NodeOf(Keys, Nat)
  /\ Now(n).leaf = heap[n].leaf /\ Now(n).rrn = heap[n].rrn
  /\ Now(n).next_leaf = heap[n].next_leaf
  /\ Len(Now(n).keys) \in Nat /\ DOMAIN Now(n).keys = 1 .. Len(Now(n).keys)
  /\ DOMAIN Now(n).children = IF heap[n].leaf THEN {} ELSE 1 .. Len(Now(n).keys) + 1

LEMMA NowProps ==
  ASSUME IInv, Sound, NEW n \in alive
  PROVE  NowIs(n)
<1>1. n \in Nodes /\ heap[n] \in NodeOf(Keys, Nat) /\ Shaped(heap[n])
  BY SoundFacts DEF IInv, StoreTypes, Shapes
<1>2. Len(heap[n].children) = (IF heap[n].leaf THEN 0 ELSE Len(heap[n].keys) + 1)
  BY <1>1 DEF Shaped
<1>3. /\ Now(n) \in NodeOf(Keys, Nat)
      /\ Now(n).leaf = heap[n].leaf /\ Now(n).rrn = heap[n].rrn
      /\ Now(n).next_leaf = heap[n].next_leaf
      /\ Len(Now(n).children) = IF heap[n].leaf THEN 0 ELSE Len(Now(n).keys) + 1
  <2>1. CASE n = Waiter
    <3>1. promo \in Keys /\ heap[r_child].rrn \in Nat /\ heap[n].leaf = FALSE
      BY <2>1, SoundFacts, WaiterProps
    <3>2. PICK pos \in 0 .. Len(heap[n].keys) : pos = SearchPos(heap[n], promo)
      BY <1>1, SearchPosRange
    <3>3. PICK p \in NodeOf(Keys, Nat) : p = heap[n]
      BY <1>1
    <3>4. PICK r \in Nat : r = heap[r_child].rrn
      BY <3>1
    <3>5. Now(n) = InsertInNode(p, promo, r, pos)
      BY <2>1, <3>2, <3>3, <3>4 DEF Now
    <3>6. p.leaf \/ r \in Nat
      OBVIOUS
    <3>7. PICK q : q = InsertInNode(p, promo, r, pos)
      OBVIOUS
    <3>8. /\ q \in NodeOf(Keys, Nat) /\ q.rrn = p.rrn /\ q.leaf = p.leaf
          /\ Len(q.children) = IF p.leaf THEN 0 ELSE Len(q.keys) + 1
      BY <1>2, <3>1, <3>2, <3>3, <3>6, <3>7, InsertInNodeProps
    <3>9. q.next_leaf = p.next_leaf
      BY <3>1, <3>2, <3>3, <3>7, KeyTaken
    <3> QED
      BY <3>3, <3>5, <3>7, <3>8, <3>9
  <2>2. CASE n # Waiter
    BY <1>1, <1>2, <2>2 DEF Now
  <2> QED
    BY <2>1, <2>2
<1>4. /\ Len(Now(n).keys) \in Nat /\ DOMAIN Now(n).keys = 1 .. Len(Now(n).keys)
      /\ DOMAIN Now(n).children = 1 .. Len(Now(n).children)
  BY <1>3 DEF NodeOf
<1>5. DOMAIN Now(n).children = IF heap[n].leaf THEN {} ELSE 1 .. Len(Now(n).keys) + 1
  BY <1>3, <1>4
<1> QED
  BY <1>3, <1>4, <1>5 DEF NowIs

(* The places stay as they are when no node gets another place. *)
LEMMA KeptPlaces ==
  ASSUME NEW lo, NEW hi, NEW at, NEW top, Placed(lo, hi, at, top),
         alive' = alive, root' = root, Tops' = Tops, pc' = "newroot" <=> pc = "newroot",
         pc = "newroot" => r_child' = r_child /\ promo' = promo,
         \A n \in alive :
           /\ heap'[n].rrn = heap[n].rrn /\ heap'[n].leaf = heap[n].leaf
           /\ heap'[n].next_leaf = heap[n].next_leaf
           /\ Now(n)'.children = Now(n).children
           /\ \/ Now(n)'.keys = Now(n).keys /\ Now(n)'.leaf = Now(n).leaf
              \/ heap[n].leaf /\ DOMAIN Now(n).children = {} /\ Covers(Now(n)', lo[n], hi[n])
  PROVE  Placed(lo, hi, at, top)'
<1>1. Bounded(lo, hi)'
  BY DEF Placed, Bounded, Covers
<1>2. Led(lo, hi, at)'
  BY DEF Placed, Led, Lower, Upper
<1>3. Apart(lo, hi, at)'
  BY DEF Placed, Apart
<1>4. Topped(lo, hi, at)'
  BY DEF Placed, Topped
<1>5. Heights(at, top)'
  BY DEF Placed, Heights
<1>6. Leaves' = Leaves
  BY DEF Leaves
<1>7. Linked(lo, hi)'
  BY <1>6 DEF Placed, Linked, Leaves
<1>8. Routed(lo)'
  BY <1>6 DEF Placed, Routed, Leaves
<1> QED
  BY <1>1, <1>2, <1>3, <1>4, <1>5, <1>7, <1>8 DEF Placed

-----------------------------------------------------------------------------
(* The call returns, or goes on, and the tree is what it was. *)
LEMMA CallOver ==
  ASSUME NEW code, NEW keys, ReturnKeys(code, keys), NEW lo, NEW hi
  PROVE  /\ InCall(lo, hi)' /\ Waiter' = NoNode /\ Short' = NoNode /\ pc' = "idle"
         /\ r_child' = NoNode /\ Tops' = {root'} \ {NoNode}
<1>1. pc' = "idle" /\ r_child' = NoNode
  BY DEF ReturnKeys
<1>2. Waiter' = NoNode /\ Short' = NoNode /\ Tops' = {root'} \ {NoNode}
  BY <1>1 DEF Waiter, Short, Tops
<1>3. Insertion(lo, hi)'
  BY <1>1 DEF Insertion
<1>4. Removal(lo, hi)'
  BY <1>1 DEF Removal
<1>5. Query(lo)'
  BY <1>1 DEF Query, ReturnKeys
<1>6. Kinds'
  BY <1>1 DEF Kinds
<1> QED
  BY <1>1, <1>2, <1>3, <1>4, <1>5, <1>6 DEF InCall

LEMMA SameTree ==
  ASSUME IInv, Sound, UNCHANGED tree, r_child = NoNode, r_child' = NoNode, pc' # "newroot",
         Short' = Short, NEW lo, NEW hi, NEW at, NEW top, InOrder(lo, hi, at, top), InCall(lo, hi)'
  PROVE  InOrder(lo, hi, at, top)'
<1>1. /\ Waiter = NoNode /\ Waiter' = NoNode /\ pc # "newroot"
      /\ heap' = heap /\ alive' = alive /\ root' = root
  BY WaiterProps DEF Waiter, tree
<1>2. Tops' = Tops
  BY <1>1 DEF Tops
<1>3. \A n \in alive : Now(n)' = Now(n)
  BY <1>1, SoundFacts DEF Now
<1>4. Placed(lo, hi, at, top)'
  BY <1>1, <1>2, <1>3, KeptPlaces DEF InOrder
<1>5. Filled'
  BY <1>1 DEF InOrder, Filled
<1> QED
  BY <1>4, <1>5 DEF InOrder

LEMMA ReturnsInOrder ==
  ASSUME IInv, OInv, NEW code, NEW keys, ReturnKeys(code, keys), UNCHANGED tree,
         Sound' => Sound /\ r_child = NoNode /\ pc # "underflow"
  PROVE  OInv'
<1>1. SUFFICES ASSUME Sound' PROVE \E lo, hi, at \in Places, top \in Nat : InOrder(lo, hi, at, top)'
  BY DEF OInv, Places, Nodes
<1>2. PICK lo \in Places, hi \in Places, at \in Places, top \in Nat : InOrder(lo, hi, at, top)
  BY <1>1 DEF OInv
<1>3. Short = NoNode
  BY <1>1 DEF Short
<1>4. InCall(lo, hi)' /\ Short' = NoNode /\ pc' = "idle" /\ r_child' = NoNode
  BY CallOver
<1>5. InOrder(lo, hi, at, top)'
  BY <1>1, <1>2, <1>3, <1>4, SameTree
<1> QED
  BY <1>5

LEMMA StopsInOrder ==
  ASSUME status' # "running"
  PROVE  OInv'
BY DEF OInv, Sound

LEMMA GoesInOrder ==
  ASSUME IInv, OInv, UNCHANGED <<tree, faults, status>>, r_child = NoNode, r_child' = NoNode,
         pc # "underflow", pc' \notin {"underflow", "newroot"},
         Sound => \A lo, hi, at \in Places, top \in Nat :
                    InOrder(lo, hi, at, top) => InCall(lo, hi)'
  PROVE  OInv'
<1>1. SUFFICES ASSUME Sound' PROVE \E lo, hi, at \in Places, top \in Nat : InOrder(lo, hi, at, top)'
  BY DEF OInv, Places, Nodes
<1>2. Sound
  BY <1>1 DEF Sound
<1>3. PICK lo \in Places, hi \in Places, at \in Places, top \in Nat : InOrder(lo, hi, at, top)
  BY <1>2 DEF OInv
<1>4. Short = NoNode /\ Short' = NoNode
  BY DEF Short
<1>5. InOrder(lo, hi, at, top)'
  BY <1>2, <1>3, <1>4, SameTree
<1> QED
  BY <1>5

LEMMA ContentsTyped ==
  ASSUME IInv
  PROVE  Contents \subseteq Keys /\ Contents \subseteq Nat
<1>1. \A n \in alive : heap[n].keys \in Seq(Keys)
  BY DEF IInv, StoreTypes, NodeOf
<1>2. \A n \in alive : ToSet(heap[n].keys) \subseteq Keys
  BY <1>1 DEF ToSet
<1> QED
  BY <1>2, KeysAssumption DEF Contents, Leaves

(* A call starts at the root, which bounds no keys. *)
LEMMA CallInOrder ==
  ASSUME IInv, OInv, Ready, NEW request, NEW where, NEW key, Call(request, where, key),
         \/ where \in {"first", "descend"} /\ request.kind = "insert" /\ key = request.key
              /\ key \in Keys /\ (where = "descend" => root # NoNode)
         \/ where = "find" /\ request.kind \in {"search", "remove"} /\ request.key \in Keys
         \/ where = "range" /\ request.kind = "range" /\ request.from \in Keys
  PROVE  OInv'
<1>1. /\ op' = request /\ pc' = where /\ curr' = root /\ promo' = key
      /\ UNCHANGED <<tree, path, r_child, seen, status, faults>>
  BY DEF Call
<1>2. path = <<>> /\ r_child = NoNode /\ pc = "idle"
  BY IdleCall DEF Ready
<1>3. ASSUME Sound, NEW lo \in Places, NEW hi \in Places, NEW at \in Places, NEW top \in Nat,
             InOrder(lo, hi, at, top)
      PROVE  InCall(lo, hi)'
  <2>1. root # NoNode => lo[root] = 0 /\ hi[root] = 0
    BY <1>2, <1>3 DEF InOrder, Placed, Topped
  <2>2. \A k \in Keys : k \in Nat /\ k > 0
    BY KeysAssumption
  <2>3. heap' = heap /\ alive' = alive /\ root' = root
    BY <1>1 DEF tree
  <2>4. Insertion(lo, hi)'
    <3>1. DOMAIN path' = {}
      BY <1>1, <1>2
    <3>2. where = "descend" => Gap(lo[root], hi[root], key)
      BY <2>1, <2>2 DEF Gap
    <3> QED
      BY <1>1, <1>2, <3>1, <3>2 DEF Insertion
  <2>5. Removal(lo, hi)'
    <3>1. where = "find" /\ root # NoNode => Gap(lo[root], hi[root], request.key)
      BY <2>1, <2>2 DEF Gap
    <3> QED
      BY <1>1, <3>1 DEF Removal
  <2>6. Query(lo)'
    <3>1. SUFFICES ASSUME where = "range" PROVE Query(lo)'
      <4>1. where # "idle"
        OBVIOUS
      <4> QED
        BY <1>1, <4>1 DEF Query
    <3>2. seen = <<>> /\ seen' = <<>>
      <4>1. seen = <<>>
        BY <1>2, <1>3 DEF InOrder, InCall, Query
      <4> QED
        BY <1>1, <4>1
    <3>3. Ascending(seen')
      BY <3>2 DEF Ascending
    <3>4. request.from \in Nat /\ (root # NoNode => lo[root] <= request.from)
      BY <1>1, <2>1, <2>2, <3>1
    <3>5. ToSet(seen') = {}
      BY <3>2 DEF ToSet
    <3>6. root # NoNode => {k \in Contents' : request.from <= k /\ k < lo[root] /\ k <= request.to} = {}
      <4>1. Contents' = Contents /\ Contents \subseteq Nat
        BY <2>3, ContentsTyped DEF Contents, Leaves
      <4>2. ASSUME root # NoNode, NEW k \in Contents', request.from <= k, k < lo[root] PROVE FALSE
        <5>1. k \in Nat /\ lo[root] = 0
          BY <2>1, <4>1, <4>2
        <5> QED
          BY <4>2, <5>1
      <4> QED
        BY <4>2
    <3> QED
      BY <1>1, <3>3, <3>4, <3>5, <3>6, <2>3, <3>1 DEF Query
  <2>7. Kinds'
    BY <1>1, <1>2, <2>3 DEF Kinds
  <2> QED
    BY <2>4, <2>5, <2>6, <2>7 DEF InCall
<1> QED
  BY <1>1, <1>2, <1>3, GoesInOrder

-----------------------------------------------------------------------------
(* Nobody waits: the nodes are as they will be, and each leads its children. *)
LEMMA PlainNode ==
  ASSUME IInv, Sound, r_child = NoNode, NEW lo \in Places, NEW hi \in Places, NEW at, NEW top,
         Placed(lo, hi, at, top), NEW q \in alive
  PROVE  /\ Now(q) = heap[q] /\ heap[q] \in NodeOf(Keys, Nat) /\ Shaped(heap[q])
         /\ lo[q] \in Nat /\ hi[q] \in Nat /\ Covers(heap[q], lo[q], hi[q])
         /\ Ascending(heap[q].keys)
         /\ Len(heap[q].keys) \in Nat
<1>1. q \in Nodes /\ q # NoNode /\ Waiter = NoNode
  BY SoundFacts, WaiterProps
<1>2. Now(q) = heap[q]
  BY <1>1 DEF Now
<1>3. heap[q] \in NodeOf(Keys, Nat) /\ Shaped(heap[q])
  BY <1>1 DEF IInv, StoreTypes, Shapes
<1>4. lo[q] \in Nat /\ hi[q] \in Nat
  BY <1>1 DEF Places
<1>5. Covers(heap[q], lo[q], hi[q])
  BY <1>2 DEF Placed, Bounded
<1> QED
  BY <1>2, <1>3, <1>4, <1>5 DEF Covers, NodeOf

LEMMA PlainChild ==
  ASSUME IInv, Sound, r_child = NoNode, NEW lo \in Places, NEW hi \in Places, NEW at, NEW top,
         Placed(lo, hi, at, top), NEW q \in alive, ~heap[q].leaf,
         NEW pos \in 0 .. Len(heap[q].keys), NEW m, m = Load(heap[q].children[pos + 1])
  PROVE  /\ m \in alive /\ m # NoNode /\ heap[m].rrn = heap[q].children[pos + 1]
         /\ lo[m] = Lower(heap[q], lo[q], pos + 1) /\ hi[m] = Upper(heap[q], hi[q], pos + 1)
<1>1. q \in Nodes /\ Now(q) = heap[q] /\ Len(heap[q].keys) \in Nat
  BY SoundFacts, PlainNode
<1>2. heap[q].children[pos + 1] \in ToSet(heap[q].children)
  BY <1>1, ChildAt
<1>3. m \in alive /\ heap[m].rrn = heap[q].children[pos + 1] /\ m # NoNode
  BY <1>2, SoundFacts
<1>4. NowIs(q)
  BY NowProps
<1>5. pos + 1 \in DOMAIN Now(q).children
  BY <1>1, <1>4 DEF NowIs
<1>6. lo[m] = Lower(Now(q), lo[q], pos + 1) /\ hi[m] = Upper(Now(q), hi[q], pos + 1)
  BY <1>1, <1>3, <1>5 DEF Placed, Led
<1> QED
  BY <1>1, <1>3, <1>6

(* A search or an insertion that goes down a level stays around its key. *)
LEMMA GoesDown ==
  ASSUME IInv, Sound, r_child = NoNode, NEW lo \in Places, NEW hi \in Places, NEW at, NEW top,
         Placed(lo, hi, at, top), NEW q \in alive, ~heap[q].leaf, NEW key \in Keys,
         Gap(lo[q], hi[q], key), ~Found(heap[q], key),
         NEW m, m = Load(heap[q].children[SearchPos(heap[q], key) + 1])
  PROVE  m \in alive /\ Gap(lo[m], hi[m], key)
         /\ heap[m].rrn = heap[q].children[SearchPos(heap[q], key) + 1]
<1>1. /\ heap[q] \in NodeOf(Keys, Nat) /\ Ascending(heap[q].keys) /\ Keys \in SUBSET Nat /\ key \in Nat
  BY PlainNode, KeysAssumption
<1>2. PICK pos \in 0 .. Len(heap[q].keys) : pos = SearchPos(heap[q], key)
  BY <1>1, SearchPosRange
<1>3. /\ m \in alive /\ heap[m].rrn = heap[q].children[pos + 1]
      /\ lo[m] = Lower(heap[q], lo[q], pos + 1) /\ hi[m] = Upper(heap[q], hi[q], pos + 1)
  BY <1>2, PlainChild
<1>4. Gap(Lower(heap[q], lo[q], pos + 1), Upper(heap[q], hi[q], pos + 1), key)
  BY <1>1, <1>2, ChildGap
<1> QED
  BY <1>2, <1>3, <1>4

(* Where the members of a sequence are when it has got one more. *)
LEMMA OneMore ==
  ASSUME NEW s, NEW t, NEW x, Len(s) \in Nat, Len(t) = Len(s) + 1,
         DOMAIN s = 1 .. Len(s), DOMAIN t = 1 .. Len(s) + 1,
         \A i \in 1 .. Len(s) : t[i] = s[i], t[Len(s) + 1] = x, NEW i \in DOMAIN t
  PROVE  \/ i = Len(t) /\ t[i] = x
         \/ i = Len(s) /\ i \in DOMAIN s /\ i # Len(t) /\ t[i] = s[i] /\ t[i + 1] = x
         \/ /\ i # Len(s) /\ i \in DOMAIN s /\ i # Len(t) /\ t[i] = s[i]
            /\ i + 1 \in DOMAIN s /\ t[i + 1] = s[i + 1]
<1>1. PICK n \in Nat : n = Len(s)
  OBVIOUS
<1>2. i \in 1 .. n + 1
  BY <1>1
<1>3. CASE i = n + 1
  BY <1>1, <1>3
<1>4. CASE i = n
  <2>0. n >= 1 /\ n # n + 1
    BY <1>2, <1>4
  <2>1. i \in 1 .. n /\ i # n + 1
    BY <1>4, <2>0
  <2> QED
    BY <1>1, <1>4, <2>1
<1>5. CASE i < n
  <2>1. i \in 1 .. n /\ i + 1 \in 1 .. n /\ i # n /\ i # n + 1
    BY <1>1, <1>2, <1>5
  <2> QED
    BY <1>1, <2>1
<1> QED
  BY <1>1, <1>2, <1>3, <1>4, <1>5

LEMMA DescendInOrder == ASSUME IInv, OInv, Descend PROVE OInv'
<1> DEFINE p == heap[curr]
           pos == SearchPos(p, promo)
           child == Load(p.children[pos + 1])
<1>1. /\ At("descend") /\ pc = "descend" /\ curr \in alive /\ status = "running" /\ r_child = NoNode
      /\ promo \in Keys
      /\ UNCHANGED <<tree, faults, status>>
  BY DEF Descend, At, IInv, Control
<1>2. ASSUME NEW code, Return(code) PROVE OInv'
  <2>1. Sound' => Sound
    BY <1>1 DEF Sound
  <2> QED
    BY <1>1, <1>2, <2>1, ReturnsInOrder DEF Return
<1>3. CASE ~Found(p, promo) /\ p.leaf /\ pc' = (IF Full(p) THEN "split" ELSE "leaf")
           /\ UNCHANGED <<op, frame, answer>>
  <2>1. curr' = curr /\ path' = path /\ promo' = promo /\ r_child' = r_child /\ op' = op /\ heap' = heap
        /\ seen' = seen
    BY <1>1, <1>3 DEF frame, tree
  <2>2. ASSUME NEW lo, NEW hi, InCall(lo, hi) PROVE InCall(lo, hi)'
    <3>1. Insertion(lo, hi)'
      BY <1>1, <1>3, <2>1, <2>2 DEF InCall, Insertion
    <3>2. Removal(lo, hi)' /\ Query(lo)'
      BY <1>3 DEF Removal, Query
    <3>3. Kinds'
      BY <1>1, <1>3, <2>1, <2>2 DEF InCall, Kinds
    <3> QED
      BY <3>1, <3>2, <3>3 DEF InCall
  <2> QED
    BY <1>1, <1>3, <2>1, <2>2, GoesInOrder DEF InOrder
<1>4. CASE ~Found(p, promo) /\ ~p.leaf /\ child # NoNode
           /\ path' = Append(path, [node |-> curr, pos |-> pos]) /\ curr' = child
           /\ UNCHANGED <<op, pc, promo, r_child, seen, answer>>
  <2>1. ASSUME Sound, NEW lo \in Places, NEW hi \in Places, NEW at \in Places, NEW top \in Nat,
               InOrder(lo, hi, at, top)
        PROVE  InCall(lo, hi)'
    <3>1. Gap(lo[curr], hi[curr], promo)
      BY <1>1, <2>1 DEF InOrder, InCall, Insertion
    <3>2. child \in alive /\ Gap(lo[child], hi[child], promo)
          /\ heap[child].rrn = heap[curr].children[SearchPos(heap[curr], promo) + 1]
      BY <1>1, <1>4, <2>1, <3>1, GoesDown DEF InOrder
    <3>3. heap' = heap
      BY <1>1 DEF tree
    <3>4. \A i \in DOMAIN path' :
            heap[path'[i].node].children[path'[i].pos + 1]
              = heap[IF i = Len(path') THEN curr' ELSE path'[i + 1].node].rrn
      <4>1. \A i \in DOMAIN path :
              heap[path[i].node].children[path[i].pos + 1]
                = heap[IF i = Len(path) THEN curr ELSE path[i + 1].node].rrn
        BY <1>1, <2>1 DEF InOrder, InCall, Insertion
      <4>2. path \in Seq([node : Nodes, pos : 0 .. Order - 1])
        BY DEF IInv, CallTypes
      <4>3. PICK fr : fr = [node |-> curr, pos |-> pos]
        OBVIOUS
      <4>4. /\ Len(path) \in Nat /\ Len(path') = Len(path) + 1
            /\ DOMAIN path = 1 .. Len(path) /\ DOMAIN path' = 1 .. Len(path) + 1
            /\ \A i \in 1 .. Len(path) : path'[i] = path[i]
            /\ path'[Len(path) + 1] = fr
        BY <1>4, <4>2, <4>3
      <4>5. ASSUME NEW i \in DOMAIN path'
            PROVE  heap[path'[i].node].children[path'[i].pos + 1]
                     = heap[IF i = Len(path') THEN curr' ELSE path'[i + 1].node].rrn
        <5>1. \/ i = Len(path') /\ path'[i] = fr
              \/ i = Len(path) /\ i \in DOMAIN path /\ i # Len(path') /\ path'[i] = path[i] /\ path'[i + 1] = fr
              \/ i # Len(path) /\ i \in DOMAIN path /\ i # Len(path') /\ path'[i] = path[i]
                   /\ path'[i + 1] = path[i + 1]
          BY <4>4, OneMore
        <5> QED
          BY <1>4, <3>2, <4>1, <4>3, <5>1
      <4> QED
        BY <4>5
    <3>5. Insertion(lo, hi)'
      BY <1>1, <1>4, <3>2, <3>3, <3>4 DEF Insertion
    <3>6. Removal(lo, hi)' /\ Query(lo)'
      BY <1>1, <1>4 DEF Removal, Query
    <3>7. Kinds'
      BY <1>1, <1>4, <2>1 DEF InOrder, InCall, Kinds
    <3> QED
      BY <3>5, <3>6, <3>7 DEF InCall
  <2> QED
    BY <1>1, <1>4, <2>1, GoesInOrder
<1> QED
  BY <1>2, <1>3, <1>4 DEF Descend

-----------------------------------------------------------------------------
(* The sequences a range query puts together. *)
LEMMA Joined ==
  ASSUME NEW K \in SUBSET Nat, NEW s \in Seq(K), NEW t \in Seq(K), Ascending(s), Ascending(t),
         \A x \in ToSet(s), y \in ToSet(t) : x < y
  PROVE  Ascending(s \o t) /\ ToSet(s \o t) = ToSet(s) \cup ToSet(t)
<1>1. PICK m \in Nat, n \in Nat : m = Len(s) /\ n = Len(t)
  OBVIOUS
<1>2. /\ DOMAIN s = 1 .. m /\ DOMAIN t = 1 .. n /\ DOMAIN (s \o t) = 1 .. m + n
      /\ \A i \in 1 .. m + n : (s \o t)[i] = IF i <= m THEN s[i] ELSE t[i - m]
  BY <1>1
<1>3. PICK z : z = s \o t
  OBVIOUS
<1>7. /\ \A x : x \in ToSet(s) <=> \E i \in 1 .. m : s[i] = x
      /\ \A x : x \in ToSet(t) <=> \E i \in 1 .. n : t[i] = x
      /\ \A x : x \in ToSet(z) <=> \E i \in 1 .. m + n : z[i] = x
  <2>1. DOMAIN z = 1 .. m + n
    BY <1>2, <1>3
  <2> QED
    BY <1>2, <2>1 DEF ToSet
<1>4. /\ \A i \in 1 .. m : s[i] \in ToSet(s) /\ s[i] \in Nat
      /\ \A i \in 1 .. n : t[i] \in ToSet(t) /\ t[i] \in Nat
  <2>1. \A i \in 1 .. m : s[i] \in Nat
    <3>1. \A i \in 1 .. Len(s) : s[i] \in K
      OBVIOUS
    <3> QED
      BY <1>1, <3>1
  <2>2. \A i \in 1 .. n : t[i] \in Nat
    <3>1. \A i \in 1 .. Len(t) : t[i] \in K
      OBVIOUS
    <3> QED
      BY <1>1, <3>1
  <2> QED
    BY <1>7, <2>1, <2>2
<1>5. Ascending(z)
  <2>1. SUFFICES ASSUME NEW i \in 1 .. m + n, NEW j \in 1 .. m + n, i < j PROVE z[i] < z[j]
    BY <1>2, <1>3 DEF Ascending
  <2>2. CASE j <= m
    <3>1. i \in 1 .. m /\ j \in 1 .. m /\ i <= m
      BY <2>1, <2>2
    <3>2. s[i] < s[j]
      BY <1>2, <2>1, <3>1 DEF Ascending
    <3>3. z[i] = s[i] /\ z[j] = s[j]
      BY <1>2, <1>3, <2>2, <3>1
    <3> QED
      BY <3>2, <3>3
  <2>3. CASE i <= m /\ j > m
    <3>1. i \in 1 .. m /\ j - m \in 1 .. n
      BY <2>1, <2>3
    <3>2. z[i] = s[i] /\ z[j] = t[j - m]
      BY <1>2, <1>3, <2>1, <2>3
    <3> QED
      BY <1>4, <3>1, <3>2
  <2>4. CASE i > m
    <3>1. i - m \in 1 .. n /\ j - m \in 1 .. n /\ i - m < j - m
      BY <2>1, <2>4
    <3>2. z[i] = t[i - m] /\ z[j] = t[j - m]
      BY <1>2, <1>3, <2>1, <2>4
    <3> QED
      BY <1>2, <3>1, <3>2 DEF Ascending
  <2> QED
    BY <2>2, <2>3, <2>4
<1>6. ToSet(z) = ToSet(s) \cup ToSet(t)
  <2>1. \A i \in 1 .. m : i \in 1 .. m + n /\ z[i] = s[i]
    BY <1>2, <1>3
  <2>2. \A i \in 1 .. n : i + m \in 1 .. m + n /\ z[i + m] = t[i]
    BY <1>2, <1>3
  <2>3. \A i \in 1 .. m + n : z[i] \in ToSet(s) \cup ToSet(t)
    <3>1. \A i \in 1 .. m + n : i > m => i - m \in 1 .. n
      OBVIOUS
    <3> QED
      BY <1>2, <1>3, <1>4, <3>1
  <2>4. \A x \in ToSet(s) : x \in ToSet(z)
    BY <1>7, <2>1
  <2>5. \A x \in ToSet(t) : x \in ToSet(z)
    BY <1>7, <2>2
  <2>6. \A x \in ToSet(z) : x \in ToSet(s) \cup ToSet(t)
    BY <1>7, <2>3
  <2> QED
    BY <2>4, <2>5, <2>6
<1> QED
  BY <1>3, <1>5, <1>6

LEMMA OneKey ==
  ASSUME NEW K \in SUBSET Nat, NEW s \in Seq(K), NEW x \in K, Ascending(s), \A y \in ToSet(s) : y < x
  PROVE  Append(s, x) \in Seq(K) /\ Ascending(Append(s, x)) /\ ToSet(Append(s, x)) = ToSet(s) \cup {x}
<1>1. PICK t \in Seq(K) : t = <<x>>
  <2>1. <<x>> \in Seq(K) /\ Append(s, x) = s \o <<x>>
    OBVIOUS
  <2> QED
    BY <2>1
<1>2. Append(s, x) = s \o t /\ Append(s, x) \in Seq(K)
  BY <1>1
<1>3. Ascending(t) /\ ToSet(t) = {x}
  BY <1>1 DEF Ascending, ToSet
<1>4. \A y \in ToSet(s), w \in ToSet(t) : y < w
  BY <1>3
<1>5. Ascending(s \o t) /\ ToSet(s \o t) = ToSet(s) \cup ToSet(t)
  BY <1>3, <1>4, Joined
<1> QED
  BY <1>2, <1>3, <1>5

Within(r, p, from, to) ==
  /\ r \in Seq(Keys) /\ Ascending(r)
  /\ ToSet(r) = {k \in ToSet(p.keys) : from <= k /\ k <= to}

LEMMA InRangeProps ==
  ASSUME NEW p \in NodeOf(Keys, Nat), Ascending(p.keys), NEW from \in Nat, NEW to \in Nat
  PROVE  Within(InRange(p, from, to), p, from, to)
<1>0. PICK r : r = InRange(p, from, to)
  OBVIOUS
<1>1. /\ p.keys \in Seq(Keys) /\ Keys \in SUBSET Nat /\ DOMAIN p.keys = 1 .. Len(p.keys)
      /\ Len(p.keys) \in Nat /\ \A i \in 1 .. Len(p.keys) : p.keys[i] \in Keys /\ p.keys[i] \in Nat
  BY KeysAssumption, KeysTyped
<1>2. PICK n \in 0 .. Len(p.keys) : n = RangePos(p, to)
  BY RangePosRange
<1>3. PICK g : /\ r = g[n] /\ g[0] = <<>>
               /\ \A i \in 1 .. n : g[i] = Turn(p, from, i, g[i - 1])
  BY <1>0, <1>2, InRangeLoop
<1> DEFINE Among(i) == {k \in Keys : from <= k /\ \E j \in 1 .. i : p.keys[j] = k}
           V == {x \in (0 .. n) \X Seq(Keys) : Ascending(x[2]) /\ ToSet(x[2]) = Among(x[1])}
           f == [i \in 0 .. n |-> <<i, g[i]>>]
<1>4. n \in Nat
  BY <1>1, <1>2
<1>5. f[0] \in V
  <2>1. <<>> \in Seq(Keys) /\ Ascending(<<>>) /\ ToSet(<<>>) = {}
    BY DEF Ascending, ToSet
  <2>2. Among(0) = {}
    OBVIOUS
  <2>3. 0 \in 0 .. n /\ f[0] = <<0, <<>>>>
    BY <1>3, <1>4
  <2> HIDE DEF Among, f
  <2>4. <<0, <<>>>> \in V
    BY <2>1, <2>2, <2>3
  <2> QED
    BY <2>3, <2>4
<1>6. ASSUME NEW i \in 1 .. n, f[i - 1] \in V PROVE f[i] \in V
  <2>1. i - 1 \in 0 .. n /\ i \in 0 .. n /\ i # 0 /\ i > 0 /\ i \in 1 .. Len(p.keys) /\ i \in Nat
    BY <1>1, <1>2
  <2>2. PICK s : s = g[i - 1]
    OBVIOUS
  <2>3. s \in Seq(Keys) /\ Ascending(s) /\ ToSet(s) = Among(i - 1)
    BY <1>6, <2>1, <2>2
  <2>4. g[i] = IF p.keys[i] >= from THEN Append(s, p.keys[i]) ELSE s
    BY <1>3, <2>1, <2>2 DEF Turn
  <2>5. p.keys[i] \in Keys /\ p.keys[i] \in Nat
    BY <1>1, <2>1
  <2>6. Among(i) = Among(i - 1) \cup (IF p.keys[i] >= from THEN {p.keys[i]} ELSE {})
    <3>1. \A j : j \in 1 .. i <=> j = i \/ j \in 1 .. i - 1
      BY <2>1
    <3>2. \A k \in Nat : k >= from <=> from <= k
      OBVIOUS
    <3> QED
      BY <2>5, <3>1, <3>2
  <2>7. CASE p.keys[i] >= from
    <3>1. \A y \in ToSet(s) : y < p.keys[i]
      <4>1. SUFFICES ASSUME NEW j \in 1 .. i - 1 PROVE p.keys[j] < p.keys[i]
        BY <2>3
      <4>2. j \in 1 .. Len(p.keys) /\ j < i
        BY <1>1, <2>1
      <4> QED
        BY <1>1, <2>1, <4>2 DEF Ascending
    <3>2. PICK z : z = Append(s, p.keys[i])
      OBVIOUS
    <3>3. z \in Seq(Keys) /\ Ascending(z) /\ ToSet(z) = ToSet(s) \cup {p.keys[i]}
      BY <1>1, <2>3, <2>5, <3>1, <3>2, OneKey
    <3>4. g[i] = z /\ ToSet(z) = Among(i)
      BY <2>3, <2>4, <2>6, <2>7, <3>2, <3>3
    <3> QED
      BY <2>1, <3>3, <3>4
  <2>8. CASE ~(p.keys[i] >= from)
    <3>1. g[i] = s /\ ToSet(s) = Among(i)
      BY <2>3, <2>4, <2>6, <2>8
    <3> QED
      BY <2>1, <2>3, <3>1
  <2> QED
    BY <2>7, <2>8
<1>7. f[n] \in V
  <2>1. \A i \in 0 .. n : f[i] \in V
    <3> HIDE DEF f, V
    <3> QED
      BY <1>4, <1>5, <1>6, LoopStays
  <2>2. n \in 0 .. n
    BY <1>4
  <2> QED
    BY <2>1, <2>2
<1>8. r \in Seq(Keys) /\ Ascending(r) /\ ToSet(r) = Among(n)
  <2>1. n \in 0 .. n
    BY <1>4
  <2> QED
    BY <1>3, <1>7, <2>1
<1>9. Among(n) = {k \in ToSet(p.keys) : from <= k /\ k <= to}
  <2>1. \A i \in 1 .. Len(p.keys) : i <= n <=> p.keys[i] <= to
    BY <1>1, <1>2, RangePosProps
  <2>2. \A i : i \in 1 .. n <=> i \in 1 .. Len(p.keys) /\ i <= n
    BY <1>1, <1>2
  <2>3. \A k : k \in ToSet(p.keys) <=> \E i \in 1 .. Len(p.keys) : p.keys[i] = k
    BY <1>1 DEF ToSet
  <2> QED
    BY <1>1, <2>1, <2>2, <2>3
<1> QED
  BY <1>0, <1>8, <1>9 DEF Within

-----------------------------------------------------------------------------
(* What the bounds of a leaf say of its keys. *)
LEMMA LeafIs ==
  ASSUME IInv, Sound, NEW lo \in Places, NEW hi \in Places, NEW at, NEW top,
         Placed(lo, hi, at, top), NEW n \in Leaves
  PROVE  /\ n \in alive /\ heap[n].leaf /\ Now(n) = heap[n] /\ n # Waiter /\ at[n] = top
         /\ heap[n] \in NodeOf(Keys, Nat) /\ Shaped(heap[n])
         /\ lo[n] \in Nat /\ hi[n] \in Nat /\ Covers(heap[n], lo[n], hi[n])
         /\ Ascending(heap[n].keys) /\ DOMAIN heap[n].keys = 1 .. Len(heap[n].keys)
         /\ Len(heap[n].keys) \in Nat
         /\ \A k \in ToSet(heap[n].keys) :
              k \in Keys /\ k \in Nat /\ lo[n] <= k /\ (hi[n] = 0 \/ k < hi[n])
         /\ lo[n] # 0 => heap[n].keys # <<>> /\ heap[n].keys[1] = lo[n]
<1>1. n \in alive /\ heap[n].leaf /\ n \in Nodes
  BY SoundFacts DEF Leaves
<1>2. n # Waiter
  BY <1>1, SoundFacts, WaiterProps
<1>3. Now(n) = heap[n]
  BY <1>2 DEF Now
<1>4. at[n] = top /\ Covers(heap[n], lo[n], hi[n])
  BY <1>1, <1>3 DEF Placed, Heights, Bounded
<1>5. heap[n] \in NodeOf(Keys, Nat) /\ Shaped(heap[n]) /\ Keys \in SUBSET Nat
  BY <1>1, KeysAssumption DEF IInv, StoreTypes, Shapes
<1>6. /\ DOMAIN heap[n].keys = 1 .. Len(heap[n].keys) /\ Len(heap[n].keys) \in Nat
      /\ \A i \in 1 .. Len(heap[n].keys) : heap[n].keys[i] \in Keys /\ heap[n].keys[i] \in Nat
  BY <1>5, KeysTyped
<1>7. \A k \in ToSet(heap[n].keys) :
        k \in Keys /\ k \in Nat /\ lo[n] <= k /\ (hi[n] = 0 \/ k < hi[n])
  BY <1>1, <1>4, <1>6 DEF Covers, ToSet
<1>8. lo[n] \in Nat /\ hi[n] \in Nat
  BY <1>1 DEF Places
<1> QED
  BY <1>1, <1>2, <1>3, <1>4, <1>5, <1>6, <1>7, <1>8 DEF Covers

(* A key of the index is in the leaf that has it to itself. *)
LEMMA LeafHas ==
  ASSUME IInv, Sound, NEW lo \in Places, NEW hi \in Places, NEW at, NEW top,
         Placed(lo, hi, at, top), NEW n \in Leaves,
         NEW k \in Contents, lo[n] <= k, hi[n] = 0 \/ k < hi[n]
  PROVE  k \in ToSet(heap[n].keys)
<1>1. PICK m \in Leaves : k \in ToSet(heap[m].keys)
  BY DEF Contents
<1>2. /\ m \in alive /\ n \in alive /\ at[m] = at[n]
      /\ lo[m] \in Nat /\ hi[m] \in Nat /\ lo[n] \in Nat /\ hi[n] \in Nat /\ k \in Nat
      /\ lo[m] <= k /\ (hi[m] = 0 \/ k < hi[m])
  BY <1>1, LeafIs
<1>3. SUFFICES ASSUME m # n PROVE FALSE
  BY <1>1
<1>4. Before(hi[m], lo[n]) \/ Before(hi[n], lo[m])
  BY <1>2, <1>3 DEF Placed, Apart
<1> QED
  BY <1>2, <1>4 DEF Before

(* The key that a call looks for is in the index if the leaf has it. *)
LEMMA InLeaf ==
  ASSUME IInv, Sound, NEW lo \in Places, NEW hi \in Places, NEW at, NEW top,
         Placed(lo, hi, at, top), NEW n \in Leaves, NEW k \in Keys, Gap(lo[n], hi[n], k)
  PROVE  Found(heap[n], k) <=> k \in Contents
<1>1. heap[n] \in NodeOf(Keys, Nat) /\ Ascending(heap[n].keys) /\ lo[n] \in Nat /\ hi[n] \in Nat
  BY LeafIs
<1>2. Found(heap[n], k) <=> k \in ToSet(heap[n].keys)
  <2>1. Keys \in SUBSET Nat /\ k \in Nat
    BY KeysAssumption
  <2> QED
    BY <1>1, <2>1, FoundAmongKeys
<1>3. lo[n] <= k /\ (hi[n] = 0 \/ k < hi[n])
  BY <1>1, KeysAssumption DEF Gap
<1> QED
  BY <1>2, <1>3, LeafHas DEF Contents

-----------------------------------------------------------------------------
LEMMA FindNoRootInOrder == ASSUME IInv, OInv, FindNoRoot PROVE OInv'
<1>1. /\ status = "running" /\ pc = "find" /\ UNCHANGED <<tree, status, faults>>
      /\ ReturnKeys("not found", <<>>)
  BY DEF FindNoRoot, Return
<1>2. Sound' => Sound /\ r_child = NoNode /\ pc # "underflow"
  BY <1>1 DEF Sound, IInv, Control
<1> QED
  BY <1>1, <1>2, ReturnsInOrder

LEMMA RangeNoRootInOrder == ASSUME IInv, OInv, RangeNoRoot PROVE OInv'
<1>1. /\ status = "running" /\ pc = "range" /\ UNCHANGED <<tree, status, faults>>
      /\ ReturnKeys("keys", <<>>)
  BY DEF RangeNoRoot
<1>2. Sound' => Sound /\ r_child = NoNode /\ pc # "underflow"
  BY <1>1 DEF Sound, IInv, Control
<1> QED
  BY <1>1, <1>2, ReturnsInOrder

LEMMA FindInternalInOrder == ASSUME IInv, OInv, FindInternal PROVE OInv'
<1> DEFINE p == heap[curr]
           child == Load(p.children[SearchPos(p, op.key) + 1])
<1>1. /\ status = "running" /\ pc = "find" /\ curr \in alive /\ UNCHANGED <<tree, faults>> /\ ~p.leaf
      /\ r_child = NoNode /\ op.key \in Keys
  BY DEF FindInternal, At, IInv, Control
<1>2. ASSUME NEW code, Return(code), UNCHANGED status PROVE OInv'
  <2>1. Sound' => Sound
    BY <1>1, <1>2 DEF Sound
  <2> QED
    BY <1>1, <1>2, <2>1, ReturnsInOrder DEF Return
<1>3. CASE status' = "crashed"
  BY <1>3, StopsInOrder
<1>4. CASE ~Found(p, op.key) /\ child # NoNode /\ curr' = child
           /\ UNCHANGED <<op, pc, path, promo, r_child, seen, answer, status>>
  <2>1. ASSUME Sound, NEW lo \in Places, NEW hi \in Places, NEW at \in Places, NEW top \in Nat,
               InOrder(lo, hi, at, top)
        PROVE  InCall(lo, hi)'
    <3>1. Gap(lo[curr], hi[curr], op.key)
      <4>1. curr # NoNode
        BY <1>1, <2>1, SoundFacts
      <4> QED
        BY <1>1, <2>1, <4>1 DEF InOrder, InCall, Removal
    <3>2. Gap(lo[child], hi[child], op.key)
      BY <1>1, <1>4, <2>1, <3>1, GoesDown DEF InOrder
    <3>3. Removal(lo, hi)'
      BY <1>1, <1>4, <3>2 DEF Removal
    <3>4. Insertion(lo, hi)' /\ Query(lo)'
      BY <1>1, <1>4 DEF Insertion, Query
    <3>5. Kinds'
      BY <1>1, <1>4, <2>1 DEF InOrder, InCall, Kinds
    <3> QED
      BY <3>3, <3>4, <3>5 DEF InCall
  <2> QED
    BY <1>1, <1>4, <2>1, GoesInOrder
<1> QED
  BY <1>2, <1>3, <1>4 DEF FindInternal

LEMMA FindLeafInOrder == ASSUME IInv, OInv, FindLeaf PROVE OInv'
<1>1. /\ status = "running" /\ pc = "find" /\ curr \in alive /\ UNCHANGED <<tree, status, faults>>
      /\ r_child = NoNode /\ heap[curr].leaf
  BY DEF FindLeaf, At, IInv, Control
<1>2. ASSUME NEW code, Return(code) PROVE OInv'
  <2>1. Sound' => Sound
    BY <1>1 DEF Sound
  <2> QED
    BY <1>1, <1>2, <2>1, ReturnsInOrder DEF Return
<1>3. CASE op.kind = "remove" /\ pc' = "remove" /\ UNCHANGED <<op, frame, answer>>
  <2>0. UNCHANGED <<curr, path, promo, r_child, seen, op>>
    BY <1>3 DEF frame
  <2>1. ASSUME Sound, NEW lo \in Places, NEW hi \in Places, NEW at \in Places, NEW top \in Nat,
               InOrder(lo, hi, at, top)
        PROVE  InCall(lo, hi)'
    <3>1. Removal(lo, hi)'
      BY <1>1, <1>3, <2>0, <2>1 DEF Removal, InOrder, InCall
    <3>2. Insertion(lo, hi)' /\ Query(lo)'
      BY <1>3 DEF Insertion, Query
    <3>3. Kinds'
      BY <1>3, <2>0 DEF Kinds
    <3> QED
      BY <3>1, <3>2, <3>3 DEF InCall
  <2> QED
    BY <1>1, <1>3, <2>0, <2>1, GoesInOrder
<1> QED
  BY <1>2, <1>3 DEF FindLeaf

LEMMA StoppingInOrder ==
  ASSUME \/ ReadPastKeys \/ AllocationCrashes \/ RrnClashes \/ UncheckedAllocationCrashes
         \/ UseAfterFree \/ StaleRead
  PROVE  OInv'
<1>1. status' # "running"
  BY DEF ReadPastKeys, AllocationCrashes, RrnClashes, UncheckedAllocationCrashes, UseAfterFree,
         StaleRead
<1> QED
  BY <1>1, StopsInOrder

LEMMA AllocationFailsInOrder == ASSUME IInv, OInv, AllocationFails PROVE OInv'
<1>1. /\ status = "running" /\ pc \in {"first", "split", "newroot"} /\ UNCHANGED <<tree, status>>
      /\ faults' = faults \cup (IF r_child = NoNode THEN {} ELSE {"mem"})
      /\ ReturnKeys("memory", <<>>)
  BY DEF AllocationFails, Allocating, At, Return
<1>2. Sound' => Sound /\ r_child = NoNode /\ pc # "underflow"
  BY <1>1 DEF Sound
<1> QED
  BY <1>1, <1>2, ReturnsInOrder

-----------------------------------------------------------------------------
LEMMA RangeDownInOrder == ASSUME IInv, OInv, RangeDown PROVE OInv'
<1> DEFINE p == heap[curr]
           child == Load(p.children[RangePos(p, op.from) + 1])
<1>1. /\ status = "running" /\ pc = "range" /\ curr \in alive
      /\ UNCHANGED <<tree, faults, status>> /\ ~p.leaf
      /\ r_child = NoNode /\ op.from \in Keys /\ op.from \in Nat
  BY KeysAssumption DEF RangeDown, At, IInv, Control
<1>2. ASSUME ReturnKeys("keys", seen) PROVE OInv'
  <2>1. Sound' => Sound
    BY <1>1 DEF Sound
  <2> QED
    BY <1>1, <1>2, <2>1, ReturnsInOrder
<1>3. CASE curr' = child /\ UNCHANGED <<op, pc, path, promo, r_child, seen, answer>>
  <2>1. ASSUME Sound, NEW lo \in Places, NEW hi \in Places, NEW at \in Places, NEW top \in Nat,
               InOrder(lo, hi, at, top)
        PROVE  InCall(lo, hi)'
    <3>1. /\ p \in NodeOf(Keys, Nat) /\ Ascending(p.keys) /\ Keys \in SUBSET Nat
          /\ curr # NoNode /\ lo[curr] \in Nat
      BY <1>1, <2>1, SoundFacts, PlainNode, KeysAssumption DEF InOrder
    <3>2. PICK pos \in 0 .. Len(p.keys) : pos = RangePos(p, op.from)
      BY <3>1, RangePosRange
    <3>3. lo[curr] <= op.from /\ Ascending(seen)
          /\ ToSet(seen) = {k \in Contents : op.from <= k /\ k < lo[curr] /\ k <= op.to}
      BY <1>1, <2>1, <3>1 DEF InOrder, InCall, Query
    <3>4. child \in alive /\ child # NoNode /\ lo[child] = Lower(p, lo[curr], pos + 1)
          /\ lo[child] \in Nat
      <4>1. child \in alive /\ child # NoNode /\ lo[child] = Lower(p, lo[curr], pos + 1)
        BY <1>1, <2>1, <3>2, PlainChild DEF InOrder
      <4> QED
        BY <2>1, <4>1, SoundFacts DEF Places
    <3>5. lo[child] <= op.from
      BY <1>1, <3>1, <3>2, <3>3, <3>4, RangeBound
    <3>6. \A l \in Nat : l <= op.from => {k \in Contents : op.from <= k /\ k < l /\ k <= op.to} = {}
      BY <1>1, ContentsTyped
    <3>7. ToSet(seen) = {k \in Contents : op.from <= k /\ k < lo[child] /\ k <= op.to}
      BY <3>1, <3>3, <3>4, <3>5, <3>6
    <3>8. heap' = heap /\ Contents' = Contents /\ seen' = seen /\ op' = op /\ curr' = child
      BY <1>1, <1>3 DEF tree, Contents, Leaves
    <3>9. Query(lo)'
      BY <1>1, <1>3, <3>3, <3>5, <3>7, <3>8 DEF Query
    <3>10. Insertion(lo, hi)' /\ Removal(lo, hi)'
      BY <1>1, <1>3 DEF Insertion, Removal
    <3>11. Kinds'
      BY <1>1, <1>3, <2>1, <3>4 DEF InOrder, InCall, Kinds
    <3> QED
      BY <3>9, <3>10, <3>11 DEF InCall
  <2> QED
    BY <1>1, <1>3, <2>1, GoesInOrder
<1> QED
  BY <1>2, <1>3 DEF RangeDown

(* What a query has found once it is past a leaf, or past the last key.   *)
LEMMA FoundInLeaf ==
  ASSUME IInv, Sound, pc = "range", NEW lo \in Places, NEW hi \in Places, NEW at, NEW top,
         Placed(lo, hi, at, top), InCall(lo, hi), curr \in Leaves,
         NEW found, found = seen \o InRange(heap[curr], op.from, op.to)
  PROVE  /\ Ascending(found) /\ found \in Seq(Keys)
         /\ ToSet(found) = {k \in Contents : /\ op.from <= k /\ k <= op.to
                                             /\ hi[curr] # 0 => k < hi[curr]}
         /\ heap[curr].keys # <<>> /\ heap[curr].keys[1] > op.to =>
              ToSet(seen) = {k \in Contents : op.from <= k /\ k <= op.to}
<1> DEFINE p == heap[curr]
<1>1. /\ curr \in alive /\ curr # NoNode /\ op.from \in Keys /\ op.to \in Keys
      /\ op.from \in Nat /\ op.to \in Nat /\ seen \in Seq(Keys) /\ Keys \in SUBSET Nat
  BY SoundFacts, KeysAssumption DEF Leaves, IInv, Control, CallTypes
<1>2. /\ lo[curr] \in Nat /\ hi[curr] \in Nat /\ p \in NodeOf(Keys, Nat) /\ Ascending(p.keys)
      /\ \A k \in ToSet(p.keys) : k \in Nat /\ lo[curr] <= k /\ (hi[curr] = 0 \/ k < hi[curr])
  BY LeafIs
<1>3. /\ Ascending(seen)
      /\ ToSet(seen) = {k \in Contents : op.from <= k /\ k < lo[curr] /\ k <= op.to}
  BY <1>1 DEF InCall, Query
<1>4. PICK r : r = InRange(p, op.from, op.to)
  OBVIOUS
<1>5. /\ r \in Seq(Keys) /\ Ascending(r)
      /\ ToSet(r) = {k \in ToSet(p.keys) : op.from <= k /\ k <= op.to}
  <2>1. Within(r, p, op.from, op.to)
    BY <1>1, <1>2, <1>4, InRangeProps
  <2> QED
    BY <2>1 DEF Within
<1>6. \A x \in ToSet(seen), y \in ToSet(r) : x < y
  <2>1. SUFFICES ASSUME NEW x \in ToSet(seen), NEW y \in ToSet(r) PROVE x < y
    OBVIOUS
  <2>2. x \in Nat /\ x < lo[curr]
    BY <1>3, <2>1, ContentsTyped
  <2>3. y \in Nat /\ lo[curr] <= y
    BY <1>2, <1>5, <2>1
  <2> QED
    BY <1>2, <2>2, <2>3
<1>7. /\ Ascending(seen \o r) /\ ToSet(seen \o r) = ToSet(seen) \cup ToSet(r)
      /\ seen \o r \in Seq(Keys)
  <2>1. seen \o r \in Seq(Keys)
    BY <1>1, <1>5
  <2> QED
    BY <1>1, <1>3, <1>5, <1>6, <2>1, Joined
<1>8. \A k \in Contents : k \in Nat /\
        (lo[curr] <= k /\ (hi[curr] = 0 \/ k < hi[curr]) => k \in ToSet(p.keys))
  BY LeafHas, ContentsTyped
<1>9. \A k \in ToSet(p.keys) : k \in Contents
  BY DEF Contents
<1>10. ToSet(found) = {k \in Contents : /\ op.from <= k /\ k <= op.to
                                        /\ hi[curr] # 0 => k < hi[curr]}
  <2>1. ASSUME NEW k \in ToSet(found)
        PROVE  k \in Contents /\ op.from <= k /\ k <= op.to /\ (hi[curr] # 0 => k < hi[curr])
    <3>1. CASE k \in ToSet(seen)
      <4>1. k \in Contents /\ k \in Nat /\ op.from <= k /\ k <= op.to /\ k < lo[curr]
        BY <1>3, <1>8, <3>1
      <4>2. hi[curr] = 0 \/ lo[curr] < hi[curr]
        BY LeafIs DEF Covers
      <4> QED
        BY <1>2, <4>1, <4>2
    <3>2. CASE k \in ToSet(r)
      BY <1>2, <1>5, <1>9, <3>2
    <3> QED
      BY <1>4, <1>7, <2>1, <3>1, <3>2
  <2>2. ASSUME NEW k \in Contents, op.from <= k, k <= op.to, hi[curr] # 0 => k < hi[curr]
        PROVE  k \in ToSet(found)
    <3>1. CASE k < lo[curr]
      BY <1>3, <1>4, <1>7, <2>2, <3>1
    <3>2. CASE ~(k < lo[curr])
      <4>1. lo[curr] <= k
        BY <1>2, <1>8, <3>2
      <4>2. k \in ToSet(p.keys)
        BY <1>8, <2>2, <4>1
      <4> QED
        BY <1>4, <1>5, <1>7, <2>2, <4>2
    <3> QED
      BY <3>1, <3>2
  <2> QED
    BY <2>1, <2>2
<1>11. ASSUME p.keys # <<>>, p.keys[1] > op.to
       PROVE  ToSet(seen) = {k \in Contents : op.from <= k /\ k <= op.to}
  <2>1. \A k \in ToSet(p.keys) : p.keys[1] <= k /\ op.to < k
    <3>1. 1 \in DOMAIN p.keys /\ DOMAIN p.keys = 1 .. Len(p.keys)
      BY <1>2, <1>11, LeafIs
    <3>2. p.keys[1] \in ToSet(p.keys)
      BY <3>1 DEF ToSet
    <3>3. \A i \in DOMAIN p.keys : p.keys[i] \in Nat /\ (i # 1 => p.keys[1] < p.keys[i])
      <4>1. \A i \in DOMAIN p.keys : p.keys[i] \in Nat
        BY <1>2 DEF ToSet
      <4>2. \A i \in DOMAIN p.keys : i # 1 => 1 < i
        BY <3>1
      <4> QED
        BY <1>2, <3>1, <4>1, <4>2 DEF Ascending
    <3>4. ASSUME NEW i \in DOMAIN p.keys PROVE p.keys[1] <= p.keys[i] /\ op.to < p.keys[i]
      <4>1. p.keys[1] \in Nat /\ p.keys[i] \in Nat /\ op.to \in Nat /\ p.keys[1] > op.to
        BY <1>1, <1>2, <1>11, <3>1, <3>3
      <4>2. i = 1 \/ p.keys[1] < p.keys[i]
        BY <3>3
      <4> QED
        BY <4>1, <4>2
    <3> QED
      BY <3>4 DEF ToSet
  <2>2. \A k \in Contents : k <= op.to => k < lo[curr]
    <3>1. SUFFICES ASSUME NEW k \in Contents, k <= op.to, ~(k < lo[curr]) PROVE FALSE
      OBVIOUS
    <3>2. k \in Nat /\ lo[curr] <= k
      BY <1>2, <1>8, <3>1
    <3>3. CASE hi[curr] = 0 \/ k < hi[curr]
      BY <1>1, <1>8, <2>1, <3>1, <3>2, <3>3
    <3>4. CASE ~(hi[curr] = 0 \/ k < hi[curr])
      <4>1. p.keys[1] \in ToSet(p.keys)
        BY <1>11, LeafIs DEF ToSet
      <4>2. p.keys[1] \in Nat /\ p.keys[1] < hi[curr] /\ op.to < p.keys[1]
        BY <1>2, <2>1, <3>4, <4>1
      <4> QED
        BY <1>1, <1>2, <3>1, <3>2, <3>4, <4>2
    <3> QED
      BY <3>3, <3>4
  <2> QED
    BY <1>3, <2>2
<1> QED
  BY <1>4, <1>7, <1>10, <1>11

LEMMA RangeLeafInOrder == ASSUME IInv, OInv, RangeLeaf PROVE OInv'
<1> DEFINE p == heap[curr]
           found == seen \o InRange(p, op.from, op.to)
           next == Load(p.next_leaf)
<1>1. /\ status = "running" /\ pc = "range" /\ curr \in alive
      /\ UNCHANGED <<tree, faults, status>> /\ p.leaf
      /\ r_child = NoNode /\ op.from \in Keys /\ op.from \in Nat
  BY KeysAssumption DEF RangeLeaf, At, IInv, Control
<1>2. ASSUME NEW keys, ReturnKeys("keys", keys) PROVE OInv'
  <2>1. Sound' => Sound
    BY <1>1 DEF Sound
  <2> QED
    BY <1>1, <1>2, <2>1, ReturnsInOrder
<1>3. CASE p.next_leaf # NoRrn /\ next # NoNode /\ curr' = next /\ seen' = found
           /\ UNCHANGED <<op, pc, path, promo, r_child, answer>>
  <2>1. ASSUME Sound, NEW lo \in Places, NEW hi \in Places, NEW at \in Places, NEW top \in Nat,
               InOrder(lo, hi, at, top)
        PROVE  InCall(lo, hi)'
    <3>1. curr \in Leaves /\ curr # NoNode
      BY <1>1, <2>1, SoundFacts DEF Leaves
    <3>2. /\ Ascending(found)
          /\ ToSet(found) = {k \in Contents : /\ op.from <= k /\ k <= op.to
                                              /\ hi[curr] # 0 => k < hi[curr]}
      BY <1>1, <2>1, <3>1, FoundInLeaf DEF InOrder
    <3>3. PICK m \in Leaves : heap[m].rrn = p.next_leaf /\ lo[m] = hi[curr] /\ hi[curr] # 0
      BY <1>3, <2>1, <3>1 DEF InOrder, Placed, Linked
    <3>4. next = m
      BY <2>1, <3>3, SoundFacts DEF Leaves
    <3>5. heap[m].leaf /\ m # NoNode
      BY <2>1, <3>3, SoundFacts DEF Leaves
    <3>6. heap' = heap /\ Contents' = Contents /\ op' = op /\ curr' = m /\ pc' = "range"
          /\ seen' = found
      BY <1>1, <1>3, <3>4 DEF tree, Contents, Leaves
    <3>7. ToSet(found) = {k \in Contents : op.from <= k /\ k < lo[m] /\ k <= op.to}
      BY <3>2, <3>3
    <3>8. Query(lo)'
      BY <3>2, <3>5, <3>6, <3>7 DEF Query
    <3>9. Insertion(lo, hi)' /\ Removal(lo, hi)'
      BY <1>1, <1>3 DEF Insertion, Removal
    <3>10. Kinds'
      BY <1>1, <1>3, <2>1, <3>5, <3>6 DEF InOrder, InCall, Kinds
    <3> QED
      BY <3>8, <3>9, <3>10 DEF InCall
  <2> QED
    BY <1>1, <1>3, <2>1, GoesInOrder
<1> QED
  BY <1>2, <1>3 DEF RangeLeaf, Past

-----------------------------------------------------------------------------
(* A call of which nothing has gone wrong has written all it had to. *)
LEMMA WroteOne ==
  ASSUME StoreTypes, NEW h, NEW live \in SUBSET Nodes, NEW n \in live,
         NEW m \in Successes(1), NEW dropped, NEW extra,
         Distinct(h, live), WriteAs(h, live, <<n>>, m, dropped, extra), faults' = {}
  PROVE  m = 1 /\ heap' = h /\ alive' = live /\ faults = {} /\ extra = {}
<1>1. /\ m \in {0, 1}
      /\ Outcome(h, IF m = 1 THEN live ELSE live \ dropped, IF m = 1 THEN {n} ELSE {},
                 extra \cup (IF m = 1 THEN {} ELSE {"io"}))
  BY WriteOne
<1>2. m = 1
  BY <1>1 DEF Outcome
<1> QED
  BY <1>1, <1>2 DEF Outcome

LEMMA WroteTwo ==
  ASSUME StoreTypes, NEW h, NEW live \in SUBSET Nodes, NEW n \in live, NEW n2 \in live,
         NEW m \in Successes(2), NEW dropped, NEW extra,
         Distinct(h, live), WriteAs(h, live, <<n, n2>>, m, dropped, extra), faults' = {}
  PROVE  m = 2 /\ heap' = h /\ alive' = live /\ faults = {} /\ extra = {}
<1>1. /\ m \in {0, 1, 2}
      /\ Outcome(h, IF m = 2 THEN live ELSE live \ dropped, Firsts(n, n2, m),
                 extra \cup (IF m = 2 THEN {} ELSE {"io"}))
  BY WriteTwo
<1>2. m = 2
  BY <1>1 DEF Outcome
<1> QED
  BY <1>1, <1>2 DEF Outcome

(* A leaf that gets other keys keeps its place. *)
LEMMA LeafPlaces ==
  ASSUME IInv, Sound, r_child = NoNode, r_child' = NoNode, pc' # "newroot",
         alive' = alive, root' = root, curr \in Leaves,
         NEW q, heap' = [heap EXCEPT ![curr] = q],
         q.rrn = heap[curr].rrn, q.leaf = heap[curr].leaf, q.next_leaf = heap[curr].next_leaf,
         q.children = heap[curr].children,
         NEW lo, NEW hi, NEW at, NEW top, Placed(lo, hi, at, top), Covers(q, lo[curr], hi[curr])
  PROVE  Placed(lo, hi, at, top)'
<1>1. /\ Waiter = NoNode /\ pc # "newroot" /\ Waiter' = NoNode
      /\ curr \in alive /\ heap[curr].leaf
  BY WaiterProps DEF Waiter, Leaves
<1>2. DOMAIN heap = Nodes /\ alive \subseteq Nodes
  BY SoundFacts DEF IInv, StoreTypes
<1>3. \A n \in alive : n # NoNode /\ Now(n) = heap[n] /\ Now(n)' = heap'[n]
  BY <1>1, SoundFacts DEF Now
<1>4. heap'[curr] = q /\ \A n \in alive : n # curr => heap'[n] = heap[n]
  BY <1>1, <1>2
<1>5. DOMAIN Now(curr).children = {}
  BY <1>1, NowProps DEF NowIs
<1>6. \A n \in alive :
        /\ heap'[n].rrn = heap[n].rrn /\ heap'[n].leaf = heap[n].leaf
        /\ heap'[n].next_leaf = heap[n].next_leaf
        /\ Now(n)'.children = Now(n).children
        /\ \/ Now(n)'.keys = Now(n).keys /\ Now(n)'.leaf = Now(n).leaf
           \/ heap[n].leaf /\ DOMAIN Now(n).children = {} /\ Covers(Now(n)', lo[n], hi[n])
  <2>1. ASSUME NEW n \in alive, n = curr
        PROVE  /\ heap'[n].rrn = heap[n].rrn /\ heap'[n].leaf = heap[n].leaf
               /\ heap'[n].next_leaf = heap[n].next_leaf
               /\ Now(n)'.children = Now(n).children
               /\ heap[n].leaf /\ DOMAIN Now(n).children = {} /\ Covers(Now(n)', lo[n], hi[n])
    <3>1. Now(n)' = q /\ heap'[n] = q /\ Now(n) = heap[n]
      BY <1>3, <1>4, <2>1
    <3> QED
      BY <1>1, <1>5, <2>1, <3>1
  <2>2. ASSUME NEW n \in alive, n # curr
        PROVE  heap'[n] = heap[n] /\ Now(n)' = Now(n)
    BY <1>3, <1>4, <2>2
  <2> QED
    BY <2>1, <2>2
<1>7. Tops' = Tops
  BY <1>1 DEF Tops
<1> QED
  BY <1>1, <1>6, <1>7, KeptPlaces

(* q is the leaf with the key. *)
LeafTook(q) ==
  /\ pc = "leaf" /\ Sound /\ r_child = NoNode /\ root' = root /\ alive' = alive
  /\ curr \in alive /\ curr \in Nodes /\ curr # NoNode /\ heap[curr].leaf
  /\ heap[curr] \in NodeOf(Keys, Nat) /\ Shaped(heap[curr])
  /\ promo \in Keys /\ promo \in Nat
  /\ q = InsertInNode(heap[curr], promo, NoRrn, SearchPos(heap[curr], promo))
  /\ q.leaf = heap[curr].leaf /\ q.rrn = heap[curr].rrn /\ q.next_leaf = heap[curr].next_leaf
  /\ q.children = heap[curr].children
  /\ Len(heap[curr].keys) \in Nat /\ Len(q.keys) = Len(heap[curr].keys) + 1
  /\ ToSet(q.keys) = ToSet(heap[curr].keys) \cup {promo}
  /\ heap' = [heap EXCEPT ![curr] = q] /\ Return("ok")

LEMMA LeafInsertDone ==
  ASSUME IInv, LeafInsert, Sound'
  PROVE  \E q : LeafTook(q)
<1>2. /\ pc = "leaf" /\ curr \in alive /\ status = "running" /\ r_child = NoNode /\ promo \in Keys
      /\ promo \in Nat /\ heap[curr].leaf /\ StoreTypes /\ Numbers /\ Shapes /\ curr # NoNode
      /\ root' = root /\ curr \in Nodes /\ Keys \in SUBSET Nat
  BY KeysAssumption DEF LeafInsert, At, IInv, Control, StoreTypes
<1>3. PICK q : q = InsertInNode(heap[curr], promo, NoRrn, SearchPos(heap[curr], promo))
  OBVIOUS
<1>4. heap[curr] \in NodeOf(Keys, Nat) /\ Shaped(heap[curr])
  BY <1>2 DEF StoreTypes, Shapes
<1>5. PICK pos \in 0 .. Len(heap[curr].keys) : pos = SearchPos(heap[curr], promo)
  BY <1>4, SearchPosRange
<1>6. /\ q.leaf = heap[curr].leaf /\ q.rrn = heap[curr].rrn /\ q.next_leaf = heap[curr].next_leaf
      /\ Len(heap[curr].keys) \in Nat /\ Len(q.keys) = Len(heap[curr].keys) + 1
      /\ ToSet(q.keys) = ToSet(heap[curr].keys) \cup {promo}
  <2>1. Added(heap[curr], InsertInNode(heap[curr], promo, NoRrn, pos), promo)
    BY <1>2, <1>4, KeyAdded
  <2> QED
    BY <1>3, <1>5, <2>1 DEF Added
<1>7. q.children = heap[curr].children
  BY <1>2, <1>3, <1>4 DEF InsertInNode, NodeOf
<1>8. PICK h : h = [heap EXCEPT ![curr] = q]
  OBVIOUS
<1>9. Distinct(h, alive)
  BY <1>2, <1>6, <1>8 DEF Numbers, Distinct, StoreTypes
<1>10. PICK m \in Successes(1) :
         /\ WriteAs(h, alive, <<curr>>, m, {}, {})
         /\ Return(IF m = 1 THEN "ok" ELSE "io")
  BY <1>3, <1>8 DEF LeafInsert, Write
<1>11. heap' = h /\ alive' = alive /\ faults = {} /\ m = 1
  <2>1. faults' = {} /\ alive \in SUBSET Nodes
    BY <1>2 DEF Sound, StoreTypes
  <2> QED
    BY <1>2, <1>9, <1>10, <2>1, WroteOne
<1>12. Sound
  BY <1>2, <1>11 DEF Sound
<1>13. LeafTook(q)
  BY <1>2, <1>3, <1>4, <1>6, <1>7, <1>8, <1>10, <1>11, <1>12 DEF LeafTook
<1> QED
  BY <1>13

LEMMA LeafInsertInOrder == ASSUME IInv, OInv, LeafInsert PROVE OInv'
<1>1. SUFFICES ASSUME Sound' PROVE \E lo, hi, at \in Places, top \in Nat : InOrder(lo, hi, at, top)'
  BY DEF OInv, Places, Nodes
<1>2. PICK q : LeafTook(q)
  BY <1>1, LeafInsertDone
<1>3. /\ pc = "leaf" /\ curr \in alive /\ r_child = NoNode /\ promo \in Keys /\ Sound
      /\ promo \in Nat /\ heap[curr].leaf /\ curr # NoNode
      /\ root' = root /\ curr \in Nodes /\ alive' = alive
      /\ heap[curr] \in NodeOf(Keys, Nat)
  BY <1>2 DEF LeafTook
<1>4. Keys \in SUBSET Nat /\ StoreTypes
  BY KeysAssumption DEF IInv
<1>5. q = InsertInNode(heap[curr], promo, NoRrn, SearchPos(heap[curr], promo))
  BY <1>2 DEF LeafTook
<1>6. /\ q.leaf = heap[curr].leaf /\ q.rrn = heap[curr].rrn /\ q.next_leaf = heap[curr].next_leaf
      /\ Len(heap[curr].keys) \in Nat /\ Len(q.keys) = Len(heap[curr].keys) + 1
      /\ q.children = heap[curr].children
  BY <1>2 DEF LeafTook
<1>7. heap' = [heap EXCEPT ![curr] = q] /\ Return("ok")
  BY <1>2 DEF LeafTook
<1>8. PICK lo \in Places, hi \in Places, at \in Places, top \in Nat : InOrder(lo, hi, at, top)
  BY <1>3 DEF OInv
<1>9. InCall(lo, hi)' /\ Short' = NoNode /\ pc' = "idle" /\ r_child' = NoNode
  BY <1>7, CallOver DEF Return
<1>10. Covers(q, lo[curr], hi[curr])
  <2>1. Gap(lo[curr], hi[curr], promo) /\ ~Found(heap[curr], promo)
    BY <1>3, <1>8 DEF InOrder, InCall, Insertion
  <2>2. lo[curr] \in Nat /\ hi[curr] \in Nat /\ Covers(heap[curr], lo[curr], hi[curr])
    BY <1>3, <1>8, PlainNode DEF InOrder
  <2> QED
    BY <1>3, <1>4, <1>5, <2>1, <2>2, CoversMore
<1>11. Placed(lo, hi, at, top)'
  <2>1. curr \in Leaves
    BY <1>3 DEF Leaves
  <2> QED
    BY <1>3, <1>6, <1>7, <1>8, <1>9, <1>10, <2>1, LeafPlaces DEF InOrder
<1>12. Filled'
  <2>1. Short = NoNode /\ pc # "newroot"
    BY <1>3 DEF Short
  <2>2. ASSUME NEW n \in alive PROVE Len(heap'[n].keys) >= IF n = root THEN 1 ELSE Half
    <3>1. n \in Nodes /\ n # NoNode /\ Len(heap[n].keys) \in Nat
      BY <1>3, <1>4, SoundFacts, NodeTyped
    <3>2. Len(heap[n].keys) >= IF n = root THEN 1 ELSE Half
      BY <1>8, <2>1, <3>1 DEF InOrder, Filled
    <3>3. CASE n = curr
      <4>1. Len(heap'[n].keys) = Len(heap[n].keys) + 1
        BY <1>3, <1>4, <1>6, <1>7, <3>3 DEF StoreTypes
      <4> QED
        BY <3>1, <3>2, <4>1, HalfBounds
    <3>4. CASE n # curr
      <4>1. heap'[n] = heap[n]
        BY <1>4, <1>7, <3>1, <3>4 DEF StoreTypes
      <4> QED
        BY <3>2, <4>1
    <3> QED
      BY <3>3, <3>4
  <2> QED
    BY <1>3, <1>9, <2>2 DEF Filled
<1> QED
  BY <1>8, <1>9, <1>11, <1>12 DEF InOrder

(* q is the leaf without the key; it may be short of keys. *)
LeafGave(q) ==
  /\ pc = "remove" /\ Sound /\ r_child = NoNode /\ root' = root /\ alive' = alive
  /\ curr \in alive /\ curr \in Nodes /\ curr # NoNode /\ heap[curr].leaf
  /\ heap[curr] \in NodeOf(Keys, Nat) /\ Shaped(heap[curr])
  /\ op.key \in Keys /\ op.key \in Nat /\ Found(heap[curr], op.key)
  /\ q = WithoutKey(heap[curr], op.key)
  /\ q.leaf = heap[curr].leaf /\ q.rrn = heap[curr].rrn /\ q.next_leaf = heap[curr].next_leaf
  /\ q.children = heap[curr].children /\ Len(q.keys) \in Nat
  /\ ~(curr = root /\ Len(q.keys) = 0)
  /\ heap' = [heap EXCEPT ![curr] = q]
  /\ IF curr # root /\ Len(q.keys) < Half
     THEN pc' = "underflow" /\ UNCHANGED <<op, frame, answer>>
     ELSE Return("ok")

LEMMA RemoveKeyDone ==
  ASSUME IInv, RemoveKey, Sound'
  PROVE  \E q : LeafGave(q)
<1>2. /\ pc = "remove" /\ curr \in alive /\ status = "running" /\ r_child = NoNode /\ op.key \in Keys
      /\ op.key \in Nat /\ heap[curr].leaf /\ StoreTypes /\ Numbers /\ Shapes /\ curr # NoNode
      /\ Found(heap[curr], op.key) /\ curr \in Nodes /\ Keys \in SUBSET Nat
  BY KeysAssumption DEF RemoveKey, At, IInv, Control, StoreTypes
<1>3. PICK q : q = WithoutKey(heap[curr], op.key)
  OBVIOUS
<1>4. heap[curr] \in NodeOf(Keys, Nat) /\ Shaped(heap[curr])
  BY <1>2 DEF StoreTypes, Shapes
<1>5. /\ q.leaf = heap[curr].leaf /\ q.rrn = heap[curr].rrn
      /\ Len(q.keys) = Len(heap[curr].keys) - 1 /\ q \in NodeOf(Keys, Nat)
  <2>1. PICK C : C = Nat
    OBVIOUS
  <2>8. PICK p \in NodeOf(Keys, C) : p = heap[curr]
    BY <1>4, <2>1
  <2>2. PICK key : p = heap[curr] /\ key = op.key
    BY <2>8
  <2>3. Shaped(p) /\ p.leaf /\ Found(p, key) /\ q = WithoutKey(p, key)
    BY <1>2, <1>3, <1>4, <2>2
  <2>4. q \in NodeOf(Keys, C)
    BY <2>3, WithoutKeyProps
  <2>5. Shaped(q) /\ q.rrn = p.rrn
    BY <2>3, WithoutKeyProps
  <2>7. q.leaf = p.leaf
    BY <2>3, WithoutKeyProps
  <2>6. Len(q.keys) = Len(p.keys) - 1
    BY <2>3, WithoutKeyProps
  <2> QED
    BY <2>1, <2>2, <2>4, <2>5, <2>6, <2>7
<1>6. q.next_leaf = heap[curr].next_leaf /\ q.children = heap[curr].children
  BY <1>3, <1>4 DEF WithoutKey, NodeOf
<1>7. Len(heap[curr].keys) \in Nat /\ Len(q.keys) \in Nat
  BY <1>4, <1>5 DEF NodeOf
<1>8. PICK h : h = [heap EXCEPT ![curr] = q]
  OBVIOUS
<1>9. Distinct(h, alive) /\ h[curr] = q
  BY <1>2, <1>5, <1>8 DEF Numbers, Distinct, StoreTypes
<1>10. PICK m \in Successes(1) :
         /\ ~(curr = root /\ Len(q.keys) = 0)
         /\ WriteAs(h, alive, <<curr>>, m, {}, {})
         /\ IF m = 1 /\ curr # root /\ Len(q.keys) < Half
            THEN pc' = "underflow" /\ UNCHANGED <<op, frame, answer>>
            ELSE Return(IF m = 1 THEN "ok" ELSE "io")
         /\ root' = root
  <2>1. faults' = {}
    BY DEF Sound
  <2>2. "stale" \notin faults'
    BY <2>1
  <2> QED
    BY <1>3, <1>8, <1>9, <2>2 DEF RemoveKey, Write
<1>11. heap' = h /\ alive' = alive /\ faults = {} /\ m = 1
  <2>1. faults' = {} /\ alive \in SUBSET Nodes
    BY <1>2 DEF Sound, StoreTypes
  <2> QED
    BY <1>2, <1>9, <1>10, <2>1, WroteOne
<1>12. Sound
  BY <1>2, <1>11 DEF Sound
<1>13. LeafGave(q)
  BY <1>2, <1>3, <1>4, <1>5, <1>6, <1>7, <1>8, <1>10, <1>11, <1>12 DEF LeafGave
<1> QED
  BY <1>13

LEMMA RemoveKeyInOrder == ASSUME IInv, OInv, RemoveKey PROVE OInv'
<1>1. SUFFICES ASSUME Sound' PROVE \E lo, hi, at \in Places, top \in Nat : InOrder(lo, hi, at, top)'
  BY DEF OInv, Places, Nodes
<1>2. PICK q : LeafGave(q)
  BY <1>1, RemoveKeyDone
<1>3. /\ pc = "remove" /\ curr \in alive /\ r_child = NoNode /\ op.key \in Keys /\ Sound
      /\ op.key \in Nat /\ heap[curr].leaf /\ curr # NoNode /\ Found(heap[curr], op.key)
      /\ root' = root /\ curr \in Nodes /\ alive' = alive
      /\ heap[curr] \in NodeOf(Keys, Nat) /\ Shaped(heap[curr])
  BY <1>2 DEF LeafGave
<1>4. Keys \in SUBSET Nat /\ StoreTypes
  BY KeysAssumption DEF IInv
<1>5. q = WithoutKey(heap[curr], op.key)
  BY <1>2 DEF LeafGave
<1>6. /\ q.leaf = heap[curr].leaf /\ q.rrn = heap[curr].rrn /\ q.next_leaf = heap[curr].next_leaf
      /\ q.children = heap[curr].children /\ Len(q.keys) \in Nat
      /\ ~(curr = root /\ Len(q.keys) = 0)
  BY <1>2 DEF LeafGave
<1>7. heap' = [heap EXCEPT ![curr] = q]
  BY <1>2 DEF LeafGave
<1>8. PICK lo \in Places, hi \in Places, at \in Places, top \in Nat : InOrder(lo, hi, at, top)
  BY <1>3 DEF OInv
<1>9. /\ InCall(lo, hi)' /\ r_child' = NoNode /\ pc' # "newroot"
      /\ Short' = IF curr # root /\ Len(q.keys) < Half THEN curr ELSE NoNode
  <2>1. CASE curr # root /\ Len(q.keys) < Half
    <3>1. pc' = "underflow" /\ UNCHANGED <<op, curr, path, promo, r_child, seen>>
      BY <1>2, <2>1 DEF LeafGave, frame
    <3>2. Short' = curr
      BY <3>1 DEF Short
    <3>3. Insertion(lo, hi)' /\ Query(lo)'
      BY <1>3, <3>1 DEF Insertion, Query
    <3>4. Removal(lo, hi)'
      BY <1>3, <2>1, <3>1 DEF Removal
    <3>5. Kinds'
      <4>1. op.kind = "remove"
        BY <1>3, <1>8 DEF InOrder, InCall, Kinds
      <4> QED
        BY <3>1, <4>1 DEF Kinds
    <3> QED
      BY <1>3, <2>1, <3>1, <3>2, <3>3, <3>4, <3>5 DEF InCall
  <2>2. CASE ~(curr # root /\ Len(q.keys) < Half)
    <3>1. ReturnKeys("ok", <<>>)
      BY <1>2, <2>2 DEF LeafGave, Return
    <3> QED
      BY <2>2, <3>1, CallOver
  <2> QED
    BY <2>1, <2>2
<1>10. Covers(q, lo[curr], hi[curr])
  <2>1. Gap(lo[curr], hi[curr], op.key)
    BY <1>3, <1>8 DEF InOrder, InCall, Removal
  <2>2. lo[curr] \in Nat /\ hi[curr] \in Nat /\ Covers(heap[curr], lo[curr], hi[curr])
    BY <1>3, <1>8, PlainNode DEF InOrder
  <2> QED
    BY <1>3, <1>4, <1>5, <2>1, <2>2, CoversLess
<1>11. Placed(lo, hi, at, top)'
  <2>1. curr \in Leaves
    BY <1>3 DEF Leaves
  <2> QED
    BY <1>3, <1>6, <1>7, <1>8, <1>9, <1>10, <2>1, LeafPlaces DEF InOrder
<1>12. Filled'
  <2>1. Short = NoNode /\ pc # "newroot"
    BY <1>3 DEF Short
  <2>2. ASSUME NEW n \in alive, n # Short' PROVE Len(heap'[n].keys) >= IF n = root THEN 1 ELSE Half
    <3>1. n \in Nodes /\ n # NoNode
      BY <1>3, SoundFacts
    <3>2. Len(heap[n].keys) >= IF n = root THEN 1 ELSE Half
      BY <1>8, <2>1, <3>1 DEF InOrder, Filled
    <3>3. CASE n = curr
      <4>1. heap'[n] = q
        BY <1>3, <1>4, <1>7, <3>3 DEF StoreTypes
      <4>2. CASE curr = root
        BY <1>6, <3>3, <4>1, <4>2
      <4>3. CASE curr # root
        <5>1. ~(Len(q.keys) < Half)
          BY <1>9, <2>2, <3>3, <4>3
        <5> QED
          BY <1>6, <3>3, <4>1, <4>3, <5>1, HalfBounds
      <4> QED
        BY <4>2, <4>3
    <3>4. CASE n # curr
      <4>1. heap'[n] = heap[n]
        BY <1>4, <1>7, <3>1, <3>4 DEF StoreTypes
      <4> QED
        BY <3>2, <4>1
    <3> QED
      BY <3>3, <3>4
  <2> QED
    BY <1>3, <1>9, <2>2 DEF Filled
<1> QED
  BY <1>8, <1>9, <1>11, <1>12 DEF InOrder

-----------------------------------------------------------------------------
(* The children of a node as it will be are live nodes. *)
LEMMA NowChildren ==
  ASSUME IInv, Sound, NEW q \in alive, NEW c \in ToSet(Now(q).children)
  PROVE  \E n \in alive : heap[n].rrn = c
<1>1. q \in Nodes /\ heap[q] \in NodeOf(Keys, Nat) /\ Shaped(heap[q])
  BY SoundFacts DEF IInv, StoreTypes, Shapes
<1>2. CASE q # Waiter
  <2>1. c \in ToSet(heap[q].children)
    BY <1>2 DEF Now
  <2> QED
    BY <2>1, SoundFacts
<1>3. CASE q = Waiter
  <2>0. q # NoNode
    BY SoundFacts
  <2>1. r_child \in alive /\ heap[q].leaf = FALSE /\ promo \in Keys /\ heap[r_child].rrn \in Nat
    BY <1>3, <2>0, WaiterProps
  <2>2. PICK p \in NodeOf(Keys, Nat), r \in Nat, pos \in 0 .. Len(heap[q].keys) :
          p = heap[q] /\ r = heap[r_child].rrn /\ pos = SearchPos(heap[q], promo)
    BY <1>1, <2>1, SearchPosRange
  <2>3. ~p.leaf /\ Len(p.children) = Len(p.keys) + 1 /\ pos \in 0 .. Len(p.keys)
    BY <1>1, <2>1, <2>2 DEF Shaped
  <2>4. PICK K, C : K = Keys /\ C = Nat
    OBVIOUS
  <2>5. Taken(p, InsertInNode(p, promo, r, pos), promo, r, pos, 0, 0)
    <3>1. p \in NodeOf(K, C) /\ promo \in K /\ r \in C
      BY <2>1, <2>2, <2>4
    <3> QED
      BY <2>3, <3>1, TakenChildren
  <2>6. Now(q) = InsertInNode(p, promo, r, pos)
    BY <1>3, <2>2 DEF Now
  <2>7. c \in ToSet(p.children) \cup {r}
    BY <2>5, <2>6 DEF Taken
  <2>8. CASE c \in ToSet(p.children)
    BY <2>2, <2>8, SoundFacts
  <2>9. CASE c = r
    BY <2>1, <2>2, <2>9
  <2> QED
    BY <2>7, <2>8, <2>9
<1> QED
  BY <1>2, <1>3

(* What the bounds of a parent say of its child. *)
ChildIs(lo, hi, at, q, m, i) ==
  /\ ~heap[q].leaf /\ Now(q) \in NodeOf(Keys, Nat) /\ ~Now(q).leaf
  /\ Covers(Now(q), lo[q], hi[q])
  /\ lo[q] \in Nat /\ hi[q] \in Nat /\ lo[m] \in Nat
  /\ i \in 1 .. Len(Now(q).keys) + 1
  /\ lo[m] = Lower(Now(q), lo[q], i) /\ hi[m] = Upper(Now(q), hi[q], i)
  /\ at[m] = at[q] + 1 /\ at[q] \in Nat /\ at[m] \in Nat
  /\ lo[q] <= lo[m] /\ (hi[q] = 0 \/ lo[m] < hi[q])

LEMMA ChildPlace ==
  ASSUME IInv, Sound, NEW lo \in Places, NEW hi \in Places, NEW at \in Places, NEW top,
         Placed(lo, hi, at, top), NEW q \in alive, NEW m \in alive,
         NEW i \in DOMAIN Now(q).children, heap[m].rrn = Now(q).children[i]
  PROVE  ChildIs(lo, hi, at, q, m, i)
<1>1. q \in Nodes /\ m \in Nodes
  BY SoundFacts
<1>2. lo[q] \in Nat /\ hi[q] \in Nat /\ lo[m] \in Nat /\ at[q] \in Nat /\ at[m] \in Nat
  BY <1>1 DEF Places
<1>3. NowIs(q)
  BY NowProps
<1>4. /\ ~heap[q].leaf /\ Now(q) \in NodeOf(Keys, Nat) /\ ~Now(q).leaf
      /\ i \in 1 .. Len(Now(q).keys) + 1
  BY <1>3 DEF NowIs
<1>5. Covers(Now(q), lo[q], hi[q])
  BY DEF Placed, Bounded
<1>6. lo[m] = Lower(Now(q), lo[q], i) /\ hi[m] = Upper(Now(q), hi[q], i) /\ at[m] = at[q] + 1
  BY DEF Placed, Led
<1>7. lo[q] <= Lower(Now(q), lo[q], i) /\ (hi[q] = 0 \/ Lower(Now(q), lo[q], i) < hi[q])
  <2>1. Keys \in SUBSET Nat
    BY KeysAssumption
  <2> QED
    BY <1>2, <1>4, <1>5, <2>1, ChildBounds
<1> QED
  BY <1>2, <1>4, <1>5, <1>6, <1>7 DEF ChildIs

(* A node has one parent, and one place there. *)
LEMMA OneParent ==
  ASSUME IInv, Sound, NEW lo \in Places, NEW hi \in Places, NEW at \in Places, NEW top,
         Placed(lo, hi, at, top), NEW p \in alive, NEW q \in alive, NEW m \in alive,
         NEW i \in DOMAIN Now(p).children, heap[m].rrn = Now(p).children[i],
         NEW j \in DOMAIN Now(q).children, heap[m].rrn = Now(q).children[j]
  PROVE  p = q /\ i = j
<1>0. ChildIs(lo, hi, at, p, m, i) /\ ChildIs(lo, hi, at, q, m, j)
  BY ChildPlace
<1>1. /\ Now(p) \in NodeOf(Keys, Nat) /\ ~Now(p).leaf /\ Covers(Now(p), lo[p], hi[p])
      /\ lo[p] \in Nat /\ hi[p] \in Nat /\ lo[m] \in Nat /\ i \in 1 .. Len(Now(p).keys) + 1
      /\ lo[m] = Lower(Now(p), lo[p], i) /\ at[m] = at[p] + 1 /\ at[p] \in Nat
      /\ lo[p] <= lo[m] /\ (hi[p] = 0 \/ lo[m] < hi[p])
  BY <1>0 DEF ChildIs
<1>2. /\ lo[q] \in Nat /\ hi[q] \in Nat /\ j \in 1 .. Len(Now(q).keys) + 1
      /\ lo[m] = Lower(Now(q), lo[q], j) /\ at[m] = at[q] + 1 /\ at[q] \in Nat
      /\ lo[q] <= lo[m] /\ (hi[q] = 0 \/ lo[m] < hi[q])
  BY <1>0 DEF ChildIs
<1>3. p = q
  <2>1. at[p] = at[q]
    BY <1>1, <1>2
  <2>2. SUFFICES ASSUME p # q PROVE FALSE
    OBVIOUS
  <2>3. Before(hi[p], lo[q]) \/ Before(hi[q], lo[p])
    BY <2>1, <2>2 DEF Placed, Apart
  <2> QED
    BY <1>1, <1>2, <2>3 DEF Before
<1>4. Keys \in SUBSET Nat
  BY KeysAssumption
<1>5. ~(i < j)
  <2>1. SUFFICES ASSUME i < j PROVE FALSE
    OBVIOUS
  <2>2. Lower(Now(p), lo[p], i) # Lower(Now(p), lo[p], j)
    BY <1>1, <1>2, <1>3, <1>4, <2>1, LowerApart
  <2> QED
    BY <1>1, <1>2, <1>3, <2>2
<1>6. ~(j < i)
  <2>1. SUFFICES ASSUME j < i PROVE FALSE
    OBVIOUS
  <2>2. Lower(Now(p), lo[p], j) # Lower(Now(p), lo[p], i)
    BY <1>1, <1>2, <1>3, <1>4, <2>1, LowerApart
  <2> QED
    BY <1>1, <1>2, <1>3, <2>2
<1>7. Len(Now(p).keys) \in Nat
  BY NowProps DEF NowIs
<1> QED
  BY <1>1, <1>2, <1>3, <1>5, <1>6, <1>7

-----------------------------------------------------------------------------
(* Nothing has gone wrong in a split: the node is u now, the new node N,   *)
(* with a fresh rrn, is v, and k is promoted.                              *)
SplitInto(N, rrn, u, v, k) ==
  /\ pc = "split" /\ curr \in alive /\ root' = root /\ Sound /\ Sound'
  /\ N \in Nodes /\ N \notin alive /\ N # NoNode /\ N # curr
  /\ rrn \in Nat /\ \A n \in alive : heap[n].rrn # rrn
  /\ alive' = alive \cup {N}
  /\ heap'[curr] = u /\ heap'[N] = v /\ \A n \in alive : n # curr => heap'[n] = heap[n]
  /\ u = LeftHalf(heap[curr], promo, ChildRrn, rrn)
  /\ v = RightHalf(heap[curr], promo, ChildRrn, rrn)
  /\ k = Promoted(heap[curr], promo)
  /\ u.rrn = heap[curr].rrn /\ v.rrn = rrn /\ k \in Keys
  /\ u.leaf = heap[curr].leaf /\ v.leaf = heap[curr].leaf
  /\ u \in NodeOf(Keys, Nat) /\ Shaped(u) /\ v \in NodeOf(Keys, Nat) /\ Shaped(v)
  /\ promo' = k /\ r_child' = N /\ pc' = (IF path = <<>> THEN "newroot" ELSE "ascend")
  /\ op' = op /\ curr' = curr /\ path' = path /\ seen' = seen

LEMMA SplitDone ==
  ASSUME IInv, Split, Sound'
  PROVE  \E N, rrn, u, v, k : SplitInto(N, rrn, u, v, k)
<1>1. /\ status = "running" /\ pc = "split" /\ curr \in alive /\ root' = root
      /\ RrnIsFresh /\ Unused # {} /\ StoreTypes /\ Numbers /\ faults' = {}
  BY DEF Split, CanAllocate, At, IInv, Sound
<1>2. PICK N, rrn, u, v, k :
        /\ N = NewNode /\ rrn = NextRrn
        /\ u = LeftHalf(heap[curr], promo, ChildRrn, NextRrn)
        /\ v = RightHalf(heap[curr], promo, ChildRrn, NextRrn)
        /\ k = Promoted(heap[curr], promo)
  OBVIOUS
<1>3. /\ rrn \in Nat /\ N \in Nodes /\ N \notin alive /\ curr \in Nodes /\ N # curr /\ N # NoNode
  <2>1. rrn \in Nat /\ N \in Nodes /\ N \notin alive
    BY <1>1, <1>2, NextRrnProps, NewNodeProps
  <2>2. N # NoNode
    BY <2>1 DEF Nodes, NoNode
  <2> QED
    BY <1>1, <2>1, <2>2 DEF StoreTypes
<1>4. /\ u \in NodeOf(Keys, Nat) /\ Shaped(u) /\ u.rrn = heap[curr].rrn
      /\ v \in NodeOf(Keys, Nat) /\ Shaped(v) /\ v.rrn = rrn
      /\ u.leaf = heap[curr].leaf /\ v.leaf = heap[curr].leaf
      /\ Promoted(heap[curr], promo) \in Keys
  BY <1>1, <1>2, SplitNodes
<1>5. PICK h : h = [heap EXCEPT ![curr] = u, ![NewNode] = v]
  OBVIOUS
<1>6. /\ h \in [Nodes -> NodeOf(Keys, Nat)] /\ h[curr] = u /\ h[NewNode] = v
      /\ \A x \in Nodes : x # NewNode /\ x # curr => h[x] = heap[x]
  BY <1>1, <1>2, <1>3, <1>4, <1>5 DEF StoreTypes
<1>7. /\ \A x \in alive : x # NewNode /\ x \in Nodes /\ h[x].rrn = heap[x].rrn
      /\ h[NewNode].rrn = NextRrn
  BY <1>1, <1>2, <1>3, <1>4, <1>6 DEF StoreTypes
<1>8. PICK live : live = alive \cup {NewNode}
  OBVIOUS
<1>9. live \in SUBSET Nodes /\ Distinct(h, live)
  BY <1>1, <1>6, <1>7, <1>8, NewNodeAdds
<1>10. PICK m \in Successes(2) :
         /\ WriteAs(h, live, <<curr, NewNode>>, m, {NewNode}, {})
         /\ \/ /\ m = 2
               /\ promo'   = k
               /\ r_child' = NewNode
               /\ pc' = IF path = <<>> THEN "newroot" ELSE "ascend"
               /\ UNCHANGED <<op, curr, path, seen, answer>>
            \/ m < 2
  BY <1>2, <1>5, <1>8 DEF Split, Write
<1>11. m = 2 /\ heap' = h /\ alive' = live /\ faults = {}
  <2>1. curr \in live /\ NewNode \in live
    BY <1>1, <1>8
  <2> QED
    BY <1>1, <1>9, <1>10, <2>1, WroteTwo
<1>12. /\ promo' = k /\ r_child' = N /\ pc' = (IF path = <<>> THEN "newroot" ELSE "ascend")
       /\ op' = op /\ curr' = curr /\ path' = path /\ seen' = seen
  BY <1>2, <1>10, <1>11
<1>13. \A n \in alive : heap[n].rrn # rrn
  BY <1>1, <1>2 DEF RrnIsFresh
<1>14. Sound
  BY <1>1, <1>11 DEF Sound
<1>15. SplitInto(N, rrn, u, v, k)
  <2>1. heap'[N] = v /\ heap'[curr] = u /\ \A n \in alive : n # curr => heap'[n] = heap[n]
    BY <1>2, <1>6, <1>7, <1>11
  <2> QED
    BY <1>1, <1>2, <1>3, <1>4, <1>8, <1>11, <1>12, <1>13, <1>14, <2>1 DEF SplitInto
<1> QED
  BY <1>15

(* The frame above a node that splits leads to it. *)
LEMMA FrameOf ==
  ASSUME IInv, Sound, pc = "split", path # <<>>, NEW lo \in Places, NEW hi \in Places,
         NEW at \in Places, NEW top \in Nat, InOrder(lo, hi, at, top),
         NEW q, NEW pos, q = Last(path).node, pos = Last(path).pos
  PROVE  /\ q \in alive /\ q # curr /\ heap[q].leaf = FALSE /\ Now(q) = heap[q]
         /\ pos \in 0 .. Len(heap[q].keys)
         /\ pos + 1 \in DOMAIN heap[q].children /\ heap[q].children[pos + 1] = heap[curr].rrn
         /\ \A i \in DOMAIN path : path[i].node # curr /\ path[i].node \in alive
<1>1. StoreTypes /\ CallTypes /\ Frames /\ Called /\ Control
  BY SoundFacts DEF IInv
<1>2. Len(path) \in Nat \ {0} /\ DOMAIN path = 1 .. Len(path) /\ Last(path) = path[Len(path)]
  <2>1. path \in Seq([node : Nodes, pos : 0 .. Order - 1])
    BY <1>1 DEF CallTypes
  <2>2. Len(path) \in Nat \ {0} /\ DOMAIN path = 1 .. Len(path)
    BY <2>1
  <2>3. Last(path) = path[Len(path)]
    BY <2>1, EndProps
  <2> QED
    BY <2>1, <2>2, <2>3
<1>3. PICK n \in DOMAIN path : n = Len(path)
  BY <1>2
<1>4. path[n].node = q /\ path[n].pos = pos /\ pos \in 0 .. Order - 1
  BY <1>1, <1>2, <1>3, FrameTyped
<1>5. q \in alive /\ q # curr /\ ~heap[q].leaf /\ pos <= Len(heap[q].keys)
  BY <1>1, <1>3, <1>4 DEF Frames, Called
<1>6. q # NoNode /\ q \in Nodes /\ heap[q] \in NodeOf(Keys, Nat) /\ Shaped(heap[q])
  BY <1>5, SoundFacts DEF IInv, StoreTypes, Shapes
<1>7. heap[q].leaf = FALSE /\ Len(heap[q].keys) \in Nat
  BY <1>5, <1>6 DEF NodeOf
<1>8. Now(q) = heap[q]
  BY <1>5, <1>6 DEF Now, Waiter
<1>9. pos \in 0 .. Len(heap[q].keys) /\ pos + 1 \in 1 .. Len(heap[q].keys) + 1
  BY <1>4, <1>5, <1>7, HalfBounds
<1>10. pos + 1 \in DOMAIN heap[q].children
  BY <1>5, <1>7, <1>8, <1>9, NowProps DEF NowIs
<1>11. heap[path[n].node].children[path[n].pos + 1] = heap[curr].rrn
  BY <1>3 DEF InOrder, InCall, Insertion
<1>12. \A i \in DOMAIN path : path[i].node # curr /\ path[i].node \in alive
  BY <1>1 DEF Frames, Called
<1> QED
  BY <1>4, <1>5, <1>7, <1>8, <1>9, <1>10, <1>11, <1>12

(* What the places of the two halves are, and where k goes. *)
Divided(lo, hi, at, lo2, hi2, at2, N, rrn, u, v, k, t) ==
  /\ \A n \in alive : lo2[n] = lo[n] /\ at2[n] = at[n] /\ (n # curr => hi2[n] = hi[n])
  /\ lo2[N] = k /\ hi2[N] = hi[curr] /\ at2[N] = at[curr] /\ hi2[curr] = k
  /\ lo[curr] \in Nat /\ hi[curr] \in Nat /\ k \in Nat
  /\ t = InsertInNode(heap[curr], promo, ChildRrn, SearchPos(heap[curr], promo))
  /\ Parted(heap[curr], rrn, t, u, v, k, lo[curr], hi[curr])
  /\ heap[curr].leaf => ~Found(heap[curr], promo)
  /\ ~heap[curr].leaf => t = Now(curr) /\ Shared(t, u, v, k, lo[curr], hi[curr])

LEMMA DividedNow ==
  ASSUME IInv, NEW N, NEW rrn, NEW u, NEW v, NEW k, SplitInto(N, rrn, u, v, k),
         NEW lo \in Places, NEW hi \in Places, NEW at \in Places, NEW top \in Nat,
         InOrder(lo, hi, at, top)
  PROVE  \E lo2, hi2, at2 \in Places : \E t : Divided(lo, hi, at, lo2, hi2, at2, N, rrn, u, v, k, t)
<1>1. /\ pc = "split" /\ curr \in alive /\ Sound /\ N \in Nodes /\ N \notin alive /\ N # curr
      /\ rrn \in Nat /\ k \in Keys
      /\ u = LeftHalf(heap[curr], promo, ChildRrn, rrn)
      /\ v = RightHalf(heap[curr], promo, ChildRrn, rrn)
      /\ k = Promoted(heap[curr], promo)
  BY DEF SplitInto
<1>2. /\ curr \in Nodes /\ curr # NoNode /\ heap[curr] \in NodeOf(Keys, Nat) /\ Shaped(heap[curr])
      /\ promo \in Keys /\ Full(heap[curr]) /\ (heap[curr].leaf <=> r_child = NoNode)
      /\ (r_child # NoNode => heap[r_child].rrn \in Nat)
  BY <1>1, SoundFacts DEF IInv, StoreTypes, Shapes, Control
<1>3. Keys \in SUBSET Nat /\ k \in Nat
  BY <1>1, KeysAssumption
<1>4. lo[curr] \in Nat /\ hi[curr] \in Nat /\ at[curr] \in Nat
  BY <1>2 DEF Places
<1>0. PICK p \in NodeOf(Keys, Nat) : p = heap[curr]
  BY <1>2
<1>5. PICK r, t :
        p = heap[curr] /\ r = ChildRrn /\ t = InsertInNode(p, promo, r, SearchPos(p, promo))
  BY <1>0
<1>6. ~p.leaf => r \in Nat /\ t = Now(curr)
  BY <1>1, <1>2, <1>5 DEF ChildRrn, Now, Waiter
<1>7. p.leaf => ~Found(p, promo)
  BY <1>1, <1>5 DEF InOrder, InCall, Insertion
<1>8. Covers(t, lo[curr], hi[curr])
  <2>1. CASE p.leaf
    <3>1. r_child = NoNode
      BY <1>2, <1>5, <2>1
    <3>2. Gap(lo[curr], hi[curr], promo)
      BY <1>1, <3>1 DEF InOrder, InCall, Insertion
    <3>3. Covers(p, lo[curr], hi[curr])
      BY <1>1, <1>5, <3>1, PlainNode DEF InOrder
    <3> QED
      BY <1>2, <1>3, <1>4, <1>5, <1>7, <2>1, <3>2, <3>3, CoversMore
  <2>2. CASE ~p.leaf
    BY <1>1, <1>6, <2>2 DEF InOrder, Placed, Bounded
  <2> QED
    BY <2>1, <2>2
<1>9. Shaped(p) /\ Full(p) /\ (p.leaf \/ r \in Nat) /\ Ascending(t.keys)
  BY <1>2, <1>5, <1>6, <1>8 DEF Covers
<1>10. Parted(p, rrn, t, u, v, k, lo[curr], hi[curr])
  BY <1>1, <1>2, <1>3, <1>4, <1>5, <1>8, <1>9, SplitParts
<1>11. ~p.leaf => Shared(t, u, v, k, lo[curr], hi[curr])
  BY <1>1, <1>2, <1>3, <1>4, <1>5, <1>8, <1>9, SplitParts
<1>12. PICK lo2 \in Places, hi2 \in Places, at2 \in Places :
         /\ lo2 = [lo EXCEPT ![N] = k]
         /\ hi2 = [hi EXCEPT ![curr] = k, ![N] = hi[curr]]
         /\ at2 = [at EXCEPT ![N] = at[curr]]
  BY <1>1, <1>2, <1>3, <1>4 DEF Places
<1>13. /\ lo2[N] = k /\ hi2[N] = hi[curr] /\ at2[N] = at[curr] /\ hi2[curr] = k
       /\ \A n \in alive : lo2[n] = lo[n] /\ at2[n] = at[n] /\ (n # curr => hi2[n] = hi[n])
  <2>1. alive \subseteq Nodes
    BY <1>1, SoundFacts
  <2> QED
    BY <1>1, <1>2, <1>12, <2>1 DEF Places
<1>14. Divided(lo, hi, at, lo2, hi2, at2, N, rrn, u, v, k, t)
  BY <1>3, <1>4, <1>5, <1>6, <1>7, <1>10, <1>11, <1>13 DEF Divided
<1> QED
  BY <1>14

(* The nodes as they will be, before and after a split: q, above curr, is  *)
(* to take k and the new node.                                             *)
After(lo, hi, N, rrn, u, v, k, q, pos) ==
  /\ Now(curr)' = u /\ Now(N)' = v
  /\ \A n \in alive : n # curr /\ n # q => Now(n)' = Now(n) /\ Now(n) = heap[n]
  /\ q = NoNode => curr = root /\ path = <<>> /\ pc' = "newroot"
  /\ q # NoNode =>
       /\ path # <<>> /\ pc' = "ascend" /\ root # curr
       /\ q = Last(path).node /\ pos = Last(path).pos
       /\ q \in alive /\ q # curr /\ ~heap[q].leaf /\ Now(q) = heap[q]
       /\ pos \in 0 .. Len(heap[q].keys)
       /\ pos + 1 \in DOMAIN Now(q).children /\ Now(q).children[pos + 1] = heap[curr].rrn
       /\ Now(q)' = InsertInNode(heap[q], k, rrn, pos)
       /\ pos = SearchPos(heap[q], k) /\ ~Found(heap[q], k) /\ Gap(lo[q], hi[q], k)

LEMMA SplitNow ==
  ASSUME IInv, NEW N, NEW rrn, NEW u, NEW v, NEW k, SplitInto(N, rrn, u, v, k),
         NEW lo \in Places, NEW hi \in Places, NEW at \in Places, NEW top \in Nat,
         InOrder(lo, hi, at, top), NEW lo2, NEW hi2, NEW at2, NEW t,
         Divided(lo, hi, at, lo2, hi2, at2, N, rrn, u, v, k, t)
  PROVE  \E q, pos : After(lo, hi, N, rrn, u, v, k, q, pos)
<1>1. /\ pc = "split" /\ curr \in alive /\ Sound /\ N \notin alive /\ N # NoNode /\ N # curr
      /\ k \in Keys /\ heap'[curr] = u /\ heap'[N] = v
      /\ \A n \in alive : n # curr => heap'[n] = heap[n]
      /\ v.rrn = rrn /\ promo' = k /\ r_child' = N /\ path' = path /\ curr' = curr
      /\ pc' = IF path = <<>> THEN "newroot" ELSE "ascend"
  BY DEF SplitInto
<1>2. Gap(lo[curr], hi[curr], k)
  BY DEF Divided, Parted
<1>3. Waiter \in {curr, NoNode} /\ Waiter' = (IF path = <<>> THEN NoNode ELSE Last(path).node)
  BY <1>1 DEF Waiter
<1>4. \A n \in alive : n # NoNode /\ n # N
  BY <1>1, SoundFacts
<1>5. root = (IF path = <<>> THEN curr ELSE path[1].node)
  BY <1>1 DEF IInv, Frames
<1>6. CASE path = <<>>
  <2>1. Waiter' = NoNode
    BY <1>3, <1>6
  <2>2. Now(curr)' = u /\ Now(N)' = v
    BY <1>1, <1>4, <2>1 DEF Now
  <2>3. \A n \in alive : n # curr => Now(n)' = Now(n) /\ Now(n) = heap[n]
    BY <1>1, <1>3, <1>4, <2>1 DEF Now
  <2>4. After(lo, hi, N, rrn, u, v, k, NoNode, 0)
    BY <1>1, <1>5, <1>6, <2>2, <2>3 DEF After
  <2> QED
    BY <2>4
<1>7. CASE path # <<>>
  <2>1. PICK q, pos : q = Last(path).node /\ pos = Last(path).pos
    OBVIOUS
  <2>2. /\ q \in alive /\ q # curr /\ heap[q].leaf = FALSE /\ Now(q) = heap[q]
        /\ pos \in 0 .. Len(heap[q].keys)
        /\ pos + 1 \in DOMAIN heap[q].children /\ heap[q].children[pos + 1] = heap[curr].rrn
        /\ \A i \in DOMAIN path : path[i].node # curr /\ path[i].node \in alive
    BY <1>1, <1>7, <2>1, FrameOf
  <2>3. Waiter' = q
    BY <1>3, <1>7, <2>1
  <2>4. q # NoNode /\ q # N /\ q # curr
    BY <1>4, <2>2
  <2>5. Now(curr)' = u /\ Now(N)' = v
    BY <1>1, <2>3, <2>4 DEF Now
  <2>6. \A n \in alive : n # curr /\ n # q => Now(n)' = Now(n) /\ Now(n) = heap[n]
    BY <1>1, <1>3, <1>4, <2>3 DEF Now
  <2>7. /\ heap[q] \in NodeOf(Keys, Nat) /\ ~heap[q].leaf /\ Covers(heap[q], lo[q], hi[q])
        /\ lo[q] \in Nat /\ hi[q] \in Nat
        /\ lo[curr] = Lower(heap[q], lo[q], pos + 1) /\ hi[curr] = Upper(heap[q], hi[q], pos + 1)
    <3>1. ChildIs(lo, hi, at, q, curr, pos + 1)
      BY <1>1, <2>2, ChildPlace DEF InOrder
    <3> QED
      BY <2>2, <3>1 DEF ChildIs
  <2>8. Keys \in SUBSET Nat /\ Keys \subseteq Nat \ {0} /\ k \in Nat
    BY <1>1, KeysAssumption
  <2>9. SearchPos(heap[q], k) = pos /\ ~Found(heap[q], k)
    <3>1. Ascending(heap[q].keys) /\ Gap(Lower(heap[q], lo[q], pos + 1), Upper(heap[q], hi[q], pos + 1), k)
      BY <1>2, <2>7 DEF Covers
    <3> QED
      BY <2>2, <2>7, <2>8, <3>1, PlaceBetween
  <2>10. Gap(lo[q], hi[q], k)
    <3>1. Gap(Lower(heap[q], lo[q], pos + 1), Upper(heap[q], hi[q], pos + 1), k)
      BY <1>2, <2>7
    <3> QED
      BY <2>2, <2>7, <2>8, <3>1, GapOut
  <2>11. Now(q)' = InsertInNode(heap[q], k, rrn, pos)
    <3>1. heap'[q] = heap[q] /\ heap'[r_child'].rrn = rrn
      BY <1>1, <2>2
    <3> QED
      BY <1>1, <2>3, <2>9, <3>1 DEF Now
  <2>12. root # curr
    <3>1. path \in Seq([node : Nodes, pos : 0 .. Order - 1])
      BY DEF IInv, CallTypes
    <3>2. 1 \in DOMAIN path
      BY <1>7, <3>1
    <3> QED
      BY <1>5, <1>7, <2>2, <3>2
  <2>13. After(lo, hi, N, rrn, u, v, k, q, pos)
    BY <1>1, <1>7, <2>1, <2>2, <2>4, <2>5, <2>6, <2>9, <2>10, <2>11, <2>12 DEF After
  <2> QED
    BY <2>13
<1> QED
  BY <1>6, <1>7

Splits(lo, hi, at, top, lo2, hi2, at2, N, rrn, u, v, k, t, q, pos) ==
  /\ lo \in Places /\ hi \in Places /\ at \in Places /\ top \in Nat /\ InOrder(lo, hi, at, top)
  /\ SplitInto(N, rrn, u, v, k)
  /\ Divided(lo, hi, at, lo2, hi2, at2, N, rrn, u, v, k, t)
  /\ After(lo, hi, N, rrn, u, v, k, q, pos)

LEMMA SplitBounded ==
  ASSUME IInv, NEW lo, NEW hi, NEW at, NEW top, NEW lo2, NEW hi2, NEW at2,
         NEW N, NEW rrn, NEW u, NEW v, NEW k, NEW t, NEW q, NEW pos,
         Splits(lo, hi, at, top, lo2, hi2, at2, N, rrn, u, v, k, t, q, pos)
  PROVE  Bounded(lo2, hi2)'
<1>1. SUFFICES ASSUME NEW n \in alive' PROVE Covers(Now(n)', lo2[n], hi2[n])
  BY DEF Bounded
<1>2. alive' = alive \cup {N} /\ curr' = curr /\ k \in Keys
  BY DEF Splits, SplitInto
<1>3. Covers(u, lo[curr], k) /\ Covers(v, k, hi[curr])
  BY DEF Splits, Divided, Parted
<1>4. /\ \A m \in alive : lo2[m] = lo[m] /\ (m # curr => hi2[m] = hi[m])
      /\ lo2[N] = k /\ hi2[N] = hi[curr] /\ hi2[curr] = k
  BY DEF Splits, Divided
<1>5. Now(curr)' = u /\ Now(N)' = v
      /\ \A m \in alive : m # curr /\ m # q => Now(m)' = Now(m)
  BY DEF Splits, After
<1>6. \A m \in alive : Covers(Now(m), lo[m], hi[m])
  BY DEF Splits, InOrder, Placed, Bounded
<1>7. curr \in alive
  BY DEF Splits, SplitInto
<1>8. CASE n = N
  BY <1>3, <1>4, <1>5, <1>8
<1>9. CASE n = curr
  <2>1. Now(n)' = u
    BY <1>2, <1>5, <1>9
  <2> QED
    BY <1>3, <1>4, <1>7, <1>9, <2>1
<1>10. CASE n \in alive /\ n # curr /\ n # q
  BY <1>4, <1>5, <1>6, <1>10
<1>11. CASE n \in alive /\ n # curr /\ n = q
  <2>1. q # NoNode
    BY <1>11, SoundFacts DEF Splits, SplitInto
  <2>2. /\ Now(q) = heap[q] /\ Now(q)' = InsertInNode(heap[q], k, rrn, pos)
        /\ pos = SearchPos(heap[q], k) /\ ~Found(heap[q], k) /\ Gap(lo[q], hi[q], k)
    BY <2>1 DEF Splits, After
  <2>3. heap[q] \in NodeOf(Keys, Nat) /\ lo[q] \in Nat /\ hi[q] \in Nat
    <3>1. q \in Nodes
      BY <1>11, SoundFacts DEF Splits, SplitInto
    <3> QED
      BY <3>1 DEF IInv, StoreTypes, Splits, Places
  <2>4. Keys \in SUBSET Nat
    BY KeysAssumption
  <2>5. Covers(heap[q], lo[q], hi[q])
    BY <1>6, <1>11, <2>2
  <2>6. PICK w : w = InsertInNode(heap[q], k, rrn, pos)
    OBVIOUS
  <2>7. Covers(w, lo[q], hi[q])
    BY <1>2, <2>2, <2>3, <2>4, <2>5, <2>6, CoversMore
  <2> QED
    BY <1>4, <1>11, <2>2, <2>6, <2>7
<1> QED
  BY <1>2, <1>8, <1>9, <1>10, <1>11

LEMMA SplitApart ==
  ASSUME IInv, NEW lo, NEW hi, NEW at, NEW top, NEW lo2, NEW hi2, NEW at2,
         NEW N, NEW rrn, NEW u, NEW v, NEW k, NEW t, NEW q, NEW pos,
         Splits(lo, hi, at, top, lo2, hi2, at2, N, rrn, u, v, k, t, q, pos)
  PROVE  Apart(lo2, hi2, at2)'
<1>1. SUFFICES \A m, n \in alive' : m # n /\ at2[m] = at2[n] =>
                 Before(hi2[m], lo2[n]) \/ Before(hi2[n], lo2[m])
  BY DEF Apart
<1>2. alive' = alive \cup {N} /\ curr \in alive /\ N \notin alive
  BY DEF Splits, SplitInto
<1>3. /\ Gap(lo[curr], hi[curr], k) /\ k # 0
  BY DEF Splits, Divided, Parted
<1>4. /\ \A m \in alive : lo2[m] = lo[m] /\ at2[m] = at[m] /\ (m # curr => hi2[m] = hi[m])
      /\ lo2[N] = k /\ hi2[N] = hi[curr] /\ hi2[curr] = k /\ at2[N] = at[curr]
      /\ k \in Nat /\ lo[curr] \in Nat /\ hi[curr] \in Nat
  BY DEF Splits, Divided
<1>5. \A m \in alive : lo[m] \in Nat /\ hi[m] \in Nat
  BY SoundFacts DEF Splits, SplitInto, Places
<1>6. \A m, n \in alive : m # n /\ at[m] = at[n] => Before(hi[m], lo[n]) \/ Before(hi[n], lo[m])
  BY DEF Splits, InOrder, Placed, Apart
<1>7. ASSUME NEW m \in alive, at[m] = at[curr], m # curr
      PROVE  /\ Before(k, lo[m]) \/ Before(hi[m], lo[curr])
             /\ Before(hi[curr], lo[m]) \/ Before(hi[m], k)
  <2>1. Before(hi[m], lo[curr]) \/ Before(hi[curr], lo[m])
    BY <1>2, <1>6, <1>7
  <2> QED
    BY <1>3, <1>4, <1>5, <2>1 DEF Before, Gap
<1>8. Before(hi2[curr], lo2[N])
  BY <1>3, <1>4 DEF Before
<1>9. \A m \in alive : m # curr /\ at2[m] = at2[curr] =>
        Before(hi2[curr], lo2[m]) \/ Before(hi2[m], lo2[curr])
  BY <1>2, <1>4, <1>7
<1>10. \A m \in alive : m # curr /\ at2[m] = at2[N] =>
        Before(hi2[N], lo2[m]) \/ Before(hi2[m], lo2[N])
  BY <1>2, <1>4, <1>7
<1>11. \A m, n \in alive : m # n /\ m # curr /\ n # curr /\ at2[m] = at2[n] =>
                 Before(hi2[m], lo2[n]) \/ Before(hi2[n], lo2[m])
  BY <1>4, <1>6
<1> QED
  BY <1>2, <1>8, <1>9, <1>10, <1>11

LEMMA SplitTopped ==
  ASSUME IInv, NEW lo, NEW hi, NEW at, NEW top, NEW lo2, NEW hi2, NEW at2,
         NEW N, NEW rrn, NEW u, NEW v, NEW k, NEW t, NEW q, NEW pos,
         Splits(lo, hi, at, top, lo2, hi2, at2, N, rrn, u, v, k, t, q, pos)
  PROVE  Topped(lo2, hi2, at2)'
<1>1. /\ alive' = alive \cup {N} /\ curr \in alive /\ N \notin alive /\ N # NoNode /\ root' = root
      /\ pc = "split" /\ promo' = k /\ r_child' = N /\ curr' = curr /\ Sound
      /\ \A n \in alive : n # curr => heap'[n] = heap[n]
      /\ heap'[curr] = u /\ heap'[N] = v /\ u.rrn = heap[curr].rrn /\ v.rrn = rrn
  BY DEF Splits, SplitInto
<1>2. /\ \A m \in alive : lo2[m] = lo[m] /\ at2[m] = at[m] /\ (m # curr => hi2[m] = hi[m])
      /\ lo2[N] = k /\ hi2[N] = hi[curr] /\ hi2[curr] = k /\ at2[N] = at[curr]
  BY DEF Splits, Divided
<1>3. /\ root = NoNode => alive = {}
      /\ \A n \in Tops : at[n] = 0
      /\ root # NoNode => lo[root] = 0 /\ hi[root] = 0
      /\ \A n \in alive : n \notin Tops => \E p \in alive : heap[n].rrn \in ToSet(Now(p).children)
  BY <1>1 DEF Splits, InOrder, Placed, Topped
<1>4. root # NoNode /\ root \in alive /\ Tops = {root}
  BY <1>1, <1>3, SoundFacts DEF Tops, Stored
<1>5. \A n \in alive : heap'[n].rrn = heap[n].rrn
  BY <1>1
<1>6. Now(curr)' = u /\ Now(N)' = v
      /\ \A m \in alive : m # curr /\ m # q => Now(m)' = Now(m)
  BY DEF Splits, After
<1>7. ~heap[curr].leaf => ToSet(Now(curr).children) = ToSet(u.children) \cup ToSet(v.children)
  BY DEF Splits, Divided, Shared
<1>8. q # NoNode => /\ q \in alive /\ pc' = "ascend" /\ root # curr
                    /\ ToSet(Now(q)'.children) = ToSet(Now(q).children) \cup {rrn}
  <2>1. SUFFICES ASSUME q # NoNode PROVE ToSet(Now(q)'.children) = ToSet(Now(q).children) \cup {rrn}
    BY DEF Splits, After
  <2>2. /\ q \in alive /\ ~heap[q].leaf /\ Now(q) = heap[q] /\ pos \in 0 .. Len(heap[q].keys)
        /\ Now(q)' = InsertInNode(heap[q], k, rrn, pos) /\ k \in Keys /\ rrn \in Nat
    BY <2>1 DEF Splits, After, SplitInto
  <2>3. heap[q] \in NodeOf(Keys, Nat) /\ Shaped(heap[q])
    BY <1>1, <2>2, SoundFacts DEF IInv, StoreTypes, Shapes
  <2>4. Len(heap[q].children) = Len(heap[q].keys) + 1
    BY <2>2, <2>3 DEF Shaped
  <2>5. Taken(heap[q], InsertInNode(heap[q], k, rrn, pos), k, rrn, pos, 0, 0)
    BY <2>2, <2>3, <2>4, TakenChildren
  <2> QED
    BY <2>2, <2>5 DEF Taken
<1>9. q = NoNode => curr = root /\ pc' = "newroot"
  BY DEF Splits, After
<1>10. ASSUME NEW n \in alive', n \notin Tops'
       PROVE  \E p \in alive' : heap'[n].rrn \in ToSet(Now(p)'.children)
  <2>1. n # root
    BY <1>1, <1>4, <1>10 DEF Tops
  <2>2. CASE n = N
    <3>1. q # NoNode
      BY <1>1, <1>9, <1>10, <2>2 DEF Tops
    <3> QED
      BY <1>1, <1>8, <2>2, <3>1
  <2>3. CASE n \in alive
    <3>1. PICK p \in alive : heap[n].rrn \in ToSet(Now(p).children)
      BY <1>3, <1>4, <2>1, <2>3
    <3>2. heap'[n].rrn \in ToSet(Now(p).children)
      BY <1>5, <2>3, <3>1
    <3>3. CASE p = curr
      <4>1. ~heap[curr].leaf
        <5>1. heap[curr].leaf => DOMAIN Now(curr).children = {}
          BY <1>1, NowProps DEF NowIs
        <5> QED
          BY <3>1, <3>3, <5>1 DEF ToSet
      <4> QED
        BY <1>1, <1>6, <1>7, <3>2, <3>3, <4>1
    <3>4. CASE p # curr /\ p = q
      <4>1. q # NoNode
        BY <1>1, <3>4, SoundFacts
      <4> QED
        BY <1>1, <1>8, <3>2, <3>4, <4>1
    <3>5. CASE p # curr /\ p # q
      BY <1>1, <1>6, <3>2, <3>5
    <3> QED
      BY <3>3, <3>4, <3>5
  <2> QED
    BY <1>1, <2>2, <2>3
<1>11. CASE q = NoNode
  <2>1. Tops' = {root, N} /\ pc' = "newroot"
    BY <1>1, <1>4, <1>9, <1>11 DEF Tops
  <2>2. \A n \in Tops' : at2[n] = 0
    BY <1>1, <1>2, <1>3, <1>4, <1>9, <1>11, <2>1
  <2>3. lo2[root] = 0 /\ hi2[root] = k /\ lo2[N] = k /\ hi2[N] = 0
    BY <1>1, <1>2, <1>3, <1>4, <1>9, <1>11
  <2> QED
    BY <1>1, <1>4, <1>10, <2>1, <2>2, <2>3 DEF Topped
<1>12. CASE q # NoNode
  <2>1. Tops' = {root} /\ pc' = "ascend"
    BY <1>1, <1>4, <1>8, <1>12 DEF Tops
  <2>2. \A n \in Tops' : at2[n] = 0
    BY <1>2, <1>3, <1>4, <2>1
  <2>3. lo2[root] = 0 /\ hi2[root] = 0
    BY <1>2, <1>3, <1>4, <1>8, <1>12
  <2> QED
    BY <1>1, <1>4, <1>10, <2>1, <2>2, <2>3 DEF Topped
<1> QED
  BY <1>11, <1>12

LEMMA SplitLed ==
  ASSUME IInv, NEW lo, NEW hi, NEW at, NEW top, NEW lo2, NEW hi2, NEW at2,
         NEW N, NEW rrn, NEW u, NEW v, NEW k, NEW t, NEW q, NEW pos,
         Splits(lo, hi, at, top, lo2, hi2, at2, N, rrn, u, v, k, t, q, pos)
  PROVE  Led(lo2, hi2, at2)'
<1> DEFINE Leads(p, m, i) ==
             /\ lo2[m] = Lower(Now(p)', lo2[p], i) /\ hi2[m] = Upper(Now(p)', hi2[p], i)
             /\ at2[m] = at2[p] + 1
<1>1. SUFFICES ASSUME NEW p \in alive', NEW m \in alive', NEW i \in DOMAIN Now(p)'.children,
                      heap'[m].rrn = Now(p)'.children[i]
               PROVE  Leads(p, m, i)
  BY DEF Led
<1> HIDE DEF Leads
<1>2. /\ alive' = alive \cup {N} /\ curr \in alive /\ N \notin alive /\ curr' = curr /\ Sound
      /\ \A n \in alive : n # curr => heap'[n] = heap[n]
      /\ heap'[curr] = u /\ heap'[N] = v /\ u.rrn = heap[curr].rrn /\ v.rrn = rrn
      /\ \A n \in alive : heap[n].rrn # rrn
  BY DEF Splits, SplitInto
<1>3. /\ \A n \in alive : lo2[n] = lo[n] /\ at2[n] = at[n] /\ (n # curr => hi2[n] = hi[n])
      /\ lo2[N] = k /\ hi2[N] = hi[curr] /\ hi2[curr] = k /\ at2[N] = at[curr]
  BY DEF Splits, Divided
<1>4. Now(curr)' = u /\ Now(N)' = v
      /\ \A n \in alive : n # curr /\ n # q => Now(n)' = Now(n)
  BY DEF Splits, After
<1>5. lo \in Places /\ hi \in Places /\ at \in Places /\ top \in Nat /\ Placed(lo, hi, at, top)
  BY DEF Splits, InOrder
<1>6. ASSUME NEW a \in alive, NEW b \in alive, NEW j \in DOMAIN Now(a).children,
             heap[b].rrn = Now(a).children[j]
      PROVE  /\ lo[b] = Lower(Now(a), lo[a], j) /\ hi[b] = Upper(Now(a), hi[a], j)
             /\ at[b] = at[a] + 1 /\ ~heap[a].leaf /\ a # b
  <2>1. ChildIs(lo, hi, at, a, b, j)
    BY <1>2, <1>5, <1>6, ChildPlace
  <2>2. at[a] # at[b]
    BY <2>1 DEF ChildIs
  <2> QED
    BY <2>1, <2>2 DEF ChildIs
<1>7. \A n \in alive : heap'[n].rrn = heap[n].rrn
  BY <1>2
<1>8. ASSUME NEW a \in alive, NEW j \in DOMAIN Now(a).children, heap'[m].rrn = Now(a).children[j]
      PROVE  m \in alive /\ heap[m].rrn = Now(a).children[j]
  <2>1. Now(a).children[j] \in ToSet(Now(a).children)
    BY DEF ToSet
  <2>2. PICK n \in alive : heap[n].rrn = Now(a).children[j]
    BY <1>2, <2>1, NowChildren
  <2>3. m # N
    BY <1>2, <1>8, <2>2
  <2> QED
    BY <1>1, <1>2, <1>7, <1>8, <2>3
<1>9. \A j \in DOMAIN Now(curr).children : ~heap[curr].leaf
  BY <1>2, NowProps DEF NowIs
<1>10. CASE p = curr
  <2>1. i \in DOMAIN u.children /\ heap'[m].rrn = u.children[i]
    BY <1>1, <1>2, <1>4, <1>10
  <2>2. ~heap[curr].leaf
    <3>1. SUFFICES ASSUME heap[curr].leaf PROVE FALSE
      OBVIOUS
    <3>2. u \in NodeOf(Keys, Nat) /\ Shaped(u) /\ u.leaf
      BY <3>1 DEF Splits, SplitInto
    <3>3. Len(u.children) = 0
      BY <3>2 DEF Shaped
    <3>4. DOMAIN u.children = {}
      BY <3>2, <3>3 DEF NodeOf
    <3> QED
      BY <2>1, <3>4
  <2>3. /\ t = Now(curr) /\ i \in DOMAIN t.children /\ u.children[i] = t.children[i]
        /\ Lower(u, lo[curr], i) = Lower(t, lo[curr], i) /\ Upper(u, k, i) = Upper(t, hi[curr], i)
    BY <2>1, <2>2 DEF Splits, Divided, Shared
  <2>4. m \in alive /\ heap[m].rrn = Now(curr).children[i]
    BY <1>2, <1>8, <2>1, <2>3
  <2>5. /\ lo[m] = Lower(t, lo[curr], i) /\ hi[m] = Upper(t, hi[curr], i)
        /\ at[m] = at[curr] + 1 /\ m # curr
    BY <1>2, <1>6, <2>3, <2>4
  <2> QED
    BY <1>2, <1>3, <1>4, <1>10, <2>3, <2>4, <2>5 DEF Leads
<1>11. CASE p = N
  <2>1. i \in DOMAIN v.children /\ heap'[m].rrn = v.children[i]
    BY <1>1, <1>4, <1>11
  <2>2. ~heap[curr].leaf
    <3>1. SUFFICES ASSUME heap[curr].leaf PROVE FALSE
      OBVIOUS
    <3>2. v \in NodeOf(Keys, Nat) /\ Shaped(v) /\ v.leaf
      BY <3>1 DEF Splits, SplitInto
    <3>3. Len(v.children) = 0
      BY <3>2 DEF Shaped
    <3>4. DOMAIN v.children = {}
      BY <3>2, <3>3 DEF NodeOf
    <3> QED
      BY <2>1, <3>4
  <2>3. t = Now(curr) /\ Shared(t, u, v, k, lo[curr], hi[curr])
    BY <2>2 DEF Splits, Divided
  <2>4. PICK j \in DOMAIN t.children :
          /\ v.children[i] = t.children[j]
          /\ Lower(v, k, i) = Lower(t, lo[curr], j) /\ Upper(v, hi[curr], i) = Upper(t, hi[curr], j)
    BY <2>1, <2>3 DEF Shared
  <2>5. m \in alive /\ heap[m].rrn = Now(curr).children[j]
    BY <1>2, <1>8, <2>1, <2>3, <2>4
  <2>6. /\ lo[m] = Lower(t, lo[curr], j) /\ hi[m] = Upper(t, hi[curr], j)
        /\ at[m] = at[curr] + 1 /\ m # curr
    BY <1>2, <1>6, <2>3, <2>5
  <2> QED
    BY <1>2, <1>3, <1>4, <1>11, <2>4, <2>5, <2>6 DEF Leads
<1>12. CASE p \in alive /\ p # curr /\ p # q
  <2>1. Now(p)' = Now(p)
    BY <1>4, <1>12
  <2>2. i \in DOMAIN Now(p).children /\ heap'[m].rrn = Now(p).children[i]
    BY <1>1, <2>1
  <2>3. m \in alive /\ heap[m].rrn = Now(p).children[i]
    BY <1>8, <1>12, <2>2
  <2>4. /\ lo[m] = Lower(Now(p), lo[p], i) /\ hi[m] = Upper(Now(p), hi[p], i)
        /\ at[m] = at[p] + 1
    BY <1>6, <1>12, <2>2, <2>3
  <2>5. m # curr
    <3>1. SUFFICES ASSUME m = curr PROVE FALSE
      OBVIOUS
    <3>2. CASE q = NoNode
      <4>1. curr = root /\ root # NoNode
        BY <1>2, <3>2, SoundFacts DEF Splits, After
      <4>2. at[curr] = 0
        BY <1>5, <4>1 DEF Placed, Topped, Tops
      <4>3. at[p] \in Nat
        BY <1>2, <1>5, <1>12, SoundFacts DEF Places
      <4> QED
        BY <2>4, <3>1, <4>2, <4>3
    <3>3. CASE q # NoNode
      <4>1. q \in alive /\ pos + 1 \in DOMAIN Now(q).children /\ Now(q).children[pos + 1] = heap[curr].rrn
        BY <3>3 DEF Splits, After
      <4>2. p = q
        BY <1>2, <1>5, <1>12, <2>2, <2>3, <3>1, <4>1, OneParent
      <4> QED
        BY <1>12, <4>2
    <3> QED
      BY <3>2, <3>3
  <2> QED
    BY <1>3, <1>12, <2>1, <2>3, <2>4, <2>5 DEF Leads
<1>13. CASE p \in alive /\ p # curr /\ p = q
  <2>1. q # NoNode
    BY <1>2, <1>13, SoundFacts
  <2>2. /\ q \in alive /\ ~heap[q].leaf /\ Now(q) = heap[q] /\ pos \in 0 .. Len(heap[q].keys)
        /\ Now(q)' = InsertInNode(heap[q], k, rrn, pos) /\ k \in Keys /\ rrn \in Nat
        /\ pos + 1 \in DOMAIN Now(q).children /\ Now(q).children[pos + 1] = heap[curr].rrn
    BY <2>1 DEF Splits, After, SplitInto
  <2>3. heap[q] \in NodeOf(Keys, Nat) /\ Shaped(heap[q])
    BY <1>2, <2>2, SoundFacts DEF IInv, StoreTypes, Shapes
  <2>4. Len(heap[q].children) = Len(heap[q].keys) + 1
    BY <2>2, <2>3 DEF Shaped
  <2>5. Taken(heap[q], InsertInNode(heap[q], k, rrn, pos), k, rrn, pos, lo[q], hi[q])
    BY <2>2, <2>3, <2>4, TakenChildren
  <2>6. PICK w : w = Now(q)'
    OBVIOUS
  <2>7. /\ i \in DOMAIN w.children /\ heap'[m].rrn = w.children[i] /\ Now(p)' = w
        /\ Taken(Now(q), w, k, rrn, pos, lo[q], hi[q])
    BY <1>1, <1>13, <2>2, <2>5, <2>6
  <2>8. lo2[p] = lo[q] /\ hi2[p] = hi[q] /\ at2[p] = at[q]
    BY <1>3, <1>13
  <2>9. lo[curr] = Lower(Now(q), lo[q], pos + 1) /\ hi[curr] = Upper(Now(q), hi[q], pos + 1)
        /\ at[curr] = at[q] + 1
    BY <1>2, <1>6, <2>2
  <2>10. CASE w.children[i] = rrn /\ Lower(w, lo[q], i) = k
              /\ Upper(w, hi[q], i) = Upper(Now(q), hi[q], pos + 1)
    <3>1. m = N
      BY <1>1, <1>2, <1>7, <2>7, <2>10
    <3> QED
      BY <1>3, <2>7, <2>8, <2>9, <2>10, <3>1 DEF Leads
  <2>11. CASE /\ w.children[i] = Now(q).children[pos + 1]
              /\ Lower(w, lo[q], i) = Lower(Now(q), lo[q], pos + 1) /\ Upper(w, hi[q], i) = k
    <3>1. m \in alive /\ heap[m].rrn = heap[curr].rrn
      BY <1>8, <2>2, <2>7, <2>11
    <3>2. m = curr
      BY <1>2, <3>1, SoundFacts
    <3> QED
      BY <1>2, <1>3, <2>7, <2>8, <2>9, <2>11, <3>2 DEF Leads
  <2>12. CASE \E j \in DOMAIN Now(q).children \ {pos + 1} :
                /\ w.children[i] = Now(q).children[j]
                /\ Lower(w, lo[q], i) = Lower(Now(q), lo[q], j)
                /\ Upper(w, hi[q], i) = Upper(Now(q), hi[q], j)
    <3>1. PICK j \in DOMAIN Now(q).children \ {pos + 1} :
                /\ w.children[i] = Now(q).children[j]
                /\ Lower(w, lo[q], i) = Lower(Now(q), lo[q], j)
                /\ Upper(w, hi[q], i) = Upper(Now(q), hi[q], j)
      BY <2>12
    <3>2. m \in alive /\ heap[m].rrn = Now(q).children[j]
      BY <1>8, <2>2, <2>7, <3>1
    <3>3. /\ lo[m] = Lower(Now(q), lo[q], j) /\ hi[m] = Upper(Now(q), hi[q], j)
          /\ at[m] = at[q] + 1
      BY <1>6, <2>2, <3>2
    <3>4. m # curr
      <4>1. SUFFICES ASSUME m = curr PROVE j = pos + 1
        BY <3>1
      <4>2. heap[curr].rrn = Now(q).children[j]
        BY <3>2, <4>1
      <4> QED
        BY <1>2, <1>5, <2>2, <4>2, OneParent
    <3> QED
      BY <1>3, <2>7, <2>8, <3>1, <3>2, <3>3, <3>4 DEF Leads
  <2> QED
    BY <2>7, <2>10, <2>11, <2>12 DEF Taken
<1> QED
  BY <1>1, <1>2, <1>10, <1>11, <1>12, <1>13

LEMMA SplitLeaves ==
  ASSUME IInv, NEW lo, NEW hi, NEW at, NEW top, NEW lo2, NEW hi2, NEW at2,
         NEW N, NEW rrn, NEW u, NEW v, NEW k, NEW t, NEW q, NEW pos,
         Splits(lo, hi, at, top, lo2, hi2, at2, N, rrn, u, v, k, t, q, pos)
  PROVE  /\ Heights(at2, top)' /\ Linked(lo2, hi2)'
         /\ Leaves' = Leaves \cup (IF heap[curr].leaf THEN {N} ELSE {})
<1>1. /\ alive' = alive \cup {N} /\ curr \in alive /\ N \notin alive /\ Sound
      /\ \A n \in alive : n # curr => heap'[n] = heap[n]
      /\ heap'[curr] = u /\ heap'[N] = v /\ u.rrn = heap[curr].rrn /\ v.rrn = rrn
      /\ u.leaf = heap[curr].leaf /\ v.leaf = heap[curr].leaf
  BY DEF Splits, SplitInto
<1>2. /\ \A n \in alive : lo2[n] = lo[n] /\ at2[n] = at[n] /\ (n # curr => hi2[n] = hi[n])
      /\ lo2[N] = k /\ hi2[N] = hi[curr] /\ hi2[curr] = k /\ at2[N] = at[curr]
  BY DEF Splits, Divided
<1>3. /\ k # 0
      /\ heap[curr].leaf => u.next_leaf = rrn /\ v.next_leaf = heap[curr].next_leaf
  BY DEF Splits, Divided, Parted
<1>4. \A n \in alive : heap'[n].leaf = heap[n].leaf /\ heap'[n].rrn = heap[n].rrn
  BY <1>1
<1>5. Leaves' = Leaves \cup (IF heap[curr].leaf THEN {N} ELSE {})
  BY <1>1, <1>4 DEF Leaves
<1>6. Heights(at2, top)'
  <2>1. \A n \in alive : heap[n].leaf <=> at[n] = top
    BY DEF Splits, InOrder, Placed, Heights
  <2> QED
    BY <1>1, <1>2, <1>4, <2>1 DEF Heights
<1>7. ASSUME NEW n \in Leaves
      PROVE  /\ n \in alive /\ heap[n].leaf
             /\ hi[n] = 0 => heap[n].next_leaf = NoRrn
             /\ hi[n] # 0 => \E m \in Leaves : heap[m].rrn = heap[n].next_leaf /\ lo[m] = hi[n]
  BY DEF Leaves, Splits, InOrder, Placed, Linked
<1>8. \A m \in Leaves : m \in Leaves' /\ heap'[m].rrn = heap[m].rrn /\ lo2[m] = lo[m]
  BY <1>2, <1>4, <1>5 DEF Leaves
<1>9. ASSUME NEW n \in Leaves'
      PROVE  IF hi2[n] = 0 THEN heap'[n].next_leaf = NoRrn
             ELSE \E m \in Leaves' : heap'[m].rrn = heap'[n].next_leaf /\ lo2[m] = hi2[n]
  <2>1. CASE n = curr
    <3>1. heap[curr].leaf
      BY <1>1, <1>5, <1>7, <2>1 DEF Leaves
    <3>2. heap'[n].next_leaf = rrn /\ hi2[n] = k /\ N \in Leaves' /\ heap'[N].rrn = rrn /\ lo2[N] = k
      BY <1>1, <1>2, <1>3, <1>5, <2>1, <3>1
    <3> QED
      BY <1>3, <3>2
  <2>2. CASE n = N
    <3>1. heap[curr].leaf /\ curr \in Leaves
      BY <1>1, <1>5, <1>7, <2>2 DEF Leaves
    <3>2. heap'[n].next_leaf = heap[curr].next_leaf /\ hi2[n] = hi[curr]
      BY <1>1, <1>2, <1>3, <2>2, <3>1
    <3> QED
      BY <1>7, <1>8, <3>1, <3>2
  <2>3. CASE n # curr /\ n # N
    <3>1. n \in Leaves /\ n \in alive
      BY <1>5, <1>7, <2>3
    <3>2. heap'[n].next_leaf = heap[n].next_leaf /\ hi2[n] = hi[n]
      BY <1>1, <1>2, <2>3, <3>1
    <3> QED
      BY <1>7, <1>8, <3>1, <3>2
  <2> QED
    BY <2>1, <2>2, <2>3
<1> QED
  BY <1>5, <1>6, <1>9 DEF Linked

LEMMA SplitRouted ==
  ASSUME IInv, NEW lo, NEW hi, NEW at, NEW top, NEW lo2, NEW hi2, NEW at2,
         NEW N, NEW rrn, NEW u, NEW v, NEW k, NEW t, NEW q, NEW pos,
         Splits(lo, hi, at, top, lo2, hi2, at2, N, rrn, u, v, k, t, q, pos)
  PROVE  Routed(lo2)'
<1>1. /\ alive' = alive \cup {N} /\ curr \in alive /\ N \notin alive /\ Sound
      /\ \A n \in alive : n # curr => heap'[n] = heap[n]
      /\ heap'[curr] = u /\ heap'[N] = v /\ promo' = k /\ curr' = curr
      /\ u.leaf = heap[curr].leaf /\ v.leaf = heap[curr].leaf
  BY DEF Splits, SplitInto
<1>2. /\ \A n \in alive : lo2[n] = lo[n]
      /\ lo2[N] = k
      /\ ~heap[curr].leaf => t = Now(curr)
  BY DEF Splits, Divided
<1>3. /\ k \in ToSet(t.keys) /\ ToSet(u.keys) \subseteq ToSet(t.keys)
      /\ ToSet(v.keys) \subseteq ToSet(t.keys)
  BY DEF Splits, Divided, Parted
<1>4. Leaves' = Leaves \cup (IF heap[curr].leaf THEN {N} ELSE {})
  BY SplitLeaves
<1>5. \A p \in alive : ~heap[p].leaf => \A x \in ToSet(Now(p).keys) : \E n \in Leaves : lo[n] = x
  BY DEF Splits, InOrder, Placed, Routed, Leaves
<1>6. \A x : (\E n \in Leaves : lo[n] = x) => \E n \in Leaves' : lo2[n] = x
  BY <1>2, <1>4 DEF Leaves
<1>7. \E n \in Leaves' : lo2[n] = k
  <2>1. CASE heap[curr].leaf
    BY <1>2, <1>4, <2>1
  <2>2. CASE ~heap[curr].leaf
    BY <1>1, <1>2, <1>3, <1>5, <1>6, <2>2
  <2> QED
    BY <2>1, <2>2
<1>8. Now(curr)' = u /\ Now(N)' = v
      /\ \A n \in alive : n # curr /\ n # q => Now(n)' = Now(n)
  BY DEF Splits, After
<1>9. ASSUME NEW p \in alive' \ Leaves', NEW x \in ToSet(Now(p)'.keys)
      PROVE  \E n \in Leaves' : lo2[n] = x
  <2>1. ~heap'[p].leaf
    BY DEF Leaves
  <2>2. CASE p = curr \/ p = N
    <3>1. ~heap[curr].leaf /\ x \in ToSet(t.keys)
      BY <1>1, <1>3, <1>8, <1>9, <2>1, <2>2
    <3> QED
      BY <1>1, <1>2, <1>5, <1>6, <3>1
  <2>3. CASE p \in alive /\ p # curr /\ p # q
    <3>1. ~heap[p].leaf /\ x \in ToSet(Now(p).keys)
      BY <1>1, <1>8, <1>9, <2>1, <2>3
    <3> QED
      BY <1>5, <1>6, <2>3, <3>1
  <2>4. CASE p \in alive /\ p # curr /\ p = q
    <3>1. q # NoNode /\ q \in Nodes
      BY <1>1, <2>4, SoundFacts
    <3>2. /\ q \in alive /\ ~heap[q].leaf /\ Now(q) = heap[q] /\ pos \in 0 .. Len(heap[q].keys)
          /\ Now(q)' = InsertInNode(heap[q], k, rrn, pos) /\ k \in Keys /\ rrn \in Nat
      BY <3>1 DEF Splits, After, SplitInto
    <3>3. heap[q] \in NodeOf(Keys, Nat)
      BY <3>1 DEF IInv, StoreTypes
    <3>4. Added(heap[q], InsertInNode(heap[q], k, rrn, pos), k)
      BY <3>2, <3>3, KeyAdded
    <3>5. x \in ToSet(Now(q).keys) \cup {k}
      BY <1>9, <2>4, <3>2, <3>4 DEF Added
    <3> QED
      BY <1>5, <1>6, <1>7, <3>2, <3>5
  <2> QED
    BY <1>1, <2>2, <2>3, <2>4
<1> QED
  BY <1>1, <1>7, <1>9 DEF Routed

LEMMA SplitFilled ==
  ASSUME IInv, NEW lo, NEW hi, NEW at, NEW top, NEW lo2, NEW hi2, NEW at2,
         NEW N, NEW rrn, NEW u, NEW v, NEW k, NEW t, NEW q, NEW pos,
         Splits(lo, hi, at, top, lo2, hi2, at2, N, rrn, u, v, k, t, q, pos)
  PROVE  Filled'
<1>1. /\ alive' = alive \cup {N} /\ curr \in alive /\ N \notin alive /\ Sound /\ pc = "split"
      /\ \A n \in alive : n # curr => heap'[n] = heap[n]
      /\ heap'[curr] = u /\ heap'[N] = v /\ root' = root /\ pc' # "underflow"
  BY DEF Splits, SplitInto
<1>2. Len(u.keys) >= Half /\ Len(v.keys) >= Half
  BY DEF Splits, Divided, Parted
<1>3. \A n \in alive : Len(heap[n].keys) >= IF n = root THEN 1 ELSE Half
  <2>1. Short = NoNode /\ \A n \in alive : n # NoNode
    BY <1>1, SoundFacts DEF Short
  <2> QED
    BY <1>1, <2>1 DEF Splits, InOrder, Filled
<1>4. Half \in Nat /\ Half >= 1
  BY HalfBounds
<1>5. Len(u.keys) \in Nat /\ Len(v.keys) \in Nat
  <2>1. u \in NodeOf(Keys, Nat) /\ v \in NodeOf(Keys, Nat)
    BY DEF Splits, SplitInto
  <2> QED
    BY <2>1 DEF NodeOf
<1>6. root \in alive
  <2>1. root # NoNode
    BY <1>1 DEF Splits, InOrder, Placed, Topped
  <2> QED
    BY <1>1, <2>1, SoundFacts DEF Stored
<1>7. ASSUME NEW n \in alive'
      PROVE  Len(heap'[n].keys) >= IF n = root /\ pc' # "newroot" THEN 1 ELSE Half
  <2>1. CASE n \in {curr, N}
    BY <1>1, <1>2, <1>4, <1>5, <2>1
  <2>2. CASE n \in alive /\ n # curr
    <3>1. pc' = "newroot" => curr = root
      BY DEF Splits, After
    <3> QED
      BY <1>1, <1>3, <2>2, <3>1
  <2> QED
    BY <1>1, <2>1, <2>2
<1> QED
  BY <1>1, <1>7 DEF Filled

LEMMA SplitInOrder == ASSUME IInv, OInv, Split PROVE OInv'
<1>1. SUFFICES ASSUME Sound' PROVE \E lo, hi, at \in Places, top \in Nat : InOrder(lo, hi, at, top)'
  BY DEF OInv, Places, Nodes
<1>2. PICK N, rrn, u, v, k : SplitInto(N, rrn, u, v, k)
  BY <1>1, SplitDone
<1>3. Sound
  BY <1>2 DEF SplitInto
<1>4. PICK lo \in Places, hi \in Places, at \in Places, top \in Nat : InOrder(lo, hi, at, top)
  BY <1>3 DEF OInv
<1>0. PICK lo2 \in Places, hi2 \in Places, at2 \in Places :
         \E t : Divided(lo, hi, at, lo2, hi2, at2, N, rrn, u, v, k, t)
  BY <1>2, <1>4, DividedNow
<1>5. PICK t : Divided(lo, hi, at, lo2, hi2, at2, N, rrn, u, v, k, t)
  BY <1>0
<1>6. PICK q, pos : After(lo, hi, N, rrn, u, v, k, q, pos)
  BY <1>2, <1>4, <1>5, SplitNow
<1>7. Splits(lo, hi, at, top, lo2, hi2, at2, N, rrn, u, v, k, t, q, pos)
  BY <1>2, <1>4, <1>5, <1>6 DEF Splits
<1>8. Bounded(lo2, hi2)'
  BY <1>7, SplitBounded
<1>9. Led(lo2, hi2, at2)'
  BY <1>7, SplitLed
<1>10. Apart(lo2, hi2, at2)'
  BY <1>7, SplitApart
<1>11. Topped(lo2, hi2, at2)'
  BY <1>7, SplitTopped
<1>12. Heights(at2, top)' /\ Linked(lo2, hi2)'
  BY <1>7, SplitLeaves
<1>13. Routed(lo2)'
  BY <1>7, SplitRouted
<1>14. Filled'
  BY <1>7, SplitFilled
<1>15. /\ pc = "split" /\ promo' = k /\ r_child' = N /\ N # NoNode /\ op' = op /\ curr' = curr
       /\ path' = path /\ seen' = seen /\ pc' = (IF path = <<>> THEN "newroot" ELSE "ascend")
       /\ curr \in alive /\ \A n \in alive : n # curr => heap'[n] = heap[n]
       /\ heap'[curr].rrn = heap[curr].rrn
  BY <1>2 DEF SplitInto
<1>16. InCall(lo2, hi2)'
  <2>1. Removal(lo2, hi2)' /\ Query(lo2)'
    BY <1>15 DEF Removal, Query
  <2>2. Kinds'
    <3>1. op.kind = "insert"
      BY <1>4, <1>15 DEF InOrder, InCall, Kinds
    <3> QED
      BY <1>15, <3>1 DEF Kinds
  <2>3. CASE path = <<>>
    <3>1. Insertion(lo2, hi2)'
      BY <1>15, <2>3 DEF Insertion
    <3> QED
      BY <2>1, <2>2, <3>1 DEF InCall
  <2>4. CASE path # <<>>
    <3>1. q # NoNode
      BY <1>6, <2>4 DEF After
    <3>2. q = Last(path).node /\ pos = Last(path).pos /\ q \in alive /\ q # curr
          /\ pos = SearchPos(heap[q], k)
      BY <1>6, <3>1 DEF After
    <3>3. \A i \in DOMAIN path : path[i].node # curr /\ path[i].node \in alive
      BY <1>3, <1>4, <1>15, <2>4, FrameOf
    <3>4. Last(path').pos = SearchPos(heap'[Last(path').node], promo')
      BY <1>15, <3>2
    <3>5. \A i \in DOMAIN path :
            heap[path[i].node].children[path[i].pos + 1]
              = heap[IF i = Len(path) THEN curr ELSE path[i + 1].node].rrn
      BY <1>4, <1>15 DEF InOrder, InCall, Insertion
    <3>6. \A i \in DOMAIN path : i # Len(path) => i + 1 \in DOMAIN path
      <4>1. path \in Seq([node : Nodes, pos : 0 .. Order - 1])
        BY DEF IInv, CallTypes
      <4>2. Len(path) \in Nat /\ DOMAIN path = 1 .. Len(path)
        BY <4>1
      <4> QED
        BY <4>2
    <3>7. \A i \in DOMAIN path' :
            heap'[path'[i].node].children[path'[i].pos + 1]
              = heap'[IF i = Len(path') THEN curr' ELSE path'[i + 1].node].rrn
      <4>1. SUFFICES ASSUME NEW i \in DOMAIN path
                     PROVE  heap'[path[i].node].children[path[i].pos + 1]
                              = heap'[IF i = Len(path) THEN curr ELSE path[i + 1].node].rrn
        BY <1>15
      <4>2. heap'[path[i].node] = heap[path[i].node]
        BY <1>15, <3>3
      <4>3. heap'[IF i = Len(path) THEN curr ELSE path[i + 1].node].rrn
              = heap[IF i = Len(path) THEN curr ELSE path[i + 1].node].rrn
        BY <1>15, <3>3, <3>6
      <4> QED
        BY <3>5, <4>2, <4>3
    <3>8. Insertion(lo2, hi2)'
      BY <1>15, <2>4, <3>4, <3>7 DEF Insertion
    <3> QED
      BY <2>1, <2>2, <3>8 DEF InCall
  <2> QED
    BY <2>3, <2>4
<1>17. InOrder(lo2, hi2, at2, top)'
  BY <1>8, <1>9, <1>10, <1>11, <1>12, <1>13, <1>14, <1>16 DEF InOrder, Placed
<1> QED
  BY <1>4, <1>5, <1>17

-----------------------------------------------------------------------------
(* The node above takes the promoted key: it is now what it was to be. *)
LEMMA AscendWaiter ==
  ASSUME IInv, Sound, pc = "ascend", NEW lo, NEW hi, NEW at, NEW top, InOrder(lo, hi, at, top),
         NEW P, P = Last(path).node
  PROVE  /\ P \in alive /\ P \in Nodes /\ P # NoNode /\ Waiter = P
         /\ heap[P] \in NodeOf(Keys, Nat) /\ Shaped(heap[P]) /\ heap[P].leaf = FALSE
         /\ promo \in Keys /\ ChildRrn \in Nat
         /\ Last(path).pos = SearchPos(heap[P], promo)
         /\ Last(path).pos \in 0 .. Len(heap[P].keys)
         /\ Now(P) = InsertInNode(heap[P], promo, ChildRrn, SearchPos(heap[P], promo))
         /\ Ascending(Now(P).keys)
<1>1. /\ P \in Nodes /\ heap[P].leaf = FALSE /\ promo \in Keys /\ ChildRrn \in Nat
      /\ ChildRrn = heap[r_child].rrn /\ r_child # NoNode
      /\ Last(path).pos \in 0 .. Len(heap[P].keys)
  BY FrameAbove
<1>2. Waiter = P
  BY <1>1 DEF Waiter
<1>3. P # NoNode
  BY <1>1 DEF Nodes, NoNode
<1>4. P \in alive
  BY <1>2, <1>3, WaiterProps
<1>5. heap[P] \in NodeOf(Keys, Nat) /\ Shaped(heap[P])
  BY <1>1 DEF IInv, StoreTypes, Shapes
<1>6. Last(path).pos = SearchPos(heap[P], promo)
  BY DEF InOrder, InCall, Insertion
<1>7. Now(P) = InsertInNode(heap[P], promo, ChildRrn, SearchPos(heap[P], promo))
  BY <1>1, <1>2 DEF Now
<1>8. Ascending(Now(P).keys)
  BY <1>4 DEF InOrder, Placed, Bounded, Covers
<1> QED
  BY <1>1, <1>2, <1>3, <1>4, <1>5, <1>6, <1>7, <1>8

LEMMA AscendFullInOrder ==
  ASSUME IInv, OInv, Ascend, Sound', NEW P, P = Last(path).node,
         curr' = P, path' = Front(path), pc' = "split",
         UNCHANGED <<heap, cache, alive, op, promo, r_child, seen, answer, faults>>
  PROVE  \E lo, hi, at \in Places, top \in Nat : InOrder(lo, hi, at, top)'
<1>1. /\ pc = "ascend" /\ status = "running" /\ root' = root
      /\ Sound /\ r_child # NoNode /\ r_child' = r_child
  BY DEF Ascend, At, IInv, Control, Sound
<1>2. PICK lo \in Places, hi \in Places, at \in Places, top \in Nat : InOrder(lo, hi, at, top)
  BY <1>1 DEF OInv
<1>3. /\ P \in alive /\ P \in Nodes /\ P # NoNode /\ Waiter = P
      /\ heap[P] \in NodeOf(Keys, Nat)
      /\ promo \in Keys
      /\ Now(P) = InsertInNode(heap[P], promo, ChildRrn, SearchPos(heap[P], promo))
      /\ Ascending(Now(P).keys)
  BY <1>1, <1>2, AscendWaiter
<1>4. Waiter' = P /\ Tops' = Tops /\ Short' = NoNode /\ Short = NoNode
  BY <1>1 DEF Waiter, Tops, Short
<1>5. heap' = heap /\ alive' = alive /\ \A n : Now(n)' = Now(n)
  BY <1>1, <1>3, <1>4 DEF Now
<1>6. Placed(lo, hi, at, top)'
  <2>1. Placed(lo, hi, at, top)
    BY <1>2 DEF InOrder
  <2> QED
    BY <1>1, <1>4, <1>5, <2>1, KeptPlaces
<1>7. Filled'
  BY <1>1, <1>2, <1>4, <1>5 DEF InOrder, Filled
<1>8. ~Found(heap[P], promo)
  <2>1. PICK C, p, r, t : C = Nat /\ p = heap[P] /\ r = ChildRrn /\ t = Now(P)
    OBVIOUS
  <2>2. p \in NodeOf(Keys, C) /\ t = InsertInNode(p, promo, r, SearchPos(p, promo)) /\ Ascending(t.keys)
    BY <1>3, <2>1
  <2>3. Keys \in SUBSET Nat
    BY KeysAssumption
  <2> QED
    BY <1>3, <2>1, <2>2, <2>3, OverfullIs
<1>9. \A i \in DOMAIN path' :
        heap[path'[i].node].children[path'[i].pos + 1]
          = heap[IF i = Len(path') THEN curr' ELSE path'[i + 1].node].rrn
  <2>1. \A i \in DOMAIN path :
          heap[path[i].node].children[path[i].pos + 1]
            = heap[IF i = Len(path) THEN curr ELSE path[i + 1].node].rrn
    BY <1>1, <1>2 DEF InOrder, InCall, Insertion
  <2>2. PICK n \in Nat \ {0} : n = Len(path) /\ DOMAIN path = 1 .. n /\ P = path[n].node
    BY <1>1, FrameAbove
  <2>3. /\ path' \in Seq([node : Nodes, pos : 0 .. Order - 1])
        /\ Len(path') = n - 1 /\ \A i \in 1 .. n - 1 : path'[i] = path[i]
    <3>1. path \in Seq([node : Nodes, pos : 0 .. Order - 1]) /\ path # <<>>
      BY <2>2 DEF IInv, CallTypes
    <3> QED
      BY <2>2, <3>1, EndProps
  <2>4. DOMAIN path' = 1 .. n - 1
    BY <2>2, <2>3
  <2>5. ASSUME NEW i \in 1 .. n - 1
        PROVE  heap[path'[i].node].children[path'[i].pos + 1]
                 = heap[IF i = n - 1 THEN curr' ELSE path'[i + 1].node].rrn
    <3>1. i \in 1 .. n /\ i # n /\ path'[i] = path[i]
      BY <2>2, <2>3, <2>5
    <3>2. heap[path'[i].node].children[path'[i].pos + 1] = heap[path[i + 1].node].rrn
      BY <2>1, <2>2, <3>1
    <3>3. CASE i = n - 1
      <4>1. i + 1 = n
        BY <2>2, <3>3
      <4> QED
        BY <2>2, <3>2, <3>3, <4>1
    <3>4. CASE i # n - 1
      <4>1. i + 1 \in 1 .. n - 1
        BY <2>2, <2>5, <3>4
      <4> QED
        BY <2>3, <3>2, <3>4, <4>1
    <3> QED
      BY <3>3, <3>4
  <2> QED
    BY <2>3, <2>4, <2>5
<1>10. Insertion(lo, hi)'
  BY <1>1, <1>5, <1>8, <1>9 DEF Insertion
<1>11. Removal(lo, hi)' /\ Query(lo)'
  BY DEF Removal, Query
<1>12. Kinds'
  BY <1>1, <1>2 DEF InOrder, InCall, Kinds
<1>13. InOrder(lo, hi, at, top)'
  BY <1>6, <1>7, <1>10, <1>11, <1>12 DEF InOrder, InCall
<1> QED
  BY <1>13

(* The waiting node P takes the promoted key and the new node, and becomes q. *)
ParentTook(P, q) ==
  /\ pc = "ascend" /\ Sound /\ r_child # NoNode /\ root' = root /\ alive' = alive
  /\ P = Last(path).node /\ P \in alive /\ P \in Nodes
  /\ q = InsertInNode(heap[P], promo, ChildRrn, Last(path).pos)
  /\ q.leaf = heap[P].leaf /\ q.rrn = heap[P].rrn /\ q.next_leaf = heap[P].next_leaf
  /\ Len(heap[P].keys) \in Nat /\ Len(q.keys) = Len(heap[P].keys) + 1
  /\ heap'[P] = q /\ \A n \in alive : n # P => heap'[n] = heap[n]
  /\ Return("ok")

LEMMA AscendRoomDone ==
  ASSUME IInv, Ascend, Sound', NEW P, P = Last(path).node,
         NEW m \in Successes(1),
         Write([heap EXCEPT ![P] = InsertInNode(@, promo, ChildRrn, Last(path).pos)],
               alive, <<P>>, m, {}),
         Return(IF m = 1 THEN "ok" ELSE "io")
  PROVE  \E q : ParentTook(P, q)
<1>1. /\ pc = "ascend" /\ status = "running" /\ root' = root /\ r_child # NoNode
      /\ P \in Nodes /\ P \in alive /\ StoreTypes /\ Numbers /\ faults' = {}
      /\ heap[P] \in NodeOf(Keys, Nat) /\ promo \in Keys
      /\ Last(path).pos \in 0 .. Len(heap[P].keys)
  <2>1. pc = "ascend" /\ status = "running" /\ root' = root /\ P \in alive
    BY DEF Ascend, At
  <2>2. P \in Nodes /\ promo \in Keys /\ r_child # NoNode /\ Last(path).pos \in 0 .. Len(heap[P].keys)
    BY <2>1, FrameAbove
  <2> QED
    BY <2>1, <2>2 DEF IInv, StoreTypes, Sound
<1>2. PICK q, h : q = InsertInNode(heap[P], promo, ChildRrn, Last(path).pos)
                  /\ h = [heap EXCEPT ![P] = q]
  OBVIOUS
<1>3. /\ q.leaf = heap[P].leaf /\ q.rrn = heap[P].rrn /\ q.next_leaf = heap[P].next_leaf
      /\ Len(heap[P].keys) \in Nat /\ Len(q.keys) = Len(heap[P].keys) + 1
  <2>1. PICK C, p, r, pos : C = Nat /\ p = heap[P] /\ r = ChildRrn /\ pos = Last(path).pos
    OBVIOUS
  <2>2. p \in NodeOf(Keys, C) /\ pos \in 0 .. Len(p.keys) /\ q = InsertInNode(p, promo, r, pos)
    BY <1>1, <1>2, <2>1
  <2>3. Added(p, InsertInNode(p, promo, r, pos), promo)
    BY <1>1, <2>2, KeyAdded
  <2> QED
    BY <2>1, <2>2, <2>3 DEF Added
<1>4. Distinct(h, alive)
  <2>1. h[P] = q /\ \A n \in alive : n # P => h[n] = heap[n]
    BY <1>1, <1>2 DEF StoreTypes
  <2>2. \A n \in alive : h[n].rrn = heap[n].rrn
    BY <1>3, <2>1
  <2> QED
    BY <1>1, <2>2 DEF Numbers, Distinct
<1>5. m = 1 /\ heap' = h /\ alive' = alive /\ faults = {}
  <2>1. WriteAs(h, alive, <<P>>, m, {}, {}) /\ alive \in SUBSET Nodes
    BY <1>1, <1>2 DEF Write, StoreTypes
  <2> QED
    BY <1>1, <1>4, <2>1, WroteOne
<1>6. Sound
  BY <1>1, <1>5 DEF Sound
<1>7. h[P] = q /\ \A n \in alive : n # P => h[n] = heap[n]
  BY <1>1, <1>2 DEF StoreTypes
<1>8. ParentTook(P, q)
  BY <1>1, <1>2, <1>3, <1>5, <1>6, <1>7 DEF ParentTook
<1> QED
  BY <1>8

LEMMA AscendRoomInOrder ==
  ASSUME IInv, OInv, NEW P, NEW q, ParentTook(P, q)
  PROVE  \E lo, hi, at \in Places, top \in Nat : InOrder(lo, hi, at, top)'
<1>1. /\ pc = "ascend" /\ Sound /\ r_child # NoNode /\ root' = root /\ alive' = alive
      /\ P = Last(path).node /\ P \in alive /\ P \in Nodes /\ Return("ok")
      /\ q = InsertInNode(heap[P], promo, ChildRrn, Last(path).pos)
  BY DEF ParentTook
<1>2. /\ q.leaf = heap[P].leaf /\ q.rrn = heap[P].rrn /\ q.next_leaf = heap[P].next_leaf
      /\ Len(heap[P].keys) \in Nat /\ Len(q.keys) = Len(heap[P].keys) + 1
      /\ heap'[P] = q /\ \A n \in alive : n # P => heap'[n] = heap[n]
  BY DEF ParentTook
<1>3. PICK lo \in Places, hi \in Places, at \in Places, top \in Nat : InOrder(lo, hi, at, top)
  BY <1>1 DEF OInv
<1>4. Waiter = P /\ P # NoNode /\ Now(P) = q
  BY <1>1, <1>3, AscendWaiter
<1>5. /\ InCall(lo, hi)' /\ Waiter' = NoNode /\ Short' = NoNode /\ pc' = "idle"
      /\ Tops' = {root'} \ {NoNode}
  BY <1>1, CallOver DEF Return
<1>6. Tops' = Tops
  BY <1>1, <1>5 DEF Tops
<1>7. \A n \in alive : n # NoNode
  BY <1>1, SoundFacts
<1>8. \A n \in alive : Now(n)' = Now(n)
  BY <1>2, <1>4, <1>5, <1>7 DEF Now
<1>9. Placed(lo, hi, at, top)'
  <2>1. \A n \in alive : heap'[n].rrn = heap[n].rrn /\ heap'[n].leaf = heap[n].leaf
                         /\ heap'[n].next_leaf = heap[n].next_leaf
    BY <1>2
  <2>2. Placed(lo, hi, at, top)
    BY <1>3 DEF InOrder
  <2> QED
    BY <1>1, <1>5, <1>6, <1>8, <2>1, <2>2, KeptPlaces
<1>10. Filled'
  <2>1. Short = NoNode /\ pc # "newroot"
    BY <1>1 DEF Short
  <2>2. ASSUME NEW n \in alive PROVE Len(heap'[n].keys) >= IF n = root THEN 1 ELSE Half
    <3>1. n # NoNode /\ Len(heap[n].keys) >= IF n = root THEN 1 ELSE Half
      BY <1>3, <1>7, <2>1 DEF InOrder, Filled
    <3>2. CASE n = P
      <4>1. Len(heap'[n].keys) = Len(heap[n].keys) + 1
        BY <1>2, <3>2
      <4> QED
        BY <1>2, <3>1, <3>2, <4>1, HalfBounds
    <3>3. CASE n # P
      BY <1>2, <3>1, <3>3
    <3> QED
      BY <3>2, <3>3
  <2> QED
    BY <1>1, <1>5, <2>2 DEF Filled
<1>11. InOrder(lo, hi, at, top)'
  BY <1>5, <1>9, <1>10 DEF InOrder
<1> QED
  BY <1>11

LEMMA AscendInOrder == ASSUME IInv, OInv, Ascend PROVE OInv'
<1>1. SUFFICES ASSUME Sound' PROVE \E lo, hi, at \in Places, top \in Nat : InOrder(lo, hi, at, top)'
  BY DEF OInv, Places, Nodes
<1>2. PICK P : P = Last(path).node
  OBVIOUS
<1>3. \/ /\ ~Full(heap[P])
         /\ \E m \in Successes(1) :
              /\ Write([heap EXCEPT ![P] = InsertInNode(@, promo, ChildRrn, Last(path).pos)],
                       alive, <<P>>, m, {})
              /\ Return(IF m = 1 THEN "ok" ELSE "io")
      \/ /\ curr' = P /\ path' = Front(path) /\ pc' = "split"
         /\ UNCHANGED <<heap, cache, alive, op, promo, r_child, seen, answer, faults>>
  BY <1>2 DEF Ascend
<1> QED
  BY <1>1, <1>2, <1>3, AscendFullInOrder, AscendRoomDone, AscendRoomInOrder

-----------------------------------------------------------------------------
(* The new root N, with a fresh rrn, leads to the two halves of the old one. *)
RootInto(N, rrn, w) ==
  /\ pc = "newroot" /\ Sound /\ curr = root /\ root \in alive /\ r_child \in alive
  /\ N \in Nodes /\ N \notin alive /\ N # NoNode
  /\ rrn \in Nat /\ \A n \in alive : heap[n].rrn # rrn
  /\ promo \in Keys /\ promo \in Nat /\ promo > 0
  /\ heap[root].rrn \in Nat /\ heap[r_child].rrn \in Nat
  /\ w = RootNode(rrn, promo, heap[root].rrn, heap[r_child].rrn)
  /\ alive' = alive \cup {N} /\ heap'[N] = w /\ \A n \in alive : heap'[n] = heap[n]
  /\ root' = N /\ Return("ok")

RootIs(rrn, key, a, b, w) ==
  /\ w.rrn = rrn /\ w.leaf = FALSE /\ Len(w.keys) = 1 /\ w.keys[1] = key
  /\ DOMAIN w.keys = {1} /\ DOMAIN w.children = {1, 2} /\ w.children[1] = a /\ w.children[2] = b

LEMMA RootMade == ASSUME NEW rrn, NEW key, NEW a, NEW b
                  PROVE  RootIs(rrn, key, a, b, RootNode(rrn, key, a, b))
<1>1. PICK w : w = RootNode(rrn, key, a, b)
  OBVIOUS
<1>2. w.rrn = rrn /\ w.leaf = FALSE /\ w.keys = <<key>> /\ w.children = <<a, b>>
  BY <1>1 DEF RootNode, Blank
<1>3. Len(<<key>>) = 1 /\ DOMAIN <<key>> = {1} /\ <<key>>[1] = key
  OBVIOUS
<1>4. DOMAIN <<a, b>> = {1, 2} /\ <<a, b>>[1] = a /\ <<a, b>>[2] = b
  OBVIOUS
<1>5. RootIs(rrn, key, a, b, w)
  BY <1>2, <1>3, <1>4 DEF RootIs
<1> QED
  BY <1>1, <1>5

LEMMA NewRootDone ==
  ASSUME IInv, NewRoot, Sound'
  PROVE  \E N, rrn, w : RootInto(N, rrn, w)
<1>1. /\ status = "running" /\ pc = "newroot" /\ curr \in alive /\ r_child \in alive
      /\ RrnIsFresh /\ Unused # {} /\ StoreTypes /\ Numbers /\ Control /\ faults' = {}
  BY DEF NewRoot, CanAllocate, At, IInv, Sound
<1>2. promo \in Keys /\ promo \in Nat /\ promo > 0 /\ curr = root
  <2>1. promo \in Keys /\ curr = root
    BY <1>1 DEF Control
  <2>2. \A k \in Keys : k \in Nat /\ k > 0
    BY KeysAssumption
  <2> QED
    BY <2>1, <2>2
<1>3. heap[root].rrn \in Nat /\ heap[r_child].rrn \in Nat
  BY <1>1, <1>2 DEF Numbers
<1>4. PICK N, rrn, w, a, b : /\ N = NewNode /\ rrn = NextRrn
                             /\ a = heap[root].rrn /\ b = heap[r_child].rrn
                             /\ w = RootNode(rrn, promo, a, b)
  OBVIOUS
<1>5. N \in Nodes /\ N \notin alive /\ N # NoNode /\ rrn \in Nat
  <2>1. N \in Nodes /\ N \notin alive /\ rrn \in Nat
    BY <1>1, <1>4, NextRrnProps, NewNodeProps
  <2> QED
    BY <2>1 DEF Nodes, NoNode
<1>6. w \in NodeOf(Keys, Nat) /\ w.rrn = rrn
  <2>1. PICK C : C = Nat
    OBVIOUS
  <2>2. PICK key, r : key = promo /\ r = rrn
    OBVIOUS
  <2>3. key \in Keys /\ r \in Nat /\ a \in C /\ b \in C /\ w = RootNode(r, key, a, b)
    BY <1>2, <1>3, <1>4, <1>5, <2>1, <2>2
  <2>4. w \in NodeOf(Keys, C) /\ w.rrn = r
    BY <2>3, RootNodeProps
  <2> QED
    BY <2>1, <2>2, <2>4
<1>7. PICK h, live : h = [heap EXCEPT ![NewNode] = w] /\ live = alive \cup {NewNode}
  OBVIOUS
<1>8. /\ h \in [Nodes -> NodeOf(Keys, Nat)] /\ h[NewNode] = w
      /\ \A x \in Nodes : x # NewNode => h[x] = heap[x]
  BY <1>1, <1>4, <1>5, <1>6, <1>7 DEF StoreTypes
<1>9. \A x \in alive : h[x] = heap[x]
  BY <1>1, <1>4, <1>5, <1>8 DEF StoreTypes
<1>10. live \in SUBSET Nodes /\ Distinct(h, live) /\ NewNode \in live
  BY <1>1, <1>4, <1>6, <1>7, <1>8, <1>9, NewNodeAdds
<1>11. PICK m \in Successes(1) :
         /\ WriteAs(h, live, <<NewNode>>, m, {NewNode}, {})
         /\ Return(IF m = 1 THEN "ok" ELSE "io")
         /\ root' = IF m = 1 THEN NewNode ELSE root
  BY <1>4, <1>7 DEF NewRoot, Write, RootNode
<1>12. m = 1 /\ heap' = h /\ alive' = live /\ faults = {}
  BY <1>1, <1>10, <1>11, WroteOne
<1>13. \A n \in alive : heap[n].rrn # rrn
  BY <1>1, <1>4 DEF RrnIsFresh
<1>14. /\ Sound /\ alive' = alive \cup {N} /\ heap'[N] = w /\ \A n \in alive : heap'[n] = heap[n]
       /\ root' = N /\ Return("ok") /\ root \in alive
  BY <1>1, <1>2, <1>4, <1>7, <1>8, <1>9, <1>11, <1>12 DEF Sound
<1>15. RootInto(N, rrn, w)
  BY <1>1, <1>2, <1>3, <1>4, <1>5, <1>13, <1>14 DEF RootInto
<1> QED
  BY <1>15

(* The old nodes are one level further down; everything is below the new root. *)
Above(lo, hi, at, top, lo2, hi2, at2, N, rrn, w) ==
  /\ lo \in Places /\ hi \in Places /\ at \in Places /\ top \in Nat /\ InOrder(lo, hi, at, top)
  /\ RootInto(N, rrn, w)
  /\ \A n \in alive : lo2[n] = lo[n] /\ hi2[n] = hi[n] /\ at2[n] = at[n] + 1 /\ at[n] \in Nat
  /\ lo2[N] = 0 /\ hi2[N] = 0 /\ at2[N] = 0

LEMMA AboveFacts ==
  ASSUME IInv, NEW lo, NEW hi, NEW at, NEW top, NEW lo2, NEW hi2, NEW at2, NEW N, NEW rrn, NEW w,
         Above(lo, hi, at, top, lo2, hi2, at2, N, rrn, w)
  PROVE  /\ lo[root] = 0 /\ hi[root] = promo /\ lo[r_child] = promo /\ hi[r_child] = 0
         /\ at[root] = 0 /\ at[r_child] = 0 /\ root # r_child
         /\ \A n \in alive : n # N /\ Now(n) = heap[n] /\ Now(n)' = heap[n] /\ heap'[n] = heap[n]
         /\ Now(N)' = w /\ RootIs(rrn, promo, heap[root].rrn, heap[r_child].rrn, w)
         /\ Tops = {root, r_child} /\ Tops' = {N} /\ Waiter' = NoNode
         /\ pc' = "idle" /\ Short = NoNode /\ Short' = NoNode /\ InCall(lo2, hi2)'
         /\ Leaves' = Leaves /\ alive' = alive \cup {N}
<1>1. /\ pc = "newroot" /\ Sound /\ root \in alive /\ r_child \in alive
      /\ N \notin alive /\ N # NoNode /\ promo > 0
      /\ w = RootNode(rrn, promo, heap[root].rrn, heap[r_child].rrn)
      /\ alive' = alive \cup {N} /\ heap'[N] = w /\ \A n \in alive : heap'[n] = heap[n]
      /\ root' = N /\ Return("ok")
  BY DEF Above, RootInto
<1>2. \A n \in alive : n # NoNode
  BY <1>1, SoundFacts
<1>3. Waiter = NoNode /\ Tops = {root, r_child} /\ Short = NoNode
  BY <1>1, <1>2 DEF Waiter, Tops, Short
<1>4. /\ InCall(lo2, hi2)' /\ Waiter' = NoNode /\ Short' = NoNode /\ pc' = "idle"
      /\ Tops' = {root'} \ {NoNode}
  BY <1>1, CallOver DEF Return
<1>5. \A n \in alive : n # N /\ Now(n) = heap[n] /\ Now(n)' = heap[n] /\ heap'[n] = heap[n]
  BY <1>1, <1>2, <1>3, <1>4 DEF Now
<1>6. Now(N)' = w
  BY <1>1, <1>4 DEF Now
<1>7. Topped(lo, hi, at)
  BY DEF Above, InOrder, Placed
<1>8. /\ lo[root] = 0 /\ hi[root] = promo /\ lo[r_child] = promo /\ hi[r_child] = 0
      /\ at[root] = 0 /\ at[r_child] = 0
  BY <1>1, <1>2, <1>3, <1>7 DEF Topped
<1>9. RootIs(rrn, promo, heap[root].rrn, heap[r_child].rrn, w)
  BY <1>1, RootMade
<1>10. Leaves' = Leaves
  BY <1>1, <1>9 DEF Leaves, RootIs
<1>11. root # r_child
  BY <1>1, <1>8
<1> QED
  BY <1>1, <1>3, <1>4, <1>5, <1>6, <1>8, <1>9, <1>10, <1>11

LEMMA AboveLed ==
  ASSUME IInv, NEW lo, NEW hi, NEW at, NEW top, NEW lo2, NEW hi2, NEW at2, NEW N, NEW rrn, NEW w,
         Above(lo, hi, at, top, lo2, hi2, at2, N, rrn, w)
  PROVE  Led(lo2, hi2, at2)'
<1>1. SUFFICES ASSUME NEW p \in alive', NEW m \in alive', NEW i \in DOMAIN Now(p)'.children,
                      heap'[m].rrn = Now(p)'.children[i]
               PROVE  /\ lo2[m] = Lower(Now(p)', lo2[p], i) /\ hi2[m] = Upper(Now(p)', hi2[p], i)
                      /\ at2[m] = at2[p] + 1
  BY DEF Led
<1>2. /\ lo[root] = 0 /\ hi[root] = promo /\ lo[r_child] = promo /\ hi[r_child] = 0
      /\ at[root] = 0 /\ at[r_child] = 0
      /\ \A n \in alive : n # N /\ Now(n) = heap[n] /\ Now(n)' = heap[n] /\ heap'[n] = heap[n]
      /\ Now(N)' = w /\ RootIs(rrn, promo, heap[root].rrn, heap[r_child].rrn, w)
      /\ alive' = alive \cup {N}
  BY AboveFacts
<1>3. /\ \A n \in alive : lo2[n] = lo[n] /\ hi2[n] = hi[n] /\ at2[n] = at[n] + 1 /\ at[n] \in Nat
      /\ lo2[N] = 0 /\ hi2[N] = 0 /\ at2[N] = 0
  BY DEF Above
<1>4. /\ Sound /\ root \in alive /\ r_child \in alive /\ heap'[N] = w
      /\ \A n \in alive : heap[n].rrn # rrn
  BY DEF Above, RootInto
<1>5. \A m1, m2 \in alive : heap[m1].rrn = heap[m2].rrn => m1 = m2
  BY <1>4, SoundFacts
<1>6. CASE p = N
  <2>1. m \in alive
    <3>1. Now(p)'.children[i] \in {heap[root].rrn, heap[r_child].rrn}
      BY <1>1, <1>2, <1>6 DEF RootIs
    <3>2. heap'[N].rrn = rrn
      BY <1>2, <1>4 DEF RootIs
    <3> QED
      BY <1>1, <1>2, <1>4, <3>1, <3>2
  <2>2. CASE i = 1
    <3>1. m = root
      BY <1>1, <1>2, <1>4, <1>5, <1>6, <2>1, <2>2 DEF RootIs
    <3> QED
      BY <1>2, <1>3, <1>4, <1>6, <2>2, <3>1 DEF RootIs, Lower, Upper
  <2>3. CASE i = 2
    <3>1. m = r_child
      BY <1>1, <1>2, <1>4, <1>5, <1>6, <2>1, <2>3 DEF RootIs
    <3>2. i # 1 /\ i - 1 = 1 /\ i = 1 + 1
      BY <2>3
    <3>3. Lower(w, lo2[N], i) = promo /\ Upper(w, hi2[N], i) = 0
      BY <1>2, <1>3, <3>2 DEF RootIs, Lower, Upper
    <3> QED
      BY <1>2, <1>3, <1>4, <1>6, <3>1, <3>3
  <2> QED
    BY <1>1, <1>2, <1>6, <2>2, <2>3 DEF RootIs
<1>7. CASE p \in alive
  <2>1. Now(p)' = Now(p) /\ i \in DOMAIN Now(p).children
    BY <1>1, <1>2, <1>7
  <2>2. Now(p).children[i] \in ToSet(Now(p).children)
    BY <2>1 DEF ToSet
  <2>3. PICK n \in alive : heap[n].rrn = Now(p).children[i]
    BY <1>4, <1>7, <2>2, NowChildren
  <2>4. m \in alive
    <3>1. heap'[N].rrn = rrn
      BY <1>2, <1>4 DEF RootIs
    <3> QED
      BY <1>1, <1>2, <1>4, <2>1, <2>3, <3>1
  <2>5. heap[m].rrn = Now(p).children[i]
    BY <1>1, <1>2, <2>1, <2>4
  <2>6. lo[m] = Lower(Now(p), lo[p], i) /\ hi[m] = Upper(Now(p), hi[p], i) /\ at[m] = at[p] + 1
    BY <1>7, <2>1, <2>4, <2>5 DEF Above, InOrder, Placed, Led
  <2> QED
    BY <1>3, <1>7, <2>1, <2>4, <2>6
<1> QED
  BY <1>2, <1>6, <1>7

LEMMA NewRootInOrder == ASSUME IInv, OInv, NewRoot PROVE OInv'
<1>1. SUFFICES ASSUME Sound' PROVE \E lo, hi, at \in Places, top \in Nat : InOrder(lo, hi, at, top)'
  BY DEF OInv, Places, Nodes
<1>2. PICK N, rrn, w : RootInto(N, rrn, w)
  BY <1>1, NewRootDone
<1>3. /\ Sound /\ N \in Nodes /\ N \notin alive /\ heap'[N] = w /\ promo > 0 /\ promo \in Nat
      /\ root' = N /\ N # NoNode /\ root \in alive /\ r_child \in alive
  BY <1>2 DEF RootInto
<1>4. PICK lo \in Places, hi \in Places, at \in Places, top \in Nat : InOrder(lo, hi, at, top)
  BY <1>3 DEF OInv
<1>5. PICK lo2 \in Places, hi2 \in Places, at2 \in Places :
        /\ lo2 = [lo EXCEPT ![N] = 0] /\ hi2 = [hi EXCEPT ![N] = 0]
        /\ at2 = [n \in Nodes |-> IF n = N THEN 0 ELSE at[n] + 1]
  <2>1. [n \in Nodes |-> IF n = N THEN 0 ELSE at[n] + 1] \in Places
    BY DEF Places
  <2> QED
    BY <1>3, <2>1 DEF Places
<1>6. Above(lo, hi, at, top, lo2, hi2, at2, N, rrn, w)
  <2>1. alive \subseteq Nodes
    BY <1>3, SoundFacts
  <2>2. \A n \in alive : lo2[n] = lo[n] /\ hi2[n] = hi[n] /\ at2[n] = at[n] + 1 /\ at[n] \in Nat
    BY <1>3, <1>5, <2>1 DEF Places
  <2>3. lo2[N] = 0 /\ hi2[N] = 0 /\ at2[N] = 0
    BY <1>3, <1>5 DEF Places
  <2> QED
    BY <1>2, <1>4, <2>2, <2>3 DEF Above
<1>7. /\ lo[root] = 0 /\ hi[root] = promo /\ lo[r_child] = promo /\ hi[r_child] = 0
      /\ \A n \in alive : n # N /\ Now(n) = heap[n] /\ Now(n)' = heap[n] /\ heap'[n] = heap[n]
      /\ Now(N)' = w /\ RootIs(rrn, promo, heap[root].rrn, heap[r_child].rrn, w)
      /\ Tops = {root, r_child} /\ Tops' = {N} /\ pc' = "idle" /\ Short = NoNode /\ Short' = NoNode
      /\ InCall(lo2, hi2)' /\ Leaves' = Leaves /\ alive' = alive \cup {N}
  BY <1>6, AboveFacts
<1>8. /\ \A n \in alive : lo2[n] = lo[n] /\ hi2[n] = hi[n] /\ at2[n] = at[n] + 1 /\ at[n] \in Nat
      /\ lo2[N] = 0 /\ hi2[N] = 0 /\ at2[N] = 0
  BY <1>6 DEF Above
<1>9. Bounded(lo2, hi2)'
  <2>1. Covers(w, 0, 0)
    BY <1>3, <1>7 DEF RootIs, Covers, Ascending, Gap
  <2> QED
    BY <1>4, <1>7, <1>8, <2>1 DEF Bounded, InOrder, Placed
<1>10. Led(lo2, hi2, at2)'
  BY <1>6, AboveLed
<1>11. Apart(lo2, hi2, at2)'
  <2>1. \A m, n \in alive : m # n /\ at2[m] = at2[n] => Before(hi2[m], lo2[n]) \/ Before(hi2[n], lo2[m])
    BY <1>4, <1>8 DEF Apart, InOrder, Placed
  <2>2. \A m \in alive : at2[m] # at2[N]
    BY <1>8
  <2> QED
    BY <1>7, <2>1, <2>2 DEF Apart
<1>12. Topped(lo2, hi2, at2)'
  <2>1. ASSUME NEW n \in alive', n \notin Tops'
        PROVE  \E p \in alive' : heap'[n].rrn \in ToSet(Now(p)'.children)
    <3>1. n \in alive
      BY <1>7, <2>1
    <3>2. CASE n \in Tops
      <4>1. heap[root].rrn \in ToSet(w.children) /\ heap[r_child].rrn \in ToSet(w.children)
        BY <1>7 DEF RootIs, ToSet
      <4> QED
        BY <1>7, <3>1, <3>2, <4>1
    <3>3. CASE n \notin Tops
      <4>1. PICK p \in alive : heap[n].rrn \in ToSet(Now(p).children)
        BY <1>4, <3>1, <3>3 DEF InOrder, Placed, Topped
      <4> QED
        BY <1>7, <3>1, <4>1
    <3> QED
      BY <3>2, <3>3
  <2> QED
    BY <1>3, <1>7, <1>8, <2>1 DEF Topped
<1>13. Heights(at2, top + 1)'
  <2>1. \A n \in alive : heap[n].leaf <=> at[n] = top
    BY <1>4 DEF InOrder, Placed, Heights
  <2>2. heap'[N].leaf = FALSE /\ at2[N] # top + 1
    BY <1>3, <1>7, <1>8 DEF RootIs
  <2> QED
    BY <1>7, <1>8, <2>1, <2>2 DEF Heights
<1>14. Linked(lo2, hi2)'
  <2>1. \A n \in Leaves : n \in alive /\ heap'[n] = heap[n] /\ lo2[n] = lo[n] /\ hi2[n] = hi[n]
    BY <1>7, <1>8 DEF Leaves
  <2> QED
    BY <1>4, <1>7, <2>1 DEF Linked, InOrder, Placed
<1>15. Routed(lo2)'
  <2>1. \A n \in Leaves : lo2[n] = lo[n]
    BY <1>8 DEF Leaves
  <2>2. /\ \A q \in alive \ Leaves : \A k \in ToSet(Now(q).keys) : \E n \in Leaves : lo[n] = k
        /\ \E n \in Leaves : lo[n] = promo
    BY <1>2, <1>4 DEF Routed, InOrder, Placed, RootInto
  <2>3. ToSet(w.keys) = {promo}
    BY <1>7 DEF RootIs, ToSet
  <2> QED
    BY <1>7, <2>1, <2>2, <2>3 DEF Routed
<1>16. Filled'
  <2>1. \A n \in alive : n # NoNode /\ Len(heap[n].keys) >= Half
    BY <1>2, <1>3, <1>4, <1>7, SoundFacts DEF InOrder, Filled, RootInto
  <2>2. Len(heap'[N].keys) >= 1
    BY <1>3, <1>7 DEF RootIs
  <2> QED
    BY <1>3, <1>7, <2>1, <2>2 DEF Filled
<1>17. InOrder(lo2, hi2, at2, top + 1)'
  BY <1>7, <1>9, <1>10, <1>11, <1>12, <1>13, <1>14, <1>15, <1>16 DEF InOrder, Placed
<1>18. top + 1 \in Nat
  OBVIOUS
<1> QED
  BY <1>17, <1>18

-----------------------------------------------------------------------------
(* The first root is a leaf with one key, alone in the tree. *)
LEMMA FirstLeaf ==
  ASSUME NEW rrn, NEW key \in Nat, NEW w, w = RootLeaf(rrn, key)
  PROVE  /\ w.leaf = TRUE /\ Len(w.keys) = 1 /\ DOMAIN w.children = {}
         /\ w.next_leaf = NoRrn /\ Covers(w, 0, 0)
<1>1. w.leaf = TRUE /\ w.keys = <<key>> /\ w.children = <<>> /\ w.next_leaf = NoRrn
  BY DEF RootLeaf, Blank
<1>2. Len(<<key>>) = 1 /\ DOMAIN <<key>> = {1} /\ <<key>>[1] = key /\ DOMAIN <<>> = {}
  OBVIOUS
<1>3. Covers(w, 0, 0)
  BY <1>1, <1>2 DEF Covers, Ascending
<1> QED
  BY <1>1, <1>2, <1>3

(* The root is a leaf N with the one key. *)
FirstInto(N, rrn, w) ==
  /\ pc = "first" /\ Sound /\ root = NoNode /\ N \in Nodes /\ N # NoNode
  /\ promo \in Keys /\ promo \in Nat /\ w = RootLeaf(rrn, promo)
  /\ alive' = alive \cup {N} /\ heap'[N] = w /\ root' = N /\ Return("ok")

LEMMA FirstRootDone ==
  ASSUME IInv, FirstRoot, Sound'
  PROVE  \E N, rrn, w : FirstInto(N, rrn, w)
<1>2. /\ status = "running" /\ pc = "first" /\ RrnIsFresh /\ Unused # {} /\ root' = NewNode
      /\ StoreTypes /\ Control /\ faults' = {} /\ root = NoNode
  BY DEF FirstRoot, CanAllocate, IInv, Sound, Control
<1>3. promo \in Keys /\ promo \in Nat
  BY <1>2, KeysAssumption DEF Control
<1>4. PICK N, rrn, w : N = NewNode /\ rrn = NextRrn /\ w = RootLeaf(rrn, promo)
  OBVIOUS
<1>5. N \in Nodes /\ N \notin alive /\ N # NoNode /\ rrn \in Nat
  <2>1. N \in Nodes /\ N \notin alive /\ rrn \in Nat
    BY <1>2, <1>4, NextRrnProps, NewNodeProps DEF IInv
  <2> QED
    BY <2>1 DEF Nodes, NoNode
<1>6. w \in NodeOf(Keys, Nat) /\ w.rrn = rrn
  BY <1>3, <1>4, <1>5, RootLeafProps
<1>7. PICK h, live : h = [heap EXCEPT ![NewNode] = w] /\ live = alive \cup {NewNode}
  OBVIOUS
<1>8. /\ h \in [Nodes -> NodeOf(Keys, Nat)] /\ h[NewNode] = w
      /\ \A x \in Nodes : x # NewNode => h[x] = heap[x]
  BY <1>2, <1>4, <1>5, <1>6, <1>7 DEF StoreTypes
<1>9. \A x \in alive : h[x] = heap[x]
  BY <1>2, <1>4, <1>5, <1>8 DEF StoreTypes
<1>10. live \in SUBSET Nodes /\ Distinct(h, live) /\ NewNode \in live
  BY <1>2, <1>4, <1>6, <1>7, <1>8, <1>9, NewNodeAdds
<1>11. PICK m \in Successes(1) :
         /\ WriteAs(h, live, <<NewNode>>, m, {}, {})
         /\ Return(IF m = 1 THEN "ok" ELSE "io")
  BY <1>4, <1>7 DEF FirstRoot, Write, RootLeaf
<1>12. heap' = h /\ alive' = live /\ faults = {} /\ m = 1
  BY <1>2, <1>10, <1>11, WroteOne
<1>13. FirstInto(N, rrn, w)
  BY <1>2, <1>3, <1>4, <1>5, <1>7, <1>8, <1>11, <1>12 DEF FirstInto, Sound
<1> QED
  BY <1>13

LEMMA FirstRootInOrder == ASSUME IInv, OInv, FirstRoot PROVE OInv'
<1>1. SUFFICES ASSUME Sound' PROVE \E lo, hi, at \in Places, top \in Nat : InOrder(lo, hi, at, top)'
  BY DEF OInv, Places, Nodes
<1>2. PICK N, rrn, w : FirstInto(N, rrn, w)
  BY <1>1, FirstRootDone
<1>3. promo \in Nat /\ w = RootLeaf(rrn, promo)
  BY <1>2 DEF FirstInto
<1>4. alive = {}
  BY <1>2 DEF FirstInto, OInv, InOrder, Placed, Topped
<1>5. N # NoNode /\ N \in Nodes
  BY <1>2 DEF FirstInto
<1>6. alive' = {N} /\ heap'[N] = w /\ root' = N
  BY <1>2, <1>4 DEF FirstInto
<1>7. PICK z \in Places : \A n \in Nodes : z[n] = 0
  <2>1. [n \in Nodes |-> 0] \in Places
    BY DEF Places
  <2> QED
    BY <2>1
<1>8. /\ InCall(z, z)' /\ Waiter' = NoNode /\ Short' = NoNode /\ pc' = "idle"
       /\ Tops' = {N}
  <2>1. ReturnKeys("ok", <<>>)
    BY <1>2 DEF FirstInto, Return
  <2> QED
    BY <1>5, <1>6, <2>1, CallOver
<1>9. Now(N)' = w /\ z[N] = 0
  BY <1>5, <1>6, <1>7, <1>8 DEF Now
<1>10. /\ w.leaf = TRUE /\ Len(w.keys) = 1 /\ DOMAIN w.children = {}
       /\ w.next_leaf = NoRrn /\ Covers(w, 0, 0)
  BY <1>3, FirstLeaf
<1>11. Leaves' = {N}
  BY <1>6, <1>10 DEF Leaves
<1>12. Placed(z, z, z, 0)'
  <2>1. Bounded(z, z)'
    BY <1>6, <1>9, <1>10 DEF Bounded
  <2>2. Led(z, z, z)'
    BY <1>6, <1>9, <1>10 DEF Led
  <2>3. Apart(z, z, z)'
    BY <1>6 DEF Apart
  <2>4. Topped(z, z, z)'
    BY <1>5, <1>6, <1>8, <1>9 DEF Topped
  <2>5. Heights(z, 0)'
    BY <1>6, <1>9, <1>10 DEF Heights
  <2>6. Linked(z, z)'
    BY <1>6, <1>9, <1>10, <1>11 DEF Linked
  <2>7. Routed(z)'
    BY <1>6, <1>8, <1>11 DEF Routed
  <2> QED
    BY <2>1, <2>2, <2>3, <2>4, <2>5, <2>6, <2>7 DEF Placed
<1>13. Filled'
  <2>1. Len(heap'[N].keys) >= 1
    BY <1>6, <1>10
  <2> QED
    BY <1>6, <1>8, <2>1 DEF Filled
<1>14. InOrder(z, z, z, 0)'
  BY <1>8, <1>12, <1>13 DEF InOrder
<1> QED
  BY <1>14

-----------------------------------------------------------------------------
(* Between insertions each node but the root is one level below its parent. *)
LEMMA OneDown ==
  ASSUME IInv, Sound, r_child = NoNode, NEW lo \in Places, NEW hi \in Places, NEW at \in Places,
         NEW top, Placed(lo, hi, at, top)
  PROVE  /\ \A q \in alive : \A c \in ToSet(heap[q].children) :
              Load(c) \in alive /\ Load(c) # NoNode /\ at[Load(c)] = at[q] + 1
         /\ root # NoNode => root \in alive /\ at[root] = 0
         /\ \A m \in alive : at[m] \in Nat
         /\ \A m \in alive : m # root =>
              \E q \in alive : heap[m].rrn \in ToSet(heap[q].children) /\ Load(heap[m].rrn) = m
                               /\ at[m] = at[q] + 1
<1>1. pc # "newroot" /\ Waiter = NoNode
  BY WaiterProps
<1>2. \A n \in alive : n # NoNode /\ n \in Nodes /\ Now(n) = heap[n] /\ Load(heap[n].rrn) = n
  BY <1>1, SoundFacts DEF Now
<1>3. ASSUME NEW q \in alive, NEW c \in ToSet(heap[q].children)
      PROVE  Load(c) \in alive /\ Load(c) # NoNode /\ at[Load(c)] = at[q] + 1
  <2>1. Load(c) \in alive /\ heap[Load(c)].rrn = c
    BY SoundFacts
  <2>2. PICK i \in DOMAIN heap[q].children : heap[q].children[i] = c
    BY DEF ToSet
  <2>3. at[Load(c)] = at[q] + 1
    BY <1>2, <2>1, <2>2 DEF Placed, Led
  <2> QED
    BY <1>2, <2>1, <2>3
<1>4. root # NoNode => root \in alive /\ at[root] = 0
  BY SoundFacts DEF Stored, Placed, Topped, Tops
<1>5. \A m \in alive : at[m] \in Nat
  BY <1>2 DEF Places
<1>6. ASSUME NEW m \in alive, m # root
      PROVE  \E q \in alive : heap[m].rrn \in ToSet(heap[q].children) /\ Load(heap[m].rrn) = m
                              /\ at[m] = at[q] + 1
  <2>1. m \notin Tops
    BY <1>1, <1>6 DEF Tops
  <2>2. PICK q \in alive : heap[m].rrn \in ToSet(heap[q].children)
    BY <1>2, <2>1 DEF Placed, Topped
  <2> QED
    BY <1>2, <1>3, <2>2
<1> QED
  BY <1>3, <1>4, <1>5, <1>6

(* A level holds the nodes at its depth. *)
LEMMA LevelIs ==
  ASSUME IInv, Sound, r_child = NoNode, NEW lo \in Places, NEW hi \in Places, NEW at \in Places,
         NEW top, Placed(lo, hi, at, top), NEW d \in Nat
  PROVE  Level(d) = {n \in alive : at[n] = d}
<1>1. /\ \A q \in alive : \A c \in ToSet(heap[q].children) :
           Load(c) \in alive /\ Load(c) # NoNode /\ at[Load(c)] = at[q] + 1
      /\ root # NoNode => root \in alive /\ at[root] = 0
      /\ \A m \in alive : at[m] \in Nat
      /\ \A m \in alive : m # root =>
           \E q \in alive : heap[m].rrn \in ToSet(heap[q].children) /\ Load(heap[m].rrn) = m
                            /\ at[m] = at[q] + 1
  BY OneDown
<1>2. PICK g : Level(d) = g[d] /\ \A i \in 0 .. d : g[i] = Below(i, g[i - 1])
  <2>1. StoreTypes /\ root \in alive \cup {NoNode}
    BY <1>1 DEF IInv
  <2> QED
    BY <2>1, LevelLoop
<1>3. \A m \in alive : m # NoNode
  BY SoundFacts
<1> DEFINE S(i) == {n \in alive : at[n] = i}
<1>4. g[0] = S(0)
  <2>1. g[0] = {root} \ {NoNode}
    BY <1>2 DEF Below
  <2>2. ASSUME NEW m \in alive, at[m] = 0 PROVE m = root
    BY <1>1, <2>2
  <2> QED
    BY <1>1, <1>3, <2>1, <2>2
<1>5. ASSUME NEW i \in 1 .. d, g[i - 1] = S(i - 1) PROVE g[i] = S(i)
  <2>1. PICK B : B = S(i - 1)
    OBVIOUS
  <2>4. g[i] = Below(i, B) /\ i # 0
    BY <1>2, <1>5, <2>1
  <2>5. \A m : m \in g[i] <=> /\ m # NoNode
                              /\ \E n \in B : \E c \in ToSet(heap[n].children) : m = Load(c)
    BY <2>4 DEF Below
  <2>2. ASSUME NEW m \in g[i] PROVE m \in S(i)
    <3>1. PICK n \in B : \E c \in ToSet(heap[n].children) : m = Load(c)
      BY <2>2, <2>5
    <3>2. m \in alive /\ at[m] = at[n] + 1 /\ at[n] = i - 1
      BY <1>1, <2>1, <3>1
    <3> QED
      BY <3>2
  <2>3. ASSUME NEW m \in S(i) PROVE m \in g[i]
    <3>1. m \in alive /\ at[m] = i /\ m # NoNode
      BY <1>3, <2>3
    <3>2. m # root
      BY <1>1, <1>3, <3>1
    <3>3. PICK q \in alive : heap[m].rrn \in ToSet(heap[q].children) /\ Load(heap[m].rrn) = m
                             /\ at[m] = at[q] + 1
      BY <1>1, <3>1, <3>2
    <3>4. at[q] = i - 1
      BY <1>1, <3>1, <3>3
    <3>5. q \in B
      BY <2>1, <3>4
    <3> QED
      BY <2>5, <3>1, <3>3, <3>5
  <2> QED
    BY <2>2, <2>3
<1>6. \A i \in 0 .. d : g[i] = S(i)
  <2>1. PICK W : W = {i \in 0 .. d : g[i] = S(i)}
    OBVIOUS
  <2>2. PICK h : h = [i \in 0 .. d |-> i]
    OBVIOUS
  <2> HIDE DEF S
  <2>3. h[0] \in W /\ \A i \in 1 .. d : h[i - 1] \in W => h[i] \in W
    <3>1. 0 \in 0 .. d /\ \A i \in 1 .. d : i \in 0 .. d /\ i - 1 \in 0 .. d
      OBVIOUS
    <3> QED
      BY <1>4, <1>5, <2>1, <2>2, <3>1
  <2>4. \A i \in 0 .. d : h[i] \in W
    BY <2>3, LoopStays
  <2> QED
    BY <2>1, <2>2, <2>4
<1> QED
  BY <1>2, <1>6

(* No node is deeper than there are nodes: some node is at each depth above. *)
LEMMA DepthBound ==
  ASSUME IInv, Sound, r_child = NoNode, NEW lo \in Places, NEW hi \in Places, NEW at \in Places,
         NEW top, Placed(lo, hi, at, top), NEW n \in alive
  PROVE  Cardinality(alive) \in Nat /\ at[n] <= Cardinality(alive)
<1>1. /\ root # NoNode => root \in alive /\ at[root] = 0
      /\ \A m \in alive : at[m] \in Nat
      /\ \A m \in alive : m # root => \E q \in alive : at[m] = at[q] + 1
  BY OneDown
<1>2. PICK d \in Nat : d = at[n]
  BY <1>1
<1>3. PICK W, h : W = {j \in Nat : \E m \in alive : at[m] = j} /\ h = [i \in 0 .. d |-> d - i]
  OBVIOUS
<1>4. \A i \in 0 .. d : h[i] \in W
  <2>1. h[0] \in W
    BY <1>1, <1>2, <1>3
  <2>2. ASSUME NEW i \in 1 .. d, h[i - 1] \in W PROVE h[i] \in W
    <3>1. h[i - 1] = d - (i - 1) /\ h[i] = d - i /\ d - i \in Nat
      BY <1>3, <2>2
    <3>2. PICK m \in alive : at[m] = d - (i - 1)
      BY <1>3, <2>2, <3>1
    <3>3. m # root
      <4>1. m # NoNode /\ d - (i - 1) > 0
        BY <2>2, SoundFacts
      <4> QED
        BY <1>1, <3>2, <4>1
    <3>4. PICK q \in alive : at[m] = at[q] + 1
      BY <1>1, <3>3
    <3>5. at[q] = d - i
      BY <1>1, <3>2, <3>4
    <3> QED
      BY <1>3, <3>1, <3>5
  <2> QED
    BY <2>1, <2>2, LoopStays
<1>5. \A j \in 0 .. d : \E m \in alive : at[m] = j
  <2>1. ASSUME NEW j \in 0 .. d PROVE \E m \in alive : at[m] = j
    <3>1. d - j \in 0 .. d /\ h[d - j] = j
      BY <1>3
    <3> QED
      BY <1>3, <1>4, <3>1
  <2> QED
    BY <2>1
<1>6. PICK f : f = [j \in 0 .. d |-> CHOOSE m \in alive : at[m] = j]
  OBVIOUS
<1>7. f \in [0 .. d -> alive] /\ \A j \in 0 .. d : at[f[j]] = j
  BY <1>5, <1>6
<1>8. IsFiniteSet(alive) /\ Cardinality(alive) \in Nat
  <2>0. MaxNodes \in Int /\ 1 \in Int
    BY BTreeBounds
  <2>1. alive \in SUBSET (1 .. MaxNodes)
    BY SoundFacts DEF Nodes
  <2>2. IsFiniteSet(1 .. MaxNodes)
    BY <2>0, FS_Interval
  <2>3. IsFiniteSet(alive)
    BY <2>1, <2>2, FS_Subset
  <2> QED
    BY <2>3, FS_CardinalityType
<1>9. IsFiniteSet(0 .. d) /\ Cardinality(0 .. d) = d + 1
  <2>1. 0 \in Int /\ d \in Int /\ ~(0 > d) /\ d - 0 + 1 = d + 1
    BY <1>2
  <2> QED
    BY <2>1, FS_Interval
<1>10. ASSUME Cardinality(alive) < d PROVE FALSE
  <2>1. Cardinality(alive) < Cardinality(0 .. d)
    BY <1>8, <1>9, <1>10
  <2>2. \E x, y \in 0 .. d : x # y /\ f[x] = f[y]
    BY <1>7, <1>8, <1>9, <2>1, FS_PigeonHole
  <2> QED
    BY <1>7, <2>2
<1> QED
  BY <1>2, <1>8, <1>10

LEMMA ReachedAll ==
  ASSUME IInv, Sound, r_child = NoNode, NEW lo \in Places, NEW hi \in Places, NEW at \in Places,
         NEW top, Placed(lo, hi, at, top)
  PROVE  Reached = alive
<1>1. \A d \in Nat : Level(d) = {n \in alive : at[n] = d}
  BY LevelIs
<1>2. ASSUME NEW n \in alive
      PROVE  /\ at[n] \in Nat /\ Cardinality(alive) \in Nat /\ at[n] <= Cardinality(alive)
  <2>1. n \in Nodes
    BY SoundFacts
  <2> QED
    BY <2>1, DepthBound DEF Places
<1>3. Reached \subseteq alive
  BY ReachedAlive, SoundFacts DEF IInv, Stored
<1>4. ASSUME NEW n \in alive PROVE n \in Reached
  <2>1. PICK d \in 0 .. Cardinality(alive) : d = at[n]
    BY <1>2
  <2>2. n \in Level(d)
    BY <1>1, <2>1
  <2> QED
    BY <2>1, <2>2 DEF Reached
<1> QED
  BY <1>3, <1>4

-----------------------------------------------------------------------------
(* A leaf short of keys is not the root: it has a sibling. *)
LEMMA HasSibling ==
  ASSUME IInv, Sound, OInv, pc = "underflow", curr \in alive
  PROVE  Beside(-1) # NoNode \/ Beside(1) # NoNode
<1>1. PICK lo \in Places, hi \in Places, at \in Places, top \in Nat : InOrder(lo, hi, at, top)
  BY DEF OInv
<1>2. r_child = NoNode /\ curr # root /\ Short = curr /\ heap[curr].leaf
  BY <1>1 DEF IInv, Control, InOrder, InCall, Removal, Short
<1>3. Reached = alive
  BY <1>1, <1>2, ReachedAll DEF InOrder
<1>4. \E q \in alive : heap[curr].rrn \in ToSet(heap[q].children)
  BY <1>1, <1>2, OneDown DEF InOrder
<1>5. PICK q \in alive : /\ heap[curr].rrn \in ToSet(heap[q].children)
                         /\ \A d \in {-1, 1} : Beside(d) = Sibling(q, curr, d)
  <2>1. Parents(curr) # {}
    BY <1>3, <1>4 DEF Parents
  <2>2. PICK q : q = CHOOSE x \in Parents(curr) : TRUE
    OBVIOUS
  <2>3. q \in Parents(curr) /\ \A d \in {-1, 1} : Beside(d) = Sibling(q, curr, d)
    BY <2>1, <2>2 DEF Beside
  <2> QED
    BY <1>3, <2>3 DEF Parents
<1>6. PICK c, rrn : c = heap[q].children /\ rrn = heap[curr].rrn
  OBVIOUS
<1>7. q \in Nodes /\ heap[q] \in NodeOf(Keys, Nat) /\ Shaped(heap[q])
  BY SoundFacts DEF IInv, StoreTypes, Shapes
<1>8. Len(c) \in Nat /\ DOMAIN c = 1 .. Len(c) /\ Len(heap[q].keys) \in Nat
      /\ Len(c) = IF heap[q].leaf THEN 0 ELSE Len(heap[q].keys) + 1
  BY <1>6, <1>7 DEF NodeOf, Shaped
<1>9. PICK D : D = {i \in DOMAIN c : c[i] = rrn}
  OBVIOUS
<1>9a. D \in SUBSET Nat
  <2>1. \A i \in 1 .. Len(c) : i \in Nat
    BY <1>8
  <2> QED
    BY <1>8, <1>9, <2>1
<1>10. D # {}
  BY <1>5, <1>6, <1>9 DEF ToSet
<1>11. PICK pos \in 1 .. Len(c) : pos = Min(D)
  BY <1>8, <1>9, <1>9a, <1>10, MinIsLeast
<1>12. Len(c) >= 2
  <2>1. ~heap[q].leaf
    BY <1>8, <1>11
  <2>2. Len(heap[q].keys) >= 1
    BY <1>1, <1>2, <1>8, <2>1, HalfBounds DEF InOrder, Filled
  <2> QED
    BY <1>8, <2>1, <2>2
<1>13. \A i \in DOMAIN c : Load(c[i]) # NoNode
  <2>1. \A i \in DOMAIN c : c[i] \in ToSet(heap[q].children)
    BY <1>6 DEF ToSet
  <2> QED
    BY <2>1, SoundFacts
<1>14. \A d \in {-1, 1} : Beside(d) = IF pos + d \in DOMAIN c THEN Load(c[pos + d]) ELSE NoNode
  BY <1>5, <1>6, <1>9, <1>11 DEF Sibling
<1>15. pos + (-1) \in DOMAIN c \/ pos + 1 \in DOMAIN c
  BY <1>8, <1>11, <1>12
<1> QED
  BY <1>13, <1>14, <1>15

LEMMA UnderflowInOrder == ASSUME IInv, OInv, Underflow PROVE OInv'
<1>1. At("underflow") /\ status' = status
  BY DEF Underflow
<1>2. ASSUME NEW h, NEW ns, NEW m, NEW dropped, WriteAs(h, alive, ns, m, dropped, {"rebalanced"})
      PROVE  OInv'
  <2>1. "rebalanced" \in faults'
    BY <1>2 DEF WriteAs
  <2> QED
    BY <2>1 DEF OInv, Sound
<1>3. ASSUME NEW donor, NEW from_left, Redistribute(donor, from_left) PROVE OInv'
  BY <1>2, <1>3 DEF Redistribute
<1>4. ASSUME NEW l, NEW r, Merge(l, r) PROVE OInv'
  BY <1>2, <1>4 DEF Merge
<1>5. CASE Beside(-1) = NoNode /\ Beside(1) = NoNode /\ faults' = faults
  <2>1. ~Sound
    BY <1>1, <1>5, HasSibling DEF At
  <2> QED
    BY <1>1, <1>5, <2>1 DEF OInv, Sound
<1> QED
  BY <1>3, <1>4, <1>5 DEF Underflow

-----------------------------------------------------------------------------
(* The calls. *)
LEMMA InsertCallInOrder == ASSUME IInv, OInv, NEW k \in Keys, InsertCall(k) PROVE OInv'
<1>1. PICK request, where : /\ request = [kind |-> "insert", key |-> k]
                            /\ where = IF root = NoNode THEN "first" ELSE "descend"
  OBVIOUS
<1>2. Ready /\ Call(request, where, k)
  BY <1>1 DEF InsertCall
<1>3. /\ where \in {"first", "descend"} /\ request.kind = "insert" /\ k = request.key
      /\ where = "descend" => root # NoNode
  BY <1>1
<1> QED
  BY <1>2, <1>3, CallInOrder

LEMMA FindCallInOrder ==
  ASSUME IInv, OInv, NEW k \in Keys, NEW kind \in {"search", "remove"}, FindCall(kind, k)
  PROVE  OInv'
<1>1. PICK request : request = [kind |-> kind, key |-> k]
  OBVIOUS
<1>2. Ready /\ Call(request, "find", 0)
  BY <1>1 DEF FindCall
<1>3. request.kind \in {"search", "remove"} /\ request.key \in Keys
  BY <1>1
<1> QED
  BY <1>2, <1>3, CallInOrder

LEMMA RangeCallInOrder ==
  ASSUME IInv, OInv, NEW from \in Keys, NEW to \in Keys, RangeCall(from, to)
  PROVE  OInv'
<1>1. PICK request : request = [kind |-> "range", from |-> from, to |-> to]
  OBVIOUS
<1>2. Ready /\ Call(request, "range", 0)
  BY <1>1 DEF RangeCall
<1>3. request.kind = "range" /\ request.from \in Keys
  BY <1>1
<1> QED
  BY <1>2, <1>3, CallInOrder

LEMMA StaysInOrder == ASSUME OInv, UNCHANGED vars PROVE OInv'
<1>1. /\ heap' = heap /\ alive' = alive /\ root' = root /\ op' = op /\ pc' = pc /\ curr' = curr
      /\ path' = path /\ promo' = promo /\ r_child' = r_child /\ seen' = seen
      /\ status' = status /\ faults' = faults
  BY DEF vars, tree, frame
<1>2. ASSUME NEW lo \in Places, NEW hi \in Places, NEW at \in Places, NEW top \in Nat,
             InOrder(lo, hi, at, top)
      PROVE  InOrder(lo, hi, at, top)'
  <2>1. Waiter' = Waiter /\ Short' = Short /\ Tops' = Tops /\ Leaves' = Leaves
    BY <1>1 DEF Waiter, Short, Tops, Leaves
  <2>2. Contents' = Contents
    BY <1>1, <2>1 DEF Contents
  <2>3. \A n : Now(n)' = Now(n)
    BY <1>1, <2>1 DEF Now
  <2>4. Bounded(lo, hi)' /\ Led(lo, hi, at)' /\ Apart(lo, hi, at)' /\ Topped(lo, hi, at)'
    BY <1>1, <1>2, <2>1, <2>3 DEF InOrder, Placed, Bounded, Led, Apart, Topped
  <2>5. Heights(at, top)' /\ Linked(lo, hi)' /\ Routed(lo)'
    BY <1>1, <1>2, <2>1, <2>3 DEF InOrder, Placed, Heights, Linked, Routed
  <2>6. Filled'
    BY <1>1, <1>2, <2>1 DEF InOrder, Filled
  <2>7. Insertion(lo, hi)' /\ Removal(lo, hi)' /\ Kinds'
    BY <1>1, <1>2 DEF InOrder, InCall, Insertion, Removal, Kinds
  <2>8. Query(lo)'
    BY <1>1, <1>2, <2>2 DEF InOrder, InCall, Query
  <2> QED
    BY <2>4, <2>5, <2>6, <2>7, <2>8 DEF InOrder, Placed, InCall
<1>3. SUFFICES ASSUME Sound' PROVE \E lo, hi, at \in Places, top \in Nat : InOrder(lo, hi, at, top)'
  BY DEF OInv, Places, Nodes
<1>4. Sound
  BY <1>1, <1>3 DEF Sound
<1> QED
  BY <1>2, <1>4 DEF OInv

LEMMA NextInOrder == ASSUME IInv, OInv, [Next]_vars PROVE OInv'
<1>1. CASE Step
  <2>1. CASE FirstRoot
    BY <2>1, FirstRootInOrder
  <2>2. CASE Descend
    BY <2>2, DescendInOrder
  <2>3. CASE LeafInsert
    BY <2>3, LeafInsertInOrder
  <2>4. CASE Split
    BY <2>4, SplitInOrder
  <2>5. CASE Ascend
    BY <2>5, AscendInOrder
  <2>6. CASE NewRoot
    BY <2>6, NewRootInOrder
  <2>7. CASE AllocationFails
    BY <2>7, AllocationFailsInOrder
  <2>8. CASE \/ AllocationCrashes \/ RrnClashes \/ ReadPastKeys \/ UncheckedAllocationCrashes
             \/ UseAfterFree \/ StaleRead
    BY <2>8, StoppingInOrder
  <2>9. CASE FindNoRoot
    BY <2>9, FindNoRootInOrder
  <2>10. CASE FindInternal
    BY <2>10, FindInternalInOrder
  <2>11. CASE FindLeaf
    BY <2>11, FindLeafInOrder
  <2>12. CASE RemoveKey
    BY <2>12, RemoveKeyInOrder
  <2>13. CASE Underflow
    BY <2>13, UnderflowInOrder
  <2>14. CASE RangeDown
    BY <2>14, RangeDownInOrder
  <2>15. CASE RangeLeaf
    BY <2>15, RangeLeafInOrder
  <2>16. CASE RangeNoRoot
    BY <2>16, RangeNoRootInOrder
  <2> QED
    BY <1>1, <2>1, <2>2, <2>3, <2>4, <2>5, <2>6, <2>7, <2>8, <2>9, <2>10, <2>11, <2>12, <2>13,
       <2>14, <2>15, <2>16 DEF Step
<1>2. ASSUME NEW k \in Keys, InsertCall(k) \/ SearchCall(k) \/ RemoveCall(k) PROVE OInv'
  BY <1>2, InsertCallInOrder, FindCallInOrder DEF SearchCall, RemoveCall
<1>3. ASSUME NEW from \in Keys, NEW to \in Keys, RangeCall(from, to) PROVE OInv'
  BY <1>3, RangeCallInOrder
<1>4. CASE UNCHANGED vars
  BY <1>4, StaysInOrder
<1> QED
  BY <1>1, <1>2, <1>3, <1>4 DEF Next

-----------------------------------------------------------------------------
(* The trees a behaviour starts with. *)
LEMMA IdleInCall ==
  ASSUME Idle, NEW lo, NEW hi
  PROVE  /\ InCall(lo, hi) /\ Waiter = NoNode /\ Short = NoNode /\ pc = "idle"
         /\ Tops = {root} \ {NoNode}
<1>1. pc = "idle" /\ r_child = NoNode /\ seen = <<>>
  BY DEF Idle
<1>2. Waiter = NoNode /\ Short = NoNode /\ Tops = {root} \ {NoNode}
  BY <1>1 DEF Waiter, Short, Tops
<1>3. Insertion(lo, hi) /\ Removal(lo, hi) /\ Query(lo) /\ Kinds
  BY <1>1 DEF Insertion, Removal, Query, Kinds
<1> QED
  BY <1>1, <1>2, <1>3 DEF InCall

LEMMA NoPlace == \E z \in Places : \A n \in Nodes : z[n] = 0
<1>1. [n \in Nodes |-> 0] \in Places
  BY DEF Places
<1> QED
  BY <1>1

LEMMA InitInOrder == ASSUME Init PROVE OInv
<1>1. alive = {} /\ root = NoNode /\ Idle
  BY DEF Init
<1>2. PICK z \in Places : \A n \in Nodes : z[n] = 0
  BY NoPlace
<1>3. /\ InCall(z, z) /\ Waiter = NoNode /\ Short = NoNode /\ pc = "idle"
      /\ Tops = {}
  BY <1>1, IdleInCall
<1>4. Leaves = {}
  BY <1>1 DEF Leaves
<1>5. Bounded(z, z) /\ Led(z, z, z) /\ Apart(z, z, z) /\ Topped(z, z, z)
  BY <1>1, <1>3 DEF Bounded, Led, Apart, Topped
<1>6. Heights(z, 0) /\ Linked(z, z) /\ Routed(z) /\ Filled
  BY <1>1, <1>3, <1>4 DEF Heights, Linked, Routed, Filled
<1>7. InOrder(z, z, z, 0)
  BY <1>3, <1>5, <1>6 DEF InOrder, Placed
<1> QED
  BY <1>7 DEF OInv

LEMMA WarmInitInOrder == ASSUME WarmInit PROVE OInv
<1>1. PICK k \in Keys :
        heap = [n \in Nodes |-> IF n = 1 THEN [Blank EXCEPT !.rrn = 0, !.keys = <<k>>] ELSE Blank]
  BY DEF WarmInit
<1>2. alive = {1} /\ root = 1 /\ Idle
  BY DEF WarmInit
<1>3. PICK w : w = RootLeaf(0, k)
  OBVIOUS
<1>4. heap[1] = w /\ 1 \in Nodes
  <2>1. 1 \in Nodes
    BY BTreeBounds DEF Nodes
  <2> QED
    BY <1>1, <1>3, <2>1 DEF RootLeaf
<1>5. k \in Nat
  BY KeysAssumption
<1>6. /\ w.leaf = TRUE /\ Len(w.keys) = 1 /\ DOMAIN w.children = {}
      /\ w.next_leaf = NoRrn /\ Covers(w, 0, 0)
  BY <1>3, <1>5, FirstLeaf
<1>7. PICK z \in Places : \A n \in Nodes : z[n] = 0
  BY NoPlace
<1>8. /\ InCall(z, z) /\ Waiter = NoNode /\ Short = NoNode /\ pc = "idle"
      /\ Tops = {1}
  BY <1>2, IdleInCall DEF NoNode
<1>9. Now(1) = w /\ z[1] = 0 /\ 1 # NoNode
  BY <1>4, <1>7, <1>8 DEF Now, NoNode
<1>10. Leaves = {1}
  BY <1>2, <1>4, <1>6 DEF Leaves
<1>11. Bounded(z, z)
  BY <1>2, <1>6, <1>9 DEF Bounded
<1>12. Led(z, z, z)
  BY <1>2, <1>6, <1>9 DEF Led
<1>13. Apart(z, z, z) /\ Topped(z, z, z)
  BY <1>2, <1>8, <1>9 DEF Apart, Topped
<1>14. Heights(z, 0) /\ Linked(z, z) /\ Routed(z)
  BY <1>2, <1>4, <1>6, <1>8, <1>9, <1>10 DEF Heights, Linked, Routed
<1>15. Filled
  BY <1>2, <1>4, <1>6, <1>8 DEF Filled
<1>16. InOrder(z, z, z, 0)
  BY <1>8, <1>11, <1>12, <1>13, <1>14, <1>15 DEF InOrder, Placed
<1> QED
  BY <1>16 DEF OInv

LEMMA AlwaysInOrder == Specs => []OInv
<1>1. Init => OInv
  BY InitInOrder
<1>2. WarmInit => OInv
  BY WarmInitInOrder
<1>3. IInv /\ OInv /\ [Next]_vars => OInv'
  BY NextInOrder
<1>4. Specs => []IInv
  BY Inductive
<1> QED
  BY <1>1, <1>2, <1>3, <1>4, PTL DEF Specs, Spec, WarmSpec, AnySpec, FairSpec

-----------------------------------------------------------------------------
(* The invariant in the words of BTree.  First the ends of the leaves.     *)
LEMMA LeafEnds ==
  ASSUME IInv, Sound, pc # "underflow", NEW lo \in Places, NEW hi \in Places, NEW at, NEW top,
         Placed(lo, hi, at, top), Filled, NEW n \in Leaves
  PROVE  /\ heap[n].keys # <<>> /\ heap[n].keys[1] = Head(heap[n].keys)
         /\ Head(heap[n].keys) \in Nat /\ Last(heap[n].keys) \in Nat
         /\ lo[n] <= Head(heap[n].keys) /\ Head(heap[n].keys) <= Last(heap[n].keys)
         /\ hi[n] = 0 \/ Last(heap[n].keys) < hi[n]
         /\ lo[n] # 0 => Head(heap[n].keys) = lo[n]
<1>1. /\ n \in alive /\ heap[n] \in NodeOf(Keys, Nat) /\ Ascending(heap[n].keys)
      /\ DOMAIN heap[n].keys = 1 .. Len(heap[n].keys) /\ Len(heap[n].keys) \in Nat
      /\ \A k \in ToSet(heap[n].keys) :
           k \in Keys /\ k \in Nat /\ lo[n] <= k /\ (hi[n] = 0 \/ k < hi[n])
      /\ lo[n] # 0 => heap[n].keys # <<>> /\ heap[n].keys[1] = lo[n]
  BY LeafIs
<1>2. Len(heap[n].keys) >= 1
  <2>1. n # Short
    BY <1>1, SoundFacts DEF Short
  <2> QED
    BY <1>1, <2>1, HalfBounds DEF Filled
<1>3. PICK s : s = heap[n].keys
  OBVIOUS
<1>4. s \in Seq(Keys) /\ s # <<>> /\ Head(s) = s[1] /\ Last(s) = s[Len(s)] /\ 1 \in DOMAIN s
      /\ Len(s) \in DOMAIN s /\ 1 <= Len(s) /\ Len(s) \in Nat
  BY <1>1, <1>2, <1>3 DEF NodeOf, Last
<1>5. s[1] \in ToSet(s) /\ s[Len(s)] \in ToSet(s)
  BY <1>4 DEF ToSet
<1>6. s[1] <= s[Len(s)]
  <2>1. s[1] \in Nat /\ s[Len(s)] \in Nat
    BY <1>1, <1>3, <1>5
  <2>2. CASE Len(s) = 1
    BY <2>1, <2>2
  <2>3. CASE Len(s) # 1
    BY <1>1, <1>3, <1>4, <2>1, <2>3 DEF Ascending
  <2> QED
    BY <2>2, <2>3
<1> QED
  BY <1>1, <1>3, <1>4, <1>5, <1>6

LEMMA LeavesInOrder == ASSUME IInv, OInv PROVE LeafListOrdered
<1>1. SUFFICES ASSUME Sound, pc # "underflow" PROVE LeafListOrdered
  BY DEF LeafListOrdered
<1>2. PICK lo \in Places, hi \in Places, at \in Places, top \in Nat : InOrder(lo, hi, at, top)
  BY <1>1 DEF OInv
<1>3. Placed(lo, hi, at, top) /\ Filled
  BY <1>2 DEF InOrder
<1>4. PICK H, L : H = [n \in Leaves |-> Head(heap[n].keys)] /\ L = [n \in Leaves |-> Last(heap[n].keys)]
  OBVIOUS
<1>5. \A n \in Leaves :
        /\ Head(heap[n].keys) = H[n] /\ Last(heap[n].keys) = L[n] /\ heap[n].keys[1] = H[n]
        /\ H[n] \in Nat /\ L[n] \in Nat /\ lo[n] \in Nat /\ hi[n] \in Nat
        /\ lo[n] <= H[n] /\ H[n] <= L[n] /\ (hi[n] = 0 \/ L[n] < hi[n])
        /\ lo[n] # 0 => H[n] = lo[n]
  BY <1>1, <1>3, <1>4, LeafEnds, LeafIs
<1>6. \A m, n \in Leaves : m # n => Before(hi[m], lo[n]) \/ Before(hi[n], lo[m])
  <2>1. \A n \in Leaves : n \in alive /\ at[n] = top
    BY <1>1, <1>3, LeafIs
  <2> QED
    BY <1>3, <2>1 DEF Placed, Apart
<1>7. \A n \in Leaves : Ascending(heap[n].keys)
  BY <1>1, <1>3, LeafIs
<1>8. \A m, n \in Leaves : m # n => L[m] < H[n] \/ L[n] < H[m]
  BY <1>5, <1>6 DEF Before
<1>9. \A m, n \in Leaves : H[m] > L[n] => hi[n] # 0 /\ hi[n] <= lo[m]
  <2>1. ASSUME NEW m \in Leaves, NEW n \in Leaves, H[m] > L[n] PROVE hi[n] # 0 /\ hi[n] <= lo[m]
    <3>1. m # n
      BY <1>5, <2>1
    <3>2. CASE Before(hi[m], lo[n])
      BY <1>5, <2>1, <3>2 DEF Before
    <3> QED
      BY <1>6, <3>1, <3>2 DEF Before
  <2> QED
    BY <2>1
<1>10. ASSUME NEW n \in Leaves,
              NEW larger, larger = {m \in Leaves : Head(heap[m].keys) > Last(heap[n].keys)}
       PROVE  IF larger = {} THEN heap[n].next_leaf = NoRrn
              ELSE /\ Load(heap[n].next_leaf) \in larger
                   /\ \A m \in larger : heap[m].keys[1] >= heap[Load(heap[n].next_leaf)].keys[1]
  <2>1. \A m \in larger : m \in Leaves /\ hi[n] # 0 /\ hi[n] <= lo[m]
    BY <1>5, <1>9, <1>10
  <2>2. CASE hi[n] = 0
    <3>1. heap[n].next_leaf = NoRrn
      BY <1>3, <2>2 DEF Placed, Linked
    <3> QED
      BY <2>1, <2>2, <3>1
  <2>3. CASE hi[n] # 0
    <3>1. PICK t \in Leaves : heap[t].rrn = heap[n].next_leaf /\ lo[t] = hi[n]
      BY <1>3, <2>3 DEF Placed, Linked
    <3>2. Load(heap[n].next_leaf) = t
      BY <1>1, <3>1, SoundFacts DEF Leaves
    <3>3. H[t] = hi[n] /\ L[n] < hi[n]
      BY <1>5, <2>3, <3>1
    <3>4. t \in larger
      BY <1>5, <1>10, <3>3
    <3>5. \A m \in larger : heap[m].keys[1] >= heap[t].keys[1]
      BY <1>5, <2>1, <3>3
    <3> QED
      BY <3>2, <3>4, <3>5
  <2> QED
    BY <2>2, <2>3
<1> QED
  BY <1>4, <1>5, <1>7, <1>8, <1>10 DEF LeafListOrdered

LEMMA LevelsInOrder == ASSUME IInv, OInv PROVE Balanced
<1>1. SUFFICES ASSUME Sound, pc = "idle" PROVE Balanced
  BY DEF Balanced
<1>2. PICK lo \in Places, hi \in Places, at \in Places, top \in Nat : InOrder(lo, hi, at, top)
  BY <1>1 DEF OInv
<1>3. Placed(lo, hi, at, top) /\ Filled
  BY <1>2 DEF InOrder
<1>4. r_child = NoNode /\ Short = NoNode
  BY <1>1, IdleCall DEF Short
<1>5. Reached = alive
  BY <1>1, <1>3, <1>4, ReachedAll
<1>6. ASSUME NEW d \in 0 .. MaxNodes PROVE Level(d) \cap Leaves \in {{}, Level(d)}
  <2>1. d \in Nat
    BY BTreeBounds
  <2>2. Level(d) = {n \in alive : at[n] = d}
    BY <1>1, <1>3, <1>4, <2>1, LevelIs
  <2>3. \A n \in alive : n \in Leaves <=> at[n] = top
    BY <1>3 DEF Placed, Heights, Leaves
  <2>4. CASE d = top
    BY <2>2, <2>3, <2>4
  <2>5. CASE d # top
    BY <2>2, <2>3, <2>5
  <2> QED
    BY <2>4, <2>5
<1>7. \A n \in alive \ {root} : Len(heap[n].keys) >= Half
  <2>1. \A n \in alive : n # NoNode
    BY <1>1, SoundFacts
  <2> QED
    BY <1>3, <1>4, <2>1 DEF Filled
<1> QED
  BY <1>5, <1>6, <1>7 DEF Balanced

(* insert_in_btree_node, split and b_remove keep the leaves' next_leaf      *)
(* links in key order, also while split is still on its way up.            *)
THEOREM LeavesStayOrdered == Specs => []LeafListOrdered
<1>1. IInv /\ OInv => LeafListOrdered
  BY LeavesInOrder
<1> QED
  BY <1>1, Inductive, AlwaysInOrder, PTL

(* Once b_insert, b_remove or a query has returned, every node hangs from  *)
(* b->root, the leaves are on one level, and split and b_remove have left  *)
(* no node but the root less than half full.                               *)
THEOREM TreeStaysBalanced == Specs => []Balanced
<1>1. IInv /\ OInv => Balanced
  BY LevelsInOrder
<1> QED
  BY <1>1, Inductive, AlwaysInOrder, PTL

-----------------------------------------------------------------------------
(* The tree as an IndexMap.  The call in progress has taken effect.        *)
Done == pc \in {"split", "ascend", "newroot", "underflow"} /\ (r_child # NoNode \/ pc = "underflow")

PromiseStep == [Promise!Next]_(Promise!vars)

LEMMA Stutters ==
  ASSUME Contents' = Contents, Routing' = Routing, op' = op, answer' = answer,
         Done' <=> Done, Sound' <=> Sound
  PROVE  PromiseStep
<1>1. Done' = Done /\ (~Sound') = (~Sound)
  BY DEF Done, Sound
<1> QED
  BY <1>1 DEF PromiseStep, Promise!vars, Done

LEMMA Breaks ==
  ASSUME ~Sound'
  PROVE  PromiseStep
BY DEF PromiseStep, Promise!Next

(* The keys that lead a search are those the leaves start with. *)
LEMMA RoutingIs ==
  ASSUME IInv, Sound, NEW lo \in Places, NEW hi \in Places, NEW at, NEW top,
         Placed(lo, hi, at, top), NEW k \in Routing
  PROVE  k \in Contents /\ \E n \in Leaves : lo[n] = k
<1>1. PICK q \in alive \ Leaves : k \in ToSet(heap[q].keys)
  BY DEF Routing
<1>2. q \in Nodes /\ heap[q] \in NodeOf(Keys, Nat) /\ q # NoNode
  BY SoundFacts DEF IInv, StoreTypes
<1>3. k \in Keys
  BY <1>1, <1>2 DEF NodeOf, ToSet
<1>4. k \in ToSet(Now(q).keys)
  <2>1. CASE q = Waiter
    <3>1. promo \in Keys
      BY <1>2, <2>1, WaiterProps
    <3>2. PICK pos \in 0 .. Len(heap[q].keys) : pos = SearchPos(heap[q], promo)
      BY <1>2, SearchPosRange
    <3>3. Now(q) = InsertInNode(heap[q], promo, heap[r_child].rrn, pos)
      BY <2>1, <3>2 DEF Now
    <3>4. Added(heap[q], InsertInNode(heap[q], promo, heap[r_child].rrn, pos), promo)
      BY <1>2, <3>1, KeyAdded
    <3> QED
      BY <1>1, <3>3, <3>4 DEF Added
  <2>2. CASE q # Waiter
    BY <1>1, <2>2 DEF Now
  <2> QED
    BY <2>1, <2>2
<1>5. PICK n \in Leaves : lo[n] = k
  BY <1>1, <1>4 DEF Placed, Routed
<1>6. k # 0
  BY <1>3, KeysAssumption
<1>7. heap[n].keys # <<>> /\ heap[n].keys[1] = k /\ heap[n] \in NodeOf(Keys, Nat)
  BY <1>5, <1>6, LeafIs
<1>8. k \in ToSet(heap[n].keys)
  <2>1. heap[n].keys \in Seq(Keys)
    BY <1>7 DEF NodeOf
  <2>2. 1 \in DOMAIN heap[n].keys
    BY <1>7, <2>1
  <2> QED
    BY <1>7, <2>2 DEF ToSet
<1> QED
  BY <1>5, <1>8 DEF Contents

LEMMA RoutingPresent ==
  ASSUME IInv, OInv, Sound
  PROVE  Routing \subseteq Contents
<1>1. PICK lo \in Places, hi \in Places, at \in Places, top \in Nat : InOrder(lo, hi, at, top)
  BY DEF OInv
<1> QED
  BY <1>1, RoutingIs DEF InOrder

(* A key is in one leaf. *)
LEMMA KeyOnce ==
  ASSUME IInv, Sound, NEW lo \in Places, NEW hi \in Places, NEW at, NEW top,
         Placed(lo, hi, at, top), NEW m \in Leaves, NEW n \in Leaves,
         NEW k, k \in ToSet(heap[m].keys), k \in ToSet(heap[n].keys)
  PROVE  m = n
<1>1. /\ m \in alive /\ n \in alive /\ at[m] = at[n] /\ k \in Nat
      /\ lo[m] \in Nat /\ hi[m] \in Nat /\ lo[n] \in Nat /\ hi[n] \in Nat
      /\ lo[m] <= k /\ (hi[m] = 0 \/ k < hi[m])
      /\ lo[n] <= k /\ (hi[n] = 0 \/ k < hi[n])
  BY LeafIs
<1>2. m # n => Before(hi[m], lo[n]) \/ Before(hi[n], lo[m])
  BY <1>1 DEF Placed, Apart
<1> QED
  BY <1>1, <1>2 DEF Before

(* A key strictly inside the bounds of a leaf leads no search. *)
LEMMA NotRouted ==
  ASSUME IInv, Sound, NEW lo \in Places, NEW hi \in Places, NEW at, NEW top,
         Placed(lo, hi, at, top), NEW n \in Leaves, NEW k \in Keys, Gap(lo[n], hi[n], k)
  PROVE  k \notin Routing
<1>1. SUFFICES ASSUME k \in Routing PROVE FALSE
  OBVIOUS
<1>2. PICK m \in Leaves : lo[m] = k
  BY <1>1, RoutingIs
<1>3. /\ m \in alive /\ n \in alive /\ at[m] = at[n] /\ k \in Nat
      /\ lo[m] \in Nat /\ hi[m] \in Nat /\ lo[n] \in Nat /\ hi[n] \in Nat
      /\ hi[m] = 0 \/ lo[m] < hi[m]
  BY LeafIs, KeysAssumption DEF Covers
<1>4. m # n
  BY <1>2, <1>3 DEF Gap
<1>5. Before(hi[m], lo[n]) \/ Before(hi[n], lo[m])
  BY <1>3, <1>4 DEF Placed, Apart
<1> QED
  BY <1>2, <1>3, <1>5 DEF Before, Gap

LEMMA NoRoot ==
  ASSUME IInv, OInv, Sound, root = NoNode
  PROVE  Contents = {} /\ Routing = {}
<1>1. alive = {}
  BY DEF OInv, InOrder, Placed, Topped
<1> QED
  BY <1>1 DEF Contents, Routing, Leaves

(* What the tree holds as a whole does not change with the call. *)
LEMMA SameKeys ==
  ASSUME alive' = alive, heap' = heap
  PROVE  Contents' = Contents /\ Routing' = Routing /\ Leaves' = Leaves
BY DEF Contents, Routing, Leaves

RoutesPresent == Sound => Routing \subseteq Contents

LEMMA CallPromised ==
  ASSUME IInv, RoutesPresent', Ready, NEW request \in Requests,
         NEW where \in {"first", "descend", "find", "range"}, NEW key, Call(request, where, key)
  PROVE  PromiseStep
<1>1. SUFFICES ASSUME Sound' PROVE PromiseStep
  BY Breaks
<1>2. /\ op' = request /\ pc' = where /\ answer' = NoAnswer
      /\ UNCHANGED <<tree, r_child, status, faults>>
  BY DEF Call
<1>3. op = NoOp /\ pc = "idle" /\ r_child = NoNode
  BY IdleCall DEF Ready, IInv, Control
<1>4. Contents' = Contents /\ Routing' = Routing
  BY <1>2, SameKeys DEF tree
<1>5. ~Done /\ ~Done' /\ Sound
  BY <1>1, <1>2, <1>3 DEF Done, Sound
<1>6. Routing' \subseteq Contents'
  BY <1>1 DEF RoutesPresent
<1>7. Promise!Request
  BY <1>2, <1>3, <1>4, <1>5 DEF Promise!Request, Promise!Requests, Requests, Promise!NoAnswer,
     NoAnswer, Done
<1>8. Promise!Next
  BY <1>1, <1>5, <1>6, <1>7 DEF Promise!Next
<1> QED
  BY <1>8 DEF PromiseStep

LEMMA RequestPromised ==
  ASSUME IInv, RoutesPresent',
         \/ \E k \in Keys : InsertCall(k) \/ SearchCall(k) \/ RemoveCall(k)
         \/ \E from, to \in Keys : RangeCall(from, to)
  PROVE  PromiseStep
<1>1. ASSUME NEW k \in Keys, InsertCall(k) PROVE PromiseStep
  <2>1. PICK request \in Requests, where \in {"first", "descend", "find", "range"} :
          Ready /\ Call(request, where, k)
    BY <1>1 DEF InsertCall, Requests
  <2> QED
    BY <2>1, CallPromised
<1>2. ASSUME NEW k \in Keys, NEW kind \in {"search", "remove"}, FindCall(kind, k) PROVE PromiseStep
  <2>1. PICK request \in Requests : Ready /\ Call(request, "find", 0)
    BY <1>2 DEF FindCall, Requests
  <2> QED
    BY <2>1, CallPromised
<1>3. ASSUME NEW from \in Keys, NEW to \in Keys, RangeCall(from, to) PROVE PromiseStep
  <2>1. PICK request \in Requests : Ready /\ Call(request, "range", 0)
    BY <1>3 DEF RangeCall, Requests
  <2> QED
    BY <2>1, CallPromised
<1> QED
  BY <1>1, <1>2, <1>3 DEF SearchCall, RemoveCall

(* A call that has found out what is there returns. *)
LEMMA AnswerPromised ==
  ASSUME IInv, RoutesPresent', Sound, Sound', alive' = alive, heap' = heap, ~Done, pc # "idle",
         NEW code, NEW keys, ReturnKeys(code, keys),
         Promise!Truthful([code |-> code, keys |-> keys])
  PROVE  PromiseStep
<1>1. op # NoOp /\ op' = NoOp /\ pc' = "idle" /\ answer' = [code |-> code, keys |-> keys]
  BY DEF ReturnKeys, IInv, Control
<1>2. Contents' = Contents /\ Routing' = Routing /\ ~Done'
  BY <1>1, SameKeys DEF Done
<1>3. Promise!Truthful(answer')
  BY <1>1
<1>4. Promise!Return
  BY <1>1, <1>2, <1>3 DEF Promise!Return, Done
<1>5. Routing' \subseteq Contents'
  BY DEF RoutesPresent
<1> QED
  BY <1>4, <1>5 DEF Promise!Next, PromiseStep

(* One that takes effect and returns at once. *)
LEMMA EffectPromised ==
  ASSUME IInv, RoutesPresent', Sound, Sound', ~Done, pc # "idle", Return("ok"),
         \/ /\ op.kind = "insert" /\ op.key \notin Contents
            /\ Contents' = Contents \cup {op.key}
         \/ /\ op.kind = "remove" /\ op.key \in Contents \ Routing
            /\ Contents' = Contents \ {op.key} /\ Routing' = Routing
  PROVE  PromiseStep
<1>1. op # NoOp /\ op' = NoOp /\ pc' = "idle" /\ answer' = [code |-> "ok", keys |-> <<>>]
  BY DEF Return, ReturnKeys, IInv, Control
<1>2. ~Done' /\ answer'.code = "ok"
  BY <1>1 DEF Done
<1>3. Promise!Effect
  BY <1>1 DEF Promise!Effect, Done
<1>4. Promise!Return
  BY <1>1, <1>2, <1>3 DEF Promise!Return, Done
<1>5. Routing' \subseteq Contents'
  BY DEF RoutesPresent
<1> QED
  BY <1>4, <1>5 DEF Promise!Next, PromiseStep

(* One that takes effect before it returns. *)
LEMMA ApplyPromised ==
  ASSUME IInv, RoutesPresent', Sound, Sound', ~Done, Done', pc # "idle", op' = op, answer' = answer,
         \/ /\ op.kind = "insert" /\ op.key \notin Contents
            /\ Contents' = Contents \cup {op.key}
         \/ /\ op.kind = "remove" /\ op.key \in Contents \ Routing
            /\ Contents' = Contents \ {op.key} /\ Routing' = Routing
  PROVE  PromiseStep
<1>1. op # NoOp
  BY DEF IInv, Control
<1>2. Promise!Effect
  BY <1>1 DEF Promise!Effect, Done
<1>3. Promise!Apply
  BY <1>2 DEF Promise!Apply, Done
<1>4. Routing' \subseteq Contents'
  BY DEF RoutesPresent
<1> QED
  BY <1>3, <1>4 DEF Promise!Next, PromiseStep

(* One that took effect before, and returns or has its keys led otherwise. *)
LEMMA DonePromised ==
  ASSUME IInv, RoutesPresent', Sound, Sound', Done, Contents' = Contents,
         Return("ok") \/ (Done' /\ op' = op /\ answer' = answer /\ op.kind = "insert")
  PROVE  PromiseStep
<1>1. op # NoOp
  BY DEF IInv, Control, Done
<1>2. Routing' \subseteq Contents'
  BY DEF RoutesPresent
<1>3. CASE Return("ok")
  <2>1. op' = NoOp /\ pc' = "idle" /\ answer'.code = "ok"
    BY <1>3 DEF Return, ReturnKeys
  <2>2. ~Done'
    BY <2>1 DEF Done
  <2>3. Promise!Return
    BY <1>1, <2>1, <2>2 DEF Promise!Return, Done
  <2> QED
    BY <1>2, <2>3 DEF Promise!Next, PromiseStep
<1>4. CASE Done' /\ op' = op /\ answer' = answer /\ op.kind = "insert"
  <2>1. Done' = Done
    BY <1>4 DEF Done
  <2>2. Promise!Reroute
    BY <1>4, <2>1 DEF Promise!Reroute, Done
  <2> QED
    BY <1>2, <2>2 DEF Promise!Next, PromiseStep
<1> QED
  BY <1>3, <1>4

(* A step that only reads nodes. *)
LEMMA ReadPromised ==
  ASSUME UNCHANGED <<tree, faults, status>>, op' = op, answer' = answer, ~Done, ~Done'
  PROVE  PromiseStep
<1>1. heap' = heap /\ alive' = alive /\ Sound' = Sound
  BY DEF tree, Sound
<1>2. Contents' = Contents /\ Routing' = Routing
  BY <1>1, SameKeys
<1> QED
  BY <1>1, <1>2, Stutters

LEMMA FoundIs ==
  ASSUME IInv, Sound, r_child = NoNode, NEW lo \in Places, NEW hi \in Places, NEW at, NEW top,
         Placed(lo, hi, at, top), NEW q \in alive, NEW k \in Keys, Found(heap[q], k)
  PROVE  k \in Contents /\ (~heap[q].leaf => k \in Routing)
<1>1. heap[q] \in NodeOf(Keys, Nat) /\ Ascending(heap[q].keys) /\ Keys \in SUBSET Nat
  BY PlainNode, KeysAssumption
<1>2. k \in ToSet(heap[q].keys)
  BY <1>1, FoundAmongKeys
<1>3. CASE heap[q].leaf
  BY <1>2, <1>3 DEF Contents, Leaves
<1>4. CASE ~heap[q].leaf
  <2>1. k \in Routing
    BY <1>2, <1>4 DEF Routing, Leaves
  <2> QED
    BY <2>1, RoutingIs
<1> QED
  BY <1>3, <1>4

LEMMA DescendPromised == ASSUME IInv, OInv, RoutesPresent', Descend PROVE PromiseStep
<1> DEFINE p == heap[curr]
           pos == SearchPos(p, promo)
           child == Load(p.children[pos + 1])
<1>1. SUFFICES ASSUME Sound' PROVE PromiseStep
  BY Breaks
<1>2. /\ pc = "descend" /\ curr \in alive /\ r_child = NoNode /\ promo \in Keys
      /\ UNCHANGED <<tree, faults, status>> /\ alive' = alive /\ heap' = heap
  BY DEF Descend, At, IInv, Control, tree
<1>3. Sound /\ ~Done
  BY <1>1, <1>2 DEF Sound, Done
<1>4. PICK lo \in Places, hi \in Places, at \in Places, top \in Nat : InOrder(lo, hi, at, top)
  BY <1>3 DEF OInv
<1>5. Placed(lo, hi, at, top) /\ Gap(lo[curr], hi[curr], promo) /\ op.kind = "insert" /\ promo = op.key
  BY <1>2, <1>4 DEF InOrder, InCall, Insertion, Kinds
<1>6. CASE Found(p, promo) /\ Return("duplicate")
  <2>1. op.key \in Contents
    BY <1>2, <1>3, <1>5, <1>6, FoundIs
  <2>2. Promise!Truthful([code |-> "duplicate", keys |-> <<>>])
    BY <1>5, <2>1 DEF Promise!Truthful
  <2> QED
    BY <1>1, <1>2, <1>3, <1>6, <2>2, AnswerPromised DEF Return
<1>7. CASE pc' = (IF Full(p) THEN "split" ELSE "leaf") /\ UNCHANGED <<op, frame, answer>>
  <2>1. ~Done' /\ op' = op /\ answer' = answer
    BY <1>2, <1>7 DEF Done, frame
  <2> QED
    BY <1>2, <1>3, <2>1, ReadPromised
<1>8. CASE UNCHANGED <<op, pc, promo, r_child, seen, answer>>
  <2>1. ~Done' /\ op' = op /\ answer' = answer
    BY <1>2, <1>8 DEF Done
  <2> QED
    BY <1>2, <1>3, <2>1, ReadPromised
<1>9. CASE ~Found(p, promo) /\ ~p.leaf /\ child = NoNode
  <2>1. child \in alive
    BY <1>2, <1>3, <1>5, <1>9, GoesDown
  <2> QED
    BY <1>3, <1>9, <2>1, SoundFacts
<1> QED
  BY <1>6, <1>7, <1>8, <1>9 DEF Descend

LEMMA RangeTruthful ==
  ASSUME op.kind = "range", NEW s, Ascending(s),
         ToSet(s) = {k \in Contents : op.from <= k /\ k <= op.to}
  PROVE  Promise!Truthful([code |-> "keys", keys |-> s])
<1>1. PICK a : a = [code |-> "keys", keys |-> s]
  OBVIOUS
<1>2. a.code = "keys" /\ a.keys = s
  BY <1>1
<1>3. Promise!ToSet(s) = ToSet(s)
  BY DEF Promise!ToSet, ToSet
<1>4. \A i, j \in DOMAIN a.keys : i < j => a.keys[i] < a.keys[j]
  BY <1>2 DEF Ascending
<1>5. Promise!ToSet(a.keys) = {k \in Contents : op.from <= k /\ k <= op.to}
  BY <1>2, <1>3
<1>6. Promise!Truthful(a)
  BY <1>2, <1>4, <1>5 DEF Promise!Truthful
<1> QED
  BY <1>1, <1>6

LEMMA NoRootPromised ==
  ASSUME IInv, OInv, RoutesPresent', FindNoRoot \/ RangeNoRoot
  PROVE  PromiseStep
<1>1. SUFFICES ASSUME Sound' PROVE PromiseStep
  BY Breaks
<1>2. /\ pc \in {"find", "range"} /\ curr = NoNode /\ alive' = alive /\ heap' = heap
      /\ UNCHANGED <<faults, status>>
  BY DEF FindNoRoot, RangeNoRoot, tree
<1>3. Sound /\ ~Done
  BY <1>1, <1>2 DEF Sound, Done
<1>4. PICK lo \in Places, hi \in Places, at \in Places, top \in Nat : InOrder(lo, hi, at, top)
  BY <1>3 DEF OInv
<1>5. root = NoNode /\ (pc = "find" => op.kind \in {"search", "remove"}) /\ (pc = "range" => op.kind = "range")
  BY <1>2, <1>4 DEF InOrder, InCall, Kinds
<1>6. Contents = {} /\ Routing = {}
  BY <1>3, <1>5, NoRoot
<1>7. CASE FindNoRoot
  <2>1. pc = "find" /\ ReturnKeys("not found", <<>>)
    BY <1>7 DEF FindNoRoot, Return
  <2>2. Promise!Truthful([code |-> "not found", keys |-> <<>>])
    BY <1>5, <1>6, <2>1 DEF Promise!Truthful
  <2> QED
    BY <1>1, <1>2, <1>3, <2>1, <2>2, AnswerPromised
<1>8. CASE RangeNoRoot
  <2>1. pc = "range" /\ ReturnKeys("keys", <<>>)
    BY <1>8 DEF RangeNoRoot
  <2>2. Ascending(<<>>) /\ ToSet(<<>>) = {}
    BY DEF Ascending, ToSet
  <2>3. Promise!Truthful([code |-> "keys", keys |-> <<>>])
    BY <1>5, <1>6, <2>1, <2>2, RangeTruthful
  <2> QED
    BY <1>1, <1>2, <1>3, <2>1, <2>3, AnswerPromised
<1> QED
  BY <1>7, <1>8

LEMMA FindInternalPromised == ASSUME IInv, OInv, RoutesPresent', FindInternal PROVE PromiseStep
<1> DEFINE p == heap[curr]
           child == Load(p.children[SearchPos(p, op.key) + 1])
<1>1. SUFFICES ASSUME Sound' PROVE PromiseStep
  BY Breaks
<1>2. /\ pc = "find" /\ curr \in alive /\ status = "running" /\ status' = "running" /\ ~p.leaf
      /\ r_child = NoNode /\ op.key \in Keys
      /\ UNCHANGED <<tree, faults, status>> /\ alive' = alive /\ heap' = heap
  BY <1>1 DEF FindInternal, At, IInv, Control, tree, Sound
<1>3. Sound /\ ~Done
  BY <1>1, <1>2 DEF Sound, Done
<1>4. PICK lo \in Places, hi \in Places, at \in Places, top \in Nat : InOrder(lo, hi, at, top)
  BY <1>3 DEF OInv
<1>5. Placed(lo, hi, at, top) /\ op.kind \in {"search", "remove"}
  BY <1>2, <1>4 DEF InOrder, InCall, Kinds
<1>6. CASE Found(p, op.key) /\ Return(IF op.kind = "search" THEN "null" ELSE "not found")
  <2>1. op.key \in Routing
    BY <1>2, <1>3, <1>5, <1>6, FoundIs
  <2>2. PICK code : code = IF op.kind = "search" THEN "null" ELSE "not found"
    OBVIOUS
  <2>3. Promise!Truthful([code |-> code, keys |-> <<>>])
    BY <1>5, <2>1, <2>2 DEF Promise!Truthful
  <2>4. ReturnKeys(code, <<>>)
    BY <1>6, <2>2 DEF Return
  <2> QED
    BY <1>1, <1>2, <1>3, <2>3, <2>4, AnswerPromised
<1>7. CASE UNCHANGED <<op, pc, path, promo, r_child, seen, answer, status>>
  <2>1. ~Done' /\ op' = op /\ answer' = answer
    BY <1>2, <1>7 DEF Done
  <2> QED
    BY <1>2, <1>3, <2>1, ReadPromised
<1> QED
  BY <1>2, <1>6, <1>7 DEF FindInternal

LEMMA FindLeafPromised == ASSUME IInv, OInv, RoutesPresent', FindLeaf PROVE PromiseStep
<1>1. SUFFICES ASSUME Sound' PROVE PromiseStep
  BY Breaks
<1>2. /\ pc = "find" /\ curr \in alive /\ heap[curr].leaf /\ r_child = NoNode /\ op.key \in Keys
      /\ UNCHANGED <<tree, faults, status>> /\ alive' = alive /\ heap' = heap
  BY DEF FindLeaf, At, IInv, Control, tree
<1>3. Sound /\ ~Done /\ curr \in Leaves
  BY <1>1, <1>2 DEF Sound, Done, Leaves
<1>4. PICK lo \in Places, hi \in Places, at \in Places, top \in Nat : InOrder(lo, hi, at, top)
  BY <1>3 DEF OInv
<1>5. curr # NoNode
  BY <1>2, <1>3, SoundFacts
<1>6. Placed(lo, hi, at, top) /\ op.kind \in {"search", "remove"} /\ Gap(lo[curr], hi[curr], op.key)
  BY <1>2, <1>4, <1>5 DEF InOrder, InCall, Kinds, Removal
<1>7. (Found(heap[curr], op.key) <=> op.key \in Contents) /\ op.key \notin Routing
  BY <1>2, <1>3, <1>6, InLeaf, NotRouted
<1>8. CASE pc' = "remove" /\ UNCHANGED <<op, frame, answer>>
  <2>1. ~Done' /\ op' = op /\ answer' = answer
    BY <1>8 DEF Done
  <2> QED
    BY <1>2, <1>3, <2>1, ReadPromised
<1>9. CASE Found(heap[curr], op.key) /\ op.kind = "search" /\ Return("found")
  <2>1. Promise!Truthful([code |-> "found", keys |-> <<>>])
    BY <1>7, <1>9 DEF Promise!Truthful
  <2> QED
    BY <1>1, <1>2, <1>3, <1>9, <2>1, AnswerPromised DEF Return
<1>10. CASE ~Found(heap[curr], op.key) /\ Return("not found")
  <2>1. Promise!Truthful([code |-> "not found", keys |-> <<>>])
    BY <1>6, <1>7, <1>10 DEF Promise!Truthful
  <2> QED
    BY <1>1, <1>2, <1>3, <1>10, <2>1, AnswerPromised DEF Return
<1> QED
  BY <1>8, <1>9, <1>10 DEF FindLeaf

LEMMA AllocationFailsPromised == ASSUME IInv, OInv, RoutesPresent', AllocationFails PROVE PromiseStep
<1>1. SUFFICES ASSUME Sound' PROVE PromiseStep
  BY Breaks
<1>2. /\ status = "running" /\ pc \in {"first", "split", "newroot"}
      /\ pc # "first" => curr \in alive
      /\ alive' = alive /\ heap' = heap /\ status' = status
      /\ faults' = faults \cup (IF r_child = NoNode THEN {} ELSE {"mem"})
      /\ ReturnKeys("memory", <<>>)
  BY DEF AllocationFails, Allocating, At, Return, tree
<1>3. Sound /\ r_child = NoNode
  BY <1>1, <1>2 DEF Sound
<1>4. pc \in {"first", "split"} /\ ~Done
  BY <1>2, <1>3 DEF Done, IInv, Control
<1>5. PICK lo \in Places, hi \in Places, at \in Places, top \in Nat : InOrder(lo, hi, at, top)
  BY <1>3 DEF OInv
<1>6. op.kind = "insert" /\ promo = op.key /\ promo \in Keys
  BY <1>3, <1>4, <1>5 DEF InOrder, InCall, Kinds, IInv, Control
<1>7. op.key \notin Contents
  <2>1. CASE pc = "first"
    <3>1. root = NoNode
      BY <2>1 DEF IInv, Control
    <3> QED
      BY <1>3, <3>1, NoRoot
  <2>2. CASE pc = "split"
    <3>1. curr \in Leaves
      BY <1>2, <1>3, <2>2 DEF IInv, Control, Leaves
    <3>2. Placed(lo, hi, at, top) /\ Gap(lo[curr], hi[curr], promo) /\ ~Found(heap[curr], promo)
      BY <1>3, <1>5, <2>2 DEF InOrder, InCall, Insertion
    <3> QED
      BY <1>3, <1>6, <3>1, <3>2, InLeaf
  <2> QED
    BY <1>4, <2>1, <2>2
<1>8. Promise!Truthful([code |-> "memory", keys |-> <<>>])
  BY <1>6, <1>7 DEF Promise!Truthful
<1> QED
  BY <1>1, <1>2, <1>3, <1>4, <1>8, AnswerPromised

LEMMA RangeDownPromised == ASSUME IInv, OInv, RoutesPresent', RangeDown PROVE PromiseStep
<1> DEFINE p == heap[curr]
           child == Load(p.children[RangePos(p, op.from) + 1])
<1>1. SUFFICES ASSUME Sound' PROVE PromiseStep
  BY Breaks
<1>2. /\ pc = "range" /\ curr \in alive /\ ~p.leaf /\ r_child = NoNode /\ op.from \in Nat
      /\ UNCHANGED <<tree, faults, status>>
  BY KeysAssumption DEF RangeDown, At, IInv, Control
<1>3. Sound /\ ~Done
  BY <1>1, <1>2 DEF Sound, Done
<1>4. PICK lo \in Places, hi \in Places, at \in Places, top \in Nat : InOrder(lo, hi, at, top)
  BY <1>3 DEF OInv
<1>5. p \in NodeOf(Keys, Nat) /\ Ascending(p.keys) /\ Keys \in SUBSET Nat
  BY <1>2, <1>3, <1>4, PlainNode, KeysAssumption DEF InOrder
<1>6. PICK pos \in 0 .. Len(p.keys) : pos = RangePos(p, op.from)
  BY <1>2, <1>5, RangePosRange
<1>7. child # NoNode
  BY <1>2, <1>3, <1>4, <1>6, PlainChild DEF InOrder
<1>8. UNCHANGED <<op, pc, r_child, answer>>
  BY <1>7 DEF RangeDown
<1>9. ~Done' /\ op' = op /\ answer' = answer
  BY <1>2, <1>8 DEF Done
<1> QED
  BY <1>2, <1>3, <1>9, ReadPromised

LEMMA RangeLeafPromised == ASSUME IInv, OInv, RoutesPresent', RangeLeaf PROVE PromiseStep
<1> DEFINE p == heap[curr]
           next == Load(p.next_leaf)
<1>1. SUFFICES ASSUME Sound' PROVE PromiseStep
  BY Breaks
<1>2. /\ pc = "range" /\ curr \in alive /\ p.leaf /\ r_child = NoNode
      /\ UNCHANGED <<tree, faults, status>> /\ alive' = alive /\ heap' = heap
  BY DEF RangeLeaf, At, IInv, Control, tree
<1>3. Sound /\ ~Done /\ curr \in Leaves
  BY <1>1, <1>2 DEF Sound, Done, Leaves
<1>4. PICK lo \in Places, hi \in Places, at \in Places, top \in Nat : InOrder(lo, hi, at, top)
  BY <1>3 DEF OInv
<1>5. Placed(lo, hi, at, top) /\ InCall(lo, hi) /\ op.kind = "range" /\ Ascending(seen)
  BY <1>2, <1>4 DEF InOrder, InCall, Kinds, Query
<1>6. PICK found : found = seen \o InRange(heap[curr], op.from, op.to)
  OBVIOUS
<1>7. /\ Ascending(found)
      /\ ToSet(found) = {k \in Contents : /\ op.from <= k /\ k <= op.to
                                          /\ hi[curr] # 0 => k < hi[curr]}
      /\ heap[curr].keys # <<>> /\ heap[curr].keys[1] > op.to =>
           ToSet(seen) = {k \in Contents : op.from <= k /\ k <= op.to}
  BY <1>2, <1>3, <1>5, <1>6, FoundInLeaf
<1>8. CASE p.keys # <<>> /\ p.keys[1] > op.to /\ ReturnKeys("keys", seen)
  <2>1. Promise!Truthful([code |-> "keys", keys |-> seen])
    BY <1>5, <1>7, <1>8, RangeTruthful
  <2> QED
    BY <1>1, <1>2, <1>3, <1>8, <2>1, AnswerPromised
<1>9. CASE (p.next_leaf = NoRrn \/ next = NoNode) /\ ReturnKeys("keys", found)
  <2>1. hi[curr] = 0
    <3>1. SUFFICES ASSUME hi[curr] # 0 PROVE FALSE
      OBVIOUS
    <3>2. PICK m \in Leaves : heap[m].rrn = p.next_leaf
      BY <1>3, <1>5, <3>1 DEF Placed, Linked
    <3>3. m \in alive /\ next = m /\ m # NoNode
      BY <1>3, <3>2, SoundFacts DEF Leaves
    <3>4. p.next_leaf \in Nat
      BY <3>2, <3>3 DEF IInv, Numbers
    <3> QED
      BY <1>9, <3>3, <3>4 DEF NoRrn
  <2>2. ToSet(found) = {k \in Contents : op.from <= k /\ k <= op.to}
    BY <1>7, <2>1
  <2>3. Promise!Truthful([code |-> "keys", keys |-> found])
    BY <1>5, <1>7, <2>2, RangeTruthful
  <2> QED
    BY <1>1, <1>2, <1>3, <1>9, <2>3, AnswerPromised
<1>10. CASE UNCHANGED <<op, pc, path, promo, r_child, answer>>
  <2>1. ~Done' /\ op' = op /\ answer' = answer
    BY <1>2, <1>10 DEF Done
  <2> QED
    BY <1>2, <1>3, <2>1, ReadPromised
<1> QED
  BY <1>6, <1>8, <1>9, <1>10 DEF RangeLeaf, Past

LEMMA StoppingPromised ==
  ASSUME \/ ReadPastKeys \/ AllocationCrashes \/ RrnClashes \/ UncheckedAllocationCrashes
         \/ UseAfterFree \/ StaleRead
  PROVE  PromiseStep
<1>1. status' # "running"
  BY DEF ReadPastKeys, AllocationCrashes, RrnClashes, UncheckedAllocationCrashes, UseAfterFree,
         StaleRead
<1> QED
  BY <1>1, Breaks DEF Sound

LEMMA UnderflowPromised == ASSUME IInv, OInv, Underflow PROVE PromiseStep
<1>1. At("underflow") /\ status' = status
  BY DEF Underflow
<1>2. ASSUME NEW h, NEW ns, NEW m, NEW dropped, WriteAs(h, alive, ns, m, dropped, {"rebalanced"})
      PROVE  ~Sound'
  BY <1>2 DEF WriteAs, Sound
<1>3. ASSUME NEW donor, NEW from_left, Redistribute(donor, from_left) PROVE ~Sound'
  BY <1>2, <1>3 DEF Redistribute
<1>4. ASSUME NEW l, NEW r, Merge(l, r) PROVE ~Sound'
  BY <1>2, <1>4 DEF Merge
<1>5. CASE Beside(-1) = NoNode /\ Beside(1) = NoNode /\ faults' = faults
  <2>1. ~Sound
    BY <1>1, <1>5, HasSibling DEF At
  <2> QED
    BY <1>1, <1>5, <2>1, Breaks DEF Sound
<1> QED
  BY <1>3, <1>4, <1>5, Breaks DEF Underflow

(* Other keys in the leaf curr are other keys in the index. *)
LEMMA LeafChanges ==
  ASSUME IInv, Sound, curr \in Leaves, NEW q, q.leaf = heap[curr].leaf,
         heap' = [heap EXCEPT ![curr] = q], alive' = alive
  PROVE  /\ Routing' = Routing
         /\ \A k : k \in Contents' <=> \/ k \in ToSet(q.keys)
                                       \/ \E n \in Leaves : n # curr /\ k \in ToSet(heap[n].keys)
<1>1. alive \subseteq Nodes /\ DOMAIN heap = Nodes /\ curr \in alive /\ heap[curr].leaf
  BY SoundFacts DEF IInv, StoreTypes, Leaves
<1>2. heap'[curr] = q /\ \A n \in alive : n # curr => heap'[n] = heap[n]
  BY <1>1
<1>3. \A n \in alive : heap'[n].leaf <=> heap[n].leaf
  BY <1>1, <1>2
<1>4. Leaves' = Leaves
  BY <1>3 DEF Leaves
<1>5. Routing' = Routing
  <2>1. \A n \in alive \ Leaves : heap'[n].keys = heap[n].keys
    BY <1>2
  <2> QED
    BY <1>4, <2>1 DEF Routing
<1>6. ASSUME NEW k
      PROVE  k \in Contents' <=> \/ k \in ToSet(q.keys)
                                 \/ \E n \in Leaves : n # curr /\ k \in ToSet(heap[n].keys)
  <2>1. k \in Contents' <=> \E n \in Leaves : k \in ToSet(heap'[n].keys)
    BY <1>4 DEF Contents
  <2>2. \A n \in Leaves : heap'[n].keys = IF n = curr THEN q.keys ELSE heap[n].keys
    BY <1>2 DEF Leaves
  <2> QED
    BY <2>1, <2>2
<1> QED
  BY <1>5, <1>6

LEMMA InContents ==
  ASSUME NEW k
  PROVE  k \in Contents <=> \E n \in Leaves : k \in ToSet(heap[n].keys)
BY DEF Contents

LEMMA FirstRootPromised == ASSUME IInv, OInv, RoutesPresent', FirstRoot PROVE PromiseStep
<1>1. SUFFICES ASSUME Sound' PROVE PromiseStep
  BY Breaks
<1>2. PICK N, rrn, w : FirstInto(N, rrn, w)
  BY <1>1, FirstRootDone
<1>3. /\ pc = "first" /\ Sound /\ root = NoNode /\ promo \in Nat /\ w = RootLeaf(rrn, promo)
      /\ alive' = alive \cup {N} /\ heap'[N] = w /\ Return("ok")
  BY <1>2 DEF FirstInto
<1>4. alive = {} /\ ~Done
  BY <1>3 DEF OInv, InOrder, Placed, Topped, Done, IInv, Control
<1>5. op.kind = "insert" /\ promo = op.key
  BY <1>3 DEF OInv, InOrder, InCall, Kinds
<1>6. Contents = {}
  BY <1>4 DEF Contents, Leaves
<1>7. Contents' = {promo}
  <2>1. w.leaf = TRUE /\ w.keys = <<promo>>
    BY <1>3 DEF RootLeaf, Blank
  <2>2. Leaves' = {N}
    BY <1>3, <1>4, <2>1 DEF Leaves
  <2>3. ToSet(<<promo>>) = {promo}
    BY DEF ToSet
  <2> QED
    BY <1>3, <2>1, <2>2, <2>3 DEF Contents
<1> QED
  BY <1>1, <1>3, <1>4, <1>5, <1>6, <1>7, EffectPromised

LEMMA LeafInsertPromised == ASSUME IInv, OInv, RoutesPresent', LeafInsert PROVE PromiseStep
<1>1. SUFFICES ASSUME Sound' PROVE PromiseStep
  BY Breaks
<1>2. PICK q : LeafTook(q)
  BY <1>1, LeafInsertDone
<1>3. /\ pc = "leaf" /\ Sound /\ r_child = NoNode /\ promo \in Keys /\ q.leaf = heap[curr].leaf
      /\ curr \in Leaves /\ alive' = alive /\ heap' = [heap EXCEPT ![curr] = q] /\ Return("ok")
      /\ ToSet(q.keys) = ToSet(heap[curr].keys) \cup {promo}
  BY <1>2 DEF LeafTook, Leaves
<1>4. PICK lo \in Places, hi \in Places, at \in Places, top \in Nat : InOrder(lo, hi, at, top)
  BY <1>3 DEF OInv
<1>5. Placed(lo, hi, at, top) /\ Gap(lo[curr], hi[curr], promo) /\ ~Found(heap[curr], promo)
      /\ op.kind = "insert" /\ promo = op.key
  BY <1>3, <1>4 DEF InOrder, InCall, Insertion, Kinds
<1>6. promo \notin Contents
  BY <1>3, <1>5, InLeaf
<1>7. Contents' = Contents \cup {promo}
  <2>1. \A k : k \in Contents' <=> \/ k \in ToSet(q.keys)
                                   \/ \E n \in Leaves : n # curr /\ k \in ToSet(heap[n].keys)
    BY <1>3, LeafChanges
  <2>2. \A k : k \in Contents' <=> k \in Contents \/ k = promo
    BY <1>3, <2>1, InContents
  <2> QED
    BY <2>2
<1> QED
  BY <1>1, <1>3, <1>5, <1>6, <1>7, EffectPromised DEF Done

LEMMA RemoveKeyPromised == ASSUME IInv, OInv, RoutesPresent', RemoveKey PROVE PromiseStep
<1>1. SUFFICES ASSUME Sound' PROVE PromiseStep
  BY Breaks
<1>2. PICK q : LeafGave(q)
  BY <1>1, RemoveKeyDone
<1>3. /\ pc = "remove" /\ Sound /\ r_child = NoNode /\ op.key \in Keys /\ op.key \in Nat
      /\ q.leaf = heap[curr].leaf /\ q = WithoutKey(heap[curr], op.key)
      /\ Found(heap[curr], op.key) /\ heap[curr] \in NodeOf(Keys, Nat) /\ Shaped(heap[curr])
      /\ heap[curr].leaf /\ curr \in alive /\ curr # NoNode
      /\ curr \in Leaves /\ alive' = alive /\ heap' = [heap EXCEPT ![curr] = q]
  BY <1>2 DEF LeafGave, Leaves
<1>4. PICK lo \in Places, hi \in Places, at \in Places, top \in Nat : InOrder(lo, hi, at, top)
  BY <1>3 DEF OInv
<1>5. Placed(lo, hi, at, top) /\ op.kind = "remove"
  BY <1>3, <1>4 DEF InOrder, InCall, Kinds
<1>6. Gap(lo[curr], hi[curr], op.key)
  BY <1>3, <1>4 DEF InOrder, InCall, Removal
<1>7. op.key \in Contents \ Routing
  BY <1>3, <1>5, <1>6, InLeaf, NotRouted
<1>8. ToSet(q.keys) = ToSet(heap[curr].keys) \ {op.key} /\ op.key \in ToSet(heap[curr].keys)
  <2>1. Keys \in SUBSET Nat /\ Ascending(heap[curr].keys)
    BY <1>3, <1>5, LeafIs, KeysAssumption
  <2>2. Lacks(heap[curr], WithoutKey(heap[curr], op.key), op.key)
    BY <1>3, <2>1, KeyGone
  <2>3. op.key \in ToSet(heap[curr].keys)
    BY <1>3, <2>1, FoundAmongKeys
  <2> QED
    BY <1>3, <2>2, <2>3 DEF Lacks
<1>9. Routing' = Routing
  BY <1>3, LeafChanges
<1>10. Contents' = Contents \ {op.key}
  <2>1. \A k : k \in Contents' <=> \/ k \in ToSet(q.keys)
                                   \/ \E n \in Leaves : n # curr /\ k \in ToSet(heap[n].keys)
    BY <1>3, LeafChanges
  <2>2. \A n \in Leaves : n # curr => op.key \notin ToSet(heap[n].keys)
    BY <1>3, <1>5, <1>8, KeyOnce
  <2>3. \A k : k \in Contents' <=> k \in Contents /\ k # op.key
    BY <1>3, <1>8, <2>1, <2>2, InContents
  <2> QED
    BY <2>3
<1>11. ~Done
  BY <1>3 DEF Done
<1>12. CASE pc' = "underflow" /\ UNCHANGED <<op, frame, answer>>
  <2>1. Done'
    BY <1>12 DEF Done
  <2> QED
    BY <1>1, <1>3, <1>5, <1>7, <1>9, <1>10, <1>11, <1>12, <2>1, ApplyPromised
<1>13. CASE Return("ok")
  BY <1>1, <1>3, <1>5, <1>7, <1>9, <1>10, <1>11, <1>13, EffectPromised
<1> QED
  BY <1>2, <1>12, <1>13 DEF LeafGave

LEMMA SplitPromised == ASSUME IInv, OInv, RoutesPresent', Split PROVE PromiseStep
<1>1. SUFFICES ASSUME Sound' PROVE PromiseStep
  BY Breaks
<1>2. PICK N, rrn, u, v, k : SplitInto(N, rrn, u, v, k)
  BY <1>1, SplitDone
<1>3. /\ pc = "split" /\ Sound /\ curr \in alive /\ N \notin alive
      /\ alive' = alive \cup {N} /\ heap'[curr] = u /\ heap'[N] = v
      /\ \A n \in alive : n # curr => heap'[n] = heap[n]
      /\ u.leaf = heap[curr].leaf /\ v.leaf = heap[curr].leaf
      /\ r_child' = N /\ N # NoNode /\ pc' = (IF path = <<>> THEN "newroot" ELSE "ascend") /\ op' = op
  BY <1>2 DEF SplitInto
<1>4. PICK lo \in Places, hi \in Places, at \in Places, top \in Nat : InOrder(lo, hi, at, top)
  BY <1>3 DEF OInv
<1>5. PICK lo2, hi2, at2, t : Divided(lo, hi, at, lo2, hi2, at2, N, rrn, u, v, k, t)
  BY <1>2, <1>4, DividedNow
<1>6. answer' = answer /\ Done' /\ op.kind = "insert"
  <2>1. pc' # "idle"
    BY <1>3
  <2>2. answer' = answer
    BY <2>1 DEF Split, Return, ReturnKeys
  <2> QED
    BY <1>3, <1>4, <2>2 DEF Done, InOrder, InCall, Kinds
<1>7. CASE heap[curr].leaf
  <2>1. r_child = NoNode /\ promo \in Keys /\ curr \in Leaves /\ curr # NoNode
    BY <1>3, <1>7, SoundFacts DEF IInv, Control, Leaves
  <2>2. /\ Placed(lo, hi, at, top) /\ Gap(lo[curr], hi[curr], promo) /\ ~Found(heap[curr], promo)
        /\ promo = op.key
    BY <1>3, <1>4, <2>1 DEF InOrder, InCall, Insertion, Kinds
  <2>3. promo \notin Contents
    BY <1>3, <2>1, <2>2, InLeaf
  <2>4. ToSet(u.keys) \cup ToSet(v.keys) = ToSet(heap[curr].keys) \cup {promo}
    <3>1. heap[curr] \in NodeOf(Keys, Nat)
      BY <1>3, <2>1, <2>2, LeafIs
    <3>2. PICK pos \in 0 .. Len(heap[curr].keys) : pos = SearchPos(heap[curr], promo)
      BY <3>1, SearchPosRange
    <3>3. Added(heap[curr], InsertInNode(heap[curr], promo, ChildRrn, pos), promo)
      BY <2>1, <3>1, KeyAdded
    <3>4. t = InsertInNode(heap[curr], promo, ChildRrn, pos)
      BY <1>5, <3>2 DEF Divided
    <3>5. ToSet(t.keys) = ToSet(u.keys) \cup ToSet(v.keys)
      BY <1>5, <1>7 DEF Divided, Parted
    <3> QED
      BY <3>3, <3>4, <3>5 DEF Added
  <2>5. Leaves' = Leaves \cup {N} /\ N \notin Leaves
    BY <1>3, <1>7 DEF Leaves
  <2>6. \A n \in Leaves : n # curr => n # N /\ heap'[n].keys = heap[n].keys
    BY <1>3 DEF Leaves
  <2>7. \A x : x \in Contents' <=> \E n \in Leaves \cup {N} : x \in ToSet(heap'[n].keys)
    BY <2>5 DEF Contents
  <2>8. ASSUME NEW x PROVE x \in Contents' <=> x \in Contents \/ x = promo
    <3>1. x \in ToSet(u.keys) \/ x \in ToSet(v.keys) <=> x \in ToSet(heap[curr].keys) \/ x = promo
      BY <2>4
    <3>2. x \in Contents' <=> \/ x \in ToSet(u.keys) \/ x \in ToSet(v.keys)
                              \/ \E n \in Leaves : n # curr /\ x \in ToSet(heap[n].keys)
      BY <1>3, <2>1, <2>6, <2>7
    <3> QED
      BY <2>1, <3>1, <3>2, InContents
  <2>9. Contents' = Contents \cup {op.key}
    BY <2>2, <2>8
  <2>10. ~Done
    BY <1>3, <2>1 DEF Done
  <2> QED
    BY <1>1, <1>3, <1>6, <2>2, <2>3, <2>9, <2>10, ApplyPromised
<1>8. CASE ~heap[curr].leaf
  <2>1. Done
    BY <1>3, <1>8 DEF Done, IInv, Control
  <2>2. Leaves' = Leaves /\ \A n \in Leaves : heap'[n] = heap[n]
    BY <1>3, <1>8 DEF Leaves
  <2>3. Contents' = Contents
    BY <2>2 DEF Contents
  <2> QED
    BY <1>1, <1>3, <1>6, <2>1, <2>3, DonePromised
<1> QED
  BY <1>7, <1>8

LEMMA AscendPromised == ASSUME IInv, OInv, RoutesPresent', Ascend PROVE PromiseStep
<1>1. SUFFICES ASSUME Sound' PROVE PromiseStep
  BY Breaks
<1>2. PICK P : P = Last(path).node
  OBVIOUS
<1>3. Done
  BY DEF Ascend, At, Done, IInv, Control
<1>4. ASSUME NEW m \in Successes(1),
             Write([heap EXCEPT ![P] = InsertInNode(@, promo, ChildRrn, Last(path).pos)],
                   alive, <<P>>, m, {}),
             Return(IF m = 1 THEN "ok" ELSE "io")
      PROVE  PromiseStep
  <2>1. PICK q : ParentTook(P, q)
    BY <1>1, <1>2, <1>4, AscendRoomDone
  <2>2. /\ Sound /\ alive' = alive /\ Return("ok") /\ P = Last(path).node /\ pc = "ascend"
        /\ q.leaf = heap[P].leaf /\ heap'[P] = q /\ \A n \in alive : n # P => heap'[n] = heap[n]
    BY <2>1 DEF ParentTook
  <2>3. heap[P].leaf = FALSE
    BY <2>2, FrameAbove
  <2>4. Leaves' = Leaves /\ \A n \in Leaves : heap'[n] = heap[n]
    BY <2>2, <2>3 DEF Leaves
  <2>5. Contents' = Contents
    BY <2>4 DEF Contents
  <2> QED
    BY <1>1, <1>3, <2>2, <2>5, DonePromised
<1>5. CASE pc' = "split" /\ UNCHANGED <<heap, cache, alive, op, promo, r_child, seen, answer, faults>>
  <2>1. status' = status /\ r_child # NoNode
    BY DEF Ascend, At, IInv, Control
  <2>2. Done' /\ (Sound' <=> Sound)
    BY <1>5, <2>1 DEF Done, Sound
  <2>3. Contents' = Contents /\ Routing' = Routing
    BY <1>5, SameKeys
  <2> QED
    BY <1>3, <1>5, <2>2, <2>3, Stutters
<1> QED
  BY <1>2, <1>4, <1>5 DEF Ascend

LEMMA NewRootPromised == ASSUME IInv, OInv, RoutesPresent', NewRoot PROVE PromiseStep
<1>1. SUFFICES ASSUME Sound' PROVE PromiseStep
  BY Breaks
<1>2. PICK N, rrn, w : RootInto(N, rrn, w)
  BY <1>1, NewRootDone
<1>3. /\ pc = "newroot" /\ Sound /\ alive' = alive \cup {N} /\ N \notin alive /\ heap'[N] = w
      /\ \A n \in alive : heap'[n] = heap[n]
      /\ w = RootNode(rrn, promo, heap[root].rrn, heap[r_child].rrn) /\ Return("ok")
  BY <1>2 DEF RootInto
<1>4. w.leaf = FALSE
  BY <1>3 DEF RootNode, Blank
<1>5. Leaves' = Leaves /\ \A n \in Leaves : heap'[n] = heap[n]
  BY <1>3, <1>4 DEF Leaves
<1>6. Contents' = Contents
  BY <1>5 DEF Contents
<1>7. Done
  BY <1>3 DEF Done, IInv, Control
<1> QED
  BY <1>1, <1>3, <1>6, <1>7, DonePromised

LEMMA NextPromised == ASSUME IInv, OInv, RoutesPresent', [Next]_vars PROVE PromiseStep
<1>1. CASE FirstRoot \/ Descend \/ LeafInsert \/ Split \/ Ascend \/ NewRoot
  BY <1>1, FirstRootPromised, DescendPromised, LeafInsertPromised, SplitPromised, AscendPromised,
     NewRootPromised
<1>2. CASE \/ AllocationFails \/ AllocationCrashes \/ RrnClashes \/ ReadPastKeys
           \/ UncheckedAllocationCrashes \/ UseAfterFree \/ StaleRead
  BY <1>2, AllocationFailsPromised, StoppingPromised
<1>3. CASE FindNoRoot \/ FindInternal \/ FindLeaf \/ RangeNoRoot
  BY <1>3, NoRootPromised, FindInternalPromised, FindLeafPromised
<1>4. CASE RemoveKey \/ Underflow \/ RangeDown \/ RangeLeaf
  BY <1>4, RemoveKeyPromised, UnderflowPromised, RangeDownPromised, RangeLeafPromised
<1>5. CASE \/ \E k \in Keys : InsertCall(k) \/ SearchCall(k) \/ RemoveCall(k)
           \/ \E from, to \in Keys : RangeCall(from, to)
  BY <1>5, RequestPromised
<1>6. CASE UNCHANGED vars
  <2>1. /\ heap' = heap /\ alive' = alive /\ op' = op /\ pc' = pc /\ r_child' = r_child
        /\ answer' = answer /\ status' = status /\ faults' = faults
    BY <1>6 DEF vars, tree, frame
  <2>2. (Done' <=> Done) /\ (Sound' <=> Sound)
    BY <2>1 DEF Done, Sound
  <2> QED
    BY <2>1, <2>2, SameKeys, Stutters
<1> QED
  BY <1>1, <1>2, <1>3, <1>4, <1>5, <1>6 DEF Next, Step

LEMMA StartsPromised ==
  ASSUME IInv, OInv, Idle
  PROVE  Promise!Init
<1>1. /\ op = NoOp /\ pc = "idle" /\ answer = NoAnswer /\ status = "running" /\ faults = {}
      /\ r_child = NoNode
  BY DEF Idle
<1>2. Sound /\ ~Done
  BY <1>1 DEF Sound, Done
<1>3. Contents \subseteq Keys /\ Routing \subseteq Contents
  BY <1>2, ContentsTyped, RoutingPresent
<1> QED
  BY <1>1, <1>2, <1>3 DEF Promise!Init, Promise!NoAnswer, NoAnswer, Done

(* b_insert, b_search, b_remove and b_range_search, with the splits below   *)
(* them, do to the keys of the index what IndexMap says, one call at a     *)
(* time, and answer truthfully, until the first fault.                     *)
THEOREM TreeKeepsPromise == Specs => KeepsPromise
<1>1. Init => Idle
  BY DEF Init
<1>2. WarmInit => Idle
  BY DEF WarmInit
<1>3. IInv /\ OInv /\ Idle => Promise!Init
  BY StartsPromised
<1>4. IInv /\ OInv => RoutesPresent
  BY RoutingPresent DEF RoutesPresent
<1>5. IInv /\ OInv /\ RoutesPresent' /\ [Next]_vars => [Promise!Next]_(Promise!vars)
  BY NextPromised DEF PromiseStep
<1> QED
  BY <1>1, <1>2, <1>3, <1>4, <1>5, Inductive, AlwaysInOrder, PTL
     DEF Specs, Spec, WarmSpec, AnySpec, FairSpec, KeepsPromise, Promise!Spec
=============================================================================
